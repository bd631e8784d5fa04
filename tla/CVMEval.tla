------------------------------ MODULE CVMEval -------------------------------
(***************************************************************************)
(* The engine's two calls as functions of a machine: eval_witness() and    *)
(* eval_schedule() of src/src/cvm/lib/main.ts, each loop a fold.  CVM.tla   *)
(* takes the same calls step by step and is checked against this module.    *)
(***************************************************************************)
EXTENDS CVMState, SequencesExt

-----------------------------------------------------------------------------
(* run_schedule() and run_task().                                           *)

\* One update of a task, unless there is an output already.
TryInput(m, input) ==
    IF m.output = Null /\ Accepts(m, input) THEN UpdateVMState(m, input) ELSE m

\* An action of a task, on each of its paths or on none.
TryAction(m, t, action) ==
    IF action \in PATH_ACTIONS
    THEN FoldLeft(LAMBDA n, path : TryInput(n, TaskInput(t, action, path)), m, TaskPaths(t))
    ELSE TryInput(m, TaskInput(t, action, Null))

\* The whole task, and the shift() after it.
RunTask(m, t) ==
    LET n == FoldLeft(LAMBDA u, action : TryAction(u, t, action), m, TaskActions(t))
    IN  [n EXCEPT !.tasks = IF @ = <<>> THEN @ ELSE Tail(@)]

\* A task of the list, if it is due and there is no output.
RunNext(m, t, stop_at) ==
    IF m.output = Null /\ Due(t, stop_at) THEN RunTask(m, t) ELSE m

RunDue(m, stop_at) == FoldLeft(LAMBDA n, t : RunNext(n, t, stop_at), m, m.tasks)

-----------------------------------------------------------------------------
(* run_program(): the machine after it, and whether the loop goes on.       *)

\* Mutant: a statement that wants more signatures ends the evaluation.
RunProgramOrEnd(m, w) ==
    LET n == AfterExec(m, w)
        u == UpdateVMState(n, WitnessInput(w))
    IN  CASE ~Loads(w) -> [m |-> m, flow |-> "throw"]
          [] Loads(w) /\ ExecThrows(m, w) -> [m |-> [n EXCEPT !.error = TRUE], flow |-> "end"]
          [] Loads(w) /\ ~ExecThrows(m, w) /\ ~ExecPasses(m, w) -> [m |-> n, flow |-> "end"]
          [] Loads(w) /\ ExecPasses(m, w) /\ Accepts(n, WitnessInput(w)) ->
                [m |-> u, flow |-> IF u.closed THEN "end" ELSE "next"]
          [] OTHER -> [m |-> [n EXCEPT !.error = TRUE], flow |-> "end"]

RunProgram(m, w) ==
    LET n == AfterExec(m, w)
        u == UpdateVMState(n, WitnessInput(w))
    IN  CASE ~Loads(w) -> [m |-> m, flow |-> "throw"]
          [] Loads(w) /\ ExecThrows(m, w) -> [m |-> [n EXCEPT !.error = TRUE], flow |-> "end"]
          [] Loads(w) /\ ~ExecThrows(m, w) /\ ~ExecPasses(m, w) -> [m |-> n, flow |-> "next"]
          [] Loads(w) /\ ExecPasses(m, w) /\ Accepts(n, WitnessInput(w)) ->
                [m |-> u, flow |-> IF u.closed THEN "end" ELSE "next"]
          [] Loads(w) /\ ExecPasses(m, w) /\ Crashes(n, WitnessInput(w)) ->
                [m |-> m, flow |-> "throw"]
          [] OTHER -> [m |-> [n EXCEPT !.error = TRUE], flow |-> "end"]

EvalStatement(r, w) ==
    LET n == RunDue(r.m, w.stamp)
    IN  IF r.flow # "next" THEN r
        ELSE IF n.closed THEN [m |-> n, flow |-> "end"]
        ELSE RunProgram(n, w)

-----------------------------------------------------------------------------
(* The calls.  A call that throws leaves its caller with the machine it had. *)

EvalSchedule(m, stop_at) == IF m.output # Null THEN m ELSE RunDue(m, stop_at)

EvalResult(m, ws) ==
    FoldLeft(EvalStatement, [m |-> [m EXCEPT !.error = FALSE], flow |-> "next"],
             GetStatements(ws))

EvalWitness(m, ws) ==
    LET r == EvalResult(m, ws)
    IN  IF m.output # Null \/ r.flow = "throw" THEN m ELSE r.m
=============================================================================
