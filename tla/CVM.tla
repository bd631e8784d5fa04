-------------------------------- MODULE CVM ---------------------------------
(***************************************************************************)
(* One machine as its host runs it: src/src/cvm/lib/main.ts, with the loops *)
(* of schedule.ts and program.ts.  `data` is the MachineData the host       *)
(* holds.  A call of eval or run revives a working copy `vm`, runs due      *)
(* tasks and programs on it one update at a time, and hands it back, or     *)
(* throws, and then the host is left with the old data.  Every internal     *)
(* step is deterministic; only the calls and their arguments are chosen.    *)
(***************************************************************************)
EXTENDS CVMState

CONSTANTS
    Batches,        \* the arrays of witness statements a host may submit
    StopTimes       \* the stop_at values a host may run the schedule to

ASSUME CallsAssumption ==
    /\ \A ws \in Batches : ws \in Seq(Witness)
    /\ StopTimes \subseteq Int

VARIABLES
    data,       \* the machine as last returned to the host
    vm,         \* the working copy of the call in progress
    pc,         \* where the call stands
    stack,      \* statements not yet evaluated, in stamp order
    stop_at,    \* run_schedule()'s bound
    queue,      \* tasks run_schedule() has not yet looked at
    acts,       \* actions run_task() has not yet finished
    left        \* paths it has not yet tried for the current action

vars == <<data, vm, pc, stack, stop_at, queue, acts, left>>

loopVars == <<stack, stop_at, queue, acts, left>>

Init ==
    /\ data = InitVM
    /\ vm = data
    /\ pc = "idle"
    /\ stack = <<>> /\ queue = <<>> /\ acts = <<>> /\ left = <<>>
    /\ stop_at = ActiveAt

\* The call returns machine m to the host.
Return(m) ==
    /\ data' = m
    /\ vm' = m
    /\ pc' = "idle"
    /\ stack' = <<>> /\ queue' = <<>> /\ acts' = <<>> /\ left' = <<>>
    /\ stop_at' = ActiveAt

\* Mutant: the schedule is brought up to the last commit only.
RunScheduleStale(m, t) ==
    /\ vm' = m
    /\ pc' = "schedule"
    /\ stop_at' = m.commit_at
    /\ queue' = m.tasks
    /\ UNCHANGED <<data, acts, left>>

\* run_schedule(m, t) begins.
RunSchedule(m, t) ==
    /\ vm' = m
    /\ pc' = "schedule"
    /\ stop_at' = t
    /\ queue' = m.tasks
    /\ UNCHANGED <<data, acts, left>>

-----------------------------------------------------------------------------
(* The host's calls, CVM.eval and CVM.run of cvm/index.ts.  Both return at  *)
(* once on a machine with an output.                                        *)

Eval(ws) ==
    /\ pc = "idle"
    /\ data.output = Null
    /\ IF ws = <<>>
       THEN Return([data EXCEPT !.error = FALSE])
       ELSE /\ stack' = GetStatements(ws)
            /\ RunSchedule([data EXCEPT !.error = FALSE], stack'[1].stamp)

Run(t) ==
    /\ pc = "idle"
    /\ data.output = Null
    /\ RunSchedule(data, t)
    /\ UNCHANGED stack

-----------------------------------------------------------------------------
(* run_schedule() and run_task().                                           *)

SkipTask ==
    /\ pc = "schedule"
    /\ queue # <<>>
    /\ ~Due(Head(queue), stop_at)
    /\ queue' = Tail(queue)
    /\ UNCHANGED <<data, vm, pc, stack, stop_at, acts, left>>

StartTask ==
    /\ pc = "schedule"
    /\ queue # <<>>
    /\ Due(Head(queue), stop_at)
    /\ pc' = "task"
    /\ acts' = TaskActions(Head(queue))
    /\ left' = TaskPaths(Head(queue))
    /\ UNCHANGED <<data, vm, stack, stop_at, queue>>

\* One update of a task; whatever it throws is swallowed.
TryUpdate(input) ==
    vm' = IF Accepts(vm, input) THEN UpdateVMState(vm, input) ELSE vm

\* Mutant: run_task() goes on after an output.
TaskOnEveryPath ==
    /\ pc = "task"
    /\ acts # <<>> /\ left # <<>>
    /\ Head(acts) \in PATH_ACTIONS
    /\ TryUpdate(TaskInput(Head(queue), Head(acts), Head(left)))
    /\ left' = Tail(left)
    /\ UNCHANGED <<data, pc, stack, stop_at, queue, acts>>

\* Mutant: the first refusal ends the action on all paths.
TaskUntilRefused ==
    /\ pc = "task"
    /\ acts # <<>> /\ left # <<>>
    /\ Head(acts) \in PATH_ACTIONS
    /\ TryUpdate(TaskInput(Head(queue), Head(acts), Head(left)))
    /\ acts' = IF vm'.output # Null THEN <<>> ELSE acts
    /\ left' = IF vm'.output # Null \/ vm' = vm THEN <<>> ELSE Tail(left)
    /\ UNCHANGED <<data, pc, stack, stop_at, queue>>

\* The task's action on one more path.  An output ends the task.
TaskOnPath ==
    /\ pc = "task"
    /\ acts # <<>> /\ left # <<>>
    /\ Head(acts) \in PATH_ACTIONS
    /\ TryUpdate(TaskInput(Head(queue), Head(acts), Head(left)))
    /\ IF vm'.output # Null
       THEN acts' = <<>> /\ left' = <<>>
       ELSE acts' = acts /\ left' = Tail(left)
    /\ UNCHANGED <<data, pc, stack, stop_at, queue>>

\* An action that takes no path.
TaskWithoutPath ==
    /\ pc = "task"
    /\ acts # <<>>
    /\ Head(acts) \notin PATH_ACTIONS
    /\ TryUpdate(TaskInput(Head(queue), Head(acts), Null))
    /\ acts' = Tail(acts)
    /\ UNCHANGED <<data, pc, stack, stop_at, queue, left>>

NextTaskAction ==
    /\ pc = "task"
    /\ acts # <<>> /\ left = <<>>
    /\ Head(acts) \in PATH_ACTIONS
    /\ acts' = Tail(acts)
    /\ left' = TaskPaths(Head(queue))
    /\ UNCHANGED <<data, vm, pc, stack, stop_at, queue>>

\* Mutant: the tasks are run and not shifted.
FinishTaskUnshifted ==
    /\ pc = "task"
    /\ acts = <<>>
    /\ pc' = "schedule"
    /\ queue' = IF vm.output # Null THEN <<>> ELSE Tail(queue)
    /\ left' = <<>>
    /\ UNCHANGED <<data, vm, stack, stop_at, acts>>

\* data.tasks.shift() takes off whatever task stands first.
FinishTask ==
    /\ pc = "task"
    /\ acts = <<>>
    /\ vm' = [vm EXCEPT !.tasks = IF @ = <<>> THEN @ ELSE Tail(@)]
    /\ pc' = "schedule"
    /\ queue' = IF vm.output # Null THEN <<>> ELSE Tail(queue)
    /\ left' = <<>>
    /\ UNCHANGED <<data, stack, stop_at, acts>>

\* eval_schedule() returns; eval_witness() returns if the machine is closed.
FinishSchedule ==
    /\ pc = "schedule"
    /\ queue = <<>>
    /\ IF stack = <<>> \/ vm.closed
       THEN Return(vm)
       ELSE /\ pc' = "program"
            /\ UNCHANGED <<data, vm, loopVars>>

-----------------------------------------------------------------------------
(* run_program() on the first statement of the stack.                       *)

\* What run_program() throws outside of VMError leaves eval_witness().
ThrowsOut(w) ==
    \/ ~Loads(w)
    \/ /\ ExecPasses(vm, w)
       /\ Crashes(AfterExec(vm, w), WitnessInput(w))

Fails(w) ==
    \/ ExecThrows(vm, w)
    \/ /\ ExecPasses(vm, w)
       /\ ~Accepts(AfterExec(vm, w), WitnessInput(w))

\* The loop of eval_witness() goes on with machine m, or ends.
NextStatement(m) ==
    IF m.closed \/ Tail(stack) = <<>>
    THEN Return(m)
    ELSE /\ stack' = Tail(stack)
         /\ RunSchedule(m, stack[2].stamp)

\* Mutant: what the call did before the exception stays.
ProgramThrowsKeeps ==
    /\ pc = "program"
    /\ ThrowsOut(Head(stack))
    /\ Return(vm)

\* The host gets an exception, the working copy is lost.
ProgramThrows ==
    /\ pc = "program"
    /\ ThrowsOut(Head(stack))
    /\ Return(data)

\* A VMError: what the program recorded stays, the rest of the stack is dropped.
ProgramFails ==
    /\ pc = "program"
    /\ ~ThrowsOut(Head(stack))
    /\ Fails(Head(stack))
    /\ Return([AfterExec(vm, Head(stack)) EXCEPT !.error = TRUE])

\* The program recorded keys and wants more.
ProgramPends ==
    /\ pc = "program"
    /\ Loads(Head(stack))
    /\ ~ExecThrows(vm, Head(stack)) /\ ~ExecPasses(vm, Head(stack))
    /\ NextStatement(AfterExec(vm, Head(stack)))

ProgramPasses ==
    LET w == Head(stack) IN
    /\ pc = "program"
    /\ Loads(w)
    /\ ExecPasses(vm, w)
    /\ Accepts(AfterExec(vm, w), WitnessInput(w))
    /\ NextStatement(UpdateVMState(AfterExec(vm, w), WitnessInput(w)))

-----------------------------------------------------------------------------
Call ==
    \/ \E ws \in Batches : Eval(ws)
    \/ \E t \in StopTimes : Run(t)

Internal ==
    \/ SkipTask \/ StartTask \/ FinishTask \/ FinishSchedule
    \/ TaskOnPath \/ TaskWithoutPath \/ NextTaskAction
    \/ ProgramThrows \/ ProgramFails \/ ProgramPends \/ ProgramPasses

Next == Call \/ Internal

Spec == Init /\ [][Next]_vars

\* The code of a call is synchronous, so a call that has begun goes on.
CallsReturn == WF_vars(Internal)

\* The host keeps polling the schedule, however many statements it evaluates
\* in between.
HostPolls == \A t \in StopTimes : SF_vars(Run(t))

FairSpec == Spec /\ CallsReturn /\ HostPolls

-----------------------------------------------------------------------------
(* Types.                                                                   *)

\* The host's machine and the working copy are machine records, and the loops of
\* a call hold statements, tasks, actions and paths (types/vm.ts, machine.ts).
TypeOK ==
    /\ data \in Machine
    /\ vm \in Machine
    /\ pc \in {"idle", "schedule", "task", "program"}
    /\ stop_at \in Int
    /\ stack \in Seq(Witness)
    /\ queue \in Seq(Task)
    /\ acts \in Seq(STRING)
    /\ left \in Seq(STRING)

-----------------------------------------------------------------------------
(* Safety.                                                                  *)

\* A path is marked spent in one case alone: it is the output of a closed
\* machine.  So no two paths are ever spent, and eval and run never leave a
\* spent path on a machine that could still be evaluated (state.ts, main.ts).
OnlyOutputSpent ==
    \A p \in PathSet :
        data.paths[p] = "spent" => data.output = p /\ data.closed

\* A path that was ever disputed becomes the output through a resolve and
\* nothing else: no vote that was under way, and no scheduled spend, gets
\* past the dispute (action.ts, schedule.ts).
DisputedOnlyResolved ==
    \A i \in DOMAIN data.head :
        (data.head[i].action = "dispute" /\ data.head[i].path = data.output) =>
            data.head[Len(data.head)].action = "resolve"

\* A statement reaches the chain only if as many distinct members as the
\* program's threshold are on record for this action on this path (endorse.ts).
QuorumBacked ==
    \A i \in DOMAIN data.head :
        LET e     == data.head[i]
            prog  == ProgramOf([prog_id |-> e.wid])
            votes == {v \in data.store :
                        /\ v.prog_id = e.wid
                        /\ v.action = e.action /\ v.path = e.path
                        /\ v.pub \in prog.members}
        IN  (e.wid # Vmid /\ prog.method = "endorse") =>
                Cardinality({v.pub : v \in votes}) >= prog.thold

\* A schedule closes the machine at most once at any one time: two tasks that do
\* make two commits that are the same.
ClosesOnce ==
    \A i, j \in DOMAIN Schedule :
        \A a \in DOMAIN TaskActions(Schedule[i]), b \in DOMAIN TaskActions(Schedule[j]) :
            (/\ TaskActions(Schedule[i])[a] = "close" /\ TaskActions(Schedule[j])[b] = "close"
             /\ Schedule[i].at = Schedule[j].at) => i = j /\ a = b

\* No pending task lies before the latest commit, so none is refused when it
\* falls due: a statement is never let in ahead of an earlier task (main.ts
\* runs the schedule before each statement, check_update_stamp would drop it).
PendingTasksTimely ==
    \A i \in DOMAIN data.tasks : data.commit_at <= data.tasks[i].at + ActiveAt

\* shift() takes off the task that has just run: none is committed twice
\* and none is lost (schedule.ts; timers are not negative, see README).
TasksRunOnce ==
    LET all == InitTasks(Schedule)
        n   == Len(data.tasks)
    IN  /\ data.tasks = SubSeq(all, Len(all) - n + 1, Len(all))
        /\ \A i, j \in DOMAIN data.head :
              (i < j /\ data.head[i].wid = Vmid) => data.head[i] # data.head[j]

\* Once its schedule is worked off, an undecided machine is one on which each
\* path that was due to be spent is disputed or locked; and if it was due to
\* close, it is closed (schedule.ts, action.ts).
ScheduleDecides ==
    \A i \in DOMAIN Schedule :
        LET t  == Schedule[i]
            at == t.at + ActiveAt
            Names(expr, label, all) ==
                \E k \in DOMAIN AccessList(expr, all) :
                    AccessList(expr, all)[k] = label
        IN  (data.tasks = <<>> /\ at < ExpiresAt /\ data.output = Null) =>
              /\ Names(t.actions, "close", ValidActionList) => data.closed
              /\ Names(t.actions, "spend", ValidActionList) =>
                    \A p \in PathSet :
                        Names(t.paths, p, PathNames) =>
                            data.paths[p] \in {"disputed", "locked"}

-----------------------------------------------------------------------------
(* The machine keeps the promise of CommitLog.                              *)

Promise ==
    INSTANCE CommitLog WITH
        Outcomes <- PathSet, Undecided <- Null,
        From <- ActiveAt, Until <- ExpiresAt,
        log <- data.head, closed <- data.closed, outcome <- data.output

\* What the host sees of the machine is an append-only, time-ordered log with
\* one final outcome (main.ts's early returns, state.ts).
KeepsPromise == Promise!Spec

-----------------------------------------------------------------------------
(* Liveness.                                                                *)

\* A machine whose members all walk away is decided by its schedule, unless
\* every path has come to be disputed (escrow.json's walk-away cases).
ScheduleSettles ==
    <>(data.closed \/ \A p \in PathSet : data.paths[p] = "disputed")

\* A closed machine is never changed again (docs/data/machine.md).
ClosedIsFinal == [][data.closed => UNCHANGED data]_vars
=============================================================================
