----------------------------- MODULE CVM_proofs -----------------------------
(***************************************************************************)
(* What holds of every machine under every terms, every batch of           *)
(* statements and every polling of the schedule: the types, the safety     *)
(* invariants that concern the outcome, and the promise of CommitLog.       *)
(***************************************************************************)
EXTENDS CVMAtomic, CVMState_proofs

-----------------------------------------------------------------------------
(* The inductive invariant.  OnlyOutputSpent and DisputedOnlyResolved speak *)
(* of the host's machine alone, but a call brings the next one about on the *)
(* working copy, so the same must hold of vm, and vm must continue data.    *)
(* The last part is what the early returns of the loops guarantee: no       *)
(* update is ever tried on a machine that has its output.                   *)

Undecided ==
    /\ pc # "idle" => data.output = Null
    /\ (\/ pc = "program"
        \/ pc = "schedule" /\ queue # <<>>
        \/ pc = "task" /\ acts # <<>>) => vm.output = Null

LoopsReady ==
    /\ pc = "task" => queue # <<>>
    /\ pc = "program" => stack # <<>>

IInv ==
    /\ TypeOK
    /\ LoopsReady
    /\ Settled(data) /\ Settled(vm)
    /\ Continues(vm, data)
    /\ Undecided

\* What a step may do to the host's machine: nothing, or continue one without
\* an output.
HostStep == data' = data \/ (data.output = Null /\ Continues(data', data))

-----------------------------------------------------------------------------
(* The pieces the actions are made of.                                      *)

\* A call that returns a machine which continues the host's.
LEMMA ReturnStep ==
    ASSUME IInv, NEW m \in Machine, Settled(m), Continues(m, data),
           data.output = Null, Return(m)
    PROVE  IInv' /\ HostStep
<1>1. TypeOK'
  BY TermsAssumption DEF Return, TypeOK
<1>2. LoopsReady' /\ Undecided'
  BY DEF Return, LoopsReady, Undecided
<1>3. Continues(m, m)
  BY ContinuesItself
<1>4. Settled(data)' /\ Settled(vm)'
  BY DEF Return, Settled
<1>5. Continues(vm, data)'
  BY <1>3 DEF Return, Continues
<1>6. HostStep
  BY DEF Return, HostStep, Continues
<1> QED BY <1>1, <1>2, <1>4, <1>5, <1>6 DEF IInv

\* run_schedule() begins on a machine that continues the host's.
LEMMA RunScheduleStep ==
    ASSUME IInv, NEW m \in Machine, Settled(m), Continues(m, data),
           m.output = Null, data.output = Null,
           NEW t \in Int, RunSchedule(m, t), stack' \in Seq(Witness)
    PROVE  IInv' /\ HostStep
<1>1. TypeOK'
  BY DEF RunSchedule, TypeOK, IInv, Machine
<1>2. LoopsReady' /\ Undecided'
  BY DEF RunSchedule, LoopsReady, Undecided
<1>3. Settled(data)' /\ Settled(vm)'
  BY DEF RunSchedule, Settled, IInv
<1>4. Continues(vm, data)'
  BY DEF RunSchedule, Continues
<1>5. HostStep
  BY DEF RunSchedule, HostStep
<1> QED BY <1>1, <1>2, <1>3, <1>4, <1>5 DEF IInv

\* eval_witness() goes on to the next statement, or is done.
LEMMA NextStatementStep ==
    ASSUME IInv, NEW m \in Machine, Settled(m), Continues(m, data),
           data.output = Null, stack # <<>>, NextStatement(m)
    PROVE  IInv' /\ HostStep
<1>1. CASE m.closed \/ Tail(stack) = <<>>
  <2>1. Return(m)
    BY <1>1 DEF NextStatement
  <2> QED BY <2>1, ReturnStep
<1>2. CASE ~m.closed /\ Tail(stack) # <<>>
  <2>1. stack' = Tail(stack) /\ RunSchedule(m, stack[2].stamp)
    BY <1>2 DEF NextStatement
  <2>2. stack \in Seq(Witness)
    BY DEF IInv, TypeOK
  <2>3. Tail(stack) \in Seq(Witness) /\ 2 \in DOMAIN stack
    BY <2>2, <1>2
  <2>4. stack[2] \in Witness
    BY <2>2, <2>3
  <2>5. stack[2].stamp \in Int
    BY <2>4 DEF Witness
  <2>6. m.output = Null
    BY <1>2 DEF Settled
  <2> QED BY <2>1, <2>3, <2>5, <2>6, RunScheduleStep
<1> QED BY <1>1, <1>2

\* One update of a task, refused or not.
LEMMA TryUpdateStep ==
    ASSUME IInv, vm.output = Null, NEW input, TryUpdate(input),
           Accepts(vm, input) => input \in Input,
           input.action = "close" => input.path = Null
    PROVE  /\ vm' \in Machine
           /\ Settled(vm')
           /\ Continues(vm', data)
<1>1. vm \in Machine /\ data \in Machine /\ Settled(vm) /\ Continues(vm, data)
  BY DEF IInv, TypeOK
<1>2. CASE Accepts(vm, input)
  <2>1. vm' = UpdateVMState(vm, input) /\ input \in Input
    BY <1>2 DEF TryUpdate
  <2>2. UpdateVMState(vm, input) \in Machine
    BY <1>1, <1>2, <2>1, UpdateType
  <2>3. Settled(UpdateVMState(vm, input)) /\ Continues(UpdateVMState(vm, input), vm)
    BY <1>1, <1>2, <2>1, UpdateSettles
  <2>4. Continues(UpdateVMState(vm, input), data)
    BY <1>1, <2>2, <2>3, ContinuesTransitive
  <2> QED BY <2>1, <2>2, <2>3, <2>4
<1>3. CASE ~Accepts(vm, input)
  BY <1>1, <1>3 DEF TryUpdate
<1> QED BY <1>2, <1>3

-----------------------------------------------------------------------------
(* One lemma per group of actions: each keeps the invariant.                *)

\* The host's two calls.
LEMMA CallStep ==
    ASSUME IInv, Call
    PROVE  IInv' /\ HostStep
<1>1. data \in Machine /\ Settled(data)
  BY DEF IInv, TypeOK
<1>2. ASSUME NEW ws \in Batches, Eval(ws)
      PROVE  IInv' /\ HostStep
  <2> DEFINE m == [data EXCEPT !.error = FALSE]
  <2>1. m \in Machine
    BY <1>1 DEF Machine
  <2>2. /\ m.paths = data.paths /\ m.head = data.head /\ m.output = data.output
        /\ m.closed = data.closed /\ m.commit_at = data.commit_at
        /\ Len(data.head) \in Nat
    BY <1>1 DEF Machine
  <2>3. data.output = Null
    BY <1>2 DEF Eval
  <2> HIDE DEF m
  <2>4. Settled(m) /\ Continues(m, data)
    BY <1>1, <2>2, SameLogSettled
  <2>5. CASE ws = <<>>
    <3>1. Return(m)
      BY <1>2, <2>5 DEF Eval, m
    <3> QED BY <2>1, <2>3, <2>4, <3>1, ReturnStep
  <2>6. CASE ws # <<>>
    <3>1. stack' = GetStatements(ws) /\ RunSchedule(m, stack'[1].stamp)
      BY <1>2, <2>6 DEF Eval, m
    <3>2. ws \in Seq(Witness)
      BY CallsAssumption
    <3>3. stack' \in Seq(Witness) /\ Len(stack') = Len(ws)
      BY <3>1, <3>2, StatementsType
    <3>4. stack'[1] \in Witness
      BY <2>6, <3>2, <3>3
    <3>5. stack'[1].stamp \in Int
      BY <3>4 DEF Witness
    <3> QED BY <2>1, <2>2, <2>3, <2>4, <3>1, <3>3, <3>5, RunScheduleStep
  <2> QED BY <2>5, <2>6
<1>3. ASSUME NEW t \in StopTimes, Run(t)
      PROVE  IInv' /\ HostStep
  <2>1. t \in Int
    BY CallsAssumption
  <2>2. data.output = Null /\ RunSchedule(data, t) /\ stack' = stack
    BY <1>3 DEF Run
  <2>3. stack' \in Seq(Witness)
    BY <2>2 DEF IInv, TypeOK
  <2> QED BY <1>1, <2>1, <2>2, <2>3, ContinuesItself, RunScheduleStep
<1> QED BY <1>2, <1>3 DEF Call

\* The loops of run_schedule() and run_task().
LEMMA ScheduleStep ==
    ASSUME IInv,
           \/ SkipTask \/ StartTask \/ FinishTask \/ FinishSchedule
           \/ TaskOnPath \/ TaskWithoutPath \/ NextTaskAction
    PROVE  IInv' /\ HostStep
<1> USE DEF HostStep
<1>1. /\ TypeOK /\ LoopsReady /\ Undecided
      /\ Settled(data) /\ Settled(vm) /\ Continues(vm, data)
  BY DEF IInv
<1>2. /\ vm \in Machine /\ data \in Machine /\ queue \in Seq(Task)
      /\ acts \in Seq(STRING) /\ left \in Seq(STRING) /\ stack \in Seq(Witness)
  BY <1>1 DEF TypeOK
<1>3. queue # <<>> => Head(queue) \in Task /\ Tail(queue) \in Seq(Task)
  BY <1>2
<1>4. ASSUME vm' = vm, data' = data
      PROVE  Settled(data)' /\ Settled(vm)' /\ Continues(vm, data)'
  BY <1>1, <1>4
<1>5. CASE SkipTask
  BY <1>1, <1>3, <1>4, <1>5 DEF SkipTask, IInv, TypeOK, LoopsReady, Undecided
<1>6. CASE StartTask
  <2>1. TaskActions(Head(queue)) \in Seq(STRING) /\ TaskPaths(Head(queue)) \in Seq(STRING)
    BY <1>3, <1>6, TaskListsType DEF StartTask
  <2>2. TypeOK'
    BY <1>1, <1>6, <2>1 DEF StartTask, TypeOK
  <2>3. LoopsReady' /\ Undecided'
    BY <1>1, <1>6 DEF StartTask, LoopsReady, Undecided
  <2> QED BY <1>4, <1>6, <2>2, <2>3 DEF StartTask, IInv
<1>7. CASE FinishTask
  <2> DEFINE tasks == IF vm.tasks = <<>> THEN vm.tasks ELSE Tail(vm.tasks)
  <2> DEFINE m == [vm EXCEPT !.tasks = tasks]
  <2>0. tasks \in Seq(Task)
    <3>1. vm.tasks \in Seq(Task)
      BY <1>2 DEF Machine
    <3> QED BY <3>1
  <2>1. m \in Machine
    <3> HIDE DEF tasks
    <3> QED BY <1>2, <2>0 DEF Machine
  <2>2. /\ m.paths = vm.paths /\ m.head = vm.head /\ m.output = vm.output
        /\ m.closed = vm.closed /\ m.commit_at = vm.commit_at
        /\ Len(vm.head) \in Nat
    BY <1>2 DEF Machine
  <2> HIDE DEF m
  <2>3. Settled(m) /\ Continues(m, vm)
    BY <1>1, <2>2, SameLogSettled
  <2>4. Continues(m, data)
    BY <1>1, <1>2, <2>1, <2>3, ContinuesTransitive
  <2>5. vm' = m /\ data' = data
    BY <1>7 DEF FinishTask, m, tasks
  <2>6. TypeOK'
    <3>1. queue' \in Seq(Task) /\ left' \in Seq(STRING)
      BY <1>1, <1>3, <1>7 DEF FinishTask, LoopsReady
    <3>2. UNCHANGED <<data, stack, stop_at, acts>> /\ pc' = "schedule"
      BY <1>7 DEF FinishTask
    <3> QED BY <1>1, <2>1, <2>5, <3>1, <3>2 DEF TypeOK
  <2>7. LoopsReady' /\ Undecided'
    BY <1>1, <1>7, <2>2, <2>5 DEF FinishTask, LoopsReady, Undecided
  <2> QED BY <1>1, <2>3, <2>4, <2>5, <2>6, <2>7 DEF IInv
<1>8. CASE FinishSchedule
  <2>1. CASE stack = <<>> \/ vm.closed
    <3>1. Return(vm) /\ data.output = Null
      BY <1>1, <1>8, <2>1 DEF FinishSchedule, Undecided
    <3> QED BY <1>1, <1>2, <3>1, ReturnStep
  <2>2. CASE stack # <<>> /\ ~vm.closed
    <3>1. vm.output = Null
      BY <1>1, <2>2 DEF Settled
    <3>2. /\ pc = "schedule" /\ pc' = "program"
          /\ UNCHANGED <<data, vm, stack, stop_at, queue, acts, left>>
      BY <1>8, <2>2 DEF FinishSchedule, loopVars
    <3>3. TypeOK'
      BY <1>1, <3>2 DEF TypeOK
    <3>4. LoopsReady' /\ Undecided'
      BY <1>1, <2>2, <3>1, <3>2 DEF LoopsReady, Undecided
    <3> QED BY <1>4, <3>2, <3>3, <3>4 DEF IInv
  <2> QED BY <2>1, <2>2
<1>9. CASE TaskOnPath
  <2> DEFINE input == TaskInput(Head(queue), Head(acts), Head(left))
  <2>1. vm.output = Null /\ Head(acts) \in PATH_ACTIONS /\ TryUpdate(input)
    BY <1>1, <1>9 DEF TaskOnPath, Undecided
  <2>2. Head(queue) \in Task /\ Head(acts) \in STRING
    BY <1>1, <1>2, <1>3, <1>9 DEF TaskOnPath, LoopsReady
  <2>3. input.action # "close"
    BY <2>1 DEF TaskInput, PATH_ACTIONS
  <2>4. Accepts(vm, input) => input \in Input
    BY <2>2, <2>3, TermsAssumption DEF Accepts, KnownTarget, TaskInput, Input, Task
  <2> HIDE DEF input
  <2>5. vm' \in Machine /\ Settled(vm') /\ Continues(vm', data)
    BY <2>1, <2>3, <2>4, TryUpdateStep
  <2>6. TypeOK'
    <3>1. left' \in Seq(STRING) /\ acts' \in Seq(STRING)
      <4>1. /\ left # <<>>
            /\ \/ acts' = <<>> /\ left' = <<>>
               \/ acts' = acts /\ left' = Tail(left)
        BY <1>9, Zenon DEF TaskOnPath
      <4>2. Tail(left) \in Seq(STRING)
        BY <1>2, <4>1
      <4>3. <<>> \in Seq(STRING)
        OBVIOUS
      <4> QED BY <1>2, <4>1, <4>2, <4>3, Zenon
    <3>2. UNCHANGED <<data, pc, stack, stop_at, queue>>
      BY <1>9 DEF TaskOnPath
    <3> QED BY <1>1, <2>5, <3>1, <3>2 DEF TypeOK
  <2>7. LoopsReady' /\ Undecided'
    BY <1>1, <1>9 DEF TaskOnPath, LoopsReady, Undecided
  <2> QED BY <1>1, <1>9, <2>5, <2>6, <2>7 DEF TaskOnPath, IInv
<1>10. CASE TaskWithoutPath
  <2> DEFINE input == TaskInput(Head(queue), Head(acts), Null)
  <2>1. vm.output = Null /\ Head(acts) \notin PATH_ACTIONS /\ TryUpdate(input)
    BY <1>1, <1>10 DEF TaskWithoutPath, Undecided
  <2>2. Head(queue) \in Task /\ Head(acts) \in STRING
    BY <1>1, <1>2, <1>3, <1>10 DEF TaskWithoutPath, LoopsReady
  <2>3. input.path = Null
    BY DEF TaskInput
  <2>4. input \in Input
    BY <2>2, TermsAssumption DEF TaskInput, Input, Task
  <2> HIDE DEF input
  <2>5. vm' \in Machine /\ Settled(vm') /\ Continues(vm', data)
    BY <2>1, <2>3, <2>4, TryUpdateStep
  <2>6. vm'.output = Null
    <3>1. Accepts(vm, input) => UpdateVMState(vm, input).output = Null
      BY <1>2, <2>1, <2>3, <2>4, UpdateFields
    <3> QED BY <2>1, <3>1 DEF TryUpdate
  <2>7. TypeOK'
    BY <1>1, <1>10, <2>5 DEF TaskWithoutPath, TypeOK
  <2>8. LoopsReady' /\ Undecided'
    BY <1>1, <1>10, <2>6 DEF TaskWithoutPath, LoopsReady, Undecided
  <2> QED BY <1>1, <1>10, <2>5, <2>7, <2>8 DEF TaskWithoutPath, IInv
<1>11. CASE NextTaskAction
  <2>1. TaskPaths(Head(queue)) \in Seq(STRING)
    BY <1>1, <1>3, <1>11, TaskListsType DEF NextTaskAction, LoopsReady
  <2>2. TypeOK'
    BY <1>1, <1>11, <2>1 DEF NextTaskAction, TypeOK
  <2>3. LoopsReady' /\ Undecided'
    BY <1>1, <1>11 DEF NextTaskAction, LoopsReady, Undecided
  <2> QED BY <1>4, <1>11, <2>2, <2>3 DEF NextTaskAction, IInv
<1> QED BY <1>5, <1>6, <1>7, <1>8, <1>9, <1>10, <1>11

\* run_program() on a statement.
LEMMA ProgramStep ==
    ASSUME IInv, ProgramThrows \/ ProgramFails \/ ProgramPends \/ ProgramPasses
    PROVE  IInv' /\ HostStep
<1> DEFINE w == Head(stack)
<1> DEFINE m == AfterExec(vm, w)
<1>1. /\ TypeOK /\ LoopsReady /\ Undecided
      /\ Settled(data) /\ Settled(vm) /\ Continues(vm, data)
      /\ vm \in Machine /\ data \in Machine /\ stack \in Seq(Witness)
  BY DEF IInv, TypeOK
<1>2. /\ pc = "program" /\ stack # <<>>
      /\ data.output = Null /\ vm.output = Null
  BY <1>1 DEF ProgramThrows, ProgramFails, ProgramPends, ProgramPasses,
              LoopsReady, Undecided
<1>3. w \in Witness
  BY <1>1, <1>2
<1> HIDE DEF w
<1>4. ASSUME Loads(w)
      PROVE  /\ w.prog_id \in ProgIds
             /\ w.path = Null <=> w.action \notin PATH_ACTIONS
             /\ m \in Machine /\ Settled(m) /\ Continues(m, data)
             /\ m.output = Null
  <2>1. w.prog_id \in ProgIds /\ (w.path = Null <=> w.action \notin PATH_ACTIONS)
    BY <1>4 DEF Loads
  <2>2. m \in Machine /\ Settled(m) /\ Continues(m, vm) /\ m.output = vm.output
    BY <1>1, <1>3, <2>1, AfterExecType
  <2>3. Continues(m, data)
    BY <1>1, <2>2, ContinuesTransitive
  <2> QED BY <1>2, <2>1, <2>2, <2>3
<1> HIDE DEF m
<1>5. CASE ProgramThrows
  <2>1. Return(data)
    BY <1>5 DEF ProgramThrows
  <2> QED BY <1>1, <1>2, <2>1, ContinuesItself, ReturnStep
<1>6. CASE ProgramFails
  <2> DEFINE n == [m EXCEPT !.error = TRUE]
  <2>1. Loads(w) /\ Return(n)
    BY <1>6 DEF ProgramFails, ThrowsOut, m, w
  <2>2. m \in Machine /\ Settled(m) /\ Continues(m, data)
    BY <1>4, <2>1
  <2>3. n \in Machine
    BY <2>2 DEF Machine
  <2>4. /\ n.paths = m.paths /\ n.head = m.head /\ n.output = m.output
        /\ n.closed = m.closed /\ n.commit_at = m.commit_at
        /\ Len(m.head) \in Nat
    BY <2>2 DEF Machine
  <2> HIDE DEF n
  <2>5. Settled(n) /\ Continues(n, m)
    BY <2>2, <2>4, SameLogSettled
  <2>6. Continues(n, data)
    BY <1>1, <2>2, <2>3, <2>5, ContinuesTransitive
  <2> QED BY <1>2, <2>1, <2>3, <2>5, <2>6, ReturnStep
<1>7. CASE ProgramPends
  <2>1. Loads(w) /\ NextStatement(m)
    BY <1>7 DEF ProgramPends, m, w
  <2> QED BY <1>2, <1>4, <2>1, NextStatementStep
<1>8. CASE ProgramPasses
  <2> DEFINE input == WitnessInput(w)
  <2>1. Loads(w) /\ Accepts(m, input) /\ NextStatement(UpdateVMState(m, input))
    BY <1>8 DEF ProgramPasses, m, w
  <2>2. /\ w.prog_id \in ProgIds
        /\ w.path = Null <=> w.action \notin PATH_ACTIONS
        /\ m \in Machine /\ Settled(m) /\ Continues(m, data)
        /\ m.output = Null
    BY <1>4, <2>1
  <2>3. input.action = "close" => input.path = Null
    BY <2>2 DEF WitnessInput, PATH_ACTIONS
  <2>4. input \in Input
    BY <1>3, <2>1, <2>2 DEF WitnessInput, Input, Witness, Accepts, KnownTarget, PATH_ACTIONS
  <2> HIDE DEF input
  <2> DEFINE n == UpdateVMState(m, input)
  <2>5. n \in Machine
    BY <2>1, <2>2, <2>4, UpdateType
  <2>6. Settled(n) /\ Continues(n, m)
    BY <2>1, <2>2, <2>3, <2>4, UpdateSettles
  <2>7. NextStatement(n)
    BY <2>1
  <2> HIDE DEF n
  <2>8. Continues(n, data)
    BY <1>1, <2>2, <2>5, <2>6, ContinuesTransitive
  <2> QED BY <1>2, <2>5, <2>6, <2>7, <2>8, NextStatementStep
<1> QED BY <1>5, <1>6, <1>7, <1>8

LEMMA Initially == Init => IInv
<1> SUFFICES ASSUME Init PROVE IInv
  OBVIOUS
<1>1. InitVM \in Machine /\ Settled(InitVM) /\ InitVM.output = Null
  BY InitVMSettled
<1>2. data = InitVM /\ vm = InitVM
  BY DEF Init
<1>3. TypeOK
  BY <1>1, <1>2, TermsAssumption DEF Init, TypeOK
<1>4. LoopsReady /\ Undecided
  BY DEF Init, LoopsReady, Undecided
<1> QED BY <1>1, <1>2, <1>3, <1>4, ContinuesItself DEF IInv

LEMMA Stepwise == IInv /\ [Next]_vars => IInv' /\ HostStep
<1> SUFFICES ASSUME IInv, [Next]_vars PROVE IInv' /\ HostStep
  OBVIOUS
<1>1. CASE Call
  BY <1>1, CallStep
<1>2. CASE \/ SkipTask \/ StartTask \/ FinishTask \/ FinishSchedule
           \/ TaskOnPath \/ TaskWithoutPath \/ NextTaskAction
  BY <1>2, ScheduleStep
<1>3. CASE ProgramThrows \/ ProgramFails \/ ProgramPends \/ ProgramPasses
  BY <1>3, ProgramStep
<1>4. CASE UNCHANGED vars
  BY <1>4 DEF vars, IInv, TypeOK, LoopsReady, Undecided, HostStep
<1> QED BY <1>1, <1>2, <1>3, <1>4 DEF Next, Internal

-----------------------------------------------------------------------------
(* The theorems.                                                            *)

LEMMA Invariance == Spec => []IInv
<1>1. IInv /\ [Next]_vars => IInv'
  BY Stepwise
<1> QED BY <1>1, Initially, PTL DEF Spec

\* Whatever is submitted, the machine and the loops of a call keep their types.
THEOREM TypeCorrect == Spec => []TypeOK
<1>1. IInv => TypeOK
  BY DEF IInv
<1> QED BY <1>1, Invariance, PTL

\* No path but the output is ever marked spent, and an output closes the machine
\* (state.ts, update_path and the final status).
THEOREM OneOutput == Spec => []OnlyOutputSpent
<1>1. IInv => OnlyOutputSpent
  BY TermsAssumption DEF IInv, Settled, OnlyOutputSpent
<1> QED BY <1>1, Invariance, PTL

\* A path that was disputed becomes the output by a resolve alone (action.ts).
THEOREM DisputesHold == Spec => []DisputedOnlyResolved
<1>1. ASSUME IInv PROVE DisputedOnlyResolved
  <2>1. data.head \in Seq(Input) /\ Settled(data)
    BY <1>1 DEF IInv, TypeOK, Machine
  <2>2. DOMAIN data.head = 1..Len(data.head)
    BY <2>1
  <2> QED BY <2>1, <2>2 DEF Settled, DisputedOnlyResolved
<1> QED BY <1>1, Invariance, PTL

\* Seen by its host, the machine is an append-only log of commits in time order
\* with at most one outcome: every step of the engine is a Commit or changes
\* nothing that the host sees (main.ts, state.ts).
THEOREM PromiseKept == Spec => KeepsPromise
<1>1. Init => Promise!Init
  BY DEF Init, InitVM, Promise!Init
<1>2. ASSUME IInv, IInv', [Next]_vars, HostStep
      PROVE  [Promise!Commit]_<<data.head, data.closed, data.output>>
  <2>1. /\ data \in Machine /\ data' \in Machine /\ Settled(data')
    BY <1>2 DEF IInv, TypeOK, Settled
  <2>2. /\ data.head \in Seq(Input) /\ data'.head \in Seq(Input)
        /\ DOMAIN data.head = 1..Len(data.head)
        /\ DOMAIN data'.head = 1..Len(data'.head)
        /\ Len(data.head) \in Nat /\ Len(data'.head) \in Nat
    BY <2>1 DEF Machine
  <2>3. CASE data' = data
    BY <2>3
  <2>4. CASE /\ data.output = Null /\ Continues(data', data)
             /\ Len(data.head) = Len(data'.head)
    <3>1. data'.closed = data.closed /\ data'.output = data.output
      BY <2>4 DEF Continues
    <3>2. \A i \in 1..Len(data.head) : data'.head[i] = data.head[i]
      BY <2>4 DEF Continues
    <3>3. data'.head = data.head
      BY <2>2, <2>4, <3>2, SeqEqual
    <3> QED BY <3>1, <3>3
  <2>5. CASE /\ data.output = Null /\ Continues(data', data)
             /\ Len(data.head) # Len(data'.head)
    <3>1. /\ Len(data.head) < Len(data'.head)
          /\ Promise!Extends(data.head, data'.head)
      BY <2>2, <2>5 DEF Continues, Promise!Extends
    <3>2. Promise!TimeOrdered(data'.head)
      BY <2>1, <2>2 DEF Settled, Promise!TimeOrdered
    <3>3. /\ data'.closed \in BOOLEAN /\ (data.closed => data'.closed)
          /\ data'.output \in PathSet \cup {Null}
      BY <2>1, <2>5 DEF Machine, Continues
    <3>4. data'.output # Null =>
             data'.closed /\ data'.head[Len(data'.head)].path = data'.output
      BY <2>1 DEF Settled
    <3> QED BY <2>5, <3>1, <3>2, <3>3, <3>4 DEF Promise!Commit
  <2> QED BY <1>2, <2>3, <2>4, <2>5 DEF HostStep
<1>3. IInv /\ IInv' /\ [Next]_vars =>
         [Promise!Commit]_<<data.head, data.closed, data.output>>
  BY <1>2, Stepwise
<1> QED BY <1>1, <1>3, Invariance, PTL DEF Spec, KeepsPromise, Promise!Spec

-----------------------------------------------------------------------------
(* Quorums.  What is on record in the copy a call works on must back what   *)
(* the call commits, before the host sees either.                           *)

\* What a commit of the schedule does to the working copy, what a program
\* records, and what it commits.
TaskCommit(input) ==
    /\ input.wid = Vmid /\ vm.output = Null
    /\ input.action = "close" => input.path = Null
    /\ Accepts(vm, input)
    /\ vm' = UpdateVMState(vm, input)

ProgramRecords(w) ==
    /\ Loads(w)
    /\ vm' \in {AfterExec(vm, w), [AfterExec(vm, w) EXCEPT !.error = TRUE]}

ProgramCommits(w) ==
    /\ Loads(w) /\ ExecPasses(vm, w) /\ vm.output = Null
    /\ WitnessInput(w) \in Input
    /\ Accepts(AfterExec(vm, w), WitnessInput(w))
    /\ vm' = UpdateVMState(AfterExec(vm, w), WitnessInput(w))

\* What one step does to a machine: the working copy becomes the host's machine
\* again, or a commit, a shift of the tasks or a program's run changes it; the
\* host's stays or becomes the working copy.
MachineMoves ==
    /\ data' \in {data, vm'}
    /\ \/ vm' \in {vm, data, [data EXCEPT !.error = FALSE]}
       \/ FinishTask
       \/ \E input \in Input : TaskCommit(input)
       \/ \E w \in Witness : ProgramRecords(w) \/ ProgramCommits(w)

\* What a program does to the working copy, whatever comes of it.
LEMMA ProgramMoves ==
    ASSUME IInv, ProgramThrows \/ ProgramFails \/ ProgramPends \/ ProgramPasses
    PROVE  /\ data' \in {data, vm'}
           /\ \/ vm' = data
              \/ \E w \in Witness : ProgramRecords(w) \/ ProgramCommits(w)
<1> DEFINE w == Head(stack)
<1>1. /\ LoopsReady /\ Undecided /\ stack \in Seq(Witness) /\ pc = "program"
  BY DEF IInv, TypeOK, ProgramThrows, ProgramFails, ProgramPends, ProgramPasses
<1>2. w \in Witness /\ vm.output = Null
  BY <1>1 DEF LoopsReady, Undecided
<1>3. CASE ProgramThrows
  BY <1>3 DEF ProgramThrows, Return
<1>4. CASE ProgramFails
  BY <1>2, <1>4 DEF ProgramFails, ThrowsOut, Return, ProgramRecords
<1>5. CASE ProgramPends
  <2>1. Loads(w) /\ vm' = AfterExec(vm, w) /\ data' \in {data, vm'}
    BY <1>5 DEF ProgramPends, NextStatement, Return, RunSchedule
  <2> HIDE DEF w
  <2> QED BY <1>2, <2>1 DEF ProgramRecords
<1>6. CASE ProgramPasses
  <2> DEFINE n == AfterExec(vm, w)
  <2>1. /\ Loads(w) /\ ExecPasses(vm, w) /\ Accepts(n, WitnessInput(w))
        /\ vm' = UpdateVMState(n, WitnessInput(w)) /\ data' \in {data, vm'}
    BY <1>6 DEF ProgramPasses, NextStatement, Return, RunSchedule
  <2> HIDE DEF w, n
  <2>2. WitnessInput(w) \in Input
    BY <1>2, <2>1 DEF WitnessInput, Input, Witness, Accepts, KnownTarget, Loads, PATH_ACTIONS
  <2> QED BY <1>2, <2>1, <2>2 DEF ProgramCommits, n
<1> QED BY <1>3, <1>4, <1>5, <1>6

LEMMA Moves == ASSUME IInv, [Next]_vars PROVE MachineMoves
<1>1. /\ TypeOK /\ LoopsReady /\ Undecided
      /\ queue \in Seq(Task) /\ acts \in Seq(STRING) /\ stack \in Seq(Witness)
  BY DEF IInv, TypeOK
<1>2. CASE Call
  <2>1. ASSUME NEW ws \in Batches, Eval(ws)
        PROVE  vm' = [data EXCEPT !.error = FALSE] /\ data' \in {data, vm'}
    BY <2>1 DEF Eval, Return, RunSchedule
  <2>2. ASSUME NEW t \in StopTimes, Run(t)
        PROVE  vm' = data /\ data' = data
    BY <2>2 DEF Run, RunSchedule
  <2> QED BY <1>2, <2>1, <2>2 DEF Call, MachineMoves
<1>3. CASE SkipTask \/ StartTask \/ NextTaskAction \/ FinishSchedule
  <2>1. vm' = vm /\ data' \in {data, vm'}
    BY <1>3 DEF SkipTask, StartTask, NextTaskAction, FinishSchedule, Return
  <2> QED BY <2>1 DEF MachineMoves
<1>4. CASE FinishTask
  BY <1>4 DEF FinishTask, MachineMoves
<1>5. ASSUME TaskOnPath \/ TaskWithoutPath
      PROVE  MachineMoves
  <2>1. PICK path :
          /\ TryUpdate(TaskInput(Head(queue), Head(acts), path)) /\ data' = data
          /\ acts # <<>> /\ queue # <<>>
          /\ Head(acts) \in PATH_ACTIONS \/ path = Null
          /\ vm.output = Null
    BY <1>1, <1>5 DEF TaskOnPath, TaskWithoutPath, LoopsReady, Undecided
  <2> DEFINE input == TaskInput(Head(queue), Head(acts), path)
  <2>2. CASE Accepts(vm, input)
    <3>1. Head(queue) \in Task /\ Head(acts) \in STRING
      BY <1>1, <2>1
    <3>2. path \in PathSet \cup {Null}
      BY <2>1, <2>2 DEF Accepts, KnownTarget, TaskInput, PATH_ACTIONS
    <3>3. /\ input \in Input /\ input.wid = Vmid
          /\ input.action = "close" => input.path = Null
      BY <2>1, <3>1, <3>2, TermsAssumption DEF TaskInput, Input, Task, PATH_ACTIONS
    <3> HIDE DEF input
    <3> QED BY <2>1, <2>2, <3>3 DEF TryUpdate, MachineMoves, TaskCommit, input
  <2>3. CASE ~Accepts(vm, input)
    BY <2>1, <2>3 DEF TryUpdate, MachineMoves
  <2> QED BY <2>2, <2>3
<1>6. CASE ProgramThrows \/ ProgramFails \/ ProgramPends \/ ProgramPasses
  BY <1>6, ProgramMoves DEF MachineMoves
<1>7. CASE UNCHANGED vars
  BY <1>7 DEF vars, MachineMoves
<1> QED BY <1>2, <1>3, <1>4, <1>5, <1>6, <1>7 DEF Next, Internal

VoteInv == Quorate(data) /\ Quorate(vm)

LEMMA VotesStep == ASSUME IInv, VoteInv, [Next]_vars PROVE VoteInv'
<1>1. MachineMoves /\ Quorate(data) /\ Quorate(vm) /\ data \in Machine /\ vm \in Machine
  BY Moves DEF VoteInv, IInv, TypeOK
<1>2. ASSUME NEW m \in Machine, NEW n, Quorate(m), n.head = m.head, n.store = m.store
      PROVE  Quorate(n)
  BY <1>2, QuorateGrows DEF Quorate
<1>3. Quorate(vm')
  <2>1. CASE vm' \in {vm, data, [data EXCEPT !.error = FALSE]}
    <3>1. CASE vm' = [data EXCEPT !.error = FALSE]
      <4>1. vm'.head = data.head /\ vm'.store = data.store
        BY <1>1, <3>1 DEF Machine
      <4> QED BY <1>1, <1>2, <4>1
    <3> QED BY <1>1, <2>1, <3>1
  <2>2. CASE FinishTask
    <3>1. vm'.head = vm.head /\ vm'.store = vm.store
      BY <1>1, <2>2 DEF FinishTask, Machine
    <3> QED BY <1>1, <1>2, <3>1
  <2>3. ASSUME NEW input \in Input, TaskCommit(input)
        PROVE  Quorate(vm')
    BY <1>1, <2>3, CommitQuorate DEF TaskCommit
  <2>4. ASSUME NEW w \in Witness, ProgramRecords(w)
        PROVE  Quorate(vm')
    <3> DEFINE n == AfterExec(vm, w)
    <3>1. Quorate(n) /\ n \in Machine
      BY <1>1, <2>4, ExecQuorate, AfterExecType DEF ProgramRecords, Loads, IInv
    <3> HIDE DEF n
    <3>2. vm'.head = n.head /\ vm'.store = n.store
      BY <2>4, <3>1 DEF ProgramRecords, Machine, n
    <3> QED BY <1>2, <3>1, <3>2
  <2>5. ASSUME NEW w \in Witness, ProgramCommits(w)
        PROVE  Quorate(vm')
    <3> DEFINE n == AfterExec(vm, w)
    <3> DEFINE input == WitnessInput(w)
    <3>1. Quorate(n) /\ n \in Machine /\ w.prog_id \in ProgIds
      BY <1>1, <2>5, ExecQuorate, AfterExecType DEF ProgramCommits, Loads, IInv
    <3>2. VotesFor(n, input) = Votes(n, w)
      BY DEF VotesFor, Votes, WitnessInput
    <3>3. ProgramOf([prog_id |-> input.wid]) = ProgramOf(w)
      BY SameProgram DEF WitnessInput
    <3>4. ProgramOf(w).method = "endorse" =>
             Cardinality(Votes(n, w)) >= ProgramOf(w).thold
      BY <1>1, <2>5, <3>1, PassedQuorum DEF ProgramCommits, Quorate
    <3> HIDE DEF n, input
    <3>5. Quorate(UpdateVMState(n, input))
      BY <2>5, <3>1, <3>2, <3>3, <3>4, CommitQuorate DEF ProgramCommits, n, input
    <3> QED BY <2>5, <3>5 DEF ProgramCommits, n, input
  <2> QED BY <1>1, <2>1, <2>2, <2>3, <2>4, <2>5 DEF MachineMoves
<1>4. Quorate(data')
  BY <1>1, <1>3 DEF MachineMoves
<1> QED BY <1>3, <1>4 DEF VoteInv, Quorate, VotesFor

\* A statement is committed only with as many distinct members on record for it
\* as its program's threshold asks for (endorse.ts).
THEOREM Quorums == Spec => []QuorumBacked
<1>1. Init => VoteInv
  <2> SUFFICES ASSUME Init PROVE VoteInv
    OBVIOUS
  <2>1. Quorate(InitVM)
    BY FS_EmptySet DEF Quorate, InitVM
  <2> QED BY <2>1 DEF Init, VoteInv
<1>2. IInv /\ VoteInv /\ [Next]_vars => VoteInv'
  BY VotesStep
<1>3. IInv /\ VoteInv => QuorumBacked
  <2> SUFFICES ASSUME IInv, Quorate(data), NEW i \in DOMAIN data.head,
                      data.head[i].wid # Vmid,
                      ProgramOf([prog_id |-> data.head[i].wid]).method = "endorse"
               PROVE  LET e     == data.head[i]
                          prog  == ProgramOf([prog_id |-> e.wid])
                          votes == {v \in data.store :
                                      /\ v.prog_id = e.wid
                                      /\ v.action = e.action /\ v.path = e.path
                                      /\ v.pub \in prog.members}
                      IN  Cardinality({v.pub : v \in votes}) >= prog.thold
    BY DEF VoteInv, QuorumBacked
  <2> DEFINE e     == data.head[i]
             prog  == ProgramOf([prog_id |-> e.wid])
             votes == {v \in data.store : /\ v.prog_id = e.wid
                                          /\ v.action = e.action /\ v.path = e.path
                                          /\ v.pub \in prog.members}
  <2>1. i \in 1..Len(data.head)
    <3>1. data.head \in Seq(Input)
      BY DEF IInv, TypeOK, Machine
    <3> QED BY <3>1
  <2>2. Cardinality(VotesFor(data, e)) >= prog.thold
    BY <2>1 DEF Quorate
  <2>3. \A v : v.prog_id = e.wid => ProgramOf(v) = prog
    BY SameProgram
  <2>4. votes = {u \in data.store : /\ u.prog_id = e.wid
                                    /\ u.path = e.path
                                    /\ u.action = e.action}
    BY <2>3 DEF Quorate
  <2> HIDE DEF e, prog
  <2> QED BY <2>2, <2>4 DEF VotesFor, e, prog
<1> QED BY <1>1, <1>2, <1>3, Invariance, PTL DEF Spec

-----------------------------------------------------------------------------
(* The schedule.  run_schedule() walks a copy of the pending tasks and       *)
(* shifts the tasks themselves, so the two must stay in step until the first *)
(* task that is not due; none after it is due either, as they are sorted.     *)

All == InitTasks(Schedule)

\* The tasks are the last ones of the schedule.
Pending(tasks) ==
    /\ Len(tasks) <= Len(All)
    /\ \A k \in 1..Len(tasks) : tasks[k] = All[Len(All) - Len(tasks) + k]

NoneDue(tasks, t) == \A k \in 1..Len(tasks) : ~Due(tasks[k], t)

OnTime(m) == \A k \in 1..Len(m.tasks) : m.commit_at <= m.tasks[k].at + ActiveAt

\* How far run_schedule() has come.
InStep ==
    \/ queue = vm.tasks
    \/ NoneDue(vm.tasks, stop_at) /\ NoneDue(queue, stop_at)
    \/ vm.closed /\ queue = <<>>

TaskInv ==
    /\ Pending(data.tasks) /\ Pending(vm.tasks)
    /\ OnTime(data) /\ OnTime(vm)
    /\ pc = "schedule" => InStep
    /\ pc = "task" => queue = vm.tasks
    /\ pc = "program" => NoneDue(vm.tasks, stop_at)
    /\ stack # <<>> => stop_at = stack[1].stamp
    /\ pc = "idle" => stack = <<>>

\* Pending tasks are sorted tasks of the schedule.
LEMMA PendingTasks ==
    ASSUME NEW tasks \in Seq(Task), Pending(tasks), TimersForward
    PROVE  /\ \A k \in 1..Len(tasks) : tasks[k].at \in Nat
           /\ \A k, l \in 1..Len(tasks) : k <= l => tasks[k].at <= tasks[l].at
           /\ tasks # <<>> => Pending(Tail(tasks))
<1>1. /\ All \in Seq(Task) /\ DOMAIN All = 1..Len(All) /\ Len(All) \in Nat
      /\ Len(All) = Len(Schedule)
      /\ \A k, l \in DOMAIN All : k <= l => All[k].at <= All[l].at
  BY InitTasksProperties DEF All
<1>2. PICK f \in Bijection(DOMAIN Schedule, DOMAIN Schedule) :
         \A k \in DOMAIN Schedule : All[k] = Schedule[f[k]]
  BY InitTasksPermute DEF All
<1>3. \A k \in 1..Len(All) : All[k].at \in Nat
  <2>1. Schedule \in Seq(Task) /\ DOMAIN Schedule = 1..Len(Schedule)
    BY TermsAssumption
  <2>2. f \in [DOMAIN Schedule -> DOMAIN Schedule]
    BY <1>2 DEF Bijection, Injection
  <2>3. \A i \in DOMAIN Schedule : Schedule[i].at \in Nat
    <3>1. \A i \in DOMAIN Schedule : Schedule[i] \in Task
      BY <2>1
    <3> QED BY <3>1 DEF Task, TimersForward
  <2> HIDE DEF All
  <2> QED BY <1>1, <1>2, <2>1, <2>2, <2>3
<1> HIDE DEF All
<1>4. Len(tasks) \in Nat /\ \A k \in 1..Len(tasks) : Len(All) - Len(tasks) + k \in 1..Len(All)
  BY <1>1 DEF Pending
<1>5. ASSUME NEW k \in 1..Len(tasks), NEW l \in 1..Len(tasks), k <= l
      PROVE  tasks[k].at <= tasks[l].at
  <2> DEFINE i == Len(All) - Len(tasks) + k
             j == Len(All) - Len(tasks) + l
  <2>1. tasks[k] = All[i] /\ tasks[l] = All[j]
    BY DEF Pending
  <2>2. i \in DOMAIN All /\ j \in DOMAIN All /\ i <= j
    BY <1>1, <1>4, <1>5
  <2> HIDE DEF i, j
  <2> QED BY <1>1, <2>1, <2>2
<1>6. tasks # <<>> => Pending(Tail(tasks))
  BY <1>1, <1>4 DEF Pending
<1> QED BY <1>3, <1>4, <1>5, <1>6 DEF Pending

\* If the first pending task is not due, none is.
LEMMA NoneDueYet ==
    ASSUME NEW tasks \in Seq(Task), Pending(tasks), TimersForward, NEW t \in Int,
           tasks # <<>> => ~Due(Head(tasks), t)
    PROVE  NoneDue(tasks, t)
<1> SUFFICES ASSUME NEW k \in 1..Len(tasks) PROVE ~Due(tasks[k], t)
  BY DEF NoneDue
<1>1. 1 \in 1..Len(tasks) /\ Head(tasks) = tasks[1] /\ tasks # <<>>
  OBVIOUS
<1>2. tasks[1].at \in Nat /\ tasks[k].at \in Nat /\ tasks[1].at <= tasks[k].at
  BY <1>1, PendingTasks
<1> QED BY <1>1, <1>2, TermsAssumption DEF Due

\* A commit at the time a task falls due, or before any is due, is no later than
\* the pending tasks.
LEMMA CommitOnTime ==
    ASSUME NEW m \in Machine, NEW input \in Input, Accepts(m, input), TimersForward,
           Pending(m.tasks),
           \/ m.tasks # <<>> /\ input.stamp = Head(m.tasks).at + ActiveAt
           \/ NoneDue(m.tasks, input.stamp)
    PROVE  OnTime(UpdateVMState(m, input))
<1> DEFINE u == UpdateVMState(m, input)
<1>1. u.commit_at = input.stamp /\ u.tasks = m.tasks
  <2>1. u.tasks = m.tasks
    BY DEF UpdateVMState, Machine
  <2> QED BY <2>1, UpdateFields
<1> HIDE DEF u
<1>2. m.tasks \in Seq(Task) /\ input.stamp \in Int
  BY DEF Machine, Input
<1>3. ASSUME NEW k \in 1..Len(m.tasks) PROVE input.stamp <= m.tasks[k].at + ActiveAt
  <2>1. 1 \in 1..Len(m.tasks) /\ m.tasks # <<>> /\ Head(m.tasks) = m.tasks[1]
    BY <1>2
  <2>2. m.tasks[1].at \in Nat /\ m.tasks[k].at \in Nat /\ m.tasks[1].at <= m.tasks[k].at
    BY <1>2, <2>1, PendingTasks
  <2>3. ActiveAt \in Int
    BY TermsAssumption
  <2> QED BY <1>2, <2>1, <2>2, <2>3 DEF NoneDue, Due
<1>4. OnTime(u)
  BY <1>1, <1>3 DEF OnTime
<1> QED BY <1>4 DEF u

\* The host's calls begin in step, and the working copy is the host's machine.
LEMMA CallOnTime ==
    ASSUME IInv, TaskInv, Call PROVE TaskInv'
<1>1. data \in Machine /\ stack = <<>>
  BY DEF IInv, TypeOK, TaskInv, Call, Eval, Run
<1>2. ASSUME NEW ws \in Batches, Eval(ws)
      PROVE  TaskInv'
  <2> DEFINE m == [data EXCEPT !.error = FALSE]
  <2>1. m.tasks = data.tasks /\ m.commit_at = data.commit_at
    BY <1>1 DEF Machine
  <2>2. Pending(m.tasks) /\ OnTime(m)
    BY <2>1 DEF TaskInv, OnTime
  <2> HIDE DEF m
  <2>3. CASE ws = <<>>
    <3>1. Return(m)
      BY <1>2, <2>3 DEF Eval, m
    <3> QED BY <2>2, <3>1 DEF Return, TaskInv, OnTime
  <2>4. CASE ws # <<>>
    <3>1. RunSchedule(m, stack'[1].stamp)
      BY <1>2, <2>4 DEF Eval, m
    <3> QED BY <2>2, <3>1 DEF RunSchedule, TaskInv, OnTime, InStep
  <2> QED BY <2>3, <2>4
<1>3. ASSUME NEW t \in StopTimes, Run(t)
      PROVE  TaskInv'
  BY <1>1, <1>3 DEF Run, RunSchedule, TaskInv, OnTime, InStep
<1> QED BY <1>2, <1>3 DEF Call

\* run_schedule() and run_task() stay in step with the tasks they shift.
LEMMA LoopsOnTime ==
    ASSUME TimersForward, IInv, TaskInv,
           \/ SkipTask \/ StartTask \/ FinishTask \/ FinishSchedule
           \/ TaskOnPath \/ TaskWithoutPath \/ NextTaskAction
    PROVE  TaskInv'
<1>1. /\ vm \in Machine /\ vm.tasks \in Seq(Task) /\ queue \in Seq(Task)
      /\ acts \in Seq(STRING) /\ stop_at \in Int
      /\ LoopsReady /\ Settled(vm)
      /\ Pending(vm.tasks) /\ OnTime(vm)
  BY DEF IInv, TypeOK, TaskInv, Machine
<1>2. CASE SkipTask
  <2>1. NoneDue(vm.tasks, stop_at) /\ NoneDue(queue, stop_at)
    <3>1. CASE queue = vm.tasks
      <4>1. NoneDue(vm.tasks, stop_at)
        BY <1>1, <1>2, <3>1, NoneDueYet DEF SkipTask
      <4> QED BY <3>1, <4>1
    <3> QED BY <1>2, <3>1 DEF SkipTask, TaskInv, InStep
  <2>2. NoneDue(Tail(queue), stop_at)
    <3>1. queue # <<>>
      BY <1>2 DEF SkipTask
    <3>2. /\ Len(Tail(queue)) = Len(queue) - 1 /\ Len(queue) \in Nat
          /\ \A k \in 1..Len(Tail(queue)) : Tail(queue)[k] = queue[k + 1]
      BY <1>1, <3>1, HeadTailProperties, LenProperties
    <3> QED BY <2>1, <3>2 DEF NoneDue
  <2> QED BY <1>2, <2>1, <2>2 DEF SkipTask, TaskInv, OnTime, InStep
<1>3. CASE StartTask
  <2>1. queue # <<>> /\ Due(queue[1], stop_at)
    BY <1>1, <1>3 DEF StartTask
  <2>2. 1 \in 1..Len(queue)
    BY <1>1, <2>1
  <2>3. queue = vm.tasks
    BY <1>3, <2>1, <2>2 DEF StartTask, TaskInv, InStep, NoneDue
  <2> QED BY <1>3, <2>3 DEF StartTask, TaskInv, OnTime
<1>4. CASE FinishTask
  <2>1. queue = vm.tasks /\ vm.tasks # <<>>
    BY <1>1, <1>4 DEF FinishTask, TaskInv, LoopsReady
  <2>2. vm'.tasks = Tail(vm.tasks) /\ vm'.commit_at = vm.commit_at /\ vm'.closed = vm.closed
    BY <1>1, <1>4, <2>1 DEF FinishTask, Machine
  <2>3. Pending(vm'.tasks)
    BY <1>1, <2>1, <2>2, PendingTasks
  <2>4. OnTime(vm')
    <3>1. /\ Len(Tail(vm.tasks)) = Len(vm.tasks) - 1 /\ Len(vm.tasks) \in Nat
          /\ \A k \in 1..Len(Tail(vm.tasks)) : Tail(vm.tasks)[k] = vm.tasks[k + 1]
      BY <1>1, <2>1, HeadTailProperties, LenProperties
    <3> QED BY <1>1, <2>2, <3>1 DEF OnTime
  <2>5. InStep'
    BY <1>1, <1>4, <2>1, <2>2 DEF FinishTask, InStep, Settled
  <2>6. UNCHANGED <<data, stack, stop_at>> /\ pc' = "schedule" /\ pc = "task"
    BY <1>4 DEF FinishTask
  <2>7. OnTime(data)' /\ OnTime(vm)'
    BY <2>4, <2>6 DEF TaskInv, OnTime
  <2> QED BY <2>3, <2>5, <2>6, <2>7 DEF TaskInv
<1>5. CASE FinishSchedule
  <2>1. CASE stack = <<>> \/ vm.closed
    <3>1. Return(vm)
      BY <1>5, <2>1 DEF FinishSchedule
    <3> QED BY <1>1, <3>1 DEF Return, TaskInv, OnTime
  <2>2. CASE stack # <<>> /\ ~vm.closed
    <3>1. /\ queue = <<>> /\ pc = "schedule" /\ pc' = "program"
          /\ UNCHANGED <<data, vm, stack, stop_at, queue>>
      BY <1>5, <2>2 DEF FinishSchedule, loopVars
    <3>2. NoneDue(vm.tasks, stop_at)
      BY <2>2, <3>1 DEF TaskInv, InStep, NoneDue
    <3> QED BY <3>1, <3>2 DEF TaskInv, OnTime, NoneDue
  <2> QED BY <2>1, <2>2
<1>6. ASSUME TaskOnPath \/ TaskWithoutPath
      PROVE  TaskInv'
  <2>1. PICK path :
          /\ TryUpdate(TaskInput(Head(queue), Head(acts), path))
          /\ acts # <<>> /\ queue # <<>>
          /\ Head(acts) \in PATH_ACTIONS \/ path = Null
    BY <1>1, <1>6 DEF TaskOnPath, TaskWithoutPath, LoopsReady
  <2> DEFINE input == TaskInput(Head(queue), Head(acts), path)
  <2>2. queue = vm.tasks /\ pc = "task"
    BY <1>6 DEF TaskOnPath, TaskWithoutPath, TaskInv
  <2>3. ASSUME Accepts(vm, input)
        PROVE  OnTime(vm') /\ vm'.tasks = vm.tasks
    <3>1. Head(queue) \in Task /\ Head(acts) \in STRING
      BY <1>1, <2>1
    <3>2. path \in PathSet \cup {Null}
      BY <2>1, <2>3 DEF Accepts, KnownTarget, TaskInput, PATH_ACTIONS
    <3>3. input \in Input /\ input.stamp = Head(vm.tasks).at + ActiveAt
      BY <2>2, <3>1, <3>2, TermsAssumption DEF TaskInput, Input, Task
    <3> HIDE DEF input
    <3>4. OnTime(UpdateVMState(vm, input))
      BY <1>1, <2>1, <2>2, <2>3, <3>3, CommitOnTime
    <3>5. UpdateVMState(vm, input).tasks = vm.tasks
      BY <1>1 DEF UpdateVMState, Machine
    <3> QED BY <2>1, <2>3, <3>4, <3>5 DEF TryUpdate, input
  <2>4. OnTime(vm') /\ vm'.tasks = vm.tasks
    BY <1>1, <2>1, <2>3 DEF TryUpdate
  <2>5. UNCHANGED <<data, stack, stop_at, queue, pc>>
    BY <1>6 DEF TaskOnPath, TaskWithoutPath
  <2> QED BY <2>2, <2>4, <2>5 DEF TaskInv, OnTime
<1>7. CASE NextTaskAction
  BY <1>7 DEF NextTaskAction, TaskInv, OnTime
<1> QED BY <1>2, <1>3, <1>4, <1>5, <1>6, <1>7

\* A statement is committed at the time the schedule was run to (main.ts).
LEMMA ProgramOnTime ==
    ASSUME TimersForward, IInv, TaskInv,
           ProgramThrows \/ ProgramFails \/ ProgramPends \/ ProgramPasses
    PROVE  TaskInv'
<1> DEFINE w == Head(stack)
<1>1. /\ vm \in Machine /\ data \in Machine /\ stack \in Seq(Witness) /\ stack # <<>>
      /\ pc = "program" /\ Settled(vm)
  BY DEF IInv, TypeOK, LoopsReady, ProgramThrows, ProgramFails, ProgramPends, ProgramPasses
<1>2. /\ w \in Witness /\ w = stack[1] /\ w.stamp = stop_at
      /\ NoneDue(vm.tasks, w.stamp)
      /\ Pending(data.tasks) /\ Pending(vm.tasks) /\ OnTime(data) /\ OnTime(vm)
  BY <1>1 DEF TaskInv
<1>3. Tail(stack) # <<>> => Tail(stack)[1] = stack[2]
  BY <1>1
<1> HIDE DEF w
<1>4. ASSUME NEW m, Pending(m.tasks), OnTime(m), Return(m)
      PROVE  TaskInv'
  BY <1>4 DEF Return, TaskInv, OnTime
<1>5. ASSUME NEW m, Pending(m.tasks), OnTime(m), NextStatement(m)
      PROVE  TaskInv'
  <2>1. CASE m.closed \/ Tail(stack) = <<>>
    BY <1>4, <1>5, <2>1 DEF NextStatement
  <2>2. CASE ~(m.closed \/ Tail(stack) = <<>>)
    <3>1. stack' = Tail(stack) /\ RunSchedule(m, stack[2].stamp)
      BY <1>5, <2>2 DEF NextStatement
    <3> QED BY <1>2, <1>3, <1>5, <2>2, <3>1 DEF RunSchedule, TaskInv, OnTime, InStep
  <2> QED BY <2>1, <2>2
<1>6. ASSUME Loads(w)
      PROVE  /\ AfterExec(vm, w) \in Machine
             /\ AfterExec(vm, w).tasks = vm.tasks
             /\ AfterExec(vm, w).commit_at = vm.commit_at
  <2>1. AfterExec(vm, w) \in Machine
    BY <1>1, <1>2, <1>6, AfterExecType DEF Loads
  <2>2. /\ AfterExec(vm, w).tasks = vm.tasks
        /\ AfterExec(vm, w).commit_at = vm.commit_at
    BY <1>1 DEF AfterExec, Machine
  <2> QED BY <2>1, <2>2
<1>7. CASE ProgramThrows
  BY <1>2, <1>4, <1>7 DEF ProgramThrows
<1>8. CASE ProgramFails
  <2> DEFINE n == [AfterExec(vm, w) EXCEPT !.error = TRUE]
  <2>1. Loads(w) /\ Return(n)
    BY <1>8 DEF ProgramFails, ThrowsOut, w
  <2>2. n.tasks = vm.tasks /\ n.commit_at = vm.commit_at
    BY <1>6, <2>1 DEF Machine
  <2> HIDE DEF n
  <2> QED BY <1>2, <1>4, <2>1, <2>2 DEF OnTime
<1>9. CASE ProgramPends
  <2> DEFINE n == AfterExec(vm, w)
  <2>1. Loads(w) /\ NextStatement(n)
    BY <1>9 DEF ProgramPends, w
  <2>2. n.tasks = vm.tasks /\ n.commit_at = vm.commit_at
    BY <1>6, <2>1
  <2> HIDE DEF n
  <2> QED BY <1>2, <1>5, <2>1, <2>2 DEF OnTime
<1>10. CASE ProgramPasses
  <2> DEFINE n     == AfterExec(vm, w)
             input == WitnessInput(w)
  <2>1. Loads(w) /\ Accepts(n, input) /\ NextStatement(UpdateVMState(n, input))
    BY <1>10 DEF ProgramPasses, w
  <2>2. n \in Machine /\ n.tasks = vm.tasks
    BY <1>6, <2>1
  <2> HIDE DEF n
  <2>3. input \in Input /\ input.stamp = w.stamp
    BY <1>2, <2>1 DEF WitnessInput, Input, Witness, Accepts, KnownTarget, Loads, PATH_ACTIONS
  <2> HIDE DEF input
  <2>4. OnTime(UpdateVMState(n, input))
    BY <1>2, <2>1, <2>2, <2>3, CommitOnTime
  <2>5. UpdateVMState(n, input).tasks = vm.tasks
    BY <2>2 DEF UpdateVMState, Machine
  <2> QED BY <1>2, <1>5, <2>1, <2>4, <2>5
<1> QED BY <1>7, <1>8, <1>9, <1>10

LEMMA TasksInvariance ==
    ASSUME TimersForward
    PROVE  Spec => []TaskInv
<1>1. Init => TaskInv
  <2> SUFFICES ASSUME Init PROVE TaskInv
    OBVIOUS
  <2>1. data = InitVM /\ vm = InitVM /\ pc = "idle" /\ stack = <<>>
    BY DEF Init
  <2>2. InitVM.tasks = All /\ InitVM.commit_at = ActiveAt
    BY DEF InitVM, All
  <2>3. All \in Seq(Task) /\ Len(All) \in Nat
    BY InitTasksProperties DEF All
  <2> HIDE DEF All
  <2>4. Pending(All)
    BY <2>3 DEF Pending
  <2>5. OnTime(InitVM)
    BY <2>2, <2>3, <2>4, PendingTasks, TermsAssumption DEF OnTime
  <2> QED BY <2>1, <2>2, <2>4, <2>5 DEF TaskInv
<1>2. IInv /\ TaskInv /\ [Next]_vars => TaskInv'
  <2> SUFFICES ASSUME IInv, TaskInv, [Next]_vars PROVE TaskInv'
    OBVIOUS
  <2>1. CASE Call
    BY <2>1, CallOnTime
  <2>2. CASE \/ SkipTask \/ StartTask \/ FinishTask \/ FinishSchedule
             \/ TaskOnPath \/ TaskWithoutPath \/ NextTaskAction
    BY <2>2, LoopsOnTime
  <2>3. CASE ProgramThrows \/ ProgramFails \/ ProgramPends \/ ProgramPasses
    BY <2>3, ProgramOnTime
  <2>4. CASE UNCHANGED vars
    BY <2>4 DEF vars, TaskInv, OnTime, InStep
  <2> QED BY <2>1, <2>2, <2>3, <2>4 DEF Next, Internal
<1> QED BY <1>1, <1>2, Invariance, PTL DEF Spec

\* With timers that count forward, no statement is let in ahead of a task that
\* was due before it (main.ts, schedule.ts).
THEOREM TasksTimely ==
    ASSUME TimersForward
    PROVE  Spec => []PendingTasksTimely
<1>1. IInv /\ TaskInv => PendingTasksTimely
  <2> SUFFICES ASSUME IInv, TaskInv PROVE PendingTasksTimely
    OBVIOUS
  <2>1. data.tasks \in Seq(Task)
    BY DEF IInv, TypeOK, Machine
  <2> QED BY <2>1 DEF TaskInv, OnTime, PendingTasksTimely
<1> QED BY <1>1, Invariance, TasksInvariance, PTL

-----------------------------------------------------------------------------
(* Once each.  A path action is never committed twice, as its path shows it  *)
(* was; what keeps a scheduled close from being committed twice is that each *)
(* action of each task has its turn once.                                    *)

\* acts and left are what is left to do of the first task of the queue.
LoopInv ==
    pc = "task" =>
        LET actions == TaskActions(queue[1])
            paths   == TaskPaths(queue[1])
        IN  /\ Len(acts) <= Len(actions)
            /\ \A i \in 1..Len(acts) : acts[i] = actions[Len(actions) - Len(acts) + i]
            /\ Len(left) <= Len(paths)
            /\ \A i \in 1..Len(left) : left[i] = paths[Len(paths) - Len(left) + i]
            /\ (acts # <<>> /\ acts[1] \notin PATH_ACTIONS) => left = paths

\* A scheduled close in the log of m is that of a task done, or of one of the
\* first `ran` actions of the task being run.
CloseOf(e, k, a) ==
    /\ TaskActions(All[k])[a] = "close"
    /\ e.stamp = All[k].at + ActiveAt

HadTurn(m, ran, k, a) ==
    \/ k <= Len(All) - Len(m.tasks)
    \/ k = Len(All) - Len(m.tasks) + 1 /\ a <= ran

ClosesRan(m, ran) ==
    \A i \in 1..Len(m.head) :
        (m.head[i].action = "close" /\ m.head[i].wid = Vmid) =>
            \E k \in 1..Len(All) : \E a \in 1..Len(TaskActions(All[k])) :
                CloseOf(m.head[i], k, a) /\ HadTurn(m, ran, k, a)

\* No scheduled close is in the log of m twice.
ClosesDiffer(m) ==
    \A i, j \in 1..Len(m.head) :
        (i < j /\ m.head[i].action = "close" /\ m.head[i].wid = Vmid) =>
            m.head[i] # m.head[j]

\* How many actions of the running task have had their turn.
Ran == IF pc = "task" THEN Len(TaskActions(queue[1])) - Len(acts) ELSE 0

OnceInv ==
    /\ LoopInv
    /\ Unique(data) /\ Unique(vm)
    /\ ClosesRan(data, 0) /\ ClosesRan(vm, Ran)
    /\ ClosesDiffer(data) /\ ClosesDiffer(vm)

\* The loops go through the actions and paths in order.
LEMMA LoopStep == ASSUME IInv, LoopInv, [Next]_vars PROVE LoopInv'
<1>1. /\ queue \in Seq(Task) /\ acts \in Seq(STRING) /\ left \in Seq(STRING)
      /\ pc = "task" => queue # <<>>
  BY DEF IInv, TypeOK, LoopsReady
<1>2. \A s \in Seq(STRING) : s # <<>> =>
         /\ Head(s) = s[1] /\ Len(s) \in Nat \ {0} /\ Len(Tail(s)) = Len(s) - 1
         /\ \A i \in 1..Len(Tail(s)) : Tail(s)[i] = s[i + 1]
  BY HeadTailProperties, LenProperties, EmptySeq
<1>3. queue # <<>> =>
         /\ Head(queue) = queue[1]
         /\ TaskActions(queue[1]) \in Seq(STRING) /\ TaskPaths(queue[1]) \in Seq(STRING)
         /\ Len(TaskActions(queue[1])) \in Nat /\ Len(TaskPaths(queue[1])) \in Nat
  BY <1>1, TaskListsType
<1>4. CASE pc' # "task"
  BY <1>4 DEF LoopInv
<1>5. CASE StartTask
  <2>1. /\ acts' = TaskActions(queue[1]) /\ left' = TaskPaths(queue[1]) /\ queue' = queue
        /\ queue # <<>>
    BY <1>3, <1>5 DEF StartTask
  <2> QED BY <1>3, <2>1 DEF LoopInv
<1>6. CASE TaskOnPath
  <2>1. /\ pc = "task" /\ pc' = "task" /\ queue' = queue /\ left # <<>> /\ acts # <<>>
        /\ Head(acts) \in PATH_ACTIONS
        /\ \/ acts' = <<>> /\ left' = <<>>
           \/ acts' = acts /\ left' = Tail(left)
    BY <1>6, Zenon DEF TaskOnPath
  <2>2. CASE acts' = <<>> /\ left' = <<>>
    BY <1>1, <1>3, <2>1, <2>2 DEF LoopInv
  <2>3. CASE acts' = acts /\ left' = Tail(left)
    <3> DEFINE paths == TaskPaths(queue[1])
    <3>1. /\ Len(left) <= Len(paths) /\ Len(paths) \in Nat
          /\ \A i \in 1..Len(left) : left[i] = paths[Len(paths) - Len(left) + i]
      BY <1>1, <1>3, <2>1 DEF LoopInv
    <3>2. /\ Len(left') = Len(left) - 1 /\ Len(left) \in Nat
          /\ \A i \in 1..Len(left') : left'[i] = left[i + 1]
      BY <1>1, <1>2, <2>1, <2>3
    <3> HIDE DEF paths
    <3>3. /\ Len(left') <= Len(paths)
          /\ \A i \in 1..Len(left') : left'[i] = paths[Len(paths) - Len(left') + i]
      BY <3>1, <3>2
    <3>4. acts'[1] \in PATH_ACTIONS
      BY <1>1, <1>2, <2>1, <2>3
    <3> QED BY <2>1, <2>3, <3>3, <3>4 DEF LoopInv, paths
  <2> QED BY <2>1, <2>2, <2>3
<1>7. CASE TaskWithoutPath \/ NextTaskAction
  <2> DEFINE actions == TaskActions(queue[1])
             paths   == TaskPaths(queue[1])
  <2>1. pc = "task" /\ pc' = "task" /\ queue' = queue /\ acts # <<>> /\ acts' = Tail(acts)
    BY <1>7 DEF TaskWithoutPath, NextTaskAction
  <2>2. left' = paths
    BY <1>1, <1>2, <1>3, <1>7, <2>1 DEF TaskWithoutPath, NextTaskAction, LoopInv
  <2>3. /\ Len(acts) <= Len(actions) /\ Len(actions) \in Nat /\ Len(paths) \in Nat
        /\ \A i \in 1..Len(acts) : acts[i] = actions[Len(actions) - Len(acts) + i]
    BY <1>1, <1>3, <2>1 DEF LoopInv
  <2>4. /\ Len(acts') = Len(acts) - 1 /\ Len(acts) \in Nat
        /\ \A i \in 1..Len(acts') : acts'[i] = acts[i + 1]
    BY <1>1, <1>2, <2>1
  <2> HIDE DEF actions, paths
  <2>5. /\ Len(acts') <= Len(actions)
        /\ \A i \in 1..Len(acts') : acts'[i] = actions[Len(actions) - Len(acts') + i]
    BY <2>3, <2>4
  <2>6. /\ Len(left') <= Len(paths)
        /\ \A i \in 1..Len(left') : left'[i] = paths[Len(paths) - Len(left') + i]
    BY <2>2, <2>3
  <2> QED BY <2>1, <2>2, <2>5, <2>6 DEF LoopInv, actions, paths
<1>8. CASE SkipTask \/ FinishTask \/ FinishSchedule
  BY <1>4, <1>8 DEF SkipTask, FinishTask, FinishSchedule, Return
<1>9. CASE ProgramThrows \/ ProgramFails \/ ProgramPends \/ ProgramPasses
  BY <1>4, <1>9 DEF ProgramThrows, ProgramFails, ProgramPends, ProgramPasses,
                    NextStatement, Return, RunSchedule
<1>10. CASE Call
  BY <1>4, <1>10 DEF Call, Eval, Run, Return, RunSchedule
<1>11. CASE UNCHANGED vars
  BY <1>11 DEF vars, LoopInv
<1> QED BY <1>5, <1>6, <1>7, <1>8, <1>9, <1>10, <1>11 DEF Next, Internal

\* What is recorded on the paths keeps the log free of repetitions.
LEMMA UniqueStep ==
    ASSUME IInv, Unique(data), Unique(vm), [Next]_vars
    PROVE  Unique(data') /\ Unique(vm')
<1>1. MachineMoves /\ data \in Machine /\ vm \in Machine /\ Settled(vm)
  BY Moves DEF IInv, TypeOK
<1>2. ASSUME NEW m, NEW n, Unique(m),
             n.head = m.head, n.paths = m.paths, n.output = m.output
      PROVE  Unique(n)
  BY <1>2 DEF Unique
<1>3. Unique(vm')
  <2>1. CASE vm' \in {vm, data, [data EXCEPT !.error = FALSE]}
    <3>1. CASE vm' = [data EXCEPT !.error = FALSE]
      <4>1. /\ vm'.head = data.head /\ vm'.paths = data.paths
            /\ vm'.output = data.output
        BY <1>1, <3>1 DEF Machine
      <4> QED BY <1>2, <4>1
    <3> QED BY <2>1, <3>1
  <2>2. CASE FinishTask
    <3>1. vm'.head = vm.head /\ vm'.paths = vm.paths /\ vm'.output = vm.output
      BY <1>1, <2>2 DEF FinishTask, Machine
    <3> QED BY <1>2, <3>1
  <2>3. ASSUME NEW input \in Input, TaskCommit(input)
        PROVE  Unique(vm')
    BY <1>1, <2>3, UpdateUnique DEF TaskCommit
  <2>4. ASSUME NEW w \in Witness, Loads(w), NEW n, n = AfterExec(vm, w)
        PROVE  n \in Machine /\ Unique(n) /\ n.output = vm.output
    <3>1. n \in Machine /\ n.output = vm.output
      BY <1>1, <2>4, AfterExecType DEF Loads
    <3>2. n.head = vm.head /\ n.paths = vm.paths
      BY <1>1, <2>4 DEF AfterExec, Machine
    <3> QED BY <1>2, <3>1, <3>2
  <2>5. ASSUME NEW w \in Witness, ProgramRecords(w)
        PROVE  Unique(vm')
    <3> DEFINE n == AfterExec(vm, w)
    <3>1. n \in Machine /\ Unique(n)
      BY <2>4, <2>5 DEF ProgramRecords
    <3>2. vm' \in {n, [n EXCEPT !.error = TRUE]}
      BY <2>5 DEF ProgramRecords
    <3> HIDE DEF n
    <3>3. vm'.head = n.head /\ vm'.paths = n.paths /\ vm'.output = n.output
      BY <3>1, <3>2 DEF Machine
    <3> QED BY <1>2, <3>1, <3>3
  <2>6. ASSUME NEW w \in Witness, ProgramCommits(w)
        PROVE  Unique(vm')
    <3> DEFINE n     == AfterExec(vm, w)
               input == WitnessInput(w)
    <3>1. n \in Machine /\ Unique(n) /\ n.output = Null
      BY <2>4, <2>6 DEF ProgramCommits
    <3>2. input.action = "close" => input.path = Null
      BY <2>6 DEF ProgramCommits, Loads, WitnessInput, PATH_ACTIONS
    <3>3. input \in Input /\ Accepts(n, input) /\ vm' = UpdateVMState(n, input)
      BY <2>6 DEF ProgramCommits
    <3> HIDE DEF n, input
    <3> QED BY <3>1, <3>2, <3>3, UpdateUnique
  <2> QED BY <1>1, <2>1, <2>2, <2>3, <2>5, <2>6 DEF MachineMoves
<1> QED BY <1>1, <1>3 DEF MachineMoves

Closes(m, ran) == ClosesRan(m, ran) /\ ClosesDiffer(m)

\* Machine n, with ran actions of its first task done, is as far as m with less.
NoLess(n, s, m, r) ==
    \/ Len(n.tasks) = Len(m.tasks) /\ r <= s
    \/ Len(n.tasks) + 1 = Len(m.tasks)

LEMMA SameCloses ==
    ASSUME NEW m, NEW n, NEW r \in Int, NEW s \in Int, Closes(m, r),
           n.head = m.head, NoLess(n, s, m, r),
           Len(m.tasks) \in Nat, Len(n.tasks) \in Nat
    PROVE  Closes(n, s)
<1>1. ClosesDiffer(n)
  BY DEF Closes, ClosesDiffer
<1>2. Len(All) \in Nat /\ \A k \in 1..Len(All) : All[k] \in Task
  BY InitTasksProperties DEF All
<1>3. \A k \in 1..Len(All) : Len(TaskActions(All[k])) \in Nat
  BY <1>2, TaskListsType
<1>4. ASSUME NEW k \in 1..Len(All), NEW a \in 1..Len(TaskActions(All[k])),
             HadTurn(m, r, k, a)
      PROVE  HadTurn(n, s, k, a)
  <2> DEFINE len == Len(TaskActions(All[k]))
  <2>1. len \in Nat /\ a \in 1..len
    BY <1>3
  <2> HIDE DEF All, len
  <2>2. CASE Len(n.tasks) = Len(m.tasks) /\ r <= s
    BY <1>2, <1>4, <2>1, <2>2 DEF HadTurn
  <2>3. CASE Len(n.tasks) + 1 = Len(m.tasks)
    <3>1. k <= Len(All) - Len(n.tasks)
      BY <1>2, <1>4, <2>3, SMTT(20) DEF HadTurn
    <3> QED BY <3>1 DEF HadTurn
  <2> QED BY <2>2, <2>3 DEF NoLess
<1> HIDE DEF All
<1>5. ClosesRan(n, s)
  BY <1>4 DEF Closes, ClosesRan
<1> QED BY <1>1, <1>5 DEF Closes

\* A commit that is no scheduled close.
LEMMA OtherCommit ==
    ASSUME NEW m \in Machine, NEW input \in Input, Accepts(m, input),
           NEW r, Closes(m, r), input.action # "close" \/ input.wid # Vmid
    PROVE  Closes(UpdateVMState(m, input), r)
<1> DEFINE u == UpdateVMState(m, input)
<1>1. u.head = Append(m.head, input)
  BY UpdateFields
<1>2. u.tasks = m.tasks
  BY DEF UpdateVMState, Machine
<1> HIDE DEF u
<1>3. /\ Len(m.head) \in Nat /\ Len(u.head) = Len(m.head) + 1
      /\ \A i \in 1..Len(m.head) : u.head[i] = m.head[i]
      /\ u.head[Len(m.head) + 1] = input
  <2>1. m.head \in Seq(Input)
    BY DEF Machine
  <2> QED BY <1>1, <2>1, AppendProperties
<1> HIDE DEF All
<1>4. ClosesRan(u, r)
  <2> SUFFICES ASSUME NEW i \in 1..Len(u.head), u.head[i].action = "close", u.head[i].wid = Vmid
               PROVE  \E k \in 1..Len(All) : \E a \in 1..Len(TaskActions(All[k])) :
                          CloseOf(u.head[i], k, a) /\ HadTurn(u, r, k, a)
    BY DEF ClosesRan
  <2>1. i \in 1..Len(m.head) /\ u.head[i] = m.head[i]
    BY <1>3
  <2>2. PICK k \in 1..Len(All) : \E a \in 1..Len(TaskActions(All[k])) :
                                   CloseOf(m.head[i], k, a) /\ HadTurn(m, r, k, a)
    BY <2>1 DEF Closes, ClosesRan
  <2>3. \A a : HadTurn(m, r, k, a) => HadTurn(u, r, k, a)
    BY <1>2 DEF HadTurn
  <2> QED BY <2>1, <2>2, <2>3
<1>5. ClosesDiffer(u)
  <2> SUFFICES ASSUME NEW i \in 1..Len(u.head), NEW j \in 1..Len(u.head), i < j,
                      u.head[i].action = "close", u.head[i].wid = Vmid
               PROVE  u.head[i] # u.head[j]
    BY DEF ClosesDiffer
  <2>1. i \in 1..Len(m.head) /\ u.head[i] = m.head[i]
    BY <1>3
  <2>2. CASE j \in 1..Len(m.head)
    BY <1>3, <2>1, <2>2 DEF Closes, ClosesDiffer
  <2>3. CASE j = Len(m.head) + 1
    <3>1. u.head[j] = input
      BY <1>3, <2>3
    <3> QED BY <3>1
  <2> QED BY <1>3, <2>2, <2>3
<1> QED BY <1>4, <1>5 DEF Closes, u

\* A scheduled close of action r + 1 of the first pending task.
LEMMA CloseCommit ==
    ASSUME ClosesOnce, NEW m \in Machine, NEW input \in Input, Accepts(m, input),
           NEW r \in Nat, Closes(m, r),
           m.tasks # <<>>, Pending(m.tasks),
           r + 1 <= Len(TaskActions(m.tasks[1])),
           TaskActions(m.tasks[1])[r + 1] = "close",
           input.action = "close", input.stamp = m.tasks[1].at + ActiveAt
    PROVE  Closes(UpdateVMState(m, input), r + 1)
<1> DEFINE u == UpdateVMState(m, input)
           K == Len(All) - Len(m.tasks) + 1
<1>1. u.head = Append(m.head, input)
  BY UpdateFields
<1>2. u.tasks = m.tasks /\ m.tasks \in Seq(Task)
  BY DEF UpdateVMState, Machine
<1> HIDE DEF u
<1>3. /\ Len(m.head) \in Nat /\ Len(u.head) = Len(m.head) + 1
      /\ \A i \in 1..Len(m.head) : u.head[i] = m.head[i]
      /\ u.head[Len(m.head) + 1] = input
  <2>1. m.head \in Seq(Input)
    BY DEF Machine
  <2> QED BY <1>1, <2>1, AppendProperties
<1>4. /\ All \in Seq(Task) /\ Len(All) \in Nat /\ Len(All) = Len(Schedule)
      /\ Schedule \in Seq(Task) /\ DOMAIN Schedule = 1..Len(Schedule)
  BY InitTasksProperties, TermsAssumption DEF All
<1>5. PICK f \in Bijection(DOMAIN Schedule, DOMAIN Schedule) :
         \A k \in DOMAIN Schedule : All[k] = Schedule[f[k]]
  BY InitTasksPermute DEF All
<1> HIDE DEF All
<1>6. K \in 1..Len(All) /\ m.tasks[1] = All[K] /\ Len(m.tasks) \in Nat
  <2>1. Len(m.tasks) \in Nat \ {0} /\ 1 \in 1..Len(m.tasks)
    BY <1>2, EmptySeq, LenProperties
  <2>2. Len(m.tasks) <= Len(All) /\ m.tasks[1] = All[Len(All) - Len(m.tasks) + 1]
    BY <2>1 DEF Pending
  <2> QED BY <1>4, <2>1, <2>2
<1> HIDE DEF K
<1>7. All[K].at \in Int /\ Len(TaskActions(All[K])) \in Nat
      /\ TaskActions(All[K]) \in Seq(STRING)
  <2>1. All[K] \in Task
    BY <1>4, <1>6
  <2> QED BY <2>1, TaskListsType DEF Task
<1>8. \A k \in 1..Len(All) : /\ All[k].at \in Int /\ TaskActions(All[k]) \in Seq(STRING)
                             /\ Len(TaskActions(All[k])) \in Nat
  <2>1. \A k \in 1..Len(All) : All[k] \in Task
    BY <1>4
  <2> QED BY <2>1, TaskListsType DEF Task
<1>9. ASSUME NEW i \in 1..Len(m.head), m.head[i].action = "close", m.head[i].wid = Vmid
      PROVE  m.head[i] # input
  <2> SUFFICES ASSUME m.head[i].stamp = input.stamp PROVE FALSE
    OBVIOUS
  <2>1. PICK k \in 1..Len(All) : \E a \in 1..Len(TaskActions(All[k])) :
                                   CloseOf(m.head[i], k, a) /\ HadTurn(m, r, k, a)
    BY <1>9 DEF Closes, ClosesRan
  <2>a. PICK a \in 1..Len(TaskActions(All[k])) :
             CloseOf(m.head[i], k, a) /\ HadTurn(m, r, k, a)
    BY <2>1
  <2>2. All[k].at = All[K].at
    <3>1. All[k].at + ActiveAt = All[K].at + ActiveAt
      BY <1>6, <2>a DEF CloseOf
    <3>2. All[k].at \in Int /\ All[K].at \in Int /\ ActiveAt \in Int
      BY <1>6, <1>8, TermsAssumption
    <3>3. \A x, y, z \in Int : x + z = y + z => x = y
      OBVIOUS
    <3> QED BY <3>1, <3>2, <3>3
  <2>3. f[k] \in DOMAIN Schedule /\ f[K] \in DOMAIN Schedule /\ (f[k] = f[K] => k = K)
    BY <1>4, <1>5, <1>6 DEF Bijection, Injection, IsInjective
  <2>4. All[k] = Schedule[f[k]] /\ All[K] = Schedule[f[K]]
    BY <1>4, <1>5, <1>6
  <2>5. a \in DOMAIN TaskActions(All[k]) /\ r + 1 \in DOMAIN TaskActions(All[K])
    BY <1>6, <1>7, <1>8
  <2>6. k = K /\ a = r + 1
    BY <1>6, <2>a, <2>2, <2>3, <2>4, <2>5 DEF ClosesOnce, CloseOf
  <2>7. a \in Nat
    BY <1>8
  <2> QED BY <1>4, <1>6, <2>a, <2>6, <2>7 DEF K, HadTurn
<1>10. ClosesRan(u, r + 1)
  <2> SUFFICES ASSUME NEW i \in 1..Len(u.head),
                      u.head[i].action = "close", u.head[i].wid = Vmid
               PROVE  \E k \in 1..Len(All) : \E a \in 1..Len(TaskActions(All[k])) :
                         CloseOf(u.head[i], k, a) /\ HadTurn(u, r + 1, k, a)
    BY DEF ClosesRan
  <2>1. CASE i \in 1..Len(m.head)
    <3>1. PICK k \in 1..Len(All) : \E a \in 1..Len(TaskActions(All[k])) :
                                     CloseOf(m.head[i], k, a) /\ HadTurn(m, r, k, a)
      BY <1>3, <2>1 DEF Closes, ClosesRan
    <3>2. PICK a \in 1..Len(TaskActions(All[k])) :
               CloseOf(m.head[i], k, a) /\ HadTurn(m, r, k, a)
      BY <3>1
    <3>3. a \in Nat
      BY <1>8
    <3>4. CloseOf(u.head[i], k, a)
      BY <1>3, <2>1, <3>2
    <3>5. HadTurn(u, r + 1, k, a)
      BY <1>2, <3>2, <3>3 DEF HadTurn
    <3> QED BY <3>4, <3>5
  <2>2. CASE i = Len(m.head) + 1
    <3>1. r + 1 \in 1..Len(TaskActions(All[K]))
      BY <1>6, <1>7
    <3>2. u.head[i].stamp = All[K].at + ActiveAt /\ K = Len(All) - Len(m.tasks) + 1
      BY <1>3, <1>6, <2>2 DEF K
    <3>3. CloseOf(u.head[i], K, r + 1)
      BY <1>6, <3>2 DEF CloseOf
    <3>4. HadTurn(u, r + 1, K, r + 1)
      BY <1>2, <3>2 DEF HadTurn
    <3> QED BY <1>6, <3>1, <3>3, <3>4
  <2>3. i \in 1..Len(m.head) \/ i = Len(m.head) + 1
    BY <1>3
  <2> QED BY <2>1, <2>2, <2>3
<1>11. ClosesDiffer(u)
  <2> SUFFICES ASSUME NEW i \in 1..Len(u.head), NEW j \in 1..Len(u.head), i < j,
                      u.head[i].action = "close", u.head[i].wid = Vmid
               PROVE  u.head[i] # u.head[j]
    BY DEF ClosesDiffer
  <2>1. i \in 1..Len(m.head) /\ u.head[i] = m.head[i]
    BY <1>3
  <2>2. CASE j \in 1..Len(m.head)
    BY <1>3, <2>1, <2>2 DEF Closes, ClosesDiffer
  <2>3. CASE j = Len(m.head) + 1
    <3>1. u.head[j] = input
      BY <1>3, <2>3
    <3> QED BY <1>9, <2>1, <3>1
  <2> QED BY <1>3, <2>2, <2>3
<1> QED BY <1>10, <1>11 DEF Closes, u

\* No scheduled action has its turn twice, so no scheduled close is made twice.
LEMMA ClosesStep ==
    ASSUME TimersForward, ClosesOnce, IInv, TaskInv, LoopInv, [Next]_vars,
           Closes(data, 0), Closes(vm, Ran)
    PROVE  Closes(data', 0) /\ Closes(vm', Ran')
<1>1. /\ data \in Machine /\ vm \in Machine
      /\ data.tasks \in Seq(Task) /\ vm.tasks \in Seq(Task)
      /\ Len(data.tasks) \in Nat /\ Len(vm.tasks) \in Nat
      /\ queue \in Seq(Task) /\ acts \in Seq(STRING) /\ stack \in Seq(Witness)
      /\ Len(acts) \in Nat
      /\ pc = "task" => queue # <<>> /\ queue = vm.tasks
      /\ pc = "program" => stack # <<>>
  BY DEF IInv, TypeOK, LoopsReady, Machine, TaskInv
<1>2. queue # <<>> => /\ Head(queue) = queue[1] /\ queue[1] \in Task
                      /\ Len(TaskActions(queue[1])) \in Nat
  <2>1. queue # <<>> => Head(queue) = queue[1] /\ queue[1] \in Task
    BY <1>1
  <2> QED BY <2>1, TaskListsType
<1>3. pc = "task" => /\ Len(acts) <= Len(TaskActions(queue[1])) /\ Ran \in Nat
                     /\ Ran = Len(TaskActions(queue[1])) - Len(acts)
  BY <1>1, <1>2 DEF LoopInv, Ran
<1>4. ASSUME pc # "task", pc' # "task"
      PROVE  Ran = 0 /\ Ran' = 0
  BY <1>4 DEF Ran
<1>5. CASE Call
  <2>1. pc # "task" /\ pc' # "task"
    BY <1>5 DEF Call, Eval, Run, Return, RunSchedule
  <2>2. vm' \in {data, [data EXCEPT !.error = FALSE]} /\ data' \in {data, vm'}
    BY <1>5 DEF Call, Eval, Run, Return, RunSchedule
  <2>3. vm'.head = data.head /\ vm'.tasks = data.tasks
    BY <1>1, <2>2 DEF Machine
  <2>4. Closes(vm', 0)
    BY <1>1, <2>3, SameCloses DEF NoLess
  <2> QED BY <1>4, <2>1, <2>2, <2>4
<1>6. CASE SkipTask \/ FinishSchedule
  <2>1. pc # "task" /\ pc' # "task" /\ vm' = vm /\ data' \in {data, vm}
    BY <1>6 DEF SkipTask, FinishSchedule, Return
  <2> QED BY <1>4, <2>1
<1>7. CASE StartTask
  <2>1. /\ pc # "task" /\ pc' = "task" /\ vm' = vm /\ data' = data
        /\ queue' = queue /\ acts' = TaskActions(queue[1])
        /\ Len(TaskActions(queue[1])) \in Nat
    BY <1>2, <1>7 DEF StartTask
  <2>2. Ran = 0 /\ Ran' = 0
    BY <2>1 DEF Ran
  <2> QED BY <2>1, <2>2
<1>8. CASE NextTaskAction
  <2>1. /\ pc = "task" /\ pc' = "task" /\ vm' = vm /\ data' = data
        /\ queue' = queue /\ acts' = Tail(acts) /\ acts # <<>>
    BY <1>8 DEF NextTaskAction
  <2>2. Len(acts') = Len(acts) - 1
    BY <1>1, <2>1, HeadTailProperties
  <2>3. Ran \in Nat /\ Ran' = Ran + 1
    BY <1>1, <1>2, <1>3, <2>1, <2>2 DEF Ran
  <2>4. Closes(vm, Ran + 1)
    BY <1>1, <2>3, SameCloses DEF NoLess
  <2> QED BY <2>1, <2>3, <2>4
<1>9. CASE FinishTask
  <2>1. /\ pc = "task" /\ pc' = "schedule" /\ data' = data
        /\ vm' = [vm EXCEPT !.tasks = Tail(@)] /\ vm.tasks # <<>>
    BY <1>1, <1>9 DEF FinishTask
  <2>2. vm'.head = vm.head /\ Len(vm'.tasks) + 1 = Len(vm.tasks) /\ Len(vm'.tasks) \in Nat
    <3>1. vm'.head = vm.head /\ vm'.tasks = Tail(vm.tasks)
      BY <1>1, <2>1 DEF Machine
    <3>2. Len(Tail(vm.tasks)) = Len(vm.tasks) - 1 /\ Tail(vm.tasks) \in Seq(Task)
      BY <1>1, <2>1, HeadTailProperties
    <3> QED BY <1>1, <3>1, <3>2, LenProperties
  <2>3. Ran' = 0 /\ Ran \in Nat
    BY <1>3, <2>1 DEF Ran
  <2>4. Closes(vm', 0)
    BY <1>1, <2>2, <2>3, SameCloses DEF NoLess
  <2> QED BY <2>1, <2>3, <2>4
<1>10. ASSUME NEW path, TryUpdate(TaskInput(Head(queue), Head(acts), path)),
              pc = "task", acts # <<>>, Head(acts) \in PATH_ACTIONS \/ path = Null
       PROVE  \/ vm' = vm
              \/ \E input \in Input :
                    /\ Accepts(vm, input) /\ vm' = UpdateVMState(vm, input)
                    /\ input.action = Head(acts) /\ input.stamp = queue[1].at + ActiveAt
  <2> DEFINE input == TaskInput(Head(queue), Head(acts), path)
  <2>1. CASE Accepts(vm, input)
    <3>1. Head(queue) \in Task /\ Head(acts) \in STRING
      BY <1>1, <1>2, <1>10
    <3>2. path \in PathSet \cup {Null}
      BY <1>10, <2>1 DEF Accepts, KnownTarget, TaskInput, PATH_ACTIONS
    <3>3. /\ input.action = Head(acts) /\ input.stamp = Head(queue).at + ActiveAt
          /\ Head(queue) = queue[1]
      BY <1>1, <1>2, <1>10 DEF TaskInput
    <3>4. input \in Input
      BY <3>1, <3>2, TermsAssumption DEF TaskInput, Input, Task
    <3> HIDE DEF input
    <3> QED BY <1>10, <2>1, <3>3, <3>4 DEF TryUpdate, input
  <2>2. CASE ~Accepts(vm, input)
    BY <1>10, <2>2 DEF TryUpdate
  <2> QED BY <2>1, <2>2
<1>11. CASE TaskOnPath
  <2>1. /\ pc = "task" /\ pc' = "task" /\ data' = data /\ queue' = queue /\ acts # <<>>
        /\ Head(acts) \in PATH_ACTIONS
        /\ TryUpdate(TaskInput(Head(queue), Head(acts), Head(left)))
        /\ acts' \in {acts, <<>>}
    BY <1>11, Zenon DEF TaskOnPath
  <2>2. Ran \in Nat /\ Ran' \in Int /\ Ran <= Ran'
    <3>1. Len(acts') \in Nat /\ Len(acts') <= Len(acts)
      BY <1>1, <2>1
    <3> QED BY <1>1, <1>2, <1>3, <2>1, <3>1 DEF Ran
  <2>3. ASSUME NEW input \in Input, Accepts(vm, input), input.action = Head(acts),
               vm' = UpdateVMState(vm, input)
        PROVE  Closes(vm', Ran) /\ vm'.tasks = vm.tasks
    <3>1. input.action # "close"
      BY <2>1, <2>3 DEF PATH_ACTIONS
    <3>2. UpdateVMState(vm, input).tasks = vm.tasks
      BY <1>1 DEF UpdateVMState, Machine
    <3> QED BY <1>1, <2>3, <3>1, <3>2, OtherCommit
  <2>4. Closes(vm', Ran) /\ vm'.tasks = vm.tasks
    BY <1>10, <2>1, <2>3
  <2>5. Closes(vm', Ran')
    BY <1>1, <2>2, <2>4, SameCloses DEF NoLess
  <2> QED BY <2>1, <2>5
<1>12. CASE TaskWithoutPath
  <2>1. /\ pc = "task" /\ pc' = "task" /\ data' = data /\ queue' = queue /\ acts # <<>>
        /\ Head(acts) \notin PATH_ACTIONS /\ acts' = Tail(acts)
        /\ TryUpdate(TaskInput(Head(queue), Head(acts), Null))
    BY <1>12 DEF TaskWithoutPath
  <2>2. Len(acts') = Len(acts) - 1 /\ Len(acts) >= 1 /\ Head(acts) = acts[1]
    BY <1>1, <2>1, HeadTailProperties, EmptySeq, LenProperties
  <2>3. Ran \in Nat /\ Ran' = Ran + 1
    BY <1>1, <1>2, <1>3, <2>1, <2>2 DEF Ran
  <2>4. CASE vm' = vm
    <3>1. Closes(vm, Ran + 1)
      BY <1>1, <2>3, SameCloses DEF NoLess
    <3> QED BY <2>1, <2>3, <2>4, <3>1
  <2>5. ASSUME NEW input \in Input, Accepts(vm, input), input.action = Head(acts),
               input.stamp = queue[1].at + ActiveAt, vm' = UpdateVMState(vm, input)
        PROVE  Closes(vm', Ran + 1)
    <3>1. input.action = "close"
      BY <2>1, <2>5 DEF Accepts, KnownTarget
    <3>2. /\ Ran + 1 <= Len(TaskActions(queue[1]))
          /\ TaskActions(queue[1])[Ran + 1] = "close"
      BY <1>1, <1>2, <1>3, <2>1, <2>2, <2>5, <3>1 DEF LoopInv
    <3>3. vm.tasks = queue /\ queue # <<>> /\ Pending(vm.tasks)
      BY <1>1, <2>1 DEF TaskInv
    <3> HIDE DEF Ran
    <3> QED BY <1>1, <2>3, <2>5, <3>1, <3>2, <3>3, CloseCommit
  <2> QED BY <1>10, <2>1, <2>3, <2>4, <2>5
<1>13. CASE ProgramThrows \/ ProgramFails \/ ProgramPends \/ ProgramPasses
  <2>1. pc # "task" /\ pc' # "task"
    BY <1>13 DEF ProgramThrows, ProgramFails, ProgramPends, ProgramPasses,
                 NextStatement, Return, RunSchedule
  <2>2. Closes(vm, 0) /\ Ran' = 0
    BY <1>4, <2>1
  <2>3. ASSUME NEW w \in Witness, Loads(w), NEW n, n = AfterExec(vm, w)
        PROVE  n \in Machine /\ Closes(n, 0)
    <3>1. n \in Machine
      BY <1>1, <2>3, AfterExecType DEF Loads, IInv
    <3>2. n.head = vm.head /\ n.tasks = vm.tasks
      BY <1>1, <2>3 DEF AfterExec, Machine
    <3> QED BY <1>1, <2>2, <3>1, <3>2, SameCloses DEF NoLess
  <2>5. ASSUME NEW w \in Witness, ProgramRecords(w)
        PROVE  Closes(vm', 0)
    <3> DEFINE n == AfterExec(vm, w)
    <3>1. n \in Machine /\ Closes(n, 0)
      BY <2>3, <2>5 DEF ProgramRecords
    <3>2. vm' \in {n, [n EXCEPT !.error = TRUE]}
      BY <2>5 DEF ProgramRecords
    <3> HIDE DEF n
    <3>3. vm'.head = n.head /\ vm'.tasks = n.tasks /\ Len(n.tasks) \in Nat
      BY <3>1, <3>2 DEF Machine
    <3> QED BY <3>1, <3>3, SameCloses DEF NoLess
  <2>6. ASSUME NEW w \in Witness, ProgramCommits(w)
        PROVE  Closes(vm', 0)
    <3> DEFINE n     == AfterExec(vm, w)
               input == WitnessInput(w)
    <3>1. n \in Machine /\ Closes(n, 0)
      BY <2>3, <2>6 DEF ProgramCommits
    <3>2. input.wid # Vmid
      BY <2>6, TermsAssumption DEF ProgramCommits, Loads, WitnessInput
    <3>3. input \in Input /\ Accepts(n, input) /\ vm' = UpdateVMState(n, input)
      BY <2>6 DEF ProgramCommits
    <3> HIDE DEF n, input
    <3> QED BY <3>1, <3>2, <3>3, OtherCommit
  <2> QED BY <1>13, <2>2, <2>5, <2>6, ProgramMoves
<1>14. CASE UNCHANGED vars
  BY <1>14 DEF vars, Ran
<1> QED BY <1>5, <1>6, <1>7, <1>8, <1>9, <1>11, <1>12, <1>13, <1>14 DEF Next, Internal

LEMMA OnceInvariance ==
    ASSUME TimersForward, ClosesOnce
    PROVE  Spec => []OnceInv
<1>1. Init => OnceInv
  <2> SUFFICES ASSUME Init PROVE OnceInv
    OBVIOUS
  <2>1. data = InitVM /\ vm = InitVM /\ pc = "idle" /\ InitVM.head = <<>>
    BY DEF Init, InitVM
  <2> QED BY <2>1 DEF OnceInv, LoopInv, Unique, ClosesRan, ClosesDiffer
<1>2. IInv /\ TaskInv /\ OnceInv /\ [Next]_vars => OnceInv'
  <2> SUFFICES ASSUME IInv, TaskInv, OnceInv, [Next]_vars PROVE OnceInv'
    OBVIOUS
  <2>1. LoopInv'
    BY LoopStep DEF OnceInv
  <2>2. Unique(data') /\ Unique(vm')
    BY UniqueStep DEF OnceInv
  <2>3. Closes(data', 0) /\ Closes(vm', Ran')
    BY ClosesStep DEF OnceInv, Closes
  <2> QED BY <2>1, <2>2, <2>3 DEF OnceInv, Closes, ClosesRan, ClosesDiffer, Unique
<1> QED BY <1>1, <1>2, Invariance, TasksInvariance, PTL DEF Spec

\* Of the schedule's tasks those that have run are gone, the others are left,
\* and nothing is committed twice (schedule.ts's shift).
THEOREM RunOnce ==
    ASSUME TimersForward, ClosesOnce
    PROVE  Spec => []TasksRunOnce
<1>1. IInv /\ TaskInv /\ OnceInv => TasksRunOnce
  <2> SUFFICES ASSUME IInv, TaskInv, OnceInv PROVE TasksRunOnce
    OBVIOUS
  <2>1. /\ data.tasks \in Seq(Task) /\ data.head \in Seq(Input)
        /\ DOMAIN data.head = 1..Len(data.head)
    BY DEF IInv, TypeOK, Machine
  <2> DEFINE n == Len(data.tasks)
             s == SubSeq(All, Len(All) - n + 1, Len(All))
  <2>2. data.tasks = s
    <3>1. /\ All \in Seq(Task) /\ Len(All) \in Nat /\ DOMAIN All = 1..Len(All) /\ n \in Nat
      BY <2>1, InitTasksProperties DEF All
    <3>2. n <= Len(All) /\ \A k \in 1..n : data.tasks[k] = All[Len(All) - n + k]
      BY DEF TaskInv, Pending
    <3> HIDE DEF All, n
    <3>3. Len(s) = n /\ \A k \in 1..n : s[k] = All[Len(All) - n + k]
      BY <3>1, <3>2
    <3>4. s \in Seq(Task)
      BY <3>1, <3>2
    <3> HIDE DEF s
    <3>5. /\ Len(data.tasks) = Len(s)
          /\ \A k \in 1..Len(data.tasks) : data.tasks[k] = s[k]
      BY <3>2, <3>3 DEF n
    <3> QED BY <2>1, <3>4, <3>5, SeqEqual
  <2>3. \A i, j \in DOMAIN data.head :
           (i < j /\ data.head[i].wid = Vmid) => data.head[i] # data.head[j]
    BY <2>1 DEF OnceInv, Unique, ClosesDiffer
  <2> QED BY <2>2, <2>3 DEF TasksRunOnce, All
<1> QED BY <1>1, Invariance, TasksInvariance, OnceInvariance, PTL

-----------------------------------------------------------------------------
(* What the schedule decides.  A task whose time has come before the machine *)
(* expires is on time (TaskInv), so a spend can only be refused for the path  *)
(* being locked or disputed, which it then stays, and a close not at all.     *)

\* Of task t, the first `ran` actions are done, and the next one on the first
\* `tried` paths.
Worked(m, t, ran, tried) ==
    (t.at + ActiveAt < ExpiresAt /\ m.output = Null) =>
        \A a \in 1..Len(TaskActions(t)) :
            /\ (TaskActions(t)[a] = "close" /\ a <= ran) => m.closed
            /\ TaskActions(t)[a] = "spend" =>
                  \A b \in 1..Len(TaskPaths(t)) :
                     (/\ a <= ran \/ (a = ran + 1 /\ b <= tried)
                      /\ TaskPaths(t)[b] \in PathSet) =>
                         m.paths[TaskPaths(t)[b]] \in {"disputed", "locked"}

Decided(m) ==
    \A k \in 1..Len(All) :
        k <= Len(All) - Len(m.tasks) => Worked(m, All[k], Len(TaskActions(All[k])), 0)

\* How many paths the current action has been tried on.
Tried == Len(TaskPaths(queue[1])) - Len(left)

RunningDecided == pc = "task" => Worked(vm, queue[1], Ran, Tried)

DecideInv == LoopInv /\ Decided(data) /\ Decided(vm) /\ RunningDecided

\* What is decided is not undone.
LEMMA DecidedStays ==
    ASSUME NEW m, NEW n, Freezes(n, m)
    PROVE  /\ \A t, r, s : Worked(m, t, r, s) => Worked(n, t, r, s)
           /\ (Decided(m) /\ Len(n.tasks) = Len(m.tasks)) => Decided(n)
<1>1. ASSUME NEW t, NEW r, NEW s, Worked(m, t, r, s)
      PROVE  Worked(n, t, r, s)
  BY <1>1 DEF Worked, Freezes
<1> QED BY <1>1 DEF Decided

LEMMA DecidedStep ==
    ASSUME IInv, TaskInv, DecideInv, [Next]_vars
    PROVE  Decided(data') /\ Decided(vm')
<1>1. /\ MachineMoves /\ data \in Machine /\ vm \in Machine /\ Settled(vm)
      /\ Decided(data) /\ Decided(vm)
  BY Moves DEF IInv, TypeOK, DecideInv
<1>2. ASSUME NEW m, NEW n, Decided(m), n.closed = m.closed, n.paths = m.paths,
             n.output = m.output, n.tasks = m.tasks
      PROVE  Decided(n)
  BY <1>2, DecidedStays DEF Freezes
<1>3. Decided(vm')
  <2>1. CASE vm' \in {vm, data, [data EXCEPT !.error = FALSE]}
    <3>1. CASE vm' = [data EXCEPT !.error = FALSE]
      <4>1. /\ vm'.closed = data.closed /\ vm'.paths = data.paths
            /\ vm'.output = data.output /\ vm'.tasks = data.tasks
        BY <1>1, <3>1 DEF Machine
      <4> QED BY <1>1, <1>2, <4>1
    <3> QED BY <1>1, <2>1, <3>1
  <2>2. CASE FinishTask
    <3>1. /\ pc = "task" /\ acts = <<>> /\ queue = vm.tasks /\ queue # <<>>
          /\ queue \in Seq(Task) /\ Pending(vm.tasks)
      BY <2>2 DEF FinishTask, IInv, TypeOK, LoopsReady, TaskInv
    <3>2. vm' = [vm EXCEPT !.tasks = Tail(@)]
      BY <2>2, <3>1 DEF FinishTask
    <3>3. /\ Freezes(vm', vm) /\ vm'.tasks = Tail(vm.tasks)
          /\ Len(vm'.tasks) = Len(vm.tasks) - 1 /\ Len(vm.tasks) \in Nat \ {0}
      <4>1. /\ vm'.closed = vm.closed /\ vm'.paths = vm.paths
            /\ vm'.output = vm.output /\ vm'.tasks = Tail(vm.tasks)
        BY <1>1, <3>2 DEF Machine
      <4> QED BY <3>1, <4>1, HeadTailProperties, LenProperties, EmptySeq DEF Freezes
    <3> DEFINE K == Len(All) - Len(vm.tasks) + 1
    <3>4. Len(All) \in Nat /\ queue[1] = All[K] /\ K \in 1..Len(All)
      <4>1. Len(All) \in Nat /\ 1 \in 1..Len(vm.tasks)
        BY <3>1, <3>3, InitTasksProperties, LenProperties DEF All
      <4>2. Len(vm.tasks) <= Len(All) /\ vm.tasks[1] = All[K]
        BY <3>1, <4>1 DEF Pending
      <4> HIDE DEF All
      <4> QED BY <3>1, <3>3, <4>1, <4>2
    <3>5. Worked(vm, All[K], Len(TaskActions(All[K])), 0)
      <4>1. queue[1] \in Task /\ Len(acts) = 0
        BY <3>1, EmptySeq
      <4>2. Len(TaskActions(queue[1])) \in Nat
        BY <4>1, TaskListsType
      <4>3. Worked(vm, queue[1], Len(TaskActions(queue[1])), Tried)
        BY <3>1, <4>1, <4>2 DEF DecideInv, RunningDecided, Ran
      <4>4. ASSUME NEW len \in Nat, NEW t, len = Len(TaskActions(t)), Worked(vm, t, len, Tried)
            PROVE  Worked(vm, t, len, 0)
        BY <4>4 DEF Worked
      <4> QED BY <3>4, <4>2, <4>3, <4>4
    <3>6. ASSUME NEW k \in 1..Len(All), k <= Len(All) - Len(vm'.tasks)
          PROVE  Worked(vm', All[k], Len(TaskActions(All[k])), 0)
      <4>1. k <= Len(All) - Len(vm.tasks) \/ k = K
        BY <3>3, <3>4, <3>6
      <4>2. Worked(vm, All[k], Len(TaskActions(All[k])), 0)
        BY <1>1, <3>5, <4>1 DEF Decided
      <4> QED BY <3>3, <4>2, DecidedStays
    <3> QED BY <3>6 DEF Decided
  <2>3. ASSUME NEW input \in Input, TaskCommit(input)
        PROVE  Decided(vm')
    <3>1. Freezes(vm', vm)
      BY <1>1, <2>3, UpdateFreezes DEF TaskCommit
    <3>2. vm'.tasks = vm.tasks
      BY <1>1, <2>3 DEF TaskCommit, UpdateVMState, Machine
    <3> QED BY <1>1, <3>1, <3>2, DecidedStays
  <2>4. ASSUME NEW w \in Witness, Loads(w), NEW n, n = AfterExec(vm, w)
        PROVE  n \in Machine /\ Decided(n) /\ n.output = vm.output
    <3>1. n \in Machine /\ n.output = vm.output
      BY <1>1, <2>4, AfterExecType DEF Loads
    <3>2. n.closed = vm.closed /\ n.paths = vm.paths /\ n.tasks = vm.tasks
      BY <1>1, <2>4 DEF AfterExec, Machine
    <3> QED BY <1>1, <1>2, <3>1, <3>2
  <2>5. ASSUME NEW w \in Witness, ProgramRecords(w)
        PROVE  Decided(vm')
    <3> DEFINE n == AfterExec(vm, w)
    <3>1. n \in Machine /\ Decided(n)
      BY <2>4, <2>5 DEF ProgramRecords
    <3>2. vm' \in {n, [n EXCEPT !.error = TRUE]}
      BY <2>5 DEF ProgramRecords
    <3> HIDE DEF n
    <3>3. /\ vm'.closed = n.closed /\ vm'.paths = n.paths
          /\ vm'.output = n.output /\ vm'.tasks = n.tasks
      BY <3>1, <3>2 DEF Machine
    <3> QED BY <1>2, <3>1, <3>3
  <2>6. ASSUME NEW w \in Witness, ProgramCommits(w)
        PROVE  Decided(vm')
    <3> DEFINE n     == AfterExec(vm, w)
               input == WitnessInput(w)
    <3>1. n \in Machine /\ Decided(n) /\ n.output = Null
      BY <2>4, <2>6 DEF ProgramCommits
    <3>2. input.action = "close" => input.path = Null
      BY <2>6 DEF ProgramCommits, Loads, WitnessInput, PATH_ACTIONS
    <3>3. input \in Input /\ Accepts(n, input) /\ vm' = UpdateVMState(n, input)
      BY <2>6 DEF ProgramCommits
    <3> HIDE DEF n, input
    <3>4. Freezes(vm', n) /\ vm'.tasks = n.tasks
      <4>1. Freezes(vm', n)
        BY <3>1, <3>2, <3>3, UpdateFreezes
      <4> QED BY <3>1, <3>3, <4>1 DEF UpdateVMState, Machine
    <3> QED BY <3>1, <3>4, DecidedStays
  <2> QED BY <1>1, <2>1, <2>2, <2>3, <2>5, <2>6 DEF MachineMoves
<1> QED BY <1>1, <1>3 DEF MachineMoves

\* A task has been given its turn on one more path, or in one more action.
LEMMA RunningStep ==
    ASSUME IInv, TaskInv, DecideInv, [Next]_vars
    PROVE  RunningDecided'
<1>1. /\ vm \in Machine /\ vm.paths \in [PathSet -> PathStates] /\ Null \notin PathSet
      /\ queue \in Seq(Task) /\ acts \in Seq(STRING) /\ left \in Seq(STRING)
      /\ Len(acts) \in Nat /\ Len(left) \in Nat
      /\ pc = "task" => queue # <<>> /\ queue = vm.tasks
      /\ (pc = "task" /\ acts # <<>>) => vm.output = Null
      /\ ActiveAt \in Int /\ ExpiresAt \in Int
  <2>1. TypeOK /\ LoopsReady /\ Undecided
    BY DEF IInv
  <2>2. vm \in Machine /\ queue \in Seq(Task) /\ acts \in Seq(STRING) /\ left \in Seq(STRING)
    BY <2>1 DEF TypeOK
  <2>3. vm.paths \in [PathSet -> PathStates] /\ Len(acts) \in Nat /\ Len(left) \in Nat
    BY <2>2 DEF Machine
  <2>4. /\ pc = "task" => queue # <<>> /\ queue = vm.tasks
        /\ (pc = "task" /\ acts # <<>>) => vm.output = Null
    BY <2>1 DEF LoopsReady, Undecided, TaskInv
  <2>5. Null \notin PathSet /\ ActiveAt \in Int /\ ExpiresAt \in Int
    BY TermsAssumption
  <2> QED BY <2>2, <2>3, <2>4, <2>5
<1>2. queue # <<>> => /\ Head(queue) = queue[1] /\ queue[1] \in Task
                      /\ queue[1].at \in Int
                      /\ TaskActions(queue[1]) \in Seq(STRING)
                      /\ TaskPaths(queue[1]) \in Seq(STRING)
                      /\ Len(TaskActions(queue[1])) \in Nat
                      /\ Len(TaskPaths(queue[1])) \in Nat
  <2>1. queue # <<>> => Head(queue) = queue[1] /\ queue[1] \in Task
    BY <1>1
  <2>2. queue # <<>> => /\ TaskActions(queue[1]) \in Seq(STRING)
                        /\ TaskPaths(queue[1]) \in Seq(STRING)
    BY <2>1, TaskListsType
  <2> QED BY <2>1, <2>2 DEF Task
<1> DEFINE actions == TaskActions(queue[1])
           paths   == TaskPaths(queue[1])
<1>3. pc = "task" =>
         /\ Len(acts) <= Len(actions) /\ Len(left) <= Len(paths)
         /\ \A i \in 1..Len(acts) : acts[i] = actions[Len(actions) - Len(acts) + i]
         /\ \A i \in 1..Len(left) : left[i] = paths[Len(paths) - Len(left) + i]
         /\ (acts # <<>> /\ acts[1] \notin PATH_ACTIONS) => left = paths
         /\ Ran = Len(actions) - Len(acts) /\ Ran \in Nat
         /\ Tried = Len(paths) - Len(left) /\ Tried \in Nat
         /\ Worked(vm, queue[1], Ran, Tried)
  BY <1>1, <1>2 DEF DecideInv, LoopInv, RunningDecided, Ran, Tried
<1>a. \A r \in Nat, n \in Nat : \A x \in 1..n : x <= r + 1 => x <= r \/ x = r + 1
  OBVIOUS
\* An update of the task that is refused, or not.
<1>4. ASSUME pc = "task", acts # <<>>, NEW path,
             TryUpdate(TaskInput(Head(queue), Head(acts), path)),
             Head(acts) \in PATH_ACTIONS \/ path = Null
      PROVE  /\ Freezes(vm', vm)
             /\ (queue[1].at + ActiveAt < ExpiresAt /\ vm'.output = Null) =>
                   /\ Head(acts) = "close" => vm'.closed
                   /\ (Head(acts) = "spend" /\ path \in PathSet) =>
                         vm'.paths[path] \in {"disputed", "locked"}
  <2> DEFINE input == TaskInput(Head(queue), Head(acts), path)
  <2>1. /\ input.action = Head(acts) /\ input.path = path
        /\ input.stamp = queue[1].at + ActiveAt
    BY <1>1, <1>2, <1>4 DEF TaskInput
  <2>2. CASE Accepts(vm, input)
    <3>1. Head(queue) \in Task /\ Head(acts) \in STRING
      BY <1>1, <1>2, <1>4
    <3>2. path \in PathSet \cup {Null}
      BY <1>4, <2>2 DEF Accepts, KnownTarget, TaskInput, PATH_ACTIONS
    <3>3. input \in Input
      BY <3>1, <3>2, TermsAssumption DEF TaskInput, Input, Task
    <3>4. input.action = "close" => input.path = Null
      BY <1>4, <2>1 DEF PATH_ACTIONS
    <3>5. vm' = UpdateVMState(vm, input)
      BY <1>4, <2>2 DEF TryUpdate
    <3> HIDE DEF input
    <3>6. Freezes(vm', vm)
      BY <1>1, <1>4, <2>2, <3>3, <3>4, <3>5, UpdateFreezes
    <3>7. /\ input.action = "close" => vm'.closed
          /\ input.action = "spend" => vm'.output # Null
      BY <1>1, <1>4, <2>2, <3>3, <3>4, <3>5, UpdatePaths
    <3> QED BY <2>1, <3>6, <3>7
  <2>3. CASE ~Accepts(vm, input)
    <3>1. vm' = vm
      BY <1>4, <2>3 DEF TryUpdate
    <3>2. queue[1].at + ActiveAt < ExpiresAt => CheckUpdateStamp(vm, input.stamp)
      <4>1. OnTime(vm) /\ vm.tasks = queue /\ 1 \in 1..Len(queue)
        BY <1>1, <1>4, EmptySeq, LenProperties DEF TaskInv
      <4>2. vm.commit_at <= queue[1].at + ActiveAt
        BY <4>1 DEF OnTime
      <4> QED BY <2>1, <4>2 DEF CheckUpdateStamp
    <3>3. queue[1].at + ActiveAt < ExpiresAt => Head(acts) # "close"
      BY <2>1, <2>3, <3>2 DEF Accepts
    <3>4. (queue[1].at + ActiveAt < ExpiresAt /\ Head(acts) = "spend" /\ path \in PathSet) =>
             vm.paths[path] \in {"disputed", "locked"}
      BY <2>1, <2>3, <3>2 DEF Accepts, KnownTarget, PATH_ACTIONS, PathActionAllowed
    <3> QED BY <3>1, <3>3, <3>4 DEF Freezes
  <2> QED BY <2>2, <2>3
\* What that makes of the task.
<1>5. CASE pc' # "task"
  BY <1>5 DEF RunningDecided
<1>6. CASE StartTask
  <2>1. /\ vm' = vm /\ queue' = queue /\ queue # <<>> /\ pc' = "task"
        /\ acts' = actions /\ left' = paths
    BY <1>2, <1>6 DEF StartTask
  <2>2. Ran' = 0 /\ Tried' = 0
    BY <1>2, <2>1 DEF Ran, Tried
  <2>3. Worked(vm, queue[1], 0, 0)
    BY <1>2, <2>1 DEF Worked
  <2> QED BY <2>1, <2>2, <2>3 DEF RunningDecided
<1>7. CASE TaskOnPath
  <2>1. /\ pc = "task" /\ pc' = "task" /\ queue' = queue /\ left # <<>> /\ acts # <<>>
        /\ Head(acts) \in PATH_ACTIONS
        /\ TryUpdate(TaskInput(Head(queue), Head(acts), Head(left)))
        /\ \/ vm'.output # Null
           \/ acts' = acts /\ left' = Tail(left)
    BY <1>7, Zenon DEF TaskOnPath
  <2>2. CASE vm'.output # Null
    BY <2>1, <2>2 DEF RunningDecided, Worked
  <2>3. CASE acts' = acts /\ left' = Tail(left) /\ vm'.output = Null
    <3>1. Len(left') = Len(left) - 1 /\ Len(left) >= 1 /\ Head(left) = left[1]
      BY <1>1, <2>1, <2>3, HeadTailProperties, EmptySeq, LenProperties
    <3>2. Len(acts) >= 1 /\ Head(acts) = acts[1]
      BY <1>1, <2>1, EmptySeq, LenProperties
    <3>3. /\ Ran' = Ran /\ Tried' = Tried + 1
          /\ Head(acts) = actions[Ran + 1] /\ Head(left) = paths[Tried + 1]
      <4>1. Head(acts) = actions[Ran + 1] /\ Head(left) = paths[Tried + 1]
        BY <1>1, <1>2, <1>3, <2>1, <3>1, <3>2
      <4>2. Ran' = Ran /\ Tried' = Tried + 1
        BY <1>1, <1>2, <1>3, <2>1, <2>3, <3>1 DEF Ran, Tried
      <4> QED BY <4>1, <4>2
    <3>4. Worked(vm', queue[1], Ran, Tried)
      BY <1>3, <1>4, <2>1, DecidedStays
    <3>5. Worked(vm', queue[1], Ran, Tried + 1)
      <4>1. \A b \in 1..Len(paths) : b <= Tried + 1 => b <= Tried \/ b = Tried + 1
        <5>1. Tried \in Nat /\ Len(paths) \in Nat
          BY <1>1, <1>2, <1>3, <2>1
        <5> HIDE DEF Tried, paths
        <5> QED BY <1>a, <5>1
      <4>2. (queue[1].at + ActiveAt < ExpiresAt /\ vm'.output = Null) =>
               ((Head(acts) = "spend" /\ Head(left) \in PathSet) =>
                   vm'.paths[Head(left)] \in {"disputed", "locked"})
        BY <1>4, <2>1
      <4> HIDE DEF Ran, Tried
      <4> QED BY <3>3, <3>4, <4>1, <4>2 DEF Worked
    <3> QED BY <2>1, <3>3, <3>5 DEF RunningDecided
  <2> QED BY <2>1, <2>2, <2>3
<1>8. CASE TaskWithoutPath
  <2>1. /\ pc = "task" /\ pc' = "task" /\ queue' = queue /\ left' = left /\ acts # <<>>
        /\ Head(acts) \notin PATH_ACTIONS /\ acts' = Tail(acts)
        /\ TryUpdate(TaskInput(Head(queue), Head(acts), Null))
    BY <1>8 DEF TaskWithoutPath
  <2>2. /\ Len(acts') = Len(acts) - 1 /\ Len(acts) >= 1 /\ Head(acts) = acts[1]
    BY <1>1, <2>1, HeadTailProperties, EmptySeq, LenProperties
  <2>3. Ran' = Ran + 1 /\ Tried' = 0 /\ Tried = 0
    BY <1>1, <1>2, <1>3, <2>1, <2>2 DEF Ran, Tried
  <2>4. Head(acts) = actions[Ran + 1] /\ Head(acts) # "spend"
    <3>1. Head(acts) = actions[Ran + 1]
      BY <1>1, <1>2, <1>3, <2>1, <2>2
    <3> QED BY <2>1, <3>1 DEF PATH_ACTIONS
  <2>5. /\ Worked(vm', queue[1], Ran, 0)
        /\ (queue[1].at + ActiveAt < ExpiresAt /\ vm'.output = Null) =>
              (Head(acts) = "close" => vm'.closed)
    BY <1>3, <1>4, <2>1, <2>3, DecidedStays
  <2>6. Worked(vm', queue[1], Ran + 1, 0)
    <3>1. \A a \in 1..Len(actions) : a <= Ran + 1 => a <= Ran \/ a = Ran + 1
      <4>1. Ran \in Nat /\ Len(actions) \in Nat
        BY <1>1, <1>2, <1>3, <2>1
      <4> HIDE DEF Ran, actions
      <4> QED BY <1>a, <4>1
    <3>2. \A b \in 1..Len(paths) : ~(b <= 0)
      BY <1>2, <2>1, <1>1
    <3> HIDE DEF Ran
    <3> QED BY <2>4, <2>5, <3>1, <3>2 DEF Worked
  <2> QED BY <2>1, <2>3, <2>6 DEF RunningDecided
<1>9. CASE NextTaskAction
  <2>1. /\ pc = "task" /\ pc' = "task" /\ queue' = queue /\ vm' = vm /\ acts # <<>>
        /\ acts' = Tail(acts) /\ left = <<>> /\ left' = paths /\ queue # <<>>
        /\ Head(acts) \in PATH_ACTIONS
    BY <1>1, <1>2, <1>9 DEF NextTaskAction
  <2>2. Len(acts') = Len(acts) - 1 /\ Len(acts) >= 1 /\ Head(acts) = acts[1]
    BY <1>1, <2>1, HeadTailProperties, EmptySeq, LenProperties
  <2>3. Ran' = Ran + 1 /\ Tried' = 0 /\ Tried = Len(paths)
    BY <1>1, <1>2, <1>3, <2>1, <2>2, EmptySeq DEF Ran, Tried
  <2>4. actions[Ran + 1] # "close"
    BY <1>1, <1>2, <1>3, <2>1, <2>2 DEF PATH_ACTIONS
  <2>5. Worked(vm, queue[1], Ran + 1, 0)
    <3>1. \A a \in 1..Len(actions) : a <= Ran + 1 => a <= Ran \/ a = Ran + 1
      <4>1. Ran \in Nat /\ Len(actions) \in Nat
        BY <1>1, <1>2, <1>3, <2>1
      <4> HIDE DEF Ran, actions
      <4> QED BY <1>a, <4>1
    <3>2. \A b \in 1..Len(paths) : ~(b <= 0) /\ b <= Tried
      BY <1>2, <2>1, <2>3
    <3>3. Worked(vm, queue[1], Ran, Tried)
      BY <1>3, <2>1
    <3> HIDE DEF Ran, Tried
    <3> QED BY <2>4, <3>1, <3>2, <3>3 DEF Worked
  <2> QED BY <2>1, <2>3, <2>5 DEF RunningDecided
<1>10. CASE UNCHANGED vars
  BY <1>10 DEF vars, DecideInv, RunningDecided, Worked, Ran, Tried
<1>11. CASE \/ SkipTask \/ FinishTask \/ FinishSchedule \/ Call
            \/ ProgramThrows \/ ProgramFails \/ ProgramPends \/ ProgramPasses
  <2>1. pc' # "task"
    BY <1>11 DEF SkipTask, FinishTask, FinishSchedule, Call, Eval, Run,
                 ProgramThrows, ProgramFails, ProgramPends, ProgramPasses,
                 NextStatement, Return, RunSchedule
  <2> QED BY <1>5, <2>1
<1> QED BY <1>6, <1>7, <1>8, <1>9, <1>10, <1>11 DEF Next, Internal

\* When its schedule is worked off, a machine without an outcome is closed if a
\* task was to close it, and disputed or locked on each path a task was to spend
\* (schedule.ts, action.ts).
THEOREM Decides ==
    ASSUME TimersForward
    PROVE  Spec => []ScheduleDecides
<1>1. Init => DecideInv
  <2> SUFFICES ASSUME Init PROVE DecideInv
    OBVIOUS
  <2>1. data = InitVM /\ vm = InitVM /\ pc = "idle" /\ InitVM.tasks = All
    BY DEF Init, InitVM, All
  <2>2. Len(All) \in Nat
    BY InitTasksProperties DEF All
  <2> HIDE DEF All
  <2>3. Decided(InitVM)
    BY <2>1, <2>2 DEF Decided
  <2> QED BY <2>1, <2>3 DEF DecideInv, LoopInv, RunningDecided
<1>2. IInv /\ TaskInv /\ DecideInv /\ [Next]_vars => DecideInv'
  <2> SUFFICES ASSUME IInv, TaskInv, DecideInv, [Next]_vars PROVE DecideInv'
    OBVIOUS
  <2>1. LoopInv'
    BY LoopStep DEF DecideInv
  <2>2. Decided(data') /\ Decided(vm')
    BY DecidedStep
  <2>3. RunningDecided'
    BY RunningStep
  <2> QED BY <2>1, <2>2, <2>3 DEF DecideInv, Decided, Worked
<1>3. IInv /\ DecideInv => ScheduleDecides
  <2> SUFFICES ASSUME IInv, Decided(data), NEW i \in DOMAIN Schedule,
                      data.tasks = <<>>, Schedule[i].at + ActiveAt < ExpiresAt,
                      data.output = Null
               PROVE  /\ (\E a \in DOMAIN TaskActions(Schedule[i]) :
                             TaskActions(Schedule[i])[a] = "close") => data.closed
                      /\ (\E a \in DOMAIN TaskActions(Schedule[i]) :
                             TaskActions(Schedule[i])[a] = "spend") =>
                            \A p \in PathSet :
                               (\E b \in DOMAIN TaskPaths(Schedule[i]) :
                                   TaskPaths(Schedule[i])[b] = p) =>
                                  data.paths[p] \in {"disputed", "locked"}
    BY DEF DecideInv, ScheduleDecides, TaskActions, TaskPaths
  <2>1. PICK k \in DOMAIN Schedule : All[k] = Schedule[i]
    <3>1. PICK f \in Bijection(DOMAIN Schedule, DOMAIN Schedule) :
             \A k \in DOMAIN Schedule : All[k] = Schedule[f[k]]
      BY InitTasksPermute DEF All
    <3>2. PICK k \in DOMAIN Schedule : f[k] = i
      BY DEF Bijection, Surjection
    <3> QED BY <3>1, <3>2
  <2>2. Len(All) = Len(Schedule) /\ Schedule \in Seq(Task) /\ Len(Schedule) \in Nat
    BY InitTasksProperties, TermsAssumption DEF All
  <2> HIDE DEF All
  <2> DEFINE t == Schedule[i]
  <2>3. /\ t \in Task /\ Len(TaskActions(t)) \in Nat
        /\ DOMAIN TaskActions(t) = 1..Len(TaskActions(t))
        /\ DOMAIN TaskPaths(t) = 1..Len(TaskPaths(t))
    <3>1. t \in Task
      BY <2>2
    <3> HIDE DEF t
    <3> QED BY <3>1, TaskListsType
  <2>4. Worked(data, t, Len(TaskActions(t)), 0)
    <3>1. k \in 1..Len(All) /\ k <= Len(All) - Len(data.tasks)
      BY <2>2, EmptySeq
    <3> QED BY <2>1, <3>1 DEF Decided
  <2>5. t.at + ActiveAt < ExpiresAt
    OBVIOUS
  <2>6. \A a \in 1..Len(TaskActions(t)) : a <= Len(TaskActions(t))
    BY <2>3
  <2> HIDE DEF t
  <2>7. (\E a \in DOMAIN TaskActions(t) : TaskActions(t)[a] = "close") => data.closed
    BY <2>3, <2>4, <2>5, <2>6 DEF Worked
  <2>8. (\E a \in DOMAIN TaskActions(t) : TaskActions(t)[a] = "spend") =>
           \A p \in PathSet :
              (\E b \in DOMAIN TaskPaths(t) : TaskPaths(t)[b] = p) =>
                 data.paths[p] \in {"disputed", "locked"}
    BY <2>3, <2>4, <2>5, <2>6 DEF Worked
  <2> QED BY <2>7, <2>8 DEF t
<1> QED BY <1>1, <1>2, <1>3, Invariance, TasksInvariance, PTL DEF Spec

-----------------------------------------------------------------------------
(* Where a call stands in the loops of CVMEval.                             *)

\* Once in T, the loop changes nothing.
Halts(P, n, T) == \A k \in 1..n : P[k - 1] \in T => P[k] = P[k - 1]

\* So it is with the loops of the schedule once there is an output.
Over == {m \in Good : m.output # Null}

LEMMA Halted ==
    ASSUME NEW n \in Nat, NEW P, NEW T, Halts(P, n, T), NEW j \in 0..n, P[j] \in T
    PROVE  P[n] = P[j]
<1>. DEFINE S == {k \in 0..n : k >= j => P[k] = P[j]}
<1>1. 0 \in S
  OBVIOUS
<1>2. ASSUME NEW k \in 1..n, k - 1 \in S PROVE k \in S
  <2>1. CASE k <= j
    BY <2>1
  <2>2. CASE k > j
    <3>1. P[k - 1] = P[j]
      BY <1>2, <2>2
    <3>. QED
      BY <3>1 DEF Halts
  <2>. QED
    BY <2>1, <2>2
<1>3. Climbs(S, n)
  BY <1>1, <1>2 DEF Climbs
<1>4. \A k \in 0..n : k \in S
  <2>. HIDE DEF S
  <2>. QED  BY <1>3, Climb
<1>5. n \in 0..n /\ n >= j
  OBVIOUS
<1>. QED
  BY <1>4, <1>5

\* An action of a task that began on machine m stands at machine u, with the
\* paths in rest to go.
PathsAt(m, t, action, u, rest) ==
    \E P, j :
        /\ j \in 0..Len(TaskPaths(t))
        /\ OverPaths(P, Good, m, t, action)
        /\ u = P[j] /\ rest = Rest(TaskPaths(t), j)

\* So does the task, with the actions in todo, too.
ActionsAt(m, t, u, todo, rest) ==
    \E A, l :
        /\ l \in 0..Len(TaskActions(t))
        /\ OverActions(A, Good, m, t)
        /\ todo = Rest(TaskActions(t), l)
        /\ todo = <<>> => u = A[l]
        /\ todo # <<>> /\ Head(todo) \in PATH_ACTIONS =>
              PathsAt(A[l], t, Head(todo), u, rest)
        /\ todo # <<>> /\ Head(todo) \notin PATH_ACTIONS =>
              u = A[l] /\ rest = TaskPaths(t)

LEMMA PathsBegin ==
    ASSUME NEW m \in Good, NEW t \in Task, NEW action \in PATH_ACTIONS
    PROVE  PathsAt(m, t, action, m, TaskPaths(t))
<1>1. UpdatesStay(Good, t) /\ action \in STRING
  BY GoodTasks, LabelAssumption DEF TasksStay
<1>2. PathsClosed(Good, t, action)
  BY <1>1 DEF PathsClosed, UpdatesStay, Tries
<1>3. PICK P : OverPaths(P, Good, m, t, action)
  BY <1>2, PathSteps
<1>4. TaskPaths(t) \in Seq(STRING) /\ 0 \in 0..Len(TaskPaths(t))
  BY TaskListsType
<1>5. Rest(TaskPaths(t), 0) = TaskPaths(t)
  BY <1>4, RestIs
<1>6. P[0] = m
  BY <1>3 DEF OverPaths
<1>. QED
  BY <1>3, <1>4, <1>5, <1>6 DEF PathsAt

LEMMA PathTried ==
    ASSUME NEW m \in Good, NEW t \in Task, NEW action \in PATH_ACTIONS, NEW u, NEW rest,
           PathsAt(m, t, action, u, rest), rest # <<>>,
           NEW v, v = TryInput(u, TaskInput(t, action, Head(rest)))
    PROVE  /\ PathsAt(m, t, action, v, Tail(rest))
           /\ v.output # Null => v = TryAction(m, t, action)
<1>1. PICK P, j :
        /\ j \in 0..Len(TaskPaths(t))
        /\ OverPaths(P, Good, m, t, action)
        /\ u = P[j] /\ rest = Rest(TaskPaths(t), j)
  BY DEF PathsAt
<1>2. TaskPaths(t) \in Seq(STRING) /\ Len(TaskPaths(t)) \in Nat
  BY TaskListsType
<1>3. /\ j + 1 \in 1..Len(TaskPaths(t)) /\ j + 1 \in 0..Len(TaskPaths(t))
      /\ Head(rest) = TaskPaths(t)[j + 1] /\ Tail(rest) = Rest(TaskPaths(t), j + 1)
  BY <1>1, <1>2, RestIs, SMTT(20)
<1>4. v = P[j + 1]
  <2>1. (j + 1) - 1 = j
    BY <1>1, <1>3
  <2>2. P[j + 1] = TryInput(P[(j + 1) - 1], TaskInput(t, action, TaskPaths(t)[j + 1]))
    BY <1>1, <1>3 DEF OverPaths
  <2>. QED
    BY <1>1, <1>3, <2>1, <2>2
<1>5. PathsAt(m, t, action, v, Tail(rest))
  BY <1>1, <1>3, <1>4 DEF PathsAt
<1>6. Halts(P, Len(TaskPaths(t)), Over)
  BY <1>1 DEF Halts, OverPaths, TryInput, Over
<1>7. ASSUME v.output # Null PROVE v = TryAction(m, t, action)
  <2>1. P[j + 1] \in Over
    BY <1>1, <1>3, <1>4, <1>7 DEF OverPaths, Over
  <2>2. P[Len(TaskPaths(t))] = P[j + 1]
    BY <1>2, <1>3, <1>6, <2>1, Halted
  <2>. QED
    BY <1>1, <1>4, <2>2 DEF OverPaths
<1>. QED
  BY <1>5, <1>7

LEMMA PathsDone ==
    ASSUME NEW m, NEW t \in Task, NEW action, NEW u, PathsAt(m, t, action, u, <<>>)
    PROVE  u = TryAction(m, t, action)
<1>1. PICK P, j :
        /\ j \in 0..Len(TaskPaths(t))
        /\ OverPaths(P, Good, m, t, action)
        /\ u = P[j] /\ <<>> = Rest(TaskPaths(t), j)
  BY DEF PathsAt
<1>2. TaskPaths(t) \in Seq(STRING)
  BY TaskListsType
<1>3. j = Len(TaskPaths(t))
  BY <1>1, <1>2, RestIs
<1>. QED
  BY <1>1, <1>3 DEF OverPaths

\* The loop over the actions comes to the next one.
LEMMA ActionsReach ==
    ASSUME NEW m \in Good, NEW t \in Task, NEW A, OverActions(A, Good, m, t),
           NEW l \in 0..Len(TaskActions(t))
    PROVE  ActionsAt(m, t, A[l], Rest(TaskActions(t), l), TaskPaths(t))
<1>1. A[l] \in Good
  BY DEF OverActions
<1>2. \A action \in PATH_ACTIONS : PathsAt(A[l], t, action, A[l], TaskPaths(t))
  BY <1>1, PathsBegin
<1>. QED
  BY <1>2 DEF ActionsAt

LEMMA ActionsBegin ==
    ASSUME NEW m \in Good, NEW t \in Task
    PROVE  ActionsAt(m, t, m, TaskActions(t), TaskPaths(t))
<1>1. UpdatesStay(Good, t)
  BY GoodTasks DEF TasksStay
<1>2. PICK A : OverActions(A, Good, m, t)
  BY <1>1, UpdatesClose, ActionSteps
<1>3. TaskActions(t) \in Seq(STRING) /\ 0 \in 0..Len(TaskActions(t))
  BY TaskListsType
<1>4. Rest(TaskActions(t), 0) = TaskActions(t) /\ A[0] = m
  BY <1>2, <1>3, RestIs DEF OverActions
<1>. QED
  BY <1>2, <1>3, <1>4, ActionsReach

\* With an output no action of a task does anything.
LEMMA StillAction ==
    ASSUME NEW m, m.output # Null, NEW t \in Task, NEW action \in STRING
    PROVE  TryAction(m, t, action) = m
<1>1. UpdatesStay({m}, t)
  BY DEF UpdatesStay, TryInput
<1>2. TryAction(m, t, action) \in {m}
  BY <1>1, ActionStays
<1>. QED
  BY <1>2

LEMMA ActionsHalt ==
    ASSUME NEW m, NEW t \in Task, NEW A, OverActions(A, Good, m, t)
    PROVE  Halts(A, Len(TaskActions(t)), Over)
<1>1. ASSUME NEW k \in 1..Len(TaskActions(t)), A[k - 1] \in Over PROVE A[k] = A[k - 1]
  <2>1. TaskActions(t)[k] \in STRING
    BY TaskListsType
  <2>2. A[k] = TryAction(A[k - 1], t, TaskActions(t)[k])
    BY DEF OverActions
  <2>. QED
    BY <1>1, <2>1, <2>2, StillAction DEF Over
<1>. QED
  BY <1>1 DEF Halts

LEMMA ActionOnPath ==
    ASSUME NEW m \in Good, NEW t \in Task, NEW u, NEW todo, NEW rest,
           ActionsAt(m, t, u, todo, rest), todo # <<>>, Head(todo) \in PATH_ACTIONS,
           rest # <<>>, NEW v, v = TryInput(u, TaskInput(t, Head(todo), Head(rest)))
    PROVE  /\ v.output = Null => ActionsAt(m, t, v, todo, Tail(rest))
           /\ v.output # Null => \A any : ActionsAt(m, t, v, <<>>, any)
<1>1. PICK A, l :
        /\ l \in 0..Len(TaskActions(t))
        /\ OverActions(A, Good, m, t)
        /\ todo = Rest(TaskActions(t), l)
        /\ PathsAt(A[l], t, Head(todo), u, rest)
  BY DEF ActionsAt
<1>2. A[l] \in Good
  BY <1>1 DEF OverActions
<1>3. /\ PathsAt(A[l], t, Head(todo), v, Tail(rest))
      /\ v.output # Null => v = TryAction(A[l], t, Head(todo))
  BY <1>1, <1>2, PathTried
<1>4. v.output = Null => ActionsAt(m, t, v, todo, Tail(rest))
  BY <1>1, <1>3 DEF ActionsAt
<1>5. ASSUME v.output # Null PROVE \A any : ActionsAt(m, t, v, <<>>, any)
  <2>. DEFINE n == Len(TaskActions(t))
  <2>1. TaskActions(t) \in Seq(STRING) /\ n \in Nat /\ n \in 0..n
    BY TaskListsType
  <2>2. l + 1 \in 1..n /\ l + 1 \in 0..n /\ Head(todo) = TaskActions(t)[l + 1]
    BY <1>1, <2>1, RestIs
  <2>3. A[l + 1] = v
    <3>1. (l + 1) - 1 = l
      BY <1>1, <2>2
    <3>2. A[l + 1] = TryAction(A[(l + 1) - 1], t, TaskActions(t)[l + 1])
      BY <1>1, <2>2 DEF OverActions
    <3>. QED
      BY <1>3, <1>5, <2>2, <3>1, <3>2
  <2>4. A[n] = v
    <3>1. Halts(A, n, Over)
      BY <1>1, ActionsHalt
    <3>2. A[l + 1] \in Over
      BY <1>1, <1>5, <2>2, <2>3 DEF OverActions, Over
    <3>. HIDE DEF n
    <3>. QED
      BY <2>1, <2>2, <2>3, <3>1, <3>2, Halted
  <2>5. Rest(TaskActions(t), n) = <<>>
    BY <2>1, RestIs
  <2>. QED
    BY <1>1, <2>1, <2>4, <2>5 DEF ActionsAt
<1>. QED
  BY <1>4, <1>5

\* The action is done, and the loop goes on.
LEMMA ActionDone ==
    ASSUME NEW m \in Good, NEW t \in Task, NEW u, NEW todo, NEW rest,
           ActionsAt(m, t, u, todo, rest), todo # <<>>, NEW v,
           \/ Head(todo) \in PATH_ACTIONS /\ rest = <<>> /\ v = u
           \/ /\ Head(todo) \notin PATH_ACTIONS
              /\ v = TryInput(u, TaskInput(t, Head(todo), Null))
    PROVE  ActionsAt(m, t, v, Tail(todo), TaskPaths(t))
<1>1. PICK A, l :
        /\ l \in 0..Len(TaskActions(t))
        /\ OverActions(A, Good, m, t)
        /\ todo = Rest(TaskActions(t), l)
        /\ Head(todo) \in PATH_ACTIONS => PathsAt(A[l], t, Head(todo), u, rest)
        /\ Head(todo) \notin PATH_ACTIONS => u = A[l]
  BY DEF ActionsAt
<1>2. v = TryAction(A[l], t, Head(todo))
  <2>1. CASE Head(todo) \in PATH_ACTIONS
    BY <1>1, <2>1, PathsDone
  <2>2. CASE Head(todo) \notin PATH_ACTIONS
    BY <1>1, <2>2 DEF TryAction
  <2>. QED
    BY <2>1, <2>2
<1>3. TaskActions(t) \in Seq(STRING)
  BY TaskListsType
<1>4. /\ l + 1 \in 1..Len(TaskActions(t)) /\ l + 1 \in 0..Len(TaskActions(t))
      /\ Head(todo) = TaskActions(t)[l + 1] /\ Tail(todo) = Rest(TaskActions(t), l + 1)
  BY <1>1, <1>3, RestIs
<1>5. A[l + 1] = v
  <2>1. (l + 1) - 1 = l
    BY <1>1, <1>4
  <2>2. A[l + 1] = TryAction(A[(l + 1) - 1], t, TaskActions(t)[l + 1])
    BY <1>1, <1>4 DEF OverActions
  <2>. QED
    BY <1>2, <1>4, <2>1, <2>2
<1>. QED
  BY <1>1, <1>4, <1>5, ActionsReach

LEMMA ActionsDone ==
    ASSUME NEW m \in Good, NEW t \in Task, NEW u, NEW rest, ActionsAt(m, t, u, <<>>, rest)
    PROVE  RunTask(m, t) = Shifted(u) /\ u \in Good
<1>1. PICK A, l :
        /\ l \in 0..Len(TaskActions(t))
        /\ OverActions(A, Good, m, t) /\ <<>> = Rest(TaskActions(t), l) /\ u = A[l]
  BY DEF ActionsAt
<1>2. TaskActions(t) \in Seq(STRING)
  BY TaskListsType
<1>3. l = Len(TaskActions(t))
  BY <1>1, <1>2, RestIs
<1>. QED
  BY <1>1, <1>3 DEF OverActions, Shifted

\* A run of the schedule that began on machine m stands at machine u, with the
\* tasks in todo to go, and in a task with its actions and paths.
TasksAt(m, until, where, u, todo, actions, paths) ==
    \E Q, k :
        /\ k \in 0..Len(m.tasks)
        /\ OverTasks(Q, Good, m, until)
        /\ todo = Rest(m.tasks, k)
        /\ where \in {"schedule", "task"}
        /\ where = "schedule" => u = Q[k]
        /\ where = "task" => /\ todo # <<>> /\ Q[k].output = Null
                             /\ Due(Head(todo), until)
                             /\ ActionsAt(Q[k], Head(todo), u, actions, paths)

LEMMA TasksBegin ==
    ASSUME NEW m \in Good, NEW until
    PROVE  \A actions, paths : TasksAt(m, until, "schedule", m, m.tasks, actions, paths)
<1>1. m.tasks \in Seq(Task) /\ 0 \in 0..Len(m.tasks)
  BY DEF Good, Machine
<1>2. PICK Q : OverTasks(Q, Good, m, until)
  BY <1>1, GoodTasks, TasksClose, TaskSteps
<1>3. Rest(m.tasks, 0) = m.tasks /\ Q[0] = m
  BY <1>1, <1>2, RestIs DEF OverTasks
<1>. QED
  BY <1>1, <1>2, <1>3 DEF TasksAt

\* What is known in the middle of the list.
LEMMA TaskNext ==
    ASSUME NEW m \in Good, NEW until, NEW Q, OverTasks(Q, Good, m, until),
           NEW k \in 0..Len(m.tasks), NEW todo, todo = Rest(m.tasks, k), todo # <<>>
    PROVE  /\ Head(todo) \in Task /\ Q[k] \in Good
           /\ k + 1 \in 0..Len(m.tasks)
           /\ Tail(todo) = Rest(m.tasks, k + 1)
           /\ Q[k + 1] = RunNext(Q[k], Head(todo), until)
<1>1. m.tasks \in Seq(Task)
  BY DEF Good, Machine
<1>2. /\ k + 1 \in 1..Len(m.tasks) /\ k + 1 \in 0..Len(m.tasks)
      /\ Head(todo) = m.tasks[k + 1] /\ Tail(todo) = Rest(m.tasks, k + 1)
  BY <1>1, RestIs
<1>3. (k + 1) - 1 = k
  OBVIOUS
<1>4. Q[k + 1] = RunNext(Q[(k + 1) - 1], m.tasks[k + 1], until)
  BY <1>2 DEF OverTasks
<1>5. Q[k] \in Good
  BY DEF OverTasks
<1>. QED
  BY <1>1, <1>2, <1>3, <1>4, <1>5

LEMMA TaskSkipped ==
    ASSUME NEW m \in Good, NEW until, NEW u, NEW todo, NEW actions, NEW paths,
           TasksAt(m, until, "schedule", u, todo, actions, paths),
           todo # <<>>, ~Due(Head(todo), until)
    PROVE  TasksAt(m, until, "schedule", u, Tail(todo), actions, paths)
<1>1. PICK Q, k :
        /\ k \in 0..Len(m.tasks) /\ OverTasks(Q, Good, m, until)
        /\ todo = Rest(m.tasks, k) /\ u = Q[k]
  BY DEF TasksAt
<1>2. /\ k + 1 \in 0..Len(m.tasks) /\ Tail(todo) = Rest(m.tasks, k + 1)
      /\ Q[k + 1] = RunNext(Q[k], Head(todo), until)
  BY <1>1, TaskNext
<1>3. Q[k + 1] = u
  BY <1>1, <1>2 DEF RunNext
<1>. QED
  BY <1>1, <1>2, <1>3 DEF TasksAt

LEMMA TaskStarted ==
    ASSUME NEW m \in Good, NEW until, NEW u, NEW todo, NEW actions, NEW paths,
           TasksAt(m, until, "schedule", u, todo, actions, paths),
           todo # <<>>, Due(Head(todo), until), u.output = Null
    PROVE  TasksAt(m, until, "task", u, todo, TaskActions(Head(todo)), TaskPaths(Head(todo)))
<1>1. PICK Q, k :
        /\ k \in 0..Len(m.tasks) /\ OverTasks(Q, Good, m, until)
        /\ todo = Rest(m.tasks, k) /\ u = Q[k]
  BY DEF TasksAt
<1>2. Head(todo) \in Task /\ Q[k] \in Good
  BY <1>1, TaskNext
<1>3. ActionsAt(Q[k], Head(todo), u, TaskActions(Head(todo)), TaskPaths(Head(todo)))
  BY <1>1, <1>2, ActionsBegin
<1>. QED
  BY <1>1, <1>3 DEF TasksAt

\* A step within the task of the list's head.
Carries(t, u, actions, paths, v, actions2, paths2) ==
    \A n \in Good : ActionsAt(n, t, u, actions, paths) => ActionsAt(n, t, v, actions2, paths2)

LEMMA TaskCarried ==
    ASSUME NEW m \in Good, NEW until, NEW u, NEW todo, NEW actions, NEW paths,
           TasksAt(m, until, "task", u, todo, actions, paths),
           NEW v, NEW actions2, NEW paths2,
           Head(todo) \in Task => Carries(Head(todo), u, actions, paths, v, actions2, paths2)
    PROVE  TasksAt(m, until, "task", v, todo, actions2, paths2)
<1>1. PICK Q, k :
        /\ k \in 0..Len(m.tasks) /\ OverTasks(Q, Good, m, until)
        /\ todo = Rest(m.tasks, k)
        /\ todo # <<>> /\ Q[k].output = Null /\ Due(Head(todo), until)
        /\ ActionsAt(Q[k], Head(todo), u, actions, paths)
  BY DEF TasksAt
<1>2. Head(todo) \in Task /\ Q[k] \in Good
  BY <1>1, TaskNext
<1>3. ActionsAt(Q[k], Head(todo), v, actions2, paths2)
  BY <1>1, <1>2 DEF Carries
<1>. QED
  BY <1>1, <1>3 DEF TasksAt

LEMMA TaskFinished ==
    ASSUME NEW m \in Good, NEW until, NEW u, NEW todo, NEW paths,
           TasksAt(m, until, "task", u, todo, <<>>, paths)
    PROVE  \A actions2, paths2 :
              TasksAt(m, until, "schedule", Shifted(u),
                      IF u.output # Null THEN <<>> ELSE Tail(todo), actions2, paths2)
<1>1. PICK Q, k :
        /\ k \in 0..Len(m.tasks) /\ OverTasks(Q, Good, m, until)
        /\ todo = Rest(m.tasks, k)
        /\ todo # <<>> /\ Q[k].output = Null /\ Due(Head(todo), until)
        /\ ActionsAt(Q[k], Head(todo), u, <<>>, paths)
  BY DEF TasksAt
<1>2. /\ Head(todo) \in Task /\ Q[k] \in Good
      /\ k + 1 \in 0..Len(m.tasks) /\ Tail(todo) = Rest(m.tasks, k + 1)
      /\ Q[k + 1] = RunNext(Q[k], Head(todo), until)
  BY <1>1, TaskNext
<1>3. RunTask(Q[k], Head(todo)) = Shifted(u) /\ u \in Good
  BY <1>1, <1>2, ActionsDone
<1>4. Q[k + 1] = Shifted(u)
  BY <1>1, <1>2, <1>3 DEF RunNext
<1>5. CASE u.output = Null
  BY <1>1, <1>2, <1>4, <1>5 DEF TasksAt
<1>6. CASE u.output # Null
  <2>. DEFINE n == Len(m.tasks)
  <2>1. m.tasks \in Seq(Task) /\ n \in Nat /\ n \in 0..n
    BY DEF Good, Machine
  <2>2. Shifted(u).output = u.output
    <3>1. u \in Machine
      BY <1>3 DEF Good
    <3>. QED
      BY <3>1 DEF Shifted, Machine
  <2>3. Halts(Q, n, Over)
    BY <1>1 DEF Halts, OverTasks, RunNext, Over
  <2>4. Q[n] = Shifted(u)
    <3>1. k + 1 \in 0..n /\ Q[k + 1] \in Over
      BY <1>1, <1>2, <1>4, <1>6, <2>2 DEF OverTasks, Over
    <3>. HIDE DEF n
    <3>. QED
      BY <1>4, <2>1, <2>3, <3>1, Halted
  <2>5. Rest(m.tasks, n) = <<>>
    BY <2>1, RestIs
  <2>. QED
    BY <1>1, <1>6, <2>1, <2>4, <2>5 DEF TasksAt
<1>. QED
  BY <1>5, <1>6

LEMMA TasksDone ==
    ASSUME NEW m \in Good, NEW until, NEW u, NEW actions, NEW paths,
           TasksAt(m, until, "schedule", u, <<>>, actions, paths)
    PROVE  u = RunDue(m, until)
<1>1. PICK Q, k :
        /\ k \in 0..Len(m.tasks) /\ OverTasks(Q, Good, m, until)
        /\ <<>> = Rest(m.tasks, k) /\ u = Q[k]
  BY DEF TasksAt
<1>2. m.tasks \in Seq(Task)
  BY DEF Good, Machine
<1>3. k = Len(m.tasks)
  BY <1>1, <1>2, RestIs
<1>. QED
  BY <1>1, <1>3 DEF OverTasks

\* What holds of the loop over the tasks here holds of it there, whatever machine
\* it began on.
TasksMove(until, where, u, todo, actions, paths, where2, v, todo2, actions2, paths2) ==
    \A n \in Good : TasksAt(n, until, where, u, todo, actions, paths) =>
                       TasksAt(n, until, where2, v, todo2, actions2, paths2)

\* An evaluation of ws that began on machine m stands at machine u, in or after
\* the schedule's run up to the first statement of st.
EvaluatesAt(m, ws, where, u, st, until, todo, actions, paths) ==
    \E S, i :
        /\ i \in 0..Len(GetStatements(ws))
        /\ OverStatements(S, Results(Good), m, ws)
        /\ st = Rest(GetStatements(ws), i)
        /\ st # <<>> /\ until = st[1].stamp
        /\ S[i].flow = "next"
        /\ where # "program" => TasksAt(S[i].m, until, where, u, todo, actions, paths)
        /\ where = "program" => u = RunDue(S[i].m, until) /\ ~u.closed

\* A call on machine m stands there: a run of the schedule alone, or an evaluation.
CallAt(m, where, u, st, until, todo, actions, paths) ==
    \/ until \in StopTimes /\ st = <<>> /\ TasksAt(m, until, where, u, todo, actions, paths)
    \/ \E ws \in Batches : EvaluatesAt(m, ws, where, u, st, until, todo, actions, paths)

LEMMA EvalBegins ==
    ASSUME NEW m \in Good, NEW ws \in Batches, ws # <<>>
    PROVE  \A actions, paths :
              EvaluatesAt(m, ws, "schedule", [m EXCEPT !.error = FALSE], GetStatements(ws),
                          GetStatements(ws)[1].stamp, [m EXCEPT !.error = FALSE].tasks,
                          actions, paths)
<1>. DEFINE n == [m EXCEPT !.error = FALSE]
            all == GetStatements(ws)
<1>1. ws \in Seq(Witness)
  BY CallsAssumption
<1>2. all \in Seq(Witness) /\ Len(all) \in Nat /\ 0 \in 0..Len(all) /\ all # <<>>
  <2>1. all \in Seq(Witness) /\ Len(all) = Len(ws)
    BY <1>1, StatementsType
  <2>. HIDE DEF all
  <2>. QED
    BY <1>1, <2>1, EmptySeq
<1>3. Begin(m) \in Results(Good) /\ Begin(m) = [m |-> n, flow |-> "next"] /\ n \in Good
  BY BeginGood DEF Begin, Results
<1>4. StatementsClosed(Results(Good), all)
  <2>1. \A k \in DOMAIN all : all[k] \in Witness
    BY <1>2
  <2>2. \A r \in Results(Good), w \in Witness : EvalStatement(r, w) \in Results(Good)
    BY GoodTasks, GoodPrograms, StatementStays
  <2>. QED
    BY <2>1, <2>2 DEF StatementsClosed
<1>5. PICK S : OverStatements(S, Results(Good), m, ws)
  BY <1>1, <1>3, <1>4, StatementSteps
<1>. HIDE DEF n
<1>6. S[0].flow = "next" /\ S[0].m = n
  BY <1>3, <1>5 DEF OverStatements
<1>7. \A actions, paths : TasksAt(n, all[1].stamp, "schedule", n, n.tasks, actions, paths)
  BY <1>3, TasksBegin
<1>8. Rest(all, 0) = all
  <2>. HIDE DEF all
  <2>. QED  BY <1>2, RestIs
<1>9. ASSUME NEW actions, NEW paths
      PROVE  EvaluatesAt(m, ws, "schedule", n, all, all[1].stamp, n.tasks, actions, paths)
  <2>1. TasksAt(S[0].m, all[1].stamp, "schedule", n, n.tasks, actions, paths)
    BY <1>6, <1>7
  <2>. QED
    BY <1>2, <1>5, <1>6, <1>8, <2>1 DEF EvaluatesAt
<1>. QED
  BY <1>9 DEF n

LEMMA CallMoves ==
    ASSUME NEW m \in Good, NEW where, NEW u, NEW st, NEW until, NEW todo,
           NEW actions, NEW paths, CallAt(m, where, u, st, until, todo, actions, paths),
           NEW where2, NEW v, NEW todo2, NEW actions2, NEW paths2,
           where # "program", where2 # "program",
           TasksMove(until, where, u, todo, actions, paths,
                     where2, v, todo2, actions2, paths2)
    PROVE  CallAt(m, where2, v, st, until, todo2, actions2, paths2)
<1>1. CASE until \in StopTimes /\ st = <<>> /\ TasksAt(m, until, where, u, todo, actions, paths)
  BY <1>1 DEF CallAt, TasksMove
<1>2. ASSUME NEW ws \in Batches,
             EvaluatesAt(m, ws, where, u, st, until, todo, actions, paths)
      PROVE  EvaluatesAt(m, ws, where2, v, st, until, todo2, actions2, paths2)
  <2>1. PICK S, i :
          /\ i \in 0..Len(GetStatements(ws))
          /\ OverStatements(S, Results(Good), m, ws)
          /\ st = Rest(GetStatements(ws), i)
          /\ st # <<>> /\ until = st[1].stamp
          /\ S[i].flow = "next"
          /\ TasksAt(S[i].m, until, where, u, todo, actions, paths)
    BY <1>2 DEF EvaluatesAt
  <2>2. S[i].m \in Good
    BY <2>1 DEF OverStatements, Results
  <2>3. TasksAt(S[i].m, until, where2, v, todo2, actions2, paths2)
    BY <2>1, <2>2 DEF TasksMove
  <2>. QED
    BY <2>1, <2>3 DEF EvaluatesAt
<1>. QED
  BY <1>1, <1>2 DEF CallAt

\* An evaluation that is over stays as it is.
Stopped == {r \in Results(Good) : r.flow # "next"}

\* What is known when a statement has been evaluated.
Stands(m, ws, S, i, st) ==
    /\ i \in 0..Len(GetStatements(ws))
    /\ OverStatements(S, Results(Good), m, ws)
    /\ st = Rest(GetStatements(ws), i) /\ st # <<>>

LEMMA StatementNext ==
    ASSUME NEW m, NEW ws \in Batches, NEW S, NEW i, NEW st, Stands(m, ws, S, i, st),
           NEW r, r = EvalStatement(S[i], st[1])
    PROVE  /\ st[1] \in Witness /\ Head(st) = st[1]
           /\ i + 1 \in 0..Len(GetStatements(ws)) /\ S[i + 1] = r /\ r \in Results(Good)
           /\ Tail(st) = Rest(GetStatements(ws), i + 1)
           /\ Tail(st) # <<>> => Tail(st)[1] = st[2]
           /\ (r.flow # "next" \/ Tail(st) = <<>>) => EvalResult(m, ws) = r
<1>. DEFINE all == GetStatements(ws)
            n   == Len(all)
<1>. USE DEF Stands
<1>1. all \in Seq(Witness) /\ n \in Nat /\ n \in 0..n
  <2>1. ws \in Seq(Witness)
    BY CallsAssumption
  <2>2. all \in Seq(Witness)
    BY <2>1, StatementsType
  <2>. QED
    BY <2>2
<1>2. /\ i + 1 \in 1..n /\ i + 1 \in 0..n /\ Head(st) = all[i + 1] /\ st[1] = all[i + 1]
      /\ Tail(st) = Rest(all, i + 1) /\ st \in Seq(Witness)
  <2>. HIDE DEF all
  <2>. QED  BY <1>1, RestIs DEF all
<1>3. all[i + 1] \in Witness
  BY <1>1, <1>2
<1>4. S[i + 1] = r
  <2>1. (i + 1) - 1 = i
    OBVIOUS
  <2>2. S[i + 1] = EvalStatement(S[(i + 1) - 1], all[i + 1])
    BY <1>2 DEF OverStatements
  <2>. QED
    BY <1>2, <2>1, <2>2
<1>5. r \in Results(Good)
  BY <1>2, <1>4 DEF OverStatements
<1>6. Tail(st) # <<>> => Tail(st)[1] = st[2]
  BY <1>2
<1>7. EvalResult(m, ws) = S[n]
  BY DEF OverStatements
<1>8. ASSUME r.flow # "next" PROVE S[n] = r
  <2>1. Halts(S, n, Stopped)
    BY DEF Halts, Stopped, OverStatements, EvalStatement
  <2>2. S[i + 1] \in Stopped
    BY <1>4, <1>5, <1>8 DEF Stopped
  <2>. HIDE DEF n
  <2>. QED
    BY <1>1, <1>2, <1>4, <2>1, <2>2, Halted
<1>9. ASSUME Tail(st) = <<>> PROVE S[n] = r
  <2>1. i + 1 = n
    <3>1. Rest(all, i + 1) = <<>> /\ i + 1 \in 0..Len(all)
      BY <1>2, <1>9
    <3>. HIDE DEF all
    <3>. QED  BY <1>1, <3>1, RestIs
  <2>. QED
    BY <1>4, <2>1
<1>. QED
  BY <1>2, <1>3, <1>4, <1>5, <1>6, <1>7, <1>8, <1>9

\* The schedule is where the statement wants it.
LEMMA StatementBegins ==
    ASSUME NEW m, NEW ws \in Batches, NEW u, NEW st, NEW until, NEW actions, NEW paths,
           EvaluatesAt(m, ws, "schedule", u, st, until, <<>>, actions, paths)
    PROVE  /\ st # <<>>
           /\ u.closed => EvalResult(m, ws) = [m |-> u, flow |-> "end"]
           /\ ~u.closed => \A todo2, actions2, paths2 :
                 EvaluatesAt(m, ws, "program", u, st, until, todo2, actions2, paths2)
<1>1. PICK S, i :
        /\ i \in 0..Len(GetStatements(ws))
        /\ OverStatements(S, Results(Good), m, ws)
        /\ st = Rest(GetStatements(ws), i)
        /\ st # <<>> /\ until = st[1].stamp
        /\ S[i].flow = "next"
        /\ TasksAt(S[i].m, until, "schedule", u, <<>>, actions, paths)
  BY DEF EvaluatesAt
<1>2. S[i].m \in Good
  BY <1>1 DEF OverStatements, Results
<1>3. u = RunDue(S[i].m, until)
  BY <1>1, <1>2, TasksDone
<1>4. ASSUME u.closed PROVE EvalResult(m, ws) = [m |-> u, flow |-> "end"]
  <2>1. EvalStatement(S[i], st[1]) = [m |-> u, flow |-> "end"]
    BY <1>1, <1>3, <1>4 DEF EvalStatement
  <2>2. Stands(m, ws, S, i, st)
    BY <1>1 DEF Stands
  <2>. DEFINE r == EvalStatement(S[i], st[1])
  <2>3. r.flow = "end" => EvalResult(m, ws) = r
    <3>. HIDE DEF r
    <3>1. r.flow # "next" => EvalResult(m, ws) = r
      BY <2>2, StatementNext DEF r
    <3>. QED
      BY <3>1
  <2>. QED
    BY <2>1, <2>3
<1>. QED
  BY <1>1, <1>3, <1>4 DEF EvaluatesAt

\* The program has run.
LEMMA StatementDone ==
    ASSUME NEW m, NEW ws \in Batches, NEW u, NEW st, NEW until, NEW todo,
           NEW actions, NEW paths,
           EvaluatesAt(m, ws, "program", u, st, until, todo, actions, paths),
           NEW r, r = RunProgram(u, Head(st))
    PROVE  /\ (r.flow # "next" \/ Tail(st) = <<>>) => EvalResult(m, ws) = r
           /\ (r.flow = "next" /\ Tail(st) # <<>>) => \A actions2, paths2 :
                 EvaluatesAt(m, ws, "schedule", r.m, Tail(st), st[2].stamp, r.m.tasks,
                             actions2, paths2)
<1>1. PICK S, i :
        /\ i \in 0..Len(GetStatements(ws))
        /\ OverStatements(S, Results(Good), m, ws)
        /\ st = Rest(GetStatements(ws), i)
        /\ st # <<>> /\ until = st[1].stamp
        /\ S[i].flow = "next"
        /\ u = RunDue(S[i].m, until) /\ ~u.closed
  BY DEF EvaluatesAt
<1>. DEFINE e == EvalStatement(S[i], st[1])
<1>0. e = EvalStatement(S[i], st[1])
  OBVIOUS
<1>. HIDE DEF e
<1>2. /\ st[1] \in Witness /\ Head(st) = st[1]
      /\ i + 1 \in 0..Len(GetStatements(ws)) /\ S[i + 1] = e /\ e \in Results(Good)
      /\ Tail(st) = Rest(GetStatements(ws), i + 1)
      /\ Tail(st) # <<>> => Tail(st)[1] = st[2]
      /\ (e.flow # "next" \/ Tail(st) = <<>>) => EvalResult(m, ws) = e
  <2>1. Stands(m, ws, S, i, st)
    BY <1>1 DEF Stands
  <2>. QED
    BY <1>0, <2>1, StatementNext
<1>3. e = r
  BY <1>1, <1>2 DEF EvalStatement, e
<1>4. /\ S[i + 1] = r /\ r \in Results(Good)
      /\ (r.flow # "next" \/ Tail(st) = <<>>) => EvalResult(m, ws) = r
  BY <1>2, <1>3
<1>5. \A until2, actions2, paths2 :
         TasksAt(r.m, until2, "schedule", r.m, r.m.tasks, actions2, paths2)
  BY <1>4, TasksBegin DEF Results
<1>. QED
  BY <1>1, <1>2, <1>4, <1>5 DEF EvaluatesAt

\* Where the call that has begun stands, or that none has.
CallInv ==
    /\ data \in Good
    /\ pc = "idle" => stack = <<>>
    /\ pc # "idle" => CallAt(data, pc, vm, stack, stop_at, queue, acts, left)

\* What the host sees of a step.
SeenAsCall ==
    \/ data' = data
    \/ \E ws \in Batches : data' = EvalWitness(data, ws)
    \/ \E t \in StopTimes : data' = EvalSchedule(data, t)

\* A call that returns what the engine's function gives.
LEMMA CallReturned ==
    ASSUME CallInv, NEW m, Return(m),
           \/ m = data
           \/ \E ws \in Batches : m = EvalWitness(data, ws)
           \/ \E t \in StopTimes : m = EvalSchedule(data, t),
           m \in Good
    PROVE  CallInv' /\ SeenAsCall
BY DEF Return, CallInv, SeenAsCall

LEMMA CallBegins ==
    ASSUME IInv, CallInv, Call
    PROVE  CallInv' /\ SeenAsCall
<1>1. data \in Good /\ data \in Machine /\ stack = <<>> /\ data.output = Null
  BY DEF CallInv, Call, Eval, Run, IInv, TypeOK
<1>2. ASSUME NEW ws \in Batches, Eval(ws), ws = <<>> PROVE CallInv' /\ SeenAsCall
  <2>1. Return([data EXCEPT !.error = FALSE])
    BY <1>2 DEF Eval
  <2>2. <<>> \in Seq(Witness) /\ ws \in Seq(Witness)
    BY EmptySeq, CallsAssumption
  <2>3. EvalResult(data, <<>>) = Begin(data)
    <3>1. GetStatements(<<>>) \in Seq(Witness) /\ Len(GetStatements(<<>>)) = 0
      BY <2>2, StatementsType, EmptySeq
    <3>2. Begin(data) \in Results(Good)
      BY <1>1, BeginGood
    <3>3. StatementsClosed(Results(Good), GetStatements(<<>>))
      BY <3>1 DEF StatementsClosed
    <3>4. PICK S : OverStatements(S, Results(Good), data, <<>>)
      BY <2>2, <3>2, <3>3, StatementSteps
    <3>. QED
      BY <3>1, <3>4 DEF OverStatements
  <2>4. [data EXCEPT !.error = FALSE] = EvalWitness(data, ws)
    <3>1. EvalResult(data, ws) = Begin(data)
      BY <1>2, <2>3
    <3>2. /\ Begin(data).flow # "throw"
          /\ Begin(data).m = [data EXCEPT !.error = FALSE]
      BY DEF Begin
    <3>. QED
      BY <1>1, <3>1, <3>2 DEF EvalWitness
  <2>5. EvalWitness(data, ws) \in Good
    BY <1>1, <2>2, WitnessGood
  <2>. QED
    BY <1>2, <2>1, <2>4, <2>5, CallReturned
<1>3. ASSUME NEW ws \in Batches, Eval(ws), ws # <<>> PROVE CallInv' /\ SeenAsCall
  <2>. DEFINE n == [data EXCEPT !.error = FALSE]
  <2>1. /\ stack' = GetStatements(ws) /\ vm' = n /\ pc' = "schedule"
        /\ stop_at' = GetStatements(ws)[1].stamp /\ queue' = n.tasks
        /\ data' = data /\ acts' = acts /\ left' = left
    BY <1>3 DEF Eval, RunSchedule
  <2>2. EvaluatesAt(data, ws, "schedule", n, GetStatements(ws),
                    GetStatements(ws)[1].stamp, n.tasks, acts, left)
    BY <1>1, <1>3, EvalBegins
  <2>3. CallAt(data, "schedule", n, GetStatements(ws), GetStatements(ws)[1].stamp,
               n.tasks, acts, left)
    BY <2>2 DEF CallAt
  <2>. HIDE DEF n
  <2>. QED
    BY <1>1, <2>1, <2>3 DEF CallInv, SeenAsCall
<1>4. ASSUME NEW t \in StopTimes, Run(t) PROVE CallInv' /\ SeenAsCall
  <2>1. /\ stack' = stack /\ vm' = data /\ pc' = "schedule" /\ stop_at' = t
        /\ queue' = data.tasks /\ data' = data /\ acts' = acts /\ left' = left
    BY <1>4 DEF Run, RunSchedule
  <2>2. TasksAt(data, t, "schedule", data, data.tasks, acts, left)
    BY <1>1, TasksBegin
  <2>3. CallAt(data, "schedule", data, <<>>, t, data.tasks, acts, left)
    BY <1>4, <2>2 DEF CallAt
  <2>. QED
    BY <1>1, <2>1, <2>3 DEF CallInv, SeenAsCall
<1>. QED
  BY <1>2, <1>3, <1>4 DEF Call

\* A step of the loops over tasks, actions and paths.
LEMMA CallGoesOn ==
    ASSUME CallInv, pc \in {"schedule", "task"}, pc' \in {"schedule", "task"},
           data' = data, stack' = stack, stop_at' = stop_at,
           TasksMove(stop_at, pc, vm, queue, acts, left,
                     pc', vm', queue', acts', left')
    PROVE  CallInv' /\ SeenAsCall
<1>1. data \in Good /\ CallAt(data, pc, vm, stack, stop_at, queue, acts, left)
  BY DEF CallInv
<1>2. CallAt(data, pc', vm', stack, stop_at, queue', acts', left')
  BY <1>1, CallMoves
<1>. QED
  BY <1>1, <1>2 DEF CallInv, SeenAsCall

LEMMA LoopsGoOn ==
    ASSUME IInv, CallInv,
           \/ SkipTask \/ StartTask \/ FinishTask
           \/ TaskOnPath \/ TaskWithoutPath \/ NextTaskAction
    PROVE  CallInv' /\ SeenAsCall
<1>1. CASE SkipTask
  <2>1. /\ pc = "schedule" /\ queue # <<>> /\ ~Due(Head(queue), stop_at)
        /\ queue' = Tail(queue) /\ data' = data /\ vm' = vm /\ pc' = pc
        /\ stack' = stack /\ stop_at' = stop_at /\ acts' = acts /\ left' = left
    BY <1>1 DEF SkipTask
  <2>2. TasksMove(stop_at, "schedule", vm, queue, acts, left,
                  "schedule", vm, Tail(queue), acts, left)
    BY <2>1, TaskSkipped DEF TasksMove
  <2>. QED
    BY <2>1, <2>2, CallGoesOn
<1>2. CASE StartTask
  <2>1. /\ pc = "schedule" /\ queue # <<>> /\ Due(Head(queue), stop_at) /\ pc' = "task"
        /\ acts' = TaskActions(Head(queue)) /\ left' = TaskPaths(Head(queue))
        /\ queue' = queue /\ data' = data /\ vm' = vm
        /\ stack' = stack /\ stop_at' = stop_at
    BY <1>2 DEF StartTask
  <2>2. vm.output = Null
    BY <2>1 DEF IInv, Undecided
  <2>3. TasksMove(stop_at, "schedule", vm, queue, acts, left,
                  "task", vm, queue, TaskActions(Head(queue)), TaskPaths(Head(queue)))
    BY <2>1, <2>2, TaskStarted DEF TasksMove
  <2>. QED
    BY <2>1, <2>3, CallGoesOn
<1>3. CASE FinishTask
  <2>1. /\ pc = "task" /\ acts = <<>> /\ vm' = Shifted(vm) /\ pc' = "schedule"
        /\ queue' = IF vm.output # Null THEN <<>> ELSE Tail(queue)
        /\ left' = <<>> /\ data' = data /\ stack' = stack /\ stop_at' = stop_at
        /\ acts' = acts
    BY <1>3 DEF FinishTask, Shifted
  <2>2. TasksMove(stop_at, "task", vm, queue, <<>>, left,
                  "schedule", Shifted(vm), IF vm.output # Null THEN <<>> ELSE Tail(queue),
                  <<>>, <<>>)
    BY TaskFinished DEF TasksMove
  <2>. QED
    BY <2>1, <2>2, CallGoesOn
<1>4. CASE TaskOnPath
  <2>. DEFINE v == TryInput(vm, TaskInput(Head(queue), Head(acts), Head(left)))
  <2>1. vm.output = Null
    BY <1>4 DEF TaskOnPath, IInv, Undecided
  <2>2. /\ pc = "task" /\ acts # <<>> /\ left # <<>> /\ Head(acts) \in PATH_ACTIONS
        /\ vm' = v /\ data' = data /\ pc' = pc /\ stack' = stack
        /\ stop_at' = stop_at /\ queue' = queue
        /\ v.output # Null => acts' = <<>> /\ left' = <<>>
        /\ v.output = Null => acts' = acts /\ left' = Tail(left)
    BY <1>4, <2>1 DEF TaskOnPath, TryUpdate, TryInput
  <2>3. v = TryInput(vm, TaskInput(Head(queue), Head(acts), Head(left)))
    OBVIOUS
  <2>. HIDE DEF v
  <2>4. Head(queue) \in Task => Carries(Head(queue), vm, acts, left, v, acts', left')
    <3>1. ASSUME Head(queue) \in Task, NEW n \in Good,
                 ActionsAt(n, Head(queue), vm, acts, left)
          PROVE  ActionsAt(n, Head(queue), v, acts', left')
      <4>1. /\ v.output = Null => ActionsAt(n, Head(queue), v, acts, Tail(left))
            /\ v.output # Null => ActionsAt(n, Head(queue), v, <<>>, <<>>)
        BY <2>2, <2>3, <3>1, ActionOnPath
      <4>. QED
        BY <2>2, <4>1
    <3>. QED
      BY <3>1 DEF Carries
  <2>5. TasksMove(stop_at, "task", vm, queue, acts, left,
                  "task", v, queue, acts', left')
    BY <2>4, TaskCarried DEF TasksMove
  <2>. QED
    BY <2>2, <2>5, CallGoesOn
<1>5. CASE TaskWithoutPath \/ NextTaskAction
  <2>1. /\ pc = "task" /\ acts # <<>> /\ data' = data /\ pc' = pc /\ stack' = stack
        /\ stop_at' = stop_at /\ queue' = queue /\ acts' = Tail(acts)
    BY <1>5 DEF TaskWithoutPath, NextTaskAction
  <2>2. vm.output = Null
    BY <2>1 DEF IInv, Undecided
  <2>3. \/ /\ Head(acts) \in PATH_ACTIONS /\ left = <<>> /\ vm' = vm
           /\ left' = TaskPaths(Head(queue))
        \/ /\ Head(acts) \notin PATH_ACTIONS
           /\ vm' = TryInput(vm, TaskInput(Head(queue), Head(acts), Null))
           /\ left' = left
    BY <1>5, <2>2 DEF TaskWithoutPath, NextTaskAction, TryUpdate, TryInput
  <2>4. Head(queue) \in Task =>
           Carries(Head(queue), vm, acts, left, vm', Tail(acts), left')
    <3>1. ASSUME Head(queue) \in Task, NEW n \in Good,
                 ActionsAt(n, Head(queue), vm, acts, left)
          PROVE  ActionsAt(n, Head(queue), vm', Tail(acts), left')
      <4>1. ActionsAt(n, Head(queue), vm', Tail(acts), TaskPaths(Head(queue)))
        BY <2>1, <2>3, <3>1, ActionDone
      <4>2. Head(acts) \notin PATH_ACTIONS => left = TaskPaths(Head(queue))
        BY <2>1, <3>1 DEF ActionsAt
      <4>. QED
        BY <2>3, <4>1, <4>2
    <3>. QED
      BY <3>1 DEF Carries
  <2>5. TasksMove(stop_at, "task", vm, queue, acts, left,
                  "task", vm', queue, Tail(acts), left')
    BY <2>4, TaskCarried DEF TasksMove
  <2>. QED
    BY <2>1, <2>5, CallGoesOn
<1>. QED
  BY <1>1, <1>2, <1>3, <1>4, <1>5

\* A call has come to machine m, through r.
LEMMA EvalReturns ==
    ASSUME CallInv, data.output = Null, NEW ws \in Batches, NEW r, r = EvalResult(data, ws),
           Return(IF r.flow = "throw" THEN data ELSE r.m)
    PROVE  CallInv' /\ SeenAsCall
<1>1. ws \in Seq(Witness) /\ data \in Good
  BY CallsAssumption DEF CallInv
<1>2. EvalWitness(data, ws) = IF r.flow = "throw" THEN data ELSE r.m
  BY DEF EvalWitness
<1>3. EvalWitness(data, ws) \in Good
  BY <1>1, WitnessGood
<1>. QED
  BY <1>2, <1>3, CallReturned

LEMMA ScheduleReturns ==
    ASSUME IInv, CallInv, FinishSchedule
    PROVE  CallInv' /\ SeenAsCall
<1>1. /\ pc = "schedule" /\ queue = <<>> /\ data \in Good /\ data.output = Null
      /\ CallAt(data, "schedule", vm, stack, stop_at, <<>>, acts, left)
      /\ stack = <<>> \/ vm.closed => Return(vm)
      /\ ~(stack = <<>> \/ vm.closed) =>
            /\ pc' = "program" /\ data' = data /\ vm' = vm
            /\ stack' = stack /\ stop_at' = stop_at /\ queue' = queue
            /\ acts' = acts /\ left' = left
  BY DEF FinishSchedule, IInv, Undecided, CallInv, loopVars
<1>2. CASE /\ stop_at \in StopTimes /\ stack = <<>>
           /\ TasksAt(data, stop_at, "schedule", vm, <<>>, acts, left)
  <2>1. vm = RunDue(data, stop_at)
    BY <1>1, <1>2, TasksDone
  <2>2. vm = EvalSchedule(data, stop_at) /\ vm \in Good
    BY <1>1, <2>1, DueGood DEF EvalSchedule
  <2>. QED
    BY <1>1, <1>2, <2>2, CallReturned
<1>3. ASSUME NEW ws \in Batches,
             EvaluatesAt(data, ws, "schedule", vm, stack, stop_at, <<>>, acts, left)
      PROVE  CallInv' /\ SeenAsCall
  <2>1. /\ stack # <<>>
        /\ vm.closed => EvalResult(data, ws) = [m |-> vm, flow |-> "end"]
        /\ ~vm.closed =>
              EvaluatesAt(data, ws, "program", vm, stack, stop_at, queue, acts, left)
    BY <1>3, StatementBegins
  <2>2. CASE vm.closed
    <3>. DEFINE r == [m |-> vm, flow |-> "end"]
    <3>1. Return(IF r.flow = "throw" THEN data ELSE r.m)
      BY <1>1, <2>2
    <3>2. r = EvalResult(data, ws)
      BY <2>1, <2>2
    <3>. HIDE DEF r
    <3>. QED
      BY <1>1, <3>1, <3>2, EvalReturns
  <2>3. CASE ~vm.closed
    <3>1. CallAt(data, "program", vm, stack, stop_at, queue, acts, left)
      BY <2>1, <2>3 DEF CallAt
    <3>. QED
      BY <1>1, <2>1, <2>3, <3>1 DEF CallInv, SeenAsCall
  <2>. QED
    BY <2>2, <2>3
<1>. QED
  BY <1>1, <1>2, <1>3 DEF CallAt

\* What a program's step does with its result.
LEMMA ProgramStands ==
    ASSUME CallInv, pc = "program", data.output = Null,
           NEW r, r = RunProgram(vm, Head(stack)),
           r.flow = "throw" => Return(data),
           r.flow = "end" => Return(r.m),
           r.flow = "next" => NextStatement(r.m) /\ ~r.m.closed,
           r.flow \in {"next", "end", "throw"}
    PROVE  CallInv' /\ SeenAsCall
<1>1. data \in Good /\ CallAt(data, "program", vm, stack, stop_at, queue, acts, left)
  BY DEF CallInv
<1>2. ~TasksAt(data, stop_at, "program", vm, queue, acts, left)
  BY DEF TasksAt
<1>3. PICK ws \in Batches :
        EvaluatesAt(data, ws, "program", vm, stack, stop_at, queue, acts, left)
  BY <1>1, <1>2 DEF CallAt
<1>4. /\ (r.flow # "next" \/ Tail(stack) = <<>>) => EvalResult(data, ws) = r
      /\ (r.flow = "next" /\ Tail(stack) # <<>>) =>
            EvaluatesAt(data, ws, "schedule", r.m, Tail(stack), stack[2].stamp, r.m.tasks,
                        acts, left)
  BY <1>3, StatementDone
<1>5. CASE r.flow # "next" \/ Tail(stack) = <<>>
  <2>1. Return(IF r.flow = "throw" THEN data ELSE r.m)
    BY <1>5 DEF NextStatement
  <2>. QED
    BY <1>4, <1>5, <2>1, EvalReturns
<1>6. CASE r.flow = "next" /\ Tail(stack) # <<>>
  <2>1. /\ stack' = Tail(stack) /\ vm' = r.m /\ pc' = "schedule"
        /\ stop_at' = stack[2].stamp /\ queue' = r.m.tasks
        /\ data' = data /\ acts' = acts /\ left' = left
    BY <1>6 DEF NextStatement, RunSchedule
  <2>2. CallAt(data, "schedule", r.m, Tail(stack), stack[2].stamp, r.m.tasks, acts, left)
    BY <1>4, <1>6 DEF CallAt
  <2>. QED
    BY <1>1, <2>1, <2>2 DEF CallInv, SeenAsCall
<1>. QED
  BY <1>5, <1>6

LEMMA ProgramGoesOn ==
    ASSUME IInv, CallInv, ProgramThrows \/ ProgramFails \/ ProgramPends \/ ProgramPasses
    PROVE  CallInv' /\ SeenAsCall
<1>. DEFINE w == Head(stack)
            n == AfterExec(vm, w)
            u == UpdateVMState(n, WitnessInput(w))
            r == RunProgram(vm, w)
<1>1. /\ pc = "program" /\ stack # <<>> /\ stack \in Seq(Witness)
      /\ data.output = Null /\ vm \in Machine
  BY DEF ProgramThrows, ProgramFails, ProgramPends, ProgramPasses, IInv, LoopsReady,
         Undecided, TypeOK
<1>2. w \in Witness
  BY <1>1
<1>3. ~vm.closed
  <2>1. CallAt(data, "program", vm, stack, stop_at, queue, acts, left)
    BY <1>1 DEF CallInv
  <2>. QED
    BY <2>1 DEF CallAt, TasksAt, EvaluatesAt
<1>4. n.closed = vm.closed
  BY <1>1 DEF AfterExec, Machine
<1>5. \/ /\ ~Loads(w)
         /\ r = [m |-> vm, flow |-> "throw"]
      \/ /\ Loads(w) /\ ExecThrows(vm, w)
         /\ r = [m |-> [n EXCEPT !.error = TRUE], flow |-> "end"]
      \/ /\ Loads(w) /\ ~ExecThrows(vm, w) /\ ~ExecPasses(vm, w)
         /\ r = [m |-> n, flow |-> "next"]
      \/ /\ Loads(w) /\ ExecPasses(vm, w) /\ ~ExecThrows(vm, w)
         /\ Accepts(n, WitnessInput(w))
         /\ r = [m |-> u, flow |-> IF u.closed THEN "end" ELSE "next"]
      \/ /\ Loads(w) /\ ExecPasses(vm, w) /\ ~ExecThrows(vm, w)
         /\ ~Accepts(n, WitnessInput(w)) /\ Crashes(n, WitnessInput(w))
         /\ r = [m |-> vm, flow |-> "throw"]
      \/ /\ Loads(w) /\ ExecPasses(vm, w) /\ ~ExecThrows(vm, w)
         /\ ~Accepts(n, WitnessInput(w)) /\ ~Crashes(n, WitnessInput(w))
         /\ r = [m |-> [n EXCEPT !.error = TRUE], flow |-> "end"]
  <2>. HIDE DEF w
  <2>. QED  BY <1>2, ProgramResult
<1>6. r = RunProgram(vm, Head(stack))
  OBVIOUS
<1>7. /\ Accepts(n, WitnessInput(w)) => ~Crashes(n, WitnessInput(w))
      /\ Loads(w) /\ ExecPasses(vm, w) => ~ExecThrows(vm, w)
  <2>. HIDE DEF w
  <2>. QED  BY <1>2, PassOrThrow DEF Accepts, Crashes, Loads
<1>. HIDE DEF r, u
<1>8. CASE ProgramThrows
  <2>1. Return(data) /\ (~Loads(w) \/ (ExecPasses(vm, w) /\ Crashes(n, WitnessInput(w))))
    BY <1>8 DEF ProgramThrows, ThrowsOut
  <2>2. r.flow = "throw"
    <3>. HIDE DEF w, n
    <3>. QED  BY <1>5, <1>7, <2>1
  <2>. QED
    BY <1>1, <1>6, <2>1, <2>2, ProgramStands
<1>9. CASE ProgramFails
  <2>1. /\ Return([n EXCEPT !.error = TRUE]) /\ Loads(w)
        /\ ~(ExecPasses(vm, w) /\ Crashes(n, WitnessInput(w)))
        /\ ExecThrows(vm, w) \/ (ExecPasses(vm, w) /\ ~Accepts(n, WitnessInput(w)))
    BY <1>9 DEF ProgramFails, ThrowsOut, Fails
  <2>2. r = [m |-> [n EXCEPT !.error = TRUE], flow |-> "end"]
    <3>. HIDE DEF w, n
    <3>. QED  BY <1>5, <2>1
  <2>3. r.flow = "end" /\ Return(r.m)
    BY <2>1, <2>2
  <2>. QED
    BY <1>1, <1>6, <2>3, ProgramStands
<1>10. CASE ProgramPends
  <2>1. Loads(w) /\ ~ExecThrows(vm, w) /\ ~ExecPasses(vm, w) /\ NextStatement(n)
    BY <1>10 DEF ProgramPends
  <2>2. r = [m |-> n, flow |-> "next"]
    <3>. HIDE DEF w, n
    <3>. QED  BY <1>5, <2>1
  <2>3. r.flow = "next" /\ NextStatement(r.m) /\ ~r.m.closed
    BY <1>3, <1>4, <2>1, <2>2
  <2>. QED
    BY <1>1, <1>6, <2>3, ProgramStands
<1>11. CASE ProgramPasses
  <2>1. Loads(w) /\ ExecPasses(vm, w) /\ Accepts(n, WitnessInput(w)) /\ NextStatement(u)
    BY <1>11 DEF ProgramPasses, u
  <2>2. r = [m |-> u, flow |-> IF u.closed THEN "end" ELSE "next"]
    <3>. HIDE DEF w, n
    <3>. QED  BY <1>5, <1>7, <2>1
  <2>3. CASE u.closed
    <3>1. r.flow = "end" /\ Return(r.m)
      BY <2>1, <2>2, <2>3 DEF NextStatement
    <3>. QED
      BY <1>1, <1>6, <3>1, ProgramStands
  <2>4. CASE ~u.closed
    <3>1. r.flow = "next" /\ NextStatement(r.m) /\ ~r.m.closed
      BY <2>1, <2>2, <2>4
    <3>. QED
      BY <1>1, <1>6, <3>1, ProgramStands
  <2>. QED
    BY <2>3, <2>4
<1>. QED
  BY <1>8, <1>9, <1>10, <1>11

LEMMA CallStarts == Init => CallInv
BY InitVMGood DEF Init, CallInv

LEMMA CallSteps == IInv /\ CallInv /\ [Next]_vars => CallInv' /\ SeenAsCall
<1>. SUFFICES ASSUME IInv, CallInv, [Next]_vars PROVE CallInv' /\ SeenAsCall
  OBVIOUS
<1>1. CASE UNCHANGED vars
  BY <1>1 DEF vars, CallInv, SeenAsCall
<1>. QED
  BY <1>1, CallBegins, LoopsGoOn, ScheduleReturns, ProgramGoesOn DEF Next, Internal

\* Whatever a call goes through, whichever statement or task stops it, the host
\* gets the machine that the engine's function gives, or keeps its own (main.ts).
THEOREM CallsReturnFunctions == Spec => CallsAreFunctions
<1>1. IInv /\ CallInv /\ [Next]_vars => CallInv'
  BY CallSteps
<1>2. Spec => []CallInv
  BY <1>1, CallStarts, Invariance, PTL DEF Spec
<1>3. /\ IInv /\ CallInv /\ [Next]_vars =>
            [\/ \E ws \in Batches : data' = EvalWitness(data, ws)
             \/ \E t \in StopTimes : data' = EvalSchedule(data, t)]_data
  BY CallSteps DEF SeenAsCall
<1>. QED
  BY <1>2, <1>3, Invariance, PTL DEF Spec, CallsAreFunctions
=============================================================================
