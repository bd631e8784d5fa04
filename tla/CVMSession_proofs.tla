-------------------------- MODULE CVMSession_proofs --------------------------
(***************************************************************************)
(* The sessions of any number of members, with any terms, statements and   *)
(* schedule: what is committed is what the statements say, once, and can   *)
(* be computed again by anybody.                                            *)
(***************************************************************************)
EXTENDS CVMSession, CVMState_proofs

-----------------------------------------------------------------------------
(* Replaying.                                                               *)

\* The machine after each statement that is evaluated alone.
OverReplay(P, D, ws) ==
    /\ P \in [0..Len(ws) -> D]
    /\ P[0] = InitVM
    /\ \A k \in 1..Len(ws) : P[k] = EvalWitness(P[k - 1], <<ws[k]>>)
    /\ Replay(ws) = P[Len(ws)]

ReplayClosed(D, ws) == \A x \in D, k \in DOMAIN ws : EvalWitness(x, <<ws[k]>>) \in D

LEMMA ReplaySteps ==
    ASSUME NEW D, InitVM \in D, NEW ws \in Seq(Witness), ReplayClosed(D, ws)
    PROVE  \E P : OverReplay(P, D, ws)
<1>. DEFINE n == Len(ws)
            next(a, k) == EvalWitness(a, <<ws[k]>>)
            step == [x \in (1..n) \X D |-> next(x[2], x[1])]
            Is(g) == g = [u \in SUBSET DOMAIN ws |->
                            IF u = {} THEN InitVM ELSE next(g[u \ {Max(u)}], Max(u))]
            h == CHOOSE g : Is(g)
<1>1. n \in Nat /\ DOMAIN ws = 1..n
  OBVIOUS
<1>2. Replay(ws) = h[DOMAIN ws]
  BY DEF Replay, FoldLeft, MapThenFoldSet
<1>3. \A k \in 1..n, a \in D : next(a, k) \in D
  BY <1>1 DEF ReplayClosed
<1>4. step \in [(1..n) \X D -> D] /\ InitVM \in D
  <2>. HIDE DEF next
  <2>. QED  BY <1>3
<1>5. \A k \in 1..n, a \in D : step[<<k, a>>] = next(a, k)
  <2>. HIDE DEF next
  <2>. QED  OBVIOUS
<1>. HIDE DEF n, step
<1>6. PICK G \in [SUBSET (1..n) -> D] : Folds(G, step, InitVM, n)
  <2>. HIDE DEF next
  <2>. QED  BY <1>1, <1>4, FoldsExist
<1>7. Is(G)
  <2>. HIDE DEF next
  <2>1. ASSUME NEW u \in SUBSET (1..n), u # {}
        PROVE  G[u] = next(G[u \ {Max(u)}], Max(u))
    <3>1. Max(u) \in 1..n /\ G[u \ {Max(u)}] \in D
      BY <1>1, <2>1, MaxIs
    <3>2. G[u] = step[<<Max(u), G[u \ {Max(u)}]>>]
      BY <1>6, <2>1 DEF Folds
    <3>. QED
      BY <3>1, <3>2, <1>5
  <2>2. G[{}] = InitVM
    BY <1>6 DEF Folds
  <2>3. G = [u \in SUBSET (1..n) |-> G[u]]
    OBVIOUS
  <2>. QED
    BY <1>1, <2>1, <2>2, <2>3
<1>8. Is(h)
  <2>. HIDE DEF Is
  <2>. QED  BY <1>7
<1>9. Follows(h, step, InitVM, D, n)
  <2>. HIDE DEF h, next
  <2>1. h[{}] = InitVM
    BY <1>8
  <2>2. ASSUME NEW u \in SUBSET (1..n), u # {}, h[u \ {Max(u)}] \in D
        PROVE  h[u] = step[<<Max(u), h[u \ {Max(u)}]>>]
    <3>1. h[u] = next(h[u \ {Max(u)}], Max(u))
      BY <1>1, <1>8, <2>2
    <3>2. Max(u) \in 1..n
      BY <1>1, <2>2, MaxIs
    <3>. QED
      BY <3>1, <3>2, <2>2, <1>5
  <2>. QED
    BY <1>1, <1>4, <2>1, <2>2 DEF Follows
<1>10. PICK P : Steps(P, step, InitVM, D, n) /\ P[n] = h[1..n]
  <2>. HIDE DEF h
  <2>. QED  BY <1>9, PrefixSteps
<1>11. P[n] = Replay(ws)
  <2>. HIDE DEF h, next
  <2>. QED  BY <1>1, <1>2, <1>10
<1>12. ASSUME NEW k \in 1..n PROVE P[k] = next(P[k - 1], k)
  <2>. HIDE DEF next, h
  <2>1. k - 1 \in 0..n
    BY <1>1
  <2>2. P[k - 1] \in D /\ P[k] = step[<<k, P[k - 1]>>]
    BY <2>1, <1>10 DEF Steps
  <2>. QED
    BY <2>2, <1>5
<1>13. P \in [0..n -> D] /\ P[0] = InitVM
  BY <1>10 DEF Steps
<1>. QED
  BY <1>11, <1>12, <1>13 DEF n, OverReplay

-----------------------------------------------------------------------------
(* What statements leave.                                                   *)

\* A log that has begun is not lost.
Later(m) == {x \in Good : m.head # <<>> => x.head # <<>>}

LEMMA AppendedLater ==
    ASSUME NEW m, NEW x \in Later(m), NEW input, NEW y \in Good,
           y.head = Append(x.head, input) \/ y.head = x.head
    PROVE  y \in Later(m)
<1>. DEFINE S == Input \cup {input}
<1>1. x.head \in Seq(S) /\ input \in S
  BY DEF Later, Good, Machine
<1>. HIDE DEF S
<1>2. Append(x.head, input) # <<>>
  BY <1>1, AppendProperties
<1>. QED
  BY <1>2 DEF Later

LEMMA LaterTasks == ASSUME NEW m PROVE TasksStay(Later(m))
<1>1. ASSUME NEW x \in Later(m), NEW t \in Task, NEW action, NEW path, Tries(action, path)
      PROVE  TryInput(x, TaskInput(t, action, path)) \in Later(m)
  <2>. DEFINE input == TaskInput(t, action, path)
  <2>1. TryInput(x, input) \in Good
    BY <1>1, GoodTasks DEF TasksStay, UpdatesStay, Later
  <2>2. CASE x.output = Null /\ Accepts(x, input)
    <3>1. x \in Machine
      BY DEF Later, Good
    <3>2. TryInput(x, input).head = Append(x.head, input)
      BY <2>2, <3>1 DEF TryInput, UpdateVMState, Machine
    <3>. QED
      BY <2>1, <3>2, AppendedLater
  <2>3. CASE ~(x.output = Null /\ Accepts(x, input))
    BY <2>3 DEF TryInput
  <2>. QED
    BY <2>2, <2>3
<1>2. ASSUME NEW x \in Later(m) PROVE Shifted(x) \in Later(m)
  <2>1. Shifted(x) \in Good
    BY GoodTasks DEF TasksStay, ShiftsStay, Later
  <2>2. Shifted(x).head = x.head
    <3>1. x \in Machine
      BY DEF Later, Good
    <3>. QED
      BY <3>1 DEF Shifted, Machine
  <2>. QED
    BY <2>1, <2>2 DEF Later
<1>. QED
  BY <1>1, <1>2 DEF TasksStay, ShiftsStay, UpdatesStay

LEMMA LaterPrograms == ASSUME NEW m PROVE ProgramsStay(Later(m))
<1>. SUFFICES ASSUME NEW x \in Later(m), NEW w \in Witness, ~x.closed
              PROVE  RunProgram(x, w).m \in Later(m)
  BY DEF ProgramsStay
<1>. DEFINE n     == AfterExec(x, w)
            input == WitnessInput(w)
            u     == UpdateVMState(n, input)
            p     == RunProgram(x, w)
<1>1. x \in Good /\ x \in Machine
  BY DEF Later, Good
<1>2. p.m \in Good
  BY <1>1, ProgramGood
<1>3. n.head = x.head /\ [n EXCEPT !.error = TRUE].head = n.head /\ u.head = Append(n.head, input)
  <2>1. n \in {x, [x EXCEPT !.store = n.store]}
    BY <1>1 DEF AfterExec, Machine
  <2>. HIDE DEF n
  <2>. QED
    BY <1>1, <2>1 DEF UpdateVMState, Machine
<1>4. p.m \in {x, n, [n EXCEPT !.error = TRUE], u}
  <2>. HIDE DEF n, u, input
  <2>. QED
    BY ProgramResult DEF n, u, input
<1>. HIDE DEF n, u, p
<1>5. p.m.head = x.head \/ p.m.head = Append(x.head, input)
  BY <1>3, <1>4
<1>. QED
  BY <1>2, <1>5, AppendedLater DEF p

LEMMA WitnessLater ==
    ASSUME NEW m \in Good, NEW ws \in Seq(Witness), m.head # <<>>
    PROVE  EvalWitness(m, ws).head # <<>>
<1>1. Begin(m) \in Results(Good) /\ Begin(m).m.head = m.head
  BY BeginGood DEF Begin, Good, Machine
<1>2. Begin(m) \in Results(Later(m))
  BY <1>1 DEF Results, Later
<1>3. Later(m) \in SUBSET Good
  BY DEF Later
<1>4. EvalResult(m, ws) \in Results(Later(m))
  BY <1>2, <1>3, LaterTasks, LaterPrograms, ResultStays
<1>. QED
  BY <1>4 DEF EvalWitness, Results, Later

LEMMA ScheduleGood ==
    ASSUME NEW m \in Good, NEW stop_at
    PROVE  EvalSchedule(m, stop_at) \in Good
BY DueGood DEF EvalSchedule

-----------------------------------------------------------------------------
(* The session.                                                             *)

Statement(w) ==
    /\ w \in Witness
    /\ w.prog_id \in ProgIds /\ w.stamp \in Stamps
    /\ Range(w.sigs) \subseteq Members
    /\ Len(w.sigs) \in 1..MaxSigs

Receipt ==
    [witness : Witness, vm_head : Seq(Input), vm_output : PathSet \cup {Null},
     vm_closed : BOOLEAN]

\* The statement that goes round, and the receipts of those accepted.
Papers ==
    /\ drafts = {} \/ \E w : drafts = {w} /\ Statement(w)
    /\ accepted \in Seq(Witness) /\ receipts \in Seq(Receipt)
    /\ Len(receipts) = Len(accepted)
    /\ \A i \in 1..Len(accepted) : receipts[i].witness = accepted[i]
    /\ ran_to \in RunTimes \cup {ActiveAt - 1}
    /\ behind \in BOOLEAN

SessionInv == Papers /\ machine \in Good /\ machine.error = FALSE

LEMMA SignedIs ==
    ASSUME NEW w \in Witness, NEW pub \in Members, w.prog_id \in ProgIds, w.stamp \in Stamps,
           Range(w.sigs) \subseteq Members, Len(w.sigs) < MaxSigs
    PROVE  Statement(EndorseWitness(pub, w))
<1>. DEFINE v == EndorseWitness(pub, w)
<1>1. w.sigs \in Seq(STRING) /\ pub \in STRING
  BY SessionAssumption DEF Witness
<1>2. /\ Append(w.sigs, pub) \in Seq(STRING)
      /\ Len(Append(w.sigs, pub)) = Len(w.sigs) + 1
      /\ DOMAIN Append(w.sigs, pub) = 1..(Len(w.sigs) + 1) /\ DOMAIN w.sigs = 1..Len(w.sigs)
      /\ \A i \in 1..Len(w.sigs) : Append(w.sigs, pub)[i] = w.sigs[i]
      /\ Append(w.sigs, pub)[Len(w.sigs) + 1] = pub
      /\ Len(w.sigs) \in Nat
  BY <1>1, AppendProperties
<1>3. /\ v \in Witness /\ v.sigs = Append(w.sigs, pub)
      /\ v.prog_id = w.prog_id /\ v.stamp = w.stamp
  BY <1>2 DEF EndorseWitness, Witness
<1>4. Range(v.sigs) \subseteq Members
  <2>1. \A i \in 1..Len(w.sigs) : w.sigs[i] \in Members
    BY <1>2 DEF Range
  <2>2. \A i \in 1..(Len(w.sigs) + 1) : i \in 1..Len(w.sigs) \/ i = Len(w.sigs) + 1
    BY <1>2
  <2>. QED
    BY <1>2, <1>3, <2>1, <2>2 DEF Range
<1>5. Len(v.sigs) \in 1..MaxSigs
  BY <1>2, <1>3, SessionAssumption
<1>. QED
  BY <1>3, <1>4, <1>5 DEF Statement

LEMMA CreatedIs ==
    ASSUME NEW pub \in Members, NEW tmpl \in Templates, NEW stamp \in Stamps,
           Matches(tmpl, {pub}) # {}
    PROVE  Statement(EndorseWitness(pub, CreateWitness({pub}, tmpl, stamp)))
<1>. DEFINE S == Matches(tmpl, {pub})
            w == CreateWitness({pub}, tmpl, stamp)
<1>1. /\ Programs \in Seq(Program) /\ DOMAIN Programs = 1..Len(Programs)
      /\ S \subseteq DOMAIN Programs /\ S \subseteq Nat /\ S # {}
  BY TermsAssumption DEF Matches
<1>2. \E i \in S : \A k \in S : i <= k
  <2>. HIDE DEF S
  <2>. QED  BY <1>1, LeastNat
<1>3. Min(S) \in S
  BY <1>2 DEF Min
<1>4. Programs[Min(S)].prog_id \in ProgIds /\ Programs[Min(S)].prog_id \in STRING
  <2>. HIDE DEF S
  <2>1. Programs[Min(S)] \in Program /\ Min(S) \in DOMAIN Programs
    BY <1>1, <1>3
  <2>. QED
    BY <2>1 DEF ProgIds, Program
<1>5. w = [prog_id |-> Programs[Min(S)].prog_id,
           action |-> tmpl.action, path |-> tmpl.path, sigs |-> <<>>,
           preimage |-> tmpl.preimage, stamp |-> stamp]
  BY DEF CreateWitness
<1>6. w \in Witness /\ w.prog_id \in ProgIds /\ w.stamp = stamp /\ w.sigs = <<>>
  <2>. HIDE DEF S, w
  <2>1. stamp \in Int /\ tmpl.action \in STRING /\ tmpl.path \in STRING
        /\ tmpl.preimage \in BOOLEAN
    BY SessionAssumption
  <2>. QED
    BY <1>4, <1>5, <2>1, EmptySeq DEF Witness
<1>7. Range(w.sigs) \subseteq Members /\ Len(w.sigs) < MaxSigs
  BY <1>6, SessionAssumption DEF Range
<1>. HIDE DEF w
<1>8. Statement(EndorseWitness(pub, w))
  BY <1>6, <1>7, SignedIs
<1>. QED
  BY <1>8 DEF w

LEMMA Started == Init => SessionInv
<1>. SUFFICES ASSUME Init PROVE SessionInv
  OBVIOUS
<1>1. machine \in Good /\ machine.error = FALSE
  BY InitVMGood DEF Init, InitVM
<1>2. Papers
  <2>1. Len(<<>>) = 0 /\ <<>> \in Seq(Witness) /\ <<>> \in Seq(Receipt)
    BY EmptySeq
  <2>2. \A i \in 1..Len(<<>>) : FALSE
    BY <2>1
  <2>3. drafts = {} /\ accepted = <<>> /\ receipts = <<>> /\ ran_to = ActiveAt - 1
        /\ behind = FALSE
    BY DEF Init
  <2>. QED
    BY <2>1, <2>2, <2>3 DEF Papers
<1>. QED
  BY <1>1, <1>2 DEF SessionInv

\* What tasks leave alone.
Quiet == {m \in Good : m.error = FALSE}

LEMMA QuietTasks == TasksStay(Quiet)
<1>1. ASSUME NEW m \in Quiet, NEW t \in Task, NEW action, NEW path, Tries(action, path)
      PROVE  TryInput(m, TaskInput(t, action, path)) \in Quiet
  <2>1. TryInput(m, TaskInput(t, action, path)) \in Good
    BY <1>1, GoodTasks DEF TasksStay, UpdatesStay, Quiet
  <2>2. TryInput(m, TaskInput(t, action, path)).error = m.error
    <3>1. m \in Machine
      BY DEF Quiet, Good
    <3>. QED
      BY <3>1 DEF TryInput, UpdateVMState, Machine
  <2>. QED
    BY <2>1, <2>2 DEF Quiet
<1>2. ASSUME NEW m \in Quiet PROVE Shifted(m) \in Quiet
  <2>1. Shifted(m) \in Good
    BY GoodTasks DEF TasksStay, ShiftsStay, Quiet
  <2>2. Shifted(m).error = m.error
    <3>1. m \in Machine
      BY DEF Quiet, Good
    <3>. QED
      BY <3>1 DEF Shifted, Machine
  <2>. QED
    BY <2>1, <2>2 DEF Quiet
<1>. QED
  BY <1>1, <1>2 DEF TasksStay, ShiftsStay, UpdatesStay

LEMMA CreateStep ==
    ASSUME SessionInv, NEW pub \in Members, NEW tmpl \in Templates, NEW t \in Stamps,
           Create(pub, tmpl, t)
    PROVE  SessionInv'
<1>1. Statement(EndorseWitness(pub, CreateWitness({pub}, tmpl, t)))
  BY CreatedIs DEF Create
<1>. QED
  BY <1>1 DEF Create, SessionInv, Papers

LEMMA EndorseStep ==
    ASSUME SessionInv, NEW pub \in Members, NEW w \in drafts, Endorse(pub, w)
    PROVE  SessionInv'
<1>1. Statement(w)
  BY DEF SessionInv, Papers
<1>2. Statement(EndorseWitness(pub, w))
  BY <1>1, SignedIs DEF Endorse, Statement
<1>. QED
  BY <1>2 DEF Endorse, SessionInv, Papers

\* What the agent does with a statement.
LEMMA SubmitIs ==
    ASSUME SessionInv, NEW w \in drafts, Submit(w)
    PROVE  /\ w \in Witness /\ <<w>> \in Seq(Witness)
           /\ machine' = EvalWitness(machine, <<w>>) /\ machine' \in Good
           /\ machine'.error = FALSE
           /\ CreateReceipt(machine', w) \in Receipt
<1>1. w \in Witness
  BY DEF SessionInv, Papers, Statement
<1>2. <<w>> \in Seq(Witness)
  BY <1>1
<1>3. machine' = EvalWitness(machine, <<w>>) /\ ~machine'.error
  BY DEF Submit
<1>4. machine' \in Good
  BY <1>2, <1>3, WitnessGood DEF SessionInv
<1>5. machine' \in Machine
  BY <1>4 DEF Good
<1>6. machine'.error = FALSE
  BY <1>3, <1>5 DEF Machine
<1>7. CreateReceipt(machine', w) \in Receipt
  BY <1>1, <1>5 DEF CreateReceipt, Receipt, Machine
<1>. QED
  BY <1>1, <1>2, <1>3, <1>4, <1>6, <1>7

LEMMA SubmitStep ==
    ASSUME SessionInv, NEW w \in drafts, Submit(w)
    PROVE  SessionInv'
<1>1. /\ accepted' = Append(accepted, w)
      /\ receipts' = Append(receipts, CreateReceipt(machine', w))
      /\ drafts' = {} /\ ran_to' = ran_to
      /\ behind' = (behind \/ w.stamp < ran_to)
  BY DEF Submit
<1>2. /\ w \in Witness /\ CreateReceipt(machine', w) \in Receipt
      /\ machine' \in Good /\ machine'.error = FALSE
  BY SubmitIs
<1>3. /\ accepted \in Seq(Witness) /\ receipts \in Seq(Receipt)
      /\ Len(receipts) = Len(accepted) /\ Len(accepted) \in Nat
      /\ \A i \in 1..Len(accepted) : receipts[i].witness = accepted[i]
  BY DEF SessionInv, Papers
<1>4. /\ accepted' \in Seq(Witness) /\ Len(accepted') = Len(accepted) + 1
      /\ \A i \in 1..Len(accepted) : accepted'[i] = accepted[i]
      /\ accepted'[Len(accepted) + 1] = w
  BY <1>1, <1>2, <1>3, AppendProperties
<1>5. /\ receipts' \in Seq(Receipt) /\ Len(receipts') = Len(accepted) + 1
      /\ \A i \in 1..Len(accepted) : receipts'[i] = receipts[i]
      /\ receipts'[Len(accepted) + 1] = CreateReceipt(machine', w)
  BY <1>1, <1>2, <1>3, AppendProperties
<1>6. \A i \in 1..Len(accepted') : receipts'[i].witness = accepted'[i]
  <2>1. CreateReceipt(machine', w).witness = w
    BY DEF CreateReceipt
  <2>2. \A i \in 1..Len(accepted') : i \in 1..Len(accepted) \/ i = Len(accepted) + 1
    BY <1>3, <1>4
  <2>. QED
    BY <1>3, <1>4, <1>5, <2>1, <2>2
<1>7. Papers'
  BY <1>1, <1>4, <1>5, <1>6 DEF SessionInv, Papers
<1>. QED
  BY <1>2, <1>7 DEF SessionInv

LEMMA RunStep ==
    ASSUME SessionInv, NEW t \in RunTimes, RunSchedule(t)
    PROVE  SessionInv'
<1>1. machine \in Quiet /\ machine.tasks \in Seq(Task)
  BY DEF SessionInv, Quiet, Good, Machine
<1>2. machine' \in Quiet
  BY <1>1, QuietTasks, DueStays DEF RunSchedule, EvalSchedule
<1>. QED
  BY <1>2 DEF RunSchedule, SessionInv, Papers, Quiet

LEMMA SessionStep == SessionInv /\ [Next]_vars => SessionInv'
<1>. SUFFICES ASSUME SessionInv, [Next]_vars PROVE SessionInv'
  OBVIOUS
<1>1. ASSUME NEW pub \in Members, NEW tmpl \in Templates, NEW t \in Stamps,
             Create(pub, tmpl, t)
      PROVE  SessionInv'
  BY <1>1, CreateStep
<1>2. ASSUME NEW pub \in Members, NEW w \in drafts, Endorse(pub, w) PROVE SessionInv'
  BY <1>2, EndorseStep
<1>3. ASSUME NEW w \in drafts, Submit(w) PROVE SessionInv'
  BY <1>3, SubmitStep
<1>4. ASSUME NEW t \in RunTimes, RunSchedule(t) PROVE SessionInv'
  BY <1>4, RunStep
<1>5. CASE UNCHANGED vars
  BY <1>5 DEF vars, SessionInv, Papers
<1>. QED
  BY <1>1, <1>2, <1>3, <1>4, <1>5 DEF Next

LEMMA SessionHolds == Spec => []SessionInv
<1>1. SessionInv /\ [Next]_vars => SessionInv'
  BY SessionStep
<1>. QED
  BY <1>1, Started, PTL DEF Spec

\* Every accepted statement has one receipt, in order, and the agent's machine is
\* a machine of the contract (types/witness.ts, types/machine.ts).
THEOREM TypeCorrect == Spec => []TypeOK
<1>1. SessionInv => TypeOK
  <2>. SUFFICES ASSUME SessionInv PROVE TypeOK
    OBVIOUS
  <2>1. Cardinality(drafts) <= 1
    <3>1. CASE drafts = {}
      <4>1. Cardinality({}) = 0
        BY FS_EmptySet
      <4>. QED
        BY <3>1, <4>1
    <3>2. ASSUME NEW w, drafts = {w} PROVE Cardinality(drafts) <= 1
      <4>1. Cardinality({w}) = 1
        BY FS_Singleton
      <4>. QED
        BY <3>2, <4>1
    <3>. QED
      BY <3>1, <3>2 DEF SessionInv, Papers
  <2>2. \A w \in drafts : Statement(w)
    BY DEF SessionInv, Papers
  <2>3. /\ DOMAIN receipts = DOMAIN accepted
        /\ \A i \in DOMAIN accepted : receipts[i].witness = accepted[i]
    BY DEF SessionInv, Papers
  <2>4. machine.output \in PathSet \cup {Null}
    BY DEF SessionInv, Good, Machine
  <2>5. ran_to \in RunTimes \cup {ActiveAt - 1} /\ behind \in BOOLEAN
    BY DEF SessionInv, Papers
  <2>. QED
    BY <2>1, <2>2, <2>3, <2>4, <2>5 DEF TypeOK, Statement
<1>. QED
  BY <1>1, SessionHolds, PTL

\* A statement that is submitted again, or again with another signer, is not
\* committed again (endorse.ts records keys, action.ts refuses a repetition).
THEOREM CommitsOnce == Spec => []CommittedOnce
<1>1. SessionInv => CommittedOnce
  <2>. SUFFICES ASSUME SessionInv, NEW i \in DOMAIN machine.head, NEW j \in DOMAIN machine.head,
                       i < j, machine.head[i].wid # Vmid, machine.head[i] = machine.head[j]
                PROVE  FALSE
    BY DEF CommittedOnce
  <2>1. machine \in Machine /\ Unique(machine) /\ Sealed(machine)
    BY DEF SessionInv, Good
  <2>2. i \in 1..Len(machine.head) /\ j \in 1..Len(machine.head)
    BY <2>1 DEF Machine
  <2>3. CASE machine.head[i].action = "close"
    BY <2>1, <2>2, <2>3 DEF Sealed
  <2>4. CASE machine.head[i].action # "close"
    BY <2>1, <2>2, <2>4 DEF Unique
  <2>. QED
    BY <2>3, <2>4
<1>. QED
  BY <1>1, SessionHolds, PTL

-----------------------------------------------------------------------------
(* A schedule whose tasks fall due in their order.                          *)

Timely(tasks) ==
    /\ tasks \in Seq(Task)
    /\ \A k \in 1..Len(tasks) : tasks[k].at \in Nat
    /\ \A k, l \in 1..Len(tasks) : k <= l => tasks[k].at <= tasks[l].at

\* The first d tasks are due and no other is.
DueTo(tasks, stop_at, d) == \A k \in 1..Len(tasks) : Due(tasks[k], stop_at) <=> k <= d

LEMMA DueIs ==
    ASSUME NEW t \in Task, NEW stop_at \in Int, t.at \in Nat
    PROVE  Due(t, stop_at) <=> t.at + ActiveAt <= stop_at
BY TermsAssumption DEF Due

LEMMA DueUpTo ==
    ASSUME NEW tasks, Timely(tasks), NEW stop_at \in Int
    PROVE  \E d \in 0..Len(tasks) : DueTo(tasks, stop_at, d)
<1>. DEFINE n == Len(tasks)
            T == {k \in 1..n : ~Due(tasks[k], stop_at)}
<1>1. /\ n \in Nat
      /\ \A k \in 1..n : tasks[k] \in Task /\ tasks[k].at \in Nat
      /\ \A k, l \in 1..n : k <= l => tasks[k].at <= tasks[l].at
  BY DEF Timely
<1>2. \A k \in 1..n : Due(tasks[k], stop_at) <=> tasks[k].at + ActiveAt <= stop_at
  BY <1>1, DueIs
<1>3. ASSUME NEW k \in 1..n, NEW l \in 1..n, k <= l, Due(tasks[l], stop_at)
      PROVE  Due(tasks[k], stop_at)
  <2>1. tasks[k].at \in Nat /\ tasks[l].at \in Nat /\ tasks[k].at <= tasks[l].at
    BY <1>1, <1>3
  <2>2. tasks[l].at + ActiveAt <= stop_at /\ ActiveAt \in Int
    BY <1>2, <1>3, TermsAssumption
  <2>3. tasks[k].at + ActiveAt <= stop_at
    BY <2>1, <2>2
  <2>. QED
    BY <1>2, <2>3
<1>. HIDE DEF n
<1>4. CASE T = {}
  <2>1. DueTo(tasks, stop_at, n)
    BY <1>1, <1>4 DEF DueTo, n
  <2>. QED
    BY <1>1, <2>1 DEF n
<1>5. CASE T # {}
  <2>1. PICK m \in T : \A k \in T : m <= k
    <3>1. T \in SUBSET Nat
      BY <1>1
    <3>. HIDE DEF T
    <3>. QED  BY <1>5, <3>1, LeastNat
  <2>2. m \in 1..n /\ m - 1 \in 0..n
    BY <1>1, <2>1
  <2>3. \A k \in 1..n : Due(tasks[k], stop_at) <=> k <= m - 1
    <3>1. ASSUME NEW k \in 1..n, Due(tasks[k], stop_at) PROVE k <= m - 1
      <4>1. ~(m <= k)
        BY <1>3, <2>1, <2>2, <3>1
      <4>. QED
        BY <1>1, <2>2, <4>1
    <3>2. ASSUME NEW k \in 1..n, k <= m - 1 PROVE Due(tasks[k], stop_at)
      <4>1. ~(m <= k)
        BY <1>1, <2>2, <3>2
      <4>. QED
        BY <2>1, <4>1
    <3>. QED
      BY <3>1, <3>2
  <2>. QED
    BY <2>2, <2>3 DEF DueTo, n
<1>. QED
  BY <1>4, <1>5

\* run_task() takes off the first task and leaves the others.
LEMMA TaskShifts ==
    ASSUME NEW m \in Good, NEW t \in Task
    PROVE  RunTask(m, t).tasks = IF m.tasks = <<>> THEN <<>> ELSE Tail(m.tasks)
<1>. DEFINE D == {x \in Good : x.tasks = m.tasks}
<1>1. UpdatesStay(D, t)
  <2>1. ASSUME NEW x \in D, NEW action, NEW path, Tries(action, path)
        PROVE  TryInput(x, TaskInput(t, action, path)) \in D
    <3>1. TryInput(x, TaskInput(t, action, path)) \in Good
      BY <2>1, GoodTasks DEF TasksStay, UpdatesStay
    <3>2. x \in Machine
      BY DEF Good
    <3>3. TryInput(x, TaskInput(t, action, path)).tasks = x.tasks
      BY <3>2 DEF TryInput, UpdateVMState, Machine
    <3>. QED
      BY <3>1, <3>3
  <2>. QED
    BY <2>1 DEF UpdatesStay
<1>2. PICK n \in D : RunTask(m, t) = Shifted(n)
  <2>. HIDE DEF D
  <2>1. m \in D
    BY DEF D
  <2>. QED
    BY <1>1, <2>1, LoopStays
<1>3. n \in Machine /\ n.tasks = m.tasks
  BY DEF Good
<1>. QED
  BY <1>2, <1>3 DEF Shifted, Machine

\* How run_schedule() goes through the tasks: it takes them off as it runs them,
\* it stops at an output, and it leaves alone those that are not due.
LEMMA RunPrefix ==
    ASSUME NEW m \in Good, Timely(m.tasks), NEW stop_at, NEW d \in 0..Len(m.tasks),
           DueTo(m.tasks, stop_at, d), NEW P, OverTasks(P, Good, m, stop_at)
    PROVE  /\ \A k \in 0..d : P[k].output = Null => P[k].tasks = Rest(m.tasks, k)
           /\ \A k \in d..Len(m.tasks) : P[k] = P[d]
<1>. DEFINE n == Len(m.tasks)
            T == m.tasks
<1>1. /\ n \in Nat /\ d \in 0..n /\ T \in Seq(Task) /\ P \in [0..n -> Good] /\ P[0] = m
      /\ \A k \in 1..n : P[k] = RunNext(P[k - 1], T[k], stop_at)
      /\ \A k \in 1..n : Due(T[k], stop_at) <=> k <= d
  BY DEF Timely, OverTasks, DueTo
<1>. HIDE DEF n, T
<1>2. \A k \in 0..d : P[k].output = Null => P[k].tasks = Rest(T, k)
  <2>. DEFINE S == {k \in 0..d : P[k].output = Null => P[k].tasks = Rest(T, k)}
  <2>1. 0 \in S
    <3>1. Rest(T, 0) = T
      BY <1>1, RestIs
    <3>. QED
      BY <1>1, <3>1 DEF T
  <2>2. ASSUME NEW k \in 1..d, k - 1 \in S PROVE k \in S
    <3>1. k \in 1..n /\ k - 1 \in 0..n /\ k \in 0..d /\ Due(T[k], stop_at) /\ T[k] \in Task
      BY <1>1 DEF n, T
    <3>2. P[k] = RunNext(P[k - 1], T[k], stop_at) /\ P[k - 1] \in Good
      BY <1>1, <3>1
    <3>3. CASE P[k - 1].output # Null
      BY <3>1, <3>2, <3>3 DEF RunNext
    <3>4. CASE P[k - 1].output = Null
      <4>1. P[k - 1].tasks = Rest(T, k - 1)
        BY <2>2, <3>4
      <4>2. P[k] = RunTask(P[k - 1], T[k])
        BY <3>1, <3>2, <3>4 DEF RunNext
      <4>3. Rest(T, k - 1) # <<>> /\ Tail(Rest(T, k - 1)) = Rest(T, k)
        <5>1. Len(T) = n
          BY DEF n, T
        <5>2. T \in Seq(Task) /\ k \in 1..Len(T)
          BY <1>1, <3>1, <5>1
        <5>. QED
          BY <5>2, RestNext
      <4>. QED
        BY <3>1, <3>2, <4>1, <4>2, <4>3, TaskShifts
    <3>. QED
      BY <3>3, <3>4
  <2>3. d \in Nat /\ Climbs(S, d)
    BY <1>1, <2>1, <2>2 DEF Climbs
  <2>4. \A k \in 0..d : k \in S
    <3>. HIDE DEF S
    <3>. QED  BY <2>3, Climb
  <2>. QED
    BY <2>4
<1>3. \A k \in d..n : P[k] = P[d]
  <2>. DEFINE S == {k \in 0..n : k >= d => P[k] = P[d]}
  <2>1. 0 \in S
    BY <1>1
  <2>2. ASSUME NEW k \in 1..n, k - 1 \in S PROVE k \in S
    <3>1. CASE k <= d
      BY <1>1, <3>1
    <3>2. CASE k > d
      <4>1. ~Due(T[k], stop_at) /\ P[k] = RunNext(P[k - 1], T[k], stop_at)
        BY <1>1, <3>2
      <4>2. P[k] = P[k - 1]
        BY <4>1 DEF RunNext
      <4>. QED
        BY <1>1, <2>2, <3>2, <4>2
    <3>. QED
      BY <1>1, <3>1, <3>2
  <2>3. Climbs(S, n)
    BY <2>1, <2>2 DEF Climbs
  <2>4. \A k \in 0..n : k \in S
    <3>. HIDE DEF S
    <3>. QED  BY <1>1, <2>3, Climb
  <2>. QED
    BY <1>1, <2>4
<1>. QED
  BY <1>2, <1>3 DEF n, T

LEMMA RunsGood ==
    ASSUME NEW m \in Good, NEW stop_at
    PROVE  \E P : OverTasks(P, Good, m, stop_at)
<1>1. m.tasks \in Seq(Task)
  BY DEF Good, Machine
<1>. QED
  BY <1>1, GoodTasks, TasksClose, TaskSteps

LEMMA RunNothing ==
    ASSUME NEW m \in Good, Timely(m.tasks), NEW stop_at, DueTo(m.tasks, stop_at, 0)
    PROVE  RunDue(m, stop_at) = m
<1>1. PICK P : OverTasks(P, Good, m, stop_at)
  BY RunsGood
<1>2. Len(m.tasks) \in Nat
  BY DEF Timely
<1>3. P[Len(m.tasks)] = P[0]
  <2>1. 0 \in 0..Len(m.tasks) /\ Len(m.tasks) \in 0..Len(m.tasks)
    BY <1>2
  <2>2. \A k \in 0..Len(m.tasks) : P[k] = P[0]
    BY <1>1, <2>1, RunPrefix
  <2>. QED
    BY <2>1, <2>2
<1>. QED
  BY <1>1, <1>3 DEF OverTasks

\* What is left after a run is what was not due, and none of it falls due earlier.
LEMMA RunLeaves ==
    ASSUME NEW m \in Good, Timely(m.tasks), NEW r \in Int, NEW s \in Int, r <= s,
           NEW n, n = RunDue(m, s), n.output = Null
    PROVE  /\ n \in Good /\ Timely(n.tasks) /\ DueTo(n.tasks, r, 0)
           /\ \E d \in 0..Len(m.tasks) : DueTo(m.tasks, s, d) /\ n.tasks = Rest(m.tasks, d)
<1>. DEFINE T == m.tasks
<1>1. PICK P : OverTasks(P, Good, m, s)
  BY RunsGood
<1>2. PICK d \in 0..Len(T) : DueTo(T, s, d)
  BY DueUpTo
<1>3. Len(T) \in Nat /\ d \in Nat
  BY DEF Timely
<1>4. n = P[d] /\ n \in Good
  <2>1. Len(T) \in d..Len(T)
    BY <1>2, <1>3
  <2>2. \A k \in d..Len(T) : P[k] = P[d]
    <3>1. d \in 0..Len(m.tasks) /\ DueTo(m.tasks, s, d)
      BY <1>2
    <3>. HIDE DEF T
    <3>2. \A k \in d..Len(m.tasks) : P[k] = P[d]
      BY <1>1, <3>1, RunPrefix
    <3>. QED
      BY <3>2 DEF T
  <2>. QED
    BY <1>1, <2>1, <2>2, DueGood DEF OverTasks
<1>5. n.tasks = Rest(T, d)
  BY <1>1, <1>2, <1>3, <1>4, RunPrefix
<1>6. /\ \A k \in 1..Len(T) : T[k] \in Task /\ T[k].at \in Nat
      /\ \A k, l \in 1..Len(T) : k <= l => T[k].at <= T[l].at
  BY DEF Timely
<1>. HIDE DEF T
<1>7. Len(T) - d \in Nat /\ \A i \in 1..(Len(T) - d) : d + i \in 1..Len(T) /\ ~(d + i <= d)
  BY <1>2, <1>3
<1>8. /\ Rest(T, d) \in Seq(Task) /\ Len(Rest(T, d)) = Len(T) - d
      /\ \A i \in 1..(Len(T) - d) : Rest(T, d)[i] = T[d + i]
  BY <1>6, <1>7 DEF Rest
<1>9. Timely(Rest(T, d))
  <2>1. \A i, j \in 1..(Len(T) - d) : i <= j => d + i <= d + j
    BY <1>3, <1>7
  <2>. QED
    BY <1>6, <1>7, <1>8, <2>1 DEF Timely
<1>10. DueTo(Rest(T, d), r, 0)
  <2>1. ASSUME NEW i \in 1..(Len(T) - d) PROVE ~Due(Rest(T, d)[i], r)
    <3>1. ~Due(T[d + i], s) /\ T[d + i] \in Task /\ T[d + i].at \in Nat
      BY <1>2, <1>6, <1>7 DEF DueTo
    <3>2. ~Due(T[d + i], r)
      BY <3>1, DueIs, TermsAssumption
    <3>. QED
      BY <1>8, <3>2
  <2>2. \A i \in 1..(Len(T) - d) : ~(i <= 0)
    BY <1>7
  <2>. QED
    BY <1>8, <2>1, <2>2 DEF DueTo
<1>. QED
  BY <1>2, <1>4, <1>5, <1>9, <1>10 DEF T

\* A run goes on as from the machine that it has come to.
LEMMA RunGoesOn ==
    ASSUME NEW m \in Good, NEW s, NEW P, OverTasks(P, Good, m, s),
           NEW d \in 0..Len(m.tasks), P[d].tasks = Rest(m.tasks, d)
    PROVE  RunDue(P[d], s) = RunDue(m, s)
<1>. DEFINE n == Len(m.tasks)
            x == P[d]
<1>1. n \in Nat /\ d \in 0..n /\ n - d \in Nat /\ x \in Good
  <2>1. m.tasks \in Seq(Task)
    BY DEF Good, Machine
  <2>2. n \in Nat /\ d \in 0..n
    BY <2>1
  <2>3. x \in Good
    BY DEF OverTasks
  <2>. QED
    BY <2>2, <2>3
<1>2. PICK S : OverTasks(S, Good, x, s)
  BY <1>1, RunsGood
<1>. HIDE DEF n
<1>3. Len(x.tasks) = n - d /\ \A j \in 1..(n - d) : x.tasks[j] = m.tasks[d + j]
  BY <1>1 DEF Rest, n
<1>. DEFINE U == {j \in 0..(n - d) : S[j] = P[d + j]}
<1>4. 0 \in U
  BY <1>1, <1>2 DEF OverTasks
<1>. HIDE DEF x
<1>5. ASSUME NEW j \in 1..(n - d), j - 1 \in U PROVE j \in U
  <2>1. d + j \in 1..n /\ (d + j) - 1 = d + (j - 1)
    BY <1>1
  <2>2. S[j] = RunNext(S[j - 1], m.tasks[d + j], s)
    BY <1>2, <1>3 DEF OverTasks
  <2>3. P[d + j] = RunNext(P[(d + j) - 1], m.tasks[d + j], s)
    BY <2>1 DEF OverTasks, n
  <2>4. S[j - 1] = P[d + (j - 1)]
    BY <1>5
  <2>. QED
    BY <2>1, <2>2, <2>3, <2>4
<1>6. Climbs(U, n - d)
  BY <1>4, <1>5 DEF Climbs
<1>7. \A j \in 0..(n - d) : j \in U
  <2>. HIDE DEF U
  <2>. QED  BY <1>1, <1>6, Climb
<1>8. S[n - d] = P[n]
  <2>1. n - d \in 0..(n - d) /\ d + (n - d) = n
    BY <1>1
  <2>. QED
    BY <1>7, <2>1
<1>9. RunDue(x, s) = S[n - d] /\ RunDue(m, s) = P[n]
  BY <1>2, <1>3 DEF OverTasks, n
<1>. QED
  BY <1>8, <1>9 DEF x

\* A schedule that is run to a time and on to a later one is run to that one.
LEMMA RunTwice ==
    ASSUME NEW m \in Good, Timely(m.tasks), NEW r \in Int, NEW t \in Int, r <= t,
           RunDue(m, r).output = Null
    PROVE  RunDue(RunDue(m, r), t) = RunDue(m, t)
<1>. DEFINE T == m.tasks
            n == Len(T)
            m1 == RunDue(m, r)
<1>1. PICK P : OverTasks(P, Good, m, r)
  BY RunsGood
<1>2. PICK Q : OverTasks(Q, Good, m, t)
  BY RunsGood
<1>3. PICK d \in 0..n : DueTo(T, r, d) /\ m1.tasks = Rest(T, d)
  BY RunLeaves
<1>4. /\ n \in Nat /\ d \in 0..n
      /\ \A k \in 1..n : T[k] \in Task /\ T[k].at \in Nat
  BY <1>3 DEF Timely
<1>5. m1 = P[d]
  <2>1. n \in d..n
    BY <1>4
  <2>2. \A k \in d..n : P[k] = P[d]
    <3>1. d \in 0..Len(m.tasks) /\ DueTo(m.tasks, r, d)
      BY <1>3
    <3>. HIDE DEF T, n, m1
    <3>2. \A k \in d..Len(m.tasks) : P[k] = P[d]
      BY <1>1, <3>1, RunPrefix
    <3>. QED
      BY <3>2 DEF T, n
  <2>. QED
    BY <1>1, <2>1, <2>2 DEF OverTasks
<1>6. \A k \in 0..d : P[k] = Q[k]
  <2>. DEFINE U == {k \in 0..d : P[k] = Q[k]}
  <2>1. 0 \in U
    BY <1>1, <1>2, <1>4 DEF OverTasks
  <2>2. ASSUME NEW k \in 1..d, k - 1 \in U PROVE k \in U
    <3>1. k \in 1..n /\ k <= d
      BY <1>4
    <3>2. Due(T[k], r)
      BY <1>3, <3>1 DEF DueTo
    <3>3. Due(T[k], t)
      <4>1. T[k] \in Task /\ T[k].at \in Nat /\ ActiveAt \in Int
        BY <1>4, <3>1, TermsAssumption
      <4>2. T[k].at + ActiveAt <= r
        BY <3>2, <4>1, DueIs
      <4>3. T[k].at + ActiveAt <= t
        BY <4>1, <4>2
      <4>. QED
        BY <4>1, <4>3, DueIs
    <3>4. /\ P[k] = RunNext(P[k - 1], T[k], r)
          /\ Q[k] = RunNext(Q[k - 1], T[k], t)
      BY <1>1, <1>2, <3>1 DEF OverTasks
    <3>5. P[k - 1] = Q[k - 1]
      BY <2>2
    <3>. QED
      BY <3>2, <3>3, <3>4, <3>5 DEF RunNext
  <2>3. Climbs(U, d) /\ d \in Nat
    BY <1>4, <2>1, <2>2 DEF Climbs
  <2>4. \A k \in 0..d : k \in U
    <3>. HIDE DEF U
    <3>. QED  BY <2>3, Climb
  <2>. QED
    BY <2>4
<1>7. Q[d] = m1
  <2>1. d \in 0..d
    BY <1>4
  <2>. QED
    BY <1>5, <1>6, <2>1
<1>. HIDE DEF T, n, m1
<1>8. d \in 0..Len(m.tasks) /\ Q[d].tasks = Rest(m.tasks, d)
  BY <1>3, <1>7 DEF T, n
<1>9. RunDue(Q[d], t) = RunDue(m, t)
  BY <1>2, <1>8, RunGoesOn
<1>. QED
  BY <1>7, <1>9 DEF m1

\* The machines that a schedule with its timers set forward comes to.
Fresh == {m \in Good : Timely(m.tasks)}

LEMMA InitVMFresh ==
    ASSUME TimersForward
    PROVE  InitVM \in Fresh
<1>. DEFINE All == InitTasks(Schedule)
<1>1. /\ All \in Seq(Task) /\ DOMAIN All = 1..Len(All)
      /\ \A k, l \in DOMAIN All : k <= l => All[k].at <= All[l].at
  BY InitTasksProperties
<1>2. PICK f \in Bijection(DOMAIN Schedule, DOMAIN Schedule) :
         \A k \in DOMAIN Schedule : All[k] = Schedule[f[k]]
  BY InitTasksPermute
<1>3. DOMAIN Schedule = DOMAIN All
  <2>1. Len(All) = Len(Schedule) /\ DOMAIN Schedule = 1..Len(Schedule)
    BY InitTasksProperties, TermsAssumption
  <2>. HIDE DEF All
  <2>. QED
    BY <1>1, <2>1
<1>. HIDE DEF All
<1>4. \A k \in DOMAIN All : All[k].at \in Nat
  <2>1. \A i \in DOMAIN Schedule : Schedule[i] \in Task
    BY TermsAssumption
  <2>2. \A i \in DOMAIN Schedule : Schedule[i].at \in Nat
    BY <2>1 DEF Task, TimersForward
  <2>3. f \in [DOMAIN Schedule -> DOMAIN Schedule]
    BY <1>2 DEF Bijection, Injection
  <2>. QED
    BY <1>2, <1>3, <2>2, <2>3
<1>5. Timely(All)
  BY <1>1, <1>4 DEF Timely
<1>. QED
  BY <1>5, InitVMGood DEF Fresh, InitVM, All

LEMMA FreshTasks == TasksStay(Fresh)
<1>1. ASSUME NEW m \in Fresh, NEW t \in Task, NEW action, NEW path, Tries(action, path)
      PROVE  TryInput(m, TaskInput(t, action, path)) \in Fresh
  <2>1. TryInput(m, TaskInput(t, action, path)) \in Good
    BY <1>1, GoodTasks DEF TasksStay, UpdatesStay, Fresh
  <2>2. m \in Machine
    BY DEF Fresh, Good
  <2>3. TryInput(m, TaskInput(t, action, path)).tasks = m.tasks
    BY <2>2 DEF TryInput, UpdateVMState, Machine
  <2>. QED
    BY <2>1, <2>3 DEF Fresh
<1>2. ASSUME NEW m \in Fresh PROVE Shifted(m) \in Fresh
  <2>1. Shifted(m) \in Good
    BY GoodTasks DEF TasksStay, ShiftsStay, Fresh
  <2>2. m \in Machine
    BY DEF Fresh, Good
  <2>3. Shifted(m).tasks = IF m.tasks = <<>> THEN <<>> ELSE Tail(m.tasks)
    BY <2>2 DEF Shifted, Machine
  <2>4. Timely(m.tasks)
    BY DEF Fresh
  <2>5. m.tasks # <<>> => Timely(Tail(m.tasks))
    BY <2>4 DEF Timely
  <2>. QED
    BY <2>1, <2>3, <2>4, <2>5 DEF Fresh
<1>. QED
  BY <1>1, <1>2 DEF TasksStay, ShiftsStay, UpdatesStay

\* A program leaves the tasks alone.
LEMMA ProgramTasks ==
    ASSUME NEW m \in Machine, NEW w \in Witness
    PROVE  RunProgram(m, w).m.tasks = m.tasks
<1>. DEFINE n     == AfterExec(m, w)
            input == WitnessInput(w)
            u     == UpdateVMState(n, input)
<1>1. n.tasks = m.tasks /\ [n EXCEPT !.error = TRUE].tasks = n.tasks /\ u.tasks = n.tasks
  <2>1. n \in {m, [m EXCEPT !.store = n.store]}
    BY DEF AfterExec, Machine
  <2>. HIDE DEF n
  <2>. QED
    BY <2>1 DEF UpdateVMState, Machine
<1>2. RunProgram(m, w).m \in {m, n, [n EXCEPT !.error = TRUE], u}
  <2>. HIDE DEF n, u, input
  <2>. QED
    BY ProgramResult DEF n, u, input
<1>. QED
  BY <1>1, <1>2

LEMMA FreshPrograms == ProgramsStay(Fresh)
<1>1. ASSUME NEW m \in Fresh, NEW w \in Witness, ~m.closed PROVE RunProgram(m, w).m \in Fresh
  <2>1. m \in Good /\ m \in Machine
    BY DEF Fresh, Good
  <2>. QED
    BY <1>1, <2>1, ProgramTasks, ProgramGood DEF Fresh
<1>. QED
  BY <1>1 DEF ProgramsStay

LEMMA WitnessFresh ==
    ASSUME NEW m \in Fresh, NEW ws \in Seq(Witness)
    PROVE  EvalWitness(m, ws) \in Fresh
<1>1. Begin(m) \in Results(Good) /\ Begin(m).m.tasks = m.tasks
  BY BeginGood DEF Begin, Fresh, Good, Machine
<1>2. Begin(m) \in Results(Fresh)
  BY <1>1 DEF Results, Fresh
<1>3. Fresh \in SUBSET Good
  BY DEF Fresh
<1>4. EvalResult(m, ws) \in Results(Fresh)
  BY <1>2, <1>3, FreshTasks, FreshPrograms, ResultStays
<1>. QED
  BY <1>4 DEF EvalWitness, Results

-----------------------------------------------------------------------------
(* Statements that are evaluated one by one.                                *)

LEMMA OneStatement ==
    ASSUME NEW w \in Witness
    PROVE  GetStatements(<<w>>) = <<w>>
<1>. DEFINE ws  == <<w>>
            key == [i \in DOMAIN ws |-> ws[i].stamp]
            Place(k) == CHOOSE i \in DOMAIN ws : Rank(key, i) = k
<1>1. ws \in Seq(Witness) /\ DOMAIN ws = {1} /\ Len(ws) = 1 /\ ws[1] = w
  OBVIOUS
<1>2. key \in [DOMAIN ws -> Int]
  BY <1>1 DEF Witness
<1>3. \A k \in DOMAIN ws : Place(k) \in DOMAIN ws /\ SortBy(ws, key)[k] = ws[Place(k)]
  <2>. HIDE DEF ws, key
  <2>. QED
    BY <1>1, <1>2, SortByProperties
<1>4. SortBy(ws, key) \in Seq(Witness) /\ Len(SortBy(ws, key)) = 1
  <2>. HIDE DEF ws, key
  <2>. QED
    BY <1>1, <1>2, SortByProperties
<1>5. Place(1) = 1
  <2>. HIDE DEF ws, key, Place
  <2>. QED
    BY <1>1, <1>3
<1>6. SortBy(ws, key)[1] = w
  <2>. HIDE DEF ws, key, Place
  <2>. QED
    BY <1>1, <1>3, <1>5
<1>7. SortBy(ws, key) = <<w>>
  <2>. DEFINE s == SortBy(ws, key)
  <2>1. s \in Seq(Witness) /\ Len(s) = 1 /\ s[1] = w
    BY <1>4, <1>6
  <2>. HIDE DEF s
  <2>2. s = <<w>>
    BY <2>1
  <2>. QED
    BY <2>2 DEF s
<1>. QED
  BY <1>7 DEF GetStatements

LEMMA EvalOne ==
    ASSUME NEW m \in Good, m.error = FALSE, NEW w \in Witness
    PROVE  EvalResult(m, <<w>>) = EvalStatement([m |-> m, flow |-> "next"], w)
<1>1. <<w>> \in Seq(Witness) /\ GetStatements(<<w>>) = <<w>>
  BY OneStatement
<1>2. Begin(m) = [m |-> m, flow |-> "next"] /\ Begin(m) \in Results(Good)
  BY BeginGood
<1>3. StatementsClosed(Results(Good), GetStatements(<<w>>))
  <2>1. \A r \in Results(Good) : EvalStatement(r, w) \in Results(Good)
    BY GoodTasks, GoodPrograms, StatementStays
  <2>. QED
    BY <1>1, <2>1 DEF StatementsClosed
<1>4. PICK P : OverStatements(P, Results(Good), m, <<w>>)
  BY <1>1, <1>2, <1>3, StatementSteps
<1>5. Len(GetStatements(<<w>>)) = 1 /\ GetStatements(<<w>>)[1] = w /\ 1 - 1 = 0
  BY <1>1
<1>6. P[0] = Begin(m) /\ P[1] = EvalStatement(P[1 - 1], w) /\ EvalResult(m, <<w>>) = P[1]
  BY <1>4, <1>5 DEF OverStatements
<1>. QED
  BY <1>2, <1>5, <1>6

LEMMA FreshReplay ==
    ASSUME TimersForward, NEW ws \in Seq(Witness)
    PROVE  /\ \E P : OverReplay(P, Fresh, ws)
           /\ Replay(ws) \in Fresh
<1>1. ReplayClosed(Fresh, ws)
  <2>1. ASSUME NEW x \in Fresh, NEW k \in DOMAIN ws
        PROVE  EvalWitness(x, <<ws[k]>>) \in Fresh
    <3>1. <<ws[k]>> \in Seq(Witness)
      OBVIOUS
    <3>. QED
      BY <3>1, WitnessFresh
  <2>. QED
    BY <2>1 DEF ReplayClosed
<1>2. PICK P : OverReplay(P, Fresh, ws)
  BY <1>1, InitVMFresh, ReplaySteps
<1>3. Len(ws) \in 0..Len(ws)
  OBVIOUS
<1>4. Replay(ws) \in Fresh
  BY <1>2, <1>3 DEF OverReplay
<1>. QED
  BY <1>2, <1>4

LEMMA ReplayNothing ==
    ASSUME TimersForward
    PROVE  Replay(<<>>) = InitVM
<1>1. <<>> \in Seq(Witness) /\ Len(<<>>) = 0
  BY EmptySeq
<1>2. PICK P : OverReplay(P, Fresh, <<>>)
  BY <1>1, FreshReplay
<1>. QED
  BY <1>1, <1>2 DEF OverReplay

LEMMA ReplayAppend ==
    ASSUME TimersForward, NEW ws \in Seq(Witness), NEW w \in Witness
    PROVE  Replay(Append(ws, w)) = EvalWitness(Replay(ws), <<w>>)
<1>. DEFINE vs == Append(ws, w)
            n  == Len(ws)
<1>1. /\ n \in Nat /\ vs \in Seq(Witness) /\ Len(vs) = n + 1
      /\ \A k \in 1..n : vs[k] = ws[k]
      /\ vs[n + 1] = w
  BY AppendProperties
<1>. HIDE DEF vs, n
<1>2. PICK P : OverReplay(P, Fresh, ws)
  BY FreshReplay
<1>3. PICK Q : OverReplay(Q, Fresh, vs)
  BY <1>1, FreshReplay
<1>. DEFINE S == {k \in 0..n : P[k] = Q[k]}
<1>4. 0 \in S
  BY <1>1, <1>2, <1>3 DEF OverReplay
<1>5. ASSUME NEW k \in 1..n, k - 1 \in S PROVE k \in S
  <2>1. k \in 1..(n + 1) /\ vs[k] = ws[k] /\ k \in 0..n
    BY <1>1
  <2>2. P[k] = EvalWitness(P[k - 1], <<ws[k]>>)
    BY <1>2 DEF OverReplay, n
  <2>3. Q[k] = EvalWitness(Q[k - 1], <<vs[k]>>)
    BY <1>1, <1>3, <2>1 DEF OverReplay
  <2>4. P[k - 1] = Q[k - 1]
    BY <1>5
  <2>. QED
    BY <2>1, <2>2, <2>3, <2>4
<1>6. Climbs(S, n)
  BY <1>4, <1>5 DEF Climbs
<1>7. \A k \in 0..n : k \in S
  <2>. HIDE DEF S
  <2>. QED  BY <1>1, <1>6, Climb
<1>8. P[n] = Q[n]
  <2>1. n \in 0..n
    BY <1>1
  <2>. QED
    BY <1>7, <2>1
<1>9. Q[n + 1] = EvalWitness(Q[n], <<w>>)
  <2>1. n + 1 \in 1..(n + 1) /\ (n + 1) - 1 = n
    BY <1>1
  <2>2. Q[n + 1] = EvalWitness(Q[(n + 1) - 1], <<vs[n + 1]>>)
    BY <1>1, <1>3, <2>1 DEF OverReplay
  <2>. QED
    BY <1>1, <2>1, <2>2
<1>10. Replay(ws) = P[n] /\ Replay(vs) = Q[n + 1]
  BY <1>1, <1>2, <1>3 DEF OverReplay, n
<1>. QED
  BY <1>8, <1>9, <1>10 DEF vs

\* A statement that is not older than the time a machine has been run to makes of
\* the machine what it makes of the machine before that run.
LEMMA StatementAfterRun ==
    ASSUME NEW m \in Fresh, m.error = FALSE, m.output = Null, NEW r \in Int,
           NEW n, n = RunDue(m, r), n.error = FALSE, n.output = Null,
           NEW w \in Witness, r <= w.stamp
    PROVE  /\ EvalResult(n, <<w>>) = EvalResult(m, <<w>>)
           /\ EvalWitness(n, <<w>>).output = Null
                /\ EvalResult(n, <<w>>).flow # "throw" =>
                  RunDue(EvalWitness(n, <<w>>), r) = EvalWitness(n, <<w>>)
<1>1. m \in Good /\ Timely(m.tasks) /\ w.stamp \in Int
  BY DEF Fresh, Witness
<1>2. n \in Good
  BY <1>1, DueGood
<1>3. RunDue(n, w.stamp) = RunDue(m, w.stamp)
  BY <1>1, RunTwice
<1>4. EvalStatement([m |-> n, flow |-> "next"], w) = EvalStatement([m |-> m, flow |-> "next"], w)
  BY <1>3 DEF EvalStatement
<1>5. EvalResult(n, <<w>>) = EvalResult(m, <<w>>)
  BY <1>1, <1>2, <1>4, EvalOne
<1>6. ASSUME EvalWitness(n, <<w>>).output = Null, EvalResult(n, <<w>>).flow # "throw"
      PROVE  RunDue(EvalWitness(n, <<w>>), r) = EvalWitness(n, <<w>>)
  <2>. DEFINE u == RunDue(m, w.stamp)
              v == EvalWitness(n, <<w>>)
  <2>1. v = EvalStatement([m |-> m, flow |-> "next"], w).m
    BY <1>1, <1>5, <1>6, EvalOne DEF EvalWitness
  <2>2. u \in Good /\ u \in Machine /\ Settled(u)
    BY <1>1, DueGood DEF Good
  <2>3. v = IF u.closed THEN u ELSE RunProgram(u, w).m
    BY <2>1 DEF EvalStatement
  <2>4. v.tasks = u.tasks
    BY <2>2, <2>3, ProgramTasks
  <2>5. u.output = Null
    BY <1>6, <2>2, <2>3 DEF Settled
  <2>6. Timely(u.tasks) /\ DueTo(u.tasks, r, 0)
    BY <1>1, <2>5, RunLeaves
  <2>7. v \in Good
    BY <1>1, <2>2, <2>3, ProgramGood
  <2>. HIDE DEF u, v
  <2>8. RunDue(v, r) = v
    BY <2>4, <2>6, <2>7, RunNothing
  <2>. QED
    BY <2>8 DEF v
<1>. QED
  BY <1>5, <1>6

\* The agent's machine is the replay's, run to the time that it was run to.
ReplayInv ==
    ~behind => /\ Replay(accepted).error = FALSE
               /\ machine = EvalSchedule(Replay(accepted), ran_to)

LEMMA ReplayStarts ==
    ASSUME TimersForward, Init
    PROVE  ReplayInv
<1>1. Replay(accepted) = InitVM /\ machine = InitVM
  BY ReplayNothing DEF Init
<1>2. InitVM \in Good /\ Timely(InitVM.tasks)
  BY InitVMFresh DEF Fresh
<1>3. DueTo(InitVM.tasks, ActiveAt - 1, 0)
  <2>1. ActiveAt \in Int /\ ActiveAt - 1 \in Int
    BY TermsAssumption
  <2>2. ASSUME NEW k \in 1..Len(InitVM.tasks)
        PROVE  ~Due(InitVM.tasks[k], ActiveAt - 1) /\ ~(k <= 0)
    <3>1. InitVM.tasks[k] \in Task /\ InitVM.tasks[k].at \in Nat
      BY <1>2 DEF Timely
    <3>2. ~(InitVM.tasks[k].at + ActiveAt <= ActiveAt - 1)
      BY <2>1, <3>1
    <3>. QED
      BY <2>1, <3>1, <3>2, DueIs
  <2>. QED
    BY <2>2 DEF DueTo
<1>4. RunDue(InitVM, ActiveAt - 1) = InitVM
  BY <1>2, <1>3, RunNothing
<1>5. InitVM.error = FALSE
  BY DEF InitVM
<1>. QED
  BY <1>1, <1>4, <1>5 DEF ReplayInv, EvalSchedule, Init

LEMMA RanToInt == SessionInv => ran_to \in Int
BY SessionAssumption, TermsAssumption DEF SessionInv, Papers

\* The agent's machine after a statement is the replay with it.
LEMMA SubmitReplays ==
    ASSUME TimersForward, SessionInv, ReplayInv, NEW w \in drafts, Submit(w), ~behind'
    PROVE  /\ machine' = Replay(accepted')
           /\ machine'.output = Null => RunDue(machine', ran_to) = machine'
<1>. DEFINE R == Replay(accepted)
<1>1. /\ ~behind /\ accepted' = Append(accepted, w) /\ ran_to' = ran_to
      /\ ~(w.stamp < ran_to)
      /\ EvalResult(machine, <<w>>).flow # "throw" /\ machine.output = Null
  BY DEF Submit, VerifyWitnessData
<1>2. /\ w \in Witness /\ machine' = EvalWitness(machine, <<w>>) /\ machine'.error = FALSE
      /\ accepted \in Seq(Witness) /\ machine.error = FALSE
  BY SubmitIs DEF SessionInv, Papers
<1>3. ran_to \in Int /\ w.stamp \in Int /\ ran_to <= w.stamp
  BY <1>1, <1>2, RanToInt DEF Witness
<1>4. R \in Fresh /\ R.error = FALSE /\ machine = EvalSchedule(R, ran_to)
  BY <1>1, <1>2, FreshReplay DEF ReplayInv
<1>5. Replay(accepted') = EvalWitness(R, <<w>>)
  BY <1>1, <1>2, ReplayAppend
<1>. HIDE DEF R
<1>6. R.output = Null /\ machine = RunDue(R, ran_to)
  BY <1>1, <1>4 DEF EvalSchedule
<1>7. EvalResult(machine, <<w>>) = EvalResult(R, <<w>>)
  BY <1>1, <1>2, <1>3, <1>4, <1>6, StatementAfterRun
<1>8. machine' = EvalWitness(R, <<w>>)
  BY <1>1, <1>2, <1>6, <1>7 DEF EvalWitness
<1>9. machine'.output = Null => RunDue(machine', ran_to) = machine'
  <2>1. EvalWitness(machine, <<w>>).output = Null =>
           RunDue(EvalWitness(machine, <<w>>), ran_to) = EvalWitness(machine, <<w>>)
    BY <1>1, <1>2, <1>3, <1>4, <1>6, StatementAfterRun
  <2>. QED
    BY <1>2, <2>1
<1>. QED
  BY <1>5, <1>8, <1>9

LEMMA ReplaySubmit ==
    ASSUME TimersForward, SessionInv, ReplayInv, NEW w \in drafts, Submit(w)
    PROVE  ReplayInv'
<1>. SUFFICES ASSUME ~behind' PROVE ReplayInv'
  BY DEF ReplayInv
<1>1. ran_to' = ran_to /\ machine'.error = FALSE
  BY SubmitIs DEF Submit
<1>2. /\ machine' = Replay(accepted')
      /\ machine'.output = Null => RunDue(machine', ran_to) = machine'
  BY SubmitReplays
<1>3. machine' = EvalSchedule(machine', ran_to)
  BY <1>2 DEF EvalSchedule
<1>. QED
  BY <1>1, <1>2, <1>3 DEF ReplayInv

LEMMA ReplayRun ==
    ASSUME TimersForward, SessionInv, ReplayInv, NEW t \in RunTimes, RunSchedule(t)
    PROVE  ReplayInv'
<1>. SUFFICES ASSUME ~behind' PROVE ReplayInv'
  BY DEF ReplayInv
<1>. DEFINE R == Replay(accepted)
<1>1. /\ ~behind /\ accepted' = accepted /\ ran_to' = t /\ ran_to <= t
      /\ machine.output = Null /\ machine' = RunDue(machine, t)
  BY DEF RunSchedule, EvalSchedule
<1>2. accepted \in Seq(Witness) /\ ran_to \in Int /\ t \in Int
  BY RanToInt, SessionAssumption DEF SessionInv, Papers
<1>3. R \in Fresh /\ R.error = FALSE /\ machine = EvalSchedule(R, ran_to)
  BY <1>1, <1>2, FreshReplay DEF ReplayInv
<1>4. Replay(accepted') = R
  BY <1>1
<1>. HIDE DEF R
<1>5. R.output = Null /\ machine = RunDue(R, ran_to)
  BY <1>1, <1>3 DEF EvalSchedule
<1>6. RunDue(machine, t) = RunDue(R, t)
  BY <1>1, <1>2, <1>3, <1>5, RunTwice DEF Fresh
<1>. QED
  BY <1>1, <1>3, <1>4, <1>5, <1>6 DEF ReplayInv, EvalSchedule

LEMMA ReplayHolds ==
    ASSUME TimersForward
    PROVE  Spec => []ReplayInv
<1>1. Init => ReplayInv
  BY ReplayStarts
<1>2. SessionInv /\ ReplayInv /\ [Next]_vars => ReplayInv'
  <2>. SUFFICES ASSUME SessionInv, ReplayInv, [Next]_vars PROVE ReplayInv'
    OBVIOUS
  <2>1. CASE accepted' = accepted /\ machine' = machine /\ ran_to' = ran_to /\ behind' = behind
    BY <2>1 DEF ReplayInv
  <2>2. ASSUME NEW w \in drafts, Submit(w) PROVE ReplayInv'
    BY <2>2, ReplaySubmit
  <2>3. ASSUME NEW t \in RunTimes, RunSchedule(t) PROVE ReplayInv'
    BY <2>3, ReplayRun
  <2>. QED
    BY <2>1, <2>2, <2>3 DEF Next, vars, Create, Endorse
<1>. QED
  BY <1>1, <1>2, SessionHolds, PTL DEF Spec

\* The agent's machine is the one that anybody gets from the accepted statements
\* and the time the schedule was run to, however the two were interleaved, as
\* long as no statement was accepted behind that time (contract.ts, main.ts).
THEOREM Replays ==
    ASSUME TimersForward
    PROVE  Spec => []ReplayDecides
<1>1. ReplayInv => ReplayDecides
  BY DEF ReplayInv, ReplayDecides
<1>. QED
  BY <1>1, ReplayHolds, PTL

\* A receipt is of the machine that the statements up to it make.
LEMMA ReceiptIs ==
    ASSUME TimersForward, SessionInv, ReplayInv, ReceiptsReplay, NEW w \in drafts, Submit(w)
    PROVE  ReceiptsReplay'
<1>. DEFINE n == Len(accepted)
            c == CreateReceipt(machine', w)
            prefix(i) == SubSeq(accepted, 1, i)
            next(i) == SubSeq(accepted', 1, i)
<1>. SUFFICES ASSUME ~behind', NEW i \in DOMAIN receipts'
              PROVE  LET m == Replay(next(i)) IN
                     /\ receipts'[i] = CreateReceipt(m, accepted'[i])
                     /\ m.head # <<>> /\ Last(m.head) = WitnessInput(accepted'[i]) =>
                          VerifyWitnessReceipt(receipts'[i], accepted'[i], m)
  BY DEF ReceiptsReplay
<1>1. /\ ~behind /\ accepted' = Append(accepted, w) /\ receipts' = Append(receipts, c)
      /\ machine' = Replay(accepted')
  BY SubmitReplays DEF Submit
<1>2. /\ accepted \in Seq(Witness) /\ receipts \in Seq(Receipt) /\ Len(receipts) = n
      /\ w \in Witness /\ c \in Receipt /\ n \in Nat
  <2>1. w \in Witness /\ c \in Receipt
    BY SubmitIs
  <2>. HIDE DEF c
  <2>2. accepted \in Seq(Witness) /\ receipts \in Seq(Receipt) /\ Len(receipts) = n
    BY DEF SessionInv, Papers
  <2>. QED
    BY <2>1, <2>2
<1>3. /\ DOMAIN receipts' = 1..(n + 1) /\ DOMAIN receipts = 1..n
      /\ accepted' \in Seq(Witness) /\ Len(accepted') = n + 1
      /\ accepted'[n + 1] = w /\ receipts'[n + 1] = c
      /\ \A k \in 1..n : accepted'[k] = accepted[k] /\ receipts'[k] = receipts[k]
  <2>. HIDE DEF c
  <2>. QED
    BY <1>1, <1>2, AppendProperties
<1>4. CASE i \in 1..n
  <2>1. next(i) = prefix(i)
    <3>1. /\ Len(next(i)) = i /\ Len(prefix(i)) = i
          /\ next(i) \in Seq(Witness) /\ prefix(i) \in Seq(Witness)
          /\ \A k \in 1..i : next(i)[k] = accepted'[k] /\ prefix(i)[k] = accepted[k]
      BY <1>2, <1>3, <1>4, SubSeqProperties
    <3>2. \A k \in 1..i : accepted'[k] = accepted[k]
      BY <1>2, <1>3, <1>4
    <3>. HIDE DEF next, prefix
    <3>. QED
      BY <3>1, <3>2, SeqEqual
  <2>2. LET m == Replay(prefix(i)) IN
        /\ receipts[i] = CreateReceipt(m, accepted[i])
        /\ m.head # <<>> /\ Last(m.head) = WitnessInput(accepted[i]) =>
             VerifyWitnessReceipt(receipts[i], accepted[i], m)
    BY <1>1, <1>3, <1>4 DEF ReceiptsReplay
  <2>. HIDE DEF next, prefix
  <2>. QED
    BY <1>3, <1>4, <2>1, <2>2
<1>5. CASE i = n + 1
  <2>1. next(i) = accepted'
    <3>1. /\ Len(next(i)) = n + 1 /\ next(i) \in Seq(Witness)
          /\ \A k \in 1..(n + 1) : next(i)[k] = accepted'[k]
      BY <1>2, <1>3, <1>5, SubSeqProperties
    <3>. HIDE DEF next
    <3>. QED
      BY <1>3, <3>1, SeqEqual
  <2>2. Replay(next(i)) = machine' /\ accepted'[i] = w /\ receipts'[i] = c
    <3>. HIDE DEF next
    <3>. QED
      BY <1>1, <1>3, <1>5, <2>1
  <2>3. ASSUME machine'.head # <<>>, Last(machine'.head) = WitnessInput(w)
        PROVE  machine'.commit_at = w.stamp
    <3>1. Dated(machine')
      BY SubmitIs DEF Good
    <3>2. machine'.head[Len(machine'.head)] = WitnessInput(w)
      BY <2>3 DEF Last
    <3>. QED
      BY <2>3, <3>1, <3>2 DEF Dated, WitnessInput
  <2>4. machine'.head # <<>> /\ Last(machine'.head) = WitnessInput(w) =>
           VerifyWitnessReceipt(c, w, machine')
    BY <2>3 DEF VerifyWitnessReceipt, CreateReceipt
  <2>. HIDE DEF next, c
  <2>. QED
    BY <2>2, <2>4 DEF c
<1>. QED
  BY <1>2, <1>3, <1>4, <1>5

\* Each receipt is what a member computes from the statements up to it: the
\* machine the agent signed, with the schedule run in between or not, is that of
\* their replay (witness.ts; settle.test.ts line 266).
THEOREM Receipts ==
    ASSUME TimersForward
    PROVE  Spec => []ReceiptsReplay
<1>1. Init => ReceiptsReplay
  BY DEF Init, ReceiptsReplay
<1>2. SessionInv /\ ReplayInv /\ ReceiptsReplay /\ [Next]_vars => ReceiptsReplay'
  <2>. SUFFICES ASSUME SessionInv, ReplayInv, ReceiptsReplay, [Next]_vars PROVE ReceiptsReplay'
    OBVIOUS
  <2>1. CASE accepted' = accepted /\ receipts' = receipts /\ behind' = behind
    BY <2>1 DEF ReceiptsReplay
  <2>2. ASSUME NEW w \in drafts, Submit(w) PROVE ReceiptsReplay'
    BY <2>2, ReceiptIs
  <2>. QED
    BY <2>1, <2>2 DEF Next, vars, Create, Endorse, RunSchedule
<1>. QED
  BY <1>1, <1>2, SessionHolds, ReplayHolds, PTL DEF Spec

\* A machine that a task, if anything, has decided.
ByTask == {m \in Good : m.output # Null => m.head # <<>> /\ Last(m.head).wid = Vmid}

LEMMA ByTaskStays == TasksStay(ByTask)
<1>1. ASSUME NEW m \in ByTask, NEW t \in Task, NEW action, NEW path, Tries(action, path)
      PROVE  TryInput(m, TaskInput(t, action, path)) \in ByTask
  <2>. DEFINE input == TaskInput(t, action, path)
  <2>1. TryInput(m, input) \in Good
    BY <1>1, GoodTasks DEF TasksStay, UpdatesStay, ByTask
  <2>2. CASE m.output = Null /\ Accepts(m, input)
    <3>1. m \in Machine /\ m.head \in Seq(Input)
      BY DEF ByTask, Good, Machine
    <3>2. input \in Input /\ input.wid = Vmid
      BY <1>1, <2>2, TriedInput
    <3>. HIDE DEF input
    <3>3. TryInput(m, input).head = Append(m.head, input)
      BY <2>2, <3>1 DEF TryInput, UpdateVMState, Machine
    <3>4. Append(m.head, input) # <<>> /\ Last(Append(m.head, input)) = input
      BY <3>1, <3>2, AppendProperties DEF Last
    <3>. QED
      BY <2>1, <3>2, <3>3, <3>4 DEF ByTask, input
  <2>3. CASE ~(m.output = Null /\ Accepts(m, input))
    BY <2>3 DEF TryInput
  <2>. QED
    BY <2>2, <2>3
<1>2. ASSUME NEW m \in ByTask PROVE Shifted(m) \in ByTask
  <2>1. Shifted(m) \in Good
    BY GoodTasks DEF TasksStay, ShiftsStay, ByTask
  <2>2. Shifted(m).head = m.head /\ Shifted(m).output = m.output
    <3>1. m \in Machine
      BY DEF ByTask, Good
    <3>. QED
      BY <3>1 DEF Shifted, Machine
  <2>. QED
    BY <2>1, <2>2 DEF ByTask
<1>. QED
  BY <1>1, <1>2 DEF TasksStay, ShiftsStay, UpdatesStay

\* A machine that a statement decided is the replay's.
LEMMA DecidedIs ==
    ASSUME TimersForward, SessionInv, ReplayInv, ByStatement
    PROVE  machine = Replay(accepted)
<1>. DEFINE R == Replay(accepted)
<1>1. R \in Good /\ R.tasks \in Seq(Task)
  <2>1. accepted \in Seq(Witness)
    BY DEF SessionInv, Papers
  <2>. QED
    BY <2>1, FreshReplay DEF Fresh, Good, Machine
<1>2. machine = EvalSchedule(R, ran_to)
  BY DEF ReplayInv, ByStatement
<1>. HIDE DEF R
<1>3. R.output # Null
  <2>1. SUFFICES ASSUME R.output = Null PROVE FALSE
    OBVIOUS
  <2>2. machine = RunDue(R, ran_to)
    BY <1>2, <2>1 DEF EvalSchedule
  <2>3. machine \in ByTask
    BY <1>1, <2>1, <2>2, ByTaskStays, DueStays DEF ByTask
  <2>. QED
    BY <2>3 DEF ByTask, ByStatement
<1>. QED
  BY <1>2, <1>3 DEF EvalSchedule, R

\* If a statement decided the machine, verify_contract_execution() passes for
\* whoever has the statements (settle.test.ts ends on this).
THEOREM Verifies ==
    ASSUME TimersForward
    PROVE  Spec => []StatementsVerify
<1>1. SessionInv /\ ReplayInv => StatementsVerify
  BY DecidedIs DEF StatementsVerify, VerifyContractExecution, SameExecution
<1>. QED
  BY <1>1, SessionHolds, ReplayHolds, PTL

-----------------------------------------------------------------------------
(* The statements as one array.                                             *)

InOrder(ws) == \A i, j \in DOMAIN ws : i < j => ws[i].stamp <= ws[j].stamp

\* Statements in order are sorted already.
LEMMA SortedStays ==
    ASSUME NEW ws \in Seq(Witness), InOrder(ws)
    PROVE  GetStatements(ws) = ws
<1>. DEFINE n   == Len(ws)
            key == [i \in DOMAIN ws |-> ws[i].stamp]
            Place(k) == CHOOSE i \in DOMAIN ws : Rank(key, i) = k
<1>1. n \in Nat /\ DOMAIN ws = 1..n /\ ws \in [1..n -> Witness]
  OBVIOUS
<1>2. \A i \in 1..n : ws[i].stamp \in Int
  BY <1>1 DEF Witness
<1>3. key \in [1..n -> Int] /\ DOMAIN key = 1..n /\ \A i \in 1..n : key[i] = ws[i].stamp
  BY <1>1, <1>2
<1>4. \A i, j \in 1..n : i < j => key[i] <= key[j]
  BY <1>1, <1>3 DEF InOrder
<1>. HIDE DEF key
<1>5. ASSUME NEW i \in 1..n PROVE Rank(key, i) = i
  <2>1. Predecessors(key, i) = 1..(i - 1)
    <3>1. ASSUME NEW j \in 1..n PROVE Before(key, j, i) <=> j < i
      BY <1>1, <1>3, <1>4, <1>5, <3>1 DEF Before
    <3>. QED
      BY <1>1, <1>3, <3>1 DEF Predecessors
  <2>2. Cardinality(1..(i - 1)) = i - 1
    BY <1>1, FS_Interval
  <2>3. Rank(key, i) = Cardinality(Predecessors(key, i)) + 1
    BY DEF Rank, Predecessors
  <2>. QED
    BY <1>1, <2>1, <2>2, <2>3
<1>6. \A k \in 1..n : Place(k) = k
  BY <1>5
<1>7. SortBy(ws, key) = [k \in 1..n |-> ws[Place(k)]]
  BY <1>1 DEF SortBy
<1>. HIDE DEF Place
<1>8. SortBy(ws, key) = [k \in 1..n |-> ws[k]]
  BY <1>6, <1>7
<1>. QED
  BY <1>1, <1>8 DEF GetStatements, key

\* The last statement comes last.
LEMMA BatchAppend ==
    ASSUME NEW ws \in Seq(Witness), NEW w \in Witness, InOrder(Append(ws, w))
    PROVE  /\ InOrder(ws)
           /\ EvalResult(InitVM, Append(ws, w)) = EvalStatement(EvalResult(InitVM, ws), w)
<1>. DEFINE vs == Append(ws, w)
            n  == Len(ws)
<1>1. /\ n \in Nat /\ vs \in Seq(Witness) /\ Len(vs) = n + 1
      /\ \A k \in 1..n : vs[k] = ws[k]
      /\ vs[n + 1] = w /\ DOMAIN ws = 1..n /\ DOMAIN vs = 1..(n + 1)
  BY AppendProperties
<1>2. InOrder(vs)
  OBVIOUS
<1>. HIDE DEF vs, n
<1>3. InOrder(ws)
  BY <1>1, <1>2 DEF InOrder
<1>4. GetStatements(ws) = ws /\ GetStatements(vs) = vs
  BY <1>1, <1>2, <1>3, SortedStays
<1>5. Begin(InitVM) \in Results(Good)
  BY InitVMGood, BeginGood
<1>6. ASSUME NEW us \in Seq(Witness) PROVE StatementsClosed(Results(Good), us)
  <2>1. \A k \in DOMAIN us : us[k] \in Witness
    OBVIOUS
  <2>2. \A r \in Results(Good), x \in Witness : EvalStatement(r, x) \in Results(Good)
    BY GoodTasks, GoodPrograms, StatementStays
  <2>. QED
    BY <2>1, <2>2 DEF StatementsClosed
<1>7. PICK P : OverStatements(P, Results(Good), InitVM, ws)
  BY <1>4, <1>5, <1>6, StatementSteps
<1>8. PICK Q : OverStatements(Q, Results(Good), InitVM, vs)
  BY <1>1, <1>4, <1>5, <1>6, StatementSteps
<1>. DEFINE S == {k \in 0..n : P[k] = Q[k]}
<1>9. 0 \in S
  BY <1>1, <1>7, <1>8 DEF OverStatements
<1>10. ASSUME NEW k \in 1..n, k - 1 \in S PROVE k \in S
  <2>1. k \in 1..(n + 1) /\ vs[k] = ws[k] /\ k \in 0..n
    BY <1>1
  <2>2. P[k] = EvalStatement(P[k - 1], ws[k])
    BY <1>4, <1>7 DEF OverStatements, n
  <2>3. Q[k] = EvalStatement(Q[k - 1], vs[k])
    BY <1>1, <1>4, <1>8, <2>1 DEF OverStatements
  <2>4. P[k - 1] = Q[k - 1]
    BY <1>10
  <2>. QED
    BY <2>1, <2>2, <2>3, <2>4
<1>11. Climbs(S, n)
  BY <1>9, <1>10 DEF Climbs
<1>12. \A k \in 0..n : k \in S
  <2>. HIDE DEF S
  <2>. QED  BY <1>1, <1>11, Climb
<1>13. P[n] = Q[n]
  <2>1. n \in 0..n
    BY <1>1
  <2>. QED
    BY <1>12, <2>1
<1>14. Q[n + 1] = EvalStatement(Q[n], w)
  <2>1. n + 1 \in 1..(n + 1) /\ (n + 1) - 1 = n
    BY <1>1
  <2>2. Q[n + 1] = EvalStatement(Q[(n + 1) - 1], vs[n + 1])
    BY <1>1, <1>4, <1>8, <2>1 DEF OverStatements
  <2>. QED
    BY <1>1, <2>1, <2>2
<1>15. EvalResult(InitVM, ws) = P[n] /\ EvalResult(InitVM, vs) = Q[n + 1]
  BY <1>1, <1>4, <1>7, <1>8 DEF OverStatements, n
<1>. QED
  BY <1>3, <1>13, <1>14, <1>15 DEF vs

HasClose(m) == \E i \in 1..Len(m.head) : m.head[i].action = "close"

\* The machines that closed by an output or by a close; with b, by a close.
Closing(b) ==
    {m \in Good : /\ b => HasClose(m)
                  /\ m.closed /\ m.output = Null => HasClose(m)}

LEMMA UpdateClosing ==
    ASSUME NEW b, NEW m \in Closing(b), NEW input \in Input, Accepts(m, input),
           m.output = Null, UpdateVMState(m, input) \in Good
    PROVE  UpdateVMState(m, input) \in Closing(b)
<1>. DEFINE u     == UpdateVMState(m, input)
            final == UpdatedStatus(m, input) \in {"closed", "spent"}
<1>1. m \in Machine /\ m.head \in Seq(Input)
  BY DEF Closing, Good, Machine
<1>2. /\ u.head = Append(m.head, input)
      /\ u.closed = (m.closed \/ final)
      /\ u.output = IF final THEN input.path ELSE m.output
  BY <1>1 DEF UpdateVMState, Machine
<1>. HIDE DEF u
<1>3. /\ Len(u.head) = Len(m.head) + 1 /\ Len(m.head) \in Nat
      /\ \A i \in 1..Len(m.head) : u.head[i] = m.head[i]
      /\ u.head[Len(m.head) + 1] = input
  BY <1>1, <1>2, AppendProperties
<1>4. HasClose(m) \/ input.action = "close" => HasClose(u)
  BY <1>3 DEF HasClose
<1>5. input.action # "close" => input.path # Null
  <2>1. input.action # "close" => input.path \in PathSet
    BY DEF Accepts, KnownTarget
  <2>. QED
    BY <2>1, TermsAssumption
<1>6. u.closed /\ u.output = Null => HasClose(u)
  BY <1>2, <1>4, <1>5 DEF Closing
<1>. QED
  BY <1>4, <1>6 DEF Closing, u

LEMMA ClosingTasks == ASSUME NEW b PROVE TasksStay(Closing(b))
<1>1. ASSUME NEW m \in Closing(b), NEW t \in Task, NEW action, NEW path, Tries(action, path)
      PROVE  TryInput(m, TaskInput(t, action, path)) \in Closing(b)
  <2>1. TryInput(m, TaskInput(t, action, path)) \in Good
    BY <1>1, GoodTasks DEF TasksStay, UpdatesStay, Closing
  <2>2. CASE m.output = Null /\ Accepts(m, TaskInput(t, action, path))
    <3>1. TaskInput(t, action, path) \in Input
      BY <1>1, <2>2, TriedInput
    <3>. QED
      BY <2>1, <2>2, <3>1, UpdateClosing DEF TryInput
  <2>3. CASE ~(m.output = Null /\ Accepts(m, TaskInput(t, action, path)))
    BY <2>3 DEF TryInput
  <2>. QED
    BY <2>2, <2>3
<1>2. ASSUME NEW m \in Closing(b) PROVE Shifted(m) \in Closing(b)
  <2>1. Shifted(m) \in Good
    BY GoodTasks DEF TasksStay, ShiftsStay, Closing
  <2>2. Shifted(m).head = m.head /\ Shifted(m).closed = m.closed /\ Shifted(m).output = m.output
    <3>1. m \in Machine
      BY DEF Closing, Good
    <3>. QED
      BY <3>1 DEF Shifted, Machine
  <2>. QED
    BY <2>1, <2>2 DEF Closing, HasClose
<1>. QED
  BY <1>1, <1>2 DEF TasksStay, ShiftsStay, UpdatesStay

LEMMA ClosingPrograms == ASSUME NEW b PROVE ProgramsStay(Closing(b))
<1>. SUFFICES ASSUME NEW m \in Closing(b), NEW w \in Witness, ~m.closed
              PROVE  RunProgram(m, w).m \in Closing(b)
  BY DEF ProgramsStay
<1>. DEFINE n     == AfterExec(m, w)
            input == WitnessInput(w)
            u     == UpdateVMState(n, input)
            e     == [n EXCEPT !.error = TRUE]
            p     == RunProgram(m, w)
<1>1. m \in Good /\ m \in Machine
  BY DEF Closing, Good
<1>2. p.m \in Good
  BY <1>1, ProgramGood
<1>3. /\ n.head = m.head /\ n.closed = m.closed /\ n.output = m.output
      /\ e.head = n.head /\ e.closed = n.closed /\ e.output = n.output
  <2>1. n \in {m, [m EXCEPT !.store = n.store]}
    BY <1>1 DEF AfterExec, Machine
  <2>. HIDE DEF n
  <2>. QED
    BY <1>1, <2>1 DEF Machine
<1>4. p.m \in {m, n, e} \/ (Loads(w) /\ Accepts(n, input) /\ p.m = u)
  <2>. HIDE DEF n, u, input, e
  <2>. QED
    BY ProgramResult DEF n, u, input, e
<1>5. CASE p.m \in {m, n, e}
  <2>. HIDE DEF n, e, p
  <2>. QED
    BY <1>2, <1>3, <1>5 DEF Closing, HasClose, p
<1>6. CASE Loads(w) /\ Accepts(n, input) /\ p.m = u
  <2>1. w.prog_id \in ProgIds /\ (w.path = Null <=> w.action \notin PATH_ACTIONS)
    BY <1>6 DEF Loads
  <2>2. n \in Machine
    BY <1>1, <2>1, AfterExecType DEF Good
  <2>3. n.paths = m.paths /\ n.commit_at = m.commit_at
    BY <1>1 DEF AfterExec, Machine
  <2>. HIDE DEF n
  <2>4. n \in Good
    BY <1>1, <1>3, <2>2, <2>3, SameLogGood
  <2>5. n \in Closing(b)
    BY <1>3, <2>4 DEF Closing, HasClose
  <2>6. input \in Input
    <3>1. /\ input.action = w.action /\ input.path = w.path
          /\ input = [action |-> w.action, path |-> w.path, stamp |-> w.stamp,
                      wid |-> w.prog_id]
      BY DEF WitnessInput
    <3>2. w.action = "close" => w.path = Null
      BY <2>1 DEF PATH_ACTIONS
    <3>3. w.path \in PathSet \cup {Null}
      BY <1>6, <3>1, <3>2 DEF Accepts, KnownTarget
    <3>. QED
      BY <2>1, <3>1, <3>3 DEF Input, Witness
  <2>7. n.output = Null
    BY <1>1, <1>3 DEF Good, Settled
  <2>8. u \in Good
    BY <1>2, <1>6
  <2>. HIDE DEF input, p
  <2>. QED
    BY <1>6, <2>5, <2>6, <2>7, <2>8, UpdateClosing DEF p
<1>. QED
  BY <1>4, <1>5, <1>6

LEMMA DueClosing ==
    ASSUME NEW b, NEW m \in Closing(b), NEW stop_at
    PROVE  EvalSchedule(m, stop_at) \in Closing(b)
<1>1. m.tasks \in Seq(Task)
  BY DEF Closing, Good, Machine
<1>. QED
  BY <1>1, ClosingTasks, DueStays DEF EvalSchedule

LEMMA WitnessClosing ==
    ASSUME NEW b, NEW m \in Closing(b), NEW ws \in Seq(Witness)
    PROVE  EvalWitness(m, ws) \in Closing(b)
<1>1. /\ Begin(m) \in Results(Good) /\ Begin(m).m.head = m.head
      /\ Begin(m).m.closed = m.closed /\ Begin(m).m.output = m.output
  BY BeginGood DEF Begin, Closing, Good, Machine
<1>2. Begin(m) \in Results(Closing(b))
  BY <1>1 DEF Results, Closing, HasClose
<1>3. Closing(b) \in SUBSET Good
  BY DEF Closing
<1>4. EvalResult(m, ws) \in Results(Closing(b))
  BY <1>2, <1>3, ClosingTasks, ClosingPrograms, ResultStays
<1>. QED
  BY <1>4 DEF EvalWitness, Results

LEMMA ReplayClosing ==
    ASSUME NEW ws \in Seq(Witness)
    PROVE  Replay(ws) \in Closing(FALSE)
<1>1. ReplayClosed(Closing(FALSE), ws)
  <2>1. ASSUME NEW x \in Closing(FALSE), NEW k \in DOMAIN ws
        PROVE  EvalWitness(x, <<ws[k]>>) \in Closing(FALSE)
    <3>1. <<ws[k]>> \in Seq(Witness)
      OBVIOUS
    <3>. QED
      BY <3>1, WitnessClosing
  <2>. QED
    BY <2>1 DEF ReplayClosed
<1>2. InitVM \in Closing(FALSE)
  <2>1. InitVM \in Good /\ InitVM.closed = FALSE
    BY InitVMGood DEF InitVM
  <2>. QED
    BY <2>1 DEF Closing
<1>3. PICK P : OverReplay(P, Closing(FALSE), ws)
  BY <1>1, <1>2, ReplaySteps
<1>4. Len(ws) \in 0..Len(ws)
  OBVIOUS
<1>. QED
  BY <1>3, <1>4 DEF OverReplay

\* A statement without an error ends the loop by closing the machine alone.
LEMMA FlowIs ==
    ASSUME NEW m \in Good, NEW w \in Witness,
           NEW r, r = EvalStatement([m |-> m, flow |-> "next"], w),
           r.flow # "throw", r.m.error = FALSE
    PROVE  r = [m |-> r.m, flow |-> IF r.m.closed THEN "end" ELSE "next"]
<1>. DEFINE n == RunDue(m, w.stamp)
            a == AfterExec(n, w)
            u == UpdateVMState(a, WitnessInput(w))
            e == [a EXCEPT !.error = TRUE]
<1>1. n \in Machine
  BY DueGood DEF Good
<1>2. r = IF n.closed THEN [m |-> n, flow |-> "end"] ELSE RunProgram(n, w)
  BY DEF EvalStatement
<1>. HIDE DEF n
<1>3. a.closed = n.closed
  BY <1>1 DEF AfterExec, Machine
<1>4. Loads(w) => e.error = TRUE
  <2>1. Loads(w) => w.prog_id \in ProgIds
    BY DEF Loads
  <2>2. a \in {n, [n EXCEPT !.store = a.store]}
    BY <1>1 DEF AfterExec, Machine
  <2>. HIDE DEF a
  <2>. QED
    BY <1>1, <2>2 DEF Machine
<1>5. CASE n.closed
  BY <1>2, <1>5
<1>6. CASE ~n.closed
  <2>1. \/ r = [m |-> n, flow |-> "throw"]
        \/ Loads(w) /\ r = [m |-> e, flow |-> "end"]
        \/ r = [m |-> a, flow |-> "next"]
        \/ r = [m |-> u, flow |-> IF u.closed THEN "end" ELSE "next"]
    <3>1. r = RunProgram(n, w)
      BY <1>2, <1>6
    <3>. HIDE DEF a, u, e
    <3>. QED
      BY <3>1, ProgramResult DEF a, u, e
  <2>. HIDE DEF a, u, e
  <2>. QED
    BY <1>3, <1>4, <1>6, <2>1
<1>. QED
  BY <1>5, <1>6

\* The array comes to the replay's machine, and the loop has not stopped on it
\* unless there is an output.
BatchIs(ws) ==
    EvalResult(InitVM, ws) =
        [m |-> Replay(ws), flow |-> IF Replay(ws).output = Null THEN "next" ELSE "end"]


-----------------------------------------------------------------------------
(* A machine whose schedule ran ahead of a statement: the tasks that it was *)
(* too early for are too late for the replay.                               *)

\* None of the updates that an action of a task stands for goes through on m,
\* save those that resolve.
RefusesAction(m, t, action) ==
    IF action \in PATH_ACTIONS
    THEN \A k \in DOMAIN TaskPaths(t) :
            Accepts(m, TaskInput(t, action, TaskPaths(t)[k])) => action = "resolve"
    ELSE ~Accepts(m, TaskInput(t, action, Null))

Refuses(m, t) == \A k \in DOMAIN TaskActions(t) : RefusesAction(m, t, TaskActions(t)[k])

\* The machine n is m, with the first tasks taken off that m refuses.
Trails(n, m) ==
    /\ n = [m EXCEPT !.tasks = n.tasks]
    /\ \E d \in 0..Len(m.tasks) :
          /\ n.tasks = Rest(m.tasks, d)
          /\ \A k \in 1..d : Refuses(m, m.tasks[k])

LEMMA TrailsItself == ASSUME NEW m \in Good PROVE Trails(m, m)
<1>1. m \in Machine /\ m.tasks \in Seq(Task)
  BY DEF Good, Machine
<1>2. m = [m EXCEPT !.tasks = m.tasks]
  BY <1>1 DEF Machine
<1>3. Rest(m.tasks, 0) = m.tasks /\ 0 \in 0..Len(m.tasks) /\ 1..0 = {}
  <2>1. Len(m.tasks) \in Nat /\ 0 \in 0..Len(m.tasks)
    BY <1>1
  <2>. QED
    BY <1>1, <2>1, RestIs
<1>. QED
  BY <1>2, <1>3 DEF Trails

\* What is refused depends on the paths, the status and the time alone.
LEMMA RefusesSame ==
    ASSUME NEW m, NEW n, n.paths = m.paths, n.status = m.status, n.commit_at = m.commit_at,
           NEW t, Refuses(m, t)
    PROVE  Refuses(n, t)
<1>1. \A input : Accepts(n, input) <=> Accepts(m, input)
  BY DEF Accepts, CheckUpdateStamp
<1>. QED
  BY <1>1 DEF Refuses, RefusesAction

\* An update that neither closes nor decides a machine makes it accept nothing
\* but what resolves (action.ts).
LEMMA AcceptsLess ==
    ASSUME NEW m \in Good, NEW input \in Input, Accepts(m, input), input.action # "close",
           NEW n, n = UpdateVMState(m, input), n.output = Null,
           NEW x, x.stamp \in Int, Accepts(n, x), x.action # "resolve"
    PROVE  Accepts(m, x)
<1>. DEFINE final == UpdatedStatus(m, input) \in {"closed", "spent"}
<1>1. m \in Machine
  BY DEF Good
<1>2. /\ n.paths = UpdatedPaths(m, input) /\ n.commit_at = input.stamp
      /\ n.output = IF final THEN input.path ELSE m.output
      /\ m.commit_at <= input.stamp
  BY <1>1, UpdateFields
<1>3. /\ input.action \in PATH_ACTIONS /\ input.path \in PathSet
      /\ PathActionAllowed(input.action, m.paths[input.path], m.status)
  BY DEF Accepts, KnownTarget
<1>4. ~final
  BY <1>2, <1>3, TermsAssumption
<1>5. PathActionResult(input.action) # "spent"
  BY <1>4 DEF UpdatedStatus, UpdatePathVMStatus
<1>6. input.action \in {"lock", "dispute"}
  BY <1>3, <1>5 DEF PathActionAllowed, PathActionResult, PATH_ACTIONS
<1>7. /\ input.action = "lock" => PathActionResult(input.action) = "locked"
      /\ input.action = "dispute" => PathActionResult(input.action) = "disputed"
  BY DEF PathActionResult
<1>8. m.commit_at <= x.stamp /\ x.stamp < ExpiresAt
  <2>1. m.commit_at \in Int /\ input.stamp \in Int
    BY <1>1 DEF Machine, Input
  <2>2. n.commit_at <= x.stamp /\ x.stamp < ExpiresAt
    BY DEF Accepts, CheckUpdateStamp
  <2>. QED
    BY <1>2, <2>1, <2>2
<1>9. CASE x.action = "close"
  BY <1>8, <1>9 DEF Accepts, CheckUpdateStamp
<1>10. CASE x.action # "close"
  <2>1. /\ x.action \in PATH_ACTIONS /\ x.path \in PathSet
        /\ PathActionAllowed(x.action, n.paths[x.path], n.status)
    BY <1>10 DEF Accepts, KnownTarget
  <2>2. x.action \in {"spend", "lock", "dispute"}
    BY <2>1 DEF PathActionAllowed, PATH_ACTIONS
  <2>3. n.paths = [m.paths EXCEPT ![input.path] = PathActionResult(input.action)]
    BY <1>2 DEF UpdatedPaths
  <2>4. CASE x.path # input.path
    <3>1. n.paths[x.path] = m.paths[x.path]
      BY <1>1, <2>1, <2>3, <2>4 DEF Machine
    <3>2. PathActionAllowed(x.action, m.paths[x.path], m.status)
      BY <2>1, <2>2, <3>1 DEF PathActionAllowed
    <3>. QED
      BY <1>8, <2>1, <3>2 DEF Accepts, KnownTarget, CheckUpdateStamp
  <2>5. CASE x.path = input.path
    <3>1. n.paths[x.path] = PathActionResult(input.action)
      BY <1>1, <1>3, <2>3, <2>5 DEF Machine
    <3>2. x.action = "dispute" /\ input.action = "lock"
      BY <1>6, <1>7, <2>1, <2>2, <3>1 DEF PathActionAllowed
    <3>3. m.paths[x.path] \notin {"locked", "disputed"}
      BY <1>3, <2>5, <3>2 DEF PathActionAllowed
    <3>4. PathActionAllowed(x.action, m.paths[x.path], m.status)
      BY <3>2, <3>3 DEF PathActionAllowed
    <3>. QED
      BY <1>8, <2>1, <3>4 DEF Accepts, KnownTarget, CheckUpdateStamp
  <2>. QED
    BY <2>4, <2>5
<1>. QED
  BY <1>9, <1>10

LEMMA UpdateRefuses ==
    ASSUME NEW m \in Good, NEW input \in Input, Accepts(m, input), input.action # "close",
           NEW n, n = UpdateVMState(m, input), n.output = Null,
           NEW t \in Task, Refuses(m, t)
    PROVE  Refuses(n, t)
<1>1. ASSUME NEW action, NEW path, Accepts(n, TaskInput(t, action, path)), action # "resolve"
      PROVE  Accepts(m, TaskInput(t, action, path))
  <2>. DEFINE x == TaskInput(t, action, path)
  <2>1. x.action = action /\ x.stamp \in Int
    BY TermsAssumption DEF TaskInput, Task
  <2>. HIDE DEF x
  <2>2. Accepts(m, x)
    BY <1>1, <2>1, AcceptsLess DEF x
  <2>. QED
    BY <2>2 DEF x
<1>2. ASSUME NEW action, RefusesAction(m, t, action) PROVE RefusesAction(n, t, action)
  <2>1. CASE action \in PATH_ACTIONS
    BY <1>1, <1>2, <2>1 DEF RefusesAction
  <2>2. CASE action \notin PATH_ACTIONS
    <3>1. action # "resolve"
      BY <2>2 DEF PATH_ACTIONS
    <3>. QED
      BY <1>1, <1>2, <2>2, <3>1 DEF RefusesAction
  <2>. QED
    BY <2>1, <2>2
<1>. QED
  BY <1>2 DEF Refuses

\* Such a task leaves a machine as it is, or resolves it.
LEMMA RefusedTask ==
    ASSUME NEW m \in Good, NEW t \in Task, Refuses(m, t)
    PROVE  RunTask(m, t).output # Null \/ RunTask(m, t) = Shifted(m)
<1>. DEFINE D == {x \in Good : x.output # Null \/ x = m}
<1>1. ASSUME NEW x \in D, NEW action \in PATH_ACTIONS, RefusesAction(m, t, action),
             NEW k \in DOMAIN TaskPaths(t)
      PROVE  TryInput(x, TaskInput(t, action, TaskPaths(t)[k])) \in D
  <2>. DEFINE input == TaskInput(t, action, TaskPaths(t)[k])
  <2>1. input.action = action /\ input.path = TaskPaths(t)[k]
    BY DEF TaskInput
  <2>2. TryInput(x, input) \in Good
    <3>1. Tries(action, TaskPaths(t)[k])
      BY LabelAssumption DEF Tries
    <3>. QED
      BY <3>1, GoodTasks DEF TasksStay, UpdatesStay
  <2>. HIDE DEF input
  <2>3. CASE ~(x.output = Null /\ Accepts(x, input))
    BY <2>3 DEF TryInput, input
  <2>4. CASE x.output = Null /\ Accepts(x, input)
    <3>1. x = m
      BY <2>4
    <3>2. input.action = "resolve"
      BY <1>1, <2>1, <2>4, <3>1 DEF RefusesAction, input
    <3>3. input.path \in PathSet
      BY <2>4, <3>2 DEF Accepts, KnownTarget
    <3>4. UpdateVMState(m, input).output = input.path
      <4>1. UpdatedStatus(m, input) = "spent"
        BY <3>2 DEF UpdatedStatus, PathActionResult, UpdatePathVMStatus
      <4>2. m \in Machine
        BY DEF Good
      <4>. QED
        BY <4>1, <4>2 DEF UpdateVMState, Machine
    <3>5. TryInput(x, input) = UpdateVMState(m, input)
      BY <2>4, <3>1 DEF TryInput
    <3>. QED
      BY <2>2, <3>3, <3>4, <3>5, TermsAssumption DEF input
  <2>. QED
    BY <2>3, <2>4
<1>2. ASSUME NEW x \in D, NEW action, RefusesAction(m, t, action) PROVE TryAction(x, t, action) \in D
  <2>1. CASE action \in PATH_ACTIONS
    <3>1. PathsClosed(D, t, action)
      <4>. HIDE DEF D
      <4>. QED
        BY <1>1, <1>2, <2>1 DEF PathsClosed
    <3>2. PICK P : OverPaths(P, D, x, t, action)
      <4>. HIDE DEF D
      <4>. QED
        BY <2>1, <3>1, PathSteps
    <3>3. Len(TaskPaths(t)) \in 0..Len(TaskPaths(t))
      <4>1. TaskPaths(t) \in Seq(STRING)
        BY TaskListsType
      <4>. QED
        BY <4>1
    <3>. QED
      BY <3>2, <3>3 DEF OverPaths
  <2>2. CASE action \notin PATH_ACTIONS
    <3>1. ~Accepts(m, TaskInput(t, action, Null))
      BY <1>2, <2>2 DEF RefusesAction
    <3>2. TryAction(x, t, action) = x
      BY <2>2, <3>1 DEF TryAction, TryInput
    <3>. QED
      BY <3>2
  <2>. QED
    BY <2>1, <2>2
<1>3. ActionsClosed(D, t)
  <2>. HIDE DEF D
  <2>. QED
    BY <1>2 DEF ActionsClosed, Refuses
<1>4. PICK P : OverActions(P, D, m, t)
  <2>1. m \in D
    OBVIOUS
  <2>. HIDE DEF D
  <2>. QED
    BY <1>3, <2>1, ActionSteps
<1>5. PICK n \in D : RunTask(m, t) = Shifted(n)
  <2>1. Len(TaskActions(t)) \in 0..Len(TaskActions(t))
    <3>1. TaskActions(t) \in Seq(STRING)
      BY TaskListsType
    <3>. QED
      BY <3>1
  <2>. HIDE DEF D
  <2>. QED
    BY <1>4, <2>1 DEF OverActions, Shifted
<1>6. n \in Machine
  BY DEF Good
<1>. QED
  BY <1>5, <1>6 DEF Shifted, Machine

LEMMA RestRest ==
    ASSUME NEW T \in Seq(Task), NEW d \in 0..Len(T), NEW e \in 0..d
    PROVE  /\ Len(Rest(T, e)) = Len(T) - e /\ d - e \in 0..Len(Rest(T, e))
           /\ \A i \in 1..(d - e) : Rest(T, e)[i] = T[e + i] /\ e + i \in 1..d
           /\ Rest(Rest(T, e), d - e) = Rest(T, d)
<1>1. /\ Len(T) \in Nat /\ d \in Nat /\ e \in Nat /\ Len(T) - e \in Nat /\ d - e \in Nat
      /\ d - e <= Len(T) - e /\ (Len(T) - e) - (d - e) = Len(T) - d
      /\ d \in 0..Len(T) /\ e \in 0..d
  OBVIOUS
<1>2. /\ Len(Rest(T, e)) = Len(T) - e
      /\ \A i \in 1..(Len(T) - e) : Rest(T, e)[i] = T[e + i]
  BY <1>1 DEF Rest
<1>3. \A i \in 1..(d - e) : i \in 1..(Len(T) - e) /\ e + i \in 1..d
  BY <1>1
<1>4. \A i \in 1..(Len(T) - d) : (d - e) + i \in 1..(Len(T) - e) /\ e + ((d - e) + i) = d + i
  BY <1>1
<1>5. Rest(Rest(T, e), d - e) = [i \in 1..(Len(T) - d) |-> Rest(T, e)[(d - e) + i]]
  <2>1. Len(Rest(T, e)) - (d - e) = Len(T) - d
    BY <1>1, <1>2
  <2>. QED
    BY <2>1 DEF Rest
<1>6. \A i \in 1..(Len(T) - d) : Rest(T, e)[(d - e) + i] = T[d + i]
  BY <1>2, <1>4
<1>7. Rest(Rest(T, e), d - e) = Rest(T, d)
  BY <1>5, <1>6 DEF Rest
<1>. QED
  BY <1>1, <1>2, <1>3, <1>7

\* Once there is an output, the rest of the run does nothing.
LEMMA RunEnds ==
    ASSUME NEW m \in Good, NEW s, NEW P, OverTasks(P, Good, m, s),
           NEW d \in 0..Len(m.tasks), P[d].output # Null
    PROVE  RunDue(m, s) = P[d]
<1>. DEFINE n == Len(m.tasks)
            U == {k \in 0..n : k >= d => P[k] = P[d]}
<1>1. n \in Nat /\ d \in 0..n
  BY DEF Good, Machine
<1>2. 0 \in U
  BY <1>1
<1>3. ASSUME NEW k \in 1..n, k - 1 \in U PROVE k \in U
  <2>1. P[k] = RunNext(P[k - 1], m.tasks[k], s)
    BY <1>3 DEF OverTasks
  <2>2. CASE k <= d
    BY <1>1, <2>2
  <2>3. CASE k > d
    <3>1. P[k - 1] = P[d]
      BY <1>1, <1>3, <2>3
    <3>2. P[k] = P[d]
      BY <2>1, <3>1 DEF RunNext
    <3>. QED
      BY <3>2
  <2>. QED
    BY <1>1, <2>2, <2>3
<1>. HIDE DEF n
<1>4. Climbs(U, n)
  BY <1>2, <1>3 DEF Climbs
<1>5. \A k \in 0..n : k \in U
  <2>. HIDE DEF U
  <2>. QED  BY <1>1, <1>4, Climb
<1>6. P[n] = P[d]
  <2>1. n \in 0..n /\ n >= d
    BY <1>1
  <2>. QED
    BY <1>5, <2>1
<1>. QED
  BY <1>6 DEF OverTasks, n

\* A replay that is run on comes to an output or to the machine that it trails.
LEMMA Catches ==
    ASSUME NEW m \in Fresh, NEW r \in Fresh, Trails(m, r), r.output = Null, NEW s \in Int
    PROVE  RunDue(r, s).output # Null \/ Trails(RunDue(m, s), RunDue(r, s))
<1>. DEFINE T == r.tasks
            n == Len(T)
            At(k) == [r EXCEPT !.tasks = Rest(T, k)]
<1>1. /\ m \in Good /\ r \in Good /\ r \in Machine /\ T \in Seq(Task) /\ n \in Nat
      /\ Timely(T) /\ Timely(m.tasks) /\ \A k \in 1..n : T[k] \in Task
  BY DEF Fresh, Good, Machine
<1>2. PICK d \in 0..n : /\ m.tasks = Rest(T, d)
                        /\ \A k \in 1..d : Refuses(r, T[k])
  BY DEF Trails
<1>3. m = At(d)
  BY <1>2 DEF Trails
<1>4. PICK e \in 0..n : DueTo(T, s, e)
  BY <1>1, DueUpTo
<1>5. PICK P : OverTasks(P, Good, r, s)
  BY <1>1, RunsGood
<1>6. \A k : /\ At(k).tasks = Rest(T, k) /\ At(k).paths = r.paths
             /\ At(k).status = r.status /\ At(k).commit_at = r.commit_at
             /\ At(k).output = Null
             /\ \A tasks : [At(k) EXCEPT !.tasks = tasks] = [r EXCEPT !.tasks = tasks]
  BY <1>1 DEF Machine
<1>. HIDE DEF T, n
<1>. DEFINE U == {k \in 0..n : (k <= d /\ k <= e) => (P[k].output # Null \/ P[k] = At(k))}
<1>7. 0 \in U
  <2>1. Rest(T, 0) = T /\ P[0] = r
    BY <1>1, <1>4, <1>5, RestIs DEF OverTasks, n
  <2>2. r = [r EXCEPT !.tasks = r.tasks]
    BY <1>1 DEF Machine
  <2>. QED
    BY <1>1, <2>1, <2>2 DEF T
<1>8. ASSUME NEW k \in 1..n, k - 1 \in U PROVE k \in U
  <2>. SUFFICES ASSUME k <= d, k <= e PROVE P[k].output # Null \/ P[k] = At(k)
    OBVIOUS
  <2>1. P[k] = RunNext(P[k - 1], T[k], s)
    BY <1>5 DEF OverTasks, T, n
  <2>2. Due(T[k], s)
    BY <1>4 DEF DueTo, n
  <2>3. P[k - 1].output # Null \/ P[k - 1] = At(k - 1)
    BY <1>1, <1>2, <1>4, <1>8
  <2>4. CASE P[k - 1].output # Null
    BY <2>1, <2>4 DEF RunNext
  <2>5. CASE P[k - 1].output = Null
    <3>. DEFINE x == P[k - 1]
    <3>1. x = At(k - 1) /\ x \in Good /\ P[k] = RunTask(x, T[k])
      <4>1. k - 1 \in 0..n
        BY <1>1
      <4>2. x \in Good
        BY <1>5, <4>1 DEF OverTasks, n, T
      <4>. QED
        BY <2>1, <2>2, <2>3, <2>5, <4>2 DEF RunNext
    <3>. HIDE DEF x, At
    <3>2. Refuses(x, T[k])
      <4>1. Refuses(r, T[k])
        BY <1>1, <1>2
      <4>. QED
        BY <1>6, <3>1, <4>1, RefusesSame
    <3>3. P[k].output # Null \/ P[k] = Shifted(x)
      BY <1>1, <3>1, <3>2, RefusedTask
    <3>4. x.tasks # <<>> /\ Tail(x.tasks) = Rest(T, k)
      <4>1. k \in 1..Len(T)
        BY DEF n
      <4>2. Rest(T, k - 1) # <<>> /\ Tail(Rest(T, k - 1)) = Rest(T, k)
        BY <1>1, <4>1, RestNext
      <4>. QED
        BY <1>6, <3>1, <4>2
    <3>5. Shifted(x) = [x EXCEPT !.tasks = Rest(T, k)]
      BY <3>4 DEF Shifted
    <3>6. Shifted(x) = At(k)
      BY <1>6, <3>1, <3>5 DEF At
    <3>. QED
      BY <3>3, <3>6
  <2>. QED
    BY <2>4, <2>5
<1>9. \A k \in 0..n : k \in U
  <2>1. Climbs(U, n)
    BY <1>7, <1>8 DEF Climbs
  <2>. HIDE DEF U
  <2>. QED  BY <1>1, <2>1, Climb
<1>. HIDE DEF At
<1>10. CASE e <= d
  <2>1. P[e].output # Null \/ P[e] = At(e)
    BY <1>9, <1>10
  <2>2. CASE P[e].output # Null
    BY <1>1, <1>4, <1>5, <2>2, RunEnds DEF T, n
  <2>3. CASE P[e] = At(e)
    <3>1. RunDue(r, s) = At(e)
      <4>1. n \in e..n
        BY <1>1, <1>4
      <4>2. \A k \in e..Len(r.tasks) : P[k] = P[e]
        BY <1>1, <1>4, <1>5, RunPrefix DEF T, n
      <4>. QED
        BY <1>5, <2>3, <4>1, <4>2 DEF OverTasks, T, n
    <3>2. /\ e \in 0..d /\ d \in 0..Len(T)
      BY <1>1, <1>2, <1>4, <1>10 DEF n
    <3>3. /\ d - e \in 0..Len(Rest(T, e)) /\ Rest(Rest(T, e), d - e) = Rest(T, d)
          /\ \A i \in 1..(d - e) : Rest(T, e)[i] = T[e + i] /\ e + i \in 1..d
      BY <1>1, <3>2, RestRest
    <3>4. RunDue(m, s) = m
      <4>1. ASSUME NEW k \in 1..Len(m.tasks) PROVE ~Due(m.tasks[k], s) /\ ~(k <= 0)
        <5>1. Len(m.tasks) = n - d /\ m.tasks[k] = T[d + k] /\ d + k \in 1..n
          BY <1>1, <1>2 DEF Rest, n
        <5>2. ~(d + k <= e)
          BY <1>1, <1>2, <1>4, <1>10
        <5>3. ~Due(T[d + k], s)
          BY <1>4, <5>1, <5>2 DEF DueTo, n
        <5>. QED
          BY <5>1, <5>3
      <4>2. DueTo(m.tasks, s, 0)
        BY <4>1 DEF DueTo
      <4>. QED
        BY <1>1, <4>2, RunNothing
    <3>5. \A k \in 1..(d - e) : Refuses(At(e), Rest(T, e)[k])
      <4>1. \A k \in 1..(d - e) : Refuses(r, Rest(T, e)[k])
        BY <1>2, <3>3
      <4>. QED
        BY <1>6, <4>1, RefusesSame
    <3>6. m = [At(e) EXCEPT !.tasks = m.tasks]
      BY <1>2, <1>3, <1>6 DEF At
    <3>7. Trails(m, At(e))
      BY <1>2, <1>6, <3>3, <3>5, <3>6 DEF Trails
    <3>. QED
      BY <3>1, <3>4, <3>7
  <2>. QED
    BY <2>1, <2>2, <2>3
<1>11. CASE ~(e <= d)
  <2>1. P[d].output # Null \/ P[d] = At(d)
    BY <1>1, <1>2, <1>4, <1>9, <1>11
  <2>2. CASE P[d].output # Null
    BY <1>1, <1>2, <1>5, <2>2, RunEnds DEF T, n
  <2>3. CASE P[d] = At(d)
    <3>1. P[d] = m /\ P[d].tasks = Rest(r.tasks, d)
      BY <1>2, <1>3, <2>3 DEF T
    <3>2. RunDue(m, s) = RunDue(r, s)
      BY <1>1, <1>2, <1>5, <3>1, RunGoesOn DEF n, T
    <3>3. RunDue(r, s) \in Good
      BY <1>1, DueGood
    <3>. QED
      BY <3>2, <3>3, TrailsItself
  <2>. QED
    BY <2>1, <2>2, <2>3
<1>. QED
  BY <1>10, <1>11

\* The machines that have committed something later than s.
Late(s) == {x \in Good : x.commit_at > s}

LEMMA LateTasks ==
    ASSUME NEW s \in Int
    PROVE  TasksStay(Late(s))
<1>1. ASSUME NEW m \in Late(s), NEW t \in Task, NEW action, NEW path, Tries(action, path)
      PROVE  TryInput(m, TaskInput(t, action, path)) \in Late(s)
  <2>. DEFINE input == TaskInput(t, action, path)
  <2>1. TryInput(m, input) \in Good /\ m \in Machine
    BY <1>1, GoodTasks DEF TasksStay, UpdatesStay, Late, Good
  <2>2. CASE m.output = Null /\ Accepts(m, input)
    <3>1. input \in Input
      BY <1>1, <2>2, TriedInput
    <3>. HIDE DEF input
    <3>2. UpdateVMState(m, input).commit_at = input.stamp /\ m.commit_at <= input.stamp
      BY <2>1, <2>2, <3>1, UpdateFields
    <3>3. input.stamp \in Int /\ m.commit_at \in Int /\ m.commit_at > s
      BY <2>1, <3>1 DEF Input, Machine, Late
    <3>4. TryInput(m, input) = UpdateVMState(m, input)
      BY <2>2 DEF TryInput
    <3>5. UpdateVMState(m, input).commit_at > s
      BY <3>2, <3>3
    <3>. QED
      BY <2>1, <3>4, <3>5 DEF Late, input
  <2>3. CASE ~(m.output = Null /\ Accepts(m, input))
    BY <2>3 DEF TryInput
  <2>. QED
    BY <2>2, <2>3
<1>2. ASSUME NEW m \in Late(s) PROVE Shifted(m) \in Late(s)
  <2>1. Shifted(m) \in Good
    BY GoodTasks DEF TasksStay, ShiftsStay, Late
  <2>2. Shifted(m).commit_at = m.commit_at
    BY DEF Shifted, Late, Good, Machine
  <2>. QED
    BY <2>1, <2>2 DEF Late
<1>. QED
  BY <1>1, <1>2 DEF TasksStay, ShiftsStay, UpdatesStay

\* An update of a task that falls due after s commits something later than s, or
\* it is refused.
LEMMA LateInput ==
    ASSUME NEW s \in Int, NEW m \in Good, m.output = Null,
           NEW t \in Task, t.at + ActiveAt > s,
           NEW action, NEW path, Tries(action, path)
    PROVE  \/ TryInput(m, TaskInput(t, action, path)) \in Late(s)
           \/ /\ TryInput(m, TaskInput(t, action, path)) = m
              /\ ~Accepts(m, TaskInput(t, action, path))
<1>. DEFINE input == TaskInput(t, action, path)
<1>1. input.stamp > s
  BY DEF TaskInput
<1>2. TryInput(m, input) \in Good /\ m \in Machine
  BY GoodTasks DEF TasksStay, UpdatesStay, Good
<1>3. CASE Accepts(m, input)
  <2>1. input \in Input
    BY <1>3, TriedInput
  <2>. HIDE DEF input
  <2>2. UpdateVMState(m, input).commit_at = input.stamp
    BY <1>2, <1>3, <2>1, UpdateFields
  <2>3. TryInput(m, input) = UpdateVMState(m, input)
    BY <1>3 DEF TryInput
  <2>. QED
    BY <1>1, <1>2, <2>2, <2>3 DEF Late, input
<1>4. CASE ~Accepts(m, input)
  BY <1>4 DEF TryInput
<1>. QED
  BY <1>3, <1>4

LEMMA LateAction ==
    ASSUME NEW s \in Int, NEW m \in Good, m.output = Null,
           NEW t \in Task, t.at + ActiveAt > s, NEW action \in STRING
    PROVE  \/ TryAction(m, t, action) \in Late(s)
           \/ TryAction(m, t, action) = m /\ RefusesAction(m, t, action)
<1>. DEFINE n == Len(TaskPaths(t))
            In(k) == TaskInput(t, action, TaskPaths(t)[k])
<1>1. n \in Nat /\ DOMAIN TaskPaths(t) = 1..n
  BY TaskListsType
<1>2. CASE action \in PATH_ACTIONS
  <2>1. \A k : Tries(action, TaskPaths(t)[k])
    BY <1>2 DEF Tries
  <2>2. PathsClosed(Good, t, action)
    BY <2>1, GoodTasks DEF PathsClosed, TasksStay, UpdatesStay
  <2>3. PICK P : OverPaths(P, Good, m, t, action)
    BY <1>2, <2>2, PathSteps
  <2>4. /\ P[0] = m /\ TryAction(m, t, action) = P[n]
        /\ \A k \in 1..n : P[k] = TryInput(P[k - 1], In(k))
    BY <2>3 DEF OverPaths
  <2>5. \A x \in Late(s), k \in 1..n : TryInput(x, In(k)) \in Late(s)
    BY <2>1, LateTasks DEF TasksStay, UpdatesStay
  <2>6. \A k \in 1..n : \/ TryInput(m, In(k)) \in Late(s)
                        \/ TryInput(m, In(k)) = m /\ ~Accepts(m, In(k))
    BY <2>1, LateInput
  <2>. HIDE DEF n, In
  <2>. DEFINE U == {k \in 0..n : \/ P[k] \in Late(s)
                                 \/ P[k] = m /\ \A j \in 1..k : ~Accepts(m, In(j))}
  <2>7. 0 \in U
    BY <1>1, <2>4
  <2>8. ASSUME NEW k \in 1..n, k - 1 \in U PROVE k \in U
    <3>1. k \in 0..n /\ \A j \in 1..k : j \in 1..(k - 1) \/ j = k
      BY <1>1
    <3>2. P[k] = TryInput(P[k - 1], In(k))
      BY <2>4
    <3>3. CASE P[k - 1] \in Late(s)
      BY <2>5, <3>1, <3>2, <3>3
    <3>4. CASE P[k - 1] = m /\ \A j \in 1..(k - 1) : ~Accepts(m, In(j))
      BY <2>6, <3>1, <3>2, <3>4
    <3>. QED
      BY <2>8, <3>3, <3>4
  <2>9. n \in U
    <3>1. Climbs(U, n) /\ n \in 0..n
      BY <1>1, <2>7, <2>8 DEF Climbs
    <3>. HIDE DEF U
    <3>. QED  BY <1>1, <3>1, Climb
  <2>10. CASE P[n] \in Late(s)
    BY <2>4, <2>10
  <2>11. CASE P[n] = m /\ \A j \in 1..n : ~Accepts(m, In(j))
    BY <1>1, <1>2, <2>4, <2>11 DEF RefusesAction, In
  <2>. QED
    BY <2>9, <2>10, <2>11
<1>3. CASE action \notin PATH_ACTIONS
  <2>1. Tries(action, Null) /\ TryAction(m, t, action) = TryInput(m, TaskInput(t, action, Null))
    BY <1>3 DEF Tries, TryAction
  <2>. QED
    BY <1>3, <2>1, LateInput DEF RefusesAction
<1>. QED
  BY <1>2, <1>3

LEMMA LateTask ==
    ASSUME NEW s \in Int, NEW m \in Good, m.output = Null,
           NEW t \in Task, t.at + ActiveAt > s
    PROVE  \/ RunTask(m, t) \in Late(s)
           \/ RunTask(m, t) = Shifted(m) /\ Refuses(m, t)
<1>. DEFINE n == Len(TaskActions(t))
            A(k) == TaskActions(t)[k]
<1>1. n \in Nat /\ DOMAIN TaskActions(t) = 1..n /\ \A k \in 1..n : A(k) \in STRING
  BY TaskListsType
<1>2. UpdatesStay(Good, t) /\ UpdatesStay(Late(s), t) /\ ShiftsStay(Late(s))
  BY GoodTasks, LateTasks DEF TasksStay
<1>3. PICK P : OverActions(P, Good, m, t)
  BY <1>2, UpdatesClose, ActionSteps
<1>4. /\ P[0] = m /\ RunTask(m, t) = Shifted(P[n])
      /\ \A k \in 1..n : P[k] = TryAction(P[k - 1], t, A(k))
  BY <1>3 DEF OverActions, Shifted
<1>5. \A x \in Late(s), k \in 1..n : TryAction(x, t, A(k)) \in Late(s)
  BY <1>1, <1>2, ActionStays
<1>6. \A k \in 1..n : \/ TryAction(m, t, A(k)) \in Late(s)
                      \/ TryAction(m, t, A(k)) = m /\ RefusesAction(m, t, A(k))
  BY <1>1, LateAction
<1>. HIDE DEF n, A
<1>. DEFINE U == {k \in 0..n : \/ P[k] \in Late(s)
                               \/ P[k] = m /\ \A j \in 1..k : RefusesAction(m, t, A(j))}
<1>7. 0 \in U
  BY <1>1, <1>4
<1>8. ASSUME NEW k \in 1..n, k - 1 \in U PROVE k \in U
  <2>1. k \in 0..n /\ \A j \in 1..k : j \in 1..(k - 1) \/ j = k
    BY <1>1
  <2>2. P[k] = TryAction(P[k - 1], t, A(k))
    BY <1>4
  <2>3. CASE P[k - 1] \in Late(s)
    BY <1>5, <2>1, <2>2, <2>3
  <2>4. CASE P[k - 1] = m /\ \A j \in 1..(k - 1) : RefusesAction(m, t, A(j))
    BY <1>6, <2>1, <2>2, <2>4
  <2>. QED
    BY <1>8, <2>3, <2>4
<1>9. n \in U
  <2>1. Climbs(U, n) /\ n \in 0..n
    BY <1>1, <1>7, <1>8 DEF Climbs
  <2>. HIDE DEF U
  <2>. QED  BY <1>1, <2>1, Climb
<1>10. CASE P[n] \in Late(s)
  BY <1>2, <1>4, <1>10 DEF ShiftsStay
<1>11. CASE P[n] = m /\ \A j \in 1..n : RefusesAction(m, t, A(j))
  BY <1>1, <1>4, <1>11 DEF Refuses, A
<1>. QED
  BY <1>9, <1>10, <1>11

\* A machine that is run on from s without committing anything later than s has
\* refused the tasks that it took off.
LEMMA RunIdle ==
    ASSUME NEW s \in Int, NEW t \in Int, NEW m \in Good, Timely(m.tasks), m.output = Null,
           DueTo(m.tasks, s, 0), ~(RunDue(m, t).commit_at > s)
    PROVE  Trails(RunDue(m, t), m)
<1>. DEFINE T == m.tasks
            n == Len(T)
            At(k) == [m EXCEPT !.tasks = Rest(T, k)]
<1>1. /\ m \in Machine /\ T \in Seq(Task) /\ n \in Nat /\ Timely(T)
      /\ \A k \in 1..n : T[k] \in Task /\ T[k].at \in Nat
  BY DEF Good, Machine, Timely
<1>2. PICK d \in 0..n : DueTo(T, t, d)
  BY <1>1, DueUpTo
<1>3. PICK P : OverTasks(P, Good, m, t)
  BY RunsGood
<1>4. RunDue(m, t) = P[d]
  <2>1. n \in d..n
    BY <1>1, <1>2
  <2>2. d \in 0..Len(m.tasks) /\ DueTo(m.tasks, t, d)
    BY <1>2
  <2>. HIDE DEF T, n
  <2>3. \A k \in d..Len(m.tasks) : P[k] = P[d]
    BY <1>3, <2>2, RunPrefix
  <2>. QED
    BY <1>3, <2>1, <2>3 DEF OverTasks, T, n
<1>5. \A k : /\ At(k).tasks = Rest(T, k) /\ At(k).paths = m.paths
             /\ At(k).status = m.status /\ At(k).commit_at = m.commit_at
             /\ At(k).output = Null
             /\ \A tasks : [At(k) EXCEPT !.tasks = tasks] = [m EXCEPT !.tasks = tasks]
  BY <1>1 DEF Machine
<1>6. \A k \in 1..n : T[k].at + ActiveAt > s
  <2>1. ASSUME NEW k \in 1..n PROVE ~Due(T[k], s)
    BY <1>1, <2>1 DEF DueTo
  <2>2. ActiveAt \in Int
    BY TermsAssumption
  <2>. QED
    BY <1>1, <2>1, <2>2, DueIs
<1>7. P[0] = m /\ \A k \in 1..n : P[k] = RunNext(P[k - 1], T[k], t) /\ P[k - 1] \in Good
  BY <1>1, <1>3, SMTT(20) DEF OverTasks
<1>8. \A x \in Late(s), k \in 1..n : RunNext(x, T[k], t) \in Late(s)
  BY <1>1, LateTasks, TasksClose DEF TasksClosed
<1>9. m = At(0)
  <2>1. Rest(T, 0) = T
    BY <1>1, <1>2, RestIs
  <2>. QED
    BY <1>1, <2>1 DEF Machine
<1>. HIDE DEF T, n, At
<1>. DEFINE U == {k \in 0..n : k <= d => \/ P[k] \in Late(s)
                                         \/ P[k] = At(k) /\ \A j \in 1..k : Refuses(m, T[j])}
<1>10. 0 \in U
  BY <1>1, <1>7, <1>9
<1>11. ASSUME NEW k \in 1..n, k - 1 \in U PROVE k \in U
  <2>. SUFFICES ASSUME k <= d
                PROVE  \/ P[k] \in Late(s)
                       \/ P[k] = At(k) /\ \A j \in 1..k : Refuses(m, T[j])
    OBVIOUS
  <2>1. k - 1 <= d /\ \A j \in 1..k : j \in 1..(k - 1) \/ j = k
    BY <1>1, <1>2
  <2>2. CASE P[k - 1] \in Late(s)
    BY <1>7, <1>8, <2>2
  <2>3. CASE P[k - 1] = At(k - 1) /\ \A j \in 1..(k - 1) : Refuses(m, T[j])
    <3>. DEFINE x == P[k - 1]
    <3>1. x \in Good /\ x.output = Null /\ P[k] = RunTask(x, T[k])
      <4>1. Due(T[k], t)
        BY <1>2 DEF DueTo, n
      <4>. QED
        BY <1>5, <1>7, <2>3, <4>1 DEF RunNext
    <3>. HIDE DEF x
    <3>2. P[k] \in Late(s) \/ (P[k] = Shifted(x) /\ Refuses(x, T[k]))
      BY <1>1, <1>6, <3>1, LateTask
    <3>3. Refuses(x, T[k]) => Refuses(m, T[k])
      BY <1>5, <2>3, RefusesSame DEF x
    <3>4. Shifted(x) = At(k)
      <4>1. k \in 1..Len(T)
        BY DEF n
      <4>2. Rest(T, k - 1) # <<>> /\ Tail(Rest(T, k - 1)) = Rest(T, k)
        BY <1>1, <4>1, RestNext
      <4>3. x.tasks = Rest(T, k - 1) /\ x = At(k - 1)
        BY <1>5, <2>3 DEF x
      <4>4. Shifted(x) = [x EXCEPT !.tasks = Rest(T, k)]
        BY <4>2, <4>3 DEF Shifted
      <4>. QED
        BY <1>5, <4>3, <4>4 DEF At
    <3>. QED
      BY <2>1, <2>3, <3>2, <3>3, <3>4
  <2>. QED
    BY <1>11, <2>1, <2>2, <2>3
<1>12. d \in U
  <2>1. Climbs(U, n)
    BY <1>10, <1>11 DEF Climbs
  <2>. HIDE DEF U
  <2>. QED  BY <1>1, <1>2, <2>1, Climb
<1>13. P[d] = At(d) /\ \A j \in 1..d : Refuses(m, T[j])
  <2>1. P[d] \notin Late(s)
    BY <1>4 DEF Late
  <2>. QED
    BY <1>1, <1>2, <1>12, <2>1
<1>14. At(d).tasks = Rest(T, d) /\ At(d) = [m EXCEPT !.tasks = At(d).tasks]
  BY <1>5 DEF At
<1>. QED
  BY <1>2, <1>4, <1>13, <1>14 DEF Trails, T, n

LEMMA TrailsOn ==
    ASSUME NEW a \in Machine, NEW b \in Machine, NEW c \in Machine, Trails(a, b), Trails(b, c)
    PROVE  Trails(a, c)
<1>. DEFINE T == c.tasks
<1>1. T \in Seq(Task) /\ Len(T) \in Nat
  BY DEF Machine
<1>2. PICK e \in 0..Len(T) : b.tasks = Rest(T, e) /\ \A k \in 1..e : Refuses(c, T[k])
  BY DEF Trails
<1>3. PICK f \in 0..Len(b.tasks) : /\ a.tasks = Rest(b.tasks, f)
                                   /\ \A k \in 1..f : Refuses(b, b.tasks[k])
  BY DEF Trails
<1>4. b = [c EXCEPT !.tasks = b.tasks] /\ a = [b EXCEPT !.tasks = a.tasks]
  BY DEF Trails
<1>5. a = [c EXCEPT !.tasks = a.tasks]
  BY <1>4 DEF Machine
<1>6. b.paths = c.paths /\ b.status = c.status /\ b.commit_at = c.commit_at
  BY <1>4 DEF Machine
<1>. HIDE DEF T
<1>7. Len(b.tasks) = Len(T) - e
  BY <1>1, <1>2 DEF Rest
<1>. DEFINE d == e + f
<1>8. d \in 0..Len(T) /\ e \in 0..d /\ d - e = f
  BY <1>1, <1>2, <1>3, <1>7
<1>. HIDE DEF d
<1>9. /\ Rest(Rest(T, e), d - e) = Rest(T, d)
      /\ \A i \in 1..(d - e) : Rest(T, e)[i] = T[e + i]
  BY <1>1, <1>8, RestRest
<1>10. a.tasks = Rest(T, d)
  BY <1>2, <1>3, <1>8, <1>9
<1>11. ASSUME NEW k \in 1..d PROVE Refuses(c, T[k])
  <2>1. CASE k <= e
    BY <1>1, <1>2, <1>8, <2>1
  <2>2. CASE ~(k <= e)
    <3>1. k - e \in 1..f /\ e + (k - e) = k
      BY <1>1, <1>2, <1>8, <2>2
    <3>2. b.tasks[k - e] = T[k]
      BY <1>2, <1>8, <1>9, <3>1
    <3>3. Refuses(b, T[k])
      BY <1>3, <3>1, <3>2
    <3>. QED
      BY <1>6, <3>3, RefusesSame
  <2>. QED
    BY <2>1, <2>2
<1>. QED
  BY <1>5, <1>8, <1>10, <1>11 DEF Trails, T

\* A program does not look at the tasks.
LEMMA ProgramAlike ==
    ASSUME NEW m \in Machine, NEW r \in Machine, m = [r EXCEPT !.tasks = m.tasks],
           NEW w \in Witness
    PROVE  /\ RunProgram(m, w).flow = RunProgram(r, w).flow
           /\ RunProgram(m, w).m = [RunProgram(r, w).m EXCEPT !.tasks = m.tasks]
<1>. DEFINE a     == AfterExec(m, w)
            b     == AfterExec(r, w)
            input == WitnessInput(w)
            ua    == UpdateVMState(a, input)
            ub    == UpdateVMState(b, input)
<1>1. m.store = r.store
  BY DEF Machine
<1>2. Votes(m, w) = Votes(r, w)
  BY <1>1 DEF Votes
<1>3. Missing(m, w) = Missing(r, w) /\ Recorded(m, w) = Recorded(r, w)
  BY <1>2 DEF Missing, Recorded, Recordable
<1>4. (ExecPasses(m, w) <=> ExecPasses(r, w)) /\ (ExecThrows(m, w) <=> ExecThrows(r, w))
  BY <1>3 DEF ExecPasses, ExecThrows, EndorsePasses, EndorseThrows
<1>5. a = [b EXCEPT !.tasks = m.tasks]
  <2>1. b \in {r, [r EXCEPT !.store = b.store]}
    BY DEF AfterExec, Machine
  <2>2. CASE ProgramOf(w).method = "endorse"
    BY <1>1, <1>3, <2>2 DEF AfterExec, Machine
  <2>3. CASE ProgramOf(w).method # "endorse"
    BY <2>3 DEF AfterExec
  <2>. QED
    BY <2>2, <2>3
<1>6. /\ DOMAIN b = {"closed", "closed_at", "commit_at", "error", "head", "output",
                     "paths", "status", "store", "tasks"}
  BY DEF AfterExec, Machine
<1>. HIDE DEF a, b
<1>7. a.paths = b.paths /\ a.status = b.status /\ a.commit_at = b.commit_at
  BY <1>5, <1>6
<1>8. (Accepts(a, input) <=> Accepts(b, input)) /\ (Crashes(a, input) <=> Crashes(b, input))
  BY <1>7 DEF Accepts, Crashes, CheckUpdateStamp
<1>9. /\ ua = [ub EXCEPT !.tasks = m.tasks] /\ ua.closed = ub.closed
  BY <1>5, <1>6, <1>7, ZenonT(30) DEF UpdateVMState, UpdatedPaths, UpdatedStatus
<1>10. [a EXCEPT !.error = TRUE] = [[b EXCEPT !.error = TRUE] EXCEPT !.tasks = m.tasks]
  BY <1>5, <1>6
<1>. HIDE DEF ua, ub, input
<1>. DEFINE ea == [a EXCEPT !.error = TRUE]
            eb == [b EXCEPT !.error = TRUE]
            p  == RunProgram(m, w)
            q  == RunProgram(r, w)
            Ways(x, y, z, u, e) ==
               \/ ~Loads(w) /\ x = [m |-> y, flow |-> "throw"]
               \/ Loads(w) /\ ExecThrows(r, w) /\ x = [m |-> e, flow |-> "end"]
               \/ /\ Loads(w) /\ ~ExecThrows(r, w) /\ ~ExecPasses(r, w)
                  /\ x = [m |-> z, flow |-> "next"]
               \/ /\ Loads(w) /\ ~ExecThrows(r, w) /\ ExecPasses(r, w) /\ Accepts(b, input)
                  /\ x = [m |-> u, flow |-> IF u.closed THEN "end" ELSE "next"]
               \/ /\ Loads(w) /\ ~ExecThrows(r, w) /\ ExecPasses(r, w)
                  /\ ~Accepts(b, input) /\ Crashes(b, input)
                  /\ x = [m |-> y, flow |-> "throw"]
               \/ /\ Loads(w) /\ ~ExecThrows(r, w) /\ ExecPasses(r, w)
                  /\ ~Accepts(b, input) /\ ~Crashes(b, input)
                  /\ x = [m |-> e, flow |-> "end"]
<1>11. Ways(q, r, b, ub, eb)
  <2>. HIDE DEF p, q, eb
  <2>. QED
    BY ProgramResult DEF b, ub, eb, input, q
<1>12. Ways(p, m, a, ua, ea)
  <2>1. \/ ~Loads(w) /\ p = [m |-> m, flow |-> "throw"]
        \/ Loads(w) /\ ExecThrows(m, w) /\ p = [m |-> ea, flow |-> "end"]
        \/ /\ Loads(w) /\ ~ExecThrows(m, w) /\ ~ExecPasses(m, w)
           /\ p = [m |-> a, flow |-> "next"]
        \/ /\ Loads(w) /\ ~ExecThrows(m, w) /\ ExecPasses(m, w) /\ Accepts(a, input)
           /\ p = [m |-> ua, flow |-> IF ua.closed THEN "end" ELSE "next"]
        \/ /\ Loads(w) /\ ~ExecThrows(m, w) /\ ExecPasses(m, w)
           /\ ~Accepts(a, input) /\ Crashes(a, input)
           /\ p = [m |-> m, flow |-> "throw"]
        \/ /\ Loads(w) /\ ~ExecThrows(m, w) /\ ExecPasses(m, w)
           /\ ~Accepts(a, input) /\ ~Crashes(a, input)
           /\ p = [m |-> ea, flow |-> "end"]
    <3>. HIDE DEF p, q, ea
    <3>. QED
      BY ProgramResult DEF a, ua, ea, input, p
  <2>. HIDE DEF p, q, ea
  <2>. QED
    BY <1>4, <1>8, <2>1
<1>13. /\ ua = [ub EXCEPT !.tasks = m.tasks] /\ ua.closed = ub.closed
       /\ ea = [eb EXCEPT !.tasks = m.tasks]
       /\ a = [b EXCEPT !.tasks = m.tasks]
       /\ m = [r EXCEPT !.tasks = m.tasks]
  BY <1>5, <1>9, <1>10
<1>. HIDE DEF p, q, ea, eb
<1>. QED
  BY <1>11, <1>12, <1>13 DEF p, q

\* A statement that neither closes nor decides a machine lets it accept no task
\* that it refused.
LEMMA ProgramRefuses ==
    ASSUME NEW r \in Good, ~r.closed, NEW w \in Witness,
           NEW q, q = RunProgram(r, w).m, q.output = Null, ~HasClose(q),
           NEW t \in Task, Refuses(r, t)
    PROVE  Refuses(q, t)
<1>. DEFINE n     == AfterExec(r, w)
            input == WitnessInput(w)
            u     == UpdateVMState(n, input)
            e     == [n EXCEPT !.error = TRUE]
<1>1. r \in Machine
  BY DEF Good
<1>2. /\ n.head = r.head /\ n.closed = r.closed /\ n.output = r.output
      /\ n.paths = r.paths /\ n.commit_at = r.commit_at /\ n.status = r.status
      /\ e.paths = n.paths /\ e.commit_at = n.commit_at /\ e.status = n.status
  <2>1. n \in {r, [r EXCEPT !.store = n.store]}
    BY <1>1 DEF AfterExec, Machine
  <2>. HIDE DEF n
  <2>. QED
    BY <1>1, <2>1 DEF Machine
<1>3. q \in {r, n, e} \/ (Loads(w) /\ Accepts(n, input) /\ q = u)
  <2>. HIDE DEF n, u, input, e
  <2>. QED
    BY ProgramResult DEF n, u, input, e
<1>4. CASE q \in {r, n, e}
  <2>1. q.paths = r.paths /\ q.commit_at = r.commit_at /\ q.status = r.status
    BY <1>2, <1>4
  <2>. QED
    BY <2>1, RefusesSame
<1>5. CASE Loads(w) /\ Accepts(n, input) /\ q = u
  <2>1. w.prog_id \in ProgIds /\ (w.path = Null <=> w.action \notin PATH_ACTIONS)
    BY <1>5 DEF Loads
  <2>2. n \in Good
    <3>1. n \in Machine
      BY <1>1, <2>1, AfterExecType DEF Good
    <3>. HIDE DEF n
    <3>. QED
      BY <1>2, <3>1, SameLogGood
  <2>3. input \in Input
    <3>1. /\ input.action = w.action /\ input.path = w.path
          /\ input = [action |-> w.action, path |-> w.path, stamp |-> w.stamp,
                      wid |-> w.prog_id]
      BY DEF WitnessInput
    <3>2. w.action = "close" => w.path = Null
      BY <2>1 DEF PATH_ACTIONS
    <3>3. w.path \in PathSet \cup {Null}
      BY <1>5, <3>1, <3>2 DEF Accepts, KnownTarget
    <3>. QED
      BY <2>1, <3>1, <3>3 DEF Input, Witness
  <2>. HIDE DEF n, input
  <2>4. Refuses(n, t)
    BY <1>2, RefusesSame
  <2>5. input.action # "close"
    <3>1. u.head = Append(n.head, input) /\ n.head \in Seq(Input)
      BY <2>2 DEF UpdateVMState, Good, Machine
    <3>2. Len(u.head) \in 1..Len(u.head) /\ u.head[Len(u.head)] = input
      BY <2>3, <3>1, AppendProperties
    <3>. QED
      BY <1>5, <3>2 DEF HasClose
  <2>. QED
    BY <1>5, <2>2, <2>3, <2>4, <2>5, UpdateRefuses
<1>. QED
  BY <1>3, <1>4, <1>5

LEMMA ProgramTrails ==
    ASSUME NEW m \in Good, NEW r \in Good, Trails(m, r), ~r.closed, NEW w \in Witness,
           NEW q, q = RunProgram(r, w).m, q.output = Null, ~HasClose(q)
    PROVE  Trails(RunProgram(m, w).m, q)
<1>. DEFINE p == RunProgram(m, w).m
<1>1. m \in Machine /\ r \in Machine /\ r.tasks \in Seq(Task) /\ q \in Good /\ q \in Machine
  BY ProgramGood DEF Good, Machine
<1>2. p = [q EXCEPT !.tasks = m.tasks]
  BY <1>1, ProgramAlike DEF Trails
<1>3. q.tasks = r.tasks
  BY <1>1, ProgramTasks
<1>. HIDE DEF p
<1>4. p.tasks = m.tasks
  BY <1>1, <1>2 DEF Machine
<1>5. PICK d \in 0..Len(r.tasks) : /\ m.tasks = Rest(r.tasks, d)
                                  /\ \A k \in 1..d : Refuses(r, r.tasks[k])
  BY DEF Trails
<1>6. ASSUME NEW k \in 1..d PROVE Refuses(q, r.tasks[k])
  <2>1. r.tasks[k] \in Task
    BY <1>1, <1>5
  <2>2. Refuses(r, r.tasks[k])
    BY <1>5
  <2>. QED
    BY <2>1, <2>2, ProgramRefuses
<1>. QED
  BY <1>2, <1>3, <1>4, <1>5, <1>6 DEF Trails, p

-----------------------------------------------------------------------------
(* The agent's machine and the replay's, from one statement to the next.    *)

\* Run to s, the replay has come to an output or to what the machine m trails.
Meets(m, r, s) == RunDue(r, s).output # Null \/ Trails(RunDue(m, s), RunDue(r, s))

\* A statement that neither throws nor errs nor closes the machine does the same
\* to the replay, unless the schedule decides that first.
LEMMA StatementTrails ==
    ASSUME NEW m \in Fresh, NEW r \in Fresh, m \in Closing(FALSE), r \in Closing(FALSE),
           m.output = Null, r.output = Null, r.error = FALSE,
           NEW w \in Witness, Meets(m, r, w.stamp),
           NEW p, p = EvalStatement([m |-> m, flow |-> "next"], w),
           NEW q, q = EvalStatement([m |-> r, flow |-> "next"], w),
           p.flow # "throw", p.m.error = FALSE, ~HasClose(p.m)
    PROVE  /\ q = [m |-> q.m, flow |-> IF q.m.output = Null THEN "next" ELSE "end"]
           /\ q.m.error = FALSE
           /\ q.m.output = Null => Trails(p.m, q.m)
<1>. DEFINE m1 == RunDue(m, w.stamp)
            r1 == RunDue(r, w.stamp)
<1>1. /\ m \in Good /\ r \in Good /\ m.tasks \in Seq(Task) /\ r.tasks \in Seq(Task)
  BY DEF Fresh, Good, Machine
<1>2. m1 \in Good /\ r1 \in Good /\ m1 \in Machine /\ r1 \in Machine
  BY <1>1, DueGood DEF Good
<1>3. m1 \in Closing(FALSE) /\ r1 \in Closing(FALSE)
  BY <1>1, ClosingTasks, DueStays
<1>4. r1.error = FALSE
  <2>1. r \in Quiet
    BY <1>1 DEF Quiet
  <2>2. r1 \in Quiet
    BY <1>1, <2>1, QuietTasks, DueStays
  <2>. QED
    BY <2>2 DEF Quiet
<1>5. /\ p = IF m1.closed THEN [m |-> m1, flow |-> "end"] ELSE RunProgram(m1, w)
      /\ q = IF r1.closed THEN [m |-> r1, flow |-> "end"] ELSE RunProgram(r1, w)
  BY DEF EvalStatement
<1>6. r1.output # Null \/ Trails(m1, r1)
  BY DEF Meets
<1>. HIDE DEF m1, r1
<1>7. CASE r1.output # Null
  <2>1. r1.closed
    BY <1>2, <1>7 DEF Good, Settled
  <2>. QED
    BY <1>4, <1>5, <1>7, <2>1
<1>8. CASE r1.output = Null
  <2>1. Trails(m1, r1)
    BY <1>6, <1>8
  <2>2. m1 = [r1 EXCEPT !.tasks = m1.tasks]
    BY <2>1 DEF Trails
  <2>3. m1.head = r1.head /\ m1.output = Null /\ m1.closed = r1.closed
    BY <1>2, <1>8, <2>2 DEF Machine
  <2>4. ~HasClose(m1)
    <3>1. m1 \in Closing(HasClose(m1))
      BY <1>3 DEF Closing
    <3>2. p.m \in Closing(HasClose(m1))
      BY <1>5, <3>1, ClosingPrograms DEF ProgramsStay
    <3>. QED
      BY <3>2 DEF Closing
  <2>5. ~m1.closed /\ ~r1.closed
    BY <1>3, <2>3, <2>4 DEF Closing
  <2>6. p = RunProgram(m1, w) /\ q = RunProgram(r1, w)
    BY <1>5, <2>5
  <2>7. p.flow = q.flow /\ p.m = [q.m EXCEPT !.tasks = m1.tasks]
    <3>1. /\ RunProgram(m1, w).flow = RunProgram(r1, w).flow
          /\ RunProgram(m1, w).m = [RunProgram(r1, w).m EXCEPT !.tasks = m1.tasks]
      BY <1>2, <2>2, ProgramAlike
    <3>. QED
      BY <2>6, <3>1
  <2>8. q.m \in Closing(FALSE)
    BY <1>3, <2>5, <2>6, ClosingPrograms DEF ProgramsStay
  <2>9. q.m \in Machine
    BY <2>8 DEF Closing, Good
  <2>10. q.m.error = p.m.error /\ q.m.head = p.m.head
    BY <2>7, <2>9 DEF Machine
  <2>11. q.m.error = FALSE /\ ~HasClose(q.m) /\ q.flow # "throw"
    BY <2>7, <2>10 DEF HasClose
  <2>12. q = [m |-> q.m, flow |-> IF q.m.closed THEN "end" ELSE "next"]
    BY <1>1, <2>11, FlowIs
  <2>13. q.m.closed <=> q.m.output # Null
    BY <2>8, <2>11 DEF Closing, Good, Settled
  <2>14. q.m.output = Null => Trails(p.m, q.m)
    BY <1>2, <2>1, <2>5, <2>6, <2>11, ProgramTrails
  <2>15. q = [m |-> q.m, flow |-> IF q.m.output = Null THEN "next" ELSE "end"]
    BY <2>12, <2>13
  <2>. QED
    BY <2>11, <2>14, <2>15
<1>. QED
  BY <1>7, <1>8

\* A run to any time that commits nothing later than s does not part them.
LEMMA RunMeets ==
    ASSUME NEW m \in Fresh, NEW r \in Fresh, NEW s \in Int, NEW t \in Int, Meets(m, r, s),
           NEW n, n = RunDue(m, t), n.output = Null, ~(n.commit_at > s)
    PROVE  Meets(n, r, s)
<1>. DEFINE m1 == RunDue(m, s)
            r1 == RunDue(r, s)
<1>1. m \in Good /\ r \in Good /\ Timely(m.tasks)
  BY DEF Fresh
<1>2. m1 \in Good /\ r1 \in Good /\ n \in Good /\ m1 \in Machine /\ r1 \in Machine /\ n \in Machine
  BY <1>1, DueGood DEF Good
<1>3. CASE t <= s
  BY <1>1, <1>3, RunTwice DEF Meets
<1>4. CASE r1.output # Null
  BY <1>4 DEF Meets
<1>5. CASE s <= t /\ r1.output = Null
  <2>1. Trails(m1, r1)
    BY <1>5 DEF Meets
  <2>2. m1.output = Null
    <3>. HIDE DEF m1, r1
    <3>. QED  BY <1>2, <1>5, <2>1 DEF Trails, Machine
  <2>3. n = RunDue(m1, t)
    BY <1>1, <1>5, <2>2, RunTwice
  <2>4. Timely(m1.tasks) /\ DueTo(m1.tasks, s, 0)
    BY <1>1, <2>2, RunLeaves
  <2>5. Timely(n.tasks) /\ DueTo(n.tasks, s, 0)
    BY <1>1, <1>5, RunLeaves
  <2>6. Trails(n, m1)
    <3>. HIDE DEF m1
    <3>. QED  BY <1>2, <2>2, <2>3, <2>4, RunIdle
  <2>7. Trails(n, r1)
    <3>. HIDE DEF m1, r1
    <3>. QED  BY <1>2, <2>1, <2>6, TrailsOn
  <2>8. RunDue(n, s) = n
    BY <1>2, <2>5, RunNothing
  <2>. QED
    BY <2>7, <2>8 DEF Meets
<1>. QED
  BY <1>3, <1>4, <1>5

-----------------------------------------------------------------------------

\* The array comes to the replay's machine, and at any later time the schedule
\* decides the replay or brings it to what the agent's machine trails.
Tracks ==
    /\ BatchIs(accepted) /\ Replay(accepted).error = FALSE
    /\ (machine.output = Null /\ Replay(accepted).output = Null) =>
          \A s \in Int :
             ((\A i \in DOMAIN accepted : accepted[i].stamp <= s) /\ machine.commit_at <= s)
                => Meets(machine, Replay(accepted), s)

TrackInv ==
    /\ machine \in Fresh /\ machine \in Closing(FALSE)
    /\ (InOrder(accepted) /\ ~HasClose(machine)) => Tracks

LEMMA TrackStarts ==
    ASSUME TimersForward, Init
    PROVE  TrackInv
<1>1. accepted = <<>> /\ machine = InitVM /\ Replay(<<>>) = InitVM /\ <<>> \in Seq(Witness)
  BY ReplayNothing, EmptySeq DEF Init
<1>2. /\ InitVM \in Good /\ InitVM.error = FALSE /\ InitVM.output = Null
      /\ InitVM.closed = FALSE /\ InitVM \in Fresh
  BY InitVMGood, InitVMFresh DEF InitVM
<1>3. Begin(InitVM) = [m |-> InitVM, flow |-> "next"] /\ Begin(InitVM) \in Results(Good)
  BY <1>2, BeginGood
<1>4. GetStatements(<<>>) \in Seq(Witness) /\ Len(GetStatements(<<>>)) = 0
  BY <1>1, StatementsType, EmptySeq
<1>5. PICK P : OverStatements(P, Results(Good), InitVM, <<>>)
  <2>1. StatementsClosed(Results(Good), GetStatements(<<>>))
    BY <1>4 DEF StatementsClosed
  <2>. QED
    BY <1>1, <1>3, <2>1, StatementSteps
<1>6. EvalResult(InitVM, <<>>) = Begin(InitVM)
  BY <1>4, <1>5 DEF OverStatements
<1>7. BatchIs(<<>>)
  BY <1>1, <1>2, <1>3, <1>6 DEF BatchIs
<1>8. \A s \in Int : Meets(InitVM, InitVM, s)
  BY <1>2, DueGood, TrailsItself DEF Meets
<1>9. InitVM \in Closing(FALSE)
  BY <1>2 DEF Closing
<1>. QED
  BY <1>1, <1>2, <1>7, <1>8, <1>9 DEF TrackInv, Tracks

LEMMA TrackSubmit ==
    ASSUME TimersForward, SessionInv, TrackInv, NEW w \in drafts, Submit(w)
    PROVE  TrackInv'
<1>. DEFINE R == Replay(accepted)
            p == EvalStatement([m |-> machine, flow |-> "next"], w)
            q == EvalStatement([m |-> R, flow |-> "next"], w)
<1>1. /\ accepted' = Append(accepted, w) /\ machine.output = Null
      /\ EvalResult(machine, <<w>>).flow # "throw" /\ machine.commit_at <= w.stamp
  BY DEF Submit, VerifyWitnessData
<1>2. /\ w \in Witness /\ <<w>> \in Seq(Witness) /\ w.stamp \in Int
      /\ machine' = EvalWitness(machine, <<w>>) /\ machine'.error = FALSE
      /\ accepted \in Seq(Witness) /\ machine.error = FALSE
  BY SubmitIs DEF SessionInv, Papers, Witness
<1>3. machine \in Fresh /\ machine \in Closing(FALSE) /\ machine \in Good
  BY DEF TrackInv, Fresh
<1>4. machine' \in Fresh /\ machine' \in Closing(FALSE)
  BY <1>2, <1>3, WitnessFresh, WitnessClosing
<1>. SUFFICES ASSUME InOrder(accepted'), ~HasClose(machine') PROVE Tracks'
  BY <1>4 DEF TrackInv, InOrder, HasClose
<1>5. ~HasClose(machine)
  <2>1. machine \in Closing(HasClose(machine))
    BY <1>3 DEF Closing
  <2>2. machine' \in Closing(HasClose(machine))
    BY <1>2, <2>1, WitnessClosing
  <2>. QED
    BY <2>2 DEF Closing
<1>6. /\ InOrder(accepted)
      /\ EvalResult(InitVM, accepted') = EvalStatement(EvalResult(InitVM, accepted), w)
  BY <1>1, <1>2, BatchAppend
<1>7. Tracks
  BY <1>5, <1>6 DEF TrackInv
<1>8. /\ R \in Fresh /\ R \in Closing(FALSE) /\ R \in Good /\ R.error = FALSE
      /\ Replay(accepted') = EvalWitness(R, <<w>>)
  BY <1>1, <1>2, <1>7, FreshReplay, ReplayClosing, ReplayAppend DEF Fresh, Tracks
<1>9. EvalResult(InitVM, accepted) =
         [m |-> R, flow |-> IF R.output = Null THEN "next" ELSE "end"]
  BY <1>7 DEF Tracks, BatchIs
<1>10. ASSUME R.output = Null PROVE Meets(machine, R, w.stamp)
  <2>1. \A i \in DOMAIN accepted : accepted[i].stamp <= w.stamp
    <3>1. /\ DOMAIN accepted = 1..Len(accepted) /\ Len(accepted) \in Nat
          /\ \A i \in 1..Len(accepted) : accepted'[i] = accepted[i]
          /\ accepted'[Len(accepted) + 1] = w
          /\ DOMAIN accepted' = 1..(Len(accepted) + 1)
      BY <1>1, <1>2, AppendProperties
    <3>2. ASSUME NEW i \in 1..Len(accepted) PROVE accepted'[i].stamp <= w.stamp
      <4>1. /\ i \in DOMAIN accepted' /\ Len(accepted) + 1 \in DOMAIN accepted'
            /\ i < Len(accepted) + 1
        BY <3>1
      <4>2. accepted'[i].stamp <= accepted'[Len(accepted) + 1].stamp
        BY <4>1 DEF InOrder
      <4>. QED
        BY <3>1, <4>2
    <3>. QED
      BY <3>1, <3>2
  <2>. QED
    BY <1>1, <1>2, <1>7, <1>10, <2>1 DEF Tracks
<1>. HIDE DEF R
<1>11. machine' = p.m /\ p.flow # "throw"
  <2>1. EvalResult(machine, <<w>>) = p
    BY <1>2, <1>3, EvalOne
  <2>. QED
    BY <1>1, <1>2, <2>1 DEF EvalWitness
<1>12. CASE R.output # Null
  <2>1. Replay(accepted') = R
    BY <1>8, <1>12 DEF EvalWitness
  <2>2. EvalResult(InitVM, accepted') = [m |-> R, flow |-> "end"]
    BY <1>6, <1>9, <1>12 DEF EvalStatement
  <2>. QED
    BY <1>8, <1>12, <2>1, <2>2 DEF Tracks, BatchIs
<1>13. CASE R.output = Null
  <2>1. EvalResult(InitVM, accepted') = q /\ EvalResult(R, <<w>>) = q
    BY <1>2, <1>6, <1>8, <1>9, <1>13, EvalOne
  <2>2. /\ q = [m |-> q.m, flow |-> IF q.m.output = Null THEN "next" ELSE "end"]
        /\ q.m.error = FALSE
        /\ q.m.output = Null => Trails(machine', q.m)
    <3>1. p.flow # "throw" /\ p.m.error = FALSE /\ ~HasClose(p.m)
      BY <1>2, <1>11
    <3>2. Meets(machine, R, w.stamp)
      BY <1>10, <1>13
    <3>. HIDE DEF p, q
    <3>3. /\ q = [m |-> q.m, flow |-> IF q.m.output = Null THEN "next" ELSE "end"]
          /\ q.m.error = FALSE
          /\ q.m.output = Null => Trails(p.m, q.m)
      BY <1>1, <1>2, <1>3, <1>8, <1>13, <3>1, <3>2, StatementTrails DEF p, q
    <3>. QED
      BY <1>11, <3>3
  <2>. HIDE DEF q
  <2>3. Replay(accepted') = q.m
    <3>1. q.flow # "throw"
      BY <2>2
    <3>. QED
      BY <1>8, <1>13, <2>1, <3>1 DEF EvalWitness
  <2>4. BatchIs(accepted')
    BY <2>1, <2>2, <2>3 DEF BatchIs
  <2>5. ASSUME machine'.output = Null, q.m.output = Null, NEW s \in Int
        PROVE  Meets(machine', q.m, s)
    <3>1. q.m \in Fresh
      BY <1>2, <1>8, <2>3, WitnessFresh
    <3>. QED
      BY <1>4, <2>2, <2>5, <3>1, Catches DEF Meets
  <2>. QED
    BY <2>2, <2>3, <2>4, <2>5 DEF Tracks, BatchIs
<1>. QED
  BY <1>12, <1>13

LEMMA TrackRun ==
    ASSUME TimersForward, SessionInv, TrackInv, NEW t \in RunTimes, RunSchedule(t)
    PROVE  TrackInv'
<1>1. /\ accepted' = accepted /\ machine.output = Null
      /\ machine' = EvalSchedule(machine, t) /\ machine' = RunDue(machine, t)
  BY DEF RunSchedule, EvalSchedule
<1>2. /\ machine \in Fresh /\ machine \in Closing(FALSE) /\ machine \in Good
      /\ machine \in Machine /\ machine.tasks \in Seq(Task) /\ t \in Int
      /\ accepted \in Seq(Witness)
  BY SessionAssumption DEF TrackInv, Fresh, Good, Machine, SessionInv, Papers
<1>3. machine' \in Fresh /\ machine' \in Closing(FALSE)
  BY <1>1, <1>2, FreshTasks, DueStays, DueClosing
<1>. SUFFICES ASSUME InOrder(accepted'), ~HasClose(machine') PROVE Tracks'
  BY <1>3 DEF TrackInv, InOrder, HasClose
<1>4. ~HasClose(machine)
  <2>1. machine \in Closing(HasClose(machine))
    BY <1>2 DEF Closing
  <2>2. machine' \in Closing(HasClose(machine))
    BY <1>1, <2>1, DueClosing
  <2>. QED
    BY <2>2 DEF Closing
<1>5. Tracks
  BY <1>1, <1>4 DEF TrackInv, InOrder
<1>6. Replay(accepted) \in Fresh
  BY <1>2, FreshReplay
<1>7. machine'.commit_at \in Int /\ machine.commit_at \in Int /\ machine.commit_at <= machine'.commit_at
  <2>. DEFINE c == machine.commit_at - 1
  <2>1. c \in Int /\ machine.commit_at \in Int /\ machine.commit_at > c
    BY <1>2 DEF Machine
  <2>2. machine'.commit_at \in Int
    BY <1>3 DEF Fresh, Good, Machine
  <2>3. machine' \in Late(c)
    <3>1. machine \in Late(c)
      BY <1>2, <2>1 DEF Late
    <3>. HIDE DEF c
    <3>. QED
      BY <1>1, <1>2, <2>1, <3>1, LateTasks, DueStays
  <2>. QED
    BY <2>1, <2>2, <2>3 DEF Late
<1>8. ASSUME machine'.output = Null, Replay(accepted).output = Null, NEW s \in Int,
             \A i \in DOMAIN accepted : accepted[i].stamp <= s, machine'.commit_at <= s
      PROVE  Meets(machine', Replay(accepted), s)
  <2>1. machine.commit_at <= s /\ ~(machine'.commit_at > s)
    BY <1>7, <1>8
  <2>2. Meets(machine, Replay(accepted), s)
    BY <1>1, <1>5, <1>8, <2>1 DEF Tracks
  <2>. QED
    BY <1>1, <1>2, <1>6, <1>8, <2>1, <2>2, RunMeets
<1>9. BatchIs(accepted) /\ Replay(accepted).error = FALSE
  BY <1>5 DEF Tracks
<1>. QED
  BY <1>1, <1>8, <1>9 DEF Tracks, BatchIs

LEMMA TrackHolds ==
    ASSUME TimersForward
    PROVE  Spec => []TrackInv
<1>1. Init => TrackInv
  BY TrackStarts
<1>2. SessionInv /\ TrackInv /\ [Next]_vars => TrackInv'
  <2>. SUFFICES ASSUME SessionInv, TrackInv, [Next]_vars PROVE TrackInv'
    OBVIOUS
  <2>1. CASE accepted' = accepted /\ machine' = machine
    BY <2>1 DEF TrackInv, Tracks, BatchIs, InOrder, HasClose
  <2>2. ASSUME NEW w \in drafts, Submit(w) PROVE TrackInv'
    BY <2>2, TrackSubmit
  <2>3. ASSUME NEW t \in RunTimes, RunSchedule(t) PROVE TrackInv'
    BY <2>3, TrackRun
  <2>. QED
    BY <2>1, <2>2, <2>3 DEF Next, vars, Create, Endorse
<1>. QED
  BY <1>1, <1>2, SessionHolds, PTL DEF Spec

\* Statements whose stamps are in order give the same machine as one array and
\* one by one, whenever the agent ran the schedule, unless the machine closed
\* without an output on the way; verify_contract_session() then passes of a
\* machine that a statement decided (contract.ts, main.ts).
THEOREM BatchesReplay ==
    ASSUME TimersForward
    PROVE  Spec => []BatchReplays
<1>1. SessionInv /\ TrackInv /\ ReplayInv => BatchReplays
  <2>. SUFFICES ASSUME SessionInv, TrackInv, ReplayInv, InOrder(accepted),
                       ~(\E i \in DOMAIN machine.head : machine.head[i].action = "close")
                PROVE  /\ EvalWitness(InitVM, accepted) = Replay(accepted)
                       /\ ByStatement => VerifyContractSession(machine, accepted)
    BY DEF BatchReplays, InOrder
  <2>1. ~HasClose(machine)
    <3>1. machine.head \in Seq(Input)
      BY DEF SessionInv, Good, Machine
    <3>. QED
      BY <3>1 DEF HasClose
  <2>2. EvalResult(InitVM, accepted).m = Replay(accepted)
        /\ EvalResult(InitVM, accepted).flow # "throw"
    BY <2>1 DEF TrackInv, Tracks, BatchIs
  <2>3. InitVM.output = Null
    BY DEF InitVM
  <2>4. EvalWitness(InitVM, accepted) = Replay(accepted)
    BY <2>2, <2>3 DEF EvalWitness
  <2>5. ASSUME ByStatement PROVE VerifyContractSession(machine, accepted)
    <3>1. machine = Replay(accepted)
      BY <2>5, DecidedIs
    <3>2. GetStatements(accepted) = accepted
      BY SortedStays DEF SessionInv, Papers
    <3>. QED
      BY <2>4, <3>1, <3>2 DEF VerifyContractSession, VerifyContractExecution, SameExecution
  <2>. QED
    BY <2>4, <2>5
<1>. QED
  BY <1>1, SessionHolds, TrackHolds, ReplayHolds, PTL
=============================================================================
