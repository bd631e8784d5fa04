-------------------------- MODULE CVMState_proofs ---------------------------
(***************************************************************************)
(* Lemmas about the operators of CVMState and CVMEval: the sort, one        *)
(* update of a machine, and the loops over paths, actions, tasks and        *)
(* statements.                                                              *)
(***************************************************************************)
EXTENDS CVMEval, FiniteSetTheorems, SequenceTheorems, WellFoundedInduction, TLAPS

-----------------------------------------------------------------------------
(* Induction.  The library states it for an operator, which the provers do   *)
(* not take; that a set of numbers has a least element says the same.        *)

LEMMA LeastNat ==
    ASSUME NEW T \in SUBSET Nat, T # {}
    PROVE  \E n \in T : \A k \in T : n <= k
<1> DEFINE U == {1..n : n \in T}
<1>1. IsWellFoundedOn(StrictSubsetOrdering(Nat), FiniteSubsetsOf(Nat))
  BY FS_StrictSubsetOrderingWellFounded
<1>2. U \subseteq FiniteSubsetsOf(Nat) /\ U # {}
  <2>1. U \subseteq FiniteSubsetsOf(Nat)
    BY FS_Interval DEF FiniteSubsetsOf
  <2> QED BY <2>1
<1>3. \E x \in U : \A y \in U : ~ (<<y, x>> \in StrictSubsetOrdering(Nat))
  <2> HIDE DEF U
  <2> QED BY <1>1, <1>2, WFMin
<1>4. PICK n \in T : \A k \in T : ~ (<<1..k, 1..n>> \in StrictSubsetOrdering(Nat))
  BY <1>3
<1>5. ASSUME NEW k \in T, k < n PROVE FALSE
  <2>1. 1..k \subseteq 1..n /\ n \in 1..n /\ n \notin 1..k /\ 1..n \subseteq Nat
    BY <1>5
  <2>2. <<1..k, 1..n>> \in StrictSubsetOrdering(Nat)
    BY <2>1 DEF StrictSubsetOrdering
  <2> QED BY <2>2, <1>4
<1> QED BY <1>5

\* A set that holds 0 and what follows on each of its members.
Climbs(S, n) == 0 \in S /\ \A k \in 1..n : k - 1 \in S => k \in S

LEMMA Climb ==
    ASSUME NEW n \in Nat, NEW S, Climbs(S, n)
    PROVE  \A k \in 0..n : k \in S
<1>. DEFINE T == {k \in 0..n : k \notin S}
<1>1. SUFFICES ASSUME T # {} PROVE FALSE
  OBVIOUS
<1>2. PICK m \in T : \A k \in T : m <= k
  <2>1. T \in SUBSET Nat
    OBVIOUS
  <2>. HIDE DEF T
  <2>. QED  BY <1>1, <2>1, LeastNat
<1>3. m \in 1..n /\ m - 1 \in 0..n /\ m - 1 < m
  BY <1>2 DEF Climbs
<1>4. m - 1 \notin T
  <2>. HIDE DEF T
  <2>. QED  BY <1>2, <1>3
<1>. QED
  BY <1>2, <1>3, <1>4 DEF Climbs

-----------------------------------------------------------------------------
(* The sort: ranks are a permutation of the positions, in key order.        *)

Predecessors(key, i) == {j \in DOMAIN key : Before(key, j, i)}

\* Ranks lie in the domain and grow with the order Before (Array.sort, as
\* init_tasks() and get_statements() use it).
LEMMA RankMonotone ==
    ASSUME NEW n \in Nat, NEW key \in [1..n -> Int], NEW i \in 1..n
    PROVE  /\ Rank(key, i) \in 1..n
           /\ \A j \in 1..n : Before(key, i, j) => Rank(key, i) < Rank(key, j)
<1>1. \A x \in 1..n : IsFiniteSet(Predecessors(key, x))
  BY FS_Interval, FS_Subset DEF Predecessors
<1>2. \A x \in 1..n : Cardinality(Predecessors(key, x)) \in Nat
  BY <1>1, FS_CardinalityType
<1>3. Rank(key, i) \in 1..n
  <2>1. Predecessors(key, i) \subseteq 1..n /\ i \notin Predecessors(key, i)
    BY DEF Predecessors, Before
  <2>2. IsFiniteSet(1..n) /\ Cardinality(1..n) = n
    BY FS_Interval
  <2>3. /\ Cardinality(Predecessors(key, i)) <= n
        /\ Cardinality(Predecessors(key, i)) # n
    BY <2>1, <2>2, FS_Subset
  <2> QED BY <2>3, <1>2 DEF Rank, Predecessors
<1>4. ASSUME NEW j \in 1..n, Before(key, i, j)
      PROVE  Rank(key, i) < Rank(key, j)
  <2>1. Predecessors(key, i) \subseteq Predecessors(key, j)
    BY <1>4 DEF Predecessors, Before
  <2>2. i \in Predecessors(key, j) /\ i \notin Predecessors(key, i)
    BY <1>4 DEF Predecessors, Before
  <2>3. /\ Cardinality(Predecessors(key, i)) <= Cardinality(Predecessors(key, j))
        /\ Cardinality(Predecessors(key, i)) # Cardinality(Predecessors(key, j))
    BY <1>1, <2>1, <2>2, FS_Subset
  <2> QED BY <2>3, <1>2 DEF Rank, Predecessors
<1> QED BY <1>3, <1>4

\* Every position has exactly one element of its rank.
LEMMA RankOnto ==
    ASSUME NEW n \in Nat, NEW key \in [1..n -> Int], NEW k \in 1..n
    PROVE  \E i \in 1..n : Rank(key, i) = k
<1> DEFINE f == [i \in 1..n |-> Rank(key, i)]
<1>1. \A i \in 1..n : Rank(key, i) \in 1..n
  BY RankMonotone
<1>2. ASSUME NEW i \in 1..n, NEW j \in 1..n, i # j
      PROVE  Rank(key, i) # Rank(key, j)
  <2>1. Before(key, i, j) \/ Before(key, j, i)
    BY <1>2 DEF Before
  <2>2. Rank(key, i) < Rank(key, j) \/ Rank(key, j) < Rank(key, i)
    BY <2>1, RankMonotone
  <2> QED BY <2>2, <1>1
<1>3. f \in Injection(1..n, 1..n)
  BY <1>1, <1>2 DEF Injection, IsInjective
<1>4. IsFiniteSet(1..n)
  BY FS_Interval
<1>5. f \in Surjection(1..n, 1..n)
  BY <1>3, <1>4, FS_Injection
<1> QED BY <1>5 DEF Surjection

\* Sorting a sequence permutes it and puts its keys in order.
LEMMA SortByProperties ==
    ASSUME NEW S, NEW s \in Seq(S), NEW key \in [DOMAIN s -> Int]
    PROVE  LET Place(k) == CHOOSE i \in DOMAIN s : Rank(key, i) = k
           IN  /\ SortBy(s, key) \in Seq(S)
               /\ Len(SortBy(s, key)) = Len(s)
               /\ \A k \in DOMAIN s : /\ Place(k) \in DOMAIN s
                                      /\ Rank(key, Place(k)) = k
                                      /\ SortBy(s, key)[k] = s[Place(k)]
               /\ \A k, l \in DOMAIN s : k <= l => key[Place(k)] <= key[Place(l)]
<1> DEFINE Place(k) == CHOOSE i \in DOMAIN s : Rank(key, i) = k
<1>1. /\ Len(s) \in Nat /\ DOMAIN s = 1..Len(s) /\ s \in [1..Len(s) -> S]
      /\ key \in [1..Len(s) -> Int]
  OBVIOUS
<1>2. ASSUME NEW k \in DOMAIN s
      PROVE  /\ Place(k) \in DOMAIN s
             /\ Rank(key, Place(k)) = k
  <2>1. k \in 1..Len(s)
    BY <1>1
  <2>2. \E i \in 1..Len(s) : Rank(key, i) = k
    BY <1>1, <2>1, RankOnto
  <2> QED BY <2>2, <1>1
<1>3. \A k \in DOMAIN s : SortBy(s, key)[k] = s[Place(k)]
  BY DEF SortBy
<1>4. SortBy(s, key) \in [1..Len(s) -> S]
  BY <1>1, <1>2 DEF SortBy
<1>5. SortBy(s, key) \in Seq(S) /\ Len(SortBy(s, key)) = Len(s)
  BY <1>1, <1>4
<1>6. ASSUME NEW k \in DOMAIN s, NEW l \in DOMAIN s, k <= l
      PROVE  key[Place(k)] <= key[Place(l)]
  <2> DEFINE i == Place(k)
  <2> DEFINE j == Place(l)
  <2>1. i \in 1..Len(s) /\ j \in 1..Len(s) /\ Rank(key, i) = k /\ Rank(key, j) = l
    BY <1>1, <1>2
  <2> HIDE DEF i, j
  <2>2. Before(key, j, i) => Rank(key, j) < Rank(key, i)
    BY <2>1, <1>1, RankMonotone
  <2>3. ~Before(key, j, i)
    BY <2>1, <2>2, <1>6, <1>1
  <2>4. key[i] <= key[j]
    BY <2>1, <2>3, <1>1 DEF Before
  <2> QED BY <2>4 DEF i, j
<1> QED BY <1>2, <1>3, <1>5, <1>6

\* init_tasks() keeps the tasks of the schedule and puts them in time order.
LEMMA InitTasksProperties ==
    /\ InitTasks(Schedule) \in Seq(Task)
    /\ Len(InitTasks(Schedule)) = Len(Schedule)
    /\ \A k, l \in DOMAIN InitTasks(Schedule) :
          k <= l => InitTasks(Schedule)[k].at <= InitTasks(Schedule)[l].at
<1> DEFINE key == [i \in DOMAIN Schedule |-> Schedule[i].at]
<1> DEFINE Place(k) == CHOOSE i \in DOMAIN Schedule : Rank(key, i) = k
<1>1. Schedule \in Seq(Task)
  BY TermsAssumption
<1>2. key \in [DOMAIN Schedule -> Int]
  <2>1. \A i \in DOMAIN Schedule : Schedule[i] \in Task
    BY <1>1
  <2>2. \A i \in DOMAIN Schedule : Schedule[i].at \in Int
    BY <2>1 DEF Task
  <2> QED BY <2>2
<1>3. \A i \in DOMAIN Schedule : key[i] = Schedule[i].at
  OBVIOUS
<1>4. InitTasks(Schedule) = SortBy(Schedule, key)
  BY DEF InitTasks
<1> HIDE DEF key
<1>5. /\ SortBy(Schedule, key) \in Seq(Task)
      /\ Len(SortBy(Schedule, key)) = Len(Schedule)
      /\ \A k \in DOMAIN Schedule : /\ Place(k) \in DOMAIN Schedule
                                    /\ SortBy(Schedule, key)[k] = Schedule[Place(k)]
      /\ \A k, l \in DOMAIN Schedule : k <= l => key[Place(k)] <= key[Place(l)]
  BY <1>1, <1>2, SortByProperties
<1>6. DOMAIN SortBy(Schedule, key) = DOMAIN Schedule
  BY <1>1, <1>5
<1>7. \A k \in DOMAIN Schedule : SortBy(Schedule, key)[k].at = key[Place(k)]
  BY <1>3, <1>5
<1> HIDE DEF Place
<1>8. \A k, l \in DOMAIN Schedule :
         k <= l => SortBy(Schedule, key)[k].at <= SortBy(Schedule, key)[l].at
  BY <1>5, <1>7
<1> QED BY <1>4, <1>5, <1>6, <1>8

\* They are the tasks of the schedule, each once.
LEMMA InitTasksPermute ==
    \E f \in Bijection(DOMAIN Schedule, DOMAIN Schedule) :
       \A k \in DOMAIN Schedule : InitTasks(Schedule)[k] = Schedule[f[k]]
<1> DEFINE key == [i \in DOMAIN Schedule |-> Schedule[i].at]
<1> DEFINE Place(k) == CHOOSE i \in DOMAIN Schedule : Rank(key, i) = k
<1> DEFINE f == [k \in DOMAIN Schedule |-> Place(k)]
<1>1. Schedule \in Seq(Task)
  BY TermsAssumption
<1>2. key \in [DOMAIN Schedule -> Int]
  <2>1. \A i \in DOMAIN Schedule : Schedule[i] \in Task
    BY <1>1
  <2>2. \A i \in DOMAIN Schedule : Schedule[i].at \in Int
    BY <2>1 DEF Task
  <2> QED BY <2>2
<1>3. InitTasks(Schedule) = SortBy(Schedule, key)
  BY DEF InitTasks
<1> HIDE DEF key
<1>4. \A k \in DOMAIN Schedule : /\ Place(k) \in DOMAIN Schedule
                                 /\ Rank(key, Place(k)) = k
                                 /\ SortBy(Schedule, key)[k] = Schedule[Place(k)]
  BY <1>1, <1>2, SortByProperties
<1> HIDE DEF Place
<1>5. f \in Injection(DOMAIN Schedule, DOMAIN Schedule)
  BY <1>4 DEF Injection, IsInjective
<1>6. IsFiniteSet(DOMAIN Schedule)
  <2>1. DOMAIN Schedule = 1..Len(Schedule) /\ Len(Schedule) \in Nat
    BY <1>1
  <2> QED BY <2>1, FS_Interval
<1>7. f \in Bijection(DOMAIN Schedule, DOMAIN Schedule)
  <2> HIDE DEF f
  <2>1. f \in Surjection(DOMAIN Schedule, DOMAIN Schedule)
    BY <1>5, <1>6, FS_Injection
  <2> QED BY <1>5, <2>1 DEF Bijection
<1>8. \A k \in DOMAIN Schedule : InitTasks(Schedule)[k] = Schedule[f[k]]
  BY <1>3, <1>4
<1> QED BY <1>7, <1>8

\* get_statements() gives back as many statements as it got.
LEMMA StatementsType ==
    ASSUME NEW ws \in Seq(Witness)
    PROVE  /\ GetStatements(ws) \in Seq(Witness)
           /\ Len(GetStatements(ws)) = Len(ws)
<1> DEFINE key == [i \in DOMAIN ws |-> ws[i].stamp]
<1>1. key \in [DOMAIN ws -> Int]
  <2>1. \A i \in DOMAIN ws : ws[i] \in Witness
    OBVIOUS
  <2>2. \A i \in DOMAIN ws : ws[i].stamp \in Int
    BY <2>1 DEF Witness
  <2> QED BY <2>2
<1> HIDE DEF key
<1>2. /\ SortBy(ws, key) \in Seq(Witness)
      /\ Len(SortBy(ws, key)) = Len(ws)
  BY <1>1, SortByProperties
<1> QED BY <1>2 DEF GetStatements, key

-----------------------------------------------------------------------------
(* One update of a machine.                                                 *)

\* What holds of every machine that updates have made of InitVM: a spent path
\* is the output, an output closes the machine and is the path of the last
\* commit, the commits are in time order, and a disputed path stays disputed
\* until it is resolved.
Settled(m) ==
    /\ \A p \in PathSet : m.paths[p] = "spent" => m.output = p
    /\ m.output # Null => /\ m.closed
                         /\ m.head # <<>>
                         /\ m.head[Len(m.head)].path = m.output
    /\ ActiveAt <= m.commit_at
    /\ \A i \in 1..Len(m.head) : /\ ActiveAt <= m.head[i].stamp
                                 /\ m.head[i].stamp < ExpiresAt
                                 /\ m.head[i].stamp <= m.commit_at
    /\ \A i, j \in 1..Len(m.head) : i <= j => m.head[i].stamp <= m.head[j].stamp
    /\ \A i \in 1..Len(m.head) : m.head[i].action = "dispute" =>
          /\ m.head[i].path \in PathSet
          /\ m.output = Null => m.paths[m.head[i].path] = "disputed"
          /\ m.output = m.head[i].path => m.head[Len(m.head)].action = "resolve"

\* Machine n continues machine m: its log extends m's, it is closed if m is,
\* and it differs in neither respect nor in the output without a commit.
Continues(n, m) ==
    /\ Len(m.head) <= Len(n.head)
    /\ \A i \in 1..Len(m.head) : n.head[i] = m.head[i]
    /\ m.closed => n.closed
    /\ Len(m.head) = Len(n.head) => n.closed = m.closed /\ n.output = m.output

LEMMA ContinuesTransitive ==
    ASSUME NEW m \in Machine, NEW n \in Machine, NEW u \in Machine,
           Continues(n, m), Continues(u, n)
    PROVE  Continues(u, m)
<1>1. Len(m.head) \in Nat /\ Len(n.head) \in Nat /\ Len(u.head) \in Nat
  BY DEF Machine
<1> QED BY <1>1 DEF Continues

\* An accepted update of a machine gives a machine (update_vm_state).
LEMMA UpdateType ==
    ASSUME NEW m \in Machine, NEW input \in Input, Accepts(m, input)
    PROVE  UpdateVMState(m, input) \in Machine
<1>1. UpdatedPaths(m, input) \in [PathSet -> PathStates]
  BY DEF UpdatedPaths, Machine, PathActionResult, PathStates
<1>2. UpdatedStatus(m, input) \in VMStatus
  BY DEF UpdatedStatus, UpdatePathVMStatus, PathActionResult, Machine, VMStatus
<1>3. Append(m.head, input) \in Seq(Input)
  BY DEF Machine
<1>4. input.stamp \in Int /\ input.path \in PathSet \cup {Null}
  BY DEF Input
<1> QED BY <1>1, <1>2, <1>3, <1>4 DEF UpdateVMState, Machine

\* The fields of a machine after an accepted update.
LEMMA UpdateFields ==
    ASSUME NEW m \in Machine, NEW input \in Input, Accepts(m, input),
           NEW u, u = UpdateVMState(m, input),
           NEW final, final = (UpdatedStatus(m, input) \in {"closed", "spent"})
    PROVE  /\ u.paths = UpdatedPaths(m, input)
           /\ u.commit_at = input.stamp
           /\ u.head = Append(m.head, input)
           /\ u.closed = (m.closed \/ final)
           /\ u.output = IF final THEN input.path ELSE m.output
           /\ m.commit_at <= input.stamp /\ input.stamp < ExpiresAt
<1>1. DOMAIN m = {"closed", "closed_at", "commit_at", "error", "head", "output",
                  "paths", "status", "store", "tasks"}
  BY DEF Machine
<1> QED BY <1>1 DEF UpdateVMState, Accepts, CheckUpdateStamp

\* An accepted update of a settled machine without an output continues it and
\* leaves it settled (state.ts, action.ts).
LEMMA UpdateSettles ==
    ASSUME NEW m \in Machine, NEW input \in Input, Accepts(m, input),
           Settled(m), m.output = Null,
           input.action = "close" => input.path = Null
    PROVE  /\ Settled(UpdateVMState(m, input))
           /\ Continues(UpdateVMState(m, input), m)
           /\ Len(UpdateVMState(m, input).head) = Len(m.head) + 1
<1> DEFINE final == UpdatedStatus(m, input) \in {"closed", "spent"}
<1> DEFINE u == UpdateVMState(m, input)
<1>1. /\ u.paths = UpdatedPaths(m, input)
      /\ u.commit_at = input.stamp
      /\ u.head = Append(m.head, input)
      /\ u.closed = (m.closed \/ final)
      /\ u.output = IF final THEN input.path ELSE m.output
      /\ m.commit_at <= input.stamp /\ input.stamp < ExpiresAt
  BY UpdateFields
<1> HIDE DEF u
<1>2. /\ m.head \in Seq(Input) /\ Len(m.head) \in Nat
      /\ Len(u.head) = Len(m.head) + 1
      /\ \A i \in 1..Len(m.head) : u.head[i] = m.head[i]
      /\ u.head[Len(m.head) + 1] = input
      /\ u.head # <<>>
  <2>1. m.head \in Seq(Input)
    BY DEF Machine
  <2> QED BY <1>1, <2>1, AppendProperties
<1>3. input.stamp \in Int /\ m.commit_at \in Int /\ ActiveAt \in Int /\ ExpiresAt \in Int
  BY TermsAssumption DEF Input, Machine
<1>4. Null \notin PathSet
  BY TermsAssumption
<1>5. \/ input.action = "close" /\ final /\ u.paths = m.paths /\ u.output = Null
      \/ /\ input.action \in PATH_ACTIONS /\ input.path \in PathSet
         /\ PathActionAllowed(input.action, m.paths[input.path], m.status)
         /\ u.paths = [m.paths EXCEPT ![input.path] = PathActionResult(input.action)]
  <2>1. CASE input.action = "close"
    BY <1>1, <2>1 DEF UpdatedPaths, UpdatedStatus
  <2>2. CASE input.action # "close"
    BY <1>1, <2>2 DEF UpdatedPaths, Accepts, KnownTarget
  <2> QED BY <2>1, <2>2
<1>6. m.paths \in [PathSet -> PathStates]
  BY DEF Machine
<1>7. \A p \in PathSet : u.paths[p] = "spent" => u.output = p
  <2>1. CASE input.action = "close" /\ u.paths = m.paths
    BY <2>1, <1>4 DEF Settled
  <2>2. CASE /\ input.action \in PATH_ACTIONS /\ input.path \in PathSet
             /\ u.paths = [m.paths EXCEPT ![input.path] = PathActionResult(input.action)]
    <3>1. \A p \in PathSet : u.paths[p] = "spent" => p = input.path
      BY <2>2, <1>4, <1>6 DEF Settled
    <3>2. u.paths[input.path] = "spent" => PathActionResult(input.action) = "spent"
      BY <2>2, <1>6
    <3>3. PathActionResult(input.action) = "spent" => final
      BY <2>2 DEF UpdatedStatus, UpdatePathVMStatus, PATH_ACTIONS
    <3> QED BY <3>1, <3>2, <3>3, <1>1
  <2> QED BY <1>5, <2>1, <2>2
<1>8. u.output # Null => u.closed /\ u.head # <<>> /\ u.head[Len(u.head)].path = u.output
  BY <1>1, <1>2
<1>9. \A i \in 1..Len(u.head) : /\ ActiveAt <= u.head[i].stamp
                               /\ u.head[i].stamp < ExpiresAt
                               /\ u.head[i].stamp <= u.commit_at
  <2> SUFFICES ASSUME NEW i \in 1..Len(u.head)
               PROVE  /\ ActiveAt <= u.head[i].stamp
                      /\ u.head[i].stamp < ExpiresAt
                      /\ u.head[i].stamp <= u.commit_at
    OBVIOUS
  <2>1. CASE i \in 1..Len(m.head)
    <3>1. m.head[i] \in Input
      BY <2>1, <1>2
    <3>2. m.head[i].stamp \in Int
      BY <3>1 DEF Input
    <3> QED BY <2>1, <3>2, <1>1, <1>2, <1>3 DEF Settled
  <2>2. CASE i = Len(m.head) + 1
    BY <2>2, <1>1, <1>2, <1>3 DEF Settled
  <2> QED BY <2>1, <2>2, <1>2
<1>10. \A i, j \in 1..Len(u.head) : i <= j => u.head[i].stamp <= u.head[j].stamp
  <2> SUFFICES ASSUME NEW i \in 1..Len(u.head), NEW j \in 1..Len(u.head), i <= j
               PROVE  u.head[i].stamp <= u.head[j].stamp
    OBVIOUS
  <2>1. CASE j \in 1..Len(m.head)
    <3>1. i \in 1..Len(m.head)
      BY <2>1, <1>2
    <3> QED BY <2>1, <3>1, <1>2 DEF Settled
  <2>2. CASE j = Len(m.head) + 1
    BY <2>2, <1>1, <1>2, <1>9
  <2> QED BY <2>1, <2>2, <1>2
<1>11. \A i \in 1..Len(u.head) : u.head[i].action = "dispute" =>
          /\ u.head[i].path \in PathSet
          /\ u.output = Null => u.paths[u.head[i].path] = "disputed"
          /\ u.output = u.head[i].path => u.head[Len(u.head)].action = "resolve"
  <2> SUFFICES ASSUME NEW i \in 1..Len(u.head), u.head[i].action = "dispute"
               PROVE  /\ u.head[i].path \in PathSet
                      /\ u.output = Null => u.paths[u.head[i].path] = "disputed"
                      /\ u.output = u.head[i].path =>
                            u.head[Len(u.head)].action = "resolve"
    OBVIOUS
  <2>1. CASE i \in 1..Len(m.head)
    <3>1. /\ u.head[i].path \in PathSet
          /\ m.paths[u.head[i].path] = "disputed"
      BY <2>1, <1>2 DEF Settled
    <3>2. CASE input.action = "close" /\ u.paths = m.paths /\ u.output = Null
      BY <3>1, <3>2, <1>4
    <3>3. CASE /\ input.action \in PATH_ACTIONS /\ input.path \in PathSet
               /\ PathActionAllowed(input.action, m.paths[input.path], m.status)
               /\ u.paths = [m.paths EXCEPT ![input.path] = PathActionResult(input.action)]
      <4>1. CASE input.path = u.head[i].path
        <5>1. input.action = "resolve"
          BY <3>1, <3>3, <4>1 DEF PathActionAllowed, PATH_ACTIONS
        <5>2. final
          BY <5>1 DEF UpdatedStatus, UpdatePathVMStatus, PathActionResult
        <5> QED BY <3>1, <4>1, <5>1, <5>2, <1>1, <1>2, <1>4
      <4>2. CASE input.path # u.head[i].path
        BY <3>1, <3>3, <4>2, <1>1, <1>4, <1>6
      <4> QED BY <4>1, <4>2
    <3> QED BY <3>2, <3>3, <1>5
  <2>2. CASE i = Len(m.head) + 1
    <3>1. input.action = "dispute" /\ u.head[i] = input
      BY <2>2, <1>2
    <3>2. /\ input.path \in PathSet
          /\ u.paths = [m.paths EXCEPT ![input.path] = PathActionResult(input.action)]
      BY <3>1, <1>5
    <3>3. ~final
      BY <3>1 DEF UpdatedStatus, UpdatePathVMStatus, PathActionResult
    <3>4. u.paths[input.path] = "disputed"
      BY <3>1, <3>2, <1>6 DEF PathActionResult
    <3> QED BY <3>1, <3>2, <3>3, <3>4, <1>1, <1>4
  <2> QED BY <2>1, <2>2, <1>2
<1>12. ActiveAt <= u.commit_at
  BY <1>1, <1>3 DEF Settled
<1>13. Settled(u)
  BY <1>7, <1>8, <1>9, <1>10, <1>11, <1>12 DEF Settled
<1>14. Continues(u, m)
  <2>1. m.closed => u.closed
    BY <1>1
  <2>2. Len(m.head) <= Len(u.head) /\ Len(m.head) # Len(u.head)
    BY <1>2
  <2> QED BY <2>1, <2>2, <1>2 DEF Continues
<1> QED BY <1>2, <1>13, <1>14 DEF u

\* Machines with the same paths, log and output are settled together.
LEMMA SameLogSettled ==
    ASSUME NEW m, NEW n, Settled(m),
           n.paths = m.paths, n.head = m.head, n.output = m.output,
           n.closed = m.closed, n.commit_at = m.commit_at, Len(m.head) \in Nat
    PROVE  Settled(n) /\ Continues(n, m)
BY DEF Settled, Continues

LEMMA ContinuesItself ==
    ASSUME NEW m \in Machine
    PROVE  Continues(m, m)
BY DEF Continues, Machine

-----------------------------------------------------------------------------
(* Programs and tasks.                                                      *)

\* A program's run touches its store and nothing else (endorse.ts, claim.ts).
LEMMA AfterExecType ==
    ASSUME NEW m \in Machine, NEW w \in Witness, w.prog_id \in ProgIds, Settled(m)
    PROVE  /\ AfterExec(m, w) \in Machine
           /\ Settled(AfterExec(m, w))
           /\ Continues(AfterExec(m, w), m)
           /\ AfterExec(m, w).output = m.output
<1> DEFINE votes == {Vote(w, w.sigs[i]) : i \in Recorded(m, w)}
<1> DEFINE n == [m EXCEPT !.store = @ \cup votes]
<1>1. votes \subseteq [prog_id : ProgIds, path : STRING, action : STRING, pub : STRING]
  <2>1. \A i \in DOMAIN w.sigs : w.sigs[i] \in STRING
    BY DEF Witness
  <2>2. w.path \in STRING /\ w.action \in STRING
    BY DEF Witness
  <2> QED BY <2>1, <2>2 DEF Vote, Recorded
<1> HIDE DEF votes
<1>2. n \in Machine
  BY <1>1 DEF Machine
<1>3. /\ n.paths = m.paths /\ n.head = m.head /\ n.output = m.output
      /\ n.closed = m.closed /\ n.commit_at = m.commit_at
  BY DEF Machine
<1>4. Len(m.head) \in Nat
  BY DEF Machine
<1>5. AfterExec(m, w) = n \/ AfterExec(m, w) = m
  BY DEF AfterExec, votes
<1> HIDE DEF n
<1>6. Settled(n) /\ Continues(n, m)
  BY <1>3, <1>4, SameLogSettled
<1> QED BY <1>2, <1>3, <1>5, <1>6, ContinuesItself

\* The actions and paths of a task are labels (get_access_list).
LEMMA TaskListsType ==
    ASSUME NEW t \in Task
    PROVE  TaskActions(t) \in Seq(STRING) /\ TaskPaths(t) \in Seq(STRING)
<1>1. t.actions \in Seq(STRING) /\ t.paths \in Seq(STRING)
  BY DEF Task
<1>2. ValidActionList \in Seq(STRING)
  <2>1. \A x \in PATH_ACTIONS \cup {"close"} : x \in STRING
    BY LabelAssumption
  <2> QED BY <2>1 DEF ValidActionList, PathActionList, PATH_ACTIONS
<1> QED BY <1>1, <1>2, TermsAssumption DEF TaskActions, TaskPaths, AccessList

\* The machine that init_vm() makes is a settled machine.
LEMMA InitVMSettled == InitVM \in Machine /\ Settled(InitVM) /\ InitVM.output = Null
<1>1. InitTasks(Schedule) \in Seq(Task)
  BY InitTasksProperties
<1>2. [p \in PathSet |-> InitPathState(p)] \in [PathSet -> {"locked", "open"}]
  BY DEF InitPathState
<1>3. InitVM \in Machine
  BY <1>1, <1>2, TermsAssumption DEF InitVM, Machine, PathStates, VMStatus, NoStamp
<1>4. Settled(InitVM)
  BY <1>2, TermsAssumption DEF InitVM, Settled
<1> QED BY <1>3, <1>4 DEF InitVM
-----------------------------------------------------------------------------
(* Votes.                                                                   *)

\* A program is found by the id alone.
LEMMA SameProgram ==
    ASSUME NEW v, NEW w, v.prog_id = w.prog_id
    PROVE  ProgramOf(v) = ProgramOf(w)
BY DEF ProgramOf, IsProgramOf

\* Who has voted for what a commit stands for.
VotesFor(m, e) ==
    {v.pub : v \in {u \in m.store : /\ u.prog_id = e.wid
                                   /\ u.path = e.path
                                   /\ u.action = e.action}}

\* The store holds finitely many votes, all of members, and each endorsed
\* commit has the votes its program asks for.
Quorate(m) ==
    /\ IsFiniteSet(m.store)
    /\ \A v \in m.store : v.pub \in ProgramOf(v).members
    /\ \A i \in 1..Len(m.head) :
          LET prog == ProgramOf([prog_id |-> m.head[i].wid])
          IN  (m.head[i].wid # Vmid /\ prog.method = "endorse") =>
                 Cardinality(VotesFor(m, m.head[i])) >= prog.thold

\* A program with this id exists (Array.find() of load_program).
LEMMA FirstProgram ==
    ASSUME NEW w, w.prog_id \in ProgIds
    PROVE  ProgramOf(w) \in Program /\ ProgramOf(w).prog_id = w.prog_id
<1> DEFINE Positions == {i \in DOMAIN Programs : Programs[i].prog_id = w.prog_id}
<1>1. /\ Programs \in Seq(Program) /\ DOMAIN Programs = 1..Len(Programs)
      /\ Positions \subseteq Nat /\ Positions # {}
  BY TermsAssumption DEF ProgIds
<1>2. PICK i \in Positions : \A k \in Positions : i <= k
  <2> HIDE DEF Positions
  <2> QED BY <1>1, LeastNat
<1>3. IsProgramOf(w, i)
  BY <1>1, <1>2 DEF IsProgramOf
<1>4. \E j \in DOMAIN Programs : IsProgramOf(w, j)
  BY <1>2, <1>3
<1>5. PICK j \in DOMAIN Programs : IsProgramOf(w, j) /\ ProgramOf(w) = Programs[j]
  BY <1>4 DEF ProgramOf
<1> QED BY <1>1, <1>5 DEF IsProgramOf

\* Votes are finitely many.
LEMMA VotesFinite ==
    ASSUME NEW m, IsFiniteSet(m.store), NEW T \in SUBSET m.store
    PROVE  /\ IsFiniteSet({v.pub : v \in T})
           /\ Cardinality({v.pub : v \in T}) \in Nat
<1> DEFINE f == [v \in T |-> v.pub]
<1>1. f \in Surjection(T, {v.pub : v \in T})
  BY DEF Surjection
<1>2. IsFiniteSet(T)
  BY FS_Subset
<1>3. IsFiniteSet({v.pub : v \in T})
  BY <1>1, <1>2, FS_Surjection
<1> QED BY <1>3, FS_CardinalityType

\* What an endorse program records: the keys of its first signatures, all of
\* members, none twice; if it passes, as many as were missing.
LEMMA RecordedKeys ==
    ASSUME NEW m \in Machine, NEW w \in Witness, w.prog_id \in ProgIds,
           IsFiniteSet(m.store)
    PROVE  LET keys == {w.sigs[i] : i \in Recorded(m, w)}
           IN  /\ IsFiniteSet(keys)
               /\ keys \subseteq ProgramOf(w).members
               /\ keys \cap Votes(m, w) = {}
               /\ EndorsePasses(m, w) => Cardinality(keys) = Missing(m, w)
<1> DEFINE keys == {w.sigs[i] : i \in Recorded(m, w)}
<1> DEFINE k == Missing(m, w)
<1>1. w.sigs \in Seq(STRING) /\ DOMAIN w.sigs = 1..Len(w.sigs) /\ Len(w.sigs) \in Nat
  BY DEF Witness
<1>2. k \in Nat \ {0}
  <2>1. ProgramOf(w).thold \in Nat
    BY FirstProgram DEF Program
  <2>2. Cardinality(Votes(m, w)) \in Nat
    BY VotesFinite DEF Votes
  <2> QED BY <2>1, <2>2 DEF Missing
<1> HIDE DEF k
<1>3. Recorded(m, w) \subseteq 1..Len(w.sigs)
  BY <1>1 DEF Recorded
<1>4. IsFiniteSet(Recorded(m, w))
  <2>1. IsFiniteSet(1..Len(w.sigs))
    BY <1>1, FS_Interval
  <2> QED BY <1>3, <2>1, FS_Subset
<1>5. \A i \in Recorded(m, w) : Recordable(m, w, i)
  BY <1>1, <1>3 DEF Recorded
<1>6. \A i, j \in Recorded(m, w) : w.sigs[i] = w.sigs[j] => i = j
  <2> SUFFICES ASSUME NEW i \in Recorded(m, w), NEW j \in Recorded(m, w), i < j
               PROVE  w.sigs[i] # w.sigs[j]
    BY <1>3
  <2> QED BY <1>3, <1>5 DEF Recordable
<1> DEFINE f == [i \in Recorded(m, w) |-> w.sigs[i]]
<1>7. f \in Bijection(Recorded(m, w), keys)
  <2>1. f \in [Recorded(m, w) -> keys]
    OBVIOUS
  <2>2. f \in Injection(Recorded(m, w), keys)
    BY <2>1, <1>6 DEF Injection, IsInjective
  <2>3. f \in Surjection(Recorded(m, w), keys)
    BY <2>1 DEF Surjection
  <2> QED BY <2>2, <2>3 DEF Bijection
<1>8. IsFiniteSet(keys) /\ Cardinality(keys) = Cardinality(Recorded(m, w))
  BY <1>4, <1>7, FS_Bijection DEF ExistsBijection
<1>9. EndorsePasses(m, w) => Recorded(m, w) = 1..k
  <2> SUFFICES ASSUME EndorsePasses(m, w) PROVE Recorded(m, w) = 1..k
    OBVIOUS
  <2>1. k \in Recorded(m, w)
    BY DEF EndorsePasses, k
  <2>2. k \in 1..Len(w.sigs) /\ \A j \in 1..k : Recordable(m, w, j)
    BY <2>1, <1>1 DEF Recorded
  <2>3. \A i \in 1..k : i \in DOMAIN w.sigs /\ i <= k /\ \A j \in 1..i : j \in 1..k
    BY <2>2, <1>1, <1>2
  <2>4. 1..k \subseteq Recorded(m, w)
    BY <2>2, <2>3 DEF Recorded, k
  <2>5. Recorded(m, w) \subseteq 1..k
    BY <1>1, <1>2 DEF Recorded, k
  <2> QED BY <2>4, <2>5
<1>10. EndorsePasses(m, w) => Cardinality(keys) = k
  BY <1>2, <1>8, <1>9, FS_Interval
<1>11. keys \subseteq ProgramOf(w).members /\ keys \cap Votes(m, w) = {}
  BY <1>5 DEF Recordable
<1> QED BY <1>8, <1>10, <1>11 DEF k

\* Once an endorse program has run, its votes are those there were and the keys
\* it recorded.
LEMMA VotesAfterExec ==
    ASSUME NEW m \in Machine, NEW w \in Witness, w.prog_id \in ProgIds,
           IsFiniteSet(m.store), ProgramOf(w).method = "endorse"
    PROVE  /\ IsFiniteSet(AfterExec(m, w).store)
           /\ m.store \subseteq AfterExec(m, w).store
           /\ \A v \in AfterExec(m, w).store \ m.store :
                 /\ v.prog_id = w.prog_id
                 /\ v.pub \in ProgramOf(w).members
           /\ Votes(AfterExec(m, w), w) =
                 Votes(m, w) \cup {w.sigs[i] : i \in Recorded(m, w)}
<1> DEFINE keys == {w.sigs[i] : i \in Recorded(m, w)}
<1> DEFINE cast == {Vote(w, w.sigs[i]) : i \in Recorded(m, w)}
<1>1. IsFiniteSet(keys) /\ keys \subseteq ProgramOf(w).members
  BY RecordedKeys
<1>2. AfterExec(m, w).store = m.store \cup cast
  BY DEF AfterExec, Machine
<1>3. IsFiniteSet(cast)
  <2> DEFINE f == [key \in keys |-> Vote(w, key)]
  <2>1. f \in Surjection(keys, cast)
    BY DEF Surjection
  <2> HIDE DEF f, keys, cast
  <2> QED BY <1>1, <2>1, FS_Surjection
<1>4. \A v \in cast : /\ v.prog_id = w.prog_id /\ v.path = w.path
                      /\ v.action = w.action /\ v.pub \in keys
  BY DEF Vote
<1>5. \A key \in keys : \E v \in cast : v.pub = key
  <2>1. \A key : Vote(w, key).pub = key
    BY DEF Vote
  <2> QED BY <2>1
<1> HIDE DEF keys, cast
<1>6. Votes(AfterExec(m, w), w) = Votes(m, w) \cup keys
  BY <1>2, <1>4, <1>5 DEF Votes
<1>7. IsFiniteSet(m.store \cup cast)
  BY <1>3, FS_Union
<1> QED BY <1>1, <1>2, <1>4, <1>6, <1>7 DEF keys

\* A program that has passed has its quorum on record (endorse.ts).
LEMMA PassedQuorum ==
    ASSUME NEW m \in Machine, NEW w \in Witness, w.prog_id \in ProgIds,
           IsFiniteSet(m.store), ProgramOf(w).method = "endorse", ExecPasses(m, w)
    PROVE  Cardinality(Votes(AfterExec(m, w), w)) >= ProgramOf(w).thold
<1> DEFINE keys == {w.sigs[i] : i \in Recorded(m, w)}
<1>1. EndorsePasses(m, w)
  BY DEF ExecPasses
<1>2. /\ IsFiniteSet(keys) /\ Cardinality(keys) = Missing(m, w)
      /\ keys \cap Votes(m, w) = {}
  BY <1>1, RecordedKeys
<1>3. Votes(AfterExec(m, w), w) = Votes(m, w) \cup keys
  BY VotesAfterExec
<1>4. IsFiniteSet(Votes(m, w)) /\ Cardinality(Votes(m, w)) \in Nat
  BY VotesFinite DEF Votes
<1> HIDE DEF keys
<1>5. Cardinality(Votes(m, w) \cup keys) = Cardinality(Votes(m, w)) + Cardinality(keys)
  <2>1. Cardinality(Votes(m, w) \cup keys) =
           Cardinality(Votes(m, w)) + Cardinality(keys) - Cardinality(Votes(m, w) \cap keys)
    BY <1>2, <1>4, FS_Union
  <2>2. Cardinality(Votes(m, w) \cap keys) = 0
    BY <1>2, FS_EmptySet
  <2>3. Cardinality(keys) \in Nat
    BY <1>2, FS_CardinalityType
  <2> QED BY <1>4, <2>1, <2>2, <2>3
<1>6. ProgramOf(w).thold \in Nat
  BY FirstProgram DEF Program
<1> QED BY <1>2, <1>3, <1>4, <1>5, <1>6 DEF Missing

\* What is quorate stays so when the log stays and the store only grows.
LEMMA QuorateGrows ==
    ASSUME NEW m \in Machine, NEW n, Quorate(m), n.head = m.head,
           m.store \subseteq n.store, IsFiniteSet(n.store),
           \A v \in n.store \ m.store : v.pub \in ProgramOf(v).members
    PROVE  Quorate(n)
<1>1. ASSUME NEW e
      PROVE  /\ Cardinality(VotesFor(m, e)) <= Cardinality(VotesFor(n, e))
             /\ Cardinality(VotesFor(m, e)) \in Nat
             /\ Cardinality(VotesFor(n, e)) \in Nat
  <2>1. VotesFor(m, e) \subseteq VotesFor(n, e)
    BY DEF VotesFor
  <2>2. IsFiniteSet(VotesFor(n, e)) /\ Cardinality(VotesFor(n, e)) \in Nat
    BY VotesFinite DEF VotesFor
  <2>3. Cardinality(VotesFor(m, e)) \in Nat
    BY VotesFinite DEF VotesFor, Quorate
  <2> QED BY <2>1, <2>2, <2>3, FS_Subset
<1>2. \A v \in n.store : v.pub \in ProgramOf(v).members
  BY DEF Quorate
<1>3. ASSUME NEW i \in 1..Len(n.head),
             n.head[i].wid # Vmid,
             ProgramOf([prog_id |-> n.head[i].wid]).method = "endorse"
      PROVE  Cardinality(VotesFor(n, n.head[i])) >=
                ProgramOf([prog_id |-> n.head[i].wid]).thold
  <2>1. Cardinality(VotesFor(m, n.head[i])) >=
            ProgramOf([prog_id |-> n.head[i].wid]).thold
    BY <1>3 DEF Quorate
  <2>2. ProgramOf([prog_id |-> n.head[i].wid]).thold \in Nat
    <3> DEFINE v == [prog_id |-> n.head[i].wid]
    <3>1. v.prog_id \in ProgIds
      <4>1. n.head \in Seq(Input)
        BY DEF Machine
      <4>2. n.head[i] \in Input
        BY <1>3, <4>1
      <4> QED BY <1>3, <4>2 DEF Input
    <3> HIDE DEF v
    <3>2. ProgramOf(v) \in Program
      BY <3>1, FirstProgram
    <3> QED BY <3>2 DEF Program, v
  <2> QED BY <2>1, <2>2, <1>1
<1> QED BY <1>2, <1>3 DEF Quorate

\* A program's run keeps a machine quorate.
LEMMA ExecQuorate ==
    ASSUME NEW m \in Machine, NEW w \in Witness, w.prog_id \in ProgIds, Quorate(m)
    PROVE  Quorate(AfterExec(m, w))
<1>1. CASE ProgramOf(w).method = "endorse"
  <2>1. /\ IsFiniteSet(AfterExec(m, w).store)
        /\ m.store \subseteq AfterExec(m, w).store
        /\ \A v \in AfterExec(m, w).store \ m.store :
              v.pub \in ProgramOf(v).members
    BY <1>1, VotesAfterExec, SameProgram DEF Quorate
  <2>2. AfterExec(m, w).head = m.head
    BY <1>1 DEF AfterExec, Machine
  <2> QED BY <2>1, <2>2, QuorateGrows
<1>2. CASE ProgramOf(w).method # "endorse"
  BY <1>2 DEF AfterExec
<1> QED BY <1>1, <1>2

\* A commit keeps a machine quorate if it is a task's or has its votes.
LEMMA CommitQuorate ==
    ASSUME NEW m \in Machine, NEW input \in Input, Accepts(m, input), Quorate(m),
           LET prog == ProgramOf([prog_id |-> input.wid])
           IN  (input.wid # Vmid /\ prog.method = "endorse") =>
                  Cardinality(VotesFor(m, input)) >= prog.thold
    PROVE  Quorate(UpdateVMState(m, input))
<1> DEFINE u == UpdateVMState(m, input)
<1>1. u.head = Append(m.head, input)
  BY UpdateFields
<1>2. u.store = m.store
  BY DEF UpdateVMState, Machine
<1> HIDE DEF u
<1>3. /\ Len(m.head) \in Nat /\ Len(u.head) = Len(m.head) + 1
      /\ \A i \in 1..Len(m.head) : u.head[i] = m.head[i]
      /\ u.head[Len(m.head) + 1] = input
  <2>1. m.head \in Seq(Input)
    BY DEF Machine
  <2> QED BY <1>1, <2>1, AppendProperties
<1>4. \A e : VotesFor(u, e) = VotesFor(m, e)
  BY <1>2 DEF VotesFor
<1>5. ASSUME NEW i \in 1..Len(u.head),
             u.head[i].wid # Vmid,
             ProgramOf([prog_id |-> u.head[i].wid]).method = "endorse"
      PROVE  Cardinality(VotesFor(u, u.head[i])) >=
                ProgramOf([prog_id |-> u.head[i].wid]).thold
  <2>1. CASE i \in 1..Len(m.head)
    <3>1. u.head[i] = m.head[i]
      BY <2>1, <1>3
    <3> QED BY <2>1, <3>1, <1>4, <1>5 DEF Quorate
  <2>2. CASE i = Len(m.head) + 1
    <3>1. u.head[i] = input
      BY <2>2, <1>3
    <3> QED BY <3>1, <1>4, <1>5
  <2> QED BY <2>1, <2>2, <1>3
<1>6. Quorate(u)
  BY <1>2, <1>5 DEF Quorate
<1> QED BY <1>6 DEF u

-----------------------------------------------------------------------------
(* What a commit settles for good.                                          *)

\* Until there is an output, a locked or disputed path stays locked or disputed
\* and a closed machine closed.
Freezes(u, m) ==
    u.output = Null =>
        /\ m.output = Null
        /\ m.closed => u.closed
        /\ \A p \in PathSet : m.paths[p] \in {"disputed", "locked"} =>
                                  u.paths[p] \in {"disputed", "locked"}

\* The path actions of the log: without an output they are locks and disputes,
\* and their paths show it; no commit on a path is made twice.
Unique(m) ==
    /\ \A i \in 1..Len(m.head) : m.head[i].action # "close" =>
          /\ m.head[i].path \in PathSet
          /\ m.output = Null =>
                \/ /\ m.head[i].action = "lock"
                   /\ m.paths[m.head[i].path] \in {"disputed", "locked"}
                \/ /\ m.head[i].action = "dispute"
                   /\ m.paths[m.head[i].path] = "disputed"
    /\ \A i, j \in 1..Len(m.head) :
          (i < j /\ m.head[i].action # "close") => m.head[i] # m.head[j]

\* What an accepted update does to the paths of an undecided machine: nothing,
\* or it locks or disputes one of them, or it decides the machine (action.ts).
LEMMA UpdatePaths ==
    ASSUME NEW m \in Machine, NEW input \in Input, Accepts(m, input),
           m.output = Null, input.action = "close" => input.path = Null
    PROVE  LET u == UpdateVMState(m, input)
           IN  \/ /\ input.action = "close" /\ u.paths = m.paths
                  /\ u.output = Null /\ u.closed
               \/ /\ input.action \in {"lock", "dispute"} /\ input.path \in PathSet
                  /\ u.paths = [m.paths EXCEPT ![input.path] = PathActionResult(input.action)]
                  /\ m.paths[input.path] # "disputed"
                  /\ input.action = "lock" => m.paths[input.path] # "locked"
               \/ /\ input.action \in {"spend", "resolve"} /\ input.path \in PathSet
                  /\ u.output = input.path
                  /\ input.action = "spend" =>
                        m.paths[input.path] \notin {"disputed", "locked"}
<1> DEFINE u     == UpdateVMState(m, input)
           final == UpdatedStatus(m, input) \in {"closed", "spent"}
<1>1. /\ u.paths = UpdatedPaths(m, input)
      /\ u.commit_at = input.stamp
      /\ u.head = Append(m.head, input)
      /\ u.closed = (m.closed \/ final)
      /\ u.output = IF final THEN input.path ELSE m.output
      /\ m.commit_at <= input.stamp /\ input.stamp < ExpiresAt
  BY UpdateFields
<1> HIDE DEF u
<1>2. ASSUME input.action = "close"
      PROVE  u.paths = m.paths /\ u.output = Null /\ u.closed
  BY <1>1, <1>2 DEF UpdatedPaths, UpdatedStatus
<1>3. ASSUME input.action # "close"
      PROVE  \/ /\ input.action \in {"lock", "dispute"} /\ input.path \in PathSet
                /\ u.paths = [m.paths EXCEPT ![input.path] = PathActionResult(input.action)]
                /\ m.paths[input.path] # "disputed"
                /\ input.action = "lock" => m.paths[input.path] # "locked"
             \/ /\ input.action \in {"spend", "resolve"} /\ input.path \in PathSet
                /\ u.output = input.path
                /\ input.action = "spend" =>
                      m.paths[input.path] \notin {"disputed", "locked"}
  <2>1. /\ input.action \in PATH_ACTIONS /\ input.path \in PathSet
        /\ PathActionAllowed(input.action, m.paths[input.path], m.status)
        /\ u.paths = [m.paths EXCEPT ![input.path] = PathActionResult(input.action)]
    BY <1>1, <1>3 DEF Accepts, KnownTarget, UpdatedPaths
  <2>2. input.action \in {"spend", "resolve"} => final
    BY DEF UpdatedStatus, UpdatePathVMStatus, PathActionResult
  <2>3. input.action \in {"lock", "dispute", "spend", "resolve"}
    BY <2>1 DEF PathActionAllowed, PATH_ACTIONS
  <2> QED BY <1>1, <2>1, <2>2, <2>3 DEF PathActionAllowed
<1> QED BY <1>2, <1>3 DEF u

LEMMA UpdateFreezes ==
    ASSUME NEW m \in Machine, NEW input \in Input, Accepts(m, input),
           m.output = Null, input.action = "close" => input.path = Null
    PROVE  Freezes(UpdateVMState(m, input), m)
<1> DEFINE u == UpdateVMState(m, input)
<1>1. m.closed => u.closed
  BY DEF UpdateVMState, Machine
<1>2. m.paths \in [PathSet -> PathStates] /\ Null \notin PathSet
  BY TermsAssumption DEF Machine
<1>3. \/ u.paths = m.paths
      \/ /\ input.action \in {"lock", "dispute"} /\ input.path \in PathSet
         /\ u.paths = [m.paths EXCEPT ![input.path] = PathActionResult(input.action)]
      \/ u.output # Null
  BY <1>2, UpdatePaths
<1> HIDE DEF u
<1>4. \A a \in {"lock", "dispute"} : PathActionResult(a) \in {"disputed", "locked"}
  BY DEF PathActionResult
<1>5. Freezes(u, m)
  BY <1>1, <1>2, <1>3, <1>4 DEF Freezes
<1> QED BY <1>5 DEF u

LEMMA UpdateUnique ==
    ASSUME NEW m \in Machine, NEW input \in Input, Accepts(m, input), Unique(m),
           m.output = Null, input.action = "close" => input.path = Null
    PROVE  Unique(UpdateVMState(m, input))
<1> DEFINE u == UpdateVMState(m, input)
<1>1. u.head = Append(m.head, input)
  BY UpdateFields
<1>2. \/ /\ input.action = "close" /\ u.paths = m.paths
      \/ /\ input.action \in {"lock", "dispute"} /\ input.path \in PathSet
         /\ u.paths = [m.paths EXCEPT ![input.path] = PathActionResult(input.action)]
         /\ m.paths[input.path] # "disputed"
         /\ input.action = "lock" => m.paths[input.path] # "locked"
      \/ /\ input.action \in {"spend", "resolve"} /\ input.path \in PathSet
         /\ u.output = input.path
  BY UpdatePaths
<1> HIDE DEF u
<1>3. /\ Len(m.head) \in Nat /\ Len(u.head) = Len(m.head) + 1
      /\ \A i \in 1..Len(m.head) : u.head[i] = m.head[i]
      /\ u.head[Len(m.head) + 1] = input
  <2>1. m.head \in Seq(Input)
    BY DEF Machine
  <2> QED BY <1>1, <2>1, AppendProperties
<1>4. m.paths \in [PathSet -> PathStates] /\ Null \notin PathSet
  BY TermsAssumption DEF Machine
<1>5. PathActionResult("lock") = "locked" /\ PathActionResult("dispute") = "disputed"
  BY DEF PathActionResult
<1>6. ASSUME NEW i \in 1..Len(u.head), u.head[i].action # "close"
      PROVE  /\ u.head[i].path \in PathSet
             /\ u.output = Null =>
                   \/ /\ u.head[i].action = "lock"
                      /\ u.paths[u.head[i].path] \in {"disputed", "locked"}
                   \/ /\ u.head[i].action = "dispute"
                      /\ u.paths[u.head[i].path] = "disputed"
  <2>1. CASE i \in 1..Len(m.head)
    <3>1. u.head[i] = m.head[i]
      BY <2>1, <1>3
    <3>2. /\ u.head[i].path \in PathSet
          /\ \/ /\ u.head[i].action = "lock"
                /\ m.paths[u.head[i].path] \in {"disputed", "locked"}
             \/ /\ u.head[i].action = "dispute"
                /\ m.paths[u.head[i].path] = "disputed"
      BY <1>6, <2>1, <3>1 DEF Unique
    <3> QED BY <3>2, <1>2, <1>4, <1>5
  <2>2. CASE i = Len(m.head) + 1
    <3>1. u.head[i] = input
      BY <2>2, <1>3
    <3> QED BY <3>1, <1>2, <1>4, <1>5, <1>6
  <2> QED BY <2>1, <2>2, <1>3
<1>7. ASSUME NEW i \in 1..Len(u.head), NEW j \in 1..Len(u.head),
             i < j, u.head[i].action # "close"
      PROVE  u.head[i] # u.head[j]
  <2>1. i \in 1..Len(m.head) /\ u.head[i] = m.head[i]
    BY <1>3, <1>7
  <2>2. CASE j \in 1..Len(m.head)
    <3>1. u.head[j] = m.head[j]
      BY <2>2, <1>3
    <3> QED BY <1>7, <2>1, <2>2, <3>1 DEF Unique
  <2>3. CASE j = Len(m.head) + 1
    <3>1. u.head[j] = input
      BY <2>3, <1>3
    <3>2. \/ /\ m.head[i].action = "lock"
             /\ m.paths[m.head[i].path] \in {"disputed", "locked"}
          \/ /\ m.head[i].action = "dispute"
             /\ m.paths[m.head[i].path] = "disputed"
      BY <1>7, <2>1 DEF Unique
    <3> QED BY <1>2, <1>7, <2>1, <3>1, <3>2
  <2> QED BY <2>2, <2>3, <1>3
<1>8. Unique(u)
  BY <1>6, <1>7 DEF Unique
<1> QED BY <1>8 DEF u

-----------------------------------------------------------------------------
(* Folds, by the function of their prefixes (as in Publication_proofs).     *)

LEMMA MaxIs ==
    ASSUME NEW n \in Nat, NEW u \in SUBSET (1..n), u # {}
    PROVE  Max(u) \in u /\ \A y \in u : y <= Max(u)
<1>. DEFINE T == {n - x : x \in u}
<1>1. T \in SUBSET Nat /\ T # {}
  <2>1. \A x \in u : x \in 1..n /\ n - x \in Nat
    OBVIOUS
  <2>. QED
    BY <2>1
<1>2. PICK m \in T : \A k \in T : m <= k
  <2>. HIDE DEF T
  <2>. QED  BY <1>1, LeastNat
<1>3. PICK x \in u : m = n - x
  OBVIOUS
<1>4. ASSUME NEW y \in u PROVE x >= y
  <2>1. n - y \in T /\ n - x <= n - y
    BY <1>2, <1>3
  <2>. QED
    BY <2>1
<1>5. \E z \in u : \A y \in u : z >= y
  BY <1>4
<1>6. Max(u) \in u /\ \A y \in u : Max(u) >= y
  BY <1>5 DEF Max
<1>. QED
  BY <1>6

\* G folds the subsets of 1..n from the base, the greatest number last.
Folds(G, step, base, n) ==
    /\ G[{}] = base
    /\ \A u \in SUBSET (1..n) : u # {} => G[u] = step[<<Max(u), G[u \ {Max(u)}]>>]

LEMMA FoldsExist ==
    ASSUME NEW D, NEW base \in D, NEW n \in Nat, NEW step \in [(1..n) \X D -> D]
    PROVE  \E G \in [SUBSET (1..n) -> D] : Folds(G, step, base, n)
<1>. DEFINE Has(k) == \E G \in [SUBSET (1..k) -> D] : Folds(G, step, base, k)
            T == {k \in 0..n : ~Has(k)}
<1>1. SUFFICES ASSUME T # {} PROVE FALSE
  <2>1. n \in 0..n
    OBVIOUS
  <2>2. T = {} => Has(n)
    <3>. HIDE DEF Has
    <3>. QED  BY <2>1
  <2>. QED
    BY <2>2
<1>2. PICK m \in T : \A k \in T : m <= k
  <2>1. T \in SUBSET Nat
    OBVIOUS
  <2>. HIDE DEF T
  <2>. QED  BY <1>1, <2>1, LeastNat
<1>3. m # 0
  <2>1. SUFFICES ASSUME m = 0 PROVE FALSE
    OBVIOUS
  <2>2. SUBSET (1..0) = {{}}
    OBVIOUS
  <2>3. [u \in SUBSET (1..0) |-> base] \in [SUBSET (1..0) -> D]
    OBVIOUS
  <2>4. Folds([u \in SUBSET (1..0) |-> base], step, base, 0)
    BY <2>2 DEF Folds
  <2>. QED
    BY <1>2, <2>1, <2>3, <2>4
<1>4. m \in 1..n /\ m - 1 \in 0..n /\ m - 1 < m
  BY <1>2, <1>3
<1>5. PICK G \in [SUBSET (1..(m - 1)) -> D] : Folds(G, step, base, m - 1)
  <2>1. m - 1 \notin T
    <3>. HIDE DEF T
    <3>. QED  BY <1>2, <1>4
  <2>2. Has(m - 1)
    <3>. HIDE DEF Has
    <3>. QED  BY <2>1, <1>4
  <2>. QED
    BY <2>2
<1>. DEFINE H == [u \in SUBSET (1..m) |->
                     IF m \in u THEN step[<<m, G[u \ {m}]>>] ELSE G[u]]
<1>6. \A u \in SUBSET (1..m) : u \ {m} \in SUBSET (1..(m - 1))
  BY <1>4
<1>7. H \in [SUBSET (1..m) -> D]
  <2>1. ASSUME NEW u \in SUBSET (1..m)
        PROVE  (IF m \in u THEN step[<<m, G[u \ {m}]>>] ELSE G[u]) \in D
    <3>1. G[u \ {m}] \in D
      BY <1>6
    <3>2. CASE m \in u
      BY <3>1, <3>2, <1>4
    <3>3. CASE m \notin u
      <4>1. u \ {m} = u
        BY <3>3
      <4>. QED
        BY <3>1, <3>3, <4>1
    <3>. QED
      BY <3>2, <3>3
  <2>. QED
    BY <2>1
<1>8. Folds(H, step, base, m)
  <2>1. H[{}] = base
    BY <1>5 DEF Folds
  <2>2. ASSUME NEW u \in SUBSET (1..m), u # {}
        PROVE  H[u] = step[<<Max(u), H[u \ {Max(u)}]>>]
    <3>0. m \in Nat
      BY <1>4
    <3>1. Max(u) \in u /\ \A y \in u : y <= Max(u)
      <4>. HIDE DEF T, H
      <4>. QED  BY <2>2, <3>0, MaxIs
    <3>2. CASE m \in u
      <4>1. Max(u) = m
        <5>1. m <= Max(u) /\ Max(u) \in 1..m
          BY <3>1, <3>2
        <5>. QED
          BY <5>1, <3>0
      <4>2. H[u] = step[<<m, G[u \ {m}]>>]
        BY <3>2
      <4>3. H[u \ {m}] = G[u \ {m}]
        OBVIOUS
      <4>. QED
        BY <4>1, <4>2, <4>3
    <3>3. CASE m \notin u
      <4>1. u \in SUBSET (1..(m - 1)) /\ Max(u) \in 1..(m - 1)
        <5>1. \A y \in u : y \in 1..m /\ y # m
          BY <3>3
        <5>2. \A y \in u : y \in 1..(m - 1)
          BY <5>1, <3>0
        <5>. QED
          BY <5>2, <3>1
      <4>2. H[u] = G[u] /\ H[u \ {Max(u)}] = G[u \ {Max(u)}]
        BY <3>3
      <4>. QED
        BY <4>1, <4>2, <2>2, <1>5 DEF Folds
    <3>. QED
      BY <3>2, <3>3
  <2>. QED
    BY <2>1, <2>2 DEF Folds
<1>. QED
  BY <1>2, <1>4, <1>7, <1>8

\* P holds what the fold is after each element.
Steps(P, step, base, D, n) ==
    /\ P \in [0..n -> D]
    /\ P[0] = base
    /\ \A k \in 1..n : P[k] = step[<<k, P[k - 1]>>]

\* A function does what the fold does as long as it stays in D.
Follows(h, step, base, D, n) ==
    /\ base \in D /\ n \in Nat /\ step \in [(1..n) \X D -> D]
    /\ h[{}] = base
    /\ \A u \in SUBSET (1..n) : u # {} /\ h[u \ {Max(u)}] \in D =>
         h[u] = step[<<Max(u), h[u \ {Max(u)}]>>]

LEMMA PrefixSteps ==
    ASSUME NEW D, NEW base, NEW n, NEW step, NEW h, Follows(h, step, base, D, n)
    PROVE  \E P : Steps(P, step, base, D, n) /\ P[n] = h[1..n]
<1>. USE DEF Follows
<1>. DEFINE T == {k \in 0..n : h[1..k] \notin D}
<1>0. ASSUME NEW k \in 1..n
      PROVE  /\ k - 1 \in 0..n /\ Max(1..k) = k /\ (1..k) \ {k} = 1..(k - 1)
             /\ 1..k \in SUBSET (1..n) /\ 1..k # {}
  <2>1. 1..k \in SUBSET (1..n) /\ 1..k # {} /\ k \in 1..k
    OBVIOUS
  <2>2. Max(1..k) \in 1..k /\ \A y \in 1..k : y <= Max(1..k)
    BY <2>1, MaxIs
  <2>. QED
    BY <2>1, <2>2
<1>1. T = {}
  <2>1. SUFFICES ASSUME T # {} PROVE FALSE
    OBVIOUS
  <2>2. PICK m \in T : \A k \in T : m <= k
    <3>1. T \in SUBSET Nat
      OBVIOUS
    <3>. HIDE DEF T
    <3>. QED  BY <2>1, <3>1, LeastNat
  <2>3. 1..0 = {}
    OBVIOUS
  <2>4. m \in 1..n
    BY <2>2, <2>3
  <2>5. h[1..(m - 1)] \in D
    BY <2>2, <2>4
  <2>6. h[1..m] = step[<<m, h[1..(m - 1)]>>]
    BY <1>0, <2>4, <2>5
  <2>. QED
    BY <2>2, <2>4, <2>5, <2>6
<1>2. \A k \in 0..n : h[1..k] \in D
  BY <1>1
<1>3. \A k \in 1..n : h[1..k] = step[<<k, h[1..(k - 1)]>>]
  BY <1>0, <1>2
<1>4. h[1..0] = base
  <2>1. 1..0 = {}
    OBVIOUS
  <2>. QED
    BY <2>1
<1>. DEFINE F == [k \in 0..n |-> h[1..k]]
<1>5. F \in [0..n -> D]
  BY <1>2
<1>6. F[0] = base
  BY <1>4
<1>7. \A k \in 1..n : F[k] = step[<<k, F[k - 1]>>]
  BY <1>3
<1>8. Steps(F, step, base, D, n)
  <2>. HIDE DEF F
  <2>. QED  BY <1>5, <1>6, <1>7 DEF Steps
<1>9. F[n] = h[1..n]
  OBVIOUS
<1>10. Steps(F, step, base, D, n) /\ F[n] = h[1..n]
  BY <1>8, <1>9
<1>. HIDE DEF F
<1>. QED
  BY <1>10

-----------------------------------------------------------------------------
(* The folds of CVMEval, over a set that the loop's body does not leave.    *)

\* The body of run_task()'s inner loop stays in D.
PathsClosed(D, t, action) ==
    \A x \in D, k \in DOMAIN TaskPaths(t) :
        TryInput(x, TaskInput(t, action, TaskPaths(t)[k])) \in D

\* The machine after each path of a task's action.
OverPaths(P, D, m, t, action) ==
    /\ P \in [0..Len(TaskPaths(t)) -> D]
    /\ P[0] = m
    /\ \A k \in 1..Len(TaskPaths(t)) :
         P[k] = TryInput(P[k - 1], TaskInput(t, action, TaskPaths(t)[k]))
    /\ TryAction(m, t, action) = P[Len(TaskPaths(t))]

LEMMA PathSteps ==
    ASSUME NEW D, NEW m \in D, NEW t \in Task, NEW action \in PATH_ACTIONS,
           PathsClosed(D, t, action)
    PROVE  \E P : OverPaths(P, D, m, t, action)
<1>. DEFINE n == Len(TaskPaths(t))
            next(a, k) == TryInput(a, TaskInput(t, action, TaskPaths(t)[k]))
            step == [x \in (1..n) \X D |-> next(x[2], x[1])]
            Is(g) == g = [u \in SUBSET DOMAIN TaskPaths(t) |->
                            IF u = {} THEN m ELSE next(g[u \ {Max(u)}], Max(u))]
            h == CHOOSE g : Is(g)
<1>1. n \in Nat /\ DOMAIN TaskPaths(t) = 1..n
  BY TaskListsType
<1>2. TryAction(m, t, action) = h[DOMAIN TaskPaths(t)]
  BY DEF TryAction, FoldLeft, MapThenFoldSet
<1>3. \A k \in 1..n, a \in D : next(a, k) \in D
  BY <1>1 DEF PathsClosed
<1>4. step \in [(1..n) \X D -> D] /\ m \in D
  <2>. HIDE DEF next
  <2>. QED  BY <1>3
<1>5. \A k \in 1..n, a \in D : step[<<k, a>>] = next(a, k)
  <2>. HIDE DEF next
  <2>. QED  OBVIOUS
<1>. HIDE DEF n, step
<1>6. PICK G \in [SUBSET (1..n) -> D] : Folds(G, step, m, n)
  <2>. HIDE DEF next
  <2>. QED  BY <1>1, <1>4, FoldsExist
<1>7. Is(G)
  <2>. HIDE DEF next
  <2>1. ASSUME NEW u \in SUBSET (1..n), u # {}
        PROVE  G[u] = next(G[u \ {Max(u)}], Max(u))
    <3>1. Max(u) \in 1..n /\ G[u \ {Max(u)}] \in D
      BY <1>1, <2>1, MaxIs
    <3>2. G[u] = step[<<Max(u), G[u \ {Max(u)}]>>]
      BY <1>6, <2>1 DEF Folds
    <3>. QED
      BY <3>1, <3>2, <1>5
  <2>2. G[{}] = m
    BY <1>6 DEF Folds
  <2>3. G = [u \in SUBSET (1..n) |-> G[u]]
    OBVIOUS
  <2>. QED
    BY <1>1, <2>1, <2>2, <2>3
<1>8. Is(h)
  <2>. HIDE DEF Is
  <2>. QED  BY <1>7
<1>9. Follows(h, step, m, D, n)
  <2>. HIDE DEF h, next
  <2>1. h[{}] = m
    BY <1>8
  <2>2. ASSUME NEW u \in SUBSET (1..n), u # {}, h[u \ {Max(u)}] \in D
        PROVE  h[u] = step[<<Max(u), h[u \ {Max(u)}]>>]
    <3>1. h[u] = next(h[u \ {Max(u)}], Max(u))
      BY <1>1, <1>8, <2>2
    <3>2. Max(u) \in 1..n
      BY <1>1, <2>2, MaxIs
    <3>. QED
      BY <3>1, <3>2, <2>2, <1>5
  <2>. QED
    BY <1>1, <1>4, <2>1, <2>2 DEF Follows
<1>10. PICK P : Steps(P, step, m, D, n) /\ P[n] = h[1..n]
  <2>. HIDE DEF h
  <2>. QED  BY <1>9, PrefixSteps
<1>11. P[n] = TryAction(m, t, action)
  <2>. HIDE DEF h, next
  <2>. QED  BY <1>1, <1>2, <1>10
<1>12. ASSUME NEW k \in 1..n PROVE P[k] = next(P[k - 1], k)
  <2>. HIDE DEF next, h
  <2>1. k - 1 \in 0..n
    BY <1>1
  <2>2. P[k - 1] \in D /\ P[k] = step[<<k, P[k - 1]>>]
    BY <2>1, <1>10 DEF Steps
  <2>. QED
    BY <2>2, <1>5
<1>13. P \in [0..n -> D] /\ P[0] = m
  BY <1>10 DEF Steps
<1>. QED
  BY <1>11, <1>12, <1>13 DEF n, OverPaths

\* The body of its outer loop does.
ActionsClosed(D, t) ==
    \A x \in D, k \in DOMAIN TaskActions(t) : TryAction(x, t, TaskActions(t)[k]) \in D

\* The machine after each action of a task.
OverActions(P, D, m, t) ==
    /\ P \in [0..Len(TaskActions(t)) -> D]
    /\ P[0] = m
    /\ \A k \in 1..Len(TaskActions(t)) : P[k] = TryAction(P[k - 1], t, TaskActions(t)[k])
    /\ LET n == P[Len(TaskActions(t))]
       IN  RunTask(m, t) = [n EXCEPT !.tasks = IF @ = <<>> THEN @ ELSE Tail(@)]

LEMMA ActionSteps ==
    ASSUME NEW D, NEW m \in D, NEW t \in Task, ActionsClosed(D, t)
    PROVE  \E P : OverActions(P, D, m, t)
<1>. DEFINE n == Len(TaskActions(t))
            next(a, k) == TryAction(a, t, TaskActions(t)[k])
            step == [x \in (1..n) \X D |-> next(x[2], x[1])]
            Is(g) == g = [u \in SUBSET DOMAIN TaskActions(t) |->
                            IF u = {} THEN m ELSE next(g[u \ {Max(u)}], Max(u))]
            h == CHOOSE g : Is(g)
<1>1. n \in Nat /\ DOMAIN TaskActions(t) = 1..n
  BY TaskListsType
<1>2. FoldLeft(LAMBDA u, action : TryAction(u, t, action), m, TaskActions(t)) = h[DOMAIN TaskActions(t)]
  BY DEF FoldLeft, MapThenFoldSet
<1>3. \A k \in 1..n, a \in D : next(a, k) \in D
  BY <1>1 DEF ActionsClosed
<1>4. step \in [(1..n) \X D -> D] /\ m \in D
  <2>. HIDE DEF next
  <2>. QED  BY <1>3
<1>5. \A k \in 1..n, a \in D : step[<<k, a>>] = next(a, k)
  <2>. HIDE DEF next
  <2>. QED  OBVIOUS
<1>. HIDE DEF n, step
<1>6. PICK G \in [SUBSET (1..n) -> D] : Folds(G, step, m, n)
  <2>. HIDE DEF next
  <2>. QED  BY <1>1, <1>4, FoldsExist
<1>7. Is(G)
  <2>. HIDE DEF next
  <2>1. ASSUME NEW u \in SUBSET (1..n), u # {}
        PROVE  G[u] = next(G[u \ {Max(u)}], Max(u))
    <3>1. Max(u) \in 1..n /\ G[u \ {Max(u)}] \in D
      BY <1>1, <2>1, MaxIs
    <3>2. G[u] = step[<<Max(u), G[u \ {Max(u)}]>>]
      BY <1>6, <2>1 DEF Folds
    <3>. QED
      BY <3>1, <3>2, <1>5
  <2>2. G[{}] = m
    BY <1>6 DEF Folds
  <2>3. G = [u \in SUBSET (1..n) |-> G[u]]
    OBVIOUS
  <2>. QED
    BY <1>1, <2>1, <2>2, <2>3
<1>8. Is(h)
  <2>. HIDE DEF Is
  <2>. QED  BY <1>7
<1>9. Follows(h, step, m, D, n)
  <2>. HIDE DEF h, next
  <2>1. h[{}] = m
    BY <1>8
  <2>2. ASSUME NEW u \in SUBSET (1..n), u # {}, h[u \ {Max(u)}] \in D
        PROVE  h[u] = step[<<Max(u), h[u \ {Max(u)}]>>]
    <3>1. h[u] = next(h[u \ {Max(u)}], Max(u))
      BY <1>1, <1>8, <2>2
    <3>2. Max(u) \in 1..n
      BY <1>1, <2>2, MaxIs
    <3>. QED
      BY <3>1, <3>2, <2>2, <1>5
  <2>. QED
    BY <1>1, <1>4, <2>1, <2>2 DEF Follows
<1>10. PICK P : Steps(P, step, m, D, n) /\ P[n] = h[1..n]
  <2>. HIDE DEF h
  <2>. QED  BY <1>9, PrefixSteps
<1>11. P[n] = FoldLeft(LAMBDA u, action : TryAction(u, t, action), m, TaskActions(t))
  <2>. HIDE DEF h, next
  <2>. QED  BY <1>1, <1>2, <1>10
<1>12. ASSUME NEW k \in 1..n PROVE P[k] = next(P[k - 1], k)
  <2>. HIDE DEF next, h
  <2>1. k - 1 \in 0..n
    BY <1>1
  <2>2. P[k - 1] \in D /\ P[k] = step[<<k, P[k - 1]>>]
    BY <2>1, <1>10 DEF Steps
  <2>. QED
    BY <2>2, <1>5
<1>13. P \in [0..n -> D] /\ P[0] = m
  BY <1>10 DEF Steps
<1>. QED
  BY <1>11, <1>12, <1>13 DEF n, OverActions, RunTask

\* The body of run_schedule()'s loop does.
TasksClosed(D, tasks, stop_at) ==
    \A x \in D, k \in DOMAIN tasks : RunNext(x, tasks[k], stop_at) \in D

\* The machine after each task of its list.
OverTasks(P, D, m, stop_at) ==
    /\ P \in [0..Len(m.tasks) -> D]
    /\ P[0] = m
    /\ \A k \in 1..Len(m.tasks) : P[k] = RunNext(P[k - 1], m.tasks[k], stop_at)
    /\ RunDue(m, stop_at) = P[Len(m.tasks)]

LEMMA TaskSteps ==
    ASSUME NEW D, NEW m \in D, NEW stop_at, m.tasks \in Seq(Task),
           TasksClosed(D, m.tasks, stop_at)
    PROVE  \E P : OverTasks(P, D, m, stop_at)
<1>. DEFINE n == Len(m.tasks)
            next(a, k) == RunNext(a, m.tasks[k], stop_at)
            step == [x \in (1..n) \X D |-> next(x[2], x[1])]
            Is(g) == g = [u \in SUBSET DOMAIN m.tasks |->
                            IF u = {} THEN m ELSE next(g[u \ {Max(u)}], Max(u))]
            h == CHOOSE g : Is(g)
<1>1. n \in Nat /\ DOMAIN m.tasks = 1..n
  OBVIOUS
<1>2. RunDue(m, stop_at) = h[DOMAIN m.tasks]
  BY DEF RunDue, FoldLeft, MapThenFoldSet
<1>3. \A k \in 1..n, a \in D : next(a, k) \in D
  BY <1>1 DEF TasksClosed
<1>4. step \in [(1..n) \X D -> D] /\ m \in D
  <2>. HIDE DEF next
  <2>. QED  BY <1>3
<1>5. \A k \in 1..n, a \in D : step[<<k, a>>] = next(a, k)
  <2>. HIDE DEF next
  <2>. QED  OBVIOUS
<1>. HIDE DEF n, step
<1>6. PICK G \in [SUBSET (1..n) -> D] : Folds(G, step, m, n)
  <2>. HIDE DEF next
  <2>. QED  BY <1>1, <1>4, FoldsExist
<1>7. Is(G)
  <2>. HIDE DEF next
  <2>1. ASSUME NEW u \in SUBSET (1..n), u # {}
        PROVE  G[u] = next(G[u \ {Max(u)}], Max(u))
    <3>1. Max(u) \in 1..n /\ G[u \ {Max(u)}] \in D
      BY <1>1, <2>1, MaxIs
    <3>2. G[u] = step[<<Max(u), G[u \ {Max(u)}]>>]
      BY <1>6, <2>1 DEF Folds
    <3>. QED
      BY <3>1, <3>2, <1>5
  <2>2. G[{}] = m
    BY <1>6 DEF Folds
  <2>3. G = [u \in SUBSET (1..n) |-> G[u]]
    OBVIOUS
  <2>. QED
    BY <1>1, <2>1, <2>2, <2>3
<1>8. Is(h)
  <2>. HIDE DEF Is
  <2>. QED  BY <1>7
<1>9. Follows(h, step, m, D, n)
  <2>. HIDE DEF h, next
  <2>1. h[{}] = m
    BY <1>8
  <2>2. ASSUME NEW u \in SUBSET (1..n), u # {}, h[u \ {Max(u)}] \in D
        PROVE  h[u] = step[<<Max(u), h[u \ {Max(u)}]>>]
    <3>1. h[u] = next(h[u \ {Max(u)}], Max(u))
      BY <1>1, <1>8, <2>2
    <3>2. Max(u) \in 1..n
      BY <1>1, <2>2, MaxIs
    <3>. QED
      BY <3>1, <3>2, <2>2, <1>5
  <2>. QED
    BY <1>1, <1>4, <2>1, <2>2 DEF Follows
<1>10. PICK P : Steps(P, step, m, D, n) /\ P[n] = h[1..n]
  <2>. HIDE DEF h
  <2>. QED  BY <1>9, PrefixSteps
<1>11. P[n] = RunDue(m, stop_at)
  <2>. HIDE DEF h, next
  <2>. QED  BY <1>1, <1>2, <1>10
<1>12. ASSUME NEW k \in 1..n PROVE P[k] = next(P[k - 1], k)
  <2>. HIDE DEF next, h
  <2>1. k - 1 \in 0..n
    BY <1>1
  <2>2. P[k - 1] \in D /\ P[k] = step[<<k, P[k - 1]>>]
    BY <2>1, <1>10 DEF Steps
  <2>. QED
    BY <2>2, <1>5
<1>13. P \in [0..n -> D] /\ P[0] = m
  BY <1>10 DEF Steps
<1>. QED
  BY <1>11, <1>12, <1>13 DEF n, OverTasks

\* The body of eval_witness()'s loop does.
StatementsClosed(D, ws) ==
    \A r \in D, k \in DOMAIN ws : EvalStatement(r, ws[k]) \in D

Begin(m) == [m |-> [m EXCEPT !.error = FALSE], flow |-> "next"]

\* The evaluation after each statement of the stack.
OverStatements(P, D, m, ws) ==
    /\ P \in [0..Len(GetStatements(ws)) -> D]
    /\ P[0] = Begin(m)
    /\ \A k \in 1..Len(GetStatements(ws)) :
         P[k] = EvalStatement(P[k - 1], GetStatements(ws)[k])
    /\ EvalResult(m, ws) = P[Len(GetStatements(ws))]

LEMMA StatementSteps ==
    ASSUME NEW D, NEW m, Begin(m) \in D, NEW ws \in Seq(Witness),
           StatementsClosed(D, GetStatements(ws))
    PROVE  \E P : OverStatements(P, D, m, ws)
<1>. DEFINE n == Len(GetStatements(ws))
            next(a, k) == EvalStatement(a, GetStatements(ws)[k])
            step == [x \in (1..n) \X D |-> next(x[2], x[1])]
            Is(g) == g = [u \in SUBSET DOMAIN GetStatements(ws) |->
                            IF u = {} THEN Begin(m) ELSE next(g[u \ {Max(u)}], Max(u))]
            h == CHOOSE g : Is(g)
<1>1. n \in Nat /\ DOMAIN GetStatements(ws) = 1..n
  BY StatementsType
<1>2. EvalResult(m, ws) = h[DOMAIN GetStatements(ws)]
  BY DEF EvalResult, FoldLeft, MapThenFoldSet, Begin
<1>3. \A k \in 1..n, a \in D : next(a, k) \in D
  BY <1>1 DEF StatementsClosed
<1>4. step \in [(1..n) \X D -> D] /\ Begin(m) \in D
  <2>. HIDE DEF next
  <2>. QED  BY <1>3
<1>5. \A k \in 1..n, a \in D : step[<<k, a>>] = next(a, k)
  <2>. HIDE DEF next
  <2>. QED  OBVIOUS
<1>. HIDE DEF n, step
<1>6. PICK G \in [SUBSET (1..n) -> D] : Folds(G, step, Begin(m), n)
  <2>. HIDE DEF next
  <2>. QED  BY <1>1, <1>4, FoldsExist
<1>7. Is(G)
  <2>. HIDE DEF next
  <2>1. ASSUME NEW u \in SUBSET (1..n), u # {}
        PROVE  G[u] = next(G[u \ {Max(u)}], Max(u))
    <3>1. Max(u) \in 1..n /\ G[u \ {Max(u)}] \in D
      BY <1>1, <2>1, MaxIs
    <3>2. G[u] = step[<<Max(u), G[u \ {Max(u)}]>>]
      BY <1>6, <2>1 DEF Folds
    <3>. QED
      BY <3>1, <3>2, <1>5
  <2>2. G[{}] = Begin(m)
    BY <1>6 DEF Folds
  <2>3. G = [u \in SUBSET (1..n) |-> G[u]]
    OBVIOUS
  <2>. QED
    BY <1>1, <2>1, <2>2, <2>3
<1>8. Is(h)
  <2>. HIDE DEF Is
  <2>. QED  BY <1>7
<1>9. Follows(h, step, Begin(m), D, n)
  <2>. HIDE DEF h, next
  <2>1. h[{}] = Begin(m)
    BY <1>8
  <2>2. ASSUME NEW u \in SUBSET (1..n), u # {}, h[u \ {Max(u)}] \in D
        PROVE  h[u] = step[<<Max(u), h[u \ {Max(u)}]>>]
    <3>1. h[u] = next(h[u \ {Max(u)}], Max(u))
      BY <1>1, <1>8, <2>2
    <3>2. Max(u) \in 1..n
      BY <1>1, <2>2, MaxIs
    <3>. QED
      BY <3>1, <3>2, <2>2, <1>5
  <2>. QED
    BY <1>1, <1>4, <2>1, <2>2 DEF Follows
<1>10. PICK P : Steps(P, step, Begin(m), D, n) /\ P[n] = h[1..n]
  <2>. HIDE DEF h
  <2>. QED  BY <1>9, PrefixSteps
<1>11. P[n] = EvalResult(m, ws)
  <2>. HIDE DEF h, next
  <2>. QED  BY <1>1, <1>2, <1>10
<1>12. ASSUME NEW k \in 1..n PROVE P[k] = next(P[k - 1], k)
  <2>. HIDE DEF next, h
  <2>1. k - 1 \in 0..n
    BY <1>1
  <2>2. P[k - 1] \in D /\ P[k] = step[<<k, P[k - 1]>>]
    BY <2>1, <1>10 DEF Steps
  <2>. QED
    BY <2>2, <1>5
<1>13. P \in [0..n -> D] /\ P[0] = Begin(m)
  BY <1>10 DEF Steps
<1>. QED
  BY <1>11, <1>12, <1>13 DEF n, OverStatements

-----------------------------------------------------------------------------
(* One update of a machine.                                                 *)

\* The latest commit is the machine's time.
Dated(m) == m.head # <<>> => m.commit_at = m.head[Len(m.head)].stamp

\* A close closes the machine; after a statement's, only tasks commit.
Sealed(m) ==
    /\ \A i \in 1..Len(m.head) : m.head[i].action = "close" => m.closed
    /\ \A i, j \in 1..Len(m.head) :
          (i < j /\ m.head[i].action = "close" /\ m.head[i].wid # Vmid) =>
              m.head[j].wid = Vmid

\* The machines that sessions come to.
Good == {m \in Machine : Settled(m) /\ Unique(m) /\ Dated(m) /\ Sealed(m)}

LEMMA UpdateGood ==
    ASSUME NEW m \in Good, NEW input \in Input, Accepts(m, input), m.output = Null,
           input.action = "close" => input.path = Null,
           m.closed => input.wid = Vmid
    PROVE  UpdateVMState(m, input) \in Good
<1>. DEFINE u     == UpdateVMState(m, input)
            final == UpdatedStatus(m, input) \in {"closed", "spent"}
<1>1. m \in Machine /\ Settled(m) /\ Unique(m) /\ Dated(m) /\ Sealed(m)
  BY DEF Good
<1>2. u \in Machine
  BY <1>1, UpdateType
<1>3. Settled(u)
  BY <1>1, UpdateSettles
<1>4. Unique(u)
  BY <1>1, UpdateUnique
<1>5. /\ u.paths = UpdatedPaths(m, input)
      /\ u.commit_at = input.stamp
      /\ u.head = Append(m.head, input)
      /\ u.closed = (m.closed \/ final)
      /\ u.output = IF final THEN input.path ELSE m.output
      /\ m.commit_at <= input.stamp /\ input.stamp < ExpiresAt
  <2>1. m \in Machine
    BY <1>1
  <2>. QED
    BY <2>1, UpdateFields
<1>. HIDE DEF u
<1>6. /\ Len(m.head) \in Nat /\ Len(u.head) = Len(m.head) + 1
      /\ \A i \in 1..Len(m.head) : u.head[i] = m.head[i]
      /\ u.head[Len(m.head) + 1] = input
  <2>1. m.head \in Seq(Input)
    BY <1>1 DEF Machine
  <2>. QED
    BY <1>5, <2>1, AppendProperties
<1>7. input.action = "close" => u.closed
  BY <1>5 DEF UpdatedStatus
<1>8. Dated(u)
  BY <1>5, <1>6 DEF Dated
<1>9. Sealed(u)
  <2>1. ASSUME NEW i \in 1..Len(u.head), u.head[i].action = "close" PROVE u.closed
    <3>1. CASE i \in 1..Len(m.head)
      BY <1>1, <1>5, <1>6, <2>1, <3>1 DEF Sealed
    <3>2. CASE i = Len(m.head) + 1
      BY <1>6, <1>7, <2>1, <3>2
    <3>. QED
      BY <1>6, <3>1, <3>2
  <2>2. ASSUME NEW i \in 1..Len(u.head), NEW j \in 1..Len(u.head),
               i < j, u.head[i].action = "close", u.head[i].wid # Vmid
        PROVE  u.head[j].wid = Vmid
    <3>1. i \in 1..Len(m.head) /\ u.head[i] = m.head[i]
      BY <1>6, <2>2
    <3>2. CASE j \in 1..Len(m.head)
      BY <1>1, <1>6, <2>2, <3>1, <3>2 DEF Sealed
    <3>3. CASE j = Len(m.head) + 1
      <4>1. m.closed
        BY <1>1, <2>2, <3>1 DEF Sealed
      <4>. QED
        BY <1>6, <3>3, <4>1
    <3>. QED
      BY <1>6, <3>2, <3>3
  <2>. QED
    BY <2>1, <2>2 DEF Sealed
<1>10. u \in Good
  BY <1>2, <1>3, <1>4, <1>8, <1>9 DEF Good
<1>. QED
  BY <1>10 DEF u

\* What is good is in the log, the paths and the output.
LEMMA SameLogGood ==
    ASSUME NEW m \in Good, NEW n \in Machine,
           n.paths = m.paths, n.head = m.head, n.output = m.output,
           n.closed = m.closed, n.commit_at = m.commit_at
    PROVE  n \in Good
<1>1. m \in Machine /\ Settled(m) /\ Unique(m) /\ Dated(m) /\ Sealed(m)
  BY DEF Good
<1>2. Len(m.head) \in Nat
  BY <1>1 DEF Machine
<1>3. Settled(n)
  BY <1>1, <1>2, SameLogSettled
<1>4. Unique(n)
  BY <1>1 DEF Unique
<1>5. Dated(n) /\ Sealed(n)
  BY <1>1 DEF Dated, Sealed
<1>. QED
  BY <1>3, <1>4, <1>5 DEF Good

LEMMA InitVMGood == InitVM \in Good
<1>1. InitVM \in Machine /\ Settled(InitVM)
  BY InitVMSettled
<1>2. InitVM.head = <<>>
  BY DEF InitVM
<1>3. Unique(InitVM) /\ Dated(InitVM) /\ Sealed(InitVM)
  BY <1>2 DEF Unique, Dated, Sealed
<1>. QED
  BY <1>1, <1>3 DEF Good

-----------------------------------------------------------------------------
(* The tasks.                                                               *)

\* What a task may try: an action that takes no path is tried on none.
Tries(action, path) == action \in STRING /\ (action \notin PATH_ACTIONS => path = Null)

\* D is closed under the updates of t.
UpdatesStay(D, t) ==
    \A x \in D : \A action, path :
        Tries(action, path) => TryInput(x, TaskInput(t, action, path)) \in D

Shifted(m) == [m EXCEPT !.tasks = IF @ = <<>> THEN @ ELSE Tail(@)]

ShiftsStay(D) == \A x \in D : Shifted(x) \in D

LEMMA ActionStays ==
    ASSUME NEW D, NEW m \in D, NEW t \in Task, NEW action \in STRING, UpdatesStay(D, t)
    PROVE  TryAction(m, t, action) \in D
<1>1. CASE action \in PATH_ACTIONS
  <2>1. PathsClosed(D, t, action)
    BY <1>1 DEF PathsClosed, UpdatesStay, Tries
  <2>2. PICK P : OverPaths(P, D, m, t, action)
    BY <1>1, <2>1, PathSteps
  <2>3. Len(TaskPaths(t)) \in 0..Len(TaskPaths(t))
    <3>1. TaskPaths(t) \in Seq(STRING)
      BY TaskListsType
    <3>. QED
      BY <3>1
  <2>. QED
    BY <2>2, <2>3 DEF OverPaths
<1>2. CASE action \notin PATH_ACTIONS
  BY <1>2 DEF UpdatesStay, Tries, TryAction
<1>. QED
  BY <1>1, <1>2

LEMMA UpdatesClose ==
    ASSUME NEW D, NEW t \in Task, UpdatesStay(D, t)
    PROVE  ActionsClosed(D, t)
<1>1. \A k \in DOMAIN TaskActions(t) : TaskActions(t)[k] \in STRING
  BY TaskListsType
<1>. QED
  BY <1>1, ActionStays DEF ActionsClosed

LEMMA LoopStays ==
    ASSUME NEW D, NEW m \in D, NEW t \in Task, UpdatesStay(D, t)
    PROVE  \E n \in D : RunTask(m, t) = Shifted(n)
<1>1. PICK P : OverActions(P, D, m, t)
  BY UpdatesClose, ActionSteps
<1>2. Len(TaskActions(t)) \in 0..Len(TaskActions(t))
  <2>1. TaskActions(t) \in Seq(STRING)
    BY TaskListsType
  <2>. QED
    BY <2>1
<1>. QED
  BY <1>1, <1>2 DEF OverActions, Shifted

LEMMA TaskStays ==
    ASSUME NEW D, NEW m \in D, NEW t \in Task, UpdatesStay(D, t), ShiftsStay(D)
    PROVE  RunTask(m, t) \in D
BY LoopStays DEF ShiftsStay

\* D is closed under everything that any task does.
TasksStay(D) == ShiftsStay(D) /\ \A t \in Task : UpdatesStay(D, t)

LEMMA TasksClose ==
    ASSUME NEW D, NEW tasks \in Seq(Task), NEW stop_at, TasksStay(D)
    PROVE  TasksClosed(D, tasks, stop_at)
<1>1. ASSUME NEW x \in D, NEW k \in DOMAIN tasks PROVE RunNext(x, tasks[k], stop_at) \in D
  <2>1. tasks[k] \in Task
    OBVIOUS
  <2>2. RunTask(x, tasks[k]) \in D
    BY <2>1, TaskStays DEF TasksStay
  <2>. QED
    BY <2>2 DEF RunNext
<1>. QED
  BY <1>1 DEF TasksClosed

LEMMA DueStays ==
    ASSUME NEW D, NEW m \in D, NEW stop_at, m.tasks \in Seq(Task), TasksStay(D)
    PROVE  RunDue(m, stop_at) \in D
<1>1. PICK P : OverTasks(P, D, m, stop_at)
  BY TasksClose, TaskSteps
<1>2. Len(m.tasks) \in 0..Len(m.tasks)
  OBVIOUS
<1>. QED
  BY <1>1, <1>2 DEF OverTasks
LEMMA TriedInput ==
    ASSUME NEW t \in Task, NEW action, NEW path, Tries(action, path),
           NEW m, Accepts(m, TaskInput(t, action, path))
    PROVE  /\ TaskInput(t, action, path) \in Input
           /\ TaskInput(t, action, path).wid = Vmid
           /\ TaskInput(t, action, path).action = "close" =>
                  TaskInput(t, action, path).path = Null
<1>. DEFINE input == TaskInput(t, action, path)
<1>1. /\ input.action = action /\ input.path = path /\ input.wid = Vmid
      /\ input.stamp = t.at + ActiveAt
      /\ input = [action |-> action, path |-> path, stamp |-> t.at + ActiveAt, wid |-> Vmid]
  BY DEF TaskInput
<1>2. t.at + ActiveAt \in Int
  BY TermsAssumption DEF Task
<1>3. action = "close" => path = Null
  BY DEF Tries, PATH_ACTIONS
<1>4. path \in PathSet \cup {Null}
  BY <1>1, <1>3 DEF Accepts, KnownTarget
<1>5. input \in Input
  BY <1>1, <1>2, <1>4 DEF Input, Tries
<1>. QED
  BY <1>1, <1>3, <1>5

\* What a good machine is closed under, so is the set of all of them.
LEMMA GoodTasks == TasksStay(Good)
<1>1. ASSUME NEW m \in Good, NEW t \in Task, NEW action, NEW path, Tries(action, path)
      PROVE  TryInput(m, TaskInput(t, action, path)) \in Good
  <2>1. CASE m.output = Null /\ Accepts(m, TaskInput(t, action, path))
    <3>1. UpdateVMState(m, TaskInput(t, action, path)) \in Good
      BY <1>1, <2>1, TriedInput, UpdateGood
    <3>. QED
      BY <2>1, <3>1 DEF TryInput
  <2>2. CASE ~(m.output = Null /\ Accepts(m, TaskInput(t, action, path)))
    BY <2>2 DEF TryInput
  <2>. QED
    BY <2>1, <2>2
<1>2. ASSUME NEW m \in Good PROVE Shifted(m) \in Good
  <2>1. m \in Machine /\ m.tasks \in Seq(Task)
    BY DEF Good, Machine
  <2>2. m.tasks # <<>> => Tail(m.tasks) \in Seq(Task)
    BY <2>1
  <2>3. /\ Shifted(m) \in Machine
        /\ Shifted(m).paths = m.paths /\ Shifted(m).head = m.head
        /\ Shifted(m).output = m.output
        /\ Shifted(m).closed = m.closed /\ Shifted(m).commit_at = m.commit_at
    BY <2>1, <2>2 DEF Shifted, Machine
  <2>. QED
    BY <2>3, SameLogGood
<1>. QED
  BY <1>1, <1>2 DEF TasksStay, ShiftsStay, UpdatesStay

LEMMA DueGood ==
    ASSUME NEW m \in Good, NEW stop_at
    PROVE  RunDue(m, stop_at) \in Good
<1>1. m.tasks \in Seq(Task)
  BY DEF Good, Machine
<1>. QED
  BY <1>1, GoodTasks, DueStays

-----------------------------------------------------------------------------
(* The statements.                                                          *)

\* A program does not both pass and throw.
LEMMA PassOrThrow ==
    ASSUME NEW m, NEW w \in Witness, w.prog_id \in ProgIds, ExecPasses(m, w)
    PROVE  ~ExecThrows(m, w)
<1>1. ProgramOf(w).method \in {"endorse", "claim"}
  BY FirstProgram DEF Program
<1>2. DOMAIN w.sigs = 1..Len(w.sigs) /\ Len(w.sigs) \in Nat
  <2>1. w.sigs \in Seq(STRING)
    BY DEF Witness
  <2>. QED
    BY <2>1
<1>3. CASE ProgramOf(w).method = "endorse"
  <2>1. EndorsePasses(m, w) /\ (ExecThrows(m, w) = EndorseThrows(m, w))
    BY <1>3 DEF ExecPasses, ExecThrows
  <2>2. ASSUME NEW i \in DOMAIN w.sigs, i <= Missing(m, w) PROVE i \in Recorded(m, w)
    <3>1. Missing(m, w) \in 1..Len(w.sigs)
      BY <1>2, <2>1 DEF EndorsePasses, Recorded
    <3>2. \A j \in 1..Missing(m, w) : Recordable(m, w, j)
      BY <2>1 DEF EndorsePasses, Recorded
    <3>3. 1..i \subseteq 1..Missing(m, w)
      BY <1>2, <2>2, <3>1
    <3>. QED
      BY <2>2, <3>2, <3>3 DEF Recorded
  <2>. QED
    BY <2>1, <2>2 DEF EndorseThrows
<1>4. CASE ProgramOf(w).method = "claim"
  BY <1>4 DEF ExecPasses, ExecThrows
<1>. QED
  BY <1>1, <1>3, <1>4

\* The ways a statement goes.
LEMMA ProgramResult ==
    ASSUME NEW m, NEW w \in Witness, NEW n, n = AfterExec(m, w),
           NEW u, u = UpdateVMState(n, WitnessInput(w))
    PROVE  \/ /\ ~Loads(w)
              /\ RunProgram(m, w) = [m |-> m, flow |-> "throw"]
           \/ /\ Loads(w) /\ ExecThrows(m, w)
              /\ RunProgram(m, w) = [m |-> [n EXCEPT !.error = TRUE], flow |-> "end"]
           \/ /\ Loads(w) /\ ~ExecThrows(m, w) /\ ~ExecPasses(m, w)
              /\ RunProgram(m, w) = [m |-> n, flow |-> "next"]
           \/ /\ Loads(w) /\ ExecPasses(m, w) /\ ~ExecThrows(m, w)
              /\ Accepts(n, WitnessInput(w))
              /\ RunProgram(m, w) = [m |-> u, flow |-> IF u.closed THEN "end" ELSE "next"]
           \/ /\ Loads(w) /\ ExecPasses(m, w) /\ ~ExecThrows(m, w)
              /\ ~Accepts(n, WitnessInput(w)) /\ Crashes(n, WitnessInput(w))
              /\ RunProgram(m, w) = [m |-> m, flow |-> "throw"]
           \/ /\ Loads(w) /\ ExecPasses(m, w) /\ ~ExecThrows(m, w)
              /\ ~Accepts(n, WitnessInput(w)) /\ ~Crashes(n, WitnessInput(w))
              /\ RunProgram(m, w) = [m |-> [n EXCEPT !.error = TRUE], flow |-> "end"]
<1>1. CASE ~Loads(w)
  BY <1>1 DEF RunProgram
<1>2. CASE Loads(w)
  <2>1. ExecPasses(m, w) => ~ExecThrows(m, w)
    BY <1>2, PassOrThrow DEF Loads
  <2>2. Accepts(n, WitnessInput(w)) => ~Crashes(n, WitnessInput(w))
    BY DEF Accepts, Crashes
  <2>3. CASE ExecThrows(m, w)
    BY <1>2, <2>1, <2>3 DEF RunProgram
  <2>4. CASE ~ExecThrows(m, w) /\ ~ExecPasses(m, w)
    BY <1>2, <2>4 DEF RunProgram
  <2>5. CASE ExecPasses(m, w) /\ Accepts(n, WitnessInput(w))
    BY <1>2, <2>1, <2>2, <2>5 DEF RunProgram
  <2>6. CASE ExecPasses(m, w) /\ ~Accepts(n, WitnessInput(w)) /\ Crashes(n, WitnessInput(w))
    BY <1>2, <2>1, <2>6 DEF RunProgram
  <2>7. CASE ExecPasses(m, w) /\ ~Accepts(n, WitnessInput(w)) /\ ~Crashes(n, WitnessInput(w))
    BY <1>2, <2>1, <2>7 DEF RunProgram
  <2>. QED
    BY <2>3, <2>4, <2>5, <2>6, <2>7
<1>. QED
  BY <1>1, <1>2

LEMMA ProgramGood ==
    ASSUME NEW m \in Good, NEW w \in Witness, ~m.closed
    PROVE  RunProgram(m, w).m \in Good
<1>. DEFINE n     == AfterExec(m, w)
            input == WitnessInput(w)
            u     == UpdateVMState(n, input)
            p     == RunProgram(m, w)
<1>1. CASE ~Loads(w)
  BY <1>1 DEF RunProgram
<1>2. CASE Loads(w)
  <2>1. w.prog_id \in ProgIds /\ (w.path = Null <=> w.action \notin PATH_ACTIONS)
    BY <1>2 DEF Loads
  <2>2. m \in Machine /\ Settled(m)
    BY DEF Good
  <2>3. n \in Machine
    BY <2>1, <2>2, AfterExecType
  <2>4. /\ n.paths = m.paths /\ n.head = m.head /\ n.output = m.output
        /\ n.closed = m.closed /\ n.commit_at = m.commit_at
    BY <2>2 DEF AfterExec, Machine
  <2>. HIDE DEF n
  <2>5. n \in Good
    BY <2>3, <2>4, SameLogGood
  <2>6. [n EXCEPT !.error = TRUE] \in Good
    <3>1. [n EXCEPT !.error = TRUE] \in Machine
      BY <2>3 DEF Machine
    <3>2. /\ [n EXCEPT !.error = TRUE].paths = n.paths
          /\ [n EXCEPT !.error = TRUE].head = n.head
          /\ [n EXCEPT !.error = TRUE].output = n.output
          /\ [n EXCEPT !.error = TRUE].closed = n.closed
          /\ [n EXCEPT !.error = TRUE].commit_at = n.commit_at
      BY <2>3 DEF Machine
    <3>. QED
      BY <2>5, <3>1, <3>2, SameLogGood
  <2>7. ASSUME Accepts(n, input) PROVE u \in Good
    <3>1. /\ input.action = w.action /\ input.path = w.path /\ input.stamp = w.stamp
          /\ input.wid = w.prog_id
          /\ input = [action |-> w.action, path |-> w.path, stamp |-> w.stamp,
                      wid |-> w.prog_id]
      BY DEF WitnessInput
    <3>2. w.action = "close" => w.path = Null
      BY <2>1 DEF PATH_ACTIONS
    <3>3. w.path \in PathSet \cup {Null}
      BY <2>7, <3>1, <3>2 DEF Accepts, KnownTarget
    <3>4. input \in Input
      BY <2>1, <3>1, <3>3 DEF Input, Witness
    <3>5. n.output = Null
      BY <2>2, <2>4 DEF Settled
    <3>. QED
      BY <2>4, <2>5, <2>7, <3>1, <3>2, <3>4, <3>5, UpdateGood
  <2>8. p.m \in {m, n, [n EXCEPT !.error = TRUE]} \/ (Accepts(n, input) /\ p.m = u)
    BY <1>2, ProgramResult DEF n
  <2>. QED
    BY <2>5, <2>6, <2>7, <2>8
<1>. QED
  BY <1>1, <1>2

\* D is closed under programs.
ProgramsStay(D) == \A x \in D, w \in Witness : ~x.closed => RunProgram(x, w).m \in D

\* What an evaluation comes to.
Results(D) == [m : D, flow : {"next", "end", "throw"}]

LEMMA StatementStays ==
    ASSUME NEW D \in SUBSET Good, TasksStay(D), ProgramsStay(D),
           NEW r \in Results(D), NEW w \in Witness
    PROVE  EvalStatement(r, w) \in Results(D)
<1>. DEFINE n == RunDue(r.m, w.stamp)
<1>1. r.m \in D /\ n \in D
  <2>1. r.m \in D /\ r.m.tasks \in Seq(Task)
    BY DEF Results, Good, Machine
  <2>. QED
    BY <2>1, DueStays
<1>. HIDE DEF n
<1>2. CASE r.flow # "next"
  BY <1>2 DEF EvalStatement
<1>3. CASE r.flow = "next" /\ n.closed
  BY <1>1, <1>3 DEF EvalStatement, Results, n
<1>4. CASE r.flow = "next" /\ ~n.closed
  <2>1. RunProgram(n, w).m \in D
    BY <1>1, <1>4 DEF ProgramsStay
  <2>2. \E m, flow : flow \in {"next", "end", "throw"}
                     /\ RunProgram(n, w) = [m |-> m, flow |-> flow]
    BY ProgramResult
  <2>3. RunProgram(n, w) \in Results(D)
    BY <2>1, <2>2 DEF Results
  <2>. QED
    BY <1>4, <2>3 DEF EvalStatement, n
<1>. QED
  BY <1>2, <1>3, <1>4

LEMMA ResultStays ==
    ASSUME NEW D \in SUBSET Good, TasksStay(D), ProgramsStay(D),
           NEW m, Begin(m) \in Results(D), NEW ws \in Seq(Witness)
    PROVE  EvalResult(m, ws) \in Results(D)
<1>1. GetStatements(ws) \in Seq(Witness)
  BY StatementsType
<1>2. StatementsClosed(Results(D), GetStatements(ws))
  <2>1. \A k \in DOMAIN GetStatements(ws) : GetStatements(ws)[k] \in Witness
    BY <1>1
  <2>. QED
    BY <2>1, StatementStays DEF StatementsClosed
<1>3. PICK P : OverStatements(P, Results(D), m, ws)
  BY <1>2, StatementSteps
<1>4. Len(GetStatements(ws)) \in 0..Len(GetStatements(ws))
  BY <1>1
<1>. QED
  BY <1>3, <1>4 DEF OverStatements

LEMMA BeginGood ==
    ASSUME NEW m \in Good
    PROVE  /\ Begin(m) \in Results(Good)
           /\ m.error = FALSE => Begin(m) = [m |-> m, flow |-> "next"]
<1>1. m \in Machine
  BY DEF Good
<1>2. /\ [m EXCEPT !.error = FALSE] \in Machine
      /\ [m EXCEPT !.error = FALSE].paths = m.paths
      /\ [m EXCEPT !.error = FALSE].head = m.head
      /\ [m EXCEPT !.error = FALSE].output = m.output
      /\ [m EXCEPT !.error = FALSE].closed = m.closed
      /\ [m EXCEPT !.error = FALSE].commit_at = m.commit_at
  BY <1>1 DEF Machine
<1>3. [m EXCEPT !.error = FALSE] \in Good
  BY <1>2, SameLogGood
<1>4. m.error = FALSE => [m EXCEPT !.error = FALSE] = m
  BY <1>1 DEF Machine
<1>. QED
  BY <1>3, <1>4 DEF Begin, Results

LEMMA GoodPrograms == ProgramsStay(Good)
BY ProgramGood DEF ProgramsStay

LEMMA WitnessGood ==
    ASSUME NEW m \in Good, NEW ws \in Seq(Witness)
    PROVE  EvalWitness(m, ws) \in Good
<1>1. EvalResult(m, ws) \in Results(Good)
  BY BeginGood, GoodTasks, GoodPrograms, ResultStays
<1>. QED
  BY <1>1 DEF EvalWitness, Results

-----------------------------------------------------------------------------
(* What is left of a list.                                                  *)

\* The elements after the first d.
Rest(list, d) == [i \in 1..(Len(list) - d) |-> list[d + i]]

LEMMA RestIs ==
    ASSUME NEW S, NEW s \in Seq(S), NEW d \in 0..Len(s)
    PROVE  /\ Rest(s, d) \in Seq(S)
           /\ Rest(s, 0) = s
           /\ Rest(s, Len(s)) = <<>>
           /\ Rest(s, d) = <<>> <=> d = Len(s)
           /\ Rest(s, d) # <<>> => /\ d + 1 \in 1..Len(s) /\ d + 1 \in 0..Len(s)
                                   /\ Head(Rest(s, d)) = s[d + 1]
                                   /\ Rest(s, d)[1] = s[d + 1]
                                   /\ Tail(Rest(s, d)) = Rest(s, d + 1)
<1>1. Len(s) \in Nat /\ d \in Nat /\ s \in [1..Len(s) -> S] /\ s = [i \in 1..Len(s) |-> s[i]]
  OBVIOUS
<1>2. Len(s) - d \in Nat /\ \A i \in 1..(Len(s) - d) : d + i \in 1..Len(s)
  BY <1>1
<1>3. Rest(s, d) \in Seq(S) /\ Len(Rest(s, d)) = Len(s) - d
  BY <1>1, <1>2 DEF Rest
<1>4. Rest(s, 0) = s
  <2>1. \A i \in 1..Len(s) : s[0 + i] = s[i]
    BY <1>1
  <2>. QED
    BY <1>1, <2>1 DEF Rest
<1>5. Rest(s, Len(s)) = <<>>
  <2>1. Len(s) - Len(s) = 0 /\ 1..0 = {}
    BY <1>1
  <2>2. Rest(s, Len(s)) \in Seq(S) /\ Len(Rest(s, Len(s))) = 0
    BY <1>1, <2>1 DEF Rest
  <2>. QED
    BY <2>2, EmptySeq
<1>6. Rest(s, d) = <<>> <=> d = Len(s)
  BY <1>1, <1>3, EmptySeq
<1>7. ASSUME Rest(s, d) # <<>>
      PROVE  /\ d + 1 \in 1..Len(s) /\ d + 1 \in 0..Len(s)
             /\ Head(Rest(s, d)) = s[d + 1] /\ Rest(s, d)[1] = s[d + 1]
             /\ Tail(Rest(s, d)) = Rest(s, d + 1)
  <2>1. d + 1 \in 1..Len(s) /\ 1 \in 1..(Len(s) - d)
    BY <1>1, <1>3, <1>6, <1>7
  <2>2. Rest(s, d)[1] = s[d + 1] /\ Head(Rest(s, d)) = s[d + 1]
    BY <1>3, <1>7, <2>1 DEF Rest
  <2>3. /\ Tail(Rest(s, d)) \in Seq(S) /\ Len(Tail(Rest(s, d))) = (Len(s) - d) - 1
        /\ \A i \in 1..Len(Tail(Rest(s, d))) : Tail(Rest(s, d))[i] = Rest(s, d)[i + 1]
    BY <1>3, <1>7, HeadTailProperties
  <2>4. (Len(s) - d) - 1 = Len(s) - (d + 1) /\ Len(s) - (d + 1) \in Nat
    BY <1>1, <2>1
  <2>5. \A i \in 1..(Len(s) - (d + 1)) : (d + 1) + i \in 1..Len(s) /\ Rest(s, d)[i + 1] = s[(d + 1) + i]
    <3>1. ASSUME NEW i \in 1..(Len(s) - (d + 1))
          PROVE  (d + 1) + i \in 1..Len(s) /\ Rest(s, d)[i + 1] = s[(d + 1) + i]
      <4>1. /\ i + 1 \in 1..(Len(s) - d) /\ d + (i + 1) = (d + 1) + i
            /\ (d + 1) + i \in 1..Len(s)
        BY <1>1, <2>1
      <4>. QED
        BY <4>1 DEF Rest
    <3>. QED
      BY <3>1
  <2>6. Tail(Rest(s, d)) = Rest(s, d + 1)
    <3>1. /\ Rest(s, d + 1) \in Seq(S) /\ Len(Rest(s, d + 1)) = Len(s) - (d + 1)
          /\ \A i \in 1..(Len(s) - (d + 1)) : Rest(s, d + 1)[i] = s[(d + 1) + i]
      BY <1>1, <2>4, <2>5 DEF Rest
    <3>. DEFINE a == Tail(Rest(s, d))
                b == Rest(s, d + 1)
    <3>2. a \in Seq(S) /\ b \in Seq(S) /\ Len(a) = Len(b)
      BY <2>3, <2>4, <3>1
    <3>3. \A i \in 1..Len(a) : a[i] = b[i]
      BY <2>3, <2>4, <2>5, <3>1
    <3>. HIDE DEF a, b
    <3>4. a = b
      BY <3>2, <3>3, SeqEqual
    <3>. QED
      BY <3>4 DEF a, b
  <2>. QED
    BY <1>1, <2>1, <2>2, <2>6
<1>. QED
  BY <1>3, <1>4, <1>5, <1>6, <1>7

LEMMA RestNext ==
    ASSUME NEW S, NEW s \in Seq(S), NEW d \in 1..Len(s)
    PROVE  Rest(s, d - 1) # <<>> /\ Tail(Rest(s, d - 1)) = Rest(s, d)
<1>1. d - 1 \in 0..Len(s) /\ d - 1 # Len(s) /\ (d - 1) + 1 = d
  OBVIOUS
<1>2. Rest(s, d - 1) = <<>> <=> d - 1 = Len(s)
  BY <1>1, RestIs
<1>3. Rest(s, d - 1) # <<>> => Tail(Rest(s, d - 1)) = Rest(s, (d - 1) + 1)
  BY <1>1, RestIs
<1>. QED
  BY <1>1, <1>2, <1>3
=============================================================================
