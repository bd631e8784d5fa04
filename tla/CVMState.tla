------------------------------ MODULE CVMState ------------------------------
(***************************************************************************)
(* The data of one CVM instance and the functions that read and update it: *)
(* src/src/cvm/lib/{action,path,program,schedule,state}.ts and the program *)
(* methods.  The module has no variables.  CVM.tla runs these operators    *)
(* one call at a time, CVMEval.tla folds them into whole evaluations.      *)
(*                                                                         *)
(* A regular expression of the contract terms is the sequence of its       *)
(* alternatives ("spend|resolve" is <<"spend", "resolve">>, "*" is         *)
(* <<"*">>).  The hash of a commit is the record of what it stands for.    *)
(***************************************************************************)
EXTENDS Integers, Sequences, FiniteSets

CONSTANTS
    PathNames,      \* sequence of the contract's spending paths, in terms order
    Programs,       \* sequence of programs, in terms order
    Schedule,       \* sequence of scheduled tasks, in terms order
    ActiveAt,       \* activation time of the machine
    ExpiresAt,      \* expiration time of the machine
    Substring       \* pairs <<pattern, label>>: pattern occurs inside label

Null == "null"
NoStamp == -1
Vmid == "vmid"

PathActionList == <<"lock", "release", "dispute", "resolve", "spend">>
ValidActionList == <<"close">> \o PathActionList
PATH_ACTIONS == {"lock", "release", "dispute", "resolve", "spend"}

PathStates == {"open", "locked", "disputed", "spent"}
VMStatus == {"init", "disputed", "closed", "spent"}

PathSet == {PathNames[i] : i \in DOMAIN PathNames}
ProgIds == {Programs[i].prog_id : i \in DOMAIN Programs}

Program ==
    [prog_id : STRING, method : {"claim", "endorse"}, actions : Seq(STRING),
     paths : Seq(STRING), thold : Nat \ {0}, members : SUBSET STRING]

Task == [at : Int, actions : Seq(STRING), paths : Seq(STRING)]

Witness ==
    [prog_id : STRING, action : STRING, path : STRING, sigs : Seq(STRING),
     preimage : BOOLEAN, stamp : Int]

\* A commit, and a machine at rest or at work.
Input ==
    [action : STRING, path : PathSet \cup {Null}, stamp : Int,
     wid : ProgIds \cup {Vmid}]

Machine ==
    [closed : BOOLEAN, closed_at : Int, commit_at : Int, error : BOOLEAN,
     head : Seq(Input), output : PathSet \cup {Null},
     paths : [PathSet -> PathStates], status : VMStatus,
     store : SUBSET [prog_id : ProgIds, path : STRING, action : STRING, pub : STRING],
     tasks : Seq(Task)]

\* The terms of the contract; no path is named "null" and the machine's id is
\* the hash of something else than a program.
ASSUME TermsAssumption ==
    /\ PathNames \in Seq(STRING) /\ Null \notin PathSet
    /\ Programs \in Seq(Program) /\ Vmid \notin ProgIds
    /\ Schedule \in Seq(Task)
    /\ ActiveAt \in Int /\ ExpiresAt \in Int

\* The action labels are strings (true of any literal; the provers know no
\* literal to be a member of STRING).
ASSUME LabelAssumption == PATH_ACTIONS \cup {"close"} \subseteq STRING

-----------------------------------------------------------------------------
(* Access expressions of programs and tasks.                               *)

\* regex(): an unanchored pattern test, so "lock" also matches "unlock".
Regex(input, expr) ==
    \/ expr = <<"*">>
    \/ \E i \in DOMAIN expr : expr[i] = input \/ <<expr[i], input>> \in Substring

\* get_access_list().wlist: the labels a task names, or all of them.
AccessList(expr, labels) == IF expr = <<"*">> THEN labels ELSE expr

\* Stable sort of s by the numbers in key: element i comes after those that it
\* does not precede.
Before(key, j, i) == key[j] < key[i] \/ (key[j] = key[i] /\ j < i)

Rank(key, i) == Cardinality({j \in DOMAIN key : Before(key, j, i)}) + 1

SortBy(s, key) == [k \in DOMAIN s |-> s[CHOOSE i \in DOMAIN s : Rank(key, i) = k]]

\* init_tasks() and get_statements(): by time, by stamp.
InitTasks(schedule) == SortBy(schedule, [i \in DOMAIN schedule |-> schedule[i].at])
GetStatements(ws) == SortBy(ws, [i \in DOMAIN ws |-> ws[i].stamp])

-----------------------------------------------------------------------------
(* Path actions.                                                           *)

\* Mutant: exec_spend() without its test for a dispute.
SpendIgnoresDispute(action, pstate, status) ==
    \/ action = "spend"   /\ pstate # "locked"
    \/ action = "lock"    /\ pstate \notin {"locked", "disputed"}
    \/ action = "dispute" /\ pstate # "disputed"
    \/ action = "resolve" /\ status = "disputed"

\* Mutant: exec_dispute() without its test.
DisputeAgain(action, pstate, status) ==
    \/ action \in {"spend", "lock"} /\ pstate \notin {"locked", "disputed"}
    \/ action = "dispute"
    \/ action = "resolve" /\ status = "disputed"

\* run_path_action() does not throw.  Its switch spells the release "unlock",
\* a label that is in no action list.
PathActionAllowed(action, pstate, status) ==
    \/ action = "spend"   /\ pstate \notin {"locked", "disputed"}
    \/ action = "lock"    /\ pstate \notin {"locked", "disputed"}
    \/ action = "dispute" /\ pstate # "disputed"
    \/ action = "unlock"  /\ pstate = "locked"
    \/ action = "resolve" /\ status = "disputed"

PathActionResult(action) ==
    CASE action \in {"spend", "resolve"} -> "spent"
      [] action = "lock"                 -> "locked"
      [] action = "dispute"              -> "disputed"
      [] OTHER                           -> "open"

\* Mutant: every new path state becomes the machine's status.
StatusFollowsPath(status, pstate) == pstate

UpdatePathVMStatus(status, pstate) ==
    IF pstate \in {"spent", "disputed"} THEN pstate ELSE status

-----------------------------------------------------------------------------
(* update_vm_state(): one input [action, path, stamp, wid] on machine m.    *)

\* Mutant: the test against the latest commit is missing.
StampUnordered(m, stamp) == ActiveAt <= stamp /\ stamp < ExpiresAt

CheckUpdateStamp(m, stamp) == m.commit_at <= stamp /\ stamp < ExpiresAt

KnownTarget(input) == input.action \in PATH_ACTIONS /\ input.path \in PathSet

\* The update goes through ...
Accepts(m, input) ==
    /\ CheckUpdateStamp(m, input.stamp)
    /\ \/ input.action = "close"
       \/ /\ KnownTarget(input)
          /\ PathActionAllowed(input.action, m.paths[input.path], m.status)

\* ... or throws an error that is no VMError (unknown action or path) ...
Crashes(m, input) ==
    /\ CheckUpdateStamp(m, input.stamp)
    /\ input.action # "close"
    /\ ~KnownTarget(input)

\* ... or else throws a VMError.  A thrown update has changed nothing.

UpdatedPaths(m, input) ==
    IF input.action = "close" THEN m.paths
    ELSE [m.paths EXCEPT ![input.path] = PathActionResult(input.action)]

UpdatedStatus(m, input) ==
    IF input.action = "close" THEN "closed"
    ELSE UpdatePathVMStatus(m.status, PathActionResult(input.action))

\* The status is compared after the update: once it reads "closed", whatever
\* path is named next becomes the output.
UpdateVMState(m, input) ==
    LET final == UpdatedStatus(m, input) \in {"closed", "spent"}
    IN  [m EXCEPT !.paths     = UpdatedPaths(m, input),
                  !.status    = UpdatedStatus(m, input),
                  !.commit_at = input.stamp,
                  !.head      = Append(@, input),
                  !.closed    = @ \/ final,
                  !.closed_at = IF final THEN input.stamp ELSE @,
                  !.output    = IF final THEN input.path ELSE @]

-----------------------------------------------------------------------------
(* Programs and witness statements.  A witness is a record [prog_id,        *)
(* action, path, sigs, preimage, stamp]; sigs is the sequence of signing    *)
(* keys and preimage says whether args hold the hash-lock's preimage.       *)

\* Array.find(): the first program with the witness's id.  The id hashes the
\* method and the parameters only, so several programs may carry it.
IsProgramOf(w, i) ==
    /\ i \in DOMAIN Programs
    /\ Programs[i].prog_id = w.prog_id
    /\ \A j \in 1..(i - 1) : Programs[j].prog_id # w.prog_id

ProgramOf(w) == Programs[CHOOSE i \in DOMAIN Programs : IsProgramOf(w, i)]

\* load_program() does not throw.
Loads(w) ==
    /\ w.prog_id \in ProgIds
    /\ Regex(w.action, ProgramOf(w).actions)
    /\ w.path = Null <=> w.action \notin PATH_ACTIONS
    /\ w.path # Null => Regex(w.path, ProgramOf(w).paths)

\* Mutant: the store is keyed by program, not by path and action.
VotesOnAnything(m, w) == {v.pub : v \in {u \in m.store : u.prog_id = w.prog_id}}

\* The keys recorded for the statement's program under its path/action label.
Votes(m, w) ==
    {v.pub : v \in {u \in m.store : /\ u.prog_id = w.prog_id
                                   /\ u.path = w.path
                                   /\ u.action = w.action}}

Vote(w, pub) ==
    [prog_id |-> w.prog_id, path |-> w.path, action |-> w.action, pub |-> pub]

\* How many more keys reach the threshold; the count is taken after a record.
Missing(m, w) ==
    LET n == ProgramOf(w).thold - Cardinality(Votes(m, w))
    IN  IF n > 0 THEN n ELSE 1

\* record_entry() takes the i-th key: a member, not on record, not repeated.
Recordable(m, w, i) ==
    /\ w.sigs[i] \in ProgramOf(w).members \ Votes(m, w)
    /\ \A j \in 1..(i - 1) : w.sigs[j] # w.sigs[i]

\* The signatures endorse.exec() records before it returns or throws.
Recorded(m, w) ==
    {i \in DOMAIN w.sigs : /\ i <= Missing(m, w)
                           /\ \A j \in 1..i : Recordable(m, w, j)}

EndorsePasses(m, w) == Missing(m, w) \in Recorded(m, w)

EndorseThrows(m, w) ==
    \E i \in DOMAIN w.sigs : i <= Missing(m, w) /\ i \notin Recorded(m, w)

ClaimPasses(w) ==
    /\ w.preimage
    /\ Len(w.sigs) > 0
    /\ w.sigs[1] \in ProgramOf(w).members

\* exec() returns true, throws a VMError, or (endorse alone) returns false.
ExecPasses(m, w) ==
    CASE ProgramOf(w).method = "endorse" -> EndorsePasses(m, w)
      [] ProgramOf(w).method = "claim"   -> ClaimPasses(w)

ExecThrows(m, w) ==
    CASE ProgramOf(w).method = "endorse" -> EndorseThrows(m, w)
      [] ProgramOf(w).method = "claim"   -> ~ClaimPasses(w)

\* The program's store after exec(), whatever exec() returned.
AfterExec(m, w) ==
    IF ProgramOf(w).method = "endorse"
    THEN [m EXCEPT !.store = @ \cup {Vote(w, w.sigs[i]) : i \in Recorded(m, w)}]
    ELSE m

WitnessInput(w) ==
    [action |-> w.action, path |-> w.path, stamp |-> w.stamp, wid |-> w.prog_id]

-----------------------------------------------------------------------------
(* Scheduled tasks [at, actions, paths].                                    *)

\* get_tasks(): the filter; updated_at is the activation time and never moves.
Due(t, stop_at) ==
    LET stamp == t.at + ActiveAt IN ActiveAt <= stamp /\ stamp <= stop_at

\* The timers of a schedule count from the activation on; the schema takes
\* negative ones, too, which are never due (proposal.ts, schedule.ts).
TimersForward == \A i \in DOMAIN Schedule : Schedule[i].at >= 0

\* The actions and the paths run_task() goes through, in order.
TaskActions(t) == AccessList(t.actions, ValidActionList)
TaskPaths(t) == AccessList(t.paths, PathNames)

TaskInput(t, action, path) ==
    [action |-> action, path |-> path, stamp |-> t.at + ActiveAt, wid |-> Vmid]

-----------------------------------------------------------------------------
(* init_vm().                                                               *)

\* init_path_state(): locked if some program on the path matches "unlock",
\* which a program that may "lock" does.
InitPathState(path) ==
    IF \E i \in DOMAIN Programs : /\ Regex(path, Programs[i].paths)
                                  /\ Regex("unlock", Programs[i].actions)
    THEN "locked" ELSE "open"

\* validate_path_terms(): init_vm() throws on a dispute without a resolve.
PathTermsValid(path) ==
    LET Grants(action) == \E i \in DOMAIN Programs :
                             /\ Regex(path, Programs[i].paths)
                             /\ Regex(action, Programs[i].actions)
    IN  Grants("dispute") => Grants("resolve")

\* A machine exists only for terms that init_vm() does not throw on.
ASSUME InitAssumption == \A p \in PathSet : PathTermsValid(p)

InitVM ==
    [closed    |-> FALSE,
     closed_at |-> NoStamp,
     commit_at |-> ActiveAt,
     error     |-> FALSE,
     head      |-> <<>>,
     output    |-> Null,
     paths     |-> [p \in PathSet |-> InitPathState(p)],
     status    |-> "init",
     store     |-> {},
     tasks     |-> InitTasks(Schedule)]
=============================================================================
