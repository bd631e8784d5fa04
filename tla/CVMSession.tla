----------------------------- MODULE CVMSession -----------------------------
(***************************************************************************)
(* Members and an escrow agent at work on the machine of an active         *)
(* contract, in the order of test/src/e2e/settle.test.ts and               *)
(* demo/09_submit_statements.ts: a member creates a statement, others      *)
(* check it and sign it too, the agent verifies and evaluates it and makes *)
(* a receipt of it; the agent runs the schedule from time to time, and     *)
(* members check what they are given by evaluating the statements          *)
(* themselves (src/src/core/validation/{witness,contract}.ts).             *)
(***************************************************************************)
EXTENDS CVMEval


CONSTANTS
    Members,        \* the keys that sign statements
    Templates,      \* what members may state: [action, method, path, preimage]
    Stamps,         \* the stamps a template may carry
    RunTimes,       \* the times the agent may run the schedule to
    MaxAccepted,    \* bound: statements accepted
    MaxSigs         \* bound: signatures of a statement

ASSUME SessionAssumption ==
    /\ Members \subseteq STRING
    /\ Templates \subseteq
         [action : STRING, method : STRING, path : STRING, preimage : BOOLEAN]
    /\ Stamps \subseteq Int
    /\ RunTimes \subseteq Int
    /\ MaxAccepted \in Nat
    /\ MaxSigs \in Nat \ {0}

VARIABLES
    drafts,     \* the statement that goes round, if any
    machine,    \* the agent's machine
    accepted,   \* the statements given a receipt, in that order
    receipts,   \* the receipts, as the agent signed them
    ran_to,     \* the latest time the agent has run the schedule to, if at all
    behind      \* history: a statement was accepted that is older than that

vars == <<drafts, machine, accepted, receipts, ran_to, behind>>

Init ==
    /\ drafts = {}
    /\ machine = InitVM
    /\ accepted = <<>> /\ receipts = <<>>
    /\ ran_to = ActiveAt - 1
    /\ behind = FALSE

-----------------------------------------------------------------------------
(* The member's side: core/lib/program.ts and core/module/witness.           *)

\* get_program(): the programs of that method and access with all the keys.
Matches(query, keys) ==
    {i \in DOMAIN Programs :
        /\ Programs[i].method = query.method
        /\ Regex(query.action, Programs[i].actions)
        /\ query.path # Null => Regex(query.path, Programs[i].paths)
        /\ keys \subseteq Programs[i].members}

\* create_witness(): a statement under the first of them.
CreateWitness(keys, tmpl, stamp) ==
    [prog_id |-> Programs[Min(Matches(tmpl, keys))].prog_id,
     action |-> tmpl.action, path |-> tmpl.path, sigs |-> <<>>,
     preimage |-> tmpl.preimage, stamp |-> stamp]

\* can_endorse(): some program gives the key that access; the one the statement
\* names need not be it.
CanEndorse(pub, w) ==
    Matches([method |-> ProgramOf(w).method, action |-> w.action, path |-> w.path],
            {pub}) # {}

EndorseWitness(pub, w) == [w EXCEPT !.sigs = Append(@, pub)]

\* verify_witness_sigs(): the signatures themselves are sound.
VerifyWitnessSigs(program, w) == Range(w.sigs) \subseteq program.members

\* verify_witness_data() does not throw; the id is the hash of the statement.
VerifyWitnessData(m, w) ==
    /\ w.prog_id \in ProgIds
    /\ Regex(w.action, ProgramOf(w).actions)
    /\ ActiveAt <= w.stamp
    /\ m.commit_at <= w.stamp
    /\ w.stamp < ExpiresAt
    /\ m.output = Null
    /\ w.path # Null => Regex(w.path, ProgramOf(w).paths) /\ w.path \in PathSet
    /\ VerifyWitnessSigs(ProgramOf(w), w)

\* create_witness_api(): made for the member's own key and signed with it.
Create(pub, tmpl, stamp) ==
    /\ drafts = {} /\ Len(accepted) < MaxAccepted
    /\ Matches(tmpl, {pub}) # {}
    /\ drafts' = {EndorseWitness(pub, CreateWitness({pub}, tmpl, stamp))}
    /\ UNCHANGED <<machine, accepted, receipts, ran_to, behind>>

\* endorse_witness_api(), of a member that can_sign_api() told yes, on the
\* machine as it was read at the activation or lately.
Endorse(pub, w) ==
    /\ Len(w.sigs) < MaxSigs
    /\ CanEndorse(pub, w)
    /\ \E m \in {InitVM, machine} : VerifyWitnessData(m, w)
    /\ drafts' = {EndorseWitness(pub, w)}
    /\ UNCHANGED <<machine, accepted, receipts, ran_to, behind>>

\* create_receipt(): the statement and the machine's state after it.
CreateReceipt(m, w) ==
    [witness |-> w, vm_head |-> m.head, vm_output |-> m.output,
     vm_closed |-> m.closed]

\* verify_witness_receipt() on the member's copy of the machine.
VerifyWitnessReceipt(r, w, m) ==
    /\ r.witness = w
    /\ m.commit_at = r.witness.stamp
    /\ m.head = r.vm_head
    /\ m.output = r.vm_output

\* Mutant: a statement that commits nothing is not kept.
SubmitCommits(w) ==
    LET m == EvalWitness(machine, <<w>>) IN
    /\ VerifyWitnessData(machine, w)
    /\ EvalResult(machine, <<w>>).flow # "throw"
    /\ ~m.error
    /\ machine' = m
    /\ accepted' = IF m.head = machine.head THEN accepted ELSE Append(accepted, w)
    /\ receipts' = IF m.head = machine.head THEN receipts
                   ELSE Append(receipts, CreateReceipt(m, w))
    /\ behind' = (behind \/ w.stamp < ran_to)
    /\ drafts' = {}
    /\ UNCHANGED ran_to

\* Mutant: the receipt is made of the machine before the evaluation.
SubmitStaleReceipt(w) ==
    LET m == EvalWitness(machine, <<w>>) IN
    /\ VerifyWitnessData(machine, w)
    /\ EvalResult(machine, <<w>>).flow # "throw"
    /\ ~m.error
    /\ machine' = m
    /\ accepted' = Append(accepted, w)
    /\ receipts' = Append(receipts, CreateReceipt(machine, w))
    /\ behind' = (behind \/ w.stamp < ran_to)
    /\ drafts' = {}
    /\ UNCHANGED ran_to

\* Mutant: the receipt is kept once per program.
SubmitOneReceipt(w) ==
    LET m == EvalWitness(machine, <<w>>) IN
    /\ VerifyWitnessData(machine, w)
    /\ EvalResult(machine, <<w>>).flow # "throw"
    /\ ~m.error
    /\ machine' = m
    /\ accepted' = Append(accepted, w)
    /\ receipts' = Append(SelectSeq(receipts, LAMBDA r : r.witness.prog_id # w.prog_id),
                           CreateReceipt(m, w))
    /\ behind' = (behind \/ w.stamp < ran_to)
    /\ drafts' = {}
    /\ UNCHANGED ran_to

\* The agent takes a statement that evaluates without an error.  A statement
\* that is handed over again is one created again with the same stamp.
Submit(w) ==
    LET m == EvalWitness(machine, <<w>>) IN
    /\ VerifyWitnessData(machine, w)
    /\ EvalResult(machine, <<w>>).flow # "throw"
    /\ ~m.error
    /\ machine' = m
    /\ accepted' = Append(accepted, w)
    /\ receipts' = Append(receipts, CreateReceipt(m, w))
    /\ behind' = (behind \/ w.stamp < ran_to)
    /\ drafts' = {}
    /\ UNCHANGED ran_to

RunSchedule(t) ==
    /\ ran_to <= t
    /\ machine.output = Null
    /\ machine' = EvalSchedule(machine, t)
    /\ ran_to' = t
    /\ UNCHANGED <<drafts, accepted, receipts, behind>>

Next ==
    \/ \E pub \in Members, tmpl \in Templates, t \in Stamps : Create(pub, tmpl, t)
    \/ \E pub \in Members, w \in drafts : Endorse(pub, w)
    \/ \E w \in drafts : Submit(w)
    \/ \E t \in RunTimes : RunSchedule(t)

Spec == Init /\ [][Next]_vars
-----------------------------------------------------------------------------
(* What a member computes.                                                  *)

\* Mutant: the statements as one array.
ReplaySorted(ws) == EvalWitness(InitVM, ws)

\* verify_contract_execution(): the statements one by one, in the agent's order.
Replay(ws) == FoldLeft(LAMBDA m, w : EvalWitness(m, <<w>>), InitVM, ws)

\* Its assertions, on what the model has of a machine.
SameExecution(m, n) ==
    /\ m.closed = n.closed /\ m.closed_at = n.closed_at
    /\ m.commit_at = n.commit_at
    /\ m.head = n.head
    /\ m.output = n.output

VerifyContractExecution(m, ws) == SameExecution(Replay(ws), m)

\* verify_contract_session(): the statements as one array.
VerifyContractSession(m, ws) ==
    /\ VerifyContractExecution(EvalWitness(InitVM, ws), GetStatements(ws))
    /\ SameExecution(EvalWitness(InitVM, ws), m)
-----------------------------------------------------------------------------
\* Every accepted statement has one receipt, in order, and the agent's machine
\* is a machine of this contract (types/witness.ts, types/machine.ts).
TypeOK ==
    /\ Cardinality(drafts) <= 1
    /\ \A w \in drafts : /\ w.prog_id \in ProgIds /\ w.stamp \in Stamps
                         /\ Range(w.sigs) \subseteq Members
                         /\ Len(w.sigs) \in 1..MaxSigs
    /\ DOMAIN receipts = DOMAIN accepted
    /\ \A i \in DOMAIN accepted : receipts[i].witness = accepted[i]
    /\ ran_to \in RunTimes \cup {ActiveAt - 1}
    /\ behind \in BOOLEAN
    /\ machine.output \in PathSet \cup {Null}

\* The agent's machine is the one that anybody gets from the accepted statements
\* and the time the schedule was run to, however the two were interleaved, as
\* long as no statement was accepted behind that time (contract.ts, main.ts).
ReplayDecides == ~behind => machine = EvalSchedule(Replay(accepted), ran_to)

\* A statement decided the machine, and none came behind the schedule.
ByStatement == ~behind /\ machine.output # Null /\ Last(machine.head).wid # Vmid

\* If a statement decided the machine, verify_contract_execution() passes for
\* whoever has the statements (settle.test.ts ends on this).
StatementsVerify == ByStatement => VerifyContractExecution(machine, accepted)

\* Statements whose stamps are in order give the same machine as one array and
\* one by one, unless the machine closed without an output on the way; and of a
\* machine that one of them decided, verify_contract_session() passes as well
\* (contract.ts, main.ts).
BatchReplays ==
    LET InOrder == \A i, j \in DOMAIN accepted :
                      i < j => accepted[i].stamp <= accepted[j].stamp
        Closes  == \E i \in DOMAIN machine.head : machine.head[i].action = "close"
    IN  (InOrder /\ ~Closes) =>
            /\ EvalWitness(InitVM, accepted) = Replay(accepted)
            /\ ByStatement => VerifyContractSession(machine, accepted)

\* A statement that is submitted again, or again with another signer, is not
\* committed again (endorse.ts records keys, action.ts refuses a repetition).
CommittedOnce ==
    \A i, j \in DOMAIN machine.head :
        (i < j /\ machine.head[i].wid # Vmid) => machine.head[i] # machine.head[j]

\* Each receipt is what a member computes from the statements up to it: the
\* machine the agent signed, with the schedule run in between or not, is that of
\* their replay, and if it committed the statement, verify_witness_receipt()
\* passes there (witness.ts; settle.test.ts line 266).
ReceiptsReplay ==
    ~behind => \A i \in DOMAIN receipts :
        LET m == Replay(SubSeq(accepted, 1, i)) IN
        /\ receipts[i] = CreateReceipt(m, accepted[i])
        /\ m.head # <<>> /\ Last(m.head) = WitnessInput(accepted[i]) =>
             VerifyWitnessReceipt(receipts[i], accepted[i], m)

\* Whoever has the contract and the statements can verify how the machine came
\* to its output (docs/resources/intro.md, "Settlement").
ExecutionVerifies == machine.output # Null => VerifyContractExecution(machine, accepted)

=============================================================================
