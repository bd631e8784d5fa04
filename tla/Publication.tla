---------------------------- MODULE Publication ----------------------------
(***************************************************************************)
(* A draft that is negotiated, published, and received by the agent, which *)
(* checks the proposal and makes a contract of it. The terms of a proposal *)
(* that no member changes are those of the draft's template; no step of a  *)
(* draft reads them, so they are picked when the request is received.      *)
(***************************************************************************)
EXTENDS DraftSession

CONSTANTS
    ProgramTerms,   \* what the terms of a program say: [actions, paths, thold]
    Terms,          \* terms of a template: deadline and effective date may be Null
    Fees,           \* payments to the agent
    Feerate,
    Stamps          \* bound: what the agent's clock may show

\* Amounts and stamps are numbers.
ASSUME PublicationAssumption ==
    /\ IsSequence(Fees) /\ \A i \in DOMAIN Fees : Fees[i].amount \in Int
    /\ Stamps \subseteq Int

VARIABLE contract   \* the contract the agent made, or Null

allVars == <<held, published, contract>>

\* The proposal of a draft with the terms create_proposal() gave it.
Complete(entries, terms) ==
    LET template == CreateProposal(terms, terms.created_at)
        brought  == [paths    |-> entries.paths,
                     payments |-> entries.payments,
                     programs |-> [i \in DOMAIN entries.programs |->
                                     ProgramTerms[entries.programs[i].terms]
                                     @@ [keys |-> entries.programs[i].keys]]]
    IN [field \in DOMAIN template \cup DOMAIN brought |->
           IF field \in DOMAIN brought THEN brought[field] ELSE template[field]]

\* verify_publish_req() and create_contract(); a request that fails changes
\* nothing. The clock is read by check_stamps(), and again for the contract.
Receive(terms, current, created) ==
    LET proposal == Complete(published.proposal, terms) IN
    /\ published # Null
    /\ created >= current
    /\ contract = Null
    /\ VerifyProposalData(proposal, current)
    /\ VerifyEndorsements(published.proposal, published.endorsements)
    /\ contract' = CreateContract(proposal, published.endorsements, Fees, Feerate, created)
    /\ UNCHANGED <<held, published>>

PublicationInit == Init /\ contract = Null

PublicationNext ==
    \/ Next /\ UNCHANGED contract
    \/ \E terms \in Terms, current, created \in Stamps : Receive(terms, current, created)

PublicationSpec == PublicationInit /\ [][PublicationNext]_allVars

-----------------------------------------------------------------------------
(* Properties *)

\* The endorsements a contract carries are of what it was made of: whoever
\* signed a copy of the draft, before or after others joined it, left it and
\* handed it on, verifies the contract against the proposal signed.
EndorsersVerify ==
    contract # Null =>
        \A sig \in ToSet(contract.endorsements) :
            \E terms \in Terms :
                VerifyContractPublishing(contract, Complete(sig.signs, terms))

\* However a contract ends, its template pays every member of the draft it was
\* made of what the member's role is owed on that path, and it pays no more
\* and no less than the funders have to bring.
MembersArePaid ==
    contract # Null =>
        \A label \in DOMAIN contract.outputs :
            LET template == contract.outputs[label]
                Pays(amount, addr) ==
                    [amount |-> amount, addr |-> addr] \in DOMAIN template
            IN /\ contract.subtotal = MapThenSumSet(
                     LAMBDA out : out.amount * template[out], DOMAIN template)
               /\ \A p \in Signers : held[p].proposal = published.proposal =>
                    \A m \in ToSet(held[p].members) :
                        /\ \A e \in PathsOf(m) : e.label = label => Pays(e.amount, e.addr)
                        /\ Policy[m.pid].payment > 0 =>
                             Pays(PaymentOf(m).amount, PaymentOf(m).addr)

\* docs/data/contract.md: deadline_at is the timestamp for when a contract must
\* be funded, so not before the contract is there.
DeadlineIsStamp ==
    contract # Null => contract.deadline_at >= contract.created_at
=============================================================================
