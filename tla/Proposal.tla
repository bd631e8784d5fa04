------------------------------ MODULE Proposal ------------------------------
(***************************************************************************)
(* A proposal and the contract an agent makes of it: core/lib/proposal.ts,  *)
(* core/validation/proposal.ts and the parts of core/module/contract and    *)
(* core/validation/contract.ts that publish it. The entries of a proposal   *)
(* are records in sequences, an expression of its terms is the set of its   *)
(* alternatives, and Null an optional field that is not there. Outputs are  *)
(* sorted before they are encoded: a template is the bag of its outputs.    *)
(***************************************************************************)
EXTENDS Integers, FiniteSets, SequencesExt

CONSTANTS
    Null,
    ProposalPolicy,     \* the bounds the agent sets, by their names
    DEADLINE_DEFAULT,
    SPEND_TX_BASE_SIZE, \* bytes of a template without outputs
    OutputSize          \* bytes of one output

VALID_ACTIONS == {"close", "lock", "release", "dispute", "resolve", "spend"}

\* Whatever its entries are.
IsSequence(entries) == entries \in Seq(ToSet(entries))

\* get_proposal_deadline(): what is left until the effective date, by default.
GetProposalDeadline(template, current) ==
    CASE template.deadline # Null  -> template.deadline
      [] template.deadline = Null /\ template.effective # Null ->
            template.effective - current
      [] OTHER -> DEADLINE_DEFAULT

CreateProposal(template, current) ==
    [template EXCEPT !.deadline = GetProposalDeadline(template, current)]

\* Array.filter(): the entries that are kept, in their order.
Filter(entries, kept) ==
    FoldLeft(LAMBDA acc, e : IF e \in kept THEN Append(acc, e) ELSE acc, <<>>, entries)

FilterPath(label, paths) == Filter(paths, {e \in ToSet(paths) : e.label = label})

GetPathNames(paths) == {paths[i].label : i \in DOMAIN paths}

GetPayTotal(payments) == FoldLeft(LAMBDA acc, e : acc + e.amount, 0, payments)

GetPathTotal(paths) ==
    [label \in GetPathNames(paths) |-> GetPayTotal(FilterPath(label, paths))]

BagOf(entries) ==
    [e \in ToSet(entries) |-> Cardinality({i \in DOMAIN entries : entries[i] = e})]

Outputs(entries) ==
    [i \in DOMAIN entries |-> [amount |-> entries[i].amount, addr |-> entries[i].addr]]

GetPathVouts(label, paths, payments) ==
    BagOf(Outputs(FilterPath(label, paths)) \o Outputs(payments))

\* Mutant: the result of the check is dropped, as has_signature_api() does.
ResultDropped(proposal, sig) == TRUE

\* verify_endorsement(), of the proposal whose id the signature is of.
VerifyEndorsement(proposal, sig) == sig.signs = proposal

VerifyEndorsements(proposal, sigs) ==
    \A i \in DOMAIN sigs : VerifyEndorsement(proposal, sigs[i])

-----------------------------------------------------------------------------
(* The checks of the agent *)

CheckRegex(labels, regex) == regex = {"*"} \/ regex \subseteq labels

CheckFeerate(proposal) ==
    proposal.feerate # Null =>
        proposal.feerate \in ProposalPolicy.FEERATE_MIN..ProposalPolicy.FEERATE_MAX

\* Mutant: a path may pay less than the value.
CheckPaymentsAtMost(proposal) ==
    LET fees == GetPayTotal(proposal.payments) IN
    \A label \in GetPathNames(proposal.paths) :
        GetPathTotal(proposal.paths)[label] + fees <= proposal.value

CheckPayments(proposal) ==
    LET fees == GetPayTotal(proposal.payments) IN
    /\ fees <= proposal.value
    /\ \A label \in GetPathNames(proposal.paths) :
         GetPathTotal(proposal.paths)[label] + fees = proposal.value

\* verify_program_entry() of a program that endorses: its threshold and keys.
VerifyProgramEntry(program) == program.thold \in 1..Len(program.keys)

CheckPrograms(proposal) ==
    \A program \in ToSet(proposal.programs) :
        /\ CheckRegex(VALID_ACTIONS, program.actions)
        /\ CheckRegex(GetPathNames(proposal.paths), program.paths)
        /\ VerifyProgramEntry(program)

CheckSchedule(proposal) ==
    \A task \in ToSet(proposal.schedule) :
        /\ task.timer < proposal.duration
        /\ CheckRegex(VALID_ACTIONS, task.actions)
        /\ CheckRegex(GetPathNames(proposal.paths), task.paths)

CheckStamps(proposal, current) ==
    /\ proposal.duration \in ProposalPolicy.DURATION_MIN..ProposalPolicy.DURATION_MAX
    /\ proposal.deadline \in ProposalPolicy.DEADLINE_MIN..ProposalPolicy.DEADLINE_MAX
    /\ proposal.effective # Null =>
         proposal.effective \in (current + proposal.deadline)
                                    ..(current + ProposalPolicy.EFFECTIVE_MAX)

VerifyProposalData(proposal, current) ==
    /\ CheckFeerate(proposal)
    /\ CheckPayments(proposal)
    /\ CheckStamps(proposal, current)
    /\ CheckPrograms(proposal)
    /\ CheckSchedule(proposal)

-----------------------------------------------------------------------------
(* The contract *)

CreateSpendTemplates(proposal, fees) ==
    [label \in GetPathNames(proposal.paths) |->
        GetPathVouts(label, proposal.paths, proposal.payments \o fees)]

\* Of a contract with paths.
GetMaxVoutSize(outputs) ==
    SPEND_TX_BASE_SIZE
    + OutputSize * Max({BagCardinality(outputs[label]) : label \in DOMAIN outputs})

\* The id is of the templates without their labels.
GetContractId(outputs, proposal, stamp) ==
    [prop_id |-> proposal, stamp |-> stamp, templates |-> Range(outputs)]

\* get_deadline(): the remaining time until the effective date, if there is one.
GetDeadline(proposal, published) ==
    IF proposal.effective # Null THEN proposal.effective - published
    ELSE published + proposal.deadline

CreateContract(proposal, endorsements, fees, feerate, created_at) ==
    LET outputs == CreateSpendTemplates(proposal, fees)
        bsize   == GetMaxVoutSize(outputs)
        total   == proposal.value + GetPayTotal(fees)
    IN [cid          |-> GetContractId(outputs, proposal, created_at),
        created_at   |-> created_at,
        deadline_at  |-> GetDeadline(proposal, created_at),
        endorsements |-> endorsements,
        fees         |-> fees,
        outputs      |-> outputs,
        subtotal     |-> total,
        terms        |-> proposal,
        tx_total     |-> total + bsize * feerate]

\* verify_contract_publishing(): a member's check against the proposal it knows.
VerifyContractPublishing(contract, proposal) ==
    LET outputs == CreateSpendTemplates(proposal, contract.fees) IN
    /\ proposal = contract.terms
    /\ GetContractId(outputs, proposal, contract.created_at) = contract.cid
    /\ \A label \in DOMAIN outputs :
         /\ label \in DOMAIN contract.outputs
         /\ contract.outputs[label] = outputs[label]
=============================================================================
