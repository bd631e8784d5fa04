------------------------------- MODULE Escrow -------------------------------
(***************************************************************************)
(* An agent that keeps the records of one contract, of the deposits that   *)
(* may fund it and of its machine. The operations of the records run in    *)
(* the order of test/src/e2e/{settle,return}.test.ts, each after the        *)
(* requests that call for it are verified (core/validation); the funders   *)
(* come and go in any order until the contract is secured. Each step is    *)
(* one operation with the records saved: the agent's handlers are not in   *)
(* the repository. The machine keeps the promise of CommitLog.              *)
(***************************************************************************)
EXTENDS DepositState, ContractState, Integers, FiniteSetsExt

CONSTANTS
    Deposits,
    Value,          \* [Deposits -> Nat]: what the utxo of each holds
    Covenants,      \* covenants a funder may make
    Paths,          \* the outputs the machine may decide on
    Blocks,         \* blocks a transaction may be confirmed in
    MaxCommits      \* bound: commits of the machine

ASSUME EscrowAssumption ==
    /\ Value \in [Deposits -> Nat]
    /\ MaxCommits \in Nat
    /\ Null \notin Covenants \cup Paths \cup Blocks

VARIABLES
    contract,   \* the record of the contract
    deposits,   \* the records of the deposits made so far
    funding,    \* the deposits the agent lists as funds of the contract
    machine,    \* head, closed and output of the machine, Null before it is made
    recounted   \* history: the deposits locked while they were funds already

vars == <<contract, deposits, funding, machine, recounted>>

Init ==
    /\ contract = CreateContract
    /\ deposits = [d \in {} |-> Null]
    /\ funding = {}
    /\ machine = Null
    /\ recounted = {}

Made == DOMAIN deposits

\* The records once d is made.
With(d, deposit) ==
    [e \in Made \cup {d} |-> IF e = d THEN deposit ELSE deposits[e]]

Confirmed == {d \in funding : deposits[d].confirmed}
SumOf(S)  == MapThenSumSet(LAMBDA d : Value[d], S)

\* What verify_covenant_data() asks of the contract.
Fundable == ~contract.activated /\ contract.status = "published"

-----------------------------------------------------------------------------
\* verify_register_req() and create_deposit().
Register(d) ==
    /\ d \notin Made
    /\ deposits' = With(d, CreateDeposit(Null))
    /\ UNCHANGED <<contract, funding, machine, recounted>>

\* verify_commit_req(), create_deposit() and add_contract_funds(); the agent
\* may lock the deposit right away with the covenant it came with.
Commit(d, covenant) ==
    /\ d \notin Made
    /\ Fundable
    /\ \E created \in {CreateDeposit(covenant),
                       LockDeposit(CreateDeposit(covenant), covenant)} :
         deposits' = With(d, created)
    /\ contract' = AddContractFunds(contract, FALSE, Value[d])
    /\ funding' = funding \cup {d}
    /\ UNCHANGED <<machine, recounted>>

\* Mutant: the funds are added as confirmed and never taken off the pending ones.
ConfirmAddsOnly(d) ==
    /\ d \in Made
    /\ CanConfirm(deposits[d])
    /\ deposits' = [deposits EXCEPT ![d] = ConfirmDeposit(@)]
    /\ contract' = IF d \in funding THEN AddContractFunds(contract, TRUE, Value[d])
                   ELSE contract
    /\ UNCHANGED <<funding, machine, recounted>>

\* confirm_deposit(), with confirm_contract_funds() where it funds the contract.
Confirm(d) ==
    /\ d \in Made
    /\ CanConfirm(deposits[d])
    /\ deposits' = [deposits EXCEPT ![d] = ConfirmDeposit(@)]
    /\ contract' = IF d \in funding THEN ConfirmContractFunds(contract, Value[d])
                   ELSE contract
    /\ UNCHANGED <<funding, machine, recounted>>

\* verify_lock_req(), lock_deposit() and add_contract_funds(). None of them looks
\* at the covenant: a deposit that was committed and not locked, and so is a fund
\* already, may be locked with another once it is confirmed.
Lock(d, covenant) ==
    /\ d \in Made
    /\ Fundable
    /\ deposits[d].confirmed
    /\ CanLock(deposits[d])
    /\ deposits' = [deposits EXCEPT ![d] = LockDeposit(@, covenant)]
    /\ contract' = AddContractFunds(contract, TRUE, Value[d])
    /\ funding' = funding \cup {d}
    /\ recounted' = recounted \cup ({d} \cap funding)
    /\ UNCHANGED machine

\* rem_contract_funds(), with release_deposit() where the deposit is locked,
\* while the contract waits for funds or after it is canceled.
Withdraw(d) ==
    /\ d \in funding
    /\ contract.status \in {"published", "canceled"}
    /\ contract' = RemContractFunds(contract, deposits[d].confirmed, Value[d])
    /\ funding' = funding \ {d}
    /\ IF CanRelease(deposits[d])
       THEN deposits' = [deposits EXCEPT ![d] = ReleaseDeposit(@)]
       ELSE UNCHANGED deposits
    /\ UNCHANGED <<machine, recounted>>

\* Mutant: a deposit that holds a covenant is closed as well.
CloseAnyDeposit(d) ==
    /\ d \in Made
    /\ CanClose(deposits[d])
    /\ deposits' = [deposits EXCEPT ![d] = CloseDeposit(@)]
    /\ UNCHANGED <<contract, funding, machine, recounted>>

\* verify_close_req() and close_deposit().
Close(d) ==
    /\ d \in Made
    /\ deposits[d].covenant = Null
    /\ CanClose(deposits[d])
    /\ deposits' = [deposits EXCEPT ![d] = CloseDeposit(@)]
    /\ UNCHANGED <<contract, funding, machine, recounted>>

\* spend_deposit() with the return transaction, for a deposit that funds nothing.
Return(d) ==
    /\ d \in Made
    /\ d \notin funding
    /\ CanSpend(deposits[d])
    /\ deposits' = [deposits EXCEPT ![d] = SpendDeposit(@, "return")]
    /\ UNCHANGED <<contract, funding, machine, recounted>>

\* settle_deposit(); it may be called again when a block is replaced.
Settle(d, block) ==
    /\ d \in Made
    /\ CanSettle(deposits[d])
    /\ deposits' = [deposits EXCEPT ![d] = SettleDeposit(@, block)]
    /\ UNCHANGED <<contract, funding, machine, recounted>>

-----------------------------------------------------------------------------
\* cancel_contract(), up to the activation.
Cancel ==
    /\ contract.status \in {"published", "secured"}
    /\ contract' = CancelContract(contract)
    /\ UNCHANGED <<deposits, funding, machine, recounted>>

\* secure_contract() with the deposits that fund the contract.
Secure ==
    /\ contract.status = "published"
    /\ Confirmed = funding
    /\ CanSecure(contract, Cardinality(funding), SumOf(funding))
    /\ contract' = SecureContract(contract, Cardinality(funding), SumOf(funding))
    /\ UNCHANGED <<deposits, funding, machine, recounted>>

\* activate_contract() and the machine's init(); the head is the count of commits.
Activate ==
    /\ contract.status = "secured"
    /\ contract' = ActivateContract(contract, 0)
    /\ machine' = [head |-> 0, closed |-> FALSE, output |-> Null]
    /\ UNCHANGED <<deposits, funding, recounted>>

\* A commit of the machine, which may close it and decide on an output.
MachineCommit ==
    /\ machine # Null
    /\ machine.output = Null
    /\ machine.head < MaxCommits
    /\ \E closed \in {c \in BOOLEAN : machine.closed => c},
          output \in {Null} \cup Paths :
         /\ output # Null => closed
         /\ machine' = [head |-> machine.head + 1, closed |-> closed,
                        output |-> output]
    /\ UNCHANGED <<contract, deposits, funding, recounted>>

\* Mutant: the contract is closed as soon as the machine is.
CloseOnClosed ==
    /\ contract.status = "active"
    /\ CanCloseContract(contract, machine)
    /\ contract' = CloseContract(contract, machine)
    /\ UNCHANGED <<deposits, funding, machine, recounted>>

\* close_contract(), once the machine has an output.
CloseWithOutput ==
    /\ contract.status = "active"
    /\ CanCloseContract(contract, machine)
    /\ machine.output # Null
    /\ contract' = CloseContract(contract, machine)
    /\ UNCHANGED <<deposits, funding, machine, recounted>>

\* The transaction get_settlement_tx() makes and verify_contract_spending()
\* makes again: the output the contract closed on and the funds it spends.
SettlementTx == <<contract.machine_vout, funding>>

\* get_settlement_tx() and spend_contract().
Spend ==
    /\ contract.status = "closed"
    /\ contract.machine_vout # Null
    /\ \A d \in funding : deposits[d].covenant # Null
    /\ contract' = SpendContract(contract, SettlementTx)
    /\ UNCHANGED <<deposits, funding, machine, recounted>>

\* spend_deposit() with that transaction, for a deposit that funds the contract.
SpendFunds(d) ==
    /\ d \in funding
    /\ contract.spent
    /\ CanSpend(deposits[d])
    /\ deposits' = [deposits EXCEPT ![d] = SpendDeposit(@, contract.spent_txid)]
    /\ UNCHANGED <<contract, funding, machine, recounted>>

\* settle_contract() when the transaction is confirmed, or with none when a
\* canceled contract has given its funds back.
SettleFunds(block) ==
    /\ IF block = Null THEN contract.status = "canceled" /\ funding = {}
       ELSE contract.spent
    /\ contract' = SettleContract(contract, block)
    /\ UNCHANGED <<deposits, funding, machine, recounted>>

Next ==
    \/ \E d \in Deposits :
         \/ Register(d) \/ Confirm(d) \/ Withdraw(d) \/ Close(d)
         \/ Return(d) \/ SpendFunds(d)
         \/ \E c \in Covenants : Commit(d, c) \/ Lock(d, c)
         \/ \E b \in Blocks : Settle(d, b)
    \/ Cancel \/ Secure \/ Activate \/ MachineCommit \/ CloseWithOutput \/ Spend
    \/ \E b \in Blocks \cup {Null} : SettleFunds(b)

Spec == Init /\ [][Next]_vars

-----------------------------------------------------------------------------
(* Properties *)

\* Every record the agent hands out parses at the client: each flag and the
\* fields that go with it agree, whatever was released, canceled or settled in
\* between. The one exception is a deposit committed and never locked, which
\* holds a covenant that the schema has no place for. No sum runs below zero,
\* except the total: funds withdrawn from a contract canceled after its
\* securing take their value off a total without it.
TypeOK ==
    /\ ParseContract(contract)
    /\ \A f \in Totals \ {"tx_total"} : contract[f] \in Nat
    /\ contract.tx_total \in Int
    /\ Made \subseteq Deposits
    /\ \A d \in Made :
         /\ deposits[d].covenant \in Covenants \cup {Null}
         /\ \/ ParseDeposit(deposits[d])
            \/ /\ ~deposits[d].locked /\ deposits[d].covenant # Null
               /\ ParseDeposit([deposits[d] EXCEPT !.covenant = Null])
    /\ funding \subseteq Made
    /\ machine # Null => machine.head \in 0..MaxCommits
    /\ recounted \subseteq Made

\* verify_deposit_sigs() accepts every deposit the agent hands out, whatever
\* was confirmed, released, spent or settled since its receipts were signed.
\* The one exception is a deposit closed and then spent: spend_deposit() does
\* not look at closed, and the text of the closing keeps what it writes.
DepositReceiptsVerify ==
    \A d \in Made :
        ~(deposits[d].closed /\ deposits[d].spent) => VerifyDepositSigs(deposits[d])

\* The receipts of a contract go on verifying through every later stage. A
\* cancellation is the exception: its own text is the record as it stands,
\* and it changes what the receipt of the funding before it was signed over.
ContractReceiptsVerify == ReceiptsVerify(contract)

\* The deposits whose value the sums hold once more than they should: nothing
\* takes it off again, until secure_contract() writes the sums anew.
CountedTwice == IF contract.secured THEN {} ELSE recounted

\* The sums add_contract_funds(), confirm_contract_funds() and
\* rem_contract_funds() keep are those tabulate_funds() makes of the deposits
\* themselves, in whatever order funders committed, were confirmed, locked and
\* left. A deposit locked when it was a fund already is counted twice, and once
\* still when it has left. The total agrees from the securing on.
FundsTabulate ==
    LET tab == TabulateFunds(Cardinality(Confirmed) + Cardinality(CountedTwice),
                             SumOf(Confirmed) + SumOf(CountedTwice)) IN
    /\ contract.vin_count = tab.vin_count
    /\ contract.funds_conf = tab.fund_value
    /\ contract.funds_pend = SumOf(funding \ Confirmed)
    /\ contract.tx_fees = tab.tx_fees
    /\ contract.tx_vsize = tab.tx_vsize
    /\ contract.secured /\ ~contract.canceled => contract.tx_total = tab.tx_total

\* From its securing on a contract that is not canceled keeps its funds: they
\* are confirmed, under a covenant, cover what the transaction pays, and none
\* is returned to its funder or spent otherwise.
SecuredFundsStay ==
    contract.secured /\ ~contract.canceled =>
        /\ SumOf(funding) >= contract.tx_total
        /\ \A d \in funding :
             /\ deposits[d].confirmed
             /\ deposits[d].covenant # Null
             /\ ~deposits[d].closed
             /\ deposits[d].spent => contract.spent
                                     /\ deposits[d].spent_txid = contract.spent_txid

\* What the members check of a closed and of a spent contract holds whenever
\* they check it (verify_contract_activation, _close and _spending): the
\* machine has not moved on from what the contract was closed with, and the
\* transaction spends the funds the agent lists.
SettlementVerifies ==
    /\ contract.activated => ~contract.canceled
    /\ contract.closed =>
         /\ machine.closed
         /\ machine.head = contract.machine_head
         /\ machine.output = contract.machine_vout
    /\ contract.spent =>
         /\ contract.closed
         /\ contract.spent_txid = SettlementTx

\* core/validation/contract.ts checks the receipt of a canceled contract, so a
\* cancellation just signed should verify.
CancellationVerifies ==
    contract.canceled => ContractSigVerifies(contract, "canceled")
=============================================================================
