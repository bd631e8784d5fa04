--------------------------- MODULE ContractState ---------------------------
(***************************************************************************)
(* The record of a contract: the operations of core/module/contract/data.ts *)
(* with the receipts and the sums that go with them (state.ts, util.ts).    *)
(* A deposit that funds a contract is known here by whether it is confirmed *)
(* and by its value.                                                        *)
(***************************************************************************)
EXTENDS Notary

CONSTANTS
    Subtotal,           \* the value of the terms and the fees of the agent
    Feerate,
    BaseSize,           \* tx_bsize: the size of the largest template
    SPEND_TXIN_SIZE

ASSUME ContractAssumption == {Subtotal, Feerate, BaseSize, SPEND_TXIN_SIZE} \subseteq Nat

vin_txfee == Feerate * SPEND_TXIN_SIZE

ContractStages ==
    {"published", "canceled", "secured", "active", "closed", "spent", "settled"}

\* The fields each INIT_*_STATE() object holds.
INIT_PUBLISH_STATE == Totals
INIT_CANCEL_STATE  == {"canceled", "canceled_sig"}
INIT_FUNDING_STATE == {"secured", "secured_sig"}
INIT_ACTIVE_STATE  == {"activated", "active_sig", "machine_head"}
INIT_CLOSE_STATE   == {"closed", "closed_sig", "machine_vout"}

ContractFields ==
    INIT_PUBLISH_STATE \cup INIT_CANCEL_STATE \cup INIT_FUNDING_STATE
    \cup INIT_ACTIVE_STATE \cup INIT_CLOSE_STATE \cup INIT_SPEND_STATE
    \cup INIT_SETTLE_STATE \cup {"created_sig"}

\* The fields each GET_*_STATE() object puts back, besides the status.
GET_CLOSE_STATE   == GET_SPEND_STATE \cup INIT_SPEND_STATE \cup {"closed_sig"}

\* Mutant: the text of the activation keeps the head of the machine.
ActiveKeepsHead == GET_CLOSE_STATE \cup INIT_CLOSE_STATE \cup {"active_sig"}

GET_ACTIVE_STATE  ==
    GET_CLOSE_STATE \cup INIT_CLOSE_STATE \cup {"active_sig", "machine_head"}
GET_FUNDING_STATE == GET_ACTIVE_STATE \cup INIT_ACTIVE_STATE \cup {"secured_sig"}
GET_PUBLISH_STATE ==
    GET_ACTIVE_STATE \cup INIT_ACTIVE_STATE \cup INIT_CANCEL_STATE
    \cup INIT_PUBLISH_STATE \cup INIT_FUNDING_STATE \cup {"created_sig"}

\* get_contract_state(): what the text of each stage puts back.
ContractCleared(stage) ==
    CASE stage = "published" -> GET_PUBLISH_STATE
      [] stage = "canceled"  -> {}
      [] stage = "secured"   -> GET_FUNDING_STATE
      [] stage = "active"    -> GET_ACTIVE_STATE
      [] stage = "closed"    -> GET_CLOSE_STATE
      [] stage = "spent"     -> GET_SPEND_STATE
      [] stage = "settled"   -> GET_SETTLE_STATE

\* The text of a cancellation holds the status as it stands.
ContractNote(contract, stage) ==
    Note(contract, ContractCleared(stage),
         IF stage = "canceled" THEN contract.status ELSE stage)

\* get_contract_proof() and verify_contract_sigs(): where the receipt of a stage
\* is kept, and the flag that says there is one.
ContractSig(stage) ==
    CASE stage = "published" -> "created_sig"  [] stage = "canceled" -> "canceled_sig"
      [] stage = "secured"   -> "secured_sig"  [] stage = "active"   -> "active_sig"
      [] stage = "closed"    -> "closed_sig"   [] stage = "spent"    -> "spent_sig"
      [] stage = "settled"   -> "settled_sig"

ContractHas(contract, stage) ==
    CASE stage = "published" -> TRUE
      [] stage = "active"    -> contract.activated
      [] OTHER               -> contract[stage]

\* verify_contract_sig(); a field holds the receipt its stage signed last.
ContractSigVerifies(contract, stage) ==
    contract[ContractSig(stage)] = ContractNote(contract, stage)

\* verify_contract_sigs() gets past every receipt but those a cancellation leaves
\* behind: its own, and that of the funding it undoes.
ReceiptsVerify(contract) ==
    \A stage \in ContractStages \ {"canceled"} :
        /\ ContractHas(contract, stage)
        /\ ~(stage = "secured" /\ contract.canceled)
        => ContractSigVerifies(contract, stage)

-----------------------------------------------------------------------------
\* core/schema/contract.ts

publish_state(contract) == StateUnion(contract, "canceled", {"canceled_sig"})
funding_state(contract) == StateUnion(contract, "secured", {"secured_sig"})
engine_state(contract)  == StateUnion(contract, "activated", {"active_sig", "machine_head"})

contract_close_state(contract) ==
    /\ StateUnion(contract, "closed", {"closed_sig"})
    /\ NullUnless(contract, "closed", "machine_vout")

contract_settle_state(contract) ==
    /\ StateUnion(contract, "settled", {"settled_sig"})
    /\ NullUnless(contract, "settled", "spent_block")

\* parse_contract() and validate_contract_data(), which contract.verify() calls.
ParseContract(contract) ==
    /\ DOMAIN contract = ContractFields \cup {"status"}
    /\ contract.status \in ContractStages
    /\ \A f \in Flags \cap ContractFields : contract[f] \in BOOLEAN
    /\ publish_state(contract) /\ funding_state(contract) /\ engine_state(contract)
    /\ contract_close_state(contract)
    /\ spend_state(contract)
    /\ contract_settle_state(contract)

-----------------------------------------------------------------------------
\* create_contract()
CreateContract ==
    LET template == [f \in ContractFields \cup {"status"} |->
                        CASE f = "status"   -> "published"
                          [] f = "tx_fees"  -> BaseSize * Feerate
                          [] f = "tx_total" -> Subtotal + BaseSize * Feerate
                          [] f = "tx_vsize" -> BaseSize
                          [] OTHER          -> Initial(f)]
    IN [template EXCEPT !.created_sig = ContractNote(template, "published")]

CancelContract(contract) ==
    LET updated == [contract EXCEPT !.canceled = TRUE, !.status = "canceled"]
    IN [updated EXCEPT !.canceled_sig = ContractNote(updated, "canceled")]

AddContractFunds(contract, confirmed, value) ==
    IF confirmed
    THEN [contract EXCEPT !.funds_conf = @ + value,
                          !.tx_fees = @ + vin_txfee,
                          !.tx_total = @ + value + vin_txfee,
                          !.tx_vsize = @ + SPEND_TXIN_SIZE,
                          !.vin_count = @ + 1]
    ELSE [contract EXCEPT !.funds_pend = @ + value]

\* The caller's deposit is confirmed.
ConfirmContractFunds(contract, value) ==
    [AddContractFunds(contract, TRUE, value) EXCEPT !.funds_pend = @ - value]

\* Mutant: the deposit is taken for pending, as it was when it was added.
RemPendingFunds(contract, confirmed, value) ==
    [contract EXCEPT !.funds_pend = @ - value]

RemContractFunds(contract, confirmed, value) ==
    IF confirmed
    THEN [contract EXCEPT !.funds_conf = @ - value,
                          !.tx_fees = @ - vin_txfee,
                          !.tx_total = @ - (value + vin_txfee),
                          !.tx_vsize = @ - SPEND_TXIN_SIZE,
                          !.vin_count = @ - 1]
    ELSE [contract EXCEPT !.funds_pend = @ - value]

\* secure_contract() of count deposits that hold sum, all of them confirmed.
CanSecure(contract, count, sum) ==
    /\ ~contract.canceled
    /\ sum >= Subtotal + (Feerate * BaseSize + vin_txfee * count)

SecureContract(contract, count, sum) ==
    LET fees == Feerate * BaseSize + vin_txfee * count
        updated == [contract EXCEPT !.vin_count = count,
                                    !.funds_pend = 0,
                                    !.funds_conf = sum,
                                    !.secured = TRUE,
                                    !.tx_fees = fees,
                                    !.tx_total = Subtotal + fees,
                                    !.tx_vsize = BaseSize + count * SPEND_TXIN_SIZE,
                                    !.status = "secured"]
    IN [updated EXCEPT !.secured_sig = ContractNote(updated, "secured")]

\* activate_contract(); a machine is new at vmid.
ActivateContract(contract, vmid) ==
    LET updated == [contract EXCEPT !.activated = TRUE, !.machine_head = vmid,
                                    !.status = "active"]
    IN [updated EXCEPT !.active_sig = ContractNote(updated, "active")]

CanCloseContract(contract, machine) == contract.activated /\ machine.closed

CloseContract(contract, machine) ==
    LET updated == [contract EXCEPT !.closed = TRUE,
                                    !.machine_head = machine.head,
                                    !.machine_vout = machine.output,
                                    !.status = "closed"]
    IN [updated EXCEPT !.closed_sig = ContractNote(updated, "closed")]

SpendContract(contract, txid) ==
    LET updated == [contract EXCEPT !.spent = TRUE, !.spent_txid = txid,
                                    !.status = "spent"]
    IN [updated EXCEPT !.spent_sig = ContractNote(updated, "spent")]

\* settle_contract(); block is Null where there is no transaction.
SettleContract(contract, block) ==
    LET updated == [contract EXCEPT !.settled = TRUE, !.spent_block = block,
                                    !.status = "settled"]
    IN [updated EXCEPT !.settled_sig = ContractNote(updated, "settled")]

-----------------------------------------------------------------------------
\* tabulate_funds() of count confirmed deposits that hold sum.
TabulateFunds(count, sum) ==
    [vin_count |-> count, fund_value |-> sum,
     tx_fees   |-> BaseSize * Feerate + count * vin_txfee,
     tx_vsize  |-> BaseSize + count * SPEND_TXIN_SIZE,
     tx_total  |-> Subtotal + BaseSize * Feerate + count * vin_txfee]
=============================================================================
