---------------------------- MODULE DepositState ----------------------------
(***************************************************************************)
(* The record of a deposit: the operations of core/module/deposit/data.ts, *)
(* each as a guard and a function of the record, and the receipts that go  *)
(* with them (core/module/deposit/{state,util}.ts).                        *)
(***************************************************************************)
EXTENDS Notary

DepositStages == {"registered", "locked", "closed", "spent", "settled"}
DepositStatus == DepositStages \cup {"open"}

\* The fields each INIT_*_STATE() object holds; INIT_RETURN_STATE is the
\* INIT_CLOSE_STATE() of deposits.
INIT_CONF_STATE   == {"confirmed"}
INIT_LOCK_STATE   == {"locked", "covenant", "locked_sig"}
INIT_RETURN_STATE == {"closed", "closed_sig"}

DepositFields ==
    INIT_CONF_STATE \cup INIT_LOCK_STATE \cup INIT_RETURN_STATE
    \cup INIT_SPEND_STATE \cup INIT_SETTLE_STATE \cup {"created_sig"}

\* The fields each GET_*_STATE() object puts back, besides the status.
GET_REGISTER_STATE == DepositFields
GET_CLOSED_STATE   == INIT_SETTLE_STATE \cup {"closed_sig"}

\* Mutant: the text of the lock is taken of the deposit as it is confirmed.
LockedKeepsConf == GET_SPEND_STATE \cup INIT_SPEND_STATE \cup {"locked_sig"}

GET_LOCKED_STATE   ==
    GET_SPEND_STATE \cup INIT_SPEND_STATE \cup INIT_CONF_STATE \cup {"locked_sig"}

\* get_deposit_state(): what the text of each stage puts back.
DepositCleared(stage) ==
    CASE stage = "registered" -> GET_REGISTER_STATE
      [] stage = "locked"     -> GET_LOCKED_STATE
      [] stage = "closed"     -> GET_CLOSED_STATE
      [] stage = "spent"      -> GET_SPEND_STATE
      [] stage = "settled"    -> GET_SETTLE_STATE

DepositNote(deposit, stage) == Note(deposit, DepositCleared(stage), stage)

\* get_deposit_proof() and verify_deposit_sigs(): where the receipt of a stage
\* is kept, and the flag that says there is one.
DepositSig(stage) ==
    CASE stage = "registered" -> "created_sig" [] stage = "locked" -> "locked_sig"
      [] stage = "closed"     -> "closed_sig"  [] stage = "spent"  -> "spent_sig"
      [] stage = "settled"    -> "settled_sig"

DepositHas(deposit, stage) == stage = "registered" \/ deposit[stage]

\* verify_deposit_sig(); a field holds the receipt its stage signed last.
DepositSigVerifies(deposit, stage) ==
    deposit[DepositSig(stage)] = DepositNote(deposit, stage)

\* verify_deposit_sigs() does not throw.
VerifyDepositSigs(deposit) ==
    \A stage \in DepositStages :
        DepositHas(deposit, stage) => DepositSigVerifies(deposit, stage)

-----------------------------------------------------------------------------
\* core/schema/deposit.ts

lock_state(deposit) == StateUnion(deposit, "locked", {"covenant", "locked_sig"})

deposit_close_state(deposit) == StateUnion(deposit, "closed", {"closed_sig"})

deposit_settle_state(deposit) ==
    StateUnion(deposit, "settled", {"settled_sig", "spent_block"})

\* parse_deposit() and validate_deposit_data(), which deposit.verify() calls.
ParseDeposit(deposit) ==
    /\ DOMAIN deposit = DepositFields \cup {"status"}
    /\ deposit.status \in DepositStatus
    /\ \A f \in Flags \cap DepositFields : deposit[f] \in BOOLEAN
    /\ lock_state(deposit)
    /\ deposit_close_state(deposit)
    /\ spend_state(deposit)
    /\ deposit_settle_state(deposit)

-----------------------------------------------------------------------------
\* create_deposit(): a commit request carries a covenant, a register request none.
CreateDeposit(covenant) ==
    LET template == [f \in DepositFields \cup {"status"} |->
                        CASE f = "status"   -> "registered"
                          [] f = "covenant" -> covenant
                          [] OTHER          -> Initial(f)]
    IN [template EXCEPT !.created_sig = DepositNote(template, "registered")]

CanConfirm(deposit) == ~deposit.confirmed

ConfirmDeposit(deposit) ==
    [deposit EXCEPT !.confirmed = TRUE,
                    !.status = IF deposit.locked THEN "locked" ELSE "open"]

CanClose(deposit) ==
    deposit.confirmed /\ ~deposit.locked /\ ~deposit.closed /\ ~deposit.spent

CloseDeposit(deposit) ==
    LET updated == [deposit EXCEPT !.closed = TRUE, !.status = "closed"]
    IN [updated EXCEPT !.closed_sig = DepositNote(updated, "closed")]

CanLock(deposit) == ~deposit.locked /\ ~deposit.closed /\ ~deposit.spent

LockDeposit(deposit, covenant) ==
    LET updated == [deposit EXCEPT !.locked = TRUE, !.covenant = covenant,
                                   !.status = "locked"]
    IN [updated EXCEPT !.locked_sig = DepositNote(updated, "locked")]

CanRelease(deposit) == deposit.locked /\ ~deposit.closed /\ ~deposit.spent

ReleaseDeposit(deposit) ==
    [f \in DOMAIN deposit |->
        IF f = "status" THEN IF deposit.confirmed THEN "open" ELSE "registered"
        ELSE IF f \in INIT_LOCK_STATE THEN Initial(f) ELSE deposit[f]]

CanSpend(deposit) == deposit.confirmed /\ ~deposit.spent

SpendDeposit(deposit, txid) ==
    LET updated == [deposit EXCEPT !.spent = TRUE, !.spent_txid = txid,
                                   !.status = "spent"]
    IN [updated EXCEPT !.spent_sig = DepositNote(updated, "spent")]

CanSettle(deposit) == deposit.confirmed /\ (deposit.spent \/ deposit.closed)

\* Mutant: the block is not kept.
SettleWithoutBlock(deposit, block) ==
    LET updated == [deposit EXCEPT !.settled = TRUE, !.status = "settled"]
    IN [updated EXCEPT !.settled_sig = DepositNote(updated, "settled")]

SettleDeposit(deposit, block) ==
    LET updated == [deposit EXCEPT !.settled = TRUE, !.spent_block = block,
                                   !.status = "settled"]
    IN [updated EXCEPT !.settled_sig = DepositNote(updated, "settled")]
=============================================================================
