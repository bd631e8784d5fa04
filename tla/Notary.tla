------------------------------- MODULE Notary -------------------------------
(***************************************************************************)
(* The receipts an agent signs over a record (src/src/util/notarize.ts and *)
(* the state.ts of deposits and contracts). A record keeps changing after  *)
(* a receipt is signed, so the text of the receipt is the record with the  *)
(* fields that later stages write put back to what they were initially.    *)
(* A record is a function on the names of its fields; a field is written   *)
(* with its stamp, which is left out. A receipt holds the text it signs:   *)
(* the hash and the signature add nothing to it.                           *)
(***************************************************************************)
EXTENDS Naturals

CONSTANT Null

Flags  == {"canceled", "secured", "activated", "confirmed", "locked", "closed",
           "spent", "settled"}
Totals == {"funds_conf", "funds_pend", "tx_fees", "tx_total", "tx_vsize", "vin_count"}

\* What the INIT_*_STATE() objects hold at a field.
Initial(f) == IF f \in Flags THEN FALSE ELSE IF f \in Totals THEN 0 ELSE Null

\* The fields of the INIT_*_STATE() objects that deposits and contracts share.
INIT_SPEND_STATE  == {"spent", "spent_txid", "spent_sig"}
INIT_SETTLE_STATE == {"settled", "spent_block", "settled_sig"}

\* The fields that GET_SPEND_STATE() and GET_SETTLE_STATE() of either put back.
GET_SETTLE_STATE == {"settled_sig"}
GET_SPEND_STATE  == INIT_SETTLE_STATE \cup {"spent_sig"}

\* A union of core/schema: its fields are set where its flag is, and nowhere else.
StateUnion(record, flag, fields) == \A f \in fields : (record[f] # Null) = record[flag]

\* Such a field that may be null although the flag is set.
NullUnless(record, flag, field) == record[flag] \/ record[field] = Null

spend_state(record) == StateUnion(record, "spent", {"spent_txid", "spent_sig"})

\* The text of a receipt: the record, with the fields of cleared put back.
Note(record, cleared, status) ==
    [status |-> status,
     fields |-> [f \in DOMAIN record \ {"status"} |->
                    IF f \in cleared THEN Initial(f) ELSE record[f]]]
=============================================================================
