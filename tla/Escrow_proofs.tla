--------------------------- MODULE Escrow_proofs ---------------------------
(***************************************************************************)
(* The receipts, the funds and the settlement of Escrow, for any number of *)
(* deposits, values, covenants and commits. DepositState_proofs tells what *)
(* one operation keeps of one deposit, the first part of this module what  *)
(* it keeps of the contract; the rest relates the records.                 *)
(***************************************************************************)
EXTENDS Escrow, DepositState_proofs, FiniteSetTheorems, WellFoundedInduction

-----------------------------------------------------------------------------
(* The receipts of a contract under each operation of its record, in the   *)
(* order of its stages and for all sums, machines, transactions and        *)
(* blocks: what an operation writes is put back in the text of every       *)
(* receipt signed before it.                                               *)

CFields == ContractFields \cup {"status"}

ContractFlags == {"canceled", "secured", "activated", "closed", "spent", "settled"}

IsContract(con) == con = [f \in CFields |-> con[f]]

\* The flags a contract has at each status.
Phase(con) ==
    /\ con.status \in ContractStages
    /\ \A f \in ContractFlags : con[f] \in BOOLEAN
    /\ con.status = "published" => ~con.secured
    /\ con.status = "secured" => con.secured
    /\ con.canceled => con.status \in {"canceled", "settled"}
    /\ con.status = "canceled" => con.canceled
    /\ con.activated <=> /\ ~con.canceled
                              /\ con.status \in {"active", "closed", "spent", "settled"}
    /\ con.closed <=> /\ ~con.canceled
                           /\ con.status \in {"closed", "spent", "settled"}
    /\ con.spent <=> ~con.canceled /\ con.status \in {"spent", "settled"}
    /\ con.settled <=> con.status = "settled"
    /\ con.activated => con.secured

\* The inductive invariant of the record.
ContractInv(con) ==
    IsContract(con) /\ Phase(con) /\ ReceiptsVerify(con)

\* The fields of a contract, one by one.
LEMMA ContractNames ==
    /\ ContractFields = Totals \cup
         {"canceled", "canceled_sig", "secured", "secured_sig", "activated", "active_sig",
          "machine_head", "closed", "closed_sig", "machine_vout", "spent", "spent_txid",
          "spent_sig", "settled", "spent_block", "settled_sig", "created_sig"}
    /\ Totals = {"funds_conf", "funds_pend", "tx_fees", "tx_total", "tx_vsize", "vin_count"}
    /\ CFields = ContractFields \cup {"status"}
BY DEF ContractFields, CFields, Totals, INIT_PUBLISH_STATE, INIT_CANCEL_STATE,
   INIT_FUNDING_STATE, INIT_ACTIVE_STATE, INIT_CLOSE_STATE, INIT_SPEND_STATE,
   INIT_SETTLE_STATE

\* What the text of each stage puts back.
LEMMA ContractClearedNames ==
    /\ GET_SETTLE_STATE = {"settled_sig"}
    /\ GET_SPEND_STATE = {"settled", "spent_block", "settled_sig", "spent_sig"}
    /\ GET_CLOSE_STATE = GET_SPEND_STATE \cup {"spent", "spent_txid", "closed_sig"}
    /\ GET_ACTIVE_STATE = GET_CLOSE_STATE \cup {"closed", "machine_vout", "active_sig",
                                               "machine_head"}
    /\ GET_FUNDING_STATE = GET_ACTIVE_STATE \cup {"activated", "secured_sig"}
    /\ GET_PUBLISH_STATE = GET_FUNDING_STATE \cup Totals
                             \cup {"canceled", "canceled_sig", "secured", "created_sig"}
BY DEF GET_PUBLISH_STATE, GET_FUNDING_STATE, GET_ACTIVE_STATE, GET_CLOSE_STATE,
   GET_SPEND_STATE, GET_SETTLE_STATE, INIT_PUBLISH_STATE, INIT_CANCEL_STATE,
   INIT_FUNDING_STATE, INIT_ACTIVE_STATE, INIT_CLOSE_STATE, INIT_SPEND_STATE,
   INIT_SETTLE_STATE

\* The text of a receipt depends on the fields it does not put back.
LEMMA ContractNoteKept ==
    ASSUME NEW r, NEW q, NEW cleared, NEW status,
           DOMAIN r = DOMAIN q,
           \A f \in DOMAIN r \ {"status"} : f \notin cleared => r[f] = q[f]
    PROVE  Note(r, cleared, status) = Note(q, cleared, status)
BY DEF Note

\* An operation that writes what the text of a stage puts back keeps the text.
LEMMA TextsKept ==
    ASSUME NEW r, NEW q, IsContract(r), IsContract(q), NEW written,
           \A f \in ContractFields \ written : r[f] = q[f]
    PROVE  \A cleared, status : written \subseteq cleared =>
             Note(r, cleared, status) = Note(q, cleared, status)
<1>1. /\ DOMAIN r = DOMAIN q
      /\ \A f \in DOMAIN r \ {"status"} : f \notin written => r[f] = q[f]
  BY DEF IsContract, CFields
<1>. QED  BY <1>1, ContractNoteKept

\* The receipts, stage by stage.
LEMMA ReceiptsByStage ==
    ASSUME NEW con
    PROVE  ReceiptsVerify(con) <=>
             /\ con.created_sig = Note(con, GET_PUBLISH_STATE, "published")
             /\ con.secured /\ ~con.canceled =>
                  con.secured_sig = Note(con, GET_FUNDING_STATE, "secured")
             /\ con.activated =>
                  con.active_sig = Note(con, GET_ACTIVE_STATE, "active")
             /\ con.closed =>
                  con.closed_sig = Note(con, GET_CLOSE_STATE, "closed")
             /\ con.spent =>
                  con.spent_sig = Note(con, GET_SPEND_STATE, "spent")
             /\ con.settled =>
                  con.settled_sig = Note(con, GET_SETTLE_STATE, "settled")
<1>1. \A stage \in ContractStages \ {"canceled"} :
        (/\ ContractHas(con, stage)
         /\ ~(stage = "secured" /\ con.canceled)
         => ContractSigVerifies(con, stage)) <=>
        \/ stage = "published" /\ (con.created_sig = Note(con, GET_PUBLISH_STATE, "published"))
        \/ stage = "secured" /\ (con.secured /\ ~con.canceled => 
               con.secured_sig = Note(con, GET_FUNDING_STATE, "secured"))
        \/ stage = "active" /\ (con.activated => 
               con.active_sig = Note(con, GET_ACTIVE_STATE, "active"))
        \/ stage = "closed" /\ (con.closed => 
               con.closed_sig = Note(con, GET_CLOSE_STATE, "closed"))
        \/ stage = "spent" /\ (con.spent => 
               con.spent_sig = Note(con, GET_SPEND_STATE, "spent"))
        \/ stage = "settled" /\ (con.settled => 
               con.settled_sig = Note(con, GET_SETTLE_STATE, "settled"))
  BY DEF ContractStages, ContractHas, ContractSigVerifies, ContractNote, ContractSig,
     ContractCleared
<1>. QED  BY <1>1 DEF ReceiptsVerify, ContractStages

\* A contract is published with its receipt.
LEMMA PublishKeeps == ContractInv(CreateContract) /\ CreateContract.status = "published"
<1>. DEFINE template == [f \in ContractFields \cup {"status"} |->
                            CASE f = "status"   -> "published"
                              [] f = "tx_fees"  -> BaseSize * Feerate
                              [] f = "tx_total" -> Subtotal + BaseSize * Feerate
                              [] f = "tx_vsize" -> BaseSize
                              [] OTHER          -> Initial(f)]
            created == CreateContract
<1>1. \A f \in ContractFlags : template[f] = FALSE
  BY ContractNames DEF Initial, Flags, ContractFlags
<1>2. /\ IsContract(template)
      /\ template.status = "published"
      /\ created = [template EXCEPT !.created_sig = ContractNote(template, "published")]
  BY ContractNames DEF IsContract, CreateContract
<1>. HIDE DEF template, created
<1>3. /\ IsContract(created)
      /\ created.status = "published"
      /\ created.created_sig = Note(template, GET_PUBLISH_STATE, "published")
      /\ \A f \in ContractFields \ {"created_sig"} : created[f] = template[f]
  BY <1>2, ContractNames DEF IsContract, ContractNote, ContractCleared
<1>4. \A f \in ContractFlags : created[f] = FALSE
  BY <1>1, <1>3, ContractNames DEF ContractFlags
<1>5. Note(created, GET_PUBLISH_STATE, "published") = Note(template, GET_PUBLISH_STATE, "published")
  BY <1>2, <1>3, ContractNoteKept, ContractNames, ContractClearedNames DEF IsContract
<1>6. ReceiptsVerify(created)
  BY <1>3, <1>4, <1>5, ReceiptsByStage DEF ContractFlags
<1>7. Phase(created)
  BY <1>3, <1>4 DEF Phase, ContractStages, ContractFlags
<1>. QED
  BY <1>3, <1>6, <1>7 DEF ContractInv, created

\* The sums may change until the contract is secured, and when it is canceled.
LEMMA SumsKeep ==
    ASSUME NEW con, NEW updated, ContractInv(con), IsContract(updated),
           con.status \in {"published", "canceled"},
           \A f \in CFields \ Totals : updated[f] = con[f]
    PROVE  ContractInv(updated)
<1>1. \A f \in CFields \ Totals : updated[f] = con[f]
  OBVIOUS
<1>2. /\ ~con.activated /\ ~con.closed /\ ~con.spent /\ ~con.settled
      /\ con.secured => con.canceled
  BY DEF ContractInv, Phase, ContractFlags
<1>3. Note(updated, GET_PUBLISH_STATE, "published") = Note(con, GET_PUBLISH_STATE, "published")
  BY <1>1, ContractNoteKept, ContractNames, ContractClearedNames DEF IsContract, ContractInv
<1>4. ReceiptsVerify(updated)
  <2>1. ReceiptsVerify(con)
    BY DEF ContractInv
  <2>. QED
    BY <2>1, <1>1, <1>2, <1>3, ReceiptsByStage, ContractNames
<1>5. /\ updated.status = con.status
      /\ \A f \in ContractFlags : updated[f] = con[f]
  BY <1>1, ContractNames DEF ContractFlags
<1>6. Phase(updated)
  BY <1>5 DEF ContractInv, Phase, ContractFlags
<1>. QED
  BY <1>4, <1>6 DEF ContractInv

\* The operations on the sums change nothing else.
LEMMA FundsKeep ==
    ASSUME NEW con, NEW confirmed, NEW value, ContractInv(con),
           con.status \in {"published", "canceled"}
    PROVE  \A updated \in {AddContractFunds(con, confirmed, value),
                           ConfirmContractFunds(con, value),
                           RemContractFunds(con, confirmed, value)} :
             /\ ContractInv(updated)
             /\ \A f \in CFields \ Totals : updated[f] = con[f]
<1>1. /\ IsContract(AddContractFunds(con, confirmed, value))
      /\ \A f \in CFields \ Totals :
           AddContractFunds(con, confirmed, value)[f] = con[f]
  BY ContractNames DEF AddContractFunds, ContractInv, IsContract
<1>2. /\ IsContract(ConfirmContractFunds(con, value))
      /\ \A f \in CFields \ Totals :
           ConfirmContractFunds(con, value)[f] = con[f]
  BY ContractNames DEF ConfirmContractFunds, AddContractFunds, ContractInv, IsContract
<1>3. /\ IsContract(RemContractFunds(con, confirmed, value))
      /\ \A f \in CFields \ Totals :
           RemContractFunds(con, confirmed, value)[f] = con[f]
  BY ContractNames DEF RemContractFunds, ContractInv, IsContract
<1>. QED
  BY <1>1, <1>2, <1>3, SumsKeep

\* Securing is signed over the sums it sets.
LEMMA SecureKeeps ==
    ASSUME NEW con, NEW count, NEW sum, ContractInv(con),
           con.status = "published"
    PROVE  /\ ContractInv(SecureContract(con, count, sum))
           /\ SecureContract(con, count, sum).status = "secured"
           /\ SecureContract(con, count, sum).tx_total = Subtotal + (Feerate * BaseSize + vin_txfee * count)
           /\ \A f \in ContractFields \ {"vin_count", "funds_pend", "funds_conf", "secured", "tx_fees", "tx_total", "tx_vsize", "secured_sig"} :
                SecureContract(con, count, sum)[f] = con[f]
<1>. DEFINE updated == 
              [con EXCEPT !.vin_count = count, !.funds_pend = 0, !.funds_conf = sum,
                               !.secured = TRUE,
                               !.tx_fees = Feerate * BaseSize + vin_txfee * count,
                               !.tx_total = Subtotal + (Feerate * BaseSize + vin_txfee * count),
                               !.tx_vsize = BaseSize + count * SPEND_TXIN_SIZE,
                               !.status = "secured"]
            signed  == SecureContract(con, count, sum)
<1>1. /\ IsContract(updated)
      /\ updated.status = "secured"
      /\ updated.secured = TRUE
      /\ updated.tx_total = Subtotal + (Feerate * BaseSize + vin_txfee * count)
      /\ \A f \in ContractFields \ {"vin_count", "funds_pend", "funds_conf", "secured", "tx_fees", "tx_total", "tx_vsize"} : updated[f] = con[f]
      /\ signed = [updated EXCEPT !.secured_sig = ContractNote(updated, "secured")]
  BY ContractNames DEF ContractInv, IsContract, SecureContract
<1>2. ~con.canceled /\ ~con.secured /\ ~con.activated
      /\ ~con.closed /\ ~con.spent /\ ~con.settled
  BY DEF ContractInv, Phase, ContractFlags
<1>. HIDE DEF updated, signed
<1>3. /\ IsContract(signed)
      /\ signed.secured_sig = Note(updated, GET_FUNDING_STATE, "secured")
      /\ \A f \in CFields \ {"secured_sig"} : signed[f] = updated[f]
  BY <1>1, ContractNames DEF IsContract, ContractNote, ContractCleared
<1>4. Note(signed, GET_FUNDING_STATE, "secured") = Note(updated, GET_FUNDING_STATE, "secured")
  BY <1>1, <1>3, ContractNoteKept, ContractNames, ContractClearedNames DEF IsContract
<1>5. /\ signed.status = "secured"
      /\ signed.secured = TRUE
      /\ \A f \in ContractFields \ {"vin_count", "funds_pend", "funds_conf", "secured", "tx_fees", "tx_total", "tx_vsize", "secured_sig"} : signed[f] = con[f]
  BY <1>1, <1>3, ContractNames
<1>6. /\ Note(signed, GET_PUBLISH_STATE, "published") = Note(con, GET_PUBLISH_STATE, "published")
  <2>1. /\ {"vin_count", "funds_pend", "funds_conf", "secured", "tx_fees", "tx_total", "tx_vsize", "secured_sig"} \subseteq GET_PUBLISH_STATE
    BY ContractNames, ContractClearedNames
  <2>. QED
    BY <2>1, <1>3, <1>5, TextsKept DEF ContractInv
<1>7. ReceiptsVerify(signed)
  <2>1. ReceiptsVerify(con)
    BY DEF ContractInv
  <2>. QED
    BY <2>1, <1>2, <1>3, <1>4, <1>5, <1>6, ReceiptsByStage, ContractNames
<1>8. Phase(signed)
  BY <1>2, <1>5, ContractNames DEF ContractInv, Phase, ContractStages, ContractFlags
<1>. QED
  BY <1>1, <1>3, <1>5, <1>7, <1>8, ContractNames DEF ContractInv, signed

\* Activation writes what the receipt of the securing puts back.
LEMMA ActivateKeeps ==
    ASSUME NEW con, NEW vmid, ContractInv(con),
           con.status = "secured"
    PROVE  /\ ContractInv(ActivateContract(con, vmid))
           /\ ActivateContract(con, vmid).status = "active"
           /\ \A f \in ContractFields \ {"activated", "machine_head", "active_sig"} :
                ActivateContract(con, vmid)[f] = con[f]
<1>. DEFINE updated == [con EXCEPT !.activated = TRUE, !.machine_head = vmid,
                                             !.status = "active"]
            signed  == ActivateContract(con, vmid)
<1>1. /\ IsContract(updated)
      /\ updated.status = "active"
      /\ updated.activated = TRUE
      /\ \A f \in ContractFields \ {"activated", "machine_head"} : updated[f] = con[f]
      /\ signed = [updated EXCEPT !.active_sig = ContractNote(updated, "active")]
  BY ContractNames DEF ContractInv, IsContract, ActivateContract
<1>2. ~con.canceled /\ con.secured /\ ~con.activated
      /\ ~con.closed /\ ~con.spent /\ ~con.settled
  BY DEF ContractInv, Phase, ContractFlags
<1>. HIDE DEF updated, signed
<1>3. /\ IsContract(signed)
      /\ signed.active_sig = Note(updated, GET_ACTIVE_STATE, "active")
      /\ \A f \in CFields \ {"active_sig"} : signed[f] = updated[f]
  BY <1>1, ContractNames DEF IsContract, ContractNote, ContractCleared
<1>4. Note(signed, GET_ACTIVE_STATE, "active") = Note(updated, GET_ACTIVE_STATE, "active")
  BY <1>1, <1>3, ContractNoteKept, ContractNames, ContractClearedNames DEF IsContract
<1>5. /\ signed.status = "active"
      /\ signed.activated = TRUE
      /\ \A f \in ContractFields \ {"activated", "machine_head", "active_sig"} : signed[f] = con[f]
  BY <1>1, <1>3, ContractNames
<1>6. /\ Note(signed, GET_PUBLISH_STATE, "published") = Note(con, GET_PUBLISH_STATE, "published")
      /\ Note(signed, GET_FUNDING_STATE, "secured") = Note(con, GET_FUNDING_STATE, "secured")
  <2>1. /\ {"activated", "machine_head", "active_sig"} \subseteq GET_PUBLISH_STATE
        /\ {"activated", "machine_head", "active_sig"} \subseteq GET_FUNDING_STATE
    BY ContractNames, ContractClearedNames
  <2>. QED
    BY <2>1, <1>3, <1>5, TextsKept DEF ContractInv
<1>7. ReceiptsVerify(signed)
  <2>1. ReceiptsVerify(con)
    BY DEF ContractInv
  <2>. QED
    BY <2>1, <1>2, <1>3, <1>4, <1>5, <1>6, ReceiptsByStage, ContractNames
<1>8. Phase(signed)
  BY <1>2, <1>5, ContractNames DEF ContractInv, Phase, ContractStages, ContractFlags
<1>. QED
  BY <1>1, <1>3, <1>5, <1>7, <1>8, ContractNames DEF ContractInv, signed

\* Closing writes what the receipt of the activation puts back.
LEMMA ContractCloseKeeps ==
    ASSUME NEW con, NEW vm, ContractInv(con),
           con.status = "active"
    PROVE  /\ ContractInv(CloseContract(con, vm))
           /\ CloseContract(con, vm).status = "closed"
           /\ CloseContract(con, vm).machine_head = vm.head
           /\ CloseContract(con, vm).machine_vout = vm.output
           /\ \A f \in ContractFields \ {"closed", "machine_head", "machine_vout", "closed_sig"} :
                CloseContract(con, vm)[f] = con[f]
<1>. DEFINE updated == [con EXCEPT !.closed = TRUE, !.machine_head = vm.head,
                                             !.machine_vout = vm.output,
                                             !.status = "closed"]
            signed  == CloseContract(con, vm)
<1>1. /\ IsContract(updated)
      /\ updated.status = "closed"
      /\ updated.closed = TRUE
      /\ updated.machine_head = vm.head
      /\ updated.machine_vout = vm.output
      /\ \A f \in ContractFields \ {"closed", "machine_head", "machine_vout"} : updated[f] = con[f]
      /\ signed = [updated EXCEPT !.closed_sig = ContractNote(updated, "closed")]
  BY ContractNames DEF ContractInv, IsContract, CloseContract
<1>2. ~con.canceled /\ con.secured /\ con.activated
      /\ ~con.closed /\ ~con.spent /\ ~con.settled
  BY DEF ContractInv, Phase, ContractFlags
<1>. HIDE DEF updated, signed
<1>3. /\ IsContract(signed)
      /\ signed.closed_sig = Note(updated, GET_CLOSE_STATE, "closed")
      /\ \A f \in CFields \ {"closed_sig"} : signed[f] = updated[f]
  BY <1>1, ContractNames DEF IsContract, ContractNote, ContractCleared
<1>4. Note(signed, GET_CLOSE_STATE, "closed") = Note(updated, GET_CLOSE_STATE, "closed")
  BY <1>1, <1>3, ContractNoteKept, ContractNames, ContractClearedNames DEF IsContract
<1>5. /\ signed.status = "closed"
      /\ signed.closed = TRUE
      /\ \A f \in ContractFields \ {"closed", "machine_head", "machine_vout", "closed_sig"} : signed[f] = con[f]
  BY <1>1, <1>3, ContractNames
<1>6. /\ Note(signed, GET_PUBLISH_STATE, "published") = Note(con, GET_PUBLISH_STATE, "published")
      /\ Note(signed, GET_FUNDING_STATE, "secured") = Note(con, GET_FUNDING_STATE, "secured")
      /\ Note(signed, GET_ACTIVE_STATE, "active") = Note(con, GET_ACTIVE_STATE, "active")
  <2>1. /\ {"closed", "machine_head", "machine_vout", "closed_sig"} \subseteq GET_PUBLISH_STATE
        /\ {"closed", "machine_head", "machine_vout", "closed_sig"} \subseteq GET_FUNDING_STATE
        /\ {"closed", "machine_head", "machine_vout", "closed_sig"} \subseteq GET_ACTIVE_STATE
    BY ContractNames, ContractClearedNames
  <2>. QED
    BY <2>1, <1>3, <1>5, TextsKept DEF ContractInv
<1>7. ReceiptsVerify(signed)
  <2>1. ReceiptsVerify(con)
    BY DEF ContractInv
  <2>. QED
    BY <2>1, <1>2, <1>3, <1>4, <1>5, <1>6, ReceiptsByStage, ContractNames
<1>8. Phase(signed)
  BY <1>2, <1>5, ContractNames DEF ContractInv, Phase, ContractStages, ContractFlags
<1>. QED
  BY <1>1, <1>3, <1>5, <1>7, <1>8, ContractNames DEF ContractInv, signed

\* Spending writes what the receipt of the closing puts back.
LEMMA ContractSpendKeeps ==
    ASSUME NEW con, NEW txid, ContractInv(con),
           con.status = "closed"
    PROVE  /\ ContractInv(SpendContract(con, txid))
           /\ SpendContract(con, txid).status = "spent"
           /\ SpendContract(con, txid).spent_txid = txid
           /\ \A f \in ContractFields \ {"spent", "spent_txid", "spent_sig"} :
                SpendContract(con, txid)[f] = con[f]
<1>. DEFINE updated == [con EXCEPT !.spent = TRUE, !.spent_txid = txid,
                                             !.status = "spent"]
            signed  == SpendContract(con, txid)
<1>1. /\ IsContract(updated)
      /\ updated.status = "spent"
      /\ updated.spent = TRUE
      /\ updated.spent_txid = txid
      /\ \A f \in ContractFields \ {"spent", "spent_txid"} : updated[f] = con[f]
      /\ signed = [updated EXCEPT !.spent_sig = ContractNote(updated, "spent")]
  BY ContractNames DEF ContractInv, IsContract, SpendContract
<1>2. ~con.canceled /\ con.secured /\ con.activated
      /\ con.closed /\ ~con.spent /\ ~con.settled
  BY DEF ContractInv, Phase, ContractFlags
<1>. HIDE DEF updated, signed
<1>3. /\ IsContract(signed)
      /\ signed.spent_sig = Note(updated, GET_SPEND_STATE, "spent")
      /\ \A f \in CFields \ {"spent_sig"} : signed[f] = updated[f]
  BY <1>1, ContractNames DEF IsContract, ContractNote, ContractCleared
<1>4. Note(signed, GET_SPEND_STATE, "spent") = Note(updated, GET_SPEND_STATE, "spent")
  BY <1>1, <1>3, ContractNoteKept, ContractNames, ContractClearedNames DEF IsContract
<1>5. /\ signed.status = "spent"
      /\ signed.spent = TRUE
      /\ \A f \in ContractFields \ {"spent", "spent_txid", "spent_sig"} : signed[f] = con[f]
  BY <1>1, <1>3, ContractNames
<1>6. /\ Note(signed, GET_PUBLISH_STATE, "published") = Note(con, GET_PUBLISH_STATE, "published")
      /\ Note(signed, GET_FUNDING_STATE, "secured") = Note(con, GET_FUNDING_STATE, "secured")
      /\ Note(signed, GET_ACTIVE_STATE, "active") = Note(con, GET_ACTIVE_STATE, "active")
      /\ Note(signed, GET_CLOSE_STATE, "closed") = Note(con, GET_CLOSE_STATE, "closed")
  <2>1. /\ {"spent", "spent_txid", "spent_sig"} \subseteq GET_PUBLISH_STATE
        /\ {"spent", "spent_txid", "spent_sig"} \subseteq GET_FUNDING_STATE
        /\ {"spent", "spent_txid", "spent_sig"} \subseteq GET_ACTIVE_STATE
        /\ {"spent", "spent_txid", "spent_sig"} \subseteq GET_CLOSE_STATE
    BY ContractNames, ContractClearedNames
  <2>. QED
    BY <2>1, <1>3, <1>5, TextsKept DEF ContractInv
<1>7. ReceiptsVerify(signed)
  <2>1. ReceiptsVerify(con)
    BY DEF ContractInv
  <2>. QED
    BY <2>1, <1>2, <1>3, <1>4, <1>5, <1>6, ReceiptsByStage, ContractNames
<1>8. Phase(signed)
  BY <1>2, <1>5, ContractNames DEF ContractInv, Phase, ContractStages, ContractFlags
<1>. QED
  BY <1>1, <1>3, <1>5, <1>7, <1>8, ContractNames DEF ContractInv, signed

\* Settling, once or again, writes what the receipt of the spending puts back.
LEMMA ContractSettleKeeps ==
    ASSUME NEW con, NEW block, ContractInv(con),
           con.spent \/ con.status = "canceled"
    PROVE  /\ ContractInv(SettleContract(con, block))
           /\ SettleContract(con, block).status = "settled"
           /\ \A f \in ContractFields \ {"settled", "spent_block", "settled_sig"} :
                SettleContract(con, block)[f] = con[f]
<1>. DEFINE updated == [con EXCEPT !.settled = TRUE, !.spent_block = block,
                                             !.status = "settled"]
            signed  == SettleContract(con, block)
<1>1. /\ IsContract(updated)
      /\ updated.status = "settled"
      /\ updated.settled = TRUE
      /\ \A f \in ContractFields \ {"settled", "spent_block"} : updated[f] = con[f]
      /\ signed = [updated EXCEPT !.settled_sig = ContractNote(updated, "settled")]
  BY ContractNames DEF ContractInv, IsContract, SettleContract
<1>2. \/ /\ con.canceled /\ ~con.activated
         /\ ~con.closed /\ ~con.spent
      \/ /\ ~con.canceled /\ con.secured /\ con.activated
         /\ con.closed /\ con.spent
  BY DEF ContractInv, Phase, ContractFlags
<1>. HIDE DEF updated, signed
<1>3. /\ IsContract(signed)
      /\ signed.settled_sig = Note(updated, GET_SETTLE_STATE, "settled")
      /\ \A f \in CFields \ {"settled_sig"} : signed[f] = updated[f]
  BY <1>1, ContractNames DEF IsContract, ContractNote, ContractCleared
<1>4. Note(signed, GET_SETTLE_STATE, "settled") = Note(updated, GET_SETTLE_STATE, "settled")
  BY <1>1, <1>3, ContractNoteKept, ContractNames, ContractClearedNames DEF IsContract
<1>5. /\ signed.status = "settled"
      /\ signed.settled = TRUE
      /\ \A f \in ContractFields \ {"settled", "spent_block", "settled_sig"} : signed[f] = con[f]
  BY <1>1, <1>3, ContractNames
<1>6. /\ Note(signed, GET_PUBLISH_STATE, "published") = Note(con, GET_PUBLISH_STATE, "published")
      /\ Note(signed, GET_FUNDING_STATE, "secured") = Note(con, GET_FUNDING_STATE, "secured")
      /\ Note(signed, GET_ACTIVE_STATE, "active") = Note(con, GET_ACTIVE_STATE, "active")
      /\ Note(signed, GET_CLOSE_STATE, "closed") = Note(con, GET_CLOSE_STATE, "closed")
      /\ Note(signed, GET_SPEND_STATE, "spent") = Note(con, GET_SPEND_STATE, "spent")
  <2>1. /\ {"settled", "spent_block", "settled_sig"} \subseteq GET_PUBLISH_STATE
        /\ {"settled", "spent_block", "settled_sig"} \subseteq GET_FUNDING_STATE
        /\ {"settled", "spent_block", "settled_sig"} \subseteq GET_ACTIVE_STATE
        /\ {"settled", "spent_block", "settled_sig"} \subseteq GET_CLOSE_STATE
        /\ {"settled", "spent_block", "settled_sig"} \subseteq GET_SPEND_STATE
    BY ContractNames, ContractClearedNames
  <2>. QED
    BY <2>1, <1>3, <1>5, TextsKept DEF ContractInv
<1>7. ReceiptsVerify(signed)
  <2>1. ReceiptsVerify(con)
    BY DEF ContractInv
  <2>. QED
    BY <2>1, <1>2, <1>3, <1>4, <1>5, <1>6, ReceiptsByStage, ContractNames
<1>8. Phase(signed)
  BY <1>2, <1>5, ContractNames DEF ContractInv, Phase, ContractStages, ContractFlags
<1>. QED
  BY <1>1, <1>3, <1>5, <1>7, <1>8, ContractNames DEF ContractInv, signed

\* A cancellation before the activation leaves the receipt of the publishing alone.
LEMMA CancelKeeps ==
    ASSUME NEW con, ContractInv(con), con.status \in {"published", "secured"}
    PROVE  /\ ContractInv(CancelContract(con))
           /\ CancelContract(con).status = "canceled"
           /\ CancelContract(con).canceled
           /\ \A f \in ContractFields \ {"canceled", "canceled_sig"} :
                CancelContract(con)[f] = con[f]
<1>. DEFINE signed == CancelContract(con)
<1>1. /\ IsContract(signed)
      /\ signed.status = "canceled"
      /\ signed.canceled = TRUE
      /\ \A f \in ContractFields \ {"canceled", "canceled_sig"} : signed[f] = con[f]
  BY ContractNames DEF ContractInv, IsContract, CancelContract
<1>. HIDE DEF signed
<1>2. ~con.activated /\ ~con.closed /\ ~con.spent /\ ~con.settled
  BY DEF ContractInv, Phase, ContractFlags
<1>3. Note(signed, GET_PUBLISH_STATE, "published") = Note(con, GET_PUBLISH_STATE, "published")
  BY <1>1, ContractNoteKept, ContractNames, ContractClearedNames DEF ContractInv, IsContract
<1>4. ReceiptsVerify(signed)
  <2>1. ReceiptsVerify(con)
    BY DEF ContractInv
  <2>. QED
    BY <2>1, <1>1, <1>2, <1>3, ReceiptsByStage, ContractNames
<1>5. Phase(signed)
  BY <1>1, <1>2, ContractNames DEF ContractInv, Phase, ContractStages, ContractFlags
<1>. QED
  BY <1>1, <1>4, <1>5, ContractNames DEF ContractInv, signed

-----------------------------------------------------------------------------
(* The agent's deposits and its contract.                                   *)

DepositsInv ==
    /\ deposits = [d \in Made |-> deposits[d]]
    /\ \A d \in Made : DepositInv(deposits[d])

\* The deposits that fund the contract; a spent one went into its transaction.
FundingInv ==
    /\ funding \subseteq Made
    /\ \A d \in funding :
         /\ deposits[d].covenant # Null
         /\ ~deposits[d].closed
         /\ deposits[d].spent => /\ contract.spent
                                 /\ deposits[d].spent_txid = contract.spent_txid

SecuredInv ==
    contract.secured /\ ~contract.canceled =>
        /\ SumOf(funding) >= contract.tx_total
        /\ \A d \in funding : deposits[d].confirmed

CanceledInv == contract.canceled /\ contract.settled => funding = {}

\* The machine does not move once the contract is closed: it has an output.
ClosedInv ==
    contract.closed => /\ machine.closed
                       /\ machine.head = contract.machine_head
                       /\ machine.output = contract.machine_vout
                       /\ machine.output # Null

SpentInv == contract.spent => contract.spent_txid = SettlementTx

\* The inductive invariant.
IInv == /\ ContractInv(contract) /\ DepositsInv /\ FundingInv
        /\ SecuredInv /\ CanceledInv /\ ClosedInv /\ SpentInv

\* The fields of a contract that say how far it is.
Course == {"status", "canceled", "secured", "activated", "closed", "spent", "settled",
           "spent_txid", "machine_head", "machine_vout"}

LEMMA CourseFields == Course \subseteq CFields \ Totals
BY ContractNames DEF Course

\* The invariant at the start: a contract without deposits.
LEMMA InitOK == Init => IInv
<1>. SUFFICES ASSUME Init PROVE IInv
  OBVIOUS
<1>1. ContractInv(contract) /\ contract.status = "published"
  BY PublishKeeps DEF Init
<1>2. /\ ~contract.secured /\ ~contract.canceled /\ ~contract.settled
      /\ ~contract.closed /\ ~contract.spent
  BY <1>1 DEF ContractInv, Phase, ContractFlags
<1>3. DepositsInv /\ FundingInv
  BY DEF Init, DepositsInv, FundingInv, Made
<1>. QED
  BY <1>1, <1>2, <1>3 DEF IInv, SecuredInv, CanceledInv, ClosedInv, SpentInv

\* A step that changes the record of one deposit, and of the contract the sums
\* alone: none of the funds may be closed, bared of its covenant or spent
\* elsewhere, and the sums of a secured contract stay.
LEMMA RecordStep ==
    ASSUME IInv, NEW d \in Made, NEW updated, DepositInv(updated),
           deposits' = [deposits EXCEPT ![d] = updated],
           ContractInv(contract'),
           \A f \in Course : contract'[f] = contract[f],
           contract.secured /\ ~contract.canceled => contract' = contract,
           UNCHANGED <<funding, machine>>,
           d \in funding =>
             /\ updated.covenant # Null
             /\ ~updated.closed
             /\ deposits[d].confirmed => updated.confirmed
             /\ updated.spent => /\ contract.spent
                                 /\ updated.spent_txid = contract.spent_txid
    PROVE  IInv'
<1>1. /\ contract'.status = contract.status
      /\ contract'.canceled = contract.canceled
      /\ contract'.secured = contract.secured
      /\ contract'.closed = contract.closed
      /\ contract'.spent = contract.spent
      /\ contract'.settled = contract.settled
      /\ contract'.spent_txid = contract.spent_txid
      /\ contract'.machine_head = contract.machine_head
      /\ contract'.machine_vout = contract.machine_vout
  BY DEF Course
<1>2. /\ Made' = Made
      /\ deposits'[d] = updated
      /\ \A e \in Made \ {d} : deposits'[e] = deposits[e]
  BY DEF IInv, DepositsInv, Made
<1>3. DepositsInv'
  BY <1>2 DEF IInv, DepositsInv, Made
<1>4. FundingInv'
  BY <1>1, <1>2 DEF IInv, FundingInv
<1>5. SecuredInv'
  <2>. SUFFICES ASSUME contract.secured, ~contract.canceled
                PROVE  /\ SumOf(funding') >= contract'.tx_total
                       /\ \A e \in funding : deposits'[e].confirmed
    BY <1>1 DEF SecuredInv
  <2>1. /\ SumOf(funding') >= contract'.tx_total
        /\ \A e \in funding : deposits[e].confirmed
    BY DEF IInv, SecuredInv
  <2>. QED
    BY <2>1, <1>2 DEF IInv, FundingInv
<1>6. CanceledInv' /\ ClosedInv' /\ SpentInv'
  BY <1>1 DEF IInv, CanceledInv, ClosedInv, SpentInv, SettlementTx
<1>. QED
  BY <1>3, <1>4, <1>5, <1>6 DEF IInv

\* A step that makes the deposit d: it funds the contract only while the contract
\* waits for funds.
LEMMA NewRecordStep ==
    ASSUME IInv, NEW d, d \notin Made, NEW created, DepositInv(created),
           deposits' = With(d, created),
           ContractInv(contract'),
           \A f \in Course : contract'[f] = contract[f],
           \/ UNCHANGED <<contract, funding>>
           \/ /\ contract.status = "published"
              /\ funding' = funding \cup {d}
              /\ created.covenant # Null
              /\ ~created.closed
              /\ ~created.spent,
           machine' = machine
    PROVE  IInv'
<1>1. /\ contract'.status = contract.status
      /\ contract'.canceled = contract.canceled
      /\ contract'.secured = contract.secured
      /\ contract'.closed = contract.closed
      /\ contract'.spent = contract.spent
      /\ contract'.settled = contract.settled
      /\ contract'.spent_txid = contract.spent_txid
      /\ contract'.machine_head = contract.machine_head
      /\ contract'.machine_vout = contract.machine_vout
  BY DEF Course
<1>2. /\ Made' = Made \cup {d}
      /\ deposits'[d] = created
      /\ \A e \in Made : deposits'[e] = deposits[e]
  BY DEF With, Made
<1>3. DepositsInv'
  BY <1>2 DEF IInv, DepositsInv, Made, With
<1>4. FundingInv'
  BY <1>1, <1>2 DEF IInv, FundingInv
<1>5. CASE UNCHANGED <<contract, funding>>
  <2>1. SecuredInv'
    BY <1>2, <1>5 DEF IInv, FundingInv, SecuredInv
  <2>2. CanceledInv' /\ ClosedInv' /\ SpentInv'
    BY <1>5 DEF IInv, CanceledInv, ClosedInv, SpentInv, SettlementTx
  <2>. QED
    BY <1>3, <1>4, <2>1, <2>2 DEF IInv
<1>6. CASE contract.status = "published"
  <2>1. /\ ~contract.secured /\ ~contract.canceled
        /\ ~contract.closed /\ ~contract.spent
    BY <1>6 DEF IInv, ContractInv, Phase, ContractFlags
  <2>2. SecuredInv' /\ CanceledInv' /\ ClosedInv' /\ SpentInv'
    BY <1>1, <2>1 DEF SecuredInv, CanceledInv, ClosedInv, SpentInv
  <2>. QED
    BY <1>3, <1>4, <2>2 DEF IInv
<1>. QED
  BY <1>5, <1>6

\* A step of the contract alone, which keeps what its funds were spent in.
LEMMA ContractStep ==
    ASSUME IInv, UNCHANGED <<deposits, funding>>,
           contract.spent => /\ contract'.spent
                             /\ contract'.spent_txid = contract.spent_txid
    PROVE  DepositsInv' /\ FundingInv'
BY DEF IInv, DepositsInv, FundingInv, Made

\* The sums of a contract are changed while it waits for funds or gives them back.
LEMMA FundsStep ==
    ASSUME ContractInv(contract), NEW confirmed, NEW value,
           contract.status \in {"published", "canceled"},
           \/ contract' = AddContractFunds(contract, confirmed, value)
           \/ contract' = ConfirmContractFunds(contract, value)
           \/ contract' = RemContractFunds(contract, confirmed, value)
    PROVE  /\ ContractInv(contract')
           /\ \A f \in Course : contract'[f] = contract[f]
           /\ ~(contract.secured /\ ~contract.canceled)
<1>1. /\ ContractInv(contract')
      /\ \A f \in CFields \ Totals : contract'[f] = contract[f]
  BY FundsKeep
<1>2. ~(contract.secured /\ ~contract.canceled)
  BY DEF ContractInv, Phase
<1>. QED
  BY <1>1, <1>2, CourseFields

-----------------------------------------------------------------------------
\* A deposit is made, by a register or a commit request.
LEMMA RegisterOK == ASSUME IInv, NEW d \in Deposits, Register(d) PROVE IInv'
<1>1. DepositInv(CreateDeposit(Null))
  BY CreateKeeps
<1>. QED
  BY <1>1, NewRecordStep DEF Register, IInv

LEMMA CommitOK ==
    ASSUME IInv, NEW d \in Deposits, NEW covenant \in Covenants, Commit(d, covenant)
    PROVE  IInv'
<1>. DEFINE fresh == CreateDeposit(covenant)
<1>1. /\ DepositInv(fresh)
      /\ fresh.covenant = covenant
      /\ ~fresh.locked /\ ~fresh.closed /\ ~fresh.spent
  BY CreateKeeps
<1>. HIDE DEF fresh
<1>2. /\ DepositInv(LockDeposit(fresh, covenant))
      /\ LockDeposit(fresh, covenant).covenant = covenant
      /\ ~LockDeposit(fresh, covenant).closed
      /\ ~LockDeposit(fresh, covenant).spent
  BY <1>1, LockKeeps, FieldNames DEF CanLock
<1>3. PICK created \in {fresh, LockDeposit(fresh, covenant)} : deposits' = With(d, created)
  BY DEF Commit, fresh
<1>4. /\ DepositInv(created) /\ created.covenant # Null
      /\ ~created.closed /\ ~created.spent
  BY <1>1, <1>2, <1>3, EscrowAssumption DEF EscrowAssumption
<1>5. /\ ContractInv(contract')
      /\ \A f \in Course : contract'[f] = contract[f]
  <2>1. ContractInv(contract) /\ contract.status \in {"published", "canceled"}
    BY DEF Commit, Fundable, IInv
  <2>2. \E confirmed : contract' = AddContractFunds(contract, confirmed, Value[d])
    <3>. WITNESS FALSE
    <3>. QED
      BY DEF Commit
  <2>. QED
    BY <2>1, <2>2, FundsStep
<1>6. /\ d \notin Made
      /\ contract.status = "published"
      /\ funding' = funding \cup {d}
      /\ machine' = machine
  BY DEF Commit, Fundable
<1>. QED
  BY <1>3, <1>4, <1>5, <1>6, NewRecordStep

\* A confirmation that changes the sums finds the contract waiting for funds or
\* giving them back: the funds of a secured contract are confirmed already.
LEMMA ConfirmOK == ASSUME IInv, NEW d \in Deposits, Confirm(d) PROVE IInv'
<1>1. /\ d \in Made /\ CanConfirm(deposits[d]) /\ DepositInv(deposits[d])
      /\ deposits' = [deposits EXCEPT ![d] = ConfirmDeposit(deposits[d])]
      /\ UNCHANGED <<funding, machine>>
  BY DEF Confirm, IInv, DepositsInv
<1>2. /\ DepositInv(ConfirmDeposit(deposits[d]))
      /\ ConfirmDeposit(deposits[d]).covenant = deposits[d].covenant
      /\ ConfirmDeposit(deposits[d]).closed = deposits[d].closed
      /\ ConfirmDeposit(deposits[d]).spent = deposits[d].spent
      /\ ConfirmDeposit(deposits[d]).spent_txid = deposits[d].spent_txid
      /\ ConfirmDeposit(deposits[d]).confirmed
  BY <1>1, ConfirmKeeps, FieldNames
<1>3. d \in funding => contract.status \in {"published", "canceled"}
  <2>. SUFFICES ASSUME d \in funding PROVE contract.status \in {"published", "canceled"}
    OBVIOUS
  <2>1. ~(contract.secured /\ ~contract.canceled)
    BY <1>1 DEF IInv, SecuredInv, CanConfirm
  <2>2. ~(contract.canceled /\ contract.settled)
    BY DEF IInv, CanceledInv
  <2>. QED
    BY <2>1, <2>2 DEF IInv, ContractInv, Phase, ContractFlags, ContractStages
<1>4. /\ ContractInv(contract')
      /\ \A f \in Course : contract'[f] = contract[f]
      /\ contract.secured /\ ~contract.canceled => contract' = contract
  BY <1>3, FundsStep DEF Confirm, IInv
<1>5. d \in funding => /\ deposits[d].covenant # Null
                       /\ ~deposits[d].closed
                       /\ deposits[d].spent =>
                            /\ contract.spent
                            /\ deposits[d].spent_txid = contract.spent_txid
  BY DEF IInv, FundingInv
<1>. QED
  BY <1>1, <1>2, <1>4, <1>5, RecordStep

\* A lock adds a fund that is not spent, while the contract waits for funds.
LEMMA LockOK ==
    ASSUME IInv, NEW d \in Deposits, NEW covenant \in Covenants, Lock(d, covenant)
    PROVE  IInv'
<1>. DEFINE locked == LockDeposit(deposits[d], covenant)
<1>1. /\ d \in Made /\ DepositInv(deposits[d]) /\ CanLock(deposits[d])
      /\ deposits' = [deposits EXCEPT ![d] = locked]
      /\ contract' = AddContractFunds(contract, TRUE, Value[d])
      /\ contract.status = "published"
      /\ funding' = funding \cup {d}
      /\ machine' = machine
  BY DEF Lock, Fundable, IInv, DepositsInv
<1>2. /\ DepositInv(locked)
      /\ locked.covenant # Null
      /\ ~locked.closed /\ ~locked.spent
  BY <1>1, LockKeeps, FieldNames, EscrowAssumption DEF EscrowAssumption, CanLock
<1>. HIDE DEF locked
<1>3. /\ ContractInv(contract')
      /\ \A f \in Course : contract'[f] = contract[f]
  <2>1. ContractInv(contract) /\ contract.status \in {"published", "canceled"}
    BY <1>1 DEF IInv
  <2>2. \E confirmed : contract' = AddContractFunds(contract, confirmed, Value[d])
    <3>. WITNESS TRUE
    <3>. QED
      BY <1>1
  <2>. QED
    BY <2>1, <2>2, FundsStep
<1>4. /\ Made' = Made
      /\ deposits'[d] = locked
      /\ \A e \in Made \ {d} : deposits'[e] = deposits[e]
  BY <1>1 DEF IInv, DepositsInv, Made
<1>5. DepositsInv'
  BY <1>1, <1>2, <1>4 DEF IInv, DepositsInv, Made
<1>6. FundingInv'
  <2>1. contract'.spent = contract.spent /\ contract'.spent_txid = contract.spent_txid
    BY <1>3 DEF Course
  <2>. QED
    BY <1>1, <1>2, <1>4, <2>1 DEF IInv, FundingInv
<1>7. /\ ~contract'.secured /\ ~contract'.canceled
      /\ ~contract'.closed /\ ~contract'.spent
  <2>1. contract'.status = "published"
    BY <1>1, <1>3 DEF Course
  <2>. QED
    BY <1>3, <2>1 DEF ContractInv, Phase, ContractFlags
<1>. QED
  BY <1>3, <1>5, <1>6, <1>7 DEF IInv, SecuredInv, CanceledInv, ClosedInv, SpentInv

\* A fund is withdrawn before the securing or after a cancellation.
LEMMA WithdrawOK == ASSUME IInv, NEW d \in Deposits, Withdraw(d) PROVE IInv'
<1>1. /\ d \in Made /\ DepositInv(deposits[d])
      /\ contract' = RemContractFunds(contract, deposits[d].confirmed, Value[d])
      /\ contract.status \in {"published", "canceled"}
      /\ funding' = funding \ {d}
      /\ machine' = machine
  BY DEF Withdraw, IInv, DepositsInv, FundingInv
<1>2. PICK updated : DepositInv(updated) /\ deposits' = [deposits EXCEPT ![d] = updated]
  <2>1. CASE CanRelease(deposits[d])
    BY <1>1, <2>1, ReleaseKeeps DEF Withdraw
  <2>2. CASE ~CanRelease(deposits[d])
    <3>1. deposits' = [deposits EXCEPT ![d] = deposits[d]]
      BY <1>1, <2>2 DEF Withdraw, IInv, DepositsInv, Made
    <3>. QED
      BY <1>1, <3>1
  <2>. QED
    BY <2>1, <2>2
<1>3. /\ ContractInv(contract')
      /\ \A f \in Course : contract'[f] = contract[f]
      /\ ~(contract.secured /\ ~contract.canceled)
  BY <1>1, FundsStep DEF IInv
<1>4. /\ Made' = Made
      /\ \A e \in Made \ {d} : deposits'[e] = deposits[e]
  BY <1>1, <1>2 DEF IInv, DepositsInv, Made
<1>5. DepositsInv'
  BY <1>1, <1>2, <1>4 DEF IInv, DepositsInv, Made
<1>6. FundingInv'
  <2>1. contract'.spent = contract.spent /\ contract'.spent_txid = contract.spent_txid
    BY <1>3 DEF Course
  <2>. QED
    BY <1>1, <1>4, <2>1 DEF IInv, FundingInv
<1>7. /\ ~(contract'.secured /\ ~contract'.canceled)
      /\ ~contract'.closed /\ ~contract'.spent /\ ~contract'.settled
  <2>1. /\ contract'.status \in {"published", "canceled"}
        /\ contract'.secured = contract.secured
        /\ contract'.canceled = contract.canceled
    BY <1>1, <1>3 DEF Course
  <2>. QED
    BY <1>3, <2>1 DEF ContractInv, Phase, ContractFlags
<1>. QED
  BY <1>3, <1>5, <1>6, <1>7 DEF IInv, SecuredInv, CanceledInv, ClosedInv, SpentInv

\* The funds hold a covenant, so a deposit that is closed is none of them.
LEMMA CloseOK == ASSUME IInv, NEW d \in Deposits, Close(d) PROVE IInv'
<1>1. /\ d \in Made /\ d \notin funding
      /\ DepositInv(deposits[d]) /\ CanClose(deposits[d])
      /\ deposits' = [deposits EXCEPT ![d] = CloseDeposit(deposits[d])]
      /\ UNCHANGED <<contract, funding, machine>>
  BY DEF Close, IInv, DepositsInv, FundingInv
<1>2. DepositInv(CloseDeposit(deposits[d]))
  BY <1>1, CloseKeeps
<1>. QED
  BY <1>1, <1>2, RecordStep DEF IInv

LEMMA ReturnOK == ASSUME IInv, NEW d \in Deposits, Return(d) PROVE IInv'
<1>1. /\ d \in Made /\ d \notin funding
      /\ DepositInv(deposits[d]) /\ CanSpend(deposits[d])
      /\ deposits' = [deposits EXCEPT ![d] = SpendDeposit(deposits[d], "return")]
      /\ UNCHANGED <<contract, funding, machine>>
  BY DEF Return, IInv, DepositsInv
<1>2. DepositInv(SpendDeposit(deposits[d], "return"))
  BY <1>1, SpendKeeps
<1>. QED
  BY <1>1, <1>2, RecordStep DEF IInv

LEMMA SettleOK ==
    ASSUME IInv, NEW d \in Deposits, NEW block \in Blocks, Settle(d, block)
    PROVE  IInv'
<1>. DEFINE settled == SettleDeposit(deposits[d], block)
<1>1. /\ d \in Made /\ DepositInv(deposits[d]) /\ CanSettle(deposits[d])
      /\ deposits' = [deposits EXCEPT ![d] = settled]
      /\ UNCHANGED <<contract, funding, machine>>
  BY DEF Settle, IInv, DepositsInv
<1>2. /\ DepositInv(settled)
      /\ settled.covenant = deposits[d].covenant
      /\ settled.closed = deposits[d].closed
      /\ settled.confirmed = deposits[d].confirmed
      /\ settled.spent = deposits[d].spent
      /\ settled.spent_txid = deposits[d].spent_txid
  BY <1>1, SettleKeeps, FieldNames
<1>. HIDE DEF settled
<1>3. d \in funding => /\ deposits[d].covenant # Null
                       /\ ~deposits[d].closed
                       /\ deposits[d].spent =>
                            /\ contract.spent
                            /\ deposits[d].spent_txid = contract.spent_txid
  BY DEF IInv, FundingInv
<1>. QED
  BY <1>1, <1>2, <1>3, RecordStep DEF IInv

LEMMA SpendFundsOK == ASSUME IInv, NEW d \in Deposits, SpendFunds(d) PROVE IInv'
<1>. DEFINE spent == SpendDeposit(deposits[d], contract.spent_txid)
<1>1. /\ d \in Made /\ DepositInv(deposits[d]) /\ CanSpend(deposits[d])
      /\ deposits[d].covenant # Null /\ ~deposits[d].closed
      /\ contract.spent
      /\ deposits' = [deposits EXCEPT ![d] = spent]
      /\ UNCHANGED <<contract, funding, machine>>
  BY DEF SpendFunds, IInv, DepositsInv, FundingInv
<1>2. /\ DepositInv(spent)
      /\ spent.covenant = deposits[d].covenant
      /\ spent.closed = deposits[d].closed
      /\ spent.confirmed = deposits[d].confirmed
      /\ spent.spent_txid = contract.spent_txid
  BY <1>1, SpendKeeps, FieldNames
<1>. HIDE DEF spent
<1>. QED
  BY <1>1, <1>2, RecordStep DEF IInv

-----------------------------------------------------------------------------
\* A cancellation comes before the activation: nothing is closed, spent or settled.
LEMMA CancelOK == ASSUME IInv, Cancel PROVE IInv'
<1>1. /\ ContractInv(contract')
      /\ contract'.status = "canceled" /\ contract'.canceled
  BY CancelKeeps DEF Cancel, IInv
<1>2. /\ ~contract'.closed /\ ~contract'.spent /\ ~contract'.settled
  BY <1>1 DEF ContractInv, Phase, ContractFlags
<1>3. ~contract.spent
  BY DEF Cancel, IInv, ContractInv, Phase, ContractFlags
<1>4. DepositsInv' /\ FundingInv'
  BY <1>3, ContractStep DEF Cancel
<1>. QED
  BY <1>1, <1>2, <1>4 DEF IInv, SecuredInv, CanceledInv, ClosedInv, SpentInv

\* The securing finds the funds confirmed and enough.
LEMMA SecureOK == ASSUME IInv, Secure PROVE IInv'
<1>. DEFINE count == Cardinality(funding)
            sum   == SumOf(funding)
<1>1. /\ contract' = SecureContract(contract, count, sum)
      /\ contract.status = "published"
      /\ Confirmed = funding
      /\ sum >= Subtotal + (Feerate * BaseSize + vin_txfee * count)
      /\ UNCHANGED <<deposits, funding, machine>>
  BY DEF Secure, CanSecure
<1>2. /\ ContractInv(contract')
      /\ contract'.status = "secured"
      /\ contract'.tx_total = Subtotal + (Feerate * BaseSize + vin_txfee * count)
  <2>. HIDE DEF count, sum
  <2>. QED
    BY <1>1, SecureKeeps DEF IInv
<1>3. /\ ~contract'.closed /\ ~contract'.spent /\ ~contract'.settled
      /\ ~contract.spent
  BY <1>1, <1>2 DEF IInv, ContractInv, Phase, ContractFlags
<1>4. DepositsInv' /\ FundingInv'
  BY <1>1, <1>3, ContractStep
<1>5. SecuredInv'
  <2>1. SumOf(funding') >= contract'.tx_total
    BY <1>1, <1>2
  <2>2. \A d \in funding' : deposits'[d].confirmed
    BY <1>1 DEF Confirmed
  <2>. QED
    BY <2>1, <2>2 DEF SecuredInv
<1>. QED
  BY <1>2, <1>3, <1>4, <1>5 DEF IInv, CanceledInv, ClosedInv, SpentInv

\* The activation keeps the funds; the contract is not canceled.
LEMMA ActivateOK == ASSUME IInv, Activate PROVE IInv'
<1>1. /\ contract' = ActivateContract(contract, 0)
      /\ contract.status = "secured"
      /\ UNCHANGED <<deposits, funding>>
  BY DEF Activate
<1>2. /\ ContractInv(contract')
      /\ contract'.status = "active"
      /\ contract'.tx_total = contract.tx_total
  BY <1>1, ActivateKeeps, ContractNames DEF IInv
<1>3. /\ ~contract'.closed /\ ~contract'.spent /\ ~contract'.settled
      /\ ~contract.spent /\ contract.secured /\ ~contract.canceled
  BY <1>1, <1>2 DEF IInv, ContractInv, Phase, ContractFlags
<1>4. DepositsInv' /\ FundingInv'
  BY <1>1, <1>3, ContractStep
<1>5. SecuredInv'
  BY <1>1, <1>2, <1>3 DEF IInv, SecuredInv
<1>. QED
  BY <1>2, <1>3, <1>4, <1>5 DEF IInv, CanceledInv, ClosedInv, SpentInv

\* A machine with an output makes no commit, so no closed contract sees one.
LEMMA MachineCommitOK == ASSUME IInv, MachineCommit PROVE IInv'
<1>1. ~contract.closed
  BY DEF MachineCommit, IInv, ClosedInv
<1>2. UNCHANGED <<contract, deposits, funding>>
  BY DEF MachineCommit
<1>3. DepositsInv' /\ FundingInv' /\ SecuredInv'
  BY <1>2 DEF IInv, DepositsInv, FundingInv, SecuredInv, Made
<1>4. CanceledInv' /\ ClosedInv' /\ SpentInv'
  BY <1>1, <1>2 DEF IInv, CanceledInv, ClosedInv, SpentInv, SettlementTx
<1>. QED
  BY <1>2, <1>3, <1>4 DEF IInv

\* The contract is closed on the head and the output of the machine.
LEMMA CloseWithOutputOK == ASSUME IInv, CloseWithOutput PROVE IInv'
<1>1. /\ contract' = CloseContract(contract, machine)
      /\ contract.status = "active"
      /\ machine.closed /\ machine.output # Null
      /\ UNCHANGED <<deposits, funding, machine>>
  BY DEF CloseWithOutput, CanCloseContract
<1>2. /\ ContractInv(contract')
      /\ contract'.status = "closed"
      /\ contract'.machine_head = machine.head
      /\ contract'.machine_vout = machine.output
      /\ contract'.tx_total = contract.tx_total
  BY <1>1, ContractCloseKeeps, ContractNames DEF IInv
<1>3. /\ ~contract'.spent /\ ~contract'.settled
      /\ ~contract.spent /\ contract.secured /\ ~contract.canceled
  BY <1>1, <1>2 DEF IInv, ContractInv, Phase, ContractFlags
<1>4. DepositsInv' /\ FundingInv'
  BY <1>1, <1>3, ContractStep
<1>5. SecuredInv'
  BY <1>1, <1>2, <1>3 DEF IInv, SecuredInv
<1>6. ClosedInv'
  BY <1>1, <1>2 DEF ClosedInv
<1>. QED
  BY <1>2, <1>3, <1>4, <1>5, <1>6 DEF IInv, CanceledInv, SpentInv

\* The contract is spent in the transaction of its funds.
LEMMA SpendOK == ASSUME IInv, Spend PROVE IInv'
<1>1. /\ contract' = SpendContract(contract, SettlementTx)
      /\ contract.status = "closed"
      /\ UNCHANGED <<deposits, funding, machine>>
  BY DEF Spend
<1>2. /\ ContractInv(contract')
      /\ contract'.status = "spent"
      /\ contract'.spent_txid = SettlementTx
      /\ contract'.machine_head = contract.machine_head
      /\ contract'.machine_vout = contract.machine_vout
      /\ contract'.tx_total = contract.tx_total
  BY <1>1, ContractSpendKeeps, ContractNames DEF IInv
<1>3. /\ ~contract'.settled /\ ~contract'.canceled /\ contract.closed
      /\ ~contract.spent /\ contract.secured /\ ~contract.canceled
  BY <1>1, <1>2 DEF IInv, ContractInv, Phase, ContractFlags
<1>4. DepositsInv' /\ FundingInv'
  BY <1>1, <1>3, ContractStep
<1>5. SecuredInv' /\ CanceledInv'
  BY <1>1, <1>2, <1>3 DEF IInv, SecuredInv, CanceledInv
<1>6. ClosedInv' /\ SpentInv'
  BY <1>1, <1>2, <1>3 DEF IInv, ClosedInv, SpentInv, SettlementTx
<1>. QED
  BY <1>2, <1>4, <1>5, <1>6 DEF IInv

\* The settlement changes neither the funds nor what they were spent in.
LEMMA SettleFundsOK ==
    ASSUME IInv, NEW block \in Blocks \cup {Null}, SettleFunds(block)
    PROVE  IInv'
<1>1. /\ contract' = SettleContract(contract, block)
      /\ contract.spent \/ contract.status = "canceled"
      /\ contract.spent \/ funding = {}
      /\ UNCHANGED <<deposits, funding, machine>>
  BY DEF SettleFunds
<1>2. /\ ContractInv(contract')
      /\ \A f \in (Course \cup {"tx_total"}) \ {"status", "settled"} :
            contract'[f] = contract[f]
  BY <1>1, ContractSettleKeeps, ContractNames DEF IInv, Course
<1>3. /\ contract'.canceled = contract.canceled
      /\ contract'.secured = contract.secured
      /\ contract'.closed = contract.closed
      /\ contract'.spent = contract.spent
      /\ contract'.spent_txid = contract.spent_txid
      /\ contract'.machine_head = contract.machine_head
      /\ contract'.machine_vout = contract.machine_vout
      /\ contract'.tx_total = contract.tx_total
  BY <1>2 DEF Course
<1>4. DepositsInv' /\ FundingInv'
  BY <1>1, <1>3, ContractStep
<1>5. SecuredInv'
  BY <1>1, <1>3 DEF IInv, SecuredInv
<1>6. CanceledInv'
  <2>1. contract.spent => ~contract.canceled
    BY DEF IInv, ContractInv, Phase
  <2>. QED
    BY <1>1, <1>3, <2>1 DEF CanceledInv
<1>7. ClosedInv' /\ SpentInv'
  BY <1>1, <1>3 DEF IInv, ClosedInv, SpentInv, SettlementTx
<1>. QED
  BY <1>2, <1>4, <1>5, <1>6, <1>7 DEF IInv

-----------------------------------------------------------------------------
(* The sum of the values of a set of deposits.                              *)

Chosen(S) == CHOOSE d \in S : TRUE

\* g sums the values of every subset of S, one chosen deposit after the other.
IsSum(g, S) ==
    g = [s \in SUBSET S |->
            IF s = {} THEN 0 ELSE Value[Chosen(s)] + g[s \ {Chosen(s)}]]

LEMMA SumDefined == \A S : SumOf(S) = (CHOOSE g : IsSum(g, S))[S]
BY DEF SumOf, MapThenSumSet, MapThenFoldSet, IsSum, Chosen

\* Among subsets of a finite set there is one that contains none of the others.
LEMMA LeastSet ==
    ASSUME NEW F, IsFiniteSet(F), NEW T \in SUBSET (SUBSET F), T # {}
    PROVE  \E s \in T : \A t \in T : t \subseteq s => t = s
<1>1. IsWellFoundedOn(StrictSubsetOrdering(F), FiniteSubsetsOf(F))
  BY FS_StrictSubsetOrderingWellFounded
<1>2. T \subseteq FiniteSubsetsOf(F)
  BY FS_Subset DEF FiniteSubsetsOf
<1>3. PICK s \in T : \A t \in T : ~ (<<t, s>> \in StrictSubsetOrdering(F))
  BY <1>1, <1>2, WFMin
<1>. QED
  BY <1>3 DEF StrictSubsetOrdering

\* Two such functions agree where both are defined.
LEMMA SumsAgree ==
    ASSUME NEW A, NEW B, NEW g, NEW h, IsSum(g, A), IsSum(h, B),
           NEW S, IsFiniteSet(S), S \subseteq A, S \subseteq B
    PROVE  g[S] = h[S]
<1>. DEFINE T == {s \in SUBSET S : g[s] # h[s]}
<1>1. SUFFICES ASSUME T # {} PROVE FALSE
  OBVIOUS
<1>2. PICK s \in T : \A t \in T : t \subseteq s => t = s
  <2>1. T \in SUBSET (SUBSET S)
    OBVIOUS
  <2>. HIDE DEF T
  <2>. QED  BY <1>1, <2>1, LeastSet
<1>3. /\ g[s] = IF s = {} THEN 0 ELSE Value[Chosen(s)] + g[s \ {Chosen(s)}]
      /\ h[s] = IF s = {} THEN 0 ELSE Value[Chosen(s)] + h[s \ {Chosen(s)}]
  BY DEF IsSum
<1>4. s # {} => Chosen(s) \in s
  BY DEF Chosen
<1>5. s # {} => g[s \ {Chosen(s)}] = h[s \ {Chosen(s)}]
  BY <1>2, <1>4
<1>. QED
  BY <1>3, <1>5

\* There is such a function for every finite set.
LEMMA SumsExist == ASSUME NEW S, IsFiniteSet(S) PROVE \E g : IsSum(g, S)
<1>. DEFINE T == {s \in SUBSET S : ~ \E g : IsSum(g, s)}
            G(s) == CHOOSE g : IsSum(g, s)
<1>1. SUFFICES ASSUME T # {} PROVE FALSE
  OBVIOUS
<1>2. PICK s \in T : \A t \in T : t \subseteq s => t = s
  <2>1. T \in SUBSET (SUBSET S)
    OBVIOUS
  <2>. HIDE DEF T
  <2>. QED  BY <1>1, <2>1, LeastSet
<1>3. \A t \in (SUBSET s) \ {s} : IsSum(G(t), t)
  BY <1>2
<1>4. \A t \in SUBSET s : IsFiniteSet(t)
  BY FS_Subset
<1>. DEFINE F(t) == Value[Chosen(t)] + G(t \ {Chosen(t)})[t \ {Chosen(t)}]
            h == [t \in SUBSET s |-> IF t = {} THEN 0 ELSE F(t)]
<1>5. ASSUME NEW t \in SUBSET s, t # s
      PROVE  G(t)[t] = IF t = {} THEN 0 ELSE F(t)
  <2>1. IsSum(G(t), t)
    BY <1>3, <1>5
  <2>2. G(t)[t] = IF t = {} THEN 0 ELSE Value[Chosen(t)] + G(t)[t \ {Chosen(t)}]
    <3>. HIDE DEF G
    <3>. QED  BY <2>1 DEF IsSum
  <2>3. t # {} => t \ {Chosen(t)} \in (SUBSET s) \ {s}
    BY DEF Chosen
  <2>4. t # {} => G(t)[t \ {Chosen(t)}] = G(t \ {Chosen(t)})[t \ {Chosen(t)}]
    <3>1. t # {} => IsSum(G(t \ {Chosen(t)}), t \ {Chosen(t)})
      BY <2>3, <1>3
    <3>2. IsFiniteSet(t \ {Chosen(t)})
      BY <1>4
    <3>. HIDE DEF G
    <3>. QED  BY <2>1, <3>1, <3>2, SumsAgree
  <2>. QED
    BY <2>2, <2>4
<1>6. ASSUME NEW t \in SUBSET s, t # {}
      PROVE  h[t \ {Chosen(t)}] = G(t \ {Chosen(t)})[t \ {Chosen(t)}]
  <2>. DEFINE u == t \ {Chosen(t)}
  <2>1. u \in SUBSET s /\ u # s
    BY <1>6 DEF Chosen
  <2>2. h[u] = IF u = {} THEN 0 ELSE F(u)
    <3>. HIDE DEF F, u
    <3>. QED  BY <2>1
  <2>. HIDE DEF u, F, G, h
  <2>3. h[u] = G(u)[u]
    BY <2>1, <2>2, <1>5
  <2>. QED
    BY <2>3 DEF u
<1>7. IsSum(h, s)
  <2>1. \A t \in SUBSET s : t # {} => F(t) = Value[Chosen(t)] + h[t \ {Chosen(t)}]
    <3>. HIDE DEF h, G
    <3>. QED  BY <1>6
  <2>2. h = [t \in SUBSET s |->
               IF t = {} THEN 0 ELSE Value[Chosen(t)] + h[t \ {Chosen(t)}]]
    <3>1. h = [t \in SUBSET s |-> IF t = {} THEN 0 ELSE F(t)]
      OBVIOUS
    <3>. HIDE DEF h, F
    <3>. QED  BY <2>1, <3>1
  <2>. QED
    BY <2>2 DEF IsSum
<1>. QED
  BY <1>2, <1>7

\* The sum of a finite set, by the deposit the fold takes first.
LEMMA SumStep ==
    /\ SumOf({}) = 0
    /\ \A S : IsFiniteSet(S) /\ S # {} =>
         SumOf(S) = Value[Chosen(S)] + SumOf(S \ {Chosen(S)})
<1>. DEFINE G(s) == CHOOSE g : IsSum(g, s)
<1>1. ASSUME NEW S, IsFiniteSet(S)
      PROVE  IsSum(G(S), S) /\ SumOf(S) = G(S)[S]
  BY <1>1, SumsExist, SumDefined
<1>. HIDE DEF G
<1>2. ASSUME NEW S, IsFiniteSet(S)
      PROVE  SumOf(S) = IF S = {} THEN 0 ELSE Value[Chosen(S)] + G(S)[S \ {Chosen(S)}]
  BY <1>1, <1>2 DEF IsSum
<1>3. ASSUME NEW S, IsFiniteSet(S)
      PROVE  G(S)[S \ {Chosen(S)}] = SumOf(S \ {Chosen(S)})
  <2>1. IsFiniteSet(S \ {Chosen(S)})
    BY <1>3, FS_Subset
  <2>. QED
    BY <1>1, <1>3, <2>1, SumsAgree
<1>. QED
  BY <1>2, <1>3, FS_EmptySet

LEMMA SumNat == ASSUME NEW S \in SUBSET Deposits, IsFiniteSet(S) PROVE SumOf(S) \in Nat
<1>. DEFINE T == {s \in SUBSET S : SumOf(s) \notin Nat}
<1>1. SUFFICES ASSUME T # {} PROVE FALSE
  OBVIOUS
<1>2. PICK s \in T : \A t \in T : t \subseteq s => t = s
  <2>1. T \in SUBSET (SUBSET S)
    OBVIOUS
  <2>. HIDE DEF T
  <2>. QED  BY <1>1, <2>1, LeastSet
<1>3. IsFiniteSet(s) /\ s # {}
  <2>1. IsFiniteSet(s)
    BY FS_Subset
  <2>2. SumOf(s) \notin Nat
    BY <1>2
  <2>. QED
    BY <2>1, <2>2, SumStep
<1>4. Chosen(s) \in s
  BY <1>3 DEF Chosen
<1>5. SumOf(s \ {Chosen(s)}) \in Nat
  BY <1>2, <1>4
<1>6. Value[Chosen(s)] \in Nat
  BY <1>4, EscrowAssumption DEF EscrowAssumption
<1>7. SumOf(s) = Value[Chosen(s)] + SumOf(s \ {Chosen(s)})
  BY <1>3, SumStep
<1>. QED
  BY <1>5, <1>6, <1>7

\* A deposit taken off a set takes its value off the sum.
LEMMA SumRemove ==
    ASSUME NEW S \in SUBSET Deposits, IsFiniteSet(S), NEW d \in S
    PROVE  SumOf(S) = SumOf(S \ {d}) + Value[d]
<1>. DEFINE Splits(s) == \A e \in s : SumOf(s) = SumOf(s \ {e}) + Value[e]
            T == {s \in SUBSET S : ~ Splits(s)}
<1>1. SUFFICES ASSUME T # {} PROVE FALSE
  OBVIOUS
<1>2. PICK s \in T : \A t \in T : t \subseteq s => t = s
  <2>1. T \in SUBSET (SUBSET S)
    OBVIOUS
  <2>. HIDE DEF T
  <2>. QED  BY <1>1, <2>1, LeastSet
<1>3. PICK e \in s : SumOf(s) # SumOf(s \ {e}) + Value[e]
  BY <1>2
<1>. DEFINE p == Chosen(s)
            x == SumOf(s \ {p})
            y == SumOf(s \ {e})
            z == SumOf(s \ {e, p})
<1>4. /\ p \in s
      /\ IsFiniteSet(s)
      /\ s \in SUBSET Deposits
  BY <1>3, FS_Subset DEF Chosen
<1>5. Value[p] \in Nat /\ Value[e] \in Nat
  BY <1>3, <1>4, EscrowAssumption DEF EscrowAssumption
<1>6. x \in Nat /\ y \in Nat /\ z \in Nat
  <2>1. \A t \in SUBSET s : SumOf(t) \in Nat
    BY <1>4, FS_Subset, SumNat
  <2>. QED  BY <2>1
<1>7. SumOf(s) = Value[p] + x
  BY <1>4, SumStep
<1>8. p # e
  BY <1>3, <1>5, <1>6, <1>7
<1>9. x = z + Value[e]
  <2>1. Splits(s \ {p})
    BY <1>2, <1>4
  <2>2. (s \ {p}) \ {e} = s \ {e, p}
    OBVIOUS
  <2>. QED
    BY <2>1, <2>2, <1>3, <1>8
<1>10. y = z + Value[p]
  <2>1. Splits(s \ {e})
    BY <1>2, <1>3
  <2>2. (s \ {e}) \ {p} = s \ {e, p}
    OBVIOUS
  <2>. QED
    BY <2>1, <2>2, <1>4, <1>8
<1>. HIDE DEF x, y, z, p
<1>11. SumOf(s) = y + Value[e]
  BY <1>5, <1>6, <1>7, <1>9, <1>10
<1>. QED
  BY <1>3, <1>11 DEF y

LEMMA SumAdd ==
    ASSUME NEW S \in SUBSET Deposits, IsFiniteSet(S), NEW d \in Deposits, d \notin S
    PROVE  SumOf(S \cup {d}) = SumOf(S) + Value[d]
<1>1. (S \cup {d}) \ {d} = S /\ S \cup {d} \in SUBSET Deposits
  OBVIOUS
<1>2. IsFiniteSet(S \cup {d})
  BY FS_AddElement
<1>. QED
  BY <1>1, <1>2, SumRemove

-----------------------------------------------------------------------------
(* The sums of the contract, which the operations keep one value at a time, *)
(* are those of the deposits that fund it and of those counted twice.       *)

\* What contract holds where n deposits that hold conf are counted as confirmed
\* and those that hold pend as pending.
Tabulated(c, n, conf, pend) ==
    /\ c.vin_count = n
    /\ c.funds_conf = conf
    /\ c.funds_pend = pend
    /\ c.tx_fees = BaseSize * Feerate + n * vin_txfee
    /\ c.tx_vsize = BaseSize + n * SPEND_TXIN_SIZE
    /\ c.tx_total \in Int
    /\ c.secured /\ ~c.canceled =>
         c.tx_total = Subtotal + BaseSize * Feerate + n * vin_txfee

SumsInv ==
    /\ Made \subseteq Deposits
    /\ IsFiniteSet(funding)
    /\ Tabulated(contract, Cardinality(Confirmed) + Cardinality(CountedTwice),
                 SumOf(Confirmed) + SumOf(CountedTwice), SumOf(funding \ Confirmed))

\* A deposit that was recounted stays locked for as long as it is a fund, so it
\* is not counted a third time.
RecountedInv ==
    /\ recounted \subseteq Made
    /\ IsFiniteSet(recounted)
    /\ \A d \in recounted \cap funding : deposits[d].locked

LEMMA FeesNat ==
    /\ Subtotal \in Nat /\ BaseSize \in Nat /\ SPEND_TXIN_SIZE \in Nat
    /\ Feerate \in Nat /\ vin_txfee \in Nat /\ BaseSize * Feerate \in Nat
BY ContractAssumption DEF ContractAssumption, vin_txfee

LEMMA OneMore == \A n, k \in Int : (n + 1) * k = n * k + k /\ n * k \in Int
OBVIOUS

\* A deposit that funds the contract is confirmed when it is added.
LEMMA TabulateAdd ==
    ASSUME NEW c, IsContract(c), NEW n \in Nat, NEW conf \in Nat, NEW pend \in Nat,
           NEW v \in Nat, Tabulated(c, n, conf, pend), ~c.secured \/ c.canceled
    PROVE  Tabulated(AddContractFunds(c, TRUE, v), n + 1, conf + v, pend)
<1>. DEFINE a == AddContractFunds(c, TRUE, v)
<1>1. /\ a.vin_count = c.vin_count + 1
      /\ a.funds_conf = c.funds_conf + v
      /\ a.funds_pend = c.funds_pend
      /\ a.tx_fees = c.tx_fees + vin_txfee
      /\ a.tx_vsize = c.tx_vsize + SPEND_TXIN_SIZE
      /\ a.tx_total = c.tx_total + v + vin_txfee
      /\ a.canceled = c.canceled
      /\ a.secured = c.secured
  BY ContractNames DEF AddContractFunds, IsContract
<1>2. /\ n * vin_txfee \in Int /\ (n + 1) * vin_txfee = n * vin_txfee + vin_txfee
      /\ n * SPEND_TXIN_SIZE \in Int
      /\ (n + 1) * SPEND_TXIN_SIZE = n * SPEND_TXIN_SIZE + SPEND_TXIN_SIZE
  BY OneMore, FeesNat
<1>. HIDE DEF a
<1>3. /\ a.vin_count = n + 1 /\ a.funds_conf = conf + v /\ a.funds_pend = pend
      /\ a.tx_fees = BaseSize * Feerate + n * vin_txfee + vin_txfee
      /\ a.tx_vsize = BaseSize + n * SPEND_TXIN_SIZE + SPEND_TXIN_SIZE
  BY <1>1 DEF Tabulated
<1>4. a.tx_total \in Int
  BY <1>1, FeesNat DEF Tabulated
<1>5. /\ a.tx_fees = BaseSize * Feerate + (n + 1) * vin_txfee
      /\ a.tx_vsize = BaseSize + (n + 1) * SPEND_TXIN_SIZE
  BY <1>2, <1>3, FeesNat
<1>9. Tabulated(a, n + 1, conf + v, pend)
  BY <1>1, <1>3, <1>4, <1>5 DEF Tabulated
<1>. QED
  BY <1>9 DEF a

\* The pending funds alone are changed.
SameButPending(a, c) ==
    /\ a.vin_count = c.vin_count /\ a.funds_conf = c.funds_conf
    /\ a.tx_fees = c.tx_fees /\ a.tx_vsize = c.tx_vsize /\ a.tx_total = c.tx_total
    /\ a.canceled = c.canceled /\ a.secured = c.secured

\* It is pending when it is added.
LEMMA TabulatePend ==
    ASSUME NEW c, IsContract(c), NEW n \in Nat, NEW conf \in Nat, NEW pend \in Nat,
           NEW v \in Nat, Tabulated(c, n, conf, pend)
    PROVE  Tabulated(AddContractFunds(c, FALSE, v), n, conf, pend + v)
<1>. DEFINE a == AddContractFunds(c, FALSE, v)
<1>1. /\ SameButPending(a, c)
      /\ a.funds_pend = c.funds_pend + v
  BY ContractNames DEF AddContractFunds, IsContract, SameButPending
<1>. HIDE DEF a
<1>9. Tabulated(a, n, conf, pend + v)
  BY <1>1 DEF Tabulated, SameButPending
<1>. QED
  BY <1>9 DEF a

\* It is confirmed after it was added.
LEMMA TabulateConfirm ==
    ASSUME NEW c, IsContract(c), NEW n \in Nat, NEW conf \in Nat, NEW pend \in Nat,
           NEW v \in Nat, Tabulated(c, n, conf, pend + v), ~c.secured \/ c.canceled
    PROVE  Tabulated(ConfirmContractFunds(c, v), n + 1, conf + v, pend)
<1>. DEFINE a == AddContractFunds(c, TRUE, v)
            b == ConfirmContractFunds(c, v)
<1>1. Tabulated(a, n + 1, conf + v, pend + v)
  <2>1. pend + v \in Nat
    OBVIOUS
  <2>. QED
    BY <2>1, TabulateAdd
<1>2. /\ SameButPending(b, a)
      /\ b.funds_pend = a.funds_pend - v
  BY ContractNames DEF ConfirmContractFunds, AddContractFunds, IsContract, SameButPending
<1>. HIDE DEF a, b
<1>3. b.funds_pend = pend
  BY <1>1, <1>2 DEF Tabulated
<1>9. Tabulated(b, n + 1, conf + v, pend)
  BY <1>1, <1>2, <1>3 DEF Tabulated, SameButPending
<1>. QED
  BY <1>9 DEF b

\* A confirmed deposit is withdrawn.
LEMMA TabulateRemove ==
    ASSUME NEW c, IsContract(c), NEW n \in Nat, NEW conf \in Nat, NEW pend \in Nat,
           NEW v \in Nat, Tabulated(c, n + 1, conf + v, pend), ~c.secured \/ c.canceled
    PROVE  Tabulated(RemContractFunds(c, TRUE, v), n, conf, pend)
<1>. DEFINE a == RemContractFunds(c, TRUE, v)
<1>1. /\ a.vin_count = c.vin_count - 1
      /\ a.funds_conf = c.funds_conf - v
      /\ a.funds_pend = c.funds_pend
      /\ a.tx_fees = c.tx_fees - vin_txfee
      /\ a.tx_vsize = c.tx_vsize - SPEND_TXIN_SIZE
      /\ a.tx_total = c.tx_total - (v + vin_txfee)
      /\ a.canceled = c.canceled
      /\ a.secured = c.secured
  BY ContractNames DEF RemContractFunds, IsContract
<1>2. /\ n * vin_txfee \in Int /\ (n + 1) * vin_txfee = n * vin_txfee + vin_txfee
      /\ n * SPEND_TXIN_SIZE \in Int
      /\ (n + 1) * SPEND_TXIN_SIZE = n * SPEND_TXIN_SIZE + SPEND_TXIN_SIZE
  BY OneMore, FeesNat
<1>. HIDE DEF a
<1>3. /\ c.vin_count = n + 1 /\ c.funds_conf = conf + v /\ c.funds_pend = pend
      /\ c.tx_fees = BaseSize * Feerate + (n + 1) * vin_txfee
      /\ c.tx_vsize = BaseSize + (n + 1) * SPEND_TXIN_SIZE
  BY DEF Tabulated
<1>4. a.tx_total \in Int
  BY <1>1, FeesNat DEF Tabulated
<1>5. /\ a.vin_count = n /\ a.funds_conf = conf
      /\ a.tx_fees = BaseSize * Feerate + n * vin_txfee
      /\ a.tx_vsize = BaseSize + n * SPEND_TXIN_SIZE
  BY <1>1, <1>2, <1>3, FeesNat
<1>9. Tabulated(a, n, conf, pend)
  BY <1>1, <1>3, <1>4, <1>5 DEF Tabulated
<1>. QED
  BY <1>9 DEF a

\* A pending deposit is withdrawn.
LEMMA TabulateDrop ==
    ASSUME NEW c, IsContract(c), NEW n \in Nat, NEW conf \in Nat, NEW pend \in Nat,
           NEW v \in Nat, Tabulated(c, n, conf, pend + v)
    PROVE  Tabulated(RemContractFunds(c, FALSE, v), n, conf, pend)
<1>. DEFINE a == RemContractFunds(c, FALSE, v)
<1>1. /\ SameButPending(a, c)
      /\ a.funds_pend = c.funds_pend - v
  BY ContractNames DEF RemContractFunds, IsContract, SameButPending
<1>. HIDE DEF a
<1>2. a.funds_pend = pend
  BY <1>1 DEF Tabulated
<1>9. Tabulated(a, n, conf, pend)
  BY <1>1, <1>2 DEF Tabulated, SameButPending
<1>. QED
  BY <1>9 DEF a

\* The securing writes the sums anew.
LEMMA TabulateSecure ==
    ASSUME NEW c, ContractInv(c), c.status = "published", NEW n \in Nat, NEW sum \in Nat
    PROVE  Tabulated(SecureContract(c, n, sum), n, sum, 0)
<1>. DEFINE a == SecureContract(c, n, sum)
<1>1. /\ a.vin_count = n
      /\ a.funds_conf = sum
      /\ a.funds_pend = 0
      /\ a.tx_fees = Feerate * BaseSize + vin_txfee * n
      /\ a.tx_vsize = BaseSize + n * SPEND_TXIN_SIZE
      /\ a.tx_total = Subtotal + (Feerate * BaseSize + vin_txfee * n)
      /\ a.secured = TRUE
  BY ContractNames DEF SecureContract, ContractInv, IsContract
<1>2. Feerate * BaseSize = BaseSize * Feerate /\ vin_txfee * n = n * vin_txfee
  BY FeesNat
<1>. HIDE DEF a
<1>3. /\ a.tx_fees = BaseSize * Feerate + n * vin_txfee
      /\ a.tx_total = Subtotal + (BaseSize * Feerate + n * vin_txfee)
  BY <1>1, <1>2
<1>4. /\ a.tx_total \in Int
      /\ a.tx_total = Subtotal + BaseSize * Feerate + n * vin_txfee
  <2>1. n * vin_txfee \in Int
    BY FeesNat
  <2>. QED
    BY <1>3, <2>1, FeesNat
<1>9. Tabulated(a, n, sum, 0)
  BY <1>1, <1>3, <1>4 DEF Tabulated
<1>. QED
  BY <1>9 DEF a

\* The sets of funds are finite sets of deposits, so their sums are numbers.
LEMMA FundsFinite ==
    ASSUME IInv, SumsInv, RecountedInv
    PROVE  /\ funding \in SUBSET Deposits /\ Confirmed \in SUBSET funding
           /\ CountedTwice \in SUBSET Deposits /\ IsFiniteSet(CountedTwice)
           /\ IsFiniteSet(Confirmed) /\ IsFiniteSet(funding \ Confirmed)
           /\ Cardinality(Confirmed) \in Nat /\ Cardinality(CountedTwice) \in Nat
           /\ SumOf(Confirmed) \in Nat /\ SumOf(funding \ Confirmed) \in Nat
           /\ SumOf(CountedTwice) \in Nat
<1>1. /\ funding \in SUBSET Deposits
      /\ Confirmed \in SUBSET funding
      /\ funding \ Confirmed \in SUBSET funding
      /\ IsFiniteSet(funding)
  BY DEF IInv, FundingInv, SumsInv, Confirmed
<1>2. IsFiniteSet(Confirmed) /\ IsFiniteSet(funding \ Confirmed)
  BY <1>1, FS_Subset
<1>3. CountedTwice \in SUBSET Deposits /\ IsFiniteSet(CountedTwice)
  BY FS_EmptySet DEF CountedTwice, RecountedInv, SumsInv
<1>. QED
  BY <1>1, <1>2, <1>3, FS_CardinalityType, SumNat

\* The operations on the sums leave what was counted twice as it is.
LEMMA TwiceKept ==
    ASSUME IInv, recounted' = recounted, NEW confirmed, NEW value,
           \/ contract' = AddContractFunds(contract, confirmed, value)
           \/ contract' = ConfirmContractFunds(contract, value)
           \/ contract' = RemContractFunds(contract, confirmed, value)
    PROVE  CountedTwice' = CountedTwice
<1>1. contract'.secured = contract.secured
  <2>1. IsContract(contract)
    BY DEF IInv, ContractInv
  <2>2. contract \in {[f \in CFields |-> contract[f]]} /\ "secured" \in CFields
    BY <2>1, ContractNames DEF IsContract
  <2>3. AddContractFunds(contract, confirmed, value).secured = contract.secured
    BY <2>2 DEF AddContractFunds
  <2>4. AddContractFunds(contract, TRUE, value).secured = contract.secured
    BY <2>2 DEF AddContractFunds
  <2>5. RemContractFunds(contract, confirmed, value).secured = contract.secured
    BY <2>2 DEF RemContractFunds
  <2>6. ConfirmContractFunds(contract, value).secured = contract.secured
    <3>1. DOMAIN AddContractFunds(contract, TRUE, value) = CFields
      BY <2>2 DEF AddContractFunds
    <3>. QED
      BY <2>2, <2>4, <3>1 DEF ConfirmContractFunds
  <2>. QED
    BY <2>3, <2>5, <2>6
<1>. QED  BY <1>1 DEF CountedTwice

\* A step that changes neither the funds, nor which are confirmed, nor the sums.
LEMMA SumsSame ==
    ASSUME IInv, SumsInv, Made' \subseteq Deposits, funding' = funding,
           \A e \in funding : deposits'[e].confirmed = deposits[e].confirmed,
           \A f \in Totals : contract'[f] = contract[f],
           contract'.secured = contract.secured, recounted' = recounted,
           contract'.canceled = TRUE \/ contract'.canceled = contract.canceled
    PROVE  SumsInv'
<1>1. Confirmed' = Confirmed /\ CountedTwice' = CountedTwice
  BY DEF Confirmed, CountedTwice
<1>2. /\ contract'.vin_count = contract.vin_count
      /\ contract'.funds_conf = contract.funds_conf
      /\ contract'.funds_pend = contract.funds_pend
      /\ contract'.tx_fees = contract.tx_fees
      /\ contract'.tx_vsize = contract.tx_vsize
      /\ contract'.tx_total = contract.tx_total
  BY ContractNames
<1>. QED
  BY <1>1, <1>2 DEF SumsInv, Tabulated

\* A fund that is not confirmed is added.
LEMMA SumsPend ==
    ASSUME IInv, SumsInv, RecountedInv, NEW d \in Deposits, d \notin funding,
           Made' \subseteq Deposits, funding' = funding \cup {d},
           \A e \in funding : deposits'[e].confirmed = deposits[e].confirmed,
           ~deposits'[d].confirmed,
           contract' = AddContractFunds(contract, FALSE, Value[d]),
           recounted' = recounted
    PROVE  SumsInv'
<1>. DEFINE t == Cardinality(CountedTwice)
            w == SumOf(CountedTwice)
            n == Cardinality(Confirmed) + t
            conf == SumOf(Confirmed) + w
            pend == SumOf(funding \ Confirmed)
<1>1. /\ Confirmed' = Confirmed
      /\ (funding \ Confirmed)' = (funding \ Confirmed) \cup {d}
  BY DEF Confirmed
<1>2. n \in Nat /\ conf \in Nat /\ pend \in Nat /\ Value[d] \in Nat /\ IsContract(contract)
      /\ Tabulated(contract, n, conf, pend)
  BY FundsFinite, EscrowAssumption DEF EscrowAssumption, IInv, ContractInv, SumsInv
<1>3. SumOf((funding \ Confirmed) \cup {d}) = pend + Value[d]
  <2>1. funding \ Confirmed \in SUBSET Deposits
    BY FundsFinite
  <2>. QED
    BY <2>1, FundsFinite, SumAdd
<1>4. Tabulated(contract', n, conf, pend + Value[d])
  <2>. HIDE DEF n, conf, pend
  <2>. QED  BY <1>2, TabulatePend
<1>5. IsFiniteSet(funding')
  BY FS_AddElement DEF SumsInv
<1>8. CountedTwice' = CountedTwice
  BY TwiceKept
<1>. QED
  BY <1>1, <1>3, <1>4, <1>5, <1>8 DEF SumsInv

\* A fund that is confirmed is added.
LEMMA SumsAdd ==
    ASSUME IInv, SumsInv, RecountedInv, NEW d \in Deposits, d \notin funding,
           Made' \subseteq Deposits, funding' = funding \cup {d},
           \A e \in funding : deposits'[e].confirmed = deposits[e].confirmed,
           deposits'[d].confirmed,
           contract' = AddContractFunds(contract, TRUE, Value[d]),
           ~contract.secured \/ contract.canceled,
           recounted' = recounted
    PROVE  SumsInv'
<1>. DEFINE t == Cardinality(CountedTwice)
            w == SumOf(CountedTwice)
            n == Cardinality(Confirmed) + t
            conf == SumOf(Confirmed) + w
            pend == SumOf(funding \ Confirmed)
<1>1. /\ Confirmed' = Confirmed \cup {d}
      /\ (funding \ Confirmed)' = funding \ Confirmed
      /\ d \notin Confirmed
  BY DEF Confirmed
<1>2. n \in Nat /\ conf \in Nat /\ pend \in Nat /\ Value[d] \in Nat /\ IsContract(contract)
      /\ Tabulated(contract, n, conf, pend)
  BY FundsFinite, EscrowAssumption DEF EscrowAssumption, IInv, ContractInv, SumsInv
<1>3. /\ SumOf(Confirmed \cup {d}) + w = conf + Value[d]
      /\ Cardinality(Confirmed \cup {d}) + t = n + 1
  <2>1. Confirmed \in SUBSET Deposits /\ Value[d] \in Nat
    BY FundsFinite, EscrowAssumption DEF EscrowAssumption
  <2>2. /\ SumOf(Confirmed \cup {d}) = SumOf(Confirmed) + Value[d]
        /\ Cardinality(Confirmed \cup {d}) = Cardinality(Confirmed) + 1
    BY <1>1, <2>1, FundsFinite, SumAdd, FS_AddElement
  <2>3. /\ Cardinality(Confirmed) \in Nat /\ t \in Nat
        /\ SumOf(Confirmed) \in Nat /\ w \in Nat
    BY FundsFinite
  <2>. HIDE DEF t, w
  <2>. QED
    BY <2>1, <2>2, <2>3
<1>4. Tabulated(contract', n + 1, conf + Value[d], pend)
  <2>. HIDE DEF n, conf, pend
  <2>. QED  BY <1>2, TabulateAdd
<1>5. IsFiniteSet(funding')
  BY FS_AddElement DEF SumsInv
<1>8. CountedTwice' = CountedTwice
  BY TwiceKept
<1>. QED
  BY <1>1, <1>3, <1>4, <1>5, <1>8 DEF SumsInv

\* A fund is confirmed.
LEMMA SumsConfirm ==
    ASSUME IInv, SumsInv, RecountedInv, NEW d \in funding, ~deposits[d].confirmed,
           Made' \subseteq Deposits, funding' = funding,
           \A e \in funding \ {d} : deposits'[e].confirmed = deposits[e].confirmed,
           deposits'[d].confirmed,
           contract' = ConfirmContractFunds(contract, Value[d]),
           ~contract.secured \/ contract.canceled,
           recounted' = recounted
    PROVE  SumsInv'
<1>. DEFINE t == Cardinality(CountedTwice)
            w == SumOf(CountedTwice)
            n == Cardinality(Confirmed) + t
            conf == SumOf(Confirmed) + w
            Pend == funding \ Confirmed
            rest == SumOf(Pend \ {d})
<1>1. /\ Confirmed' = Confirmed \cup {d}
      /\ (funding \ Confirmed)' = Pend \ {d}
      /\ d \notin Confirmed
      /\ d \in Pend
  BY DEF Confirmed
<1>2. /\ Pend \in SUBSET Deposits /\ IsFiniteSet(Pend)
      /\ Confirmed \in SUBSET Deposits /\ IsFiniteSet(Confirmed)
      /\ d \in Deposits
  BY FundsFinite
<1>3. /\ SumOf(Confirmed \cup {d}) + w = conf + Value[d]
      /\ Cardinality(Confirmed \cup {d}) + t = n + 1
  <2>1. Value[d] \in Nat
    BY <1>2, EscrowAssumption DEF EscrowAssumption
  <2>2. /\ SumOf(Confirmed \cup {d}) = SumOf(Confirmed) + Value[d]
        /\ Cardinality(Confirmed \cup {d}) = Cardinality(Confirmed) + 1
    BY <1>1, <1>2, SumAdd, FS_AddElement
  <2>3. /\ Cardinality(Confirmed) \in Nat /\ t \in Nat
        /\ SumOf(Confirmed) \in Nat /\ w \in Nat
    BY FundsFinite
  <2>. HIDE DEF t, w
  <2>. QED
    BY <2>1, <2>2, <2>3
<1>4. SumOf(Pend) = rest + Value[d]
  <2>. HIDE DEF Pend
  <2>. QED  BY <1>1, <1>2, SumRemove
<1>5. rest \in Nat
  <2>1. Pend \ {d} \in SUBSET Deposits /\ IsFiniteSet(Pend \ {d})
    <3>. HIDE DEF Pend
    <3>. QED  BY <1>2, FS_Subset
  <2>. QED  BY <2>1, SumNat
<1>6. n \in Nat /\ conf \in Nat /\ Value[d] \in Nat /\ IsContract(contract)
      /\ Tabulated(contract, n, conf, SumOf(Pend))
  BY <1>2, FundsFinite, EscrowAssumption DEF EscrowAssumption, IInv, ContractInv, SumsInv
<1>7. Tabulated(contract', n + 1, conf + Value[d], rest)
  <2>. HIDE DEF n, conf, Pend, rest
  <2>. QED  BY <1>4, <1>5, <1>6, TabulateConfirm
<1>8. CountedTwice' = CountedTwice
  BY TwiceKept
<1>. QED
  BY <1>1, <1>3, <1>7, <1>8 DEF SumsInv

\* A fund is withdrawn.
LEMMA SumsWithdraw ==
    ASSUME IInv, SumsInv, RecountedInv, NEW d \in funding,
           Made' \subseteq Deposits, funding' = funding \ {d},
           \A e \in funding \ {d} : deposits'[e].confirmed = deposits[e].confirmed,
           contract' = RemContractFunds(contract, deposits[d].confirmed, Value[d]),
           deposits[d].confirmed \in BOOLEAN,
           ~contract.secured \/ contract.canceled,
           recounted' = recounted
    PROVE  SumsInv'
<1>. DEFINE t == Cardinality(CountedTwice)
            w == SumOf(CountedTwice)
            n == Cardinality(Confirmed) + t
            conf == SumOf(Confirmed) + w
            Pend == funding \ Confirmed
            pend == SumOf(Pend)
<1>1. /\ Pend \in SUBSET Deposits /\ IsFiniteSet(Pend)
      /\ Confirmed \in SUBSET Deposits /\ IsFiniteSet(Confirmed)
      /\ d \in Deposits /\ IsFiniteSet(funding')
      /\ Confirmed' = Confirmed \ {d}
      /\ (funding \ Confirmed)' = Pend \ {d}
  <2>1. IsFiniteSet(funding')
    BY FS_Subset DEF SumsInv
  <2>. QED
    BY <2>1, FundsFinite DEF Confirmed
<1>2. n \in Nat /\ conf \in Nat /\ pend \in Nat /\ Value[d] \in Nat /\ IsContract(contract)
      /\ Tabulated(contract, n, conf, pend)
  BY <1>1, FundsFinite, EscrowAssumption DEF EscrowAssumption, IInv, ContractInv, SumsInv
<1>8. CountedTwice' = CountedTwice
  BY TwiceKept
<1>. HIDE DEF Pend
<1>3. CASE deposits[d].confirmed = TRUE
  <2>. DEFINE rest == SumOf(Confirmed \ {d}) + w
              less == Cardinality(Confirmed \ {d}) + t
  <2>1. d \in Confirmed /\ Pend \ {d} = Pend
    BY <1>3 DEF Confirmed, Pend
  <2>3. IsFiniteSet(Confirmed \ {d}) /\ Confirmed \ {d} \in SUBSET Deposits
    BY <1>1, FS_Subset
  <2>6. /\ SumOf(Confirmed \ {d}) \in Nat /\ w \in Nat
        /\ Cardinality(Confirmed \ {d}) \in Nat /\ t \in Nat
        /\ SumOf(Confirmed) = SumOf(Confirmed \ {d}) + Value[d]
        /\ Cardinality(Confirmed) \in Nat
        /\ Cardinality(Confirmed \ {d}) = Cardinality(Confirmed) - 1
    BY <1>1, <2>1, <2>3, SumNat, SumRemove, FundsFinite, FS_CardinalityType, FS_RemoveElement
  <2>2. conf = rest + Value[d] /\ rest \in Nat
    BY <1>2, <2>6
  <2>4. rest \in Nat /\ less \in Nat /\ n = less + 1
    BY <2>2, <2>6
  <2>5. Tabulated(contract', less, rest, pend)
    <3>. HIDE DEF n, conf, pend, rest, less
    <3>1. Tabulated(contract, less + 1, rest + Value[d], pend)
      BY <1>2, <2>2, <2>4
    <3>. QED  BY <1>2, <1>3, <2>4, <3>1, TabulateRemove
  <2>. QED
    BY <1>1, <1>8, <2>1, <2>5 DEF SumsInv
<1>4. CASE deposits[d].confirmed = FALSE
  <2>. DEFINE rest == SumOf(Pend \ {d})
  <2>1. d \in Pend /\ Confirmed \ {d} = Confirmed
    BY <1>4 DEF Confirmed, Pend
  <2>2. pend = rest + Value[d]
    BY <1>1, <2>1, SumRemove
  <2>3. IsFiniteSet(Pend \ {d}) /\ Pend \ {d} \in SUBSET Deposits
    BY <1>1, FS_Subset
  <2>4. rest \in Nat
    BY <2>3, SumNat
  <2>5. Tabulated(contract', n, conf, rest)
    <3>. HIDE DEF n, conf, pend, rest
    <3>1. Tabulated(contract, n, conf, rest + Value[d])
      BY <1>2, <2>2
    <3>. QED  BY <1>2, <1>4, <2>4, <3>1, TabulateDrop
  <2>. QED
    BY <1>1, <1>8, <2>1, <2>5 DEF SumsInv
<1>. QED
  BY <1>3, <1>4

\* A fund that is confirmed is added once more.
LEMMA SumsTwice ==
    ASSUME IInv, SumsInv, RecountedInv, NEW d \in funding, d \notin recounted,
           Made' \subseteq Deposits, funding' = funding,
           \A e \in funding : deposits'[e].confirmed = deposits[e].confirmed,
           contract' = AddContractFunds(contract, TRUE, Value[d]),
           ~contract.secured, contract'.secured = contract.secured,
           recounted' = recounted \cup {d}
    PROVE  SumsInv'
<1>. DEFINE k == Cardinality(Confirmed)
            v == SumOf(Confirmed)
            n == k + Cardinality(recounted)
            conf == v + SumOf(recounted)
            pend == SumOf(funding \ Confirmed)
<1>1. /\ CountedTwice = recounted /\ CountedTwice' = recounted \cup {d}
      /\ Confirmed' = Confirmed /\ (funding \ Confirmed)' = funding \ Confirmed
  BY DEF CountedTwice, Confirmed
<1>2. /\ recounted \in SUBSET Deposits /\ IsFiniteSet(recounted)
      /\ k \in Nat /\ v \in Nat /\ pend \in Nat
      /\ Cardinality(recounted) \in Nat /\ SumOf(recounted) \in Nat
      /\ d \in Deposits /\ Value[d] \in Nat /\ IsContract(contract)
      /\ Tabulated(contract, n, conf, pend)
  BY <1>1, FundsFinite, EscrowAssumption DEF EscrowAssumption, IInv, ContractInv, SumsInv
<1>3. /\ SumOf(recounted \cup {d}) = SumOf(recounted) + Value[d]
      /\ Cardinality(recounted \cup {d}) = Cardinality(recounted) + 1
  BY <1>2, SumAdd, FS_AddElement
<1>. HIDE DEF k, v, pend
<1>4. /\ n \in Nat /\ conf \in Nat
      /\ k + Cardinality(recounted \cup {d}) = n + 1
      /\ v + SumOf(recounted \cup {d}) = conf + Value[d]
  BY <1>2, <1>3
<1>5. Tabulated(contract', n + 1, conf + Value[d], pend)
  <2>. HIDE DEF n, conf
  <2>. QED  BY <1>2, <1>4, TabulateAdd
<1>6. IsFiniteSet(funding')
  BY DEF SumsInv
<1>. QED
  BY <1>1, <1>4, <1>5, <1>6 DEF SumsInv, k, v, pend

-----------------------------------------------------------------------------
\* A step that changes the record of d, which stays locked if it stays a fund.
LEMMA RecountedRecord ==
    ASSUME IInv, RecountedInv, NEW d \in Made, NEW updated,
           deposits' = [deposits EXCEPT ![d] = updated], recounted' = recounted,
           funding' \subseteq funding,
           d \in funding' /\ deposits[d].locked => updated.locked
    PROVE  RecountedInv'
BY DEF RecountedInv, IInv, DepositsInv, Made

LEMMA RecountedStep == IInv /\ RecountedInv /\ [Next]_vars => RecountedInv'
<1>. SUFFICES ASSUME IInv, RecountedInv, [Next]_vars PROVE RecountedInv'
  OBVIOUS
<1>1. funding \subseteq Made /\ \A d \in Made : DepositInv(deposits[d])
  BY DEF IInv, FundingInv, DepositsInv
<1>2. ASSUME UNCHANGED <<deposits, funding, recounted>> PROVE RecountedInv'
  BY <1>2 DEF RecountedInv, Made
<1>3. ASSUME NEW d \in Deposits, NEW created, d \notin Made, deposits' = With(d, created),
             funding' \subseteq funding \cup {d}, recounted' = recounted
      PROVE  RecountedInv'
  BY <1>1, <1>3 DEF RecountedInv, With, Made
<1>4. ASSUME NEW d \in Deposits, Confirm(d) PROVE RecountedInv'
  <2>1. d \in Made /\ ConfirmDeposit(deposits[d]).locked = deposits[d].locked
    BY <1>1, <1>4, ConfirmKeeps, FieldNames DEF Confirm
  <2>. QED  BY <1>4, <2>1, RecountedRecord DEF Confirm
<1>5. ASSUME NEW d \in Deposits, NEW c \in Covenants, Lock(d, c) PROVE RecountedInv'
  <2>1. /\ d \in Made /\ LockDeposit(deposits[d], c).locked
        /\ deposits' = [deposits EXCEPT ![d] = LockDeposit(deposits[d], c)]
        /\ funding' = funding \cup {d}
        /\ recounted' = recounted \cup ({d} \cap funding)
    BY <1>1, <1>5, LockKeeps, FieldNames DEF Lock
  <2>2. /\ Made' = Made /\ deposits'[d].locked
        /\ \A e \in Made \ {d} : deposits'[e] = deposits[e]
    BY <2>1 DEF IInv, DepositsInv, Made
  <2>3. recounted' = recounted \/ recounted' = recounted \cup {d}
    BY <2>1
  <2>4. IsFiniteSet(recounted')
    BY <2>3, FS_AddElement DEF RecountedInv
  <2>. QED  BY <1>1, <2>1, <2>2, <2>4 DEF RecountedInv
<1>6. ASSUME NEW d \in Deposits, Withdraw(d) PROVE RecountedInv'
  <2>1. PICK updated : deposits' = [deposits EXCEPT ![d] = updated]
    <3>1. CASE CanRelease(deposits[d])
      BY <1>6, <3>1 DEF Withdraw
    <3>2. CASE ~CanRelease(deposits[d])
      <4>1. deposits' = [deposits EXCEPT ![d] = deposits[d]]
        BY <1>6, <3>2 DEF Withdraw, IInv, DepositsInv, Made
      <4>. QED  BY <4>1
    <3>. QED  BY <3>1, <3>2
  <2>2. /\ d \in Made /\ d \notin funding' /\ funding' \subseteq funding
        /\ recounted' = recounted
    BY <1>1, <1>6 DEF Withdraw
  <2>. QED  BY <2>1, <2>2, RecountedRecord
<1>7. ASSUME NEW d \in Deposits, Close(d) PROVE RecountedInv'
  BY <1>1, <1>7, RecountedRecord, CloseKeeps, FieldNames DEF Close, CanClose
<1>8. ASSUME NEW d \in Deposits, Return(d) PROVE RecountedInv'
  BY <1>8, RecountedRecord DEF Return
<1>9. ASSUME NEW d \in Deposits, SpendFunds(d) PROVE RecountedInv'
  <2>1. d \in Made /\ CanSpend(deposits[d])
    BY <1>1, <1>9 DEF SpendFunds
  <2>2. SpendDeposit(deposits[d], contract.spent_txid).locked = deposits[d].locked
    BY <1>1, <2>1, SpendKeeps, FieldNames
  <2>. QED  BY <1>9, <2>1, <2>2, RecountedRecord DEF SpendFunds
<1>10. ASSUME NEW d \in Deposits, NEW block \in Blocks, Settle(d, block)
       PROVE  RecountedInv'
  <2>1. SettleDeposit(deposits[d], block).locked = deposits[d].locked
    BY <1>1, <1>10, SettleKeeps, FieldNames DEF Settle
  <2>. QED  BY <1>10, <2>1, RecountedRecord DEF Settle
<1>11. CASE UNCHANGED vars
  BY <1>2, <1>11 DEF vars
<1>12. CASE Next
  <2>1. ASSUME NEW d \in Deposits, Register(d) PROVE RecountedInv'
    BY <1>3, <2>1 DEF Register
  <2>2. ASSUME NEW d \in Deposits, NEW c \in Covenants, Commit(d, c) PROVE RecountedInv'
    BY <1>3, <2>2 DEF Commit
  <2>3. CASE Cancel \/ Secure \/ Activate \/ MachineCommit \/ CloseWithOutput \/ Spend
             \/ \E b \in Blocks \cup {Null} : SettleFunds(b)
    BY <1>2, <2>3
       DEF Cancel, Secure, Activate, MachineCommit, CloseWithOutput, Spend, SettleFunds
  <2>. QED
    BY <1>4, <1>5, <1>6, <1>7, <1>8, <1>9, <1>10, <1>12, <2>1, <2>2, <2>3 DEF Next
<1>. QED  BY <1>11, <1>12

-----------------------------------------------------------------------------
\* The sums hold at the start and through every step.
LEMMA SumsInit == Init => SumsInv
<1>. SUFFICES ASSUME Init PROVE SumsInv
  OBVIOUS
<1>1. /\ Made = {} /\ Confirmed = {} /\ funding \ Confirmed = {} /\ funding = {}
      /\ CountedTwice = {}
  BY DEF Init, Made, Confirmed, CountedTwice
<1>2. /\ contract.vin_count = 0 /\ contract.funds_conf = 0 /\ contract.funds_pend = 0
      /\ contract.tx_fees = BaseSize * Feerate
      /\ contract.tx_total = Subtotal + BaseSize * Feerate
      /\ contract.tx_vsize = BaseSize
      /\ contract.secured = FALSE
  BY ContractNames DEF Init, CreateContract, Initial, Flags
<1>3. 0 * vin_txfee = 0 /\ 0 * SPEND_TXIN_SIZE = 0
  BY FeesNat
<1>4. Tabulated(contract, 0, 0, 0)
  BY <1>2, <1>3, FeesNat DEF Tabulated
<1>. QED
  BY <1>1, <1>4, SumStep, FS_EmptySet DEF SumsInv

LEMMA SumsStep == IInv /\ SumsInv /\ RecountedInv /\ [Next]_vars => SumsInv'
<1>. SUFFICES ASSUME IInv, SumsInv, RecountedInv, [Next]_vars PROVE SumsInv'
  OBVIOUS
<1>1. /\ Made \subseteq Deposits
      /\ funding \subseteq Made
      /\ deposits = [d \in Made |-> deposits[d]]
      /\ ContractInv(contract)
      /\ \A d \in Made : DepositInv(deposits[d])
  BY DEF IInv, SumsInv, FundingInv, DepositsInv
<1>2. ASSUME NEW d \in Deposits, NEW created, d \notin Made, deposits' = With(d, created)
      PROVE  /\ Made' \subseteq Deposits
             /\ \A e \in funding : deposits'[e] = deposits[e]
             /\ deposits'[d] = created
             /\ d \notin funding
  BY <1>1, <1>2 DEF With, Made
<1>3. ASSUME NEW d \in Made, NEW updated, deposits' = [deposits EXCEPT ![d] = updated]
      PROVE  /\ Made' \subseteq Deposits
             /\ \A e \in funding \ {d} : deposits'[e] = deposits[e]
             /\ deposits'[d] = updated
  BY <1>1, <1>3 DEF Made
<1>4. contract.status = "published" => ~contract.secured
  BY <1>1 DEF ContractInv, Phase
<1>5. contract.status = "canceled" => contract.canceled
  BY <1>1 DEF ContractInv, Phase
<1>6. ASSUME NEW d \in Made, NEW updated, deposits' = [deposits EXCEPT ![d] = updated],
             updated.confirmed = deposits[d].confirmed,
             UNCHANGED <<contract, funding, recounted>>
      PROVE  SumsInv'
  <2>1. \A e \in funding : deposits'[e].confirmed = deposits[e].confirmed
    BY <1>3, <1>6
  <2>2. /\ contract' = contract /\ funding' = funding /\ recounted' = recounted
        /\ Made' \subseteq Deposits
    BY <1>3, <1>6
  <2>. QED  BY <2>1, <2>2, SumsSame
<1>7. ASSUME UNCHANGED <<deposits, funding, recounted>>,
             \A f \in Totals : contract'[f] = contract[f],
             contract'.secured = contract.secured,
             contract'.canceled = TRUE \/ contract'.canceled = contract.canceled
      PROVE  SumsInv'
  BY <1>1, <1>7, SumsSame DEF Made
<1>8. Totals \subseteq ContractFields \ {"canceled", "canceled_sig", "activated", "machine_head",
           "active_sig", "closed", "machine_vout", "closed_sig", "spent", "spent_txid",
           "spent_sig", "settled", "spent_block", "settled_sig"}
  BY ContractNames
<1>9. ASSUME NEW d \in Deposits, Register(d) PROVE SumsInv'
  BY <1>2, <1>9, SumsSame DEF Register
<1>10. ASSUME NEW d \in Deposits, NEW c \in Covenants, Commit(d, c) PROVE SumsInv'
  <2>. DEFINE fresh == CreateDeposit(c)
  <2>1. /\ DepositInv(fresh)
        /\ fresh.confirmed = FALSE /\ ~fresh.locked /\ ~fresh.closed /\ ~fresh.spent
    BY CreateKeeps
  <2>. HIDE DEF fresh
  <2>2. LockDeposit(fresh, c).confirmed = FALSE
    BY <2>1, LockKeeps, FieldNames DEF CanLock
  <2>3. PICK created \in {fresh, LockDeposit(fresh, c)} : deposits' = With(d, created)
    BY <1>10 DEF Commit, fresh
  <2>4. ~created.confirmed
    BY <2>1, <2>2, <2>3
  <2>. QED
    BY <1>2, <1>10, <2>3, <2>4, SumsPend DEF Commit
<1>11. ASSUME NEW d \in Deposits, Confirm(d) PROVE SumsInv'
  <2>. DEFINE updated == ConfirmDeposit(deposits[d])
  <2>1. /\ d \in Made /\ CanConfirm(deposits[d])
        /\ deposits' = [deposits EXCEPT ![d] = updated]
        /\ funding' = funding /\ recounted' = recounted
        /\ contract' = IF d \in funding THEN ConfirmContractFunds(contract, Value[d])
                       ELSE contract
    BY <1>11 DEF Confirm
  <2>2. updated.confirmed
    BY <1>1, <2>1, ConfirmKeeps
  <2>. HIDE DEF updated
  <2>3. CASE d \notin funding
    BY <1>3, <2>1, <2>3, SumsSame
  <2>4. CASE d \in funding
    <3>1. ~deposits[d].confirmed
      BY <2>1 DEF CanConfirm
    <3>2. ~contract.secured \/ contract.canceled
      BY <2>4, <3>1, <1>1 DEF IInv, SecuredInv, ContractInv, Phase, ContractFlags
    <3>. QED
      BY <1>3, <2>1, <2>2, <2>4, <3>1, <3>2, SumsConfirm
  <2>. QED
    BY <2>3, <2>4
<1>12. ASSUME NEW d \in Deposits, NEW c \in Covenants, Lock(d, c) PROVE SumsInv'
  <2>. DEFINE updated == LockDeposit(deposits[d], c)
  <2>1. /\ d \in Made /\ CanLock(deposits[d]) /\ deposits[d].confirmed
        /\ deposits' = [deposits EXCEPT ![d] = updated]
        /\ contract' = AddContractFunds(contract, TRUE, Value[d])
        /\ funding' = funding \cup {d}
        /\ recounted' = recounted \cup ({d} \cap funding)
        /\ ~contract.secured
    BY <1>4, <1>12 DEF Lock, Fundable
  <2>2. updated.confirmed
    BY <1>1, <2>1, LockKeeps, FieldNames
  <2>. HIDE DEF updated
  <2>3. CASE d \notin funding
    <3>1. recounted' = recounted
      BY <2>1, <2>3
    <3>. QED
      BY <1>3, <2>1, <2>2, <2>3, <3>1, SumsAdd
  <2>4. CASE d \in funding
    <3>1. /\ funding' = funding /\ recounted' = recounted \cup {d} /\ d \notin recounted
      BY <2>1, <2>4 DEF RecountedInv, CanLock
    <3>2. contract'.secured = contract.secured
      BY <1>1, <2>1, ContractNames DEF AddContractFunds, ContractInv, IsContract
    <3>3. \A e \in funding : deposits'[e].confirmed = deposits[e].confirmed
      BY <1>1, <1>3, <2>1, <2>2 DEF DepositInv
    <3>. QED
      BY <1>3, <2>1, <2>4, <3>1, <3>2, <3>3, SumsTwice
  <2>. QED
    BY <2>3, <2>4
<1>13. ASSUME NEW d \in Deposits, Withdraw(d) PROVE SumsInv'
  <2>1. /\ d \in funding /\ d \in Made
        /\ contract' = RemContractFunds(contract, deposits[d].confirmed, Value[d])
        /\ funding' = funding \ {d} /\ recounted' = recounted
        /\ ~contract.secured \/ contract.canceled
        /\ deposits[d].confirmed \in BOOLEAN
    BY <1>1, <1>4, <1>5, <1>13 DEF Withdraw, DepositInv
  <2>2. /\ Made' \subseteq Deposits
        /\ \A e \in funding \ {d} : deposits'[e] = deposits[e]
    BY <1>1, <1>3, <1>13, <2>1 DEF Withdraw, Made
  <2>. QED
    BY <2>1, <2>2, SumsWithdraw
<1>14. ASSUME NEW d \in Deposits, Close(d) PROVE SumsInv'
  <2>1. CloseDeposit(deposits[d]).confirmed = deposits[d].confirmed
    BY <1>1, <1>14, CloseKeeps, FieldNames DEF Close
  <2>. QED  BY <1>6, <1>14, <2>1 DEF Close
<1>15. ASSUME NEW d \in Deposits, Return(d) PROVE SumsInv'
  <2>1. SpendDeposit(deposits[d], "return").confirmed = deposits[d].confirmed
    BY <1>1, <1>15, SpendKeeps, FieldNames DEF Return
  <2>. QED  BY <1>6, <1>15, <2>1 DEF Return
<1>16. ASSUME NEW d \in Deposits, SpendFunds(d) PROVE SumsInv'
  <2>1. d \in Made /\ CanSpend(deposits[d])
    BY <1>1, <1>16 DEF SpendFunds
  <2>2. SpendDeposit(deposits[d], contract.spent_txid).confirmed = deposits[d].confirmed
    BY <1>1, <2>1, SpendKeeps, FieldNames
  <2>. QED  BY <1>6, <1>16, <2>1, <2>2 DEF SpendFunds
<1>17. ASSUME NEW d \in Deposits, NEW block \in Blocks, Settle(d, block) PROVE SumsInv'
  <2>1. SettleDeposit(deposits[d], block).confirmed = deposits[d].confirmed
    BY <1>1, <1>17, SettleKeeps, FieldNames DEF Settle
  <2>. QED  BY <1>6, <1>17, <2>1 DEF Settle
<1>18. ASSUME Cancel PROVE SumsInv'
  <2>1. \A f \in Totals : contract'[f] = contract[f]
    BY <1>1, <1>8, <1>18, CancelKeeps DEF Cancel
  <2>2. contract'.canceled = TRUE /\ contract'.secured = contract.secured
    BY <1>1, ContractNames, <1>18 DEF Cancel, CancelContract, ContractInv, IsContract
  <2>. QED  BY <1>7, <1>18, <2>1, <2>2 DEF Cancel
<1>19. ASSUME Secure PROVE SumsInv'
  <2>1. /\ contract' = SecureContract(contract, Cardinality(funding), SumOf(funding))
        /\ contract.status = "published"
        /\ Confirmed = funding
        /\ UNCHANGED <<deposits, funding, recounted>>
    BY <1>19 DEF Secure
  <2>2. Confirmed' = Confirmed /\ Made' = Made
    BY <2>1 DEF Confirmed, Made
  <2>3. Cardinality(funding) \in Nat /\ SumOf(funding) \in Nat
    BY <2>1, FundsFinite
  <2>4. Tabulated(contract', Cardinality(funding), SumOf(funding), 0)
    BY <1>1, <2>1, <2>3, TabulateSecure
  <2>5. SumOf(funding \ funding) = 0
    BY SumStep
  <2>6. /\ Cardinality(CountedTwice') = 0 /\ SumOf(CountedTwice') = 0
    <3>1. contract'.secured
      BY <1>1, <2>1, ContractNames DEF SecureContract, ContractInv, IsContract
    <3>. QED  BY <3>1, SumStep, FS_EmptySet DEF CountedTwice
  <2>. QED
    BY <2>1, <2>2, <2>3, <2>4, <2>5, <2>6 DEF SumsInv
<1>20. ASSUME Activate PROVE SumsInv'
  <2>1. /\ \A f \in Totals : contract'[f] = contract[f]
        /\ contract'.canceled = contract.canceled /\ contract'.secured = contract.secured
    BY <1>1, <1>8, <1>20, ActivateKeeps, ContractNames DEF Activate
  <2>. QED  BY <1>7, <1>20, <2>1 DEF Activate
<1>21. ASSUME MachineCommit PROVE SumsInv'
  BY <1>7, <1>21 DEF MachineCommit
<1>22. ASSUME CloseWithOutput PROVE SumsInv'
  <2>1. /\ \A f \in Totals : contract'[f] = contract[f]
        /\ contract'.canceled = contract.canceled /\ contract'.secured = contract.secured
    BY <1>1, <1>8, <1>22, ContractCloseKeeps, ContractNames DEF CloseWithOutput
  <2>. QED  BY <1>7, <1>22, <2>1 DEF CloseWithOutput
<1>23. ASSUME Spend PROVE SumsInv'
  <2>1. /\ \A f \in Totals : contract'[f] = contract[f]
        /\ contract'.canceled = contract.canceled /\ contract'.secured = contract.secured
    BY <1>1, <1>8, <1>23, ContractSpendKeeps, ContractNames DEF Spend
  <2>. QED  BY <1>7, <1>23, <2>1 DEF Spend
<1>24. ASSUME NEW block \in Blocks \cup {Null}, SettleFunds(block) PROVE SumsInv'
  <2>1. contract.spent \/ contract.status = "canceled"
    BY <1>24 DEF SettleFunds
  <2>2. /\ \A f \in Totals : contract'[f] = contract[f]
        /\ contract'.canceled = contract.canceled /\ contract'.secured = contract.secured
    BY <1>1, <1>8, <1>24, <2>1, ContractSettleKeeps, ContractNames DEF SettleFunds
  <2>. QED  BY <1>7, <1>24, <2>2 DEF SettleFunds
<1>25. CASE UNCHANGED vars
  BY <1>7, <1>25 DEF vars
<1>26. CASE Next
  BY <1>9, <1>10, <1>11, <1>12, <1>13, <1>14, <1>15, <1>16, <1>17, <1>18, <1>19,
     <1>20, <1>21, <1>22, <1>23, <1>24, <1>26 DEF Next
<1>. QED
  BY <1>25, <1>26

-----------------------------------------------------------------------------
(* The fields of a record agree with its flags.                             *)

\* Null stands for the null of the code: no receipt, number, transaction or
\* string.
NullApart ==
    /\ NotesApart
    /\ \A output, funds : <<output, funds>> # Null
    /\ Null \notin Nat
    /\ Null # "return"

ContractTyped(c) ==
    /\ c.canceled_sig # Null <=> c.canceled
    /\ c.secured_sig # Null <=> c.secured
    /\ c.active_sig # Null <=> c.activated
    /\ c.machine_head # Null <=> c.activated
    /\ c.closed_sig # Null <=> c.closed
    /\ ~c.closed => c.machine_vout = Null
    /\ c.spent_txid # Null <=> c.spent
    /\ c.spent_sig # Null <=> c.spent
    /\ c.settled_sig # Null <=> c.settled
    /\ ~c.settled => c.spent_block = Null

CovenantTyped(d) == DepositTyped(d) /\ d.covenant \in Covenants \cup {Null}

TypedInv ==
    /\ \A d \in Made : CovenantTyped(deposits[d])
    /\ ContractTyped(contract)
    /\ machine # Null \/ contract.activated => machine.head \in 0..MaxCommits

LEMMA ContractParses ==
    ASSUME ContractInv(contract), ContractTyped(contract)
    PROVE  ParseContract(contract)
<1>1. DOMAIN contract = ContractFields \cup {"status"}
  BY DEF ContractInv, IsContract, CFields
<1>2. \A f \in ContractFlags : contract[f] \in BOOLEAN
  BY DEF ContractInv, Phase
<1>3. \A f \in Flags \cap ContractFields : contract[f] \in BOOLEAN
  BY <1>2, ContractNames DEF Flags, ContractFlags
<1>4. contract.status \in ContractStages
  BY DEF ContractInv, Phase
<1>5. publish_state(contract) /\ funding_state(contract) /\ engine_state(contract)
  BY <1>2 DEF publish_state, funding_state, engine_state, StateUnion, ContractTyped,
     ContractFlags
<1>6. contract_close_state(contract) /\ spend_state(contract) /\ contract_settle_state(contract)
  BY <1>2 DEF contract_close_state, spend_state, contract_settle_state, StateUnion,
     NullUnless, ContractTyped, ContractFlags
<1>. QED
  BY <1>1, <1>3, <1>4, <1>5, <1>6 DEF ParseContract

LEMMA ContractCreateTyped == ContractTyped(CreateContract)
<1>. DEFINE u == CreateContract
<1>1. /\ \A f \in ContractFlags : u[f] = FALSE
      /\ \A f \in {"canceled_sig", "secured_sig", "active_sig", "machine_head", "closed_sig",
                   "machine_vout", "spent_txid", "spent_sig", "settled_sig",
                   "spent_block"} : u[f] = Null
  BY ContractNames DEF CreateContract, Initial, Flags, Totals, ContractFlags
<1>. HIDE DEF u
<1>2. ContractTyped(u)
  BY <1>1 DEF ContractTyped, ContractFlags
<1>. QED
  BY <1>2 DEF u

\* The sums are no part of it.
LEMMA ContractFundsTyped ==
    ASSUME ContractInv(contract), ContractTyped(contract), NEW confirmed, NEW value,
           \/ contract' = AddContractFunds(contract, confirmed, value)
           \/ contract' = ConfirmContractFunds(contract, value)
           \/ contract' = RemContractFunds(contract, confirmed, value)
    PROVE  ContractTyped(contract') /\ contract'.activated = contract.activated
<1>1. \A f \in CFields \ Totals : contract'[f] = contract[f]
  <2>1. CASE contract' = AddContractFunds(contract, confirmed, value)
    BY <2>1, ContractNames DEF ContractInv, IsContract, AddContractFunds
  <2>2. CASE contract' = RemContractFunds(contract, confirmed, value)
    BY <2>2, ContractNames DEF ContractInv, IsContract, RemContractFunds
  <2>3. CASE contract' = ConfirmContractFunds(contract, value)
    BY <2>3, ContractNames DEF ContractInv, IsContract, AddContractFunds, ConfirmContractFunds
  <2>. QED
    BY <2>1, <2>2, <2>3
<1>. QED
  BY <1>1, ContractNames DEF ContractTyped

LEMMA ContractCancelTyped ==
    ASSUME NullApart, NEW c, ContractInv(c), ContractTyped(c)
    PROVE  ContractTyped(CancelContract(c))
<1>. DEFINE u == CancelContract(c)
<1>1. /\ u.canceled = TRUE
      /\ \E r : u.canceled_sig = ContractNote(r, "canceled")
      /\ \A f \in ContractFields \ {"canceled", "canceled_sig"} :
            u[f] = c[f]
  BY ContractNames DEF ContractInv, IsContract, CancelContract
<1>. HIDE DEF u
<1>2. u.canceled_sig # Null
  BY <1>1 DEF NullApart, NotesApart, ContractNote
<1>3. ContractTyped(u)
  BY <1>1, <1>2, ContractNames DEF ContractTyped
<1>. QED
  BY <1>3 DEF u

LEMMA ContractSecureTyped ==
    ASSUME NullApart, NEW c, ContractInv(c), ContractTyped(c), NEW n, NEW sum
    PROVE  ContractTyped(SecureContract(c, n, sum))
<1>. DEFINE u == SecureContract(c, n, sum)
<1>1. /\ u.secured = TRUE
      /\ \E r : u.secured_sig = ContractNote(r, "secured")
      /\ \A f \in ContractFields \ {"secured", "secured_sig", "vin_count", "funds_pend", "funds_conf", "tx_fees", "tx_total", "tx_vsize"} :
            u[f] = c[f]
  BY ContractNames DEF ContractInv, IsContract, SecureContract
<1>. HIDE DEF u
<1>2. u.secured_sig # Null
  BY <1>1 DEF NullApart, NotesApart, ContractNote
<1>3. ContractTyped(u)
  BY <1>1, <1>2, ContractNames DEF ContractTyped
<1>. QED
  BY <1>3 DEF u

LEMMA ContractActivateTyped ==
    ASSUME NullApart, NEW c, ContractInv(c), ContractTyped(c),
           NEW vmid, vmid # Null
    PROVE  ContractTyped(ActivateContract(c, vmid))
<1>. DEFINE u == ActivateContract(c, vmid)
<1>1. /\ u.activated = TRUE
      /\ u.machine_head = vmid
      /\ \E r : u.active_sig = ContractNote(r, "active")
      /\ \A f \in ContractFields \ {"activated", "machine_head", "active_sig"} :
            u[f] = c[f]
  BY ContractNames DEF ContractInv, IsContract, ActivateContract
<1>. HIDE DEF u
<1>2. u.active_sig # Null
  BY <1>1 DEF NullApart, NotesApart, ContractNote
<1>3. ContractTyped(u)
  BY <1>1, <1>2, ContractNames DEF ContractTyped
<1>. QED
  BY <1>3 DEF u

LEMMA ContractCloseTyped ==
    ASSUME NullApart, NEW c, ContractInv(c), ContractTyped(c),
           NEW m, m.head # Null, c.activated
    PROVE  ContractTyped(CloseContract(c, m))
<1>. DEFINE u == CloseContract(c, m)
<1>1. /\ u.closed = TRUE
      /\ u.machine_head = m.head
      /\ u.machine_vout = m.output
      /\ \E r : u.closed_sig = ContractNote(r, "closed")
      /\ \A f \in ContractFields \ {"closed", "machine_head", "machine_vout", "closed_sig"} :
            u[f] = c[f]
  BY ContractNames DEF ContractInv, IsContract, CloseContract
<1>. HIDE DEF u
<1>2. u.closed_sig # Null
  BY <1>1 DEF NullApart, NotesApart, ContractNote
<1>3. ContractTyped(u)
  BY <1>1, <1>2, ContractNames DEF ContractTyped
<1>. QED
  BY <1>3 DEF u

LEMMA ContractSpendTyped ==
    ASSUME NullApart, NEW c, ContractInv(c), ContractTyped(c),
           NEW txid, txid # Null
    PROVE  ContractTyped(SpendContract(c, txid))
<1>. DEFINE u == SpendContract(c, txid)
<1>1. /\ u.spent = TRUE
      /\ u.spent_txid = txid
      /\ \E r : u.spent_sig = ContractNote(r, "spent")
      /\ \A f \in ContractFields \ {"spent", "spent_txid", "spent_sig"} :
            u[f] = c[f]
  BY ContractNames DEF ContractInv, IsContract, SpendContract
<1>. HIDE DEF u
<1>2. u.spent_sig # Null
  BY <1>1 DEF NullApart, NotesApart, ContractNote
<1>3. ContractTyped(u)
  BY <1>1, <1>2, ContractNames DEF ContractTyped
<1>. QED
  BY <1>3 DEF u

LEMMA ContractSettleTyped ==
    ASSUME NullApart, NEW c, ContractInv(c), ContractTyped(c), NEW block
    PROVE  ContractTyped(SettleContract(c, block))
<1>. DEFINE u == SettleContract(c, block)
<1>1. /\ u.settled = TRUE
      /\ \E r : u.settled_sig = ContractNote(r, "settled")
      /\ \A f \in ContractFields \ {"settled", "spent_block", "settled_sig"} :
            u[f] = c[f]
  BY ContractNames DEF ContractInv, IsContract, SettleContract
<1>. HIDE DEF u
<1>2. u.settled_sig # Null
  BY <1>1 DEF NullApart, NotesApart, ContractNote
<1>3. ContractTyped(u)
  BY <1>1, <1>2, ContractNames DEF ContractTyped
<1>. QED
  BY <1>3 DEF u

LEMMA TypedInit == Init /\ NullApart => TypedInv
<1>. SUFFICES ASSUME Init, NullApart PROVE TypedInv
  OBVIOUS
<1>1. Made = {}
  BY DEF Init, Made
<1>2. ~contract.activated /\ ContractTyped(contract)
  <2>1. CreateContract.activated = FALSE
    BY ContractNames DEF CreateContract, Initial, Flags
  <2>. QED  BY <2>1, ContractCreateTyped DEF Init
<1>. QED
  BY <1>1, <1>2 DEF Init, TypedInv

LEMMA TypedStep == NullApart /\ IInv /\ TypedInv /\ [Next]_vars => TypedInv'
<1>. SUFFICES ASSUME NullApart, IInv, TypedInv, [Next]_vars PROVE TypedInv'
  OBVIOUS
<1>1. /\ funding \subseteq Made
      /\ deposits = [d \in Made |-> deposits[d]]
      /\ ContractInv(contract) /\ ContractTyped(contract)
      /\ \A d \in Made : DepositInv(deposits[d]) /\ CovenantTyped(deposits[d])
      /\ machine # Null \/ contract.activated => machine.head \in 0..MaxCommits
  BY DEF IInv, TypedInv, FundingInv, DepositsInv
<1>2. ASSUME NEW d \in Deposits, NEW created, d \notin Made, deposits' = With(d, created),
             CovenantTyped(created)
      PROVE  \A e \in Made' : CovenantTyped(deposits'[e])
  BY <1>1, <1>2 DEF With, Made
<1>3. ASSUME NEW d \in Made, NEW updated, deposits' = [deposits EXCEPT ![d] = updated],
             CovenantTyped(updated)
      PROVE  \A e \in Made' : CovenantTyped(deposits'[e])
  BY <1>1, <1>3 DEF Made
<1>4. ASSUME NEW d \in Made, NEW updated, deposits' = [deposits EXCEPT ![d] = updated],
             CovenantTyped(updated), UNCHANGED <<contract, machine>>
      PROVE  TypedInv'
  <2>1. \A e \in Made' : CovenantTyped(deposits'[e])
    BY <1>3, <1>4
  <2>. QED  BY <1>1, <1>4, <2>1 DEF TypedInv
<1>5. ASSUME UNCHANGED deposits, ContractTyped(contract'), machine' = machine,
             contract'.activated => machine # Null \/ contract.activated
      PROVE  TypedInv'
  BY <1>1, <1>5 DEF TypedInv, Made
<1>6. ASSUME \A e \in Made' : CovenantTyped(deposits'[e]), machine' = machine,
             NEW confirmed, NEW value,
             \/ contract' = AddContractFunds(contract, confirmed, value)
             \/ contract' = ConfirmContractFunds(contract, value)
             \/ contract' = RemContractFunds(contract, confirmed, value)
      PROVE  TypedInv'
  <2>1. ContractTyped(contract') /\ contract'.activated = contract.activated
    BY <1>1, <1>6, ContractFundsTyped
  <2>. QED
    BY <1>1, <1>6, <2>1 DEF TypedInv
<1>7. \A n \in 0..MaxCommits : n # Null
  BY DEF NullApart
<1>8. \A x \in Covenants \cup Blocks : x # Null
  BY EscrowAssumption DEF EscrowAssumption
<1>9. ASSUME NEW d \in Deposits, Register(d) PROVE TypedInv'
  <2>1. CovenantTyped(CreateDeposit(Null))
    BY CreateTyped DEF CovenantTyped, NullApart
  <2>2. \A e \in Made' : CovenantTyped(deposits'[e])
    BY <1>2, <1>9, <2>1 DEF Register
  <2>. QED
    BY <1>1, <1>9, <2>2 DEF Register, TypedInv
<1>10. ASSUME NEW d \in Deposits, NEW c \in Covenants, Commit(d, c) PROVE TypedInv'
  <2>1. DepositInv(CreateDeposit(c)) /\ CovenantTyped(CreateDeposit(c))
    BY CreateKeeps, CreateTyped DEF CovenantTyped, NullApart
  <2>2. CovenantTyped(LockDeposit(CreateDeposit(c), c))
    BY <1>8, <2>1, LockTyped DEF CovenantTyped, NullApart
  <2>3. \A e \in Made' : CovenantTyped(deposits'[e])
    BY <1>2, <1>10, <2>1, <2>2 DEF Commit
  <2>. QED
    BY <1>6, <1>10, <2>3 DEF Commit
<1>11. ASSUME NEW d \in Deposits, Confirm(d) PROVE TypedInv'
  <2>1. d \in Made /\ CovenantTyped(ConfirmDeposit(deposits[d]))
    BY <1>1, <1>11, ConfirmTyped DEF CovenantTyped, NullApart, Confirm
  <2>2. CASE d \in funding
    <3>1. \A e \in Made' : CovenantTyped(deposits'[e])
      BY <1>3, <1>11, <2>1 DEF Confirm
    <3>. QED
      BY <1>6, <1>11, <2>2, <3>1 DEF Confirm
  <2>3. CASE d \notin funding
    BY <1>4, <1>11, <2>1, <2>3 DEF Confirm
  <2>. QED
    BY <2>2, <2>3
<1>12. ASSUME NEW d \in Deposits, NEW c \in Covenants, Lock(d, c) PROVE TypedInv'
  <2>1. d \in Made /\ CovenantTyped(LockDeposit(deposits[d], c))
    BY <1>1, <1>8, <1>12, LockTyped DEF CovenantTyped, NullApart, Lock
  <2>2. \A e \in Made' : CovenantTyped(deposits'[e])
    BY <1>3, <1>12, <2>1 DEF Lock
  <2>. QED
    BY <1>6, <1>12, <2>2 DEF Lock
<1>13. ASSUME NEW d \in Deposits, Withdraw(d) PROVE TypedInv'
  <2>1. d \in Made /\ CovenantTyped(ReleaseDeposit(deposits[d]))
    BY <1>1, <1>13, ReleaseTyped DEF CovenantTyped, NullApart, Withdraw
  <2>2. \A e \in Made' : CovenantTyped(deposits'[e])
    BY <1>1, <1>3, <1>13, <2>1 DEF Withdraw, Made
  <2>. QED
    BY <1>6, <1>13, <2>2 DEF Withdraw
<1>14. ASSUME NEW d \in Deposits, Close(d) PROVE TypedInv'
  <2>1. d \in Made /\ CovenantTyped(CloseDeposit(deposits[d]))
    BY <1>1, <1>14, CloseTyped DEF CovenantTyped, NullApart, Close
  <2>. QED  BY <1>4, <1>14, <2>1 DEF Close
<1>15. ASSUME NEW d \in Deposits, Return(d) PROVE TypedInv'
  <2>1. d \in Made /\ CovenantTyped(SpendDeposit(deposits[d], "return"))
    BY <1>1, <1>15, SpendTyped DEF CovenantTyped, NullApart, Return
  <2>. QED  BY <1>4, <1>15, <2>1 DEF Return
<1>16. ASSUME NEW d \in Deposits, SpendFunds(d) PROVE TypedInv'
  <2>1. d \in Made /\ contract.spent_txid # Null
    BY <1>1, <1>16 DEF SpendFunds, ContractTyped
  <2>2. CovenantTyped(SpendDeposit(deposits[d], contract.spent_txid))
    BY <1>1, <2>1, SpendTyped DEF CovenantTyped, NullApart
  <2>. QED  BY <1>4, <1>16, <2>1, <2>2 DEF SpendFunds
<1>17. ASSUME NEW d \in Deposits, NEW block \in Blocks, Settle(d, block) PROVE TypedInv'
  <2>1. d \in Made /\ CovenantTyped(SettleDeposit(deposits[d], block))
    BY <1>1, <1>8, <1>17, SettleTyped DEF CovenantTyped, NullApart, Settle
  <2>. QED  BY <1>4, <1>17, <2>1 DEF Settle
<1>18. ASSUME Cancel PROVE TypedInv'
  <2>1. ContractTyped(contract')
    BY <1>1, <1>18, ContractCancelTyped DEF Cancel
  <2>2. contract'.activated = contract.activated
    BY <1>1, <1>18, CancelKeeps, ContractNames DEF Cancel
  <2>. QED  BY <1>5, <1>18, <2>1, <2>2 DEF Cancel
<1>19. ASSUME Secure PROVE TypedInv'
  <2>1. ContractTyped(contract')
    BY <1>1, <1>19, ContractSecureTyped DEF Secure
  <2>2. contract'.activated = contract.activated
    BY <1>1, <1>19, ContractNames DEF Secure, SecureContract, ContractInv, IsContract
  <2>. QED  BY <1>5, <1>19, <2>1, <2>2 DEF Secure
<1>20. ASSUME Activate PROVE TypedInv'
  <2>1. ContractTyped(contract')
    BY <1>1, <1>20, ContractActivateTyped DEF Activate, NullApart
  <2>2. machine'.head \in 0..MaxCommits
    BY <1>20, EscrowAssumption DEF Activate, EscrowAssumption
  <2>. QED  BY <1>1, <1>20, <2>1, <2>2 DEF Activate, TypedInv, Made
<1>21. ASSUME MachineCommit PROVE TypedInv'
  <2>1. /\ machine.head \in 0..MaxCommits /\ machine.head < MaxCommits
        /\ machine'.head = machine.head + 1
    BY <1>1, <1>21 DEF MachineCommit
  <2>2. machine'.head \in 0..MaxCommits
    BY <2>1, EscrowAssumption DEF EscrowAssumption
  <2>. QED  BY <1>1, <1>21, <2>2 DEF MachineCommit, TypedInv, Made
<1>22. ASSUME CloseWithOutput PROVE TypedInv'
  <2>1. contract.activated /\ machine.head # Null
    BY <1>1, <1>7, <1>22 DEF CloseWithOutput, CanCloseContract
  <2>2. ContractTyped(contract')
    BY <1>1, <1>22, <2>1, ContractCloseTyped DEF CloseWithOutput
  <2>. QED  BY <1>5, <1>22, <2>1, <2>2 DEF CloseWithOutput
<1>23. ASSUME Spend PROVE TypedInv'
  <2>1. SettlementTx # Null
    BY DEF SettlementTx, NullApart
  <2>2. ContractTyped(contract')
    BY <1>1, <1>23, <2>1, ContractSpendTyped DEF Spend
  <2>3. contract'.activated = contract.activated
    BY <1>1, <1>23, ContractSpendKeeps, ContractNames DEF Spend
  <2>. QED  BY <1>5, <1>23, <2>2, <2>3 DEF Spend
<1>24. ASSUME NEW block \in Blocks \cup {Null}, SettleFunds(block) PROVE TypedInv'
  <2>1. contract.spent \/ contract.status = "canceled"
    BY <1>24 DEF SettleFunds
  <2>2. ContractTyped(contract')
    BY <1>1, <1>24, ContractSettleTyped DEF SettleFunds
  <2>3. contract'.activated = contract.activated
    BY <1>1, <1>24, <2>1, ContractSettleKeeps, ContractNames DEF SettleFunds
  <2>. QED  BY <1>5, <1>24, <2>2, <2>3 DEF SettleFunds
<1>25. CASE UNCHANGED vars
  BY <1>1, <1>5, <1>25 DEF vars
<1>26. CASE Next
  BY <1>9, <1>10, <1>11, <1>12, <1>13, <1>14, <1>15, <1>16, <1>17, <1>18, <1>19,
     <1>20, <1>21, <1>22, <1>23, <1>24, <1>26 DEF Next
<1>. QED
  BY <1>25, <1>26

-----------------------------------------------------------------------------
\* Every step keeps the invariant.
LEMMA StepOK == IInv /\ [Next]_vars => IInv'
<1>. SUFFICES ASSUME IInv, [Next]_vars PROVE IInv'
  OBVIOUS
<1>1. CASE \E d \in Deposits :
             \/ Register(d) \/ Confirm(d) \/ Withdraw(d) \/ Close(d)
             \/ Return(d) \/ SpendFunds(d)
             \/ \E c \in Covenants : Commit(d, c) \/ Lock(d, c)
             \/ \E b \in Blocks : Settle(d, b)
  BY <1>1, RegisterOK, ConfirmOK, WithdrawOK, CloseOK, ReturnOK, SpendFundsOK,
     CommitOK, LockOK, SettleOK
<1>2. CASE \/ Cancel \/ Secure \/ Activate \/ MachineCommit
           \/ CloseWithOutput \/ Spend
  BY <1>2, CancelOK, SecureOK, ActivateOK, MachineCommitOK, CloseWithOutputOK, SpendOK
<1>3. CASE \E b \in Blocks \cup {Null} : SettleFunds(b)
  BY <1>3, SettleFundsOK
<1>4. CASE UNCHANGED vars
  <2>1. UNCHANGED <<contract, deposits, funding, machine>>
    BY <1>4 DEF vars
  <2>2. DepositsInv' /\ FundingInv' /\ SecuredInv'
    BY <2>1 DEF IInv, DepositsInv, FundingInv, SecuredInv, Made
  <2>. QED
    BY <2>1, <2>2 DEF IInv, CanceledInv, ClosedInv, SpentInv, SettlementTx
<1>. QED
  BY <1>1, <1>2, <1>3, <1>4 DEF Next

\* The invariant holds throughout.
THEOREM Invariant == Spec => []IInv
<1>. QED  BY InitOK, StepOK, PTL DEF Spec

\* verify_deposit_sigs() accepts every deposit, save one closed and then spent.
THEOREM DepositReceipts == Spec => []DepositReceiptsVerify
<1>1. IInv => DepositReceiptsVerify
  BY DEF IInv, DepositsInv, DepositInv, DepositReceiptsVerify
<1>. QED  BY Invariant, <1>1, PTL

\* The receipts of the contract verify at every later stage, save those of a
\* cancellation and of the funding it undoes.
THEOREM ContractReceipts == Spec => []ContractReceiptsVerify
<1>1. IInv => ContractReceiptsVerify
  BY DEF IInv, ContractInv, ContractReceiptsVerify
<1>. QED  BY Invariant, <1>1, PTL

\* The funds of a secured contract are confirmed, enough, and spent in nothing
\* but its settlement, whatever their funders ask for.
THEOREM FundsStay == Spec => []SecuredFundsStay
<1>1. IInv => SecuredFundsStay
  BY DEF IInv, FundingInv, SecuredInv, SecuredFundsStay
<1>. QED  BY Invariant, <1>1, PTL

\* What the members check of a closed and of a spent contract holds from then on.
THEOREM Settlement == Spec => []SettlementVerifies
<1>1. IInv => SettlementVerifies
  <2>1. IInv => /\ contract.activated => ~contract.canceled
                /\ contract.spent => contract.closed
    BY DEF IInv, ContractInv, Phase, ContractFlags
  <2>. QED
    BY <2>1 DEF IInv, ClosedInv, SpentInv, SettlementVerifies
<1>. QED  BY Invariant, <1>1, PTL

LEMMA Recounts == Spec => []RecountedInv
<1>1. Init => RecountedInv
  BY FS_EmptySet DEF Init, RecountedInv
<1>. QED  BY Invariant, <1>1, RecountedStep, PTL DEF Spec

LEMMA Sums == Spec => []SumsInv
<1>. QED  BY Invariant, Recounts, SumsInit, SumsStep, PTL DEF Spec

\* The sums of the contract are those of its funds and of the deposits counted
\* twice, however its funders committed, were confirmed, locked and left.
THEOREM Funds == Spec => []FundsTabulate
<1>1. IInv /\ SumsInv /\ RecountedInv => FundsTabulate
  <2>. SUFFICES ASSUME IInv, SumsInv, RecountedInv PROVE FundsTabulate
    OBVIOUS
  <2>. DEFINE n == Cardinality(Confirmed) + Cardinality(CountedTwice)
              conf == SumOf(Confirmed) + SumOf(CountedTwice)
              pend == SumOf(funding \ Confirmed)
              tab == TabulateFunds(n, conf)
  <2>1. Tabulated(contract, n, conf, pend)
    BY DEF SumsInv
  <2>2. /\ tab.vin_count = n /\ tab.fund_value = conf
        /\ tab.tx_fees = BaseSize * Feerate + n * vin_txfee
        /\ tab.tx_vsize = BaseSize + n * SPEND_TXIN_SIZE
        /\ tab.tx_total = Subtotal + BaseSize * Feerate + n * vin_txfee
    BY DEF TabulateFunds
  <2>. HIDE DEF n, conf, pend, tab
  <2>3. /\ contract.vin_count = tab.vin_count
        /\ contract.funds_conf = tab.fund_value
        /\ contract.funds_pend = pend
        /\ contract.tx_fees = tab.tx_fees
        /\ contract.tx_vsize = tab.tx_vsize
        /\ contract.secured /\ ~contract.canceled => contract.tx_total = tab.tx_total
    BY <2>1, <2>2 DEF Tabulated
  <2>. QED
    BY <2>3 DEF FundsTabulate, tab, n, conf, pend
<1>. QED  BY Invariant, Sums, Recounts, <1>1, PTL

\* Every record the agent hands out parses at the client, and no sum but the
\* total runs below zero.
THEOREM TypeCorrect == ASSUME NullApart PROVE Spec => []TypeOK
<1>1. Spec => []TypedInv
  BY Invariant, TypedInit, TypedStep, PTL DEF Spec
<1>2. IInv /\ SumsInv /\ RecountedInv /\ TypedInv => TypeOK
  <2>. SUFFICES ASSUME IInv, SumsInv, RecountedInv, TypedInv PROVE TypeOK
    OBVIOUS
  <2>1. ParseContract(contract)
    BY ContractParses DEF IInv, TypedInv
  <2>2. /\ \A f \in Totals \ {"tx_total"} : contract[f] \in Nat
        /\ contract.tx_total \in Int
    <3>. DEFINE n == Cardinality(Confirmed) + Cardinality(CountedTwice)
                conf == SumOf(Confirmed) + SumOf(CountedTwice)
                pend == SumOf(funding \ Confirmed)
    <3>1. /\ n \in Nat /\ conf \in Nat /\ pend \in Nat
          /\ Tabulated(contract, n, conf, pend)
      BY FundsFinite DEF SumsInv
    <3>. HIDE DEF n, conf, pend
    <3>2. n * vin_txfee \in Nat /\ n * SPEND_TXIN_SIZE \in Nat
      BY <3>1, FeesNat
    <3>3. contract.tx_fees \in Nat /\ contract.tx_vsize \in Nat
      BY <3>1, <3>2, FeesNat DEF Tabulated
    <3>. QED
      BY <3>1, <3>3, ContractNames DEF Tabulated
  <2>3. \A d \in Made : DepositInv(deposits[d]) /\ CovenantTyped(deposits[d])
    BY DEF IInv, DepositsInv, TypedInv
  <2>4. \A d \in Made :
          /\ deposits[d].covenant \in Covenants \cup {Null}
          /\ \/ ParseDeposit(deposits[d])
             \/ /\ ~deposits[d].locked /\ deposits[d].covenant # Null
                /\ ParseDeposit([deposits[d] EXCEPT !.covenant = Null])
    BY <2>3, DepositParses DEF CovenantTyped
  <2>. QED
    BY <2>1, <2>2, <2>4 DEF TypeOK, IInv, SumsInv, FundingInv, TypedInv, RecountedInv
<1>. QED  BY Invariant, Sums, Recounts, <1>1, <1>2, PTL
=============================================================================
