------------------------ MODULE DepositState_proofs ------------------------
(***************************************************************************)
(* The receipts of a deposit under each operation of its record, for all   *)
(* covenants, transactions and blocks: what an operation writes is put     *)
(* back in the text of every receipt signed before it.                     *)
(***************************************************************************)
EXTENDS DepositState, TLAPS

Fields == DepositFields \cup {"status"}

IsRecord(deposit) == deposit = [f \in Fields |-> deposit[f]]

\* The inductive invariant of one record: what the guards of the operations
\* tell about its flags, and the receipts.
DepositInv(deposit) ==
    /\ IsRecord(deposit)
    /\ \A f \in {"confirmed", "locked", "closed", "spent", "settled"} :
            deposit[f] \in BOOLEAN
    /\ deposit.closed \/ deposit.spent => deposit.confirmed
    /\ deposit.settled => deposit.closed \/ deposit.spent
    /\ ~(deposit.closed /\ deposit.spent) => VerifyDepositSigs(deposit)

\* The text of a receipt depends on the fields it does not put back.
LEMMA NoteKept ==
    ASSUME NEW r, NEW q, NEW cleared, NEW status,
           DOMAIN r = DOMAIN q,
           \A f \in DOMAIN r \ {"status"} : f \notin cleared => r[f] = q[f]
    PROVE  Note(r, cleared, status) = Note(q, cleared, status)
BY DEF Note

\* verify_deposit_sigs(), stage by stage.
LEMMA SigsByStage ==
    ASSUME NEW deposit
    PROVE  VerifyDepositSigs(deposit) <=>
             /\ deposit.created_sig = Note(deposit, GET_REGISTER_STATE, "registered")
             /\ deposit.locked => deposit.locked_sig = Note(deposit, GET_LOCKED_STATE, "locked")
             /\ deposit.closed => deposit.closed_sig = Note(deposit, GET_CLOSED_STATE, "closed")
             /\ deposit.spent => deposit.spent_sig = Note(deposit, GET_SPEND_STATE, "spent")
             /\ deposit.settled => deposit.settled_sig = Note(deposit, GET_SETTLE_STATE, "settled")
<1>1. \A stage \in DepositStages :
        (DepositHas(deposit, stage) => DepositSigVerifies(deposit, stage)) <=>
        \/ stage = "registered" /\ deposit.created_sig = Note(deposit, GET_REGISTER_STATE, "registered")
        \/ stage = "locked" /\ (deposit.locked => deposit.locked_sig = Note(deposit, GET_LOCKED_STATE, "locked"))
        \/ stage = "closed" /\ (deposit.closed => deposit.closed_sig = Note(deposit, GET_CLOSED_STATE, "closed"))
        \/ stage = "spent" /\ (deposit.spent => deposit.spent_sig = Note(deposit, GET_SPEND_STATE, "spent"))
        \/ stage = "settled" /\ (deposit.settled => deposit.settled_sig = Note(deposit, GET_SETTLE_STATE, "settled"))
  BY DEF DepositStages, DepositHas, DepositSigVerifies, DepositNote, DepositSig, DepositCleared
<1>. QED  BY <1>1 DEF VerifyDepositSigs, DepositStages

\* The fields of a deposit, one by one.
LEMMA FieldNames ==
    /\ DepositFields = {"confirmed", "locked", "covenant", "locked_sig", "closed",
                        "closed_sig", "spent", "spent_txid", "spent_sig", "settled",
                        "spent_block", "settled_sig", "created_sig"}
    /\ Fields = DepositFields \cup {"status"}
BY DEF DepositFields, Fields, INIT_CONF_STATE, INIT_LOCK_STATE, INIT_RETURN_STATE,
   INIT_SPEND_STATE, INIT_SETTLE_STATE

\* What the text of each stage puts back.
LEMMA ClearedNames ==
    /\ GET_REGISTER_STATE = DepositFields
    /\ GET_LOCKED_STATE = {"settled", "spent_block", "settled_sig", "spent", "spent_txid",
                           "spent_sig", "confirmed", "locked_sig"}
    /\ GET_CLOSED_STATE = {"settled", "spent_block", "settled_sig", "closed_sig"}
    /\ GET_SPEND_STATE = {"settled", "spent_block", "settled_sig", "spent_sig"}
    /\ GET_SETTLE_STATE = {"settled_sig"}
BY DEF GET_REGISTER_STATE, GET_LOCKED_STATE, GET_CLOSED_STATE, GET_SPEND_STATE,
   GET_SETTLE_STATE, INIT_SPEND_STATE, INIT_SETTLE_STATE, INIT_CONF_STATE

\* A deposit is made with its receipt.
LEMMA CreateKeeps ==
    ASSUME NEW covenant
    PROVE  /\ DepositInv(CreateDeposit(covenant))
           /\ CreateDeposit(covenant).covenant = covenant
           /\ \A f \in {"confirmed", "locked", "closed", "spent", "settled"} :
                CreateDeposit(covenant)[f] = FALSE
<1>. DEFINE template == [f \in DepositFields \cup {"status"} |->
                            CASE f = "status"   -> "registered"
                              [] f = "covenant" -> covenant
                              [] OTHER          -> Initial(f)]
            created  == CreateDeposit(covenant)
<1>1. \A f \in {"confirmed", "locked", "closed", "spent", "settled"} : template[f] = FALSE
  BY FieldNames DEF Initial, Flags
<1>2. /\ IsRecord(template)
      /\ template.covenant = covenant
      /\ created = [template EXCEPT !.created_sig = DepositNote(template, "registered")]
  BY FieldNames DEF IsRecord, CreateDeposit
<1>. HIDE DEF template, created
<1>3. /\ IsRecord(created)
      /\ created.created_sig = DepositNote(template, "registered")
      /\ \A f \in DepositFields \ {"created_sig"} : created[f] = template[f]
  BY <1>2, FieldNames DEF IsRecord
<1>4. DepositNote(template, "registered") = Note(template, GET_REGISTER_STATE, "registered")
  BY DEF DepositNote, DepositCleared
<1>5. Note(created, GET_REGISTER_STATE, "registered") = Note(template, GET_REGISTER_STATE, "registered")
  BY <1>2, <1>3, NoteKept, FieldNames, ClearedNames DEF IsRecord
<1>6. VerifyDepositSigs(created)
  BY <1>1, <1>3, <1>4, <1>5, SigsByStage, FieldNames
<1>7. DepositInv(created)
  BY <1>1, <1>3, <1>6, FieldNames DEF DepositInv
<1>. QED
  BY <1>1, <1>2, <1>3, <1>7, FieldNames DEF created

\* Confirmation writes what the receipts of registering and locking put back.
LEMMA ConfirmKeeps ==
    ASSUME NEW deposit, DepositInv(deposit), CanConfirm(deposit)
    PROVE  /\ DepositInv(ConfirmDeposit(deposit))
           /\ \A f \in DepositFields \ {"confirmed"} :
                ConfirmDeposit(deposit)[f] = deposit[f]
           /\ ConfirmDeposit(deposit).confirmed = TRUE
<1>. DEFINE updated == ConfirmDeposit(deposit)
<1>1. /\ IsRecord(updated)
      /\ updated.confirmed = TRUE
      /\ \A f \in DepositFields \ {"confirmed"} : updated[f] = deposit[f]
  BY FieldNames DEF DepositInv, IsRecord, ConfirmDeposit
<1>2. ~deposit.closed /\ ~deposit.spent /\ ~deposit.settled
  BY DEF DepositInv, CanConfirm
<1>3. VerifyDepositSigs(deposit)
  BY <1>2 DEF DepositInv
<1>. HIDE DEF updated
<1>4. /\ Note(updated, GET_REGISTER_STATE, "registered") = Note(deposit, GET_REGISTER_STATE, "registered")
      /\ Note(updated, GET_LOCKED_STATE, "locked") = Note(deposit, GET_LOCKED_STATE, "locked")
  BY <1>1, NoteKept, FieldNames, ClearedNames DEF DepositInv, IsRecord
<1>5. VerifyDepositSigs(updated)
  BY <1>1, <1>2, <1>3, <1>4, SigsByStage, FieldNames
<1>6. DepositInv(updated)
  BY <1>1, <1>2, <1>5, FieldNames DEF DepositInv
<1>. QED
  BY <1>1, <1>6, FieldNames DEF updated

\* Locking writes what the receipt of registering puts back.
LEMMA LockKeeps ==
    ASSUME NEW deposit, NEW covenant, DepositInv(deposit), CanLock(deposit)
    PROVE  /\ DepositInv(LockDeposit(deposit, covenant))
           /\ \A f \in DepositFields \ {"locked", "covenant", "locked_sig"} :
                LockDeposit(deposit, covenant)[f] = deposit[f]
           /\ LockDeposit(deposit, covenant).covenant = covenant
           /\ LockDeposit(deposit, covenant).locked
<1>. DEFINE updated == [deposit EXCEPT !.locked = TRUE, !.covenant = covenant,
                                            !.status = "locked"]
            signed  == LockDeposit(deposit, covenant)
<1>1. /\ IsRecord(updated)
      /\ updated.locked = TRUE
      /\ updated.covenant = covenant
      /\ \A f \in DepositFields \ {"locked", "covenant"} : updated[f] = deposit[f]
      /\ signed = [updated EXCEPT !.locked_sig = DepositNote(updated, "locked")]
  BY FieldNames DEF DepositInv, IsRecord, LockDeposit
<1>2. ~deposit.locked /\ ~deposit.closed /\ ~deposit.spent /\ ~deposit.settled
  BY DEF DepositInv, CanLock
<1>. HIDE DEF updated, signed
<1>3. /\ IsRecord(signed)
      /\ signed.locked_sig = Note(updated, GET_LOCKED_STATE, "locked")
      /\ \A f \in DepositFields \ {"locked_sig"} : signed[f] = updated[f]
  BY <1>1, FieldNames DEF IsRecord, DepositNote, DepositCleared
<1>4. Note(signed, GET_LOCKED_STATE, "locked") = Note(updated, GET_LOCKED_STATE, "locked")
  BY <1>1, <1>3, NoteKept, FieldNames, ClearedNames DEF IsRecord
<1>5. /\ Note(signed, GET_REGISTER_STATE, "registered") = Note(deposit, GET_REGISTER_STATE, "registered")
  BY <1>1, <1>3, NoteKept, FieldNames, ClearedNames DEF DepositInv, IsRecord
<1>6. ~(signed.closed /\ signed.spent) => VerifyDepositSigs(signed)
  BY <1>1, <1>2, <1>3, <1>4, <1>5, SigsByStage, FieldNames DEF DepositInv
<1>7. DepositInv(signed)
  BY <1>1, <1>2, <1>3, <1>6, FieldNames DEF DepositInv
<1>. QED
  BY <1>1, <1>3, <1>7, FieldNames DEF signed

\* A release takes the receipt of the lock off the record.
LEMMA ReleaseKeeps ==
    ASSUME NEW deposit, DepositInv(deposit), CanRelease(deposit)
    PROVE  DepositInv(ReleaseDeposit(deposit))
<1>. DEFINE released == ReleaseDeposit(deposit)
<1>1. /\ IsRecord(released)
      /\ released.locked = FALSE
      /\ \A f \in DepositFields \ {"locked", "covenant", "locked_sig"} : released[f] = deposit[f]
  BY FieldNames DEF DepositInv, IsRecord, ReleaseDeposit, INIT_LOCK_STATE, Initial, Flags
<1>2. ~deposit.closed /\ ~deposit.spent /\ ~deposit.settled
  BY DEF DepositInv, CanRelease
<1>3. VerifyDepositSigs(deposit)
  BY <1>2 DEF DepositInv
<1>. HIDE DEF released
<1>4. Note(released, GET_REGISTER_STATE, "registered") = Note(deposit, GET_REGISTER_STATE, "registered")
  BY <1>1, NoteKept, FieldNames, ClearedNames DEF DepositInv, IsRecord
<1>5. VerifyDepositSigs(released)
  BY <1>1, <1>2, <1>3, <1>4, SigsByStage, FieldNames
<1>6. DepositInv(released)
  BY <1>1, <1>2, <1>5, FieldNames DEF DepositInv
<1>. QED
  BY <1>6 DEF released

\* Closing writes what the receipt of registering puts back.
LEMMA CloseKeeps ==
    ASSUME NEW deposit, DepositInv(deposit), CanClose(deposit)
    PROVE  /\ DepositInv(CloseDeposit(deposit))
           /\ \A f \in DepositFields \ {"closed", "closed_sig"} :
                CloseDeposit(deposit)[f] = deposit[f]
<1>. DEFINE updated == [deposit EXCEPT !.closed = TRUE, !.status = "closed"]
            signed  == CloseDeposit(deposit)
<1>1. /\ IsRecord(updated)
      /\ updated.closed = TRUE
      /\ \A f \in DepositFields \ {"closed"} : updated[f] = deposit[f]
      /\ signed = [updated EXCEPT !.closed_sig = DepositNote(updated, "closed")]
  BY FieldNames DEF DepositInv, IsRecord, CloseDeposit
<1>2. deposit.confirmed /\ ~deposit.locked /\ ~deposit.closed /\ ~deposit.spent /\ ~deposit.settled
  BY DEF DepositInv, CanClose
<1>. HIDE DEF updated, signed
<1>3. /\ IsRecord(signed)
      /\ signed.closed_sig = Note(updated, GET_CLOSED_STATE, "closed")
      /\ \A f \in DepositFields \ {"closed_sig"} : signed[f] = updated[f]
  BY <1>1, FieldNames DEF IsRecord, DepositNote, DepositCleared
<1>4. Note(signed, GET_CLOSED_STATE, "closed") = Note(updated, GET_CLOSED_STATE, "closed")
  BY <1>1, <1>3, NoteKept, FieldNames, ClearedNames DEF IsRecord
<1>5. /\ Note(signed, GET_REGISTER_STATE, "registered") = Note(deposit, GET_REGISTER_STATE, "registered")
  BY <1>1, <1>3, NoteKept, FieldNames, ClearedNames DEF DepositInv, IsRecord
<1>6. ~(signed.closed /\ signed.spent) => VerifyDepositSigs(signed)
  BY <1>1, <1>2, <1>3, <1>4, <1>5, SigsByStage, FieldNames DEF DepositInv
<1>7. DepositInv(signed)
  BY <1>1, <1>2, <1>3, <1>6, FieldNames DEF DepositInv
<1>. QED
  BY <1>1, <1>3, <1>7, FieldNames DEF signed

\* Spending breaks the receipt of a closing alone.
LEMMA SpendKeeps ==
    ASSUME NEW deposit, NEW txid, DepositInv(deposit), CanSpend(deposit)
    PROVE  /\ DepositInv(SpendDeposit(deposit, txid))
           /\ \A f \in DepositFields \ {"spent", "spent_txid", "spent_sig"} :
                SpendDeposit(deposit, txid)[f] = deposit[f]
           /\ SpendDeposit(deposit, txid).spent_txid = txid
<1>. DEFINE updated == [deposit EXCEPT !.spent = TRUE, !.spent_txid = txid,
                                            !.status = "spent"]
            signed  == SpendDeposit(deposit, txid)
<1>1. /\ IsRecord(updated)
      /\ updated.spent = TRUE
      /\ updated.spent_txid = txid
      /\ \A f \in DepositFields \ {"spent", "spent_txid"} : updated[f] = deposit[f]
      /\ signed = [updated EXCEPT !.spent_sig = DepositNote(updated, "spent")]
  BY FieldNames DEF DepositInv, IsRecord, SpendDeposit
<1>2. deposit.confirmed /\ ~deposit.spent /\ (deposit.settled => deposit.closed)
  BY DEF DepositInv, CanSpend
<1>. HIDE DEF updated, signed
<1>3. /\ IsRecord(signed)
      /\ signed.spent_sig = Note(updated, GET_SPEND_STATE, "spent")
      /\ \A f \in DepositFields \ {"spent_sig"} : signed[f] = updated[f]
  BY <1>1, FieldNames DEF IsRecord, DepositNote, DepositCleared
<1>4. Note(signed, GET_SPEND_STATE, "spent") = Note(updated, GET_SPEND_STATE, "spent")
  BY <1>1, <1>3, NoteKept, FieldNames, ClearedNames DEF IsRecord
<1>5. /\ Note(signed, GET_REGISTER_STATE, "registered") = Note(deposit, GET_REGISTER_STATE, "registered")
      /\ Note(signed, GET_LOCKED_STATE, "locked") = Note(deposit, GET_LOCKED_STATE, "locked")
  BY <1>1, <1>3, NoteKept, FieldNames, ClearedNames DEF DepositInv, IsRecord
<1>6. ~(signed.closed /\ signed.spent) => VerifyDepositSigs(signed)
  BY <1>1, <1>2, <1>3, <1>4, <1>5, SigsByStage, FieldNames DEF DepositInv
<1>7. DepositInv(signed)
  BY <1>1, <1>2, <1>3, <1>6, FieldNames DEF DepositInv
<1>. QED
  BY <1>1, <1>3, <1>7, FieldNames DEF signed

\* Settling, once or again, writes what every earlier receipt puts back.
LEMMA SettleKeeps ==
    ASSUME NEW deposit, NEW block, DepositInv(deposit), CanSettle(deposit)
    PROVE  /\ DepositInv(SettleDeposit(deposit, block))
           /\ \A f \in DepositFields \ {"settled", "spent_block", "settled_sig"} :
                SettleDeposit(deposit, block)[f] = deposit[f]
<1>. DEFINE updated == [deposit EXCEPT !.settled = TRUE, !.spent_block = block,
                                            !.status = "settled"]
            signed  == SettleDeposit(deposit, block)
<1>1. /\ IsRecord(updated)
      /\ updated.settled = TRUE
      /\ \A f \in DepositFields \ {"settled", "spent_block"} : updated[f] = deposit[f]
      /\ signed = [updated EXCEPT !.settled_sig = DepositNote(updated, "settled")]
  BY FieldNames DEF DepositInv, IsRecord, SettleDeposit
<1>2. deposit.confirmed /\ (deposit.spent \/ deposit.closed)
  BY DEF DepositInv, CanSettle
<1>. HIDE DEF updated, signed
<1>3. /\ IsRecord(signed)
      /\ signed.settled_sig = Note(updated, GET_SETTLE_STATE, "settled")
      /\ \A f \in DepositFields \ {"settled_sig"} : signed[f] = updated[f]
  BY <1>1, FieldNames DEF IsRecord, DepositNote, DepositCleared
<1>4. Note(signed, GET_SETTLE_STATE, "settled") = Note(updated, GET_SETTLE_STATE, "settled")
  BY <1>1, <1>3, NoteKept, FieldNames, ClearedNames DEF IsRecord
<1>5. /\ Note(signed, GET_REGISTER_STATE, "registered") = Note(deposit, GET_REGISTER_STATE, "registered")
      /\ Note(signed, GET_LOCKED_STATE, "locked") = Note(deposit, GET_LOCKED_STATE, "locked")
      /\ Note(signed, GET_CLOSED_STATE, "closed") = Note(deposit, GET_CLOSED_STATE, "closed")
      /\ Note(signed, GET_SPEND_STATE, "spent") = Note(deposit, GET_SPEND_STATE, "spent")
  BY <1>1, <1>3, NoteKept, FieldNames, ClearedNames DEF DepositInv, IsRecord
<1>6. ~(signed.closed /\ signed.spent) => VerifyDepositSigs(signed)
  <2>. SUFFICES ASSUME ~(signed.closed /\ signed.spent) PROVE VerifyDepositSigs(signed)
    OBVIOUS
  <2>1. /\ signed.closed = deposit.closed /\ signed.spent = deposit.spent
        /\ signed.locked = deposit.locked
        /\ \A f \in {"created_sig", "locked_sig", "closed_sig", "spent_sig"} :
             signed[f] = deposit[f]
    BY <1>1, <1>3, FieldNames
  <2>2. VerifyDepositSigs(deposit)
    BY <2>1 DEF DepositInv
  <2>3. /\ deposit.created_sig = Note(deposit, GET_REGISTER_STATE, "registered")
        /\ deposit.locked => deposit.locked_sig = Note(deposit, GET_LOCKED_STATE, "locked")
        /\ deposit.closed => deposit.closed_sig = Note(deposit, GET_CLOSED_STATE, "closed")
        /\ deposit.spent => deposit.spent_sig = Note(deposit, GET_SPEND_STATE, "spent")
    BY <2>2, SigsByStage
  <2>4. signed.settled_sig = Note(signed, GET_SETTLE_STATE, "settled")
    BY <1>3, <1>4
  <2>. QED
    BY <1>5, <2>1, <2>3, <2>4, SigsByStage
<1>7. DepositInv(signed)
  BY <1>1, <1>2, <1>3, <1>6, FieldNames DEF DepositInv
<1>. QED
  BY <1>1, <1>3, <1>7, FieldNames DEF signed

-----------------------------------------------------------------------------
(* The fields of a record agree with its flags.                             *)

\* A receipt is not the null of the code.
NotesApart == \A r, cleared, status : Note(r, cleared, status) # Null

DepositTyped(d) ==
    /\ d.status \in DepositStatus
    /\ d.locked => d.covenant # Null
    /\ d.locked_sig # Null <=> d.locked
    /\ d.closed_sig # Null <=> d.closed
    /\ d.spent_txid # Null <=> d.spent
    /\ d.spent_sig # Null <=> d.spent
    /\ d.settled_sig # Null <=> d.settled
    /\ d.spent_block # Null <=> d.settled

LEMMA CreateTyped ==
    ASSUME NEW covenant
    PROVE  DepositTyped(CreateDeposit(covenant)) /\ CreateDeposit(covenant).covenant = covenant
<1>. DEFINE d == CreateDeposit(covenant)
<1>1. /\ d.status = "registered" /\ d.covenant = covenant
      /\ \A f \in {"locked", "closed", "spent", "settled"} : d[f] = FALSE
      /\ \A f \in {"locked_sig", "closed_sig", "spent_txid", "spent_sig", "settled_sig",
                   "spent_block"} : d[f] = Null
  BY FieldNames DEF CreateDeposit, Initial, Flags, Totals
<1>. HIDE DEF d
<1>2. DepositTyped(d) /\ d.covenant = covenant
  BY <1>1 DEF DepositTyped, DepositStatus, DepositStages
<1>. QED
  BY <1>2 DEF d

LEMMA ConfirmTyped ==
    ASSUME NEW d, DepositInv(d), DepositTyped(d)
    PROVE  DepositTyped(ConfirmDeposit(d)) /\ ConfirmDeposit(d).covenant = d.covenant
<1>. DEFINE u == ConfirmDeposit(d)
<1>1. /\ u.status \in {"locked", "open"}
      /\ \A f \in DepositFields \ {"confirmed"} : u[f] = d[f]
  BY FieldNames DEF DepositInv, IsRecord, ConfirmDeposit
<1>. HIDE DEF u
<1>2. DepositTyped(u) /\ u.covenant = d.covenant
  BY <1>1, FieldNames DEF DepositTyped, DepositStatus, DepositStages
<1>. QED
  BY <1>2 DEF u

LEMMA LockTyped ==
    ASSUME NotesApart, NEW d, DepositInv(d), DepositTyped(d), NEW covenant,
           covenant # Null
    PROVE  DepositTyped(LockDeposit(d, covenant)) /\ LockDeposit(d, covenant).covenant = covenant
<1>. DEFINE u == LockDeposit(d, covenant)
<1>1. /\ u.status = "locked" /\ u.locked = TRUE /\ u.covenant = covenant
      /\ \E r : u.locked_sig = DepositNote(r, "locked")
      /\ \A f \in DepositFields \ {"locked", "covenant", "locked_sig"} : u[f] = d[f]
  BY FieldNames DEF DepositInv, IsRecord, LockDeposit
<1>. HIDE DEF u
<1>3. u.locked_sig # Null
  BY <1>1 DEF NotesApart, DepositNote
<1>4. DepositTyped(u) /\ u.covenant = covenant
  BY <1>1, <1>3, FieldNames DEF DepositTyped, DepositStatus, DepositStages
<1>. QED
  BY <1>4 DEF u

LEMMA ReleaseTyped ==
    ASSUME NEW d, DepositInv(d), DepositTyped(d)
    PROVE  DepositTyped(ReleaseDeposit(d)) /\ ReleaseDeposit(d).covenant = Null
<1>. DEFINE u == ReleaseDeposit(d)
<1>1. /\ u.status \in {"open", "registered"}
      /\ u.locked = FALSE /\ u.covenant = Null /\ u.locked_sig = Null
      /\ \A f \in DepositFields \ {"locked", "covenant", "locked_sig"} : u[f] = d[f]
  BY FieldNames DEF DepositInv, IsRecord, ReleaseDeposit, INIT_LOCK_STATE, Initial,
     Flags, Totals
<1>. HIDE DEF u
<1>2. DepositTyped(u) /\ u.covenant = Null
  BY <1>1, FieldNames DEF DepositTyped, DepositStatus, DepositStages
<1>. QED
  BY <1>2 DEF u

LEMMA CloseTyped ==
    ASSUME NotesApart, NEW d, DepositInv(d), DepositTyped(d)
    PROVE  DepositTyped(CloseDeposit(d)) /\ CloseDeposit(d).covenant = d.covenant
<1>. DEFINE u == CloseDeposit(d)
<1>1. /\ u.status = "closed" /\ u.closed = TRUE
      /\ \E r : u.closed_sig = DepositNote(r, "closed")
      /\ \A f \in DepositFields \ {"closed", "closed_sig"} : u[f] = d[f]
  BY FieldNames DEF DepositInv, IsRecord, CloseDeposit
<1>. HIDE DEF u
<1>2. u.closed_sig # Null
  BY <1>1 DEF NotesApart, DepositNote
<1>3. DepositTyped(u) /\ u.covenant = d.covenant
  BY <1>1, <1>2, FieldNames DEF DepositTyped, DepositStatus, DepositStages
<1>. QED
  BY <1>3 DEF u

LEMMA SpendTyped ==
    ASSUME NotesApart, NEW d, DepositInv(d), DepositTyped(d), NEW txid, txid # Null
    PROVE  DepositTyped(SpendDeposit(d, txid)) /\ SpendDeposit(d, txid).covenant = d.covenant
<1>. DEFINE u == SpendDeposit(d, txid)
<1>1. /\ u.status = "spent" /\ u.spent = TRUE /\ u.spent_txid = txid
      /\ \E r : u.spent_sig = DepositNote(r, "spent")
      /\ \A f \in DepositFields \ {"spent", "spent_txid", "spent_sig"} : u[f] = d[f]
  BY FieldNames DEF DepositInv, IsRecord, SpendDeposit
<1>. HIDE DEF u
<1>2. u.spent_sig # Null
  BY <1>1 DEF NotesApart, DepositNote
<1>3. DepositTyped(u) /\ u.covenant = d.covenant
  BY <1>1, <1>2, FieldNames DEF DepositTyped, DepositStatus, DepositStages
<1>. QED
  BY <1>3 DEF u

LEMMA SettleTyped ==
    ASSUME NotesApart, NEW d, DepositInv(d), DepositTyped(d), NEW block, block # Null
    PROVE  DepositTyped(SettleDeposit(d, block)) /\ SettleDeposit(d, block).covenant = d.covenant
<1>. DEFINE u == SettleDeposit(d, block)
<1>1. /\ u.status = "settled" /\ u.settled = TRUE /\ u.spent_block = block
      /\ \E r : u.settled_sig = DepositNote(r, "settled")
      /\ \A f \in DepositFields \ {"settled", "spent_block", "settled_sig"} : u[f] = d[f]
  BY FieldNames DEF DepositInv, IsRecord, SettleDeposit
<1>. HIDE DEF u
<1>3. u.settled_sig # Null
  BY <1>1 DEF NotesApart, DepositNote
<1>4. DepositTyped(u) /\ u.covenant = d.covenant
  BY <1>1, <1>3, FieldNames DEF DepositTyped, DepositStatus, DepositStages
<1>. QED
  BY <1>4 DEF u

\* A record that is typed parses, but for the covenant of a deposit never locked.
LEMMA DepositParses ==
    ASSUME NEW d, DepositInv(d), DepositTyped(d)
    PROVE  \/ ParseDeposit(d)
           \/ /\ ~d.locked /\ d.covenant # Null
              /\ ParseDeposit([d EXCEPT !.covenant = Null])
<1>1. ASSUME NEW r, IsRecord(r), \A f \in Fields \ {"covenant"} : r[f] = d[f],
             r.covenant # Null <=> r.locked
      PROVE  ParseDeposit(r)
  <2>1. /\ r.status \in DepositStatus
        /\ \A f \in {"confirmed", "locked", "closed", "spent", "settled"} : r[f] \in BOOLEAN
        /\ r.locked_sig # Null <=> r.locked
        /\ r.closed_sig # Null <=> r.closed
        /\ r.spent_txid # Null <=> r.spent
        /\ r.spent_sig # Null <=> r.spent
        /\ r.settled_sig # Null <=> r.settled
        /\ r.spent_block # Null <=> r.settled
    BY <1>1, FieldNames DEF DepositInv, DepositTyped
  <2>2. DOMAIN r = DepositFields \cup {"status"}
    BY <1>1 DEF IsRecord, Fields
  <2>3. \A f \in Flags \cap DepositFields : r[f] \in BOOLEAN
    BY <2>1, FieldNames DEF Flags
  <2>4. /\ lock_state(r) /\ deposit_close_state(r) /\ spend_state(r) /\ deposit_settle_state(r)
    BY <1>1, <2>1 DEF lock_state, deposit_close_state, spend_state, deposit_settle_state,
       StateUnion
  <2>. QED
    BY <2>1, <2>2, <2>3, <2>4 DEF ParseDeposit
<1>2. d.locked \in BOOLEAN /\ IsRecord(d) /\ (d.locked => d.covenant # Null)
  BY DEF DepositInv, DepositTyped
<1>3. CASE d.covenant # Null /\ ~d.locked
  <2>. DEFINE r == [d EXCEPT !.covenant = Null]
  <2>1. /\ IsRecord(r) /\ r.covenant = Null
        /\ \A f \in Fields \ {"covenant"} : r[f] = d[f]
    BY <1>2, FieldNames DEF IsRecord
  <2>2. r.locked = d.locked
    BY <2>1, FieldNames
  <2>. HIDE DEF r
  <2>3. ParseDeposit(r)
    BY <1>1, <1>3, <2>1, <2>2
  <2>. QED
    BY <1>3, <2>3 DEF r
<1>4. CASE d.covenant # Null <=> d.locked
  BY <1>1, <1>2, <1>4
<1>. QED
  BY <1>2, <1>3, <1>4
=============================================================================
