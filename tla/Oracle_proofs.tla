---------------------------- MODULE Oracle_proofs ----------------------------
(***************************************************************************)
(* The record of a deposit and the chain, for any number of outputs and     *)
(* tries: what was confirmed once stays so, as blocks are final, and an     *)
(* answer that says confirmed is no older than that.                        *)
(***************************************************************************)
EXTENDS Oracle, DepositState_proofs

-----------------------------------------------------------------------------
(* The inductive invariant, in parts *)

\* An output is spent by one transaction at a time, once its own is mined.
ChainInv ==
    /\ chain \in [Txs -> {"unknown", "mempool", "mined"}]
    /\ \A o \in Outputs :
         /\ chain[Settlement(o)] = "unknown" \/ chain[Recovery(o)] = "unknown"
         /\ Spends(o) # {} => chain[PaidBy(o)] = "mined"

PollInv ==
    /\ DOMAIN poll = {"pc", "turn", "utxos", "found"}
    /\ \A found \in poll.utxos : found.utxo \in Outputs
    /\ poll.pc = "done" => poll.found.utxo \in Outputs

\* What the record says of the chain, and by which transaction it is spent.
RecordInv ==
    /\ DOMAIN deposit = {"utxo", "record"}
    /\ Registered =>
        /\ deposit.utxo \in Outputs
        /\ DOMAIN deposit.record = Fields
        /\ deposit.record.confirmed => chain[PaidBy(deposit.utxo)] = "mined"
        /\ deposit.record.spent => deposit.record.spent_txid = Settlement(deposit.utxo)
        /\ deposit.record.settled => /\ deposit.record.spent
                                     /\ chain[Settlement(deposit.utxo)] = "mined"

\* An answer is about the deposit or what it is spent by.
StatusInv ==
    status # Null =>
        /\ Registered
        /\ \/ status.tx = PaidBy(deposit.utxo)
           \/ status.tx = Settlement(deposit.utxo) /\ deposit.record.spent
        /\ StatusConfirmed(status) => chain[status.tx] = "mined"

IInv == ChainInv /\ PollInv /\ RecordInv /\ StatusInv

\* A step of the chain: what is mined stays.
MinedStays == \A tx \in Txs : chain[tx] = "mined" => chain'[tx] = "mined"

LEMMA Kinds ==
    ASSUME NEW o \in Outputs
    PROVE  /\ {PaidBy(o), Settlement(o), Recovery(o)} \subseteq Txs
           /\ PaidBy(o) # Settlement(o) /\ PaidBy(o) # Recovery(o)
           /\ Settlement(o) # Recovery(o)
           /\ PaidBy(o).of = o /\ Settlement(o).of = o /\ Recovery(o).of = o
BY DEF PaidBy, Settlement, Recovery, Txs

LEMMA TxKinds ==
    ASSUME NEW tx \in Txs
    PROVE  tx.of \in Outputs /\ tx \in {PaidBy(tx.of), Settlement(tx.of), Recovery(tx.of)}
BY DEF PaidBy, Settlement, Recovery, Txs

LEMMA Initially == Init => IInv
<1>. SUFFICES ASSUME Init PROVE IInv
  OBVIOUS
<1>1. ChainInv
  BY Kinds DEF Init, ChainInv, Spends, Known
<1>2. PollInv /\ RecordInv /\ StatusInv
  BY DEF Init, PollInv, RecordInv, StatusInv, Registered
<1>. QED  BY <1>1, <1>2 DEF IInv

-----------------------------------------------------------------------------
(* Steps of the chain *)

LEMMA ChainStep ==
    ASSUME IInv, ChainInv', MinedStays, UNCHANGED <<poll, deposit, status>>
    PROVE  IInv'
<1>1. PollInv'
  BY DEF IInv, PollInv
<1>2. RecordInv'
  BY Kinds DEF IInv, RecordInv, Registered, MinedStays
<1>3. StatusInv'
  BY Kinds DEF IInv, RecordInv, StatusInv, Registered, MinedStays, StatusConfirmed
<1>. QED  BY <1>1, <1>2, <1>3 DEF IInv

LEMMA ArriveStep == ASSUME IInv, NEW o \in Outputs, Arrive(o) PROVE IInv'
<1>1. ~Known(PaidBy(o)) /\ chain' = [chain EXCEPT ![PaidBy(o)] = "mempool"]
  BY DEF Arrive, Move
<1>2. chain[PaidBy(o)] = "unknown" /\ Spends(o) = {}
  BY <1>1 DEF IInv, ChainInv, Known
<1>3. ChainInv'
  BY <1>1, <1>2, Kinds DEF IInv, ChainInv, Spends, Known
<1>4. MinedStays
  BY <1>1, <1>2 DEF MinedStays, IInv, ChainInv
<1>. QED  BY <1>3, <1>4, ChainStep DEF Arrive

LEMMA MineStep == ASSUME IInv, NEW tx \in Txs, Mine(tx) PROVE IInv'
<1>1. chain[tx] = "mempool" /\ chain' = [chain EXCEPT ![tx] = "mined"]
  BY DEF Mine, Move
<1>2. ChainInv'
  <2>1. chain' \in [Txs -> {"unknown", "mempool", "mined"}]
    BY <1>1 DEF IInv, ChainInv
  <2>2. \A t \in Txs : chain'[t] = "unknown" <=> chain[t] = "unknown"
    BY <1>1 DEF IInv, ChainInv
  <2>3. \A t \in Txs : chain[t] = "mined" => chain'[t] = "mined"
    BY <1>1 DEF IInv, ChainInv
  <2>4. \A o \in Outputs : Spends(o)' = Spends(o)
    BY <2>2, Kinds DEF Spends, Known
  <2>. QED  BY <2>1, <2>2, <2>3, <2>4, Kinds DEF IInv, ChainInv
<1>3. MinedStays
  BY <1>1 DEF MinedStays, IInv, ChainInv
<1>. QED  BY <1>2, <1>3, ChainStep DEF Mine

LEMMA DropStep == ASSUME IInv, NEW tx \in Txs, Drop(tx) PROVE IInv'
<1>1. chain[tx] = "mempool" /\ chain' = [chain EXCEPT ![tx] = "unknown"]
  BY DEF Drop, Move
<1>2. MinedStays
  BY <1>1 DEF MinedStays, IInv, ChainInv
<1>3. ChainInv'
  <2>1. chain' \in [Txs -> {"unknown", "mempool", "mined"}]
    BY <1>1 DEF IInv, ChainInv
  <2>2. \A t \in Txs : chain[t] = "unknown" => chain'[t] = "unknown"
    BY <1>1 DEF IInv, ChainInv
  <2>3. \A o \in Outputs : Spends(o)' \subseteq Spends(o)
    BY <2>2, Kinds DEF Spends, Known
  <2>. QED  BY <1>2, <2>1, <2>2, <2>3, Kinds DEF IInv, ChainInv, MinedStays
<1>. QED  BY <1>2, <1>3, ChainStep DEF Drop

LEMMA RecoverStep == ASSUME IInv, NEW o \in Outputs, Recover(o) PROVE IInv'
<1>1. /\ chain[PaidBy(o)] = "mined"
      /\ \A tx \in Spends(o) : tx = Settlement(o) /\ chain[tx] = "mempool"
      /\ chain' = [chain EXCEPT ![Settlement(o)] = "unknown", ![Recovery(o)] = "mempool"]
  BY DEF Recover
<1>2. chain[Settlement(o)] # "mined" /\ chain[Recovery(o)] # "mined"
  BY <1>1, Kinds DEF Spends, Known
<1>3. MinedStays
  BY <1>1, <1>2, Kinds DEF MinedStays, IInv, ChainInv
<1>4. ChainInv'
  <2>1. chain' \in [Txs -> {"unknown", "mempool", "mined"}]
    BY <1>1 DEF IInv, ChainInv
  <2>2. /\ chain'[Settlement(o)] = "unknown"
        /\ chain'[PaidBy(o)] = "mined"
    BY <1>1, Kinds DEF IInv, ChainInv
  <2>3. ASSUME NEW p \in Outputs, p # o
        PROVE  /\ chain'[Settlement(p)] = chain[Settlement(p)]
               /\ chain'[Recovery(p)] = chain[Recovery(p)]
               /\ chain'[PaidBy(p)] = chain[PaidBy(p)]
    <3>1. {Settlement(p), Recovery(p), PaidBy(p)} \cap {Settlement(o), Recovery(o)} = {}
      BY <2>3, Kinds
    <3>. QED  BY <1>1, <3>1, Kinds DEF IInv, ChainInv
  <2>4. ASSUME NEW p \in Outputs, p # o PROVE Spends(p)' = Spends(p)
    BY <2>3, <2>4 DEF Spends, Known
  <2>. QED  BY <2>1, <2>2, <2>3, <2>4 DEF IInv, ChainInv
<1>. QED  BY <1>3, <1>4, ChainStep DEF Recover

-----------------------------------------------------------------------------
(* Steps of the poll and of the agent *)

LEMMA PollStepKeeps == ASSUME IInv, PollStep PROVE IInv'
<1>1. UNCHANGED <<chain, deposit, status>>
  BY DEF PollStep, Look, LookAt, Answer, Fail, Wake
<1>2. ChainInv' /\ RecordInv' /\ StatusInv'
  BY <1>1 DEF IInv, ChainInv, Spends, Known, RecordInv, StatusInv, Registered,
              StatusConfirmed
<1>3. PollInv'
  <2>1. CASE Look
    <3>1. CASE \E pc : pc # "done" /\ poll' = [poll EXCEPT !.pc = pc]
      BY <3>1 DEF IInv, PollInv
    <3>2. CASE \E first \in poll.utxos :
                 poll' = [poll EXCEPT !.pc = "done", !.found = first]
      BY <3>2 DEF IInv, PollInv
    <3>. QED  BY <2>1, <3>1, <3>2 DEF Look, LookAt, To
  <2>2. CASE Answer
    BY <2>2 DEF IInv, PollInv, Answer, GetAddressUtxos
  <2>3. CASE Fail \/ Wake
    BY <2>3 DEF IInv, PollInv, Fail, Wake, To
  <2>. QED  BY <2>1, <2>2, <2>3 DEF PollStep
<1>. QED  BY <1>2, <1>3 DEF IInv

LEMMA RegisterStep == ASSUME IInv, Register PROVE IInv'
<1>1. /\ poll.found.utxo \in Outputs /\ ~Registered
      /\ deposit' = [utxo |-> poll.found.utxo, record |-> CreateDeposit(Null)]
      /\ UNCHANGED <<chain, poll, status>>
  BY DEF Register, IInv, PollInv
<1>2. ChainInv' /\ PollInv'
  BY <1>1 DEF IInv, ChainInv, Spends, Known, PollInv
<1>3. /\ DOMAIN CreateDeposit(Null) = Fields
      /\ ~CreateDeposit(Null).confirmed /\ ~CreateDeposit(Null).spent
      /\ ~CreateDeposit(Null).settled
  BY FieldNames DEF CreateDeposit, Fields, Initial, Flags
<1>4. RecordInv'
  BY <1>1, <1>3 DEF RecordInv
<1>5. StatusInv'
  BY <1>1 DEF IInv, StatusInv
<1>. QED  BY <1>2, <1>4, <1>5 DEF IInv

LEMMA AskStep == ASSUME IInv, Ask PROVE IInv'
<1>1. /\ Registered
      /\ status' = [tx |-> Awaited, status |-> GetTxStatus(Awaited)]
      /\ UNCHANGED <<chain, poll, deposit>>
  BY DEF Ask
<1>2. ChainInv' /\ PollInv' /\ RecordInv'
  BY <1>1 DEF IInv, ChainInv, Spends, Known, PollInv, RecordInv
<1>3. \/ Awaited = PaidBy(deposit.utxo)
      \/ Awaited = Settlement(deposit.utxo) /\ deposit.record.spent
  BY <1>1 DEF Awaited, IInv, RecordInv
<1>4. StatusConfirmed(status') => chain[Awaited] = "mined"
  BY <1>1 DEF StatusConfirmed, GetTxStatus, TxStatus
<1>5. status'.tx = Awaited
  BY <1>1
<1>6. StatusInv'
  BY <1>1, <1>3, <1>4, <1>5 DEF StatusInv, Registered, StatusConfirmed
<1>. QED  BY <1>2, <1>6 DEF IInv

\* A step of the record alone, after which no answer is held, or the same.
LEMMA RecordStep ==
    ASSUME IInv, NEW updated, Registered, Record(updated), DOMAIN updated = Fields,
           updated.confirmed => chain[PaidBy(deposit.utxo)] = "mined",
           updated.spent => updated.spent_txid = Settlement(deposit.utxo),
           updated.settled => /\ updated.spent
                              /\ chain'[Settlement(deposit.utxo)] = "mined",
           MinedStays
    PROVE  RecordInv'
<1>1. /\ deposit'.utxo = deposit.utxo /\ deposit'.record = updated
      /\ DOMAIN deposit' = {"utxo", "record"} /\ deposit.utxo \in Outputs
  BY DEF Record, IInv, RecordInv
<1>. QED  BY <1>1, Kinds DEF RecordInv, Registered, MinedStays

LEMMA UseStep == ASSUME IInv, Use PROVE IInv'
<1>1. status # Null /\ status' = Null /\ UNCHANGED <<chain, poll>>
  BY DEF Use
<1>2. ChainInv' /\ PollInv' /\ StatusInv'
  BY <1>1 DEF IInv, ChainInv, Spends, Known, PollInv, StatusInv
<1>3. MinedStays
  BY <1>1 DEF MinedStays
<1>4. Registered /\ DOMAIN deposit.record = Fields
  BY <1>1 DEF IInv, StatusInv, RecordInv
<1>5. CASE UNCHANGED deposit
  <2>1. RecordInv'
    BY <1>1, <1>5 DEF IInv, RecordInv, Registered
  <2>. QED  BY <1>2, <2>1 DEF IInv
<1>6. CASE /\ StatusConfirmed(status) /\ status.tx = PaidBy(deposit.utxo)
           /\ Record(ConfirmDeposit(deposit.record))
  <2>. DEFINE updated == ConfirmDeposit(deposit.record)
  <2>1. /\ DOMAIN updated = Fields
        /\ updated.spent = deposit.record.spent
        /\ updated.spent_txid = deposit.record.spent_txid
        /\ updated.settled = deposit.record.settled
    BY <1>4, FieldNames DEF ConfirmDeposit
  <2>2. chain[PaidBy(deposit.utxo)] = "mined"
    BY <1>1, <1>6 DEF IInv, StatusInv
  <2>. HIDE DEF updated
  <2>3. /\ updated.spent => updated.spent_txid = Settlement(deposit.utxo)
        /\ updated.settled => /\ updated.spent
                              /\ chain'[Settlement(deposit.utxo)] = "mined"
    BY <1>1, <1>4, <2>1 DEF IInv, RecordInv
  <2>4. Record(updated)
    BY <1>6 DEF updated
  <2>5. RecordInv'
    BY <1>3, <1>4, <2>1, <2>2, <2>3, <2>4, RecordStep
  <2>. QED  BY <1>2, <2>5 DEF IInv
<1>7. CASE /\ StatusConfirmed(status) /\ status.tx # PaidBy(deposit.utxo)
           /\ Record(SettleDeposit(deposit.record, "block"))
  <2>. DEFINE updated == SettleDeposit(deposit.record, "block")
  <2>1. /\ DOMAIN updated = Fields
        /\ updated.confirmed = deposit.record.confirmed
        /\ updated.spent = deposit.record.spent
        /\ updated.spent_txid = deposit.record.spent_txid
    BY <1>4, FieldNames DEF SettleDeposit
  <2>2. chain[Settlement(deposit.utxo)] = "mined" /\ deposit.record.spent
    BY <1>1, <1>7 DEF IInv, StatusInv
  <2>. HIDE DEF updated
  <2>3. /\ updated.confirmed => chain[PaidBy(deposit.utxo)] = "mined"
        /\ updated.spent /\ updated.spent_txid = Settlement(deposit.utxo)
        /\ chain'[Settlement(deposit.utxo)] = "mined"
    BY <1>1, <1>4, <2>1, <2>2 DEF IInv, RecordInv
  <2>4. Record(updated)
    BY <1>7 DEF updated
  <2>5. RecordInv'
    BY <1>3, <1>4, <2>1, <2>3, <2>4, RecordStep
  <2>. QED  BY <1>2, <2>5 DEF IInv
<1>8. \/ UNCHANGED deposit
      \/ /\ StatusConfirmed(status) /\ status.tx = PaidBy(deposit.utxo)
         /\ Record(ConfirmDeposit(deposit.record))
      \/ /\ StatusConfirmed(status) /\ status.tx # PaidBy(deposit.utxo)
         /\ Record(SettleDeposit(deposit.record, "block"))
  BY DEF Use
<1>. QED  BY <1>5, <1>6, <1>7, <1>8

LEMMA SpendStep == ASSUME IInv, Spend PROVE IInv'
<1>. DEFINE o       == deposit.utxo
            updated == SpendDeposit(deposit.record, Settlement(o))
<1>1. /\ Registered /\ deposit.record.confirmed /\ ~deposit.record.spent
      /\ Unspent(o)
      /\ chain' = [chain EXCEPT ![Settlement(o)] = "mempool"]
      /\ Record(updated)
      /\ UNCHANGED <<poll, status>>
  BY DEF Spend, CanSpend, Move
<1>2. /\ o \in Outputs /\ DOMAIN deposit.record = Fields
      /\ chain[PaidBy(o)] = "mined"
  BY <1>1 DEF IInv, RecordInv
<1>3. chain[Settlement(o)] = "unknown" /\ chain[Recovery(o)] = "unknown"
  BY <1>1 DEF Unspent, Spends, Known
<1>4. /\ DOMAIN updated = Fields /\ updated.spent
      /\ updated.confirmed = deposit.record.confirmed
      /\ updated.spent_txid = Settlement(o)
      /\ updated.settled = deposit.record.settled
  BY <1>2, FieldNames DEF SpendDeposit
<1>. HIDE DEF updated
<1>5. MinedStays
  BY <1>1, <1>2, <1>3, Kinds DEF MinedStays, IInv, ChainInv
<1>6. ~updated.settled
  BY <1>1, <1>4 DEF IInv, RecordInv
<1>7. RecordInv'
  BY <1>1, <1>2, <1>4, <1>5, <1>6, RecordStep
<1>8. ChainInv'
  <2>1. chain' \in [Txs -> {"unknown", "mempool", "mined"}]
    BY <1>1 DEF IInv, ChainInv
  <2>2. chain'[Recovery(o)] = "unknown" /\ chain'[PaidBy(o)] = "mined"
    BY <1>1, <1>2, <1>3, Kinds DEF IInv, ChainInv
  <2>3. ASSUME NEW p \in Outputs, p # o
        PROVE  /\ chain'[Settlement(p)] = chain[Settlement(p)]
               /\ chain'[Recovery(p)] = chain[Recovery(p)]
               /\ chain'[PaidBy(p)] = chain[PaidBy(p)]
    <3>1. Settlement(o) \notin {Settlement(p), Recovery(p), PaidBy(p)}
      BY <1>2, <2>3, Kinds
    <3>. QED  BY <1>1, <3>1, Kinds DEF IInv, ChainInv
  <2>4. ASSUME NEW p \in Outputs, p # o PROVE Spends(p)' = Spends(p)
    BY <2>3, <2>4 DEF Spends, Known
  <2>. QED  BY <2>1, <2>2, <2>3, <2>4 DEF IInv, ChainInv
<1>9. StatusInv'
  <2>1. /\ deposit'.utxo = o /\ deposit'.record = updated
    BY <1>1 DEF Record, IInv, RecordInv
  <2>2. ASSUME status # Null
        PROVE  /\ status.tx = PaidBy(o)
               /\ StatusConfirmed(status) => chain'[status.tx] = "mined"
    <3>1. status.tx = PaidBy(o) /\ (StatusConfirmed(status) => chain[status.tx] = "mined")
      BY <1>1, <2>2 DEF IInv, StatusInv
    <3>. QED  BY <1>2, <1>5, <3>1, Kinds DEF MinedStays
  <2>3. ASSUME status # Null PROVE Registered'
    BY <1>1, <2>1 DEF Registered
  <2>. QED  BY <1>1, <2>1, <2>2, <2>3 DEF StatusInv, StatusConfirmed
<1>10. PollInv'
  BY <1>1 DEF IInv, PollInv
<1>. QED  BY <1>7, <1>8, <1>9, <1>10 DEF IInv

-----------------------------------------------------------------------------
LEMMA StepKeeps == IInv /\ [Next]_vars => IInv'
<1>. SUFFICES ASSUME IInv, [Next]_vars PROVE IInv'
  OBVIOUS
<1>1. CASE \E o \in Outputs : Arrive(o) \/ Recover(o)
  BY <1>1, ArriveStep, RecoverStep
<1>2. CASE \E tx \in Txs : Mine(tx) \/ Drop(tx)
  BY <1>2, MineStep, DropStep
<1>3. CASE PollStep
  BY <1>3, PollStepKeeps
<1>4. CASE Register \/ Ask \/ Use \/ Spend
  BY <1>4, RegisterStep, AskStep, UseStep, SpendStep
<1>5. CASE UNCHANGED vars
  BY <1>5 DEF vars, IInv, ChainInv, Spends, Known, PollInv, RecordInv, StatusInv,
              Registered, StatusConfirmed
<1>. QED  BY <1>1, <1>2, <1>3, <1>4, <1>5 DEF Next

\* The one transaction that spends an output is what get_outspend() answers with.
LEMMA Answers == IInv => RecordFollowsChain
<1>. SUFFICES ASSUME IInv, Registered
              PROVE  /\ deposit.record.confirmed =>
                          GetUtxoData(deposit.utxo).status.confirmed
                     /\ deposit.record.settled =>
                          GetOutspend(deposit.utxo) =
                            [spent  |-> TRUE, tx |-> deposit.record.spent_txid,
                             status |-> [confirmed |-> TRUE]]
  BY DEF RecordFollowsChain
<1>. DEFINE o == deposit.utxo
<1>1. o \in Outputs
  BY DEF IInv, RecordInv
<1>2. ASSUME deposit.record.confirmed PROVE GetUtxoData(o).status.confirmed
  <2>1. chain[PaidBy(o)] = "mined"
    BY <1>2 DEF IInv, RecordInv
  <2>2. GetTx(PaidBy(o)) = [tx |-> PaidBy(o), status |-> [confirmed |-> TRUE]]
    BY <2>1 DEF GetTx, Known, TxStatus
  <2>. QED  BY <2>2 DEF GetUtxoData
<1>3. ASSUME deposit.record.settled
      PROVE  GetOutspend(o) = [spent  |-> TRUE, tx |-> deposit.record.spent_txid,
                               status |-> [confirmed |-> TRUE]]
  <2>1. /\ deposit.record.spent_txid = Settlement(o)
        /\ chain[Settlement(o)] = "mined"
    BY <1>3 DEF IInv, RecordInv
  <2>2. Spends(o) = {Settlement(o)}
    BY <1>1, <2>1 DEF IInv, ChainInv, Spends, Known
  <2>3. (CHOOSE tx \in Spends(o) : TRUE) = Settlement(o)
    BY <2>2
  <2>. QED  BY <2>1, <2>2, <2>3 DEF GetOutspend, TxStatus
<1>. QED  BY <1>2, <1>3

\* Answers that are old when they are used, dropped deposits and recoveries that
\* replace a settlement never make a record say what is not so on the chain
\* (client/class/oracle.ts, core/module/deposit/data.ts).
THEOREM RecordFollows == Spec => []RecordFollowsChain
BY Initially, StepKeeps, Answers, PTL DEF Spec

-----------------------------------------------------------------------------
(* Types: the turns of the poll, what it found, and the record at each client. *)

PollTyped ==
    /\ poll.turn \in 0..Retries
    /\ poll.pc \in {"fetch", "sleep"} => poll.turn < Retries
    /\ poll.utxos \subseteq Found
    /\ poll.pc = "done" <=> poll.found # Null
    /\ poll.found # Null => poll.found \in poll.utxos

\* The record of a deposit that is never locked.
RecordTyped ==
    Registered =>
        /\ poll.pc = "done" /\ deposit.utxo = poll.found.utxo
        /\ DepositInv(deposit.record) /\ DepositTyped(deposit.record)
        /\ deposit.record.covenant = Null

TypedInv == PollTyped /\ RecordTyped

LEMMA TypedInitially == Init => TypedInv
<1>. SUFFICES ASSUME Init PROVE TypedInv
  OBVIOUS
<1>1. 0 \in 0..Retries
  BY OracleAssumption DEF OracleAssumption
<1>. QED  BY <1>1 DEF Init, TypedInv, PollTyped, RecordTyped, Registered

\* A turn ends, or goes on to the next while there is one.
LEMMA PollStepTyped == ASSUME IInv, TypedInv, PollStep PROVE PollTyped'
<1>1. /\ DOMAIN poll = {"pc", "turn", "utxos", "found"}
      /\ poll.turn \in 0..Retries
  BY DEF IInv, PollInv, TypedInv, PollTyped
<1>2. CASE Look
  <2>1. poll.pc = "look"
    BY <1>2 DEF Look, LookAt
  <2>2. CASE poll.turn = Retries /\ poll' = [poll EXCEPT !.pc = "timeout"]
    BY <1>1, <2>1, <2>2 DEF TypedInv, PollTyped
  <2>3. CASE poll.turn # Retries /\ poll' = [poll EXCEPT !.pc = "fetch"]
    <3>1. poll.turn < Retries
      BY <1>1, <2>3, OracleAssumption DEF OracleAssumption
    <3>. QED  BY <1>1, <2>1, <2>3, <3>1 DEF TypedInv, PollTyped
  <2>4. ASSUME NEW first \in poll.utxos,
               poll' = [poll EXCEPT !.pc = "done", !.found = first]
        PROVE  PollTyped'
    <3>1. first # Null
      BY NullAssumption DEF TypedInv, PollTyped, NullAssumption
    <3>. QED  BY <1>1, <2>4, <3>1 DEF TypedInv, PollTyped
  <2>. QED  BY <1>2, <2>2, <2>3, <2>4 DEF Look, LookAt, To
<1>3. CASE Answer
  <2>1. GetAddressUtxos \subseteq Found
    <3>. SUFFICES ASSUME NEW answer \in GetAddressUtxos PROVE answer \in Found
      OBVIOUS
    <3>1. PICK o \in Outputs : answer = [utxo |-> o, status |-> TxStatus(PaidBy(o))]
      BY DEF GetAddressUtxos
    <3>2. TxStatus(PaidBy(o)) \in [confirmed : BOOLEAN]
      <4>1. (chain[PaidBy(o)] = "mined") \in BOOLEAN
        OBVIOUS
      <4>. QED  BY <4>1, Zenon DEF TxStatus
    <3>. QED  BY <3>1, <3>2 DEF Found
  <2>2. poll.pc = "fetch" /\ poll' = [poll EXCEPT !.pc = "sleep", !.utxos = GetAddressUtxos]
    BY <1>3 DEF Answer
  <2>. HIDE DEF GetAddressUtxos
  <2>. QED  BY <1>1, <2>1, <2>2 DEF TypedInv, PollTyped
<1>4. CASE Fail
  BY <1>1, <1>4 DEF Fail, To, TypedInv, PollTyped
<1>5. CASE Wake
  <2>1. /\ poll.pc = "sleep" /\ poll.turn < Retries
        /\ poll' = [poll EXCEPT !.pc = "look", !.turn = poll.turn + 1]
    BY <1>5 DEF Wake, TypedInv, PollTyped
  <2>2. poll.turn + 1 \in 0..Retries
    BY <1>1, <2>1, OracleAssumption DEF OracleAssumption
  <2>. QED  BY <1>1, <2>1, <2>2 DEF TypedInv, PollTyped
<1>. QED  BY <1>2, <1>3, <1>4, <1>5 DEF PollStep

\* A step of the record alone.
LEMMA RecordStepTyped ==
    ASSUME IInv, TypedInv, Registered, NEW updated, Record(updated), UNCHANGED poll,
           DepositInv(updated), DepositTyped(updated), updated.covenant = Null
    PROVE  RecordTyped'
<1>1. deposit'.utxo = deposit.utxo /\ deposit'.record = updated
  BY DEF Record, IInv, RecordInv
<1>. QED  BY <1>1 DEF TypedInv, RecordTyped, Registered

LEMMA RegisterTyped == ASSUME IInv, TypedInv, Register PROVE RecordTyped'
<1>1. /\ poll.pc = "done" /\ UNCHANGED poll
      /\ deposit' = [utxo |-> poll.found.utxo, record |-> CreateDeposit(Null)]
  BY DEF Register
<1>2. /\ DepositInv(CreateDeposit(Null)) /\ DepositTyped(CreateDeposit(Null))
      /\ CreateDeposit(Null).covenant = Null
  BY CreateKeeps, CreateTyped
<1>. QED  BY <1>1, <1>2 DEF RecordTyped

LEMMA UseTyped == ASSUME NotesApart, IInv, TypedInv, Use PROVE RecordTyped'
<1>. DEFINE d == deposit.record
<1>1. /\ Registered /\ status # Null /\ UNCHANGED poll
      /\ DepositInv(d) /\ DepositTyped(d) /\ d.covenant = Null
  BY DEF Use, IInv, StatusInv, TypedInv, RecordTyped
<1>2. CASE UNCHANGED deposit
  BY <1>1, <1>2 DEF TypedInv, RecordTyped, Registered
<1>3. CASE CanConfirm(d) /\ Record(ConfirmDeposit(d))
  <2>1. DepositInv(ConfirmDeposit(d))
    BY <1>1, <1>3, ConfirmKeeps
  <2>2. DepositTyped(ConfirmDeposit(d)) /\ ConfirmDeposit(d).covenant = Null
    BY <1>1, ConfirmTyped
  <2>. QED  BY <1>1, <1>3, <2>1, <2>2, RecordStepTyped
<1>4. CASE status.tx # PaidBy(deposit.utxo) /\ Record(SettleDeposit(d, "block"))
  <2>1. CanSettle(d)
    BY <1>1, <1>4 DEF IInv, StatusInv, DepositInv, CanSettle
  <2>2. DepositInv(SettleDeposit(d, "block"))
    BY <1>1, <2>1, SettleKeeps
  <2>3. "block" # Null
    BY NullAssumption DEF NullAssumption
  <2>4. DepositTyped(SettleDeposit(d, "block")) /\ SettleDeposit(d, "block").covenant = Null
    BY <1>1, <2>3, SettleTyped
  <2>. QED  BY <1>1, <1>4, <2>2, <2>4, RecordStepTyped
<1>5. \/ UNCHANGED deposit
      \/ CanConfirm(d) /\ Record(ConfirmDeposit(d))
      \/ status.tx # PaidBy(deposit.utxo) /\ Record(SettleDeposit(d, "block"))
  BY DEF Use
<1>. QED  BY <1>2, <1>3, <1>4, <1>5

LEMMA SpendTypedStep == ASSUME NotesApart, IInv, TypedInv, Spend PROVE RecordTyped'
<1>. DEFINE d  == deposit.record
            tx == Settlement(deposit.utxo)
<1>1. /\ Registered /\ CanSpend(d) /\ Record(SpendDeposit(d, tx)) /\ UNCHANGED poll
      /\ DepositInv(d) /\ DepositTyped(d) /\ d.covenant = Null
  BY DEF Spend, TypedInv, RecordTyped
<1>2. tx # Null
  <2>1. tx \in Txs
    BY <1>1, Kinds DEF IInv, RecordInv
  <2>. QED  BY <2>1, NullAssumption DEF NullAssumption
<1>. HIDE DEF tx
<1>3. DepositInv(SpendDeposit(d, tx))
  BY <1>1, SpendKeeps
<1>4. DepositTyped(SpendDeposit(d, tx)) /\ SpendDeposit(d, tx).covenant = Null
  BY <1>1, <1>2, SpendTyped
<1>. QED  BY <1>1, <1>3, <1>4, RecordStepTyped

LEMMA TypedSteps == NotesApart /\ IInv /\ TypedInv /\ [Next]_vars => TypedInv'
<1>. SUFFICES ASSUME NotesApart, IInv, TypedInv, [Next]_vars PROVE TypedInv'
  OBVIOUS
<1>1. ASSUME UNCHANGED <<poll, deposit>> PROVE TypedInv'
  BY <1>1 DEF TypedInv, PollTyped, RecordTyped, Registered
<1>2. ASSUME UNCHANGED poll PROVE PollTyped'
  BY <1>2 DEF TypedInv, PollTyped
<1>3. ASSUME NEW o \in Outputs, Arrive(o) \/ Recover(o) PROVE TypedInv'
  BY <1>1, <1>3 DEF Arrive, Recover
<1>4. ASSUME NEW tx \in Txs, Mine(tx) \/ Drop(tx) PROVE TypedInv'
  BY <1>1, <1>4 DEF Mine, Drop
<1>5. ASSUME PollStep PROVE TypedInv'
  <2>1. poll.pc # "done" /\ UNCHANGED deposit
    BY <1>5 DEF PollStep, Look, LookAt, Answer, Fail, Wake
  <2>2. ~Registered'
    BY <2>1 DEF TypedInv, RecordTyped, Registered
  <2>. QED  BY <1>5, <2>2, PollStepTyped DEF TypedInv, RecordTyped
<1>6. ASSUME Register PROVE TypedInv'
  BY <1>2, <1>6, RegisterTyped DEF Register, TypedInv
<1>7. ASSUME Ask PROVE TypedInv'
  BY <1>1, <1>7 DEF Ask
<1>8. ASSUME Use PROVE TypedInv'
  BY <1>2, <1>8, UseTyped DEF Use, TypedInv
<1>9. ASSUME Spend PROVE TypedInv'
  BY <1>2, <1>9, SpendTypedStep DEF Spend, TypedInv
<1>10. CASE UNCHANGED vars
  BY <1>1, <1>10 DEF vars
<1>. QED  BY <1>3, <1>4, <1>5, <1>6, <1>7, <1>8, <1>9, <1>10 DEF Next

\* A poll returns what it was told, an output is spent by one transaction of a
\* mined one, and the record parses at every client (client/class/oracle.ts,
\* core/schema/deposit.ts), whatever was dropped or replaced in between.
THEOREM TypeCorrect == ASSUME NotesApart PROVE Spec => []TypeOK
<1>1. IInv /\ TypedInv => TypeOK
  <2>. SUFFICES ASSUME IInv, TypedInv PROVE TypeOK
    OBVIOUS
  <2>1. ASSUME NEW o \in Outputs, NEW tx \in Spends(o)
        PROVE  Spends(o) = {tx} /\ chain[PaidBy(o)] = "mined"
    <3>1. /\ chain[Settlement(o)] = "unknown" \/ chain[Recovery(o)] = "unknown"
          /\ chain[PaidBy(o)] = "mined"
      BY <2>1 DEF IInv, ChainInv
    <3>2. Spends(o) = {tx}
      BY <2>1, <3>1 DEF Spends, Known
    <3>. QED  BY <3>1, <3>2
  <2>2. ASSUME Registered PROVE ParseDeposit(deposit.record)
    BY <2>2, DepositParses DEF TypedInv, RecordTyped
  <2>. QED
    BY <2>1, <2>2 DEF TypeOK, IInv, ChainInv, TypedInv, PollTyped, RecordTyped
<1>. QED  BY <1>1, Initially, StepKeeps, TypedInitially, TypedSteps, PTL DEF Spec
=============================================================================
