------------------------------- MODULE Oracle -------------------------------
(***************************************************************************)
(* The chain as a client sees it (client/class/oracle.ts): a host that      *)
(* answers from the mempool and the blocks of the moment, a funder that     *)
(* polls an address for a deposit, and an agent that asks for the status of *)
(* a transaction before it confirms or settles the record (test/src/core.ts *)
(* and e2e). An answer is used after it is given, and the chain moves on in *)
(* between: transactions are mined, dropped and replaced. Blocks are final. *)
(***************************************************************************)
EXTENDS DepositState

CONSTANTS
    Outputs,        \* outputs that may be paid to the polled address
    Retries         \* poll_address(): how often it asks

ASSUME OracleAssumption == Retries \in Nat \ {0} /\ Null \notin Outputs

VARIABLES
    chain,      \* each transaction: unknown, mempool or mined
    poll,       \* the poll of the funder: pc, turn, utxos and what it returned
    asked,      \* how often the poll had asked when each output came to be unspent
    deposit,    \* the output that was found, or Null, and its record
    status      \* the answer the agent holds: the transaction and its status

vars == <<chain, poll, asked, deposit, status>>

\* A transaction is known by the output it makes or spends, and by whose it is.
PaidBy(o)     == [of |-> o, by |-> "payer"]
Settlement(o) == [of |-> o, by |-> "agent"]
Recovery(o)   == [of |-> o, by |-> "owner"]
Txs           == [of : Outputs, by : {"payer", "agent", "owner"}]

\* Null is the null of the code: no answer of the host and no transaction.
Found == [utxo : Outputs, status : [confirmed : BOOLEAN]]

ASSUME NullAssumption == Null \notin Txs /\ Null \notin Found /\ Null # "block"

Known(tx)   == chain[tx] # "unknown"
Spends(o)   == {tx \in {Settlement(o), Recovery(o)} : Known(tx)}
Unspent(o)  == Known(PaidBy(o)) /\ Spends(o) = {}

Init ==
    /\ chain = [tx \in Txs |-> "unknown"]
    /\ poll = [pc |-> "look", turn |-> 0, utxos |-> {}, found |-> Null]
    /\ asked = [o \in Outputs |-> Null]
    /\ deposit = [utxo |-> Null, record |-> Null]
    /\ status = Null

-----------------------------------------------------------------------------
(* What the host answers, and what the class makes of it *)

TxStatus(tx) == [confirmed |-> chain[tx] = "mined"]

\* Status 404 is null, any other failure throws.
GetTx(tx)       == IF Known(tx) THEN [tx |-> tx, status |-> TxStatus(tx)] ELSE Null
GetTxStatus(tx) == IF Known(tx) THEN TxStatus(tx) ELSE Null

GetOutspend(o) ==
    IF Spends(o) = {} THEN [spent |-> FALSE]
    ELSE LET tx == CHOOSE tx \in Spends(o) : TRUE
         IN [spent |-> TRUE, tx |-> tx, status |-> TxStatus(tx)]

GetUtxoData(o) ==
    LET tx == GetTx(PaidBy(o))
    IN IF tx = Null THEN Null ELSE [utxo |-> o, status |-> tx.status]

GetAddressUtxos ==
    {[utxo |-> o, status |-> TxStatus(PaidBy(o))] : o \in {p \in Outputs : Unspent(p)}}

-----------------------------------------------------------------------------
(* The chain *)

Move(tx, stage) == chain' = [chain EXCEPT ![tx] = stage]

Asked == poll.turn + IF poll.pc = "sleep" THEN 1 ELSE 0

Arrive(o) ==
    /\ ~Known(PaidBy(o))
    /\ Move(PaidBy(o), "mempool")
    /\ asked' = [asked EXCEPT ![o] = Asked]
    /\ UNCHANGED <<poll, deposit, status>>

Mine(tx) ==
    /\ chain[tx] = "mempool"
    /\ Move(tx, "mined")
    /\ UNCHANGED <<poll, asked, deposit, status>>

\* Dropped from the mempool or replaced by a transaction of no interest.
Drop(tx) ==
    /\ chain[tx] = "mempool"
    /\ Move(tx, "unknown")
    /\ asked' = [asked EXCEPT ![tx.of] = IF tx.by = "payer" THEN Null ELSE Asked]
    /\ UNCHANGED <<poll, deposit, status>>

\* The owner of an old output recovers it, and replaces an unmined settlement.
Recover(o) ==
    /\ chain[PaidBy(o)] = "mined"
    /\ \A tx \in Spends(o) : tx = Settlement(o) /\ chain[tx] = "mempool"
    /\ chain' = [chain EXCEPT ![Settlement(o)] = "unknown", ![Recovery(o)] = "mempool"]
    /\ UNCHANGED <<poll, asked, deposit, status>>

-----------------------------------------------------------------------------
(* poll_address(): a turn returns what the turn before was told, or asks again *)

To(pc) == poll' = [poll EXCEPT !.pc = pc]

LookAt(retries) ==
    /\ poll.pc = "look"
    /\ IF poll.turn = retries THEN To("timeout")
       ELSE IF poll.utxos = {} THEN To("fetch")
       ELSE \E first \in poll.utxos :
              poll' = [poll EXCEPT !.pc = "done", !.found = first]
    /\ UNCHANGED <<chain, asked, deposit, status>>

\* Mutant: one turn less.
LookOnceLess == LookAt(Retries - 1)

Look == LookAt(Retries)

\* The host answers; the order of its list is its own.
Answer ==
    /\ poll.pc = "fetch"
    /\ poll' = [poll EXCEPT !.pc = "sleep", !.utxos = GetAddressUtxos]
    /\ UNCHANGED <<chain, asked, deposit, status>>

\* One failed request ends the poll, whatever retries are left.
Fail ==
    /\ poll.pc = "fetch"
    /\ To("failed")
    /\ UNCHANGED <<chain, asked, deposit, status>>

Wake ==
    /\ poll.pc = "sleep"
    /\ poll' = [poll EXCEPT !.pc = "look", !.turn = @ + 1]
    /\ UNCHANGED <<chain, asked, deposit, status>>

-----------------------------------------------------------------------------
(* The record of the output *)

Registered == deposit.utxo # Null

Record(updated) == deposit' = [deposit EXCEPT !.record = updated]

\* The funder registers what the poll returned (demo/api/account/register.ts).
Register ==
    /\ poll.pc = "done"
    /\ ~Registered
    /\ deposit' = [utxo |-> poll.found.utxo, record |-> CreateDeposit(Null)]
    /\ UNCHANGED <<chain, poll, asked, status>>

\* What the agent waits for: the deposit, and then what it has spent it with.
Awaited ==
    IF deposit.record.spent THEN deposit.record.spent_txid ELSE PaidBy(deposit.utxo)

Ask ==
    /\ Registered
    /\ status = Null
    /\ status' = [tx |-> Awaited, status |-> GetTxStatus(Awaited)]
    /\ UNCHANGED <<chain, poll, asked, deposit>>

\* Mutant: a transaction the host knows of counts.
AnyStatus(answer) == answer.status # Null

\* get_tx_status() of the tests throws on one that is not confirmed.
StatusConfirmed(answer) == answer.status # Null /\ answer.status.confirmed

\* confirm_deposit() or settle_deposit() with the answer, or nothing.
Use ==
    /\ status # Null
    /\ status' = Null
    /\ CASE ~StatusConfirmed(status) -> UNCHANGED deposit
         [] StatusConfirmed(status) /\ status.tx = PaidBy(deposit.utxo) ->
              IF CanConfirm(deposit.record) THEN Record(ConfirmDeposit(deposit.record))
              ELSE UNCHANGED deposit
         [] OTHER -> Record(SettleDeposit(deposit.record, "block"))
    /\ UNCHANGED <<chain, poll, asked>>

\* publish_tx() and the spending of the record; a host that knows of another
\* spend refuses the transaction.
Spend ==
    /\ Registered
    /\ CanSpend(deposit.record)
    /\ Unspent(deposit.utxo)
    /\ Move(Settlement(deposit.utxo), "mempool")
    /\ Record(SpendDeposit(deposit.record, Settlement(deposit.utxo)))
    /\ UNCHANGED <<poll, asked, status>>

PollStep == Look \/ Answer \/ Fail \/ Wake

Next ==
    \/ \E o \in Outputs : Arrive(o) \/ Recover(o)
    \/ \E tx \in Txs : Mine(tx) \/ Drop(tx)
    \/ PollStep
    \/ Register \/ Ask \/ Use \/ Spend

Spec == Init /\ [][Next]_vars

\* Requests are answered or fail, and timers fire.
FairSpec == Spec /\ WF_vars(PollStep)

-----------------------------------------------------------------------------
(* Properties *)

\* A poll that is done returns what it was told, an output is spent by one
\* transaction of a mined one, and the record parses at every client.
TypeOK ==
    /\ chain \in [Txs -> {"unknown", "mempool", "mined"}]
    /\ \A o \in Outputs : \A tx \in Spends(o) :
         Spends(o) = {tx} /\ chain[PaidBy(o)] = "mined"
    /\ poll.turn \in 0..Retries
    /\ (poll.pc = "done") = (poll.found # Null)
    /\ poll.found # Null => poll.found \in poll.utxos
    /\ Registered => /\ deposit.utxo = poll.found.utxo
                     /\ ParseDeposit(deposit.record)

\* The record says of the chain what is so: answers that were old when they were
\* used, deposits that were dropped after they were found and recoveries that
\* replaced a settlement never make a deposit confirmed or settled that is not.
RecordFollowsChain ==
    Registered =>
        /\ deposit.record.confirmed => GetUtxoData(deposit.utxo).status.confirmed
        /\ deposit.record.settled =>
             GetOutspend(deposit.utxo) = [spent  |-> TRUE,
                                          tx     |-> deposit.record.spent_txid,
                                          status |-> [confirmed |-> TRUE]]

\* A poll of n retries looks at n - 1 answers, as the last one is never looked
\* at: an output that is there before the last question but one is answered, and
\* stays, ends the poll, unless the host fails.
FundsFound ==
    \A o \in Outputs :
        (asked[o] # Null /\ asked[o] + 1 < Retries)
            ~> (poll.pc \in {"done", "failed"} \/ ~Unspent(o))
=============================================================================
