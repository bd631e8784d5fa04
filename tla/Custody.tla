------------------------------- MODULE Custody -------------------------------
(***************************************************************************)
(* An agent with several contracts, funders who hold accounts with it, and  *)
(* the chain. Requests are delivered late, repeatedly or to another         *)
(* contract: what a funder signs depends on the account, the output and the *)
(* contract alone, so an old request is the one the funder would make now.  *)
(* The records move as in Escrow; the machine of a contract is the outcome  *)
(* it ends with, and the steps after a settlement is spent are left out.    *)
(***************************************************************************)
EXTENDS Covenant, DepositState, ContractState, FiniteSetsExt

CONSTANTS
    Device,         \* the signing device of the agent
    Funders,        \* by their keys
    ReturnAddr,     \* [Funders -> key]: the return address each gives
    Locktime,
    TokenIds,       \* bound: the accounts that are made
    Rates,          \* feerates of returns
    Utxos,          \* outputs that may come to be
    Owner,          \* [Utxos -> Funders]
    Value,          \* [Utxos -> Nat]
    Contracts,
    Outputs         \* [Contracts -> [paths -> template]]

ASSUME CustodyAssumption == Locktime \in Nat

VARIABLES
    accounts,   \* accounts the agent has made
    chain,      \* each output: where it is, its age, and what has spent it
    requests,   \* the registration behind each deposit
    deposits,   \* the records of the deposits
    contracts,  \* the records of the contracts
    funding,    \* the deposits the agent lists as funds of each contract
    txs         \* transactions the agent has completed

vars == <<accounts, chain, requests, deposits, contracts, funding, txs>>

Paths == UNION {DOMAIN Outputs[c] : c \in Contracts}

AccountRequest(f) ==
    [deposit_pk |-> f, locktime |-> Locktime, return_addr |-> ReturnAddr[f]]

Init ==
    /\ accounts = {}
    /\ chain = [u \in Utxos |-> [stage |-> "absent", utxo |-> Null, age |-> 0,
                                 spent |-> Null]]
    /\ requests = [u \in {} |-> Null]
    /\ deposits = [u \in {} |-> Null]
    /\ contracts = [c \in Contracts |-> CreateContract]
    /\ funding = [c \in Contracts |-> {}]
    /\ txs = {}

Made == DOMAIN deposits

With(f, u, value) == [v \in DOMAIN f \cup {u} |-> IF v = u THEN value ELSE f[v]]

Funds(u)     == \E c \in Contracts : u \in funding[c]
SumOf(S)     == MapThenSumSet(LAMBDA u : Value[u], S)
Confirmed(c) == {u \in funding[c] : deposits[u].confirmed}

-----------------------------------------------------------------------------
(* The chain *)

\* fund_address(), to the address of an account the funder has verified.
Fund(u) ==
    /\ chain[u].stage = "absent"
    /\ \E account \in accounts :
         /\ VerifyAccountData(account, Owner[u])
         /\ chain' = [chain EXCEPT ![u].stage = "mempool",
                        ![u].utxo = [id |-> u, addr |-> account.deposit_addr,
                                     value |-> Value[u]]]
    /\ UNCHANGED <<accounts, requests, deposits, contracts, funding, txs>>

Mine(u) ==
    /\ chain[u].stage = "mempool"
    /\ chain' = [chain EXCEPT ![u].stage = "mined"]
    /\ UNCHANGED <<accounts, requests, deposits, contracts, funding, txs>>

Young == {u \in Utxos : chain[u].stage = "mined" /\ chain[u].age < Locktime}

\* Time passes for all outputs; an age beyond the locktime is not told apart.
Tick ==
    /\ Young # {}
    /\ chain' = [u \in Utxos |-> IF u \in Young THEN [chain[u] EXCEPT !.age = @ + 1]
                                 ELSE chain[u]]
    /\ UNCHANGED <<accounts, requests, deposits, contracts, funding, txs>>

Unspent(utxo) == \E u \in Utxos : chain[u].utxo = utxo /\ chain[u].spent = Null

\* The outputs tx spends, and whether by the script of the funder.
SpentBy(tx, script) ==
    [u \in Utxos |-> IF \E in \in tx.vin : in.utxo = chain[u].utxo
                     THEN [chain[u] EXCEPT !.spent = [output |-> tx.output,
                                                      script |-> script]]
                     ELSE chain[u]]

TxValid(tx) ==
    \A in \in tx.vin : SigValid(in.sig, in.utxo.addr, Sighash(tx.output, in.utxo))

\* broadcast_tx(): a transaction the agent completed reaches the chain.
Broadcast(tx) ==
    /\ TxValid(tx)
    /\ \A in \in tx.vin : Unspent(in.utxo)
    /\ chain' = SpentBy(tx, FALSE)
    /\ UNCHANGED <<accounts, requests, deposits, contracts, funding, txs>>

\* recover_funds_api(), with any account of the funder.
RecoveryTxs(u) ==
    {SignRecoveryTx(RecoveryConfig(t[1]), Owner[u], t[2], t[1].return_addr, chain[u].utxo) :
        t \in {a \in accounts \X Rates : /\ VerifyAccountData(a[1], Owner[u])
                                         /\ AboveDust(a[2], chain[u].utxo)}}

\* Its transaction reaches the chain.
Recover(u) ==
    /\ chain[u].stage = "mined"
    /\ chain[u].spent = Null
    /\ \E tx \in RecoveryTxs(u) :
         /\ \A in \in tx.vin : RecoveryValid(in, chain[u].age)
         /\ chain' = SpentBy(tx, TRUE)
    /\ UNCHANGED <<accounts, requests, deposits, contracts, funding, txs>>

-----------------------------------------------------------------------------
(* Accounts and deposits *)

\* verify_account_req() and create_account(): a request may be made again, and
\* gets another token for the same address.
MakeAccount(f, id) ==
    /\ VerifyAccountReq(AccountRequest(f))
    /\ \A account \in accounts : account.agent_tkn.id # id
    /\ accounts' = accounts \cup {CreateAccount(AccountRequest(f), Device, id)}
    /\ UNCHANGED <<chain, requests, deposits, contracts, funding, txs>>

\* register_funds_api(): what a funder may sign for an output. The request
\* holds create_return_psig() of it, which the agent keeps.
RegisterReqs(u) ==
    {CreateRegistration(t[1], t[2], chain[u].utxo) :
        t \in {a \in accounts \X Rates : VerifyAccountData(a[1], Owner[u])}}

\* commit_funds_api() for contract s.
CommitReqs(u, s) == {CreateCommitReq(s, Outputs[s], request) : request \in RegisterReqs(u)}

\* verify_register_req(), which drops what verify_return_psig() finds.
VerifyRegisterReq(request) ==
    /\ VerifyAccountReq(request)
    /\ VerifySessionToken(request, Device)
    /\ VerifyUtxo(request)

\* create_deposit(), of an output that has none.
MakeDeposit(u, request, deposit) ==
    /\ u \notin Made
    /\ requests' = With(requests, u, [request EXCEPT !.deposit_addr =
                                        GetAccountCtx(request).deposit_addr])
    /\ deposits' = With(deposits, u, deposit)

Register(u, request) ==
    /\ chain[u].stage # "absent"
    /\ VerifyRegisterReq(request)
    /\ MakeDeposit(u, request, CreateDeposit(Null))
    /\ UNCHANGED <<accounts, chain, contracts, funding, txs>>

\* What verify_covenant_data() asks of the contract.
Fundable(c) == ~contracts[c].activated /\ contracts[c].status = "published"

\* A commit request reaches the agent for contract c, whichever it was made for;
\* the agent locks the deposit with the covenant it came with.
Commit(u, commit, c) ==
    LET covenant == commit.covenant IN
    /\ chain[u].stage # "absent"
    /\ VerifyRegisterReq(commit.registration)
    /\ Fundable(c)
    /\ VerifyCovenant(c, Outputs[c], covenant, commit.registration, Device)
    /\ MakeDeposit(u, commit.registration, LockDeposit(CreateDeposit(covenant), covenant))
    /\ contracts' = [contracts EXCEPT ![c] = AddContractFunds(@, FALSE, Value[u])]
    /\ funding' = [funding EXCEPT ![c] = @ \cup {u}]
    /\ UNCHANGED <<accounts, chain, txs>>

\* confirm_deposit(), with confirm_contract_funds() where it funds a contract.
Confirm(u) ==
    /\ u \in Made
    /\ chain[u].stage = "mined"
    /\ CanConfirm(deposits[u])
    /\ deposits' = [deposits EXCEPT ![u] = ConfirmDeposit(@)]
    /\ contracts' = [c \in Contracts |->
         IF u \in funding[c] THEN ConfirmContractFunds(contracts[c], Value[u])
         ELSE contracts[c]]
    /\ UNCHANGED <<accounts, chain, requests, funding, txs>>

\* What the client asks of its deposit before it signs for it again. The
\* contract it holds is the one published, whose receipt verifies.
ClientAccepts(u) ==
    VerifyDepositSigs(deposits[u]) /\ VerifyDepositData(requests[u], Owner[u])

\* lock_funds_api() for contract s reaches the agent for contract c.
Lock(u, s, c) ==
    /\ u \in Made
    /\ Fundable(c)
    /\ deposits[u].confirmed
    /\ CanLock(deposits[u])
    /\ ClientAccepts(u)
    /\ LET covenant == CreateLockReq(s, Outputs[s], requests[u]).covenant
       IN /\ VerifyCovenant(c, Outputs[c], covenant, requests[u], Device)
          /\ deposits' = [deposits EXCEPT ![u] = LockDeposit(@, covenant)]
    /\ contracts' = [contracts EXCEPT ![c] = AddContractFunds(@, TRUE, Value[u])]
    /\ funding' = [funding EXCEPT ![c] = @ \cup {u}]
    /\ UNCHANGED <<accounts, chain, requests, txs>>

\* rem_contract_funds() and release_deposit(), before the securing or after a
\* cancellation.
Withdraw(u, c) ==
    /\ u \in funding[c]
    /\ contracts[c].status \in {"published", "canceled"}
    /\ contracts' = [contracts EXCEPT ![c] =
                       RemContractFunds(@, deposits[u].confirmed, Value[u])]
    /\ funding' = [funding EXCEPT ![c] = @ \ {u}]
    /\ CanRelease(deposits[u])
    /\ deposits' = [deposits EXCEPT ![u] = ReleaseDeposit(@)]
    /\ UNCHANGED <<accounts, chain, requests, txs>>

\* close_deposit_api(), verify_close_req(), get_return_tx() of the deposit and
\* close_deposit().
Close(u, rate) ==
    /\ u \in Made
    /\ deposits[u].covenant = Null
    /\ CanClose(deposits[u])
    /\ ClientAccepts(u)
    /\ deposits' = [deposits EXCEPT ![u] = CloseDeposit(@)]
    /\ txs' = txs \cup {GetReturnTx(requests[u],
                                    CreateCloseReq(requests[u], rate).return_psig, Device)}
    /\ UNCHANGED <<accounts, chain, requests, contracts, funding>>

\* Mutant: a deposit is returned while it funds a contract.
ReturnFunds(u) ==
    /\ u \in Made
    /\ CanSpend(deposits[u])
    /\ txs' = txs \cup {GetReturnTx(requests[u],
                         CreateReturnPsig(requests[u], requests[u].deposit_pk), Device)}
    /\ deposits' = [deposits EXCEPT ![u] = SpendDeposit(@, "return")]
    /\ UNCHANGED <<accounts, chain, requests, contracts, funding>>

\* get_return_tx() of the registration and spend_deposit(), for a deposit that
\* funds nothing.
Return(u) ==
    /\ u \in Made
    /\ ~Funds(u)
    /\ CanSpend(deposits[u])
    /\ txs' = txs \cup {GetReturnTx(requests[u],
                         CreateReturnPsig(requests[u], requests[u].deposit_pk), Device)}
    /\ deposits' = [deposits EXCEPT ![u] = SpendDeposit(@, "return")]
    /\ UNCHANGED <<accounts, chain, requests, contracts, funding>>

-----------------------------------------------------------------------------
(* Contracts *)

Move(c, contract) ==
    /\ contracts' = [contracts EXCEPT ![c] = contract]
    /\ UNCHANGED <<accounts, chain, requests, deposits, funding>>

Cancel(c) ==
    /\ contracts[c].status \in {"published", "secured"}
    /\ Move(c, CancelContract(contracts[c]))
    /\ UNCHANGED txs

Secure(c) ==
    /\ contracts[c].status = "published"
    /\ Confirmed(c) = funding[c]
    /\ CanSecure(contracts[c], Cardinality(funding[c]), SumOf(funding[c]))
    /\ Move(c, SecureContract(contracts[c], Cardinality(funding[c]), SumOf(funding[c])))
    /\ UNCHANGED txs

Activate(c) ==
    /\ contracts[c].status = "secured"
    /\ Move(c, ActivateContract(contracts[c], 0))
    /\ UNCHANGED txs

\* close_contract() on the machine that ended with an output.
CloseWithOutput(c, path) ==
    /\ contracts[c].status = "active"
    /\ Move(c, CloseContract(contracts[c], [head |-> 1, closed |-> TRUE,
                                            output |-> path]))
    /\ UNCHANGED txs

\* get_settlement_tx()
SettlementTx(c) ==
    LET path == contracts[c].machine_vout
    IN [output |-> Outputs[c][path],
        vin    |-> {[utxo |-> requests[u].utxo,
                     sig  |-> SettleCovenant(c, Outputs[c], requests[u],
                                             deposits[u].covenant, path, Device)] :
                       u \in funding[c]}]

\* get_settlement_tx() and spend_contract().
Spend(c) ==
    /\ contracts[c].status = "closed"
    /\ \A u \in funding[c] : deposits[u].covenant # Null
    /\ txs' = txs \cup {SettlementTx(c)}
    /\ Move(c, SpendContract(contracts[c], contracts[c].machine_vout))

FundsStep ==
    \E u \in Utxos :
        \/ Fund(u) \/ Mine(u) \/ Recover(u) \/ Confirm(u) \/ Return(u)
        \/ \E rate \in Rates : Close(u, rate)
        \/ \E request \in RegisterReqs(u) : Register(u, request)
        \/ \E s, c \in Contracts : \E commit \in CommitReqs(u, s) : Commit(u, commit, c)
        \/ \E s, c \in Contracts : Lock(u, s, c)
        \/ \E c \in Contracts : Withdraw(u, c)

ContractStep ==
    \E c \in Contracts :
        \/ Cancel(c) \/ Secure(c) \/ Activate(c) \/ Spend(c)
        \/ \E path \in DOMAIN Outputs[c] : CloseWithOutput(c, path)

Next ==
    \/ \E f \in Funders, id \in TokenIds : MakeAccount(f, id)
    \/ Tick
    \/ \E tx \in txs : Broadcast(tx)
    \/ FundsStep
    \/ ContractStep

Spec == Init /\ [][Next]_vars

\* Blocks come, and a funder whose output is not spent recovers it in time.
Fairness ==
    /\ WF_vars(Tick \/ \E u \in Utxos : Mine(u))
    /\ WF_vars(\E u \in Utxos : Recover(u))

FairSpec == Spec /\ Fairness

-----------------------------------------------------------------------------
(* Properties *)

\* Deposits are of outputs on the chain and of their owners' accounts, a fund
\* is a deposit that holds a covenant for its contract, and funds one only.
TypeOK ==
    /\ DOMAIN requests = Made
    /\ \A u \in Made :
         /\ chain[u].stage # "absent"
         /\ requests[u].utxo = chain[u].utxo
         /\ requests[u].deposit_pk = Owner[u]
         /\ deposits[u].status \in DepositStatus
    /\ \A c \in Contracts :
         /\ contracts[c].status \in ContractStages
         /\ funding[c] \subseteq Made
         /\ \A u \in funding[c] : deposits[u].covenant.cid = c
    /\ \A u \in Utxos : chain[u].age \in 0..Locktime

\* The registrations a funder may have signed for, and all partial signatures
\* that may have been made: those of requests, sent or not, and the agent's.
Registrations ==
    UNION {RegisterReqs(u) : u \in {v \in Utxos : chain[v].stage # "absent"}}

FunderPsigs(request) ==
    {CreateReturnPsig(request, request.deposit_pk).psig}
    \cup UNION {Range(CreateCovenant(c, Outputs[c], request, request.deposit_pk).psigs) :
                  c \in Contracts}

Psigs ==
    (UNION {FunderPsigs(request) : request \in Registrations})
    \cup (UNION {UNION {in.sig : in \in tx.vin} : tx \in txs})

\* No key signs two messages, or one message in two sessions, with one nonce:
\* not for two paths, outputs or contracts, nor for a return and a covenant,
\* although all of an account's sessions start from the nonce of its token.
NonceOnce ==
    \A p, q \in Psigs : p.key = q.key /\ Nonce(p) = Nonce(q) => p.musig = q.musig

\* What the agent completes is accepted by the network: covenants taken in long
\* before, with whichever token of the account and however often the funds came
\* and went, sign the path the contract closed on.
TransactionsValid == \A tx \in txs : TxValid(tx)

\* The agent never completes two transactions that spend the same output.
OneTransaction ==
    \A t1, t2 \in txs :
        (\E i1 \in t1.vin, i2 \in t2.vin : i1.utxo = i2.utxo) => t1 = t2

\* The outputs as the contracts promise them (Pledge).
PledgedTo(u, c) ==
    u \in funding[c] /\ contracts[c].secured /\ ~contracts[c].canceled

Fate(u) ==
    LET spent == chain[u].spent IN
    CASE spent = Null -> "held"
      [] spent # Null /\ spent.script -> "recovered"
      [] OTHER ->
           IF \E c \in Contracts : spent.output \in Range(Outputs[c])
           THEN CHOOSE path \in Paths :
                    \E c \in Contracts : path \in DOMAIN Outputs[c]
                                         /\ Outputs[c][path] = spent.output
           ELSE "returned"

Promise == INSTANCE Pledge WITH
    Free    <- Null,
    pledge  <- [u \in Utxos |-> IF \E c \in Contracts : PledgedTo(u, c)
                                THEN CHOOSE c \in Contracts : PledgedTo(u, c) ELSE Null],
    fate    <- [u \in Utxos |-> Fate(u)],
    matured <- {u \in Utxos : chain[u].age = Locktime}

\* The agent, the funders and the chain keep the promise of Pledge: the outputs
\* of a secured contract are paid together on one of its paths, and not returned
\* while it stands, whatever return the agent completed before.
KeepsPledge == Promise!Spec

\* docs/resources/intro.md: even in a worst-case scenario, deposits are
\* recoverable. Every output in custody is spent in the end, by the agent or
\* by its funder alone.
FundsComeBack ==
    \A u \in Utxos : (chain[u].stage = "mined") ~> (chain[u].spent # Null)

=============================================================================
