--------------------------- MODULE Custody_proofs ---------------------------
(***************************************************************************)
(* The signatures of an escrow for all devices, funders, outputs, contracts *)
(* and schedules of requests: no nonce is used for two sessions, and what   *)
(* the agent completes is accepted by the network. A record that is locked  *)
(* holds the covenant its funder makes of the registration behind it.       *)
(***************************************************************************)
EXTENDS Custody, TLAPS

-----------------------------------------------------------------------------
(* What the functions of Covenant make: the session of a signature is       *)
(* determined by its tweak, and the signatures of a funder and an agent     *)
(* complete each other.                                                     *)

\* The deposit hash in the id of a session: a return has it for its id.
Subject(cvid) == IF "deposit" \in DOMAIN cvid THEN cvid.deposit ELSE cvid

GroupOf(hash) ==
    Tapkey({hash.account.deposit_pk, hash.agent_tkn.pk},
           RecoveryScript(hash.account.return_addr, hash.account.locktime))

\* A session that its tweak determines: the tweak holds the id and thereby the
\* account, the nonces and the message.
Determined(musig) ==
    musig = [group   |-> GroupOf(Subject(musig.tweak.cvid)),
             pnonces |-> musig.tweak.pnonces,
             tweak   |-> musig.tweak,
             msg     |-> musig.tweak.sighash]

LEMMA GroupIsTapkey ==
    ASSUME NEW request
    PROVE  GetAccountCtx(request).tapkey = GroupOf(DepositHash(request))
BY DEF GetAccountCtx, AccountCtx, GroupOf, DepositHash, AccountHash, Tapkey, RecoveryScript

\* The id of a covenant is no deposit hash, and holds one.
LEMMA Subjects ==
    ASSUME NEW request
    PROVE  /\ Subject(DepositHash(request)) = DepositHash(request)
           /\ \A cid, outputs : Subject(CovenantId(cid, request, outputs)) = DepositHash(request)
<1>1. "deposit" \notin DOMAIN DepositHash(request)
  BY DEF DepositHash
<1>2. \A cid, outputs : /\ "deposit" \in DOMAIN CovenantId(cid, request, outputs)
                        /\ CovenantId(cid, request, outputs).deposit = DepositHash(request)
  BY DEF CovenantId
<1>. QED  BY <1>1, <1>2 DEF Subject

\* The session of a return or a covenant is determined.
LEMMA SessionDetermined ==
    ASSUME NEW request, NEW cvid, NEW output, NEW pnonce,
           Subject(cvid) = DepositHash(request)
    PROVE  Determined(CovenantSession(GetAccountCtx(request), cvid, output, pnonce,
                                      request.utxo).musig)
<1>. DEFINE ctx   == GetAccountCtx(request)
            musig == CovenantSession(ctx, cvid, output, pnonce, request.utxo).musig
            pns   == {pnonce, ctx.session.pn}
            sh    == Sighash(output, request.utxo)
<1>1. musig = [group |-> ctx.tapkey, pnonces |-> pns,
               tweak |-> [cvid |-> cvid, pnonces |-> pns, sighash |-> sh], msg |-> sh]
  BY DEF CovenantSession, CovenantTweak
<1>2. ctx.tapkey = GroupOf(DepositHash(request))
  BY GroupIsTapkey
<1>. QED  BY <1>1, <1>2 DEF Determined

\* One nonce, one session.
LEMMA NonceDetermines ==
    ASSUME NEW p, NEW q, Determined(p.musig), Determined(q.musig), Nonce(p) = Nonce(q)
    PROVE  p.musig = q.musig
<1>1. p.musig.tweak = q.musig.tweak
  BY DEF Nonce, TweakPnonce
<1>. QED  BY <1>1 DEF Determined

-----------------------------------------------------------------------------
\* Requests that differ in what no signature covers.
SameRequest(r, q) ==
    /\ r.deposit_pk = q.deposit_pk /\ r.locktime = q.locktime
    /\ r.return_addr = q.return_addr /\ r.agent_tkn = q.agent_tkn
    /\ r.return_rate = q.return_rate /\ r.utxo = q.utxo

LEMMA SameHash ==
    ASSUME NEW r, NEW q, SameRequest(r, q)
    PROVE  DepositHash(r) = DepositHash(q) /\ GetAccountCtx(r) = GetAccountCtx(q)
BY DEF SameRequest, DepositHash, AccountHash, GetAccountCtx

LEMMA SameChecks ==
    ASSUME NEW r, NEW q, SameRequest(r, q), NEW device
    PROVE  /\ VerifySessionToken(r, device) => VerifySessionToken(q, device)
           /\ VerifyUtxo(r) => VerifyUtxo(q)
BY SameHash DEF SameRequest, VerifySessionToken, VerifyUtxo, AccountAgent, AccountHash

LEMMA SameCovenant ==
    ASSUME NEW r, NEW q, SameRequest(r, q), NEW cid, NEW outputs, NEW signer
    PROVE  CreateCovenant(cid, outputs, r, signer) = CreateCovenant(cid, outputs, q, signer)
<1>1. CovenantId(cid, r, outputs) = CovenantId(cid, q, outputs)
  BY SameHash DEF CovenantId
<1>2. r.utxo = q.utxo
  BY DEF SameRequest
<1>3. \A cvid, pnonce : CovenantSessions(cvid, outputs, pnonce, r)
                          = CovenantSessions(cvid, outputs, pnonce, q)
  BY <1>2, SameHash DEF CovenantSessions
<1>. QED  BY <1>1, <1>3 DEF CreateCovenant

\* A covenant has a determined session for each of its paths.
LEMMA CovenantDetermined ==
    ASSUME NEW cid, NEW outputs, NEW request, NEW signer, NEW path \in DOMAIN outputs
    PROVE  Determined(CreateCovenant(cid, outputs, request, signer).psigs[path].musig)
<1>. DEFINE cvid     == CovenantId(cid, request, outputs)
            pnonce   == SessionPnonce(cvid, signer)
            session  == CovenantSession(GetAccountCtx(request), cvid, outputs[path],
                                        pnonce, request.utxo)
<1>1. CreateCovenant(cid, outputs, request, signer).psigs[path] = CreateCovenantPsig(session, signer)
  BY DEF CreateCovenant, CovenantSessions
<1>2. CreateCovenantPsig(session, signer).musig = session.musig
  BY DEF CreateCovenantPsig, Musign
<1>3. Determined(session.musig)
  BY Subjects, SessionDetermined
<1>. QED  BY <1>1, <1>2, <1>3

LEMMA ReturnDetermined ==
    ASSUME NEW request, NEW signer
    PROVE  Determined(CreateReturnPsig(request, signer).psig.musig)
<1>. DEFINE pnonce  == SessionPnonce(DepositHash(request), signer)
            session == ReturnSession(pnonce, request, ReturnTemplate(request))
<1>1. CreateReturnPsig(request, signer).psig.musig = session.musig
  BY DEF CreateReturnPsig, CreateCovenantPsig, Musign
<1>2. Determined(session.musig)
  BY Subjects, SessionDetermined DEF ReturnSession
<1>. QED  BY <1>1, <1>2

-----------------------------------------------------------------------------
\* A funder's signature of a session and the agent's are a signature of the
\* output, if the account's token is the agent's and the output pays to it.
LEMMA SessionCompletes ==
    ASSUME NEW request, NEW device, NEW cvid, NEW output,
           VerifySessionToken(request, device), VerifyUtxo(request)
    PROVE  LET pnonce  == SessionPnonce(cvid, request.deposit_pk)
               session == CovenantSession(GetAccountCtx(request), cvid, output, pnonce,
                                          request.utxo)
           IN  SigValid({CreateCovenantPsig(session, request.deposit_pk),
                         SettleCovenantPsig(session, AccountAgent(request, device))},
                        request.utxo.addr, Sighash(output, request.utxo))
<1>. DEFINE funder  == request.deposit_pk
            agent   == AccountAgent(request, device)
            token   == request.agent_tkn
            ctx     == GetAccountCtx(request)
            pnonce  == SessionPnonce(cvid, funder)
            session == CovenantSession(ctx, cvid, output, pnonce, request.utxo)
            musig   == session.musig
            p       == CreateCovenantPsig(session, funder)
            q       == SettleCovenantPsig(session, agent)
<1>1. /\ ctx.session = token
      /\ ctx.tapkey.members = {funder, token.pk}
      /\ request.utxo.addr = ctx.tapkey
  BY DEF GetAccountCtx, AccountCtx, Tapkey, VerifyUtxo
<1>2. token.pk = agent /\ token.pn = SessionPnonce(SessionSeed(token.id, agent), agent)
  BY DEF VerifySessionToken
<1>3. /\ session.cvid = cvid /\ session.token = token
      /\ musig.group = ctx.tapkey
      /\ musig.pnonces = {pnonce, token.pn}
      /\ musig.msg = Sighash(output, request.utxo)
  BY <1>1 DEF CovenantSession
<1>4. /\ p.key = funder /\ p.pnonce = pnonce /\ p.musig = musig
      /\ q.key = agent /\ q.pnonce = token.pn /\ q.musig = musig
  BY <1>2, <1>3 DEF CreateCovenantPsig, SettleCovenantPsig, Musign
<1>. HIDE DEF p, q, session, ctx, agent, pnonce
<1>5. VerifyPsig(musig, p) /\ VerifyPsig(musig, q)
  BY <1>1, <1>2, <1>3, <1>4 DEF VerifyPsig, Nonce, TweakPnonces
<1>6. /\ {psig.key : psig \in {p, q}} = request.utxo.addr.members
      /\ {psig.pnonce : psig \in {p, q}} = musig.pnonces
  BY <1>1, <1>2, <1>3, <1>4
<1>7. SigValid({p, q}, request.utxo.addr, Sighash(output, request.utxo))
  <2>1. musig \in {psig.musig : psig \in {p, q}}
    BY <1>4
  <2>. QED  BY <2>1, <1>1, <1>3, <1>5, <1>6 DEF SigValid
<1>. QED  BY <1>7 DEF p, q, session, ctx, agent, pnonce

\* The agent completes a covenant that was made of the same request.
LEMMA CovenantCompletes ==
    ASSUME NEW request, NEW device, NEW cid, NEW outputs, NEW path \in DOMAIN outputs,
           VerifySessionToken(request, device), VerifyUtxo(request)
    PROVE  LET covenant == CreateCovenant(cid, outputs, request, request.deposit_pk)
               sig      == SettleCovenant(cid, outputs, request, covenant, path, device)
           IN  /\ SigValid(sig, request.utxo.addr, Sighash(outputs[path], request.utxo))
               /\ \A p \in sig : Determined(p.musig)
<1>. DEFINE funder   == request.deposit_pk
            agent    == AccountAgent(request, device)
            cvid     == CovenantId(cid, request, outputs)
            pnonce   == SessionPnonce(cvid, funder)
            session  == CovenantSession(GetAccountCtx(request), cvid, outputs[path],
                                        pnonce, request.utxo)
            covenant == CreateCovenant(cid, outputs, request, funder)
            p        == CreateCovenantPsig(session, funder)
            q        == SettleCovenantPsig(session, agent)
<1>1. covenant.pnonce = pnonce /\ covenant.psigs[path] = p
  BY DEF CreateCovenant, CovenantSessions
<1>2. SettleCovenant(cid, outputs, request, covenant, path, device) = {p, q}
  BY <1>1 DEF SettleCovenant, CombinePsigs
<1>3. SigValid({p, q}, request.utxo.addr, Sighash(outputs[path], request.utxo))
  BY SessionCompletes
<1>4. Determined(session.musig)
  BY Subjects, SessionDetermined
<1>5. p.musig = session.musig /\ q.musig = session.musig
  BY DEF CreateCovenantPsig, SettleCovenantPsig, Musign
<1>. QED  BY <1>2, <1>3, <1>4, <1>5

\* The agent completes a return that was made of the same request.
LEMMA ReturnCompletes ==
    ASSUME NEW request, NEW device,
           VerifySessionToken(request, device), VerifyUtxo(request)
    PROVE  LET tx == GetReturnTx(request, CreateReturnPsig(request, request.deposit_pk), device)
           IN  \A in \in tx.vin :
                 /\ SigValid(in.sig, in.utxo.addr, Sighash(tx.output, in.utxo))
                 /\ \A p \in in.sig : Determined(p.musig)
<1>. DEFINE funder  == request.deposit_pk
            agent   == AccountAgent(request, device)
            cvid    == DepositHash(request)
            pnonce  == SessionPnonce(cvid, funder)
            output  == ReturnTemplate(request)
            session == CovenantSession(GetAccountCtx(request), cvid, output, pnonce,
                                       request.utxo)
            p       == CreateCovenantPsig(session, funder)
            q       == SettleCovenantPsig(session, agent)
            tx      == GetReturnTx(request, CreateReturnPsig(request, funder), device)
<1>1. /\ CreateReturnPsig(request, funder).pnonce = pnonce
      /\ CreateReturnPsig(request, funder).psig = p
  BY DEF CreateReturnPsig, ReturnSession
<1>2. tx.output = output /\ tx.vin = {[utxo |-> request.utxo, sig |-> {p, q}]}
  BY <1>1 DEF GetReturnTx, ReturnSession, CombinePsigs
<1>3. SigValid({p, q}, request.utxo.addr, Sighash(output, request.utxo))
  BY SessionCompletes
<1>4. Determined(session.musig)
  BY Subjects, SessionDetermined
<1>5. p.musig = session.musig /\ q.musig = session.musig
  BY DEF CreateCovenantPsig, SettleCovenantPsig, Musign
<1>. HIDE DEF p, q, output
<1>. QED  BY <1>2, <1>3, <1>4, <1>5

-----------------------------------------------------------------------------
(* The records of the agent. *)

DepositNames == DepositFields \cup {"status"}
ContractNames == ContractFields \cup {"status"}

LEMMA Names ==
    /\ DepositNames = {"confirmed", "locked", "covenant", "locked_sig", "closed",
                       "closed_sig", "spent", "spent_txid", "spent_sig", "settled",
                       "spent_block", "settled_sig", "created_sig", "status"}
    /\ ContractNames = Totals \cup
         {"canceled", "canceled_sig", "secured", "secured_sig", "activated", "active_sig",
          "machine_head", "closed", "closed_sig", "machine_vout", "spent", "spent_txid",
          "spent_sig", "settled", "spent_block", "settled_sig", "created_sig", "status"}
    /\ Totals = {"funds_conf", "funds_pend", "tx_fees", "tx_total", "tx_vsize", "vin_count"}
BY DEF DepositNames, DepositFields, ContractNames, ContractFields, Totals,
   INIT_CONF_STATE, INIT_LOCK_STATE, INIT_RETURN_STATE, INIT_PUBLISH_STATE,
   INIT_CANCEL_STATE, INIT_FUNDING_STATE, INIT_ACTIVE_STATE, INIT_CLOSE_STATE,
   INIT_SPEND_STATE, INIT_SETTLE_STATE

-----------------------------------------------------------------------------
(* The inductive invariant, in parts *)

\* What verify_register_req() has checked of the registration of a deposit.
RequestsOK ==
    /\ DOMAIN requests = Made
    /\ \A u \in Made : VerifySessionToken(requests[u], Device) /\ VerifyUtxo(requests[u])

\* The covenant a funder makes for contract c of what it registered.
CovenantOf(u, c) == CreateCovenant(c, Outputs[c], requests[u], requests[u].deposit_pk)

LockedFor(d, u, c) == d.locked = TRUE /\ d.covenant = CovenantOf(u, c)

\* The deposits of a contract are locked with its covenant.
FundsLocked ==
    /\ \A u \in Made : DOMAIN deposits[u] = DepositNames
    /\ DOMAIN funding = Contracts
    /\ \A c \in Contracts : \A u \in funding[c] : u \in Made /\ LockedFor(deposits[u], u, c)

\* A closed contract has an output among its own.
OutputOK(contract, c) ==
    /\ DOMAIN contract = ContractNames
    /\ contract.status = "closed" => contract.machine_vout \in DOMAIN Outputs[c]

ContractsOK ==
    /\ DOMAIN contracts = Contracts
    /\ \A c \in Contracts : OutputOK(contracts[c], c)

TxDetermined(tx) == \A in \in tx.vin : \A p \in in.sig : Determined(p.musig)

TxsOK == \A tx \in txs : TxDetermined(tx) /\ TxValid(tx)

IInv == RequestsOK /\ FundsLocked /\ ContractsOK /\ TxsOK

-----------------------------------------------------------------------------
(* What the operations of a record leave of it *)

LEMMA DepositKeeps ==
    ASSUME NEW d, DOMAIN d = DepositNames
    PROVE  \A e \in {ConfirmDeposit(d), CloseDeposit(d)} \cup {SpendDeposit(d, "return")} :
             DOMAIN e = DepositNames /\ e.locked = d.locked /\ e.covenant = d.covenant
BY Names DEF ConfirmDeposit, CloseDeposit, SpendDeposit

LEMMA LockKeeps ==
    ASSUME NEW d, NEW covenant, DOMAIN d = DepositNames
    PROVE  /\ DOMAIN LockDeposit(d, covenant) = DepositNames
           /\ LockDeposit(d, covenant).locked = TRUE
           /\ LockDeposit(d, covenant).covenant = covenant
BY Names DEF LockDeposit

LEMMA ReleaseKeeps ==
    ASSUME NEW d, DOMAIN d = DepositNames
    PROVE  DOMAIN ReleaseDeposit(d) = DepositNames
BY DEF ReleaseDeposit

LEMMA CreateKeeps ==
    ASSUME NEW covenant
    PROVE  DOMAIN CreateDeposit(covenant) = DepositNames
BY DEF CreateDeposit, DepositNames

LEMMA FundsKeep ==
    ASSUME NEW contract, NEW c, OutputOK(contract, c), NEW confirmed, NEW value
    PROVE  /\ OutputOK(AddContractFunds(contract, confirmed, value), c)
           /\ OutputOK(ConfirmContractFunds(contract, value), c)
           /\ OutputOK(RemContractFunds(contract, confirmed, value), c)
<1>1. OutputOK(AddContractFunds(contract, confirmed, value), c)
  BY Names DEF OutputOK, AddContractFunds
<1>2. OutputOK(ConfirmContractFunds(contract, value), c)
  BY Names DEF OutputOK, AddContractFunds, ConfirmContractFunds
<1>3. OutputOK(RemContractFunds(contract, confirmed, value), c)
  BY Names DEF OutputOK, RemContractFunds
<1>. QED  BY <1>1, <1>2, <1>3

LEMMA StagesKeep ==
    ASSUME NEW contract, NEW c, OutputOK(contract, c), NEW count, NEW sum, NEW txid
    PROVE  /\ OutputOK(CancelContract(contract), c)
           /\ OutputOK(SecureContract(contract, count, sum), c)
           /\ OutputOK(ActivateContract(contract, 0), c)
           /\ OutputOK(SpendContract(contract, txid), c)
<1>1. OutputOK(CancelContract(contract), c)
  BY Names DEF OutputOK, CancelContract
<1>2. OutputOK(SecureContract(contract, count, sum), c)
  BY Names DEF OutputOK, SecureContract
<1>3. OutputOK(ActivateContract(contract, 0), c)
  BY Names DEF OutputOK, ActivateContract
<1>4. OutputOK(SpendContract(contract, txid), c)
  BY Names DEF OutputOK, SpendContract
<1>. QED  BY <1>1, <1>2, <1>3, <1>4

LEMMA CloseKeeps ==
    ASSUME NEW contract, NEW c, OutputOK(contract, c), NEW path \in DOMAIN Outputs[c]
    PROVE  OutputOK(CloseContract(contract, [head |-> 1, closed |-> TRUE,
                                             output |-> path]), c)
BY Names DEF OutputOK, CloseContract

-----------------------------------------------------------------------------
(* Steps *)

LEMMA Initially == Init => IInv
<1>. SUFFICES ASSUME Init PROVE IInv
  OBVIOUS
<1>1. RequestsOK /\ FundsLocked /\ TxsOK
  BY DEF Init, RequestsOK, FundsLocked, TxsOK, Made
<1>2. DOMAIN CreateContract = ContractNames /\ CreateContract.status = "published"
  BY Names DEF CreateContract, ContractNames
<1>3. ContractsOK
  BY <1>2 DEF Init, ContractsOK, OutputOK
<1>. QED  BY <1>1, <1>3 DEF IInv

\* A step of one deposit that has been made.
LEMMA DepositStep ==
    ASSUME RequestsOK, FundsLocked, NEW u \in Made, NEW d, DOMAIN d = DepositNames,
           deposits' = [deposits EXCEPT ![u] = d], requests' = requests,
           DOMAIN funding' = Contracts,
           \A c \in Contracts : \A v \in funding'[c] :
              (v # u /\ v \in funding[c]) \/ (v = u /\ LockedFor(d, u, c))
    PROVE  RequestsOK' /\ FundsLocked'
<1>1. Made' = Made
  BY DEF Made
<1>2. RequestsOK'
  BY <1>1 DEF RequestsOK
<1>3. deposits'[u] = d /\ \A v \in Made : v # u => deposits'[v] = deposits[v]
  BY DEF Made
<1>4. \A v \in Made : DOMAIN deposits'[v] = DepositNames
  BY <1>3 DEF FundsLocked
<1>5. \A v, c : CovenantOf(v, c)' = CovenantOf(v, c)
  BY DEF CovenantOf
<1>6. \A c \in Contracts : \A v \in funding'[c] :
         v \in Made /\ LockedFor(deposits[v], v, c)'
  BY <1>3, <1>5 DEF FundsLocked, LockedFor
<1>. QED  BY <1>1, <1>2, <1>4, <1>6 DEF FundsLocked, LockedFor

\* A new deposit funds no contract, or one its funder has signed a covenant for.
FundsGrow(u, deposit, request) ==
    /\ DOMAIN funding' = Contracts
    /\ \A c \in Contracts : \A v \in funding'[c] :
         \/ v \in funding[c]
         \/ /\ v = u /\ deposit.locked = TRUE
            /\ deposit.covenant =
                 CreateCovenant(c, Outputs[c], request, request.deposit_pk)

\* A deposit is made of a request the agent has verified.
LEMMA NewDeposit ==
    ASSUME RequestsOK, FundsLocked, NEW u, NEW deposit, DOMAIN deposit = DepositNames,
           NEW account, NEW rate, NEW utxo,
           VerifyRegisterReq(CreateRegistration(account, rate, utxo)),
           MakeDeposit(u, CreateRegistration(account, rate, utxo), deposit),
           FundsGrow(u, deposit, CreateRegistration(account, rate, utxo))
    PROVE  RequestsOK' /\ FundsLocked'
<1>. DEFINE request == CreateRegistration(account, rate, utxo)
            stored  == [request EXCEPT !.deposit_addr = GetAccountCtx(request).deposit_addr]
<1>1. SameRequest(request, stored) /\ request.deposit_pk = account.deposit_pk
  BY DEF SameRequest, CreateRegistration
<1>2. /\ u \notin Made /\ Made' = Made \cup {u}
      /\ requests'[u] = stored /\ deposits'[u] = deposit
      /\ DOMAIN requests' = Made'
      /\ \A v \in Made : requests'[v] = requests[v] /\ deposits'[v] = deposits[v]
  BY DEF MakeDeposit, With, Made, RequestsOK
<1>. HIDE DEF stored, request
<1>3. VerifySessionToken(stored, Device) /\ VerifyUtxo(stored)
  BY <1>1, SameChecks DEF VerifyRegisterReq, request
<1>4. RequestsOK'
  BY <1>2, <1>3 DEF RequestsOK
<1>5. \A v \in Made : \A c : CovenantOf(v, c)' = CovenantOf(v, c)
  BY <1>2 DEF CovenantOf
<1>6. \A c : CovenantOf(u, c)' = CreateCovenant(c, Outputs[c], stored, stored.deposit_pk)
  BY <1>2 DEF CovenantOf
<1>7. stored.deposit_pk = account.deposit_pk
  BY <1>1 DEF SameRequest
<1>8. \A c : CreateCovenant(c, Outputs[c], stored, account.deposit_pk)
               = CreateCovenant(c, Outputs[c], request, account.deposit_pk)
  BY <1>1, SameCovenant
<1>grow. FundsGrow(u, deposit, request)
  BY DEF request
<1>9. \A c \in Contracts : \A v \in funding'[c] : v \in Made' /\ LockedFor(deposits[v], v, c)'
  <2>. SUFFICES ASSUME NEW c \in Contracts, NEW v \in funding'[c]
                PROVE  v \in Made' /\ LockedFor(deposits[v], v, c)'
    OBVIOUS
  <2>1. CASE v \in funding[c]
    BY <2>1, <1>2, <1>5 DEF FundsLocked, LockedFor
  <2>2. CASE v = u /\ deposit.locked = TRUE
             /\ deposit.covenant = CreateCovenant(c, Outputs[c], request, request.deposit_pk)
    BY <2>2, <1>1, <1>2, <1>6, <1>7, <1>8 DEF LockedFor, request
  <2>. QED  BY <2>1, <2>2, <1>grow DEF FundsGrow
<1>10. \A v \in Made' : DOMAIN deposits'[v] = DepositNames
  BY <1>2 DEF FundsLocked
<1>. QED  BY <1>4, <1>9, <1>10, <1>grow DEF FundsGrow, FundsLocked, LockedFor

\* A step of one contract.
LEMMA OneContract ==
    ASSUME ContractsOK, NEW c \in Contracts, NEW contract, OutputOK(contract, c),
           contracts' = [contracts EXCEPT ![c] = contract]
    PROVE  ContractsOK'
BY DEF ContractsOK, OutputOK

-----------------------------------------------------------------------------
(* One lemma for each operation that changes what the invariant is about *)

LEMMA RegisterOK ==
    ASSUME IInv, NEW u \in Utxos, NEW request \in RegisterReqs(u), Register(u, request)
    PROVE  IInv'
<1>1. PICK account, rate, utxo : request = CreateRegistration(account, rate, utxo)
  BY DEF RegisterReqs
<1>2. /\ VerifyRegisterReq(CreateRegistration(account, rate, utxo))
      /\ MakeDeposit(u, CreateRegistration(account, rate, utxo), CreateDeposit(Null))
      /\ UNCHANGED <<contracts, funding, txs>>
  BY <1>1 DEF Register
<1>3. RequestsOK' /\ FundsLocked'
  <2>1. FundsGrow(u, CreateDeposit(Null), CreateRegistration(account, rate, utxo))
    BY <1>2 DEF FundsGrow, IInv, FundsLocked
  <2>. QED  BY <1>2, <2>1, NewDeposit, CreateKeeps DEF IInv
<1>4. ContractsOK' /\ TxsOK'
  BY <1>2 DEF IInv, ContractsOK, OutputOK, TxsOK, TxDetermined, TxValid
<1>. QED  BY <1>3, <1>4 DEF IInv

LEMMA CommitOK ==
    ASSUME IInv, NEW u \in Utxos, NEW s \in Contracts, NEW c \in Contracts,
           NEW commit \in CommitReqs(u, s), Commit(u, commit, c)
    PROVE  IInv'
<1>1. PICK request \in RegisterReqs(u) : commit = CreateCommitReq(s, Outputs[s], request)
  BY DEF CommitReqs
<1>2. PICK account, rate, utxo : request = CreateRegistration(account, rate, utxo)
  BY <1>1 DEF RegisterReqs
<1>. DEFINE covenant == CreateCovenant(s, Outputs[s], request, request.deposit_pk)
            deposit  == LockDeposit(CreateDeposit(covenant), covenant)
<1>3. commit.registration = request /\ commit.covenant = covenant
  BY <1>1 DEF CreateCommitReq
<1>4. covenant.cid = s
  BY DEF CreateCovenant
<1>5. /\ s = c
      /\ VerifyRegisterReq(request)
      /\ MakeDeposit(u, request, deposit)
      /\ contracts' = [contracts EXCEPT ![c] = AddContractFunds(contracts[c], FALSE, Value[u])]
      /\ funding' = [funding EXCEPT ![c] = funding[c] \cup {u}]
      /\ UNCHANGED txs
  BY <1>3, <1>4 DEF Commit, VerifyCovenant
<1>6. /\ DOMAIN deposit = DepositNames /\ deposit.locked = TRUE
      /\ deposit.covenant = covenant
  BY LockKeeps, CreateKeeps
<1>. HIDE DEF deposit, covenant
<1>8. FundsGrow(u, deposit, request)
  BY <1>5, <1>6 DEF IInv, FundsLocked, FundsGrow, covenant
<1>9. RequestsOK' /\ FundsLocked'
  <2>1. /\ VerifyRegisterReq(CreateRegistration(account, rate, utxo))
        /\ MakeDeposit(u, CreateRegistration(account, rate, utxo), deposit)
        /\ FundsGrow(u, deposit, CreateRegistration(account, rate, utxo))
    BY <1>2, <1>5, <1>8
  <2>2. RequestsOK /\ FundsLocked
    BY DEF IInv
  <2>3. DOMAIN deposit = DepositNames
    BY <1>6
  <2>. QED  BY <2>1, <2>2, <2>3, NewDeposit
<1>10. ContractsOK'
  BY <1>5, OneContract, FundsKeep DEF IInv, ContractsOK
<1>11. TxsOK'
  BY <1>5 DEF IInv, TxsOK, TxDetermined, TxValid
<1>. QED  BY <1>9, <1>10, <1>11 DEF IInv

LEMMA ConfirmOK ==
    ASSUME IInv, NEW u \in Utxos, Confirm(u)
    PROVE  IInv'
<1>. DEFINE d == ConfirmDeposit(deposits[u])
<1>1. /\ u \in Made
      /\ deposits' = [deposits EXCEPT ![u] = d]
      /\ UNCHANGED <<requests, funding, txs>>
  BY DEF Confirm
<1>2. /\ DOMAIN d = DepositNames
      /\ d.locked = deposits[u].locked /\ d.covenant = deposits[u].covenant
  BY <1>1, DepositKeeps DEF IInv, FundsLocked
<1>. HIDE DEF d
<1>3. \A c \in Contracts : \A v \in funding'[c] :
         (v # u /\ v \in funding[c]) \/ (v = u /\ LockedFor(d, u, c))
  BY <1>1, <1>2 DEF IInv, FundsLocked, LockedFor
<1>4. RequestsOK' /\ FundsLocked'
  BY <1>1, <1>2, <1>3, DepositStep DEF IInv, FundsLocked
<1>5. ContractsOK'
  <2>1. contracts' = [c \in Contracts |->
           IF u \in funding[c] THEN ConfirmContractFunds(contracts[c], Value[u])
           ELSE contracts[c]]
    BY DEF Confirm
  <2>2. \A c \in Contracts : OutputOK(contracts'[c], c)
    BY <2>1, FundsKeep DEF IInv, ContractsOK
  <2>. QED  BY <2>1, <2>2 DEF ContractsOK, OutputOK
<1>6. TxsOK'
  BY <1>1 DEF IInv, TxsOK, TxDetermined, TxValid
<1>. QED  BY <1>4, <1>5, <1>6 DEF IInv

LEMMA LockOK ==
    ASSUME IInv, NEW u \in Utxos, NEW s \in Contracts, NEW c \in Contracts, Lock(u, s, c)
    PROVE  IInv'
<1>. DEFINE covenant == CreateCovenant(s, Outputs[s], requests[u], requests[u].deposit_pk)
            d        == LockDeposit(deposits[u], covenant)
<1>1. covenant.cid = s
  BY DEF CreateCovenant
<1>2. CreateLockReq(s, Outputs[s], requests[u]).covenant = covenant
  BY DEF CreateLockReq
<1>3. /\ u \in Made /\ s = c
      /\ ~deposits[u].locked
      /\ deposits' = [deposits EXCEPT ![u] = d]
      /\ contracts' = [contracts EXCEPT ![c] = AddContractFunds(contracts[c], TRUE, Value[u])]
      /\ funding' = [funding EXCEPT ![c] = funding[c] \cup {u}]
      /\ UNCHANGED <<requests, txs>>
  BY <1>1, <1>2 DEF Lock, VerifyCovenant, CanLock
<1>4. \A e \in Contracts : u \notin funding[e]
  BY <1>3 DEF IInv, FundsLocked, LockedFor
<1>5. DOMAIN d = DepositNames /\ LockedFor(d, u, c)
  <2>1. DOMAIN deposits[u] = DepositNames
    BY <1>3 DEF IInv, FundsLocked
  <2>2. covenant = CovenantOf(u, s)
    BY DEF CovenantOf
  <2>. HIDE DEF covenant
  <2>. QED
    BY <1>3, <2>1, <2>2, LockKeeps DEF LockedFor
<1>. HIDE DEF d
<1>6. /\ DOMAIN funding' = Contracts
      /\ \A e \in Contracts : \A v \in funding'[e] :
           (v # u /\ v \in funding[e]) \/ (v = u /\ LockedFor(d, u, e))
  BY <1>3, <1>4, <1>5 DEF IInv, FundsLocked
<1>7. RequestsOK' /\ FundsLocked'
  BY <1>3, <1>5, <1>6, DepositStep DEF IInv
<1>8. ContractsOK'
  BY <1>3, OneContract, FundsKeep DEF IInv, ContractsOK
<1>9. TxsOK'
  BY <1>3 DEF IInv, TxsOK, TxDetermined, TxValid
<1>. QED  BY <1>7, <1>8, <1>9 DEF IInv

LEMMA WithdrawOK ==
    ASSUME IInv, NEW u \in Utxos, NEW c \in Contracts, Withdraw(u, c)
    PROVE  IInv'
<1>. DEFINE d        == ReleaseDeposit(deposits[u])
            contract == RemContractFunds(contracts[c], deposits[u].confirmed, Value[u])
<1>1. /\ u \in funding[c]
      /\ deposits' = [deposits EXCEPT ![u] = d]
      /\ contracts' = [contracts EXCEPT ![c] = contract]
      /\ funding' = [funding EXCEPT ![c] = funding[c] \ {u}]
      /\ UNCHANGED <<requests, txs>>
  BY DEF Withdraw
<1>2. u \in Made /\ DOMAIN d = DepositNames
  BY <1>1, ReleaseKeeps DEF IInv, FundsLocked
<1>3. \A e \in Contracts : u \in funding[e] => e = c
  <2>1. \A e : CovenantOf(u, e).cid = e
    BY DEF CovenantOf, CreateCovenant
  <2>. QED  BY <2>1, <1>1 DEF IInv, FundsLocked, LockedFor
<1>. HIDE DEF d, contract
<1>4. /\ DOMAIN funding' = Contracts
      /\ \A e \in Contracts : \A v \in funding'[e] : v # u /\ v \in funding[e]
  BY <1>1, <1>3 DEF IInv, FundsLocked
<1>5. RequestsOK' /\ FundsLocked'
  BY <1>1, <1>2, <1>4, DepositStep DEF IInv
<1>6. OutputOK(contract, c)
  BY FundsKeep DEF IInv, ContractsOK, contract
<1>7. ContractsOK'
  BY <1>1, <1>6, OneContract DEF IInv
<1>8. TxsOK'
  BY <1>1 DEF IInv, TxsOK, TxDetermined, TxValid
<1>. QED  BY <1>5, <1>7, <1>8 DEF IInv

\* The return of a deposit is completed, by a close or after the fact.
LEMMA ReturnedOK ==
    ASSUME IInv, NEW u \in Made, NEW d, DOMAIN d = DepositNames,
           d.locked = deposits[u].locked, d.covenant = deposits[u].covenant,
           deposits' = [deposits EXCEPT ![u] = d],
           txs' = txs \cup {GetReturnTx(requests[u],
                              CreateReturnPsig(requests[u], requests[u].deposit_pk), Device)},
           UNCHANGED <<requests, contracts, funding>>
    PROVE  IInv'
<1>1. \A c \in Contracts : \A v \in funding'[c] :
         (v # u /\ v \in funding[c]) \/ (v = u /\ LockedFor(d, u, c))
  BY DEF IInv, FundsLocked, LockedFor
<1>2. RequestsOK' /\ FundsLocked'
  BY <1>1, DepositStep DEF IInv, FundsLocked
<1>3. ContractsOK'
  BY DEF IInv, ContractsOK, OutputOK
<1>. DEFINE tx == GetReturnTx(requests[u], CreateReturnPsig(requests[u], requests[u].deposit_pk),
                              Device)
<1>4. VerifySessionToken(requests[u], Device) /\ VerifyUtxo(requests[u])
  BY DEF IInv, RequestsOK
<1>5. TxDetermined(tx) /\ TxValid(tx)
  BY <1>4, ReturnCompletes DEF TxDetermined, TxValid
<1>. HIDE DEF tx
<1>6. TxsOK'
  BY <1>5 DEF IInv, TxsOK, tx
<1>. QED  BY <1>2, <1>3, <1>6 DEF IInv

LEMMA CloseOK ==
    ASSUME IInv, NEW u \in Utxos, NEW rate \in Rates, Close(u, rate)
    PROVE  IInv'
<1>. DEFINE d == CloseDeposit(deposits[u])
<1>1. CreateCloseReq(requests[u], rate).return_psig
        = CreateReturnPsig(requests[u], requests[u].deposit_pk)
  BY DEF CreateCloseReq
<1>2. /\ u \in Made
      /\ deposits' = [deposits EXCEPT ![u] = d]
      /\ txs' = txs \cup {GetReturnTx(requests[u],
                            CreateReturnPsig(requests[u], requests[u].deposit_pk), Device)}
      /\ UNCHANGED <<requests, contracts, funding>>
  BY <1>1 DEF Close
<1>3. /\ DOMAIN d = DepositNames
      /\ d.locked = deposits[u].locked /\ d.covenant = deposits[u].covenant
  BY <1>2, DepositKeeps DEF IInv, FundsLocked
<1>. QED  BY <1>2, <1>3, ReturnedOK

LEMMA ReturnOK ==
    ASSUME IInv, NEW u \in Utxos, Return(u)
    PROVE  IInv'
<1>. DEFINE d == SpendDeposit(deposits[u], "return")
<1>1. /\ u \in Made
      /\ deposits' = [deposits EXCEPT ![u] = d]
      /\ txs' = txs \cup {GetReturnTx(requests[u],
                            CreateReturnPsig(requests[u], requests[u].deposit_pk), Device)}
      /\ UNCHANGED <<requests, contracts, funding>>
  BY DEF Return
<1>2. /\ DOMAIN d = DepositNames
      /\ d.locked = deposits[u].locked /\ d.covenant = deposits[u].covenant
  BY <1>1, DepositKeeps DEF IInv, FundsLocked
<1>. QED  BY <1>1, <1>2, ReturnedOK

\* A contract moves on, and nothing else does but the transactions.
LEMMA MoveOK ==
    ASSUME IInv, NEW c \in Contracts, NEW contract, OutputOK(contract, c), Move(c, contract)
    PROVE  RequestsOK' /\ FundsLocked' /\ ContractsOK'
<1>1. contracts' = [contracts EXCEPT ![c] = contract] /\ UNCHANGED <<requests, deposits, funding>>
  BY DEF Move
<1>2. RequestsOK' /\ FundsLocked'
  BY <1>1 DEF IInv, RequestsOK, FundsLocked, Made, LockedFor, CovenantOf
<1>3. ContractsOK'
  BY <1>1, OneContract DEF IInv
<1>. QED  BY <1>2, <1>3

LEMMA SpendOK ==
    ASSUME IInv, NEW c \in Contracts, Spend(c)
    PROVE  IInv'
<1>. DEFINE tx   == SettlementTx(c)
            path == contracts[c].machine_vout
<1>1. /\ OutputOK(contracts[c], c)
      /\ path \in DOMAIN Outputs[c]
      /\ txs' = txs \cup {tx}
      /\ Move(c, SpendContract(contracts[c], path))
  BY DEF Spend, IInv, ContractsOK, OutputOK
<1>2. OutputOK(SpendContract(contracts[c], path), c)
  BY <1>1, StagesKeep
<1>3. RequestsOK' /\ FundsLocked' /\ ContractsOK'
  BY <1>1, <1>2, MoveOK
<1>4. tx.output = Outputs[c][path]
  BY DEF SettlementTx
<1>5. ASSUME NEW in \in tx.vin
      PROVE  /\ SigValid(in.sig, in.utxo.addr, Sighash(tx.output, in.utxo))
             /\ \A p \in in.sig : Determined(p.musig)
  <2>1. PICK u \in funding[c] :
          in = [utxo |-> requests[u].utxo,
                sig  |-> SettleCovenant(c, Outputs[c], requests[u], deposits[u].covenant,
                                        path, Device)]
    BY DEF SettlementTx
  <2>2. /\ VerifySessionToken(requests[u], Device) /\ VerifyUtxo(requests[u])
        /\ deposits[u].covenant = CovenantOf(u, c)
    BY DEF IInv, RequestsOK, FundsLocked, LockedFor
  <2>3. /\ SigValid(in.sig, requests[u].utxo.addr,
                    Sighash(Outputs[c][path], requests[u].utxo))
        /\ \A p \in in.sig : Determined(p.musig)
    BY <1>1, <2>1, <2>2, CovenantCompletes DEF CovenantOf
  <2>. QED  BY <1>4, <2>1, <2>3
<1>6. TxDetermined(tx) /\ TxValid(tx)
  BY <1>5 DEF TxDetermined, TxValid
<1>. HIDE DEF tx
<1>7. TxsOK'
  BY <1>1, <1>6 DEF IInv, TxsOK, TxDetermined, TxValid
<1>. QED  BY <1>3, <1>7 DEF IInv

LEMMA ContractStepOK == ASSUME IInv, ContractStep PROVE IInv'
<1>1. PICK c \in Contracts :
        \/ Cancel(c) \/ Secure(c) \/ Activate(c) \/ Spend(c)
        \/ \E path \in DOMAIN Outputs[c] : CloseWithOutput(c, path)
  BY DEF ContractStep
<1>2. OutputOK(contracts[c], c)
  BY DEF IInv, ContractsOK
<1>3. ASSUME NEW contract, OutputOK(contract, c), Move(c, contract), UNCHANGED txs
      PROVE  IInv'
  BY <1>3, MoveOK DEF IInv, TxsOK, TxDetermined, TxValid
<1>4. CASE Cancel(c)
  BY <1>2, <1>3, <1>4, StagesKeep DEF Cancel
<1>5. CASE Secure(c)
  BY <1>2, <1>3, <1>5, StagesKeep DEF Secure
<1>6. CASE Activate(c)
  BY <1>2, <1>3, <1>6, StagesKeep DEF Activate
<1>7. CASE Spend(c)
  BY <1>7, SpendOK
<1>8. ASSUME NEW path \in DOMAIN Outputs[c], CloseWithOutput(c, path) PROVE IInv'
  BY <1>2, <1>3, <1>8, CloseKeeps DEF CloseWithOutput
<1>. QED  BY <1>1, <1>4, <1>5, <1>6, <1>7, <1>8

\* The chain and the accounts move on.
LEMMA OutsideOK ==
    ASSUME IInv, UNCHANGED <<requests, deposits, contracts, funding, txs>>
    PROVE  IInv'
<1>1. RequestsOK' /\ FundsLocked'
  BY DEF IInv, RequestsOK, FundsLocked, Made, LockedFor, CovenantOf
<1>2. ContractsOK' /\ TxsOK'
  BY DEF IInv, ContractsOK, OutputOK, TxsOK, TxDetermined, TxValid
<1>. QED  BY <1>1, <1>2 DEF IInv

LEMMA FundsStepOK == ASSUME IInv, FundsStep PROVE IInv'
<1>1. PICK u \in Utxos :
        \/ Fund(u) \/ Mine(u) \/ Recover(u) \/ Confirm(u) \/ Return(u)
        \/ \E rate \in Rates : Close(u, rate)
        \/ \E request \in RegisterReqs(u) : Register(u, request)
        \/ \E s, c \in Contracts : \E commit \in CommitReqs(u, s) : Commit(u, commit, c)
        \/ \E s, c \in Contracts : Lock(u, s, c)
        \/ \E c \in Contracts : Withdraw(u, c)
  BY DEF FundsStep
<1>2. CASE Fund(u) \/ Mine(u) \/ Recover(u)
  BY <1>2, OutsideOK DEF Fund, Mine, Recover
<1>3. CASE Confirm(u)
  BY <1>3, ConfirmOK
<1>4. CASE Return(u)
  BY <1>4, ReturnOK
<1>5. CASE \E rate \in Rates : Close(u, rate)
  BY <1>5, CloseOK
<1>6. CASE \E request \in RegisterReqs(u) : Register(u, request)
  BY <1>6, RegisterOK
<1>7. CASE \E s, c \in Contracts : \E commit \in CommitReqs(u, s) : Commit(u, commit, c)
  BY <1>7, CommitOK
<1>8. CASE \E s, c \in Contracts : Lock(u, s, c)
  BY <1>8, LockOK
<1>9. CASE \E c \in Contracts : Withdraw(u, c)
  BY <1>9, WithdrawOK
<1>. QED  BY <1>1, <1>2, <1>3, <1>4, <1>5, <1>6, <1>7, <1>8, <1>9

LEMMA StepOK == IInv /\ [Next]_vars => IInv'
<1>. SUFFICES ASSUME IInv, [Next]_vars PROVE IInv'
  OBVIOUS
<1>1. CASE \E f \in Funders, id \in TokenIds : MakeAccount(f, id)
  BY <1>1, OutsideOK DEF MakeAccount
<1>2. CASE Tick
  BY <1>2, OutsideOK DEF Tick
<1>3. CASE \E tx \in txs : Broadcast(tx)
  BY <1>3, OutsideOK DEF Broadcast
<1>4. CASE FundsStep
  BY <1>4, FundsStepOK
<1>5. CASE ContractStep
  BY <1>5, ContractStepOK
<1>6. CASE UNCHANGED vars
  BY <1>6, OutsideOK DEF vars
<1>. QED  BY <1>1, <1>2, <1>3, <1>4, <1>5, <1>6 DEF Next

THEOREM Invariant == Spec => []IInv
BY Initially, StepOK, PTL DEF Spec

-----------------------------------------------------------------------------
\* Every partial signature there may be is of a determined session.
LEMMA PsigsDetermined == ASSUME IInv, NEW p \in Psigs PROVE Determined(p.musig)
<1>1. CASE \E request \in Registrations : p \in FunderPsigs(request)
  <2>1. PICK request \in Registrations : p \in FunderPsigs(request)
    BY <1>1
  <2>2. CASE p = CreateReturnPsig(request, request.deposit_pk).psig
    BY <2>2, ReturnDetermined
  <2>3. ASSUME NEW c \in Contracts,
               p \in Range(CreateCovenant(c, Outputs[c], request, request.deposit_pk).psigs)
        PROVE  Determined(p.musig)
    <3>. DEFINE psigs == CreateCovenant(c, Outputs[c], request, request.deposit_pk).psigs
    <3>1. DOMAIN psigs = DOMAIN Outputs[c]
      BY DEF CreateCovenant
    <3>2. PICK path \in DOMAIN Outputs[c] : p = psigs[path]
      BY <2>3, <3>1 DEF Range
    <3>. QED  BY <3>2, CovenantDetermined
  <2>. QED  BY <2>1, <2>2, <2>3 DEF FunderPsigs
<1>2. CASE \E tx \in txs : \E in \in tx.vin : p \in in.sig
  BY <1>2 DEF IInv, TxsOK, TxDetermined
<1>. QED  BY <1>1, <1>2 DEF Psigs

\* No key of a funder or an agent signs two sessions with one nonce, although
\* all sessions of a token start from one (core/lib/covenant.ts).
THEOREM Nonces == Spec => []NonceOnce
<1>1. IInv => NonceOnce
  BY PsigsDetermined, NonceDetermines DEF NonceOnce
<1>. QED  BY <1>1, Invariant, PTL

\* What the agent completes is accepted by the network (core/lib/covenant.ts,
\* return.ts), whatever the requests and the contracts went through.
THEOREM Transactions == Spec => []TransactionsValid
<1>1. IInv => TransactionsValid
  BY DEF IInv, TxsOK, TransactionsValid
<1>. QED  BY <1>1, Invariant, PTL

-----------------------------------------------------------------------------
(* One transaction for each output: what the agent completed is the return  *)
(* of a deposit that is closed or spent, or the settlement of a contract    *)
(* that is spent; such a deposit funds nothing, and a deposit one contract. *)

ChainOK ==
    /\ DOMAIN chain = Utxos
    /\ \A u \in Utxos :
         /\ DOMAIN chain[u] = {"stage", "utxo", "age", "spent"}
         /\ chain[u].stage # "absent" => chain[u].utxo.id = u

IdsOK == \A u \in Made : requests[u].utxo.id = u

Open(d) == d.closed # TRUE /\ d.spent # TRUE

FundsOpen == \A c \in Contracts : \A u \in funding[c] : Open(deposits[u])

ReturnTx(u) ==
    GetReturnTx(requests[u], CreateReturnPsig(requests[u], requests[u].deposit_pk), Device)

FundsInput(u, c, path) ==
    [utxo |-> requests[u].utxo,
     sig  |-> SettleCovenant(c, Outputs[c], requests[u], CovenantOf(u, c), path, Device)]

SettledTx(c) ==
    [output |-> Outputs[c][contracts[c].machine_vout],
     vin    |-> {FundsInput(u, c, contracts[c].machine_vout) : u \in funding[c]}]

Known(tx) ==
    \/ \E u \in Made : ~Open(deposits[u]) /\ tx = ReturnTx(u)
    \/ \E c \in Contracts : contracts[c].status = "spent" /\ tx = SettledTx(c)

TxsKnown == \A tx \in txs : Known(tx)

JInv == IInv /\ ChainOK /\ IdsOK /\ FundsOpen /\ TxsKnown

LEMMA FlagsKeep ==
    ASSUME NEW d, DOMAIN d = DepositNames, NEW covenant
    PROVE  /\ Open(ConfirmDeposit(d)) <=> Open(d)
           /\ Open(LockDeposit(d, covenant)) <=> Open(d)
           /\ Open(ReleaseDeposit(d)) <=> Open(d)
           /\ ~Open(CloseDeposit(d)) /\ ~Open(SpendDeposit(d, "return"))
           /\ Open(CreateDeposit(covenant))
<1>1. Open(ConfirmDeposit(d)) <=> Open(d)
  BY Names DEF ConfirmDeposit, Open
<1>2. Open(LockDeposit(d, covenant)) <=> Open(d)
  BY Names DEF LockDeposit, Open
<1>3. Open(ReleaseDeposit(d)) <=> Open(d)
  BY Names DEF ReleaseDeposit, INIT_LOCK_STATE, Open
<1>4. ~Open(CloseDeposit(d)) /\ ~Open(SpendDeposit(d, "return"))
  BY Names DEF CloseDeposit, SpendDeposit, Open
<1>5. Open(CreateDeposit(covenant))
  BY Names DEF CreateDeposit, DepositNames, Initial, Flags, Open
<1>. QED  BY <1>1, <1>2, <1>3, <1>4, <1>5

LEMMA CourseKeeps ==
    ASSUME NEW contract, DOMAIN contract = ContractNames, NEW confirmed, NEW value
    PROVE  \A updated \in {AddContractFunds(contract, confirmed, value),
                           ConfirmContractFunds(contract, value),
                           RemContractFunds(contract, confirmed, value)} :
             updated.status = contract.status /\ updated.machine_vout = contract.machine_vout
<1>1. /\ AddContractFunds(contract, confirmed, value).status = contract.status
      /\ AddContractFunds(contract, confirmed, value).machine_vout = contract.machine_vout
  BY Names DEF AddContractFunds
<1>2. /\ ConfirmContractFunds(contract, value).status = contract.status
      /\ ConfirmContractFunds(contract, value).machine_vout = contract.machine_vout
  BY Names DEF AddContractFunds, ConfirmContractFunds
<1>3. /\ RemContractFunds(contract, confirmed, value).status = contract.status
      /\ RemContractFunds(contract, confirmed, value).machine_vout = contract.machine_vout
  BY Names DEF RemContractFunds
<1>. QED  BY <1>1, <1>2, <1>3

\* What a completed transaction depends on stays.
SpentStay ==
    \A c \in Contracts : contracts[c].status = "spent" =>
       /\ contracts'[c].status = "spent"
       /\ contracts'[c].machine_vout = contracts[c].machine_vout
       /\ funding'[c] = funding[c]

TxsStay ==
    /\ Made \subseteq Made'
    /\ \A u \in Made :
         /\ requests'[u] = requests[u]
         /\ ~Open(deposits[u]) => ~Open(deposits'[u])
    /\ SpentStay

LEMMA KnownStays == ASSUME IInv, TxsStay, NEW tx, Known(tx) PROVE Known(tx)'
<1>1. ASSUME NEW u \in Made, ~Open(deposits[u]), tx = ReturnTx(u) PROVE Known(tx)'
  <2>1. u \in Made' /\ requests'[u] = requests[u] /\ ~Open(deposits'[u])
    BY <1>1 DEF TxsStay
  <2>2. ReturnTx(u)' = ReturnTx(u)
    BY <2>1 DEF ReturnTx
  <2>. QED  BY <1>1, <2>1, <2>2 DEF Known
<1>2. ASSUME NEW c \in Contracts, contracts[c].status = "spent", tx = SettledTx(c)
      PROVE  Known(tx)'
  <2>1. /\ contracts'[c].status = "spent"
        /\ contracts'[c].machine_vout = contracts[c].machine_vout
        /\ funding'[c] = funding[c]
    BY <1>2 DEF TxsStay, SpentStay
  <2>2. \A u \in funding[c] : u \in Made
    BY DEF IInv, FundsLocked
  <2>3. \A u \in funding[c] : requests'[u] = requests[u]
    BY <2>2 DEF TxsStay
  <2>4. \A u \in funding[c] : \A path : FundsInput(u, c, path)' = FundsInput(u, c, path)
    BY <2>3 DEF FundsInput, CovenantOf
  <2>5. SettledTx(c)' = SettledTx(c)
    BY <2>1, <2>4 DEF SettledTx
  <2>. QED  BY <1>2, <2>1, <2>5 DEF Known
<1>. QED  BY <1>1, <1>2 DEF Known

LEMMA AllKnown ==
    ASSUME IInv, TxsKnown, TxsStay, \A tx \in txs' : tx \in txs \/ Known(tx)'
    PROVE  TxsKnown'
<1>. SUFFICES ASSUME NEW tx \in txs' PROVE Known(tx)'
  BY DEF TxsKnown
<1>1. CASE tx \in txs
  <2>1. Known(tx)
    BY <1>1 DEF TxsKnown
  <2>. QED  BY <2>1, KnownStays
<1>. QED  BY <1>1

\* A step of one deposit that has been made, or of none.
LEMMA DepositStays ==
    ASSUME IInv, IdsOK, NEW u \in Made, NEW d, ~Open(deposits[u]) => ~Open(d),
           deposits' = [deposits EXCEPT ![u] = d], requests' = requests, SpentStay
    PROVE  IdsOK' /\ TxsStay
<1>1. Made' = Made
  BY DEF Made
<1>2. deposits'[u] = d /\ \A v \in Made : v # u => deposits'[v] = deposits[v]
  BY DEF Made
<1>3. IdsOK'
  BY <1>1 DEF IdsOK
<1>4. TxsStay
  BY <1>1, <1>2 DEF TxsStay
<1>. QED  BY <1>3, <1>4

\* A new deposit, of an output on the chain.
LEMMA NewStays ==
    ASSUME IInv, IdsOK, ChainOK, NEW u \in Utxos, NEW request \in RegisterReqs(u),
           NEW deposit, chain[u].stage # "absent", MakeDeposit(u, request, deposit),
           SpentStay
    PROVE  /\ IdsOK' /\ TxsStay
           /\ deposits'[u] = deposit
           /\ \A v \in Made : v # u /\ deposits'[v] = deposits[v]
<1>1. PICK account, rate : request = CreateRegistration(account, rate, chain[u].utxo)
  BY DEF RegisterReqs
<1>. DEFINE stored == [request EXCEPT !.deposit_addr = GetAccountCtx(request).deposit_addr]
<1>2. stored.utxo = chain[u].utxo
  BY <1>1 DEF CreateRegistration
<1>3. /\ u \notin Made /\ Made' = Made \cup {u}
      /\ requests'[u] = stored /\ deposits'[u] = deposit
      /\ \A v \in Made : requests'[v] = requests[v] /\ deposits'[v] = deposits[v]
  BY DEF MakeDeposit, With, Made, IInv, RequestsOK
<1>. HIDE DEF stored
<1>4. IdsOK'
  BY <1>2, <1>3 DEF IdsOK, ChainOK
<1>5. TxsStay
  BY <1>3 DEF TxsStay
<1>. QED  BY <1>3, <1>4, <1>5

-----------------------------------------------------------------------------
(* One lemma for each operation again; IInv' is known of every step *)

LEMMA RegisterKeeps ==
    ASSUME JInv, NEW u \in Utxos, NEW request \in RegisterReqs(u), Register(u, request)
    PROVE  IdsOK' /\ FundsOpen' /\ TxsKnown'
<1>1. /\ chain[u].stage # "absent"
      /\ MakeDeposit(u, request, CreateDeposit(Null))
      /\ UNCHANGED <<contracts, funding, txs>>
  BY DEF Register
<1>2. SpentStay
  BY <1>1 DEF SpentStay
<1>3. /\ IdsOK' /\ TxsStay
      /\ \A v \in Made : v # u /\ deposits'[v] = deposits[v]
  BY <1>1, <1>2, NewStays DEF JInv
<1>4. FundsOpen'
  BY <1>1, <1>3 DEF JInv, FundsOpen, IInv, FundsLocked
<1>5. TxsKnown'
  BY <1>1, <1>3, AllKnown DEF JInv
<1>. QED  BY <1>3, <1>4, <1>5

LEMMA CommitKeeps ==
    ASSUME JInv, NEW u \in Utxos, NEW s \in Contracts, NEW c \in Contracts,
           NEW commit \in CommitReqs(u, s), Commit(u, commit, c)
    PROVE  IdsOK' /\ FundsOpen' /\ TxsKnown'
<1>1. PICK request \in RegisterReqs(u) : commit = CreateCommitReq(s, Outputs[s], request)
  BY DEF CommitReqs
<1>. DEFINE covenant == commit.covenant
            deposit  == LockDeposit(CreateDeposit(covenant), covenant)
<1>2. commit.registration = request
  BY <1>1 DEF CreateCommitReq
<1>3. /\ chain[u].stage # "absent"
      /\ contracts[c].status = "published"
      /\ MakeDeposit(u, request, deposit)
      /\ contracts' = [contracts EXCEPT ![c] = AddContractFunds(contracts[c], FALSE, Value[u])]
      /\ funding' = [funding EXCEPT ![c] = funding[c] \cup {u}]
      /\ UNCHANGED txs
  BY <1>2 DEF Commit, Fundable
<1>4. Open(deposit)
  BY FlagsKeep, CreateKeeps
<1>. HIDE DEF deposit, covenant
<1>5. SpentStay
  BY <1>3 DEF SpentStay, JInv, IInv, ContractsOK, FundsLocked
<1>6. /\ IdsOK' /\ TxsStay /\ deposits'[u] = deposit
      /\ \A v \in Made : v # u /\ deposits'[v] = deposits[v]
  BY <1>3, <1>5, NewStays DEF JInv
<1>7. FundsOpen'
  BY <1>3, <1>4, <1>6 DEF JInv, FundsOpen, IInv, FundsLocked
<1>8. TxsKnown'
  BY <1>3, <1>6, AllKnown DEF JInv
<1>. QED  BY <1>6, <1>7, <1>8

LEMMA ConfirmKeeps ==
    ASSUME JInv, NEW u \in Utxos, Confirm(u)
    PROVE  IdsOK' /\ FundsOpen' /\ TxsKnown'
<1>. DEFINE d == ConfirmDeposit(deposits[u])
<1>1. /\ u \in Made
      /\ deposits' = [deposits EXCEPT ![u] = d]
      /\ contracts' = [c \in Contracts |->
           IF u \in funding[c] THEN ConfirmContractFunds(contracts[c], Value[u])
           ELSE contracts[c]]
      /\ UNCHANGED <<requests, funding, txs>>
  BY DEF Confirm
<1>2. Open(d) <=> Open(deposits[u])
  BY <1>1, FlagsKeep DEF JInv, IInv, FundsLocked
<1>. HIDE DEF d
<1>3. \A c \in Contracts : contracts'[c].status = contracts[c].status
                           /\ contracts'[c].machine_vout = contracts[c].machine_vout
  BY <1>1, CourseKeeps DEF JInv, IInv, ContractsOK, OutputOK
<1>4. SpentStay
  BY <1>1, <1>3 DEF SpentStay
<1>5. IdsOK' /\ TxsStay
  BY <1>1, <1>2, <1>4, DepositStays DEF JInv
<1>6. FundsOpen'
  BY <1>1, <1>2 DEF JInv, FundsOpen, Made
<1>7. TxsKnown'
  BY <1>1, <1>5, AllKnown DEF JInv
<1>. QED  BY <1>5, <1>6, <1>7

LEMMA LockKeepsFunds ==
    ASSUME JInv, NEW u \in Utxos, NEW s \in Contracts, NEW c \in Contracts, Lock(u, s, c)
    PROVE  IdsOK' /\ FundsOpen' /\ TxsKnown'
<1>. DEFINE covenant == CreateLockReq(s, Outputs[s], requests[u]).covenant
            d        == LockDeposit(deposits[u], covenant)
<1>1. /\ u \in Made
      /\ contracts[c].status = "published"
      /\ ~deposits[u].closed /\ ~deposits[u].spent
      /\ deposits' = [deposits EXCEPT ![u] = d]
      /\ contracts' = [contracts EXCEPT ![c] = AddContractFunds(contracts[c], TRUE, Value[u])]
      /\ funding' = [funding EXCEPT ![c] = funding[c] \cup {u}]
      /\ UNCHANGED <<requests, txs>>
  BY DEF Lock, Fundable, CanLock
<1>2. Open(deposits[u]) /\ Open(d)
  <2>1. Open(deposits[u])
    BY <1>1 DEF Open
  <2>. QED  BY <1>1, <2>1, FlagsKeep DEF JInv, IInv, FundsLocked
<1>. HIDE DEF d, covenant
<1>3. SpentStay
  BY <1>1 DEF SpentStay, JInv, IInv, ContractsOK, FundsLocked
<1>4. IdsOK' /\ TxsStay
  BY <1>1, <1>2, <1>3, DepositStays DEF JInv
<1>5. FundsOpen'
  BY <1>1, <1>2 DEF JInv, FundsOpen, IInv, FundsLocked, Made
<1>6. TxsKnown'
  BY <1>1, <1>4, AllKnown DEF JInv
<1>. QED  BY <1>4, <1>5, <1>6

LEMMA WithdrawKeeps ==
    ASSUME JInv, NEW u \in Utxos, NEW c \in Contracts, Withdraw(u, c)
    PROVE  IdsOK' /\ FundsOpen' /\ TxsKnown'
<1>. DEFINE d == ReleaseDeposit(deposits[u])
<1>1. /\ u \in funding[c]
      /\ contracts[c].status \in {"published", "canceled"}
      /\ deposits' = [deposits EXCEPT ![u] = d]
      /\ contracts' = [contracts EXCEPT ![c] =
                         RemContractFunds(contracts[c], deposits[u].confirmed, Value[u])]
      /\ funding' = [funding EXCEPT ![c] = funding[c] \ {u}]
      /\ UNCHANGED <<requests, txs>>
  BY DEF Withdraw
<1>2. u \in Made /\ (Open(d) <=> Open(deposits[u]))
  BY <1>1, FlagsKeep DEF JInv, IInv, FundsLocked
<1>. HIDE DEF d
<1>3. SpentStay
  BY <1>1 DEF SpentStay, JInv, IInv, ContractsOK, FundsLocked
<1>4. IdsOK' /\ TxsStay
  BY <1>1, <1>2, <1>3, DepositStays DEF JInv
<1>5. FundsOpen'
  BY <1>1, <1>2 DEF JInv, FundsOpen, IInv, FundsLocked, Made
<1>6. TxsKnown'
  BY <1>1, <1>4, AllKnown DEF JInv
<1>. QED  BY <1>4, <1>5, <1>6

\* A deposit that is returned funds nothing.
LEMMA ReturnedKeeps ==
    ASSUME JInv, NEW u \in Made, \A c \in Contracts : u \notin funding[c],
           NEW d, ~Open(d), deposits' = [deposits EXCEPT ![u] = d],
           txs' = txs \cup {ReturnTx(u)}, UNCHANGED <<requests, contracts, funding>>
    PROVE  IdsOK' /\ FundsOpen' /\ TxsKnown'
<1>1. SpentStay
  BY DEF SpentStay
<1>2. IdsOK' /\ TxsStay
  BY <1>1, DepositStays DEF JInv
<1>3. FundsOpen'
  BY DEF JInv, FundsOpen, IInv, FundsLocked, Made
<1>4. ASSUME NEW tx, tx = ReturnTx(u) PROVE Known(tx)'
  <2>1. u \in Made' /\ ~Open(deposits'[u])
    BY DEF Made
  <2>2. ReturnTx(u)' = ReturnTx(u)
    BY DEF ReturnTx
  <2>. QED  BY <1>4, <2>1, <2>2 DEF Known
<1>5. TxsKnown'
  BY <1>2, <1>4, AllKnown DEF JInv
<1>. QED  BY <1>2, <1>3, <1>5

LEMMA CloseKeepsFunds ==
    ASSUME JInv, NEW u \in Utxos, NEW rate \in Rates, Close(u, rate)
    PROVE  IdsOK' /\ FundsOpen' /\ TxsKnown'
<1>1. CreateCloseReq(requests[u], rate).return_psig
        = CreateReturnPsig(requests[u], requests[u].deposit_pk)
  BY DEF CreateCloseReq
<1>2. /\ u \in Made /\ ~deposits[u].locked
      /\ deposits' = [deposits EXCEPT ![u] = CloseDeposit(deposits[u])]
      /\ txs' = txs \cup {ReturnTx(u)}
      /\ UNCHANGED <<requests, contracts, funding>>
  BY <1>1 DEF Close, CanClose, ReturnTx
<1>3. \A c \in Contracts : u \notin funding[c]
  BY <1>2 DEF JInv, IInv, FundsLocked, LockedFor
<1>4. ~Open(CloseDeposit(deposits[u]))
  BY <1>2, FlagsKeep DEF JInv, IInv, FundsLocked
<1>. QED  BY <1>2, <1>3, <1>4, ReturnedKeeps

LEMMA ReturnKeeps ==
    ASSUME JInv, NEW u \in Utxos, Return(u)
    PROVE  IdsOK' /\ FundsOpen' /\ TxsKnown'
<1>1. /\ u \in Made /\ \A c \in Contracts : u \notin funding[c]
      /\ deposits' = [deposits EXCEPT ![u] = SpendDeposit(deposits[u], "return")]
      /\ txs' = txs \cup {ReturnTx(u)}
      /\ UNCHANGED <<requests, contracts, funding>>
  BY DEF Return, Funds, ReturnTx
<1>2. ~Open(SpendDeposit(deposits[u], "return"))
  BY <1>1, FlagsKeep DEF JInv, IInv, FundsLocked
<1>. QED  BY <1>1, <1>2, ReturnedKeeps

\* A contract moves on from a stage that is not its last.
LEMMA MoveKeeps ==
    ASSUME JInv, NEW c \in Contracts, NEW contract, contracts[c].status # "spent",
           Move(c, contract), \A tx \in txs' : tx \in txs \/ Known(tx)'
    PROVE  IdsOK' /\ FundsOpen' /\ TxsKnown'
<1>1. /\ contracts' = [contracts EXCEPT ![c] = contract]
      /\ UNCHANGED <<requests, deposits, funding>>
  BY DEF Move
<1>2. TxsStay
  BY <1>1 DEF TxsStay, SpentStay, Made, JInv, IInv, ContractsOK
<1>3. IdsOK' /\ FundsOpen'
  BY <1>1 DEF JInv, IdsOK, FundsOpen, Made
<1>4. TxsKnown'
  BY <1>2, AllKnown DEF JInv
<1>. QED  BY <1>3, <1>4

LEMMA SpendKeeps ==
    ASSUME JInv, NEW c \in Contracts, Spend(c)
    PROVE  IdsOK' /\ FundsOpen' /\ TxsKnown'
<1>. DEFINE contract == SpendContract(contracts[c], contracts[c].machine_vout)
<1>1. /\ contracts[c].status = "closed"
      /\ txs' = txs \cup {SettlementTx(c)}
      /\ Move(c, contract)
  BY DEF Spend
<1>2. /\ contract.status = "spent"
      /\ contract.machine_vout = contracts[c].machine_vout
  BY Names DEF SpendContract, JInv, IInv, ContractsOK, OutputOK
<1>. HIDE DEF contract
<1>3. /\ contracts'[c].status = "spent"
      /\ contracts'[c].machine_vout = contracts[c].machine_vout
      /\ UNCHANGED <<requests, deposits, funding>>
  BY <1>1, <1>2 DEF Move, JInv, IInv, ContractsOK
<1>4. \A u \in funding[c] : \A path : FundsInput(u, c, path)' = FundsInput(u, c, path)
  BY <1>3 DEF FundsInput, CovenantOf
<1>5. SettledTx(c)' = SettledTx(c)
  BY <1>3, <1>4 DEF SettledTx
<1>6. SettlementTx(c) = SettledTx(c)
  BY DEF SettlementTx, SettledTx, FundsInput, JInv, IInv, FundsLocked, LockedFor
<1>7. ASSUME NEW tx, tx = SettlementTx(c) PROVE Known(tx)'
  BY <1>3, <1>5, <1>6, <1>7 DEF Known
<1>. QED  BY <1>1, <1>7, MoveKeeps

LEMMA ContractStepKeeps ==
    ASSUME JInv, ContractStep
    PROVE  IdsOK' /\ FundsOpen' /\ TxsKnown'
<1>1. PICK c \in Contracts :
        \/ Cancel(c) \/ Secure(c) \/ Activate(c) \/ Spend(c)
        \/ \E path \in DOMAIN Outputs[c] : CloseWithOutput(c, path)
  BY DEF ContractStep
<1>2. CASE Cancel(c)
  BY <1>2, MoveKeeps DEF Cancel
<1>3. CASE Secure(c)
  BY <1>3, MoveKeeps DEF Secure
<1>4. CASE Activate(c)
  BY <1>4, MoveKeeps DEF Activate
<1>5. CASE Spend(c)
  BY <1>5, SpendKeeps
<1>6. ASSUME NEW path \in DOMAIN Outputs[c], CloseWithOutput(c, path)
      PROVE  IdsOK' /\ FundsOpen' /\ TxsKnown'
  BY <1>6, MoveKeeps DEF CloseWithOutput
<1>. QED  BY <1>1, <1>2, <1>3, <1>4, <1>5, <1>6

LEMMA OutsideKeeps ==
    ASSUME JInv, UNCHANGED <<requests, deposits, contracts, funding, txs>>
    PROVE  IdsOK' /\ FundsOpen' /\ TxsKnown'
<1>1. TxsStay
  BY DEF TxsStay, SpentStay, Made
<1>2. IdsOK' /\ FundsOpen'
  BY DEF JInv, IdsOK, FundsOpen, Made
<1>3. TxsKnown'
  BY <1>1, AllKnown DEF JInv
<1>. QED  BY <1>2, <1>3

\* Of the operations on deposits only those outside the agent touch the chain,
\* and none takes back a transaction or makes an account.
LEMMA FundsStepChain ==
    ASSUME FundsStep
    PROVE  /\ UNCHANGED accounts
           /\ \/ UNCHANGED chain /\ txs \subseteq txs'
              \/ \E u \in Utxos : Fund(u) \/ Mine(u) \/ Recover(u)
<1>. DEFINE Goal == /\ UNCHANGED accounts
                    /\ \/ UNCHANGED chain /\ txs \subseteq txs'
                       \/ \E u \in Utxos : Fund(u) \/ Mine(u) \/ Recover(u)
<1>1. PICK u \in Utxos :
        \/ Fund(u) \/ Mine(u) \/ Recover(u) \/ Confirm(u) \/ Return(u)
        \/ \E rate \in Rates : Close(u, rate)
        \/ \E request \in RegisterReqs(u) : Register(u, request)
        \/ \E s, c \in Contracts : \E commit \in CommitReqs(u, s) : Commit(u, commit, c)
        \/ \E s, c \in Contracts : Lock(u, s, c)
        \/ \E c \in Contracts : Withdraw(u, c)
  BY DEF FundsStep
<1>2. CASE Fund(u) \/ Mine(u) \/ Recover(u)
  <2>1. UNCHANGED accounts
    BY <1>2 DEF Fund, Mine, Recover
  <2>. QED  BY <1>2, <2>1
<1>3. CASE Confirm(u)
  BY <1>3 DEF Confirm
<1>4. CASE Return(u)
  BY <1>4 DEF Return
<1>5. ASSUME NEW rate, Close(u, rate) PROVE Goal
  BY <1>5 DEF Close
<1>6. ASSUME NEW request, Register(u, request) PROVE Goal
  BY <1>6 DEF Register
<1>7. ASSUME NEW commit, NEW c, Commit(u, commit, c) PROVE Goal
  BY <1>7 DEF Commit
<1>8. ASSUME NEW s, NEW c, Lock(u, s, c) PROVE Goal
  BY <1>8 DEF Lock
<1>9. ASSUME NEW c, Withdraw(u, c) PROVE Goal
  BY <1>9 DEF Withdraw
<1>. QED  BY <1>1, <1>2, <1>3, <1>4, <1>5, <1>6, <1>7, <1>8, <1>9

LEMMA ChainKeeps == ASSUME ChainOK, Next PROVE ChainOK'
<1>1. CASE UNCHANGED chain
  BY <1>1 DEF ChainOK
<1>2. ASSUME NEW u \in Utxos, Fund(u) PROVE ChainOK'
  BY <1>2 DEF Fund, ChainOK
<1>3. ASSUME NEW u \in Utxos, Mine(u) PROVE ChainOK'
  BY <1>3 DEF Mine, ChainOK
<1>4. CASE Tick
  BY <1>4 DEF Tick, ChainOK
<1>5. ASSUME NEW tx, NEW script, chain' = SpentBy(tx, script) PROVE ChainOK'
  BY <1>5 DEF SpentBy, ChainOK
<1>6. CASE \E tx \in txs : Broadcast(tx)
  BY <1>5, <1>6 DEF Broadcast
<1>7. ASSUME NEW u \in Utxos, Recover(u) PROVE ChainOK'
  BY <1>5, <1>7 DEF Recover
<1>8. CASE FundsStep
  BY <1>1, <1>2, <1>3, <1>7, <1>8, FundsStepChain
<1>9. CASE ContractStep
  BY <1>1, <1>9 DEF ContractStep, Cancel, Secure, Activate, Spend, CloseWithOutput, Move
<1>10. CASE \E f \in Funders, id \in TokenIds : MakeAccount(f, id)
  BY <1>1, <1>10 DEF MakeAccount
<1>. QED  BY <1>4, <1>6, <1>8, <1>9, <1>10 DEF Next

LEMMA FundsStepKeeps ==
    ASSUME JInv, FundsStep
    PROVE  IdsOK' /\ FundsOpen' /\ TxsKnown'
<1>1. PICK u \in Utxos :
        \/ Fund(u) \/ Mine(u) \/ Recover(u) \/ Confirm(u) \/ Return(u)
        \/ \E rate \in Rates : Close(u, rate)
        \/ \E request \in RegisterReqs(u) : Register(u, request)
        \/ \E s, c \in Contracts : \E commit \in CommitReqs(u, s) : Commit(u, commit, c)
        \/ \E s, c \in Contracts : Lock(u, s, c)
        \/ \E c \in Contracts : Withdraw(u, c)
  BY DEF FundsStep
<1>2. CASE Fund(u) \/ Mine(u) \/ Recover(u)
  BY <1>2, OutsideKeeps DEF Fund, Mine, Recover
<1>3. CASE Confirm(u)
  BY <1>3, ConfirmKeeps
<1>4. CASE Return(u)
  BY <1>4, ReturnKeeps
<1>5. CASE \E rate \in Rates : Close(u, rate)
  BY <1>5, CloseKeepsFunds
<1>6. CASE \E request \in RegisterReqs(u) : Register(u, request)
  BY <1>6, RegisterKeeps
<1>7. CASE \E s, c \in Contracts : \E commit \in CommitReqs(u, s) : Commit(u, commit, c)
  BY <1>7, CommitKeeps
<1>8. CASE \E s, c \in Contracts : Lock(u, s, c)
  BY <1>8, LockKeepsFunds
<1>9. CASE \E c \in Contracts : Withdraw(u, c)
  BY <1>9, WithdrawKeeps
<1>. QED  BY <1>1, <1>2, <1>3, <1>4, <1>5, <1>6, <1>7, <1>8, <1>9

LEMMA NextKeeps == JInv /\ [Next]_vars => JInv'
<1>. SUFFICES ASSUME JInv, [Next]_vars PROVE JInv'
  OBVIOUS
<1>1. IInv'
  BY StepOK DEF JInv
<1>2. ChainOK'
  <2>1. CASE Next
    BY <2>1, ChainKeeps DEF JInv
  <2>2. CASE UNCHANGED vars
    BY <2>2 DEF vars, JInv, ChainOK
  <2>. QED  BY <2>1, <2>2
<1>3. IdsOK' /\ FundsOpen' /\ TxsKnown'
  <2>1. CASE \E f \in Funders, id \in TokenIds : MakeAccount(f, id)
    BY <2>1, OutsideKeeps DEF MakeAccount
  <2>2. CASE Tick
    BY <2>2, OutsideKeeps DEF Tick
  <2>3. CASE \E tx \in txs : Broadcast(tx)
    BY <2>3, OutsideKeeps DEF Broadcast
  <2>4. CASE FundsStep
    BY <2>4, FundsStepKeeps
  <2>5. CASE ContractStep
    BY <2>5, ContractStepKeeps
  <2>6. CASE UNCHANGED vars
    BY <2>6, OutsideKeeps DEF vars
  <2>. QED  BY <2>1, <2>2, <2>3, <2>4, <2>5, <2>6 DEF Next
<1>. QED  BY <1>1, <1>2, <1>3 DEF JInv

\* The input of a return, and of a settlement, is the output of a deposit.
LEMMA Inputs ==
    /\ \A u : \A in \in ReturnTx(u).vin : in.utxo = requests[u].utxo
    /\ \A c : \A in \in SettledTx(c).vin :
         \E u \in funding[c] : in.utxo = requests[u].utxo
BY DEF ReturnTx, GetReturnTx, SettledTx, FundsInput

LEMMA JOneTransaction == JInv => OneTransaction
<1>. SUFFICES ASSUME JInv, NEW t1 \in txs, NEW t2 \in txs,
                     NEW i1 \in t1.vin, NEW i2 \in t2.vin, i1.utxo = i2.utxo
              PROVE  t1 = t2
  BY DEF OneTransaction
<1>1. Known(t1) /\ Known(t2)
  BY DEF JInv, TxsKnown
<1>2. \A u, v \in Made : requests[u].utxo = requests[v].utxo => u = v
  BY DEF JInv, IdsOK
<1>3. \A c \in Contracts : \A u \in funding[c] : u \in Made /\ Open(deposits[u])
  BY DEF JInv, FundsOpen, IInv, FundsLocked
<1>4. \A c, e \in Contracts : \A u : u \in funding[c] /\ u \in funding[e] => c = e
  <2>1. \A c, u : CovenantOf(u, c).cid = c
    BY DEF CovenantOf, CreateCovenant
  <2>2. \A c \in Contracts : \A u \in funding[c] : deposits[u].covenant.cid = c
    BY <2>1 DEF JInv, IInv, FundsLocked, LockedFor
  <2>. QED  BY <2>2
<1>5. ASSUME NEW u \in Made, t1 = ReturnTx(u), NEW v \in Made, t2 = ReturnTx(v)
      PROVE  t1 = t2
  BY <1>2, <1>5, Inputs
<1>6. ASSUME NEW u \in Made, ~Open(deposits[u]), t1 = ReturnTx(u),
             NEW c \in Contracts, t2 = SettledTx(c)
      PROVE  FALSE
  BY <1>2, <1>3, <1>6, Inputs
<1>7. ASSUME NEW u \in Made, ~Open(deposits[u]), t2 = ReturnTx(u),
             NEW c \in Contracts, t1 = SettledTx(c)
      PROVE  FALSE
  BY <1>2, <1>3, <1>7, Inputs
<1>8. ASSUME NEW c \in Contracts, t1 = SettledTx(c), NEW e \in Contracts, t2 = SettledTx(e)
      PROVE  t1 = t2
  <2>1. PICK u \in funding[c] : i1.utxo = requests[u].utxo
    BY <1>8, Inputs
  <2>2. PICK v \in funding[e] : i2.utxo = requests[v].utxo
    BY <1>8, Inputs
  <2>3. u = v
    BY <1>2, <1>3, <2>1, <2>2
  <2>. QED  BY <1>4, <1>8, <2>1, <2>2, <2>3
<1>. QED  BY <1>1, <1>5, <1>6, <1>7, <1>8 DEF Known

LEMMA JInitially == Init => JInv
<1>. SUFFICES ASSUME Init PROVE JInv
  OBVIOUS
<1>1. ChainOK
  BY DEF Init, ChainOK
<1>2. IdsOK /\ FundsOpen /\ TxsKnown
  BY DEF Init, IdsOK, FundsOpen, TxsKnown, Made
<1>. QED  BY <1>1, <1>2, Initially DEF JInv

\* The agent completes one transaction for an output at most, whatever the order
\* of covenants, withdrawals, closes and returns (core/module/deposit/state.ts).
THEOREM OneForEach == Spec => []OneTransaction
BY JInitially, NextKeeps, JOneTransaction, PTL DEF Spec

-----------------------------------------------------------------------------
(* Types: what is on the chain stays what it is, and a deposit is of an      *)
(* output that is there, registered by its owner.                            *)

AgesOK == \A u \in Utxos : chain[u].age \in 0..Locktime

\* What a registration was made of.
OwnedBy(u, request) ==
    /\ u \in Utxos
    /\ chain[u].stage # "absent"
    /\ request.utxo = chain[u].utxo
    /\ request.deposit_pk = Owner[u]

Owned ==
    \A u \in Made : OwnedBy(u, requests[u]) /\ deposits[u].status \in DepositStatus

Staged == \A c \in Contracts : contracts[c].status \in ContractStages

KInv == JInv /\ AgesOK /\ Owned /\ Staged

OutputsStay ==
    \A u \in Utxos : chain[u].stage # "absent" =>
        chain'[u].stage # "absent" /\ chain'[u].utxo = chain[u].utxo

LEMMA ChainSteps ==
    ASSUME ChainOK, AgesOK, Next
    PROVE  AgesOK' /\ OutputsStay
<1>1. CASE UNCHANGED chain
  BY <1>1 DEF AgesOK, OutputsStay
<1>2. ASSUME NEW u \in Utxos, Fund(u) PROVE AgesOK' /\ OutputsStay
  BY <1>2 DEF Fund, ChainOK, AgesOK, OutputsStay
<1>3. ASSUME NEW u \in Utxos, Mine(u) PROVE AgesOK' /\ OutputsStay
  BY <1>3 DEF Mine, ChainOK, AgesOK, OutputsStay
<1>4. CASE Tick
  <2>1. \A u \in Utxos : \/ chain'[u] = chain[u]
                         \/ /\ chain[u].age < Locktime
                            /\ chain'[u] = [chain[u] EXCEPT !.age = chain[u].age + 1]
    BY <1>4 DEF Tick, Young
  <2>2. ASSUME NEW u \in Utxos
        PROVE  /\ chain'[u].stage = chain[u].stage /\ chain'[u].utxo = chain[u].utxo
               /\ chain'[u].age \in 0..Locktime
    <3>1. DOMAIN chain[u] = {"stage", "utxo", "age", "spent"}
          /\ chain[u].age \in 0..Locktime
      BY DEF ChainOK, AgesOK
    <3>2. CASE chain'[u] = chain[u]
      BY <3>1, <3>2
    <3>3. CASE /\ chain[u].age < Locktime
               /\ chain'[u] = [chain[u] EXCEPT !.age = chain[u].age + 1]
      <4>1. chain[u].age + 1 \in 0..Locktime
        BY <3>1, <3>3, CustodyAssumption
      <4>2. /\ chain'[u].stage = chain[u].stage /\ chain'[u].utxo = chain[u].utxo
            /\ chain'[u].age = chain[u].age + 1
        BY <3>1, <3>3
      <4>. QED  BY <4>1, <4>2
    <3>. QED  BY <2>1, <3>2, <3>3
  <2>. QED  BY <2>2 DEF AgesOK, OutputsStay
<1>5. ASSUME NEW tx, NEW script, chain' = SpentBy(tx, script)
      PROVE  AgesOK' /\ OutputsStay
  BY <1>5 DEF SpentBy, ChainOK, AgesOK, OutputsStay
<1>6. CASE \E tx \in txs : Broadcast(tx)
  BY <1>5, <1>6 DEF Broadcast
<1>7. ASSUME NEW u \in Utxos, Recover(u) PROVE AgesOK' /\ OutputsStay
  BY <1>5, <1>7 DEF Recover
<1>8. CASE FundsStep
  BY <1>1, <1>2, <1>3, <1>7, <1>8, FundsStepChain
<1>9. CASE ContractStep
  BY <1>1, <1>9 DEF ContractStep, Cancel, Secure, Activate, Spend, CloseWithOutput, Move
<1>10. CASE \E f \in Funders, id \in TokenIds : MakeAccount(f, id)
  BY <1>1, <1>10 DEF MakeAccount
<1>. QED  BY <1>4, <1>6, <1>8, <1>9, <1>10 DEF Next

\* The status each operation leaves.
LEMMA DepositStatusKept ==
    ASSUME NEW d, DOMAIN d = DepositNames, NEW covenant
    PROVE  /\ ConfirmDeposit(d).status \in DepositStatus
           /\ LockDeposit(d, covenant).status \in DepositStatus
           /\ ReleaseDeposit(d).status \in DepositStatus
           /\ CloseDeposit(d).status \in DepositStatus
           /\ SpendDeposit(d, "return").status \in DepositStatus
           /\ CreateDeposit(covenant).status \in DepositStatus
<1>1. ConfirmDeposit(d).status \in DepositStatus
  BY Names DEF ConfirmDeposit, DepositStatus, DepositStages
<1>2. LockDeposit(d, covenant).status \in DepositStatus
  BY Names DEF LockDeposit, DepositStatus, DepositStages
<1>3. ReleaseDeposit(d).status \in DepositStatus
  BY Names DEF ReleaseDeposit, DepositStatus, DepositStages
<1>4. /\ CloseDeposit(d).status \in DepositStatus
      /\ SpendDeposit(d, "return").status \in DepositStatus
  BY Names DEF CloseDeposit, SpendDeposit, DepositStatus, DepositStages
<1>5. CreateDeposit(covenant).status \in DepositStatus
  BY Names DEF CreateDeposit, DepositNames, DepositStatus, DepositStages
<1>. QED  BY <1>1, <1>2, <1>3, <1>4, <1>5

LEMMA ContractStatusKept ==
    ASSUME NEW contract, DOMAIN contract = ContractNames, NEW count, NEW sum, NEW machine,
           NEW txid
    PROVE  /\ CancelContract(contract).status \in ContractStages
           /\ SecureContract(contract, count, sum).status \in ContractStages
           /\ ActivateContract(contract, 0).status \in ContractStages
           /\ CloseContract(contract, machine).status \in ContractStages
           /\ SpendContract(contract, txid).status \in ContractStages
<1>1. CancelContract(contract).status \in ContractStages
  BY Names DEF CancelContract, ContractStages
<1>2. SecureContract(contract, count, sum).status \in ContractStages
  BY Names DEF SecureContract, ContractStages
<1>3. ActivateContract(contract, 0).status \in ContractStages
  BY Names DEF ActivateContract, ContractStages
<1>4. CloseContract(contract, machine).status \in ContractStages
  BY Names DEF CloseContract, ContractStages
<1>5. SpendContract(contract, txid).status \in ContractStages
  BY Names DEF SpendContract, ContractStages
<1>. QED  BY <1>1, <1>2, <1>3, <1>4, <1>5

\* A step of no deposit.
LEMMA OwnedOutside ==
    ASSUME Owned, OutputsStay, UNCHANGED <<requests, deposits>>
    PROVE  Owned'
BY DEF Owned, OwnedBy, OutputsStay, Made

\* A step of one deposit that has been made.
LEMMA OwnedStep ==
    ASSUME Owned, NEW u \in Made, NEW d, d.status \in DepositStatus,
           deposits' = [deposits EXCEPT ![u] = d], UNCHANGED <<requests, chain>>
    PROVE  Owned'
<1>1. /\ Made' = Made /\ deposits'[u] = d
      /\ \A v \in Made : v # u => deposits'[v] = deposits[v]
  BY DEF Made
<1>. QED  BY <1>1 DEF Owned, OwnedBy

\* A new deposit: a funder registers with an account of its own.
LEMMA OwnedNew ==
    ASSUME IInv, Owned, NEW u \in Utxos, NEW request \in RegisterReqs(u), NEW deposit,
           deposit.status \in DepositStatus, chain[u].stage # "absent",
           MakeDeposit(u, request, deposit), UNCHANGED chain
    PROVE  Owned'
<1>1. PICK account, rate : /\ request = CreateRegistration(account, rate, chain[u].utxo)
                           /\ VerifyAccountData(account, Owner[u])
  BY DEF RegisterReqs
<1>. DEFINE stored == [request EXCEPT !.deposit_addr = GetAccountCtx(request).deposit_addr]
<1>2. stored.utxo = chain[u].utxo /\ stored.deposit_pk = Owner[u]
  BY <1>1 DEF CreateRegistration, VerifyAccountData
<1>3. /\ u \notin Made /\ Made' = Made \cup {u}
      /\ requests'[u] = stored /\ deposits'[u] = deposit
      /\ \A v \in Made : requests'[v] = requests[v] /\ deposits'[v] = deposits[v]
  BY DEF MakeDeposit, With, Made, IInv, RequestsOK
<1>. HIDE DEF stored
<1>. QED  BY <1>2, <1>3 DEF Owned, OwnedBy

LEMMA OwnedFunds ==
    ASSUME KInv, OutputsStay, FundsStep
    PROVE  Owned'
<1>1. PICK u \in Utxos :
        \/ Fund(u) \/ Mine(u) \/ Recover(u) \/ Confirm(u) \/ Return(u)
        \/ \E rate \in Rates : Close(u, rate)
        \/ \E request \in RegisterReqs(u) : Register(u, request)
        \/ \E s, c \in Contracts : \E commit \in CommitReqs(u, s) : Commit(u, commit, c)
        \/ \E s, c \in Contracts : Lock(u, s, c)
        \/ \E c \in Contracts : Withdraw(u, c)
  BY DEF FundsStep
<1>kinv. IInv /\ Owned /\ (\A v \in Made : DOMAIN deposits[v] = DepositNames)
         /\ (\A c \in Contracts : \A v \in funding[c] : v \in Made)
  BY DEF KInv, JInv, IInv, FundsLocked
<1>2. CASE Fund(u) \/ Mine(u) \/ Recover(u)
  BY <1>2, <1>kinv, OwnedOutside DEF Fund, Mine, Recover
<1>3. CASE Confirm(u)
  BY <1>3, <1>kinv, OwnedStep, DepositStatusKept DEF Confirm
<1>4. CASE Return(u)
  BY <1>4, <1>kinv, OwnedStep, DepositStatusKept DEF Return
<1>5. CASE \E rate \in Rates : Close(u, rate)
  BY <1>5, <1>kinv, OwnedStep, DepositStatusKept DEF Close
<1>6. CASE \E request \in RegisterReqs(u) : Register(u, request)
  <2>1. CreateDeposit(Null).status \in DepositStatus
    BY Names DEF CreateDeposit, DepositNames, DepositStatus, DepositStages
  <2>. QED  BY <1>6, <1>kinv, <2>1, OwnedNew DEF Register
<1>7. ASSUME NEW s \in Contracts, NEW c \in Contracts, NEW commit \in CommitReqs(u, s),
             Commit(u, commit, c)
      PROVE  Owned'
  <2>. DEFINE deposit == LockDeposit(CreateDeposit(commit.covenant), commit.covenant)
  <2>1. PICK request \in RegisterReqs(u) : commit = CreateCommitReq(s, Outputs[s], request)
    BY DEF CommitReqs
  <2>2. commit.registration = request
    BY <2>1 DEF CreateCommitReq
  <2>3. deposit.status \in DepositStatus
    BY CreateKeeps, DepositStatusKept
  <2>4. chain[u].stage # "absent" /\ MakeDeposit(u, request, deposit) /\ UNCHANGED chain
    BY <1>7, <2>2 DEF Commit
  <2>. HIDE DEF deposit
  <2>. QED  BY <1>kinv, <2>3, <2>4, OwnedNew
<1>8. ASSUME NEW s \in Contracts, NEW c \in Contracts, Lock(u, s, c) PROVE Owned'
  <2>. DEFINE covenant == CreateLockReq(s, Outputs[s], requests[u]).covenant
              d        == LockDeposit(deposits[u], covenant)
  <2>1. u \in Made /\ deposits' = [deposits EXCEPT ![u] = d] /\ UNCHANGED <<requests, chain>>
    BY <1>8 DEF Lock
  <2>2. d.status \in DepositStatus
    BY <2>1, <1>kinv, DepositStatusKept
  <2>. HIDE DEF d
  <2>. QED  BY <2>1, <2>2, <1>kinv, OwnedStep
<1>9. ASSUME NEW c \in Contracts, Withdraw(u, c) PROVE Owned'
  <2>1. ReleaseDeposit(deposits[u]).status \in DepositStatus
    BY <1>9, <1>kinv, DepositStatusKept DEF Withdraw
  <2>. QED  BY <1>9, <2>1, <1>kinv, OwnedStep DEF Withdraw
<1>. QED  BY <1>1, <1>2, <1>3, <1>4, <1>5, <1>6, <1>7, <1>8, <1>9

LEMMA StagedStep == ASSUME KInv, Next PROVE Staged'
<1>names. /\ DOMAIN contracts = Contracts
          /\ \A c \in Contracts : DOMAIN contracts[c] = ContractNames
  BY DEF KInv, JInv, IInv, ContractsOK, OutputOK
<1>1. CASE UNCHANGED contracts
  BY <1>1 DEF KInv, Staged
<1>2. ASSUME NEW c \in Contracts, NEW contract, contract.status \in ContractStages,
             contracts' = [contracts EXCEPT ![c] = contract]
      PROVE  Staged'
  BY <1>2, <1>names DEF KInv, Staged
<1>3. ASSUME NEW u \in Utxos, Confirm(u) PROVE Staged'
  BY <1>3, <1>names, CourseKeeps DEF Confirm, KInv, Staged
<1>4. ASSUME NEW u \in Utxos, NEW commit, NEW c \in Contracts, Commit(u, commit, c)
      PROVE  Staged'
  <2>1. AddContractFunds(contracts[c], FALSE, Value[u]).status \in ContractStages
    BY <1>names, Names DEF AddContractFunds, KInv, Staged
  <2>. QED  BY <1>2, <1>4, <2>1 DEF Commit
<1>5. ASSUME NEW u \in Utxos, NEW s, NEW c \in Contracts, Lock(u, s, c)
      PROVE  Staged'
  <2>1. AddContractFunds(contracts[c], TRUE, Value[u]).status \in ContractStages
    BY <1>names, Names DEF AddContractFunds, KInv, Staged
  <2>. QED  BY <1>2, <1>5, <2>1 DEF Lock
<1>6. ASSUME NEW u \in Utxos, NEW c \in Contracts, Withdraw(u, c) PROVE Staged'
  <2>1. RemContractFunds(contracts[c], deposits[u].confirmed, Value[u]).status
          \in ContractStages
    BY <1>names, CourseKeeps DEF KInv, Staged
  <2>. QED  BY <1>2, <1>6, <2>1 DEF Withdraw
<1>7. CASE FundsStep
  BY <1>1, <1>3, <1>4, <1>5, <1>6, <1>7
     DEF FundsStep, Fund, Mine, Recover, Return, Close, Register
<1>8. ASSUME NEW c \in Contracts,
             \/ Cancel(c) \/ Secure(c) \/ Activate(c) \/ Spend(c)
             \/ \E path \in DOMAIN Outputs[c] : CloseWithOutput(c, path)
      PROVE  Staged'
  <2>1. \A count, sum, machine, txid :
          /\ CancelContract(contracts[c]).status \in ContractStages
          /\ SecureContract(contracts[c], count, sum).status \in ContractStages
          /\ ActivateContract(contracts[c], 0).status \in ContractStages
          /\ CloseContract(contracts[c], machine).status \in ContractStages
          /\ SpendContract(contracts[c], txid).status \in ContractStages
    BY <1>names, ContractStatusKept
  <2>. QED  BY <1>2, <1>8, <2>1 DEF Cancel, Secure, Activate, Spend, CloseWithOutput, Move
<1>9. CASE ContractStep
  BY <1>8, <1>9 DEF ContractStep
<1>. QED  BY <1>1, <1>7, <1>9 DEF Next, MakeAccount, Tick, Broadcast

LEMMA KStep == KInv /\ [Next]_vars => KInv'
<1>. SUFFICES ASSUME KInv, [Next]_vars PROVE KInv'
  OBVIOUS
<1>1. JInv'
  BY NextKeeps DEF KInv
<1>2. CASE Next
  <2>1. AgesOK' /\ OutputsStay
    BY <1>2, ChainSteps DEF KInv, JInv
  <2>2. Staged'
    BY <1>2, StagedStep
  <2>3. ASSUME FundsStep PROVE Owned'
    BY <2>1, <2>3, OwnedFunds
  <2>4. ASSUME UNCHANGED <<requests, deposits>> PROVE Owned'
    BY <2>1, <2>4, OwnedOutside DEF KInv
  <2>5. Owned'
    BY <1>2, <2>3, <2>4
       DEF Next, MakeAccount, Tick, Broadcast, ContractStep, Cancel, Secure, Activate,
           Spend, CloseWithOutput, Move
  <2>. QED  BY <1>1, <2>1, <2>2, <2>5 DEF KInv
<1>3. CASE UNCHANGED vars
  BY <1>1, <1>3 DEF vars, KInv, AgesOK, Owned, OwnedBy, Staged, Made
<1>. QED  BY <1>2, <1>3

LEMMA KInitially == Init => KInv
<1>. SUFFICES ASSUME Init PROVE KInv
  OBVIOUS
<1>1. AgesOK /\ Owned
  BY CustodyAssumption DEF Init, AgesOK, Owned, Made
<1>2. CreateContract.status = "published"
  BY Names DEF CreateContract, ContractNames
<1>3. Staged
  BY <1>2 DEF Init, Staged, ContractStages
<1>. QED  BY <1>1, <1>3, JInitially DEF KInv

\* Deposits are of outputs on the chain and of their owners' accounts, and each
\* fund of a contract is a deposit under a covenant for it and no other
\* (core/validation/{deposit,covenant}.ts), whatever requests are sent to
\* whichever contract.
THEOREM TypeCorrect == Spec => []TypeOK
<1>1. KInv => TypeOK
  <2>. SUFFICES ASSUME KInv PROVE TypeOK
    OBVIOUS
  <2>1. /\ DOMAIN requests = Made
        /\ \A c \in Contracts : \A u \in funding[c] : u \in Made /\ LockedFor(deposits[u], u, c)
    BY DEF KInv, JInv, IInv, RequestsOK, FundsLocked
  <2>2. \A c, u : CovenantOf(u, c).cid = c
    BY DEF CovenantOf, CreateCovenant
  <2>. QED  BY <2>1, <2>2 DEF KInv, AgesOK, Owned, OwnedBy, Staged, LockedFor, TypeOK
<1>. QED  BY <1>1, KInitially, KStep, PTL DEF Spec

-----------------------------------------------------------------------------
(* The promise of Pledge. What is pledged to a contract is its funds, while  *)
(* it is secured and not canceled; what has spent an output by its key is a  *)
(* transaction the agent completed, so the funds of a contract are spent by  *)
(* its own settlement only, all of them together.                            *)

\* A lock passes after some time; null is no contract and nothing that is on the
\* chain; and a template of a contract is not that of a return.
PledgeApart ==
    /\ Locktime # 0
    /\ Null \notin Contracts
    /\ \A id, addr, value : [id |-> id, addr |-> addr, value |-> value] # Null
    /\ \A output, script : [output |-> output, script |-> script] # Null
    /\ \A c \in Contracts : \A path \in DOMAIN Outputs[c] :
         \A addr, value : Outputs[c][path] # [addr |-> addr, value |-> value]

\* The accounts of the agent, by their locktime.
Timed == \A account \in accounts : account.locktime = Locktime

\* What stands for an output on the chain, and what has spent it.
SpentWell(u) ==
    LET spent == chain[u].spent IN
    /\ chain[u].stage # "absent"
    /\ \/ spent.script = TRUE
       \/ /\ spent.script = FALSE
          /\ \E tx \in txs : /\ spent.output = tx.output
                             /\ \E in \in tx.vin : in.utxo = chain[u].utxo

Placed ==
    \A u \in Utxos :
        /\ chain[u].stage = "absent" <=> chain[u].utxo = Null
        /\ chain[u].spent # Null => SpentWell(u)

\* What the status of a contract says of it.
StandsWell(contract, c) ==
    /\ contract.status = "published" => contract.secured = FALSE /\ contract.canceled = FALSE
    /\ contract.status = "canceled" => contract.canceled = TRUE
    /\ contract.status \in {"secured", "active", "closed", "spent"} =>
          contract.secured = TRUE /\ contract.canceled = FALSE
    /\ contract.status = "spent" => contract.machine_vout \in DOMAIN Outputs[c]

Standing == \A c \in Contracts : StandsWell(contracts[c], c)

QInv == KInv /\ Timed /\ Placed /\ Standing

-----------------------------------------------------------------------------
(* The invariant *)

LEMMA FundsStand ==
    ASSUME NEW contract, DOMAIN contract = ContractNames, NEW c, StandsWell(contract, c),
           NEW confirmed, NEW value
    PROVE  \A updated \in {AddContractFunds(contract, confirmed, value),
                           ConfirmContractFunds(contract, value),
                           RemContractFunds(contract, confirmed, value)} :
             /\ updated.secured = contract.secured /\ updated.canceled = contract.canceled
             /\ StandsWell(updated, c)
<1>1. /\ AddContractFunds(contract, confirmed, value).secured = contract.secured
      /\ AddContractFunds(contract, confirmed, value).canceled = contract.canceled
  BY Names DEF AddContractFunds
<1>2. /\ ConfirmContractFunds(contract, value).secured = contract.secured
      /\ ConfirmContractFunds(contract, value).canceled = contract.canceled
  BY Names DEF AddContractFunds, ConfirmContractFunds
<1>3. /\ RemContractFunds(contract, confirmed, value).secured = contract.secured
      /\ RemContractFunds(contract, confirmed, value).canceled = contract.canceled
  BY Names DEF RemContractFunds
<1>. QED  BY <1>1, <1>2, <1>3, CourseKeeps DEF StandsWell

Stands(contract, c) ==
    StandsWell(contract, c) /\ contract.secured = TRUE /\ contract.canceled = FALSE

LEMMA StagesStand ==
    ASSUME NEW contract, DOMAIN contract = ContractNames, NEW c, StandsWell(contract, c)
    PROVE  /\ StandsWell(CancelContract(contract), c)
           /\ CancelContract(contract).canceled = TRUE
           /\ contract.status = "published" =>
                 \A count, sum : Stands(SecureContract(contract, count, sum), c)
           /\ contract.status = "secured" => Stands(ActivateContract(contract, 0), c)
           /\ contract.status = "active" =>
                 \A machine : Stands(CloseContract(contract, machine), c)
           /\ contract.status = "closed" /\ contract.machine_vout \in DOMAIN Outputs[c] =>
                 \A txid : Stands(SpendContract(contract, txid), c)
<1>1. /\ CancelContract(contract).status = "canceled"
      /\ CancelContract(contract).canceled = TRUE
  BY Names DEF CancelContract
<1>2. ASSUME NEW count, NEW sum
      PROVE  /\ SecureContract(contract, count, sum).status = "secured"
             /\ SecureContract(contract, count, sum).secured = TRUE
             /\ SecureContract(contract, count, sum).canceled = contract.canceled
  BY Names DEF SecureContract
<1>3. /\ ActivateContract(contract, 0).status = "active"
      /\ ActivateContract(contract, 0).secured = contract.secured
      /\ ActivateContract(contract, 0).canceled = contract.canceled
  BY Names DEF ActivateContract
<1>4. ASSUME NEW machine
      PROVE  /\ CloseContract(contract, machine).status = "closed"
             /\ CloseContract(contract, machine).secured = contract.secured
             /\ CloseContract(contract, machine).canceled = contract.canceled
  BY Names DEF CloseContract
<1>5. ASSUME NEW txid
      PROVE  /\ SpendContract(contract, txid).status = "spent"
             /\ SpendContract(contract, txid).machine_vout = contract.machine_vout
             /\ SpendContract(contract, txid).secured = contract.secured
             /\ SpendContract(contract, txid).canceled = contract.canceled
  BY Names DEF SpendContract
<1>. QED  BY <1>1, <1>2, <1>3, <1>4, <1>5 DEF StandsWell, Stands

LEMMA TimedStep == ASSUME Timed, Next PROVE Timed'
<1>1. ASSUME NEW f, NEW id, MakeAccount(f, id) PROVE Timed'
  <2>1. CreateAccount(AccountRequest(f), Device, id).locktime = Locktime
    BY DEF CreateAccount, AccountRequest
  <2>. QED  BY <1>1, <2>1 DEF MakeAccount, Timed
<1>2. ASSUME UNCHANGED accounts PROVE Timed'
  BY <1>2 DEF Timed
<1>3. CASE FundsStep
  BY <1>2, <1>3, FundsStepChain
<1>4. CASE ContractStep
  BY <1>2, <1>4 DEF ContractStep, Cancel, Secure, Activate, Spend, CloseWithOutput, Move
<1>. QED  BY <1>1, <1>2, <1>3, <1>4 DEF Next, Tick, Broadcast

\* What the agent's transactions spend is on the chain, one output each.
LEMMA TxInputs ==
    ASSUME KInv, NEW tx \in txs, NEW in \in tx.vin
    PROVE  \E v \in Made : /\ v \in Utxos /\ chain[v].stage # "absent"
                           /\ in.utxo = chain[v].utxo /\ in.utxo = requests[v].utxo
<1>1. Known(tx)
  BY DEF KInv, JInv, TxsKnown
<1>2. \E v \in Made : in.utxo = requests[v].utxo
  <2>1. CASE \E u \in Made : tx = ReturnTx(u)
    BY <2>1, Inputs
  <2>2. ASSUME NEW c \in Contracts, tx = SettledTx(c)
        PROVE  \E v \in Made : in.utxo = requests[v].utxo
    <3>1. \A u \in funding[c] : u \in Made
      BY DEF KInv, JInv, IInv, FundsLocked
    <3>. QED  BY <2>2, <3>1, Inputs
  <2>. QED  BY <1>1, <2>1, <2>2 DEF Known
<1>. QED  BY <1>2 DEF KInv, Owned, OwnedBy

LEMMA OneOutput ==
    ASSUME KInv, Placed, NEW u \in Utxos, NEW v \in Utxos, chain[v].stage # "absent",
           chain[u].utxo = chain[v].utxo
    PROVE  u = v
<1>1. chain[u].stage # "absent"
  BY DEF Placed
<1>. QED  BY <1>1 DEF KInv, JInv, ChainOK

LEMMA SpentPlaced ==
    ASSUME KInv, Placed, NEW tx, NEW script \in BOOLEAN, chain' = SpentBy(tx, script),
           \A in \in tx.vin : \E v \in Utxos : /\ chain[v].stage # "absent"
                                               /\ in.utxo = chain[v].utxo,
           script \/ tx \in txs, UNCHANGED txs
    PROVE  Placed'
<1>. SUFFICES ASSUME NEW u \in Utxos
              PROVE  /\ chain'[u].stage = "absent" <=> chain'[u].utxo = Null
                     /\ chain'[u].spent # Null => SpentWell(u)'
  BY DEF Placed
<1>1. DOMAIN chain[u] = {"stage", "utxo", "age", "spent"}
  BY DEF KInv, JInv, ChainOK
<1>2. CASE chain'[u] = chain[u]
  <2>1. /\ chain[u].stage = "absent" <=> chain[u].utxo = Null
        /\ chain[u].spent # Null => SpentWell(u)
    BY DEF Placed
  <2>2. SpentWell(u) => SpentWell(u)'
    BY <1>2 DEF SpentWell
  <2>. QED  BY <1>2, <2>1, <2>2
<1>3. CASE \E in \in tx.vin : in.utxo = chain[u].utxo
  <2>1. chain'[u] = [chain[u] EXCEPT !.spent = [output |-> tx.output, script |-> script]]
    BY <1>3 DEF SpentBy
  <2>2. /\ chain'[u].stage = chain[u].stage /\ chain'[u].utxo = chain[u].utxo
        /\ chain'[u].spent = [output |-> tx.output, script |-> script]
    BY <1>1, <2>1
  <2>3. chain[u].stage # "absent" /\ chain[u].utxo # Null
    BY <1>3 DEF Placed
  <2>4. SpentWell(u)'
    BY <1>3, <2>2, <2>3 DEF SpentWell
  <2>. QED  BY <2>2, <2>3, <2>4
<1>4. chain'[u] = chain[u] \/ \E in \in tx.vin : in.utxo = chain[u].utxo
  BY DEF SpentBy
<1>. QED  BY <1>2, <1>3, <1>4

\* A step of the chain that spends nothing, or of what is not on the chain.
LEMMA UnspentPlaced ==
    ASSUME PledgeApart, KInv, Placed, txs \subseteq txs',
           \A u \in Utxos :
              /\ chain'[u].spent = chain[u].spent
              /\ \/ /\ chain'[u].stage = chain[u].stage
                    /\ chain'[u].utxo = chain[u].utxo
                 \/ /\ chain[u].stage # "absent" /\ chain'[u].stage # "absent"
                    /\ chain'[u].utxo = chain[u].utxo
                 \/ /\ chain[u].stage = "absent" /\ chain'[u].stage # "absent"
                    /\ chain'[u].utxo # Null
    PROVE  Placed'
<1>. SUFFICES ASSUME NEW u \in Utxos
              PROVE  /\ chain'[u].stage = "absent" <=> chain'[u].utxo = Null
                     /\ chain'[u].spent # Null => SpentWell(u)'
  BY DEF Placed
<1>1. /\ chain[u].stage = "absent" <=> chain[u].utxo = Null
      /\ chain[u].spent # Null => SpentWell(u)
  BY DEF Placed
<1>2. chain'[u].stage = "absent" <=> chain'[u].utxo = Null
  BY <1>1
<1>3. ASSUME chain'[u].spent # Null PROVE SpentWell(u)'
  <2>1. SpentWell(u) /\ chain[u].stage # "absent"
    BY <1>1, <1>3 DEF SpentWell
  <2>2. /\ chain'[u].spent = chain[u].spent /\ chain'[u].utxo = chain[u].utxo
        /\ chain'[u].stage # "absent"
    BY <2>1
  <2>. QED  BY <2>1, <2>2 DEF SpentWell
<1>. QED  BY <1>2, <1>3

LEMMA TickKeeps ==
    ASSUME KInv, Tick, NEW u \in Utxos
    PROVE  /\ chain'[u].stage = chain[u].stage /\ chain'[u].utxo = chain[u].utxo
           /\ chain'[u].spent = chain[u].spent
           /\ chain[u].age = Locktime => chain'[u].age = Locktime
<1>1. DOMAIN chain[u] = {"stage", "utxo", "age", "spent"}
  BY DEF KInv, JInv, ChainOK
<1>2. \/ chain'[u] = chain[u]
      \/ chain[u].age < Locktime /\ chain'[u] = [chain[u] EXCEPT !.age = chain[u].age + 1]
  BY DEF Tick, Young
<1>3. chain[u].age < Locktime => chain[u].age # Locktime
  BY CustodyAssumption
<1>. QED  BY <1>1, <1>2, <1>3

LEMMA PlacedStep == ASSUME PledgeApart, KInv, Placed, Next PROVE Placed'
<1>1. ASSUME UNCHANGED chain, txs \subseteq txs' PROVE Placed'
  BY <1>1, UnspentPlaced
<1>fields. \A u \in Utxos : DOMAIN chain[u] = {"stage", "utxo", "age", "spent"}
           /\ DOMAIN chain = Utxos
  BY DEF KInv, JInv, ChainOK
<1>2. ASSUME NEW u \in Utxos, Fund(u) PROVE Placed'
  <2>1. PICK account :
          /\ chain[u].stage = "absent" /\ UNCHANGED txs
          /\ chain' = [chain EXCEPT ![u].stage = "mempool",
                         ![u].utxo = [id |-> u, addr |-> account.deposit_addr,
                                      value |-> Value[u]]]
    BY <1>2 DEF Fund
  <2>2. /\ chain'[u].stage = "mempool" /\ chain'[u].spent = chain[u].spent
        /\ chain'[u].utxo = [id |-> u, addr |-> account.deposit_addr, value |-> Value[u]]
        /\ \A v \in Utxos : v # u => chain'[v] = chain[v]
    BY <1>fields, <2>1
  <2>3. chain'[u].utxo # Null
    BY <2>2 DEF PledgeApart
  <2>. QED  BY <2>1, <2>2, <2>3, UnspentPlaced
<1>3. ASSUME NEW u \in Utxos, Mine(u) PROVE Placed'
  <2>1. /\ chain[u].stage = "mempool" /\ UNCHANGED txs
        /\ chain' = [chain EXCEPT ![u].stage = "mined"]
    BY <1>3 DEF Mine
  <2>2. /\ chain'[u].stage = "mined" /\ chain'[u].spent = chain[u].spent
        /\ chain'[u].utxo = chain[u].utxo
        /\ \A v \in Utxos : v # u => chain'[v] = chain[v]
    BY <1>fields, <2>1
  <2>. QED  BY <2>1, <2>2, UnspentPlaced
<1>4. CASE Tick
  <2>1. UNCHANGED txs
    BY <1>4 DEF Tick
  <2>. QED  BY <1>4, <2>1, TickKeeps, UnspentPlaced
<1>5. ASSUME NEW tx \in txs, Broadcast(tx) PROVE Placed'
  <2>1. chain' = SpentBy(tx, FALSE) /\ UNCHANGED txs
    BY <1>5 DEF Broadcast
  <2>2. \A in \in tx.vin : \E v \in Utxos : /\ chain[v].stage # "absent"
                                            /\ in.utxo = chain[v].utxo
    BY TxInputs
  <2>. QED  BY <2>1, <2>2, SpentPlaced
<1>6. ASSUME NEW u \in Utxos, Recover(u) PROVE Placed'
  <2>1. PICK tx \in RecoveryTxs(u) : chain' = SpentBy(tx, TRUE)
    BY <1>6 DEF Recover
  <2>2. \A in \in tx.vin : in.utxo = chain[u].utxo
    BY <2>1 DEF RecoveryTxs, SignRecoveryTx
  <2>3. chain[u].stage # "absent" /\ UNCHANGED txs
    BY <1>6 DEF Recover
  <2>. QED  BY <2>1, <2>2, <2>3, SpentPlaced
<1>7. CASE FundsStep
  BY <1>1, <1>2, <1>3, <1>6, <1>7, FundsStepChain
<1>8. CASE ContractStep
  BY <1>1, <1>8 DEF ContractStep, Cancel, Secure, Activate, Spend, CloseWithOutput, Move
<1>9. CASE \E f \in Funders, id \in TokenIds : MakeAccount(f, id)
  BY <1>1, <1>9 DEF MakeAccount
<1>. QED  BY <1>4, <1>5, <1>7, <1>8, <1>9 DEF Next

\* The steps after which every output is pledged as it was.
PledgesStay ==
    \A u \in Utxos : \A c \in Contracts : PledgedTo(u, c)' <=> PledgedTo(u, c)

\* A contract moves on, and its funds with it while it is not secured.
LEMMA FreeFunds ==
    ASSUME QInv, NEW c \in Contracts, NEW contract, StandsWell(contract, c),
           contracts[c].status \in {"published", "canceled"},
           contract.secured = contracts[c].secured, contract.canceled = contracts[c].canceled,
           contracts'[c] = contract,
           \A e \in Contracts : e # c => contracts'[e] = contracts[e] /\ funding'[e] = funding[e]
    PROVE  Standing' /\ PledgesStay
<1>1. contracts[c].secured = FALSE \/ contracts[c].canceled = TRUE
  BY DEF QInv, Standing, StandsWell
<1>3. Standing'
  BY DEF QInv, Standing, StandsWell
<1>4. PledgesStay
  <2>. SUFFICES ASSUME NEW u \in Utxos, NEW e \in Contracts
                PROVE  PledgedTo(u, e)' <=> PledgedTo(u, e)
    BY DEF PledgesStay
  <2>1. CASE e = c
    BY <2>1, <1>1 DEF PledgedTo
  <2>2. CASE e # c
    BY <2>2 DEF PledgedTo
  <2>. QED  BY <2>1, <2>2
<1>. QED  BY <1>3, <1>4

LEMMA FundsStepStands ==
    ASSUME QInv, FundsStep
    PROVE  Standing' /\ PledgesStay
<1>names. /\ DOMAIN contracts = Contracts /\ DOMAIN funding = Contracts
          /\ \A c \in Contracts : /\ DOMAIN contracts[c] = ContractNames
                                  /\ StandsWell(contracts[c], c)
  BY DEF QInv, KInv, JInv, IInv, ContractsOK, FundsLocked, OutputOK, Standing
<1>1. ASSUME UNCHANGED <<contracts, funding>> PROVE Standing' /\ PledgesStay
  BY <1>1, <1>names DEF Standing, StandsWell, PledgesStay, PledgedTo
<1>2. ASSUME NEW u \in Utxos, Confirm(u) PROVE Standing' /\ PledgesStay
  <2>1. /\ contracts' = [c \in Contracts |->
             IF u \in funding[c] THEN ConfirmContractFunds(contracts[c], Value[u])
             ELSE contracts[c]]
        /\ funding' = funding
    BY <1>2 DEF Confirm
  <2>2. ASSUME NEW c \in Contracts
        PROVE  /\ StandsWell(contracts'[c], c)
               /\ contracts'[c].secured = contracts[c].secured
               /\ contracts'[c].canceled = contracts[c].canceled
    BY <2>1, <1>names, FundsStand
  <2>3. Standing'
    BY <2>2 DEF Standing, StandsWell
  <2>4. PledgesStay
    BY <2>1, <2>2 DEF PledgesStay, PledgedTo
  <2>. QED  BY <2>3, <2>4
<1>3. ASSUME NEW c \in Contracts, NEW confirmed, NEW value, Fundable(c), NEW u,
             contracts' = [contracts EXCEPT ![c] =
                             AddContractFunds(contracts[c], confirmed, value)],
             funding' = [funding EXCEPT ![c] = funding[c] \cup {u}]
      PROVE  Standing' /\ PledgesStay
  <2>. DEFINE contract == AddContractFunds(contracts[c], confirmed, value)
  <2>1. contracts[c].status = "published"
    BY <1>3 DEF Fundable
  <2>2. /\ contract.secured = contracts[c].secured
        /\ contract.canceled = contracts[c].canceled
        /\ StandsWell(contract, c)
    BY <1>names, FundsStand
  <2>3. /\ contracts'[c] = contract
        /\ \A e \in Contracts : e # c => /\ contracts'[e] = contracts[e]
                                         /\ funding'[e] = funding[e]
    BY <1>3, <1>names
  <2>. HIDE DEF contract
  <2>. QED  BY <2>1, <2>2, <2>3, FreeFunds
<1>4. ASSUME NEW u \in Utxos, NEW c \in Contracts, Withdraw(u, c)
      PROVE  Standing' /\ PledgesStay
  <2>1. /\ contracts[c].status \in {"published", "canceled"}
        /\ contracts' = [contracts EXCEPT ![c] =
                           RemContractFunds(contracts[c], deposits[u].confirmed, Value[u])]
        /\ funding' = [funding EXCEPT ![c] = funding[c] \ {u}]
    BY <1>4 DEF Withdraw
  <2>. DEFINE contract == RemContractFunds(contracts[c], deposits[u].confirmed, Value[u])
  <2>2. /\ contract.secured = contracts[c].secured
        /\ contract.canceled = contracts[c].canceled
        /\ StandsWell(contract, c)
    BY <1>names, FundsStand
  <2>3. /\ contracts'[c] = contract
        /\ \A e \in Contracts : e # c => /\ contracts'[e] = contracts[e]
                                         /\ funding'[e] = funding[e]
    BY <2>1, <1>names
  <2>. HIDE DEF contract
  <2>. QED  BY <2>1, <2>2, <2>3, FreeFunds
<1>5. ASSUME NEW u \in Utxos, NEW c \in Contracts, NEW commit, Commit(u, commit, c)
      PROVE  Standing' /\ PledgesStay
  <2>1. /\ Fundable(c)
        /\ contracts' = [contracts EXCEPT ![c] =
                           AddContractFunds(contracts[c], FALSE, Value[u])]
        /\ funding' = [funding EXCEPT ![c] = funding[c] \cup {u}]
    BY <1>5 DEF Commit
  <2>. QED  BY <2>1, <1>3
<1>6. ASSUME NEW u \in Utxos, NEW s, NEW c \in Contracts, Lock(u, s, c)
      PROVE  Standing' /\ PledgesStay
  <2>1. /\ Fundable(c)
        /\ contracts' = [contracts EXCEPT ![c] =
                           AddContractFunds(contracts[c], TRUE, Value[u])]
        /\ funding' = [funding EXCEPT ![c] = funding[c] \cup {u}]
    BY <1>6 DEF Lock
  <2>. QED  BY <2>1, <1>3
<1>. QED  BY <1>1, <1>2, <1>4, <1>5, <1>6
             DEF FundsStep, Fund, Mine, Recover, Return, Close, Register

\* A contract moves on, its funds stay with it.
LEMMA ContractMoves ==
    ASSUME QInv, NEW c \in Contracts, NEW contract, StandsWell(contract, c), Move(c, contract)
    PROVE  /\ Standing'
           /\ \A u \in Utxos : \A e \in Contracts :
                 PledgedTo(u, e)' <=>
                    IF e = c THEN u \in funding[c] /\ contract.secured /\ ~contract.canceled
                    ELSE PledgedTo(u, e)
<1>1. /\ contracts'[c] = contract /\ funding' = funding
      /\ \A e \in Contracts : e # c => contracts'[e] = contracts[e]
  BY DEF Move, QInv, KInv, JInv, IInv, ContractsOK
<1>2. Standing'
  BY <1>1 DEF QInv, Standing, StandsWell
<1>3. ASSUME NEW u \in Utxos, NEW e \in Contracts
      PROVE  PledgedTo(u, e)' <=>
                IF e = c THEN u \in funding[c] /\ contract.secured /\ ~contract.canceled
                ELSE PledgedTo(u, e)
  <2>1. CASE e = c
    BY <2>1, <1>1 DEF PledgedTo
  <2>2. CASE e # c
    BY <2>2, <1>1 DEF PledgedTo
  <2>. QED  BY <2>1, <2>2
<1>. QED  BY <1>2, <1>3

\* A secured contract moves on, and stays so.
LEMMA SecuredMoves ==
    ASSUME QInv, NEW c \in Contracts, NEW contract, Stands(contract, c), Move(c, contract),
           contracts[c].status \in {"secured", "active", "closed", "spent"}
    PROVE  Standing' /\ PledgesStay
<1>1. /\ contract.secured = TRUE /\ contract.canceled = FALSE /\ StandsWell(contract, c)
      /\ contracts[c].secured = TRUE /\ contracts[c].canceled = FALSE
  BY DEF Stands, QInv, Standing, StandsWell
<1>2. /\ Standing'
      /\ \A u \in Utxos : \A e \in Contracts :
            PledgedTo(u, e)' <=>
               IF e = c THEN u \in funding[c] /\ contract.secured /\ ~contract.canceled
               ELSE PledgedTo(u, e)
  BY <1>1, ContractMoves
<1>3. \A u \in Utxos : PledgedTo(u, c) <=> u \in funding[c]
  BY <1>1 DEF PledgedTo
<1>. QED  BY <1>1, <1>2, <1>3 DEF PledgesStay

LEMMA ContractsStand ==
    ASSUME QInv, ContractStep
    PROVE  /\ Standing'
           /\ \/ PledgesStay
              \/ \E c \in Contracts :
                    /\ Cancel(c) \/ Secure(c)
                    /\ \A u \in Utxos : \A e \in Contracts :
                         PledgedTo(u, e)' <=> IF e = c THEN u \in funding[c] /\ Secure(c)
                                              ELSE PledgedTo(u, e)
<1>. DEFINE Goal == /\ Standing'
                    /\ \/ PledgesStay
                       \/ \E c \in Contracts :
                            /\ Cancel(c) \/ Secure(c)
                            /\ \A u \in Utxos : \A e \in Contracts :
                                 PledgedTo(u, e)' <=>
                                    IF e = c THEN u \in funding[c] /\ Secure(c)
                                    ELSE PledgedTo(u, e)
<1>1. PICK c \in Contracts :
        \/ Cancel(c) \/ Secure(c) \/ Activate(c) \/ Spend(c)
        \/ \E path \in DOMAIN Outputs[c] : CloseWithOutput(c, path)
  BY DEF ContractStep
<1>names. /\ DOMAIN contracts[c] = ContractNames /\ StandsWell(contracts[c], c)
          /\ contracts[c].status = "closed" => contracts[c].machine_vout \in DOMAIN Outputs[c]
  BY DEF QInv, KInv, JInv, IInv, ContractsOK, OutputOK, Standing
<1>stages. /\ StandsWell(CancelContract(contracts[c]), c)
           /\ CancelContract(contracts[c]).canceled = TRUE
           /\ contracts[c].status = "published" =>
                 \A count, sum : Stands(SecureContract(contracts[c], count, sum), c)
           /\ contracts[c].status = "secured" => Stands(ActivateContract(contracts[c], 0), c)
           /\ contracts[c].status = "active" =>
                 \A machine : Stands(CloseContract(contracts[c], machine), c)
           /\ contracts[c].status = "closed" =>
                 \A txid : Stands(SpendContract(contracts[c], txid), c)
  BY <1>names, StagesStand
<1>2. CASE Secure(c)
  <2>. DEFINE contract == SecureContract(contracts[c], Cardinality(funding[c]),
                                         SumOf(funding[c]))
  <2>1. Move(c, contract) /\ contracts[c].status = "published"
    BY <1>2 DEF Secure
  <2>2. Stands(contract, c)
    BY <2>1, <1>stages
  <2>. HIDE DEF contract
  <2>3. contract.secured = TRUE /\ contract.canceled = FALSE /\ StandsWell(contract, c)
    BY <2>2 DEF Stands
  <2>4. /\ Standing'
        /\ \A u \in Utxos : \A e \in Contracts :
              PledgedTo(u, e)' <=>
                 IF e = c THEN u \in funding[c] /\ contract.secured /\ ~contract.canceled
                 ELSE PledgedTo(u, e)
    BY <2>1, <2>3, ContractMoves
  <2>5. \A u \in Utxos : \A e \in Contracts :
           PledgedTo(u, e)' <=> IF e = c THEN u \in funding[c] /\ Secure(c)
                                ELSE PledgedTo(u, e)
    BY <1>2, <2>3, <2>4
  <2>. QED  BY <1>2, <2>4, <2>5
<1>3. CASE Cancel(c)
  <2>. DEFINE contract == CancelContract(contracts[c])
  <2>1. Move(c, contract)
    BY <1>3 DEF Cancel
  <2>2. StandsWell(contract, c) /\ contract.canceled = TRUE
    BY <1>stages
  <2>. HIDE DEF contract
  <2>3. /\ Standing'
        /\ \A u \in Utxos : \A e \in Contracts :
              PledgedTo(u, e)' <=>
                 IF e = c THEN u \in funding[c] /\ contract.secured /\ ~contract.canceled
                 ELSE PledgedTo(u, e)
    BY <2>1, <2>2, ContractMoves
  <2>4. CASE Secure(c)
    BY <2>4, <1>2
  <2>5. CASE ~Secure(c)
    <3>1. \A u \in Utxos : \A e \in Contracts :
             PledgedTo(u, e)' <=> IF e = c THEN u \in funding[c] /\ Secure(c)
                                  ELSE PledgedTo(u, e)
      BY <2>2, <2>3, <2>5
    <3>. QED  BY <1>3, <2>3, <3>1
  <2>. QED  BY <2>4, <2>5
<1>4. CASE Activate(c)
  BY <1>4, <1>stages, SecuredMoves DEF Activate
<1>5. CASE Spend(c)
  BY <1>5, <1>stages, SecuredMoves DEF Spend
<1>6. ASSUME NEW path \in DOMAIN Outputs[c], CloseWithOutput(c, path) PROVE Goal
  BY <1>6, <1>stages, SecuredMoves DEF CloseWithOutput
<1>. QED  BY <1>1, <1>2, <1>3, <1>4, <1>5, <1>6

LEMMA QInitially == Init /\ PledgeApart => QInv
<1>. SUFFICES ASSUME Init, PledgeApart PROVE QInv
  OBVIOUS
<1>1. Timed /\ Placed
  BY DEF Init, Timed, Placed
<1>2. /\ CreateContract.status = "published"
      /\ CreateContract.secured = FALSE /\ CreateContract.canceled = FALSE
  BY Names DEF CreateContract, ContractNames, Initial, Flags
<1>3. Standing
  BY <1>2 DEF Init, Standing, StandsWell
<1>. QED  BY <1>1, <1>3, KInitially DEF QInv

LEMMA StandingStep == ASSUME QInv, Next PROVE Standing'
<1>1. ASSUME UNCHANGED contracts PROVE Standing'
  BY <1>1 DEF QInv, Standing, StandsWell
<1>. QED  BY <1>1, FundsStepStands, ContractsStand DEF Next, MakeAccount, Tick, Broadcast

LEMMA QStep == ASSUME PledgeApart, QInv, [Next]_vars PROVE QInv'
<1>1. KInv'
  BY KStep DEF QInv
<1>2. CASE Next
  BY <1>1, <1>2, TimedStep, PlacedStep, StandingStep DEF QInv
<1>3. CASE UNCHANGED vars
  BY <1>1, <1>3 DEF vars, QInv, Timed, Placed, SpentWell, Standing, StandsWell
<1>. QED  BY <1>2, <1>3

-----------------------------------------------------------------------------
(* What Pledge sees *)

PledgeAt(u) == IF \E c \in Contracts : PledgedTo(u, c)
               THEN CHOOSE c \in Contracts : PledgedTo(u, c) ELSE Null

PathOf(output) ==
    CHOOSE path \in Paths : \E c \in Contracts : path \in DOMAIN Outputs[c]
                                                 /\ Outputs[c][path] = output

FateBy(spent) ==
    CASE spent = Null -> "held"
      [] spent # Null /\ spent.script -> "recovered"
      [] OTHER -> IF \E c \in Contracts : spent.output \in Range(Outputs[c])
                  THEN PathOf(spent.output) ELSE "returned"

LEMMA Fates == \A u : Fate(u) = FateBy(chain[u].spent) /\ Fate(u)' = FateBy(chain'[u].spent)
BY DEF Fate, FateBy, PathOf

LEMMA FateIs ==
    ASSUME PledgeApart, NEW output
    PROVE  /\ FateBy(Null) = "held"
           /\ FateBy([output |-> output, script |-> TRUE]) = "recovered"
           /\ (\E c \in Contracts : output \in Range(Outputs[c]))
                 => FateBy([output |-> output, script |-> FALSE]) = PathOf(output)
           /\ ~(\E c \in Contracts : output \in Range(Outputs[c]))
                 => FateBy([output |-> output, script |-> FALSE]) = "returned"
<1>1. \A script : [output |-> output, script |-> script] # Null
  BY DEF PledgeApart
<1>. QED  BY <1>1 DEF FateBy

LEMMA FundsOne ==
    ASSUME KInv, NEW c \in Contracts, NEW e \in Contracts, NEW u, u \in funding[c],
           u \in funding[e]
    PROVE  c = e
<1>1. \A k \in Contracts : CovenantOf(u, k).cid = k
  BY DEF CovenantOf, CreateCovenant
<1>. QED  BY <1>1 DEF KInv, JInv, IInv, FundsLocked, LockedFor

\* Each output is pledged to the one contract it funds, or free.
Pledges ==
    \A u \in Utxos :
        /\ \A c \in Contracts : PledgeAt(u) = c <=> PledgedTo(u, c)
        /\ (\A c \in Contracts : ~PledgedTo(u, c)) => PledgeAt(u) = Null

LEMMA PledgesOne == QInv /\ PledgeApart => Pledges
<1>. SUFFICES ASSUME QInv, PledgeApart, NEW u \in Utxos
              PROVE  /\ \A c \in Contracts : PledgeAt(u) = c <=> PledgedTo(u, c)
                     /\ (\A c \in Contracts : ~PledgedTo(u, c)) => PledgeAt(u) = Null
  BY DEF Pledges
<1>1. \A c, e \in Contracts : PledgedTo(u, c) /\ PledgedTo(u, e) => c = e
  BY FundsOne DEF PledgedTo, QInv
<1>2. CASE \E c \in Contracts : PledgedTo(u, c)
  <2>1. PledgeAt(u) \in Contracts /\ PledgedTo(u, PledgeAt(u))
    BY <1>2 DEF PledgeAt
  <2>. QED  BY <1>1, <1>2, <2>1
<1>3. CASE \A c \in Contracts : ~PledgedTo(u, c)
  BY <1>3 DEF PledgeAt, PledgeApart
<1>. QED  BY <1>2, <1>3

LEMMA PledgesNext == ASSUME PledgeApart PROVE QInv' => Pledges'
<1>1. QInv => Pledges
  BY PledgesOne
<1>. QED  BY <1>1, PTL

\* The funds of a contract that is not spent are spent by no transaction.
LEMMA FundsHeld ==
    ASSUME PledgeApart, QInv, NEW c \in Contracts, contracts[c].status # "spent",
           NEW u \in funding[c]
    PROVE  u \in Utxos /\ Fate(u) \in {"held", "recovered"}
<1>1. u \in Made /\ u \in Utxos /\ Open(deposits[u]) /\ chain[u].stage # "absent"
  BY DEF QInv, KInv, JInv, IInv, FundsLocked, FundsOpen, Owned, OwnedBy
<1>2. ASSUME NEW tx \in txs, NEW in \in tx.vin, in.utxo = chain[u].utxo PROVE FALSE
  <2>1. Known(tx)
    BY DEF QInv, KInv, JInv, TxsKnown
  <2>2. \A v \in Made : in.utxo = requests[v].utxo => v = u
    <3>. SUFFICES ASSUME NEW v \in Made, in.utxo = requests[v].utxo PROVE v = u
      OBVIOUS
    <3>1. v \in Utxos /\ chain[v].utxo = requests[v].utxo
      BY DEF QInv, KInv, Owned, OwnedBy
    <3>. QED  BY <1>1, <1>2, <3>1, OneOutput DEF QInv
  <2>3. ASSUME NEW v \in Made, ~Open(deposits[v]), tx = ReturnTx(v) PROVE FALSE
    BY <1>1, <2>2, <2>3, Inputs
  <2>4. ASSUME NEW e \in Contracts, contracts[e].status = "spent", tx = SettledTx(e)
        PROVE  FALSE
    <3>1. PICK v \in funding[e] : in.utxo = requests[v].utxo
      BY <2>4, Inputs
    <3>2. v \in Made
      BY DEF QInv, KInv, JInv, IInv, FundsLocked
    <3>3. u \in funding[e]
      BY <2>2, <3>1, <3>2
    <3>. QED  BY <2>4, <3>3, FundsOne DEF QInv
  <2>. QED  BY <2>1, <2>3, <2>4 DEF Known
<1>3. chain[u].spent = Null \/ (chain[u].spent # Null /\ chain[u].spent.script = TRUE)
  BY <1>1, <1>2 DEF QInv, Placed, SpentWell
<1>4. FateBy(chain[u].spent) \in {"held", "recovered"}
  BY <1>3 DEF FateBy
<1>. QED  BY <1>1, <1>4, Fates

-----------------------------------------------------------------------------
(* Every step maps to a step of Pledge or to none *)

Matured == {u \in Utxos : chain[u].age = Locktime}

LEMMA Views ==
    /\ \A c : Promise!Pledged(c) = {u \in Utxos : PledgeAt(u) = c}
    /\ Promise!Held = {u \in Utxos : Fate(u) = "held"}
BY DEF Promise!Pledged, Promise!Held, PledgeAt

LEMMA AtStays ==
    ASSUME PledgeApart, QInv, QInv', PledgesStay
    PROVE  \A u \in Utxos : PledgeAt(u)' = PledgeAt(u)
<1>1. Pledges /\ Pledges'
  BY PledgesOne, PledgesNext
<1>. QED  BY <1>1 DEF Pledges, PledgesStay

LEMMA NoStep ==
    ASSUME \A u \in Utxos : PledgeAt(u)' = PledgeAt(u),
           \A u \in Utxos : Fate(u)' = Fate(u), Matured' = Matured
    PROVE  UNCHANGED Promise!vars
BY DEF Promise!vars, PledgeAt, Matured

LEMMA MatureStep ==
    ASSUME \A u \in Utxos : PledgeAt(u)' = PledgeAt(u),
           \A u \in Utxos : Fate(u)' = Fate(u), Matured \subseteq Matured'
    PROVE  Promise!Next
<1>1. PICK S \in SUBSET Utxos : S = Matured'
  BY DEF Matured
<1>2. Matured' = Matured \cup S
  BY <1>1
<1>3. Promise!Mature(S)
  BY <1>2 DEF Promise!Mature, PledgeAt, Matured
<1>. QED  BY <1>3 DEF Promise!Next

LEMMA RecoverStep ==
    ASSUME NEW u \in Utxos, Fate(u) = "held", u \in Matured,
           \A v \in Utxos : PledgeAt(v)' = PledgeAt(v),
           Fate(u)' = "recovered", \A v \in Utxos : v # u => Fate(v)' = Fate(v),
           Matured' = Matured
    PROVE  Promise!Next
<1>1. u \in Promise!Held \cap Matured
  BY Views
<1>2. Promise!Recover(u)
  BY <1>1 DEF Promise!Recover, PledgeAt, Matured
<1>. QED  BY <1>2 DEF Promise!Next

LEMMA ReturnStep ==
    ASSUME NEW u \in Utxos, Fate(u) = "held", PledgeAt(u) = Null,
           \A v \in Utxos : PledgeAt(v)' = PledgeAt(v),
           Fate(u)' = "returned", \A v \in Utxos : v # u => Fate(v)' = Fate(v),
           Matured' = Matured
    PROVE  Promise!Next
<1>1. u \in Promise!Held
  BY Views
<1>2. Promise!Return(u)
  BY <1>1 DEF Promise!Return, PledgeAt, Matured
<1>. QED  BY <1>2 DEF Promise!Next

LEMMA PayStep ==
    ASSUME NEW c \in Contracts, NEW path \in Paths,
           \E u \in Utxos : PledgeAt(u) = c,
           \A u \in Utxos : PledgeAt(u) = c => Fate(u) = "held" /\ Fate(u)' = path,
           \A u \in Utxos : PledgeAt(u) # c => Fate(u)' = Fate(u),
           \A u \in Utxos : PledgeAt(u)' = PledgeAt(u), Matured' = Matured
    PROVE  Promise!Next
<1>1. /\ Promise!Pledged(c) # {}
      /\ Promise!Pledged(c) \subseteq Promise!Held
      /\ \A u \in Utxos : u \in Promise!Pledged(c) <=> PledgeAt(u) = c
  BY Views
<1>2. Promise!Pay(c, path)
  BY <1>1 DEF Promise!Pay, PledgeAt, Matured
<1>. QED  BY <1>2 DEF Promise!Next

LEMMA LiftStep ==
    ASSUME NEW c \in Contracts,
           \A u \in Utxos : PledgeAt(u) = c =>
               Fate(u) \in {"held", "recovered"} /\ PledgeAt(u)' = Null,
           \A u \in Utxos : PledgeAt(u) # c => PledgeAt(u)' = PledgeAt(u),
           \A u \in Utxos : Fate(u)' = Fate(u), Matured' = Matured
    PROVE  Promise!Next
<1>1. \A u \in Utxos : u \in Promise!Pledged(c) <=> PledgeAt(u) = c
  BY Views
<1>2. Promise!Pledged(c) \subseteq Utxos
  BY Views
<1>3. Promise!Lift(c)
  BY <1>1, <1>2 DEF Promise!Lift, PledgeAt, Matured
<1>. QED  BY <1>3 DEF Promise!Next

LEMMA PledgeStep ==
    ASSUME NEW c \in Contracts, NEW S \in SUBSET Utxos, S # {},
           \A u \in Utxos : PledgeAt(u) # c,
           \A u \in S : PledgeAt(u) = Null /\ Fate(u) \in {"held", "recovered"},
           \A u \in Utxos : PledgeAt(u)' = IF u \in S THEN c ELSE PledgeAt(u),
           \A u \in Utxos : Fate(u)' = Fate(u), Matured' = Matured
    PROVE  Promise!Next
<1>1. Promise!Pledged(c) = {}
  BY Views
<1>2. Promise!PledgeTo(c, S)
  BY <1>1 DEF Promise!PledgeTo, PledgeAt, Matured
<1>. QED  BY <1>2 DEF Promise!Next

LEMMA ChainSame ==
    ASSUME UNCHANGED chain
    PROVE  (\A u \in Utxos : Fate(u)' = Fate(u)) /\ Matured' = Matured
<1>1. \A u \in Utxos : Fate(u)' = Fate(u)
  BY Fates
<1>2. Matured' = Matured
  BY DEF Matured
<1>. QED  BY <1>1, <1>2

LEMMA ContractsSame == ASSUME UNCHANGED <<contracts, funding>> PROVE PledgesStay
BY DEF PledgesStay, PledgedTo

\* What a transaction on the chain changes.
LEMMA SpentView ==
    ASSUME PledgeApart, KInv, NEW tx, NEW script, chain' = SpentBy(tx, script)
    PROVE  /\ Matured' = Matured
           /\ \A u \in Utxos :
                /\ (\E in \in tx.vin : in.utxo = chain[u].utxo)
                      => Fate(u)' = FateBy([output |-> tx.output, script |-> script])
                /\ ~(\E in \in tx.vin : in.utxo = chain[u].utxo) => Fate(u)' = Fate(u)
<1>1. \A u \in Utxos : DOMAIN chain[u] = {"stage", "utxo", "age", "spent"}
  BY DEF KInv, JInv, ChainOK
<1>2. ASSUME NEW u \in Utxos, \E in \in tx.vin : in.utxo = chain[u].utxo
      PROVE  /\ chain'[u].age = chain[u].age
             /\ chain'[u].spent = [output |-> tx.output, script |-> script]
  <2>1. chain'[u] = [chain[u] EXCEPT !.spent = [output |-> tx.output, script |-> script]]
    BY <1>2 DEF SpentBy
  <2>. QED  BY <1>1, <2>1
<1>3. ASSUME NEW u \in Utxos, ~(\E in \in tx.vin : in.utxo = chain[u].utxo)
      PROVE  chain'[u] = chain[u]
  BY <1>3 DEF SpentBy
<1>4. Matured' = Matured
  BY <1>2, <1>3 DEF Matured
<1>. QED  BY <1>2, <1>3, <1>4, Fates

\* A return reaches the chain: of a deposit that is free.
LEMMA ReturnMaps ==
    ASSUME PledgeApart, QInv, QInv', NEW u \in Made, ~Open(deposits[u]),
           ReturnTx(u) \in txs, Broadcast(ReturnTx(u))
    PROVE  Promise!Next
<1>. DEFINE tx == ReturnTx(u)
<1>1. /\ u \in Utxos /\ chain[u].stage # "absent" /\ requests[u].utxo = chain[u].utxo
  BY DEF QInv, KInv, Owned, OwnedBy
<1>2. /\ chain' = SpentBy(tx, FALSE)
      /\ \A in \in tx.vin : Unspent(in.utxo)
      /\ UNCHANGED <<contracts, funding>>
  BY DEF Broadcast
<1>3. /\ tx.output = ReturnTemplate(requests[u])
      /\ \E in \in tx.vin : in.utxo = chain[u].utxo
      /\ \A in \in tx.vin : in.utxo = chain[u].utxo
  <2>1. PICK sig : /\ tx.output = ReturnTemplate(requests[u])
                   /\ tx.vin = {[utxo |-> requests[u].utxo, sig |-> sig]}
    BY DEF ReturnTx, GetReturnTx
  <2>. HIDE DEF tx
  <2>2. [utxo |-> requests[u].utxo, sig |-> sig] \in tx.vin
    BY <2>1
  <2>. QED  BY <1>1, <2>1, <2>2
<1>. HIDE DEF tx
<1>4. Fate(u) = "held"
  <2>1. PICK w \in Utxos : chain[w].utxo = chain[u].utxo /\ chain[w].spent = Null
    BY <1>2, <1>3 DEF Unspent
  <2>2. w = u
    BY <1>1, <2>1, OneOutput DEF QInv
  <2>. QED  BY <2>1, <2>2, Fates, FateIs
<1>5. PledgeAt(u) = Null
  <2>1. \A c \in Contracts : ~PledgedTo(u, c)
    BY DEF PledgedTo, QInv, KInv, JInv, FundsOpen
  <2>. QED  BY <1>1, <2>1, PledgesOne DEF Pledges
<1>6. \A v \in Utxos : PledgeAt(v)' = PledgeAt(v)
  BY <1>2, AtStays, ContractsSame
<1>7. Fate(u)' = "returned"
  <2>1. ~(\E c \in Contracts : tx.output \in Range(Outputs[c]))
    BY <1>3 DEF ReturnTemplate, Range, PledgeApart
  <2>2. Fate(u)' = FateBy([output |-> tx.output, script |-> FALSE])
    BY <1>1, <1>2, <1>3, SpentView DEF QInv
  <2>. QED  BY <2>1, <2>2, FateIs
<1>8. \A v \in Utxos : v # u => Fate(v)' = Fate(v)
  BY <1>1, <1>2, <1>3, SpentView, OneOutput DEF QInv
<1>9. Matured' = Matured
  BY <1>2, SpentView DEF QInv
<1>. QED  BY <1>1, <1>4, <1>5, <1>6, <1>7, <1>8, <1>9, ReturnStep

\* A settlement reaches the chain: all funds of the contract are held, and paid
\* on one path.
LEMMA PayMaps ==
    ASSUME PledgeApart, QInv, QInv', NEW c \in Contracts, contracts[c].status = "spent",
           SettledTx(c) \in txs, Broadcast(SettledTx(c))
    PROVE  Promise!Next \/ UNCHANGED Promise!vars
<1>. DEFINE tx   == SettledTx(c)
            path == PathOf(tx.output)
<1>1. /\ chain' = SpentBy(tx, FALSE)
      /\ \A in \in tx.vin : Unspent(in.utxo)
      /\ UNCHANGED <<contracts, funding>>
  BY DEF Broadcast
<1>2. \A u \in funding[c] : /\ u \in Made /\ u \in Utxos /\ chain[u].stage # "absent"
                            /\ requests[u].utxo = chain[u].utxo
  BY DEF QInv, KInv, Owned, OwnedBy, JInv, IInv, FundsLocked
<1>3. /\ contracts[c].machine_vout \in DOMAIN Outputs[c]
      /\ contracts[c].secured = TRUE /\ contracts[c].canceled = FALSE
  BY DEF QInv, Standing, StandsWell
<1>4. tx.output = Outputs[c][contracts[c].machine_vout]
  BY DEF SettledTx
<1>5. \A u \in funding[c] : \E in \in tx.vin : in.utxo = chain[u].utxo
  <2>1. \A u \in funding[c] :
           /\ FundsInput(u, c, contracts[c].machine_vout) \in tx.vin
           /\ FundsInput(u, c, contracts[c].machine_vout).utxo = requests[u].utxo
    BY DEF SettledTx, FundsInput
  <2>. QED  BY <1>2, <2>1
<1>6. \A in \in tx.vin : \E u \in funding[c] : in.utxo = chain[u].utxo
  BY <1>2, Inputs
<1>. HIDE DEF tx
<1>7. path \in Paths
  <2>1. contracts[c].machine_vout \in Paths
    BY <1>3 DEF Paths
  <2>. QED  BY <1>3, <1>4, <2>1 DEF PathOf
<1>8. tx.output \in Range(Outputs[c])
  BY <1>3, <1>4 DEF Range
<1>9. FateBy([output |-> tx.output, script |-> FALSE]) = path
  BY <1>8, FateIs
<1>. HIDE DEF path
<1>10. \A u \in Utxos : PledgeAt(u) = c <=> u \in funding[c]
  BY <1>3, PledgesOne DEF Pledges, PledgedTo
<1>11. \A u \in Utxos : PledgeAt(u)' = PledgeAt(u)
  BY <1>1, AtStays, ContractsSame
<1>12. /\ Matured' = Matured
       /\ \A u \in Utxos :
            /\ (\E in \in tx.vin : in.utxo = chain[u].utxo) => Fate(u)' = path
            /\ ~(\E in \in tx.vin : in.utxo = chain[u].utxo) => Fate(u)' = Fate(u)
  BY <1>1, <1>9, SpentView DEF QInv
<1>13. \A u \in Utxos : u \notin funding[c] => Fate(u)' = Fate(u)
  <2>. SUFFICES ASSUME NEW u \in Utxos, u \notin funding[c],
                       NEW in \in tx.vin, in.utxo = chain[u].utxo
                PROVE  FALSE
    BY <1>12
  <2>1. PICK v \in funding[c] : in.utxo = chain[v].utxo
    BY <1>6
  <2>2. u = v
    BY <1>2, <2>1, OneOutput DEF QInv
  <2>. QED  BY <2>1, <2>2
<1>14. CASE funding[c] = {}
  BY <1>11, <1>12, <1>13, <1>14, NoStep
<1>15. CASE funding[c] # {}
  <2>1. \E u \in Utxos : PledgeAt(u) = c
    BY <1>2, <1>10, <1>15
  <2>2. ASSUME NEW u \in Utxos, PledgeAt(u) = c PROVE Fate(u) = "held" /\ Fate(u)' = path
    <3>1. u \in funding[c]
      BY <1>10, <2>2
    <3>2. PICK in \in tx.vin : in.utxo = chain[u].utxo
      BY <1>5, <3>1
    <3>3. PICK w \in Utxos : chain[w].utxo = chain[u].utxo /\ chain[w].spent = Null
      BY <1>1, <3>2 DEF Unspent
    <3>4. w = u
      BY <1>2, <3>1, <3>3, OneOutput DEF QInv
    <3>5. Fate(u) = "held"
      BY <3>3, <3>4, Fates, FateIs
    <3>. QED  BY <1>12, <3>2, <3>5
  <2>3. \A u \in Utxos : PledgeAt(u) # c => Fate(u)' = Fate(u)
    BY <1>10, <1>13
  <2>. QED  BY <1>7, <1>11, <1>12, <2>1, <2>2, <2>3, PayStep
<1>. QED  BY <1>14, <1>15

\* A recovery reaches the chain, once the lock of the output has passed.
LEMMA RecoverMaps ==
    ASSUME PledgeApart, QInv, QInv', NEW u \in Utxos, Recover(u)
    PROVE  Promise!Next
<1>1. PICK tx \in RecoveryTxs(u) : /\ \A in \in tx.vin : RecoveryValid(in, chain[u].age)
                                   /\ chain' = SpentBy(tx, TRUE)
  BY DEF Recover
<1>2. chain[u].stage = "mined" /\ chain[u].spent = Null /\ UNCHANGED <<contracts, funding>>
  BY DEF Recover
<1>3. PICK account \in accounts, rate \in Rates :
        tx = SignRecoveryTx(RecoveryConfig(account), Owner[u], rate, account.return_addr,
                            chain[u].utxo)
  BY <1>1 DEF RecoveryTxs
<1>4. /\ \A in \in tx.vin : in.utxo = chain[u].utxo /\ in.ctx.sequence = account.locktime
      /\ \E in \in tx.vin : in.utxo = chain[u].utxo
  <2>. DEFINE ctx == RecoveryCtx(RecoveryConfig(account))
              in  == [utxo |-> chain[u].utxo, key |-> Owner[u], ctx |-> ctx]
  <2>1. ctx.sequence = account.locktime
    BY DEF RecoveryCtx, RecoveryConfig
  <2>2. tx.vin = {in}
    BY <1>3 DEF SignRecoveryTx
  <2>. HIDE DEF ctx
  <2>3. in.utxo = chain[u].utxo /\ in.ctx = ctx
    OBVIOUS
  <2>. HIDE DEF in
  <2>. QED  BY <2>1, <2>2, <2>3
<1>5. u \in Matured
  <2>1. account.locktime = Locktime
    BY DEF QInv, Timed
  <2>2. chain[u].age >= Locktime
    BY <1>1, <1>4, <2>1 DEF RecoveryValid
  <2>3. chain[u].age \in 0..Locktime
    BY DEF QInv, KInv, AgesOK
  <2>. QED  BY <2>2, <2>3, CustodyAssumption DEF Matured
<1>6. Fate(u) = "held"
  BY <1>2, Fates, FateIs
<1>7. Fate(u)' = "recovered" /\ Matured' = Matured
  <2>1. FateBy([output |-> tx.output, script |-> TRUE]) = "recovered"
    BY FateIs
  <2>2. /\ Fate(u)' = FateBy([output |-> tx.output, script |-> TRUE])
        /\ Matured' = Matured
    BY <1>1, <1>4, SpentView DEF QInv
  <2>. QED  BY <2>1, <2>2
<1>8. \A v \in Utxos : v # u => Fate(v)' = Fate(v)
  BY <1>1, <1>2, <1>4, SpentView, OneOutput DEF QInv
<1>9. \A v \in Utxos : PledgeAt(v)' = PledgeAt(v)
  BY <1>2, AtStays, ContractsSame
<1>. QED  BY <1>5, <1>6, <1>7, <1>8, <1>9, RecoverStep

\* A contract is secured: its funds are pledged to it, if it has any.
LEMMA SecureMaps ==
    ASSUME PledgeApart, QInv, QInv', NEW c \in Contracts, Secure(c),
           \A u \in Utxos : \A e \in Contracts :
              PledgedTo(u, e)' <=> IF e = c THEN u \in funding[c] /\ Secure(c)
                                   ELSE PledgedTo(u, e)
    PROVE  Promise!Next \/ UNCHANGED Promise!vars
<1>1. contracts[c].status = "published" /\ UNCHANGED chain
  BY DEF Secure, Move
<1>2. \A u \in Utxos : ~PledgedTo(u, c)
  BY <1>1 DEF PledgedTo, QInv, Standing, StandsWell
<1>3. \A u \in funding[c] : u \in Utxos /\ Fate(u) \in {"held", "recovered"}
  BY <1>1, FundsHeld
<1>4. Pledges /\ Pledges'
  BY PledgesOne, PledgesNext
<1>5. \A u \in Utxos : PledgeAt(u) # c
  BY <1>2, <1>4 DEF Pledges
<1>6. \A u \in funding[c] : PledgeAt(u) = Null
  <2>1. \A u \in funding[c] : \A e \in Contracts : ~PledgedTo(u, e)
    BY <1>2, <1>3, FundsOne DEF PledgedTo, QInv
  <2>. QED  BY <1>3, <1>4, <2>1 DEF Pledges
<1>7. ASSUME NEW u \in Utxos
      PROVE  PledgeAt(u)' = IF u \in funding[c] THEN c ELSE PledgeAt(u)
  <2>1. CASE u \in funding[c]
    BY <1>4, <2>1 DEF Pledges
  <2>2. CASE u \notin funding[c]
    <3>1. \A e \in Contracts : PledgedTo(u, e)' <=> PledgedTo(u, e)
      BY <1>2, <2>2
    <3>. QED  BY <1>4, <2>2, <3>1 DEF Pledges
  <2>. QED  BY <2>1, <2>2
<1>8. (\A u \in Utxos : Fate(u)' = Fate(u)) /\ Matured' = Matured
  BY <1>1, ChainSame
<1>9. CASE funding[c] = {}
  BY <1>7, <1>8, <1>9, NoStep
<1>10. CASE funding[c] # {}
  <2>1. funding[c] \in SUBSET Utxos
    BY <1>3
  <2>. QED  BY <1>3, <1>5, <1>6, <1>7, <1>8, <1>10, <2>1, PledgeStep
<1>. QED  BY <1>9, <1>10

\* A contract is canceled: its funds are free, and still held.
LEMMA CancelMaps ==
    ASSUME PledgeApart, QInv, QInv', NEW c \in Contracts, Cancel(c),
           \A u \in Utxos : \A e \in Contracts :
              PledgedTo(u, e)' <=> e # c /\ PledgedTo(u, e)
    PROVE  Promise!Next
<1>1. contracts[c].status # "spent" /\ UNCHANGED chain
  BY DEF Cancel, Move
<1>2. Pledges /\ Pledges'
  BY PledgesOne, PledgesNext
<1>3. ASSUME NEW u \in Utxos, PledgeAt(u) = c
      PROVE  Fate(u) \in {"held", "recovered"} /\ PledgeAt(u)' = Null
  <2>1. PledgedTo(u, c)
    BY <1>2, <1>3 DEF Pledges
  <2>2. u \in funding[c]
    BY <2>1 DEF PledgedTo
  <2>3. \A e \in Contracts : PledgedTo(u, e) => e = c
    BY <2>2, FundsOne DEF PledgedTo, QInv
  <2>4. PledgeAt(u)' = Null
    BY <1>2, <2>3 DEF Pledges
  <2>. QED  BY <1>1, <2>2, <2>4, FundsHeld
<1>4. ASSUME NEW u \in Utxos, PledgeAt(u) # c PROVE PledgeAt(u)' = PledgeAt(u)
  <2>1. \A e \in Contracts : PledgedTo(u, e)' <=> PledgedTo(u, e)
    BY <1>2, <1>4 DEF Pledges
  <2>. QED  BY <1>2, <2>1 DEF Pledges
<1>5. (\A u \in Utxos : Fate(u)' = Fate(u)) /\ Matured' = Matured
  BY <1>1, ChainSame
<1>. QED  BY <1>3, <1>4, <1>5, LiftStep

\* Coins come to be, are mined and age.
LEMMA ChainMaps ==
    ASSUME PledgeApart, QInv, QInv',
           Tick \/ \E u \in Utxos : Fund(u) \/ Mine(u)
    PROVE  Promise!Next
<1>1. UNCHANGED <<contracts, funding>>
  BY DEF Tick, Fund, Mine
<1>2. \A u \in Utxos : PledgeAt(u)' = PledgeAt(u)
  BY <1>1, AtStays, ContractsSame
<1>fields. /\ DOMAIN chain = Utxos
           /\ \A u \in Utxos : DOMAIN chain[u] = {"stage", "utxo", "age", "spent"}
  BY DEF QInv, KInv, JInv, ChainOK
<1>3. \A u \in Utxos : /\ chain'[u].spent = chain[u].spent
                       /\ chain[u].age = Locktime => chain'[u].age = Locktime
  <2>1. CASE Tick
    BY <2>1, TickKeeps DEF QInv
  <2>2. ASSUME NEW u \in Utxos, Fund(u) \/ Mine(u)
        PROVE  \A v \in Utxos : /\ chain'[v].spent = chain[v].spent
                                /\ chain[v].age = Locktime => chain'[v].age = Locktime
    BY <1>fields, <2>2 DEF Fund, Mine
  <2>. QED  BY <2>1, <2>2
<1>4. \A u \in Utxos : Fate(u)' = Fate(u)
  BY <1>3, Fates
<1>5. Matured \subseteq Matured'
  BY <1>3 DEF Matured
<1>. QED  BY <1>2, <1>4, <1>5, MatureStep

LEMMA StepMaps ==
    ASSUME PledgeApart, QInv, [Next]_vars
    PROVE  [Promise!Next]_(Promise!vars)
<1>. DEFINE Goal == Promise!Next \/ UNCHANGED Promise!vars
<1>1. QInv'
  BY QStep
<1>2. ASSUME UNCHANGED chain, PledgesStay PROVE Goal
  BY <1>1, <1>2, AtStays, ChainSame, NoStep
<1>3. CASE Tick
  BY <1>1, <1>3, ChainMaps
<1>4. ASSUME NEW tx \in txs, Broadcast(tx) PROVE Goal
  <2>1. Known(tx)
    BY DEF QInv, KInv, JInv, TxsKnown
  <2>2. ASSUME NEW u \in Made, ~Open(deposits[u]), tx = ReturnTx(u) PROVE Goal
    BY <1>1, <1>4, <2>2, ReturnMaps
  <2>3. ASSUME NEW c \in Contracts, contracts[c].status = "spent", tx = SettledTx(c)
        PROVE  Goal
    BY <1>1, <1>4, <2>3, PayMaps
  <2>. QED  BY <2>1, <2>2, <2>3 DEF Known
<1>5. ASSUME FundsStep PROVE Goal
  <2>1. PledgesStay
    BY <1>5, FundsStepStands
  <2>2. ASSUME NEW u \in Utxos, Recover(u) PROVE Goal
    BY <1>1, <2>2, RecoverMaps
  <2>3. ASSUME NEW u \in Utxos, Fund(u) \/ Mine(u) PROVE Goal
    BY <1>1, <2>3, ChainMaps
  <2>4. \/ UNCHANGED chain
        \/ \E u \in Utxos : Recover(u) \/ Fund(u) \/ Mine(u)
    BY <1>5, FundsStepChain
  <2>. QED  BY <1>2, <2>1, <2>2, <2>3, <2>4
<1>6. ASSUME ContractStep PROVE Goal
  <2>1. UNCHANGED chain
    BY <1>6 DEF ContractStep, Cancel, Secure, Activate, Spend, CloseWithOutput, Move
  <2>2. CASE PledgesStay
    BY <1>2, <2>1, <2>2
  <2>3. ASSUME NEW c \in Contracts, Cancel(c) \/ Secure(c),
               \A u \in Utxos : \A e \in Contracts :
                  PledgedTo(u, e)' <=> IF e = c THEN u \in funding[c] /\ Secure(c)
                                       ELSE PledgedTo(u, e)
        PROVE  Goal
    <3>1. CASE Secure(c)
      BY <1>1, <2>3, <3>1, SecureMaps
    <3>2. CASE ~Secure(c)
      <4>1. \A u \in Utxos : \A e \in Contracts :
               PledgedTo(u, e)' <=> e # c /\ PledgedTo(u, e)
        BY <2>3, <3>2
      <4>. QED  BY <1>1, <2>3, <3>2, <4>1, CancelMaps
    <3>. QED  BY <3>1, <3>2
  <2>. QED  BY <1>6, <2>2, <2>3, ContractsStand
<1>7. CASE \E f \in Funders, id \in TokenIds : MakeAccount(f, id)
  BY <1>2, <1>7, ContractsSame DEF MakeAccount
<1>8. CASE UNCHANGED vars
  BY <1>2, <1>8, ContractsSame DEF vars
<1>. QED  BY <1>3, <1>4, <1>5, <1>6, <1>7, <1>8 DEF Next

LEMMA InitMaps == ASSUME PledgeApart, Init PROVE Promise!Init
<1>1. \A u \in Utxos : \A c \in Contracts : ~PledgedTo(u, c)
  BY DEF Init, PledgedTo
<1>2. \A u \in Utxos : PledgeAt(u) = Null
  BY <1>1 DEF PledgeAt
<1>3. \A u \in Utxos : Fate(u) = "held"
  <2>1. \A u \in Utxos : chain[u].spent = Null
    BY DEF Init
  <2>. QED  BY <2>1, Fates, FateIs
<1>4. Matured = {}
  BY DEF Init, Matured, PledgeApart
<1>. QED  BY <1>2, <1>3, <1>4 DEF Promise!Init, PledgeAt, Matured

\* The escrow keeps the promise of Pledge: the outputs of a contract that is
\* secured are paid together, on one of its paths, and returned to no one before
\* it is canceled; only their funders may take them first, when the lock of the
\* recovery script has passed (core/module/contract, core/lib/recovery.ts).
THEOREM PledgeKept == ASSUME PledgeApart PROVE Spec => KeepsPledge
<1>1. Init => QInv
  BY QInitially
<1>2. QInv /\ [Next]_vars => QInv'
  BY QStep
<1>3. Init => Promise!Init
  BY InitMaps
<1>4. QInv /\ [Next]_vars => [Promise!Next]_(Promise!vars)
  BY StepMaps
<1>. QED  BY <1>1, <1>2, <1>3, <1>4, PTL DEF Spec, KeepsPledge, Promise!Spec
=============================================================================
