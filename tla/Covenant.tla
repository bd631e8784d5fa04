------------------------------ MODULE Covenant ------------------------------
(***************************************************************************)
(* The two-party signatures of a funder and an agent: core/lib/covenant.ts, *)
(* return.ts and recovery.ts, with the checks of core/validation. A partial *)
(* signature holds its key, its nonce and the session it signs: the group,  *)
(* the nonces of both and the message.                                      *)
(***************************************************************************)
EXTENDS Account, FiniteSets

CONSTANTS RETURN_TX_VSIZE, RECOVERY_TXSIZE, DUST_LIMIT

\* create_sighash() with flag 0x81: all of the outputs, and this input alone.
Sighash(output, utxo) == [output |-> output, utxo |-> utxo]

\* Mutant: the tweak is that of the covenant, one for all of its paths.
TweakOfCovenant(cvid, pnonces, sighash) == [cvid |-> cvid, pnonces |-> pnonces]

CovenantTweak(cvid, pnonces, sighash) ==
    [cvid |-> cvid, pnonces |-> pnonces, sighash |-> sighash]

TweakPnonce(pnonce, tweak) == [base |-> pnonce, tweak |-> tweak]

TweakPnonces(pnonces, tweak) == {TweakPnonce(n, tweak) : n \in pnonces}

CovenantSession(acct, cvid, output, pnonce, utxo) ==
    LET pnonces == {pnonce, acct.session.pn}
        sighash == Sighash(output, utxo)
    IN [cvid  |-> cvid,
        token |-> acct.session,
        musig |-> [group   |-> acct.tapkey,
                   pnonces |-> pnonces,
                   tweak   |-> CovenantTweak(cvid, pnonces, sighash),
                   msg     |-> sighash]]

\* SignerAPI.musign() and the functions of the musig2 library.
Musign(musig, seed, signer) ==
    [key |-> signer, pnonce |-> SessionPnonce(seed, signer), musig |-> musig]

\* The nonce a partial signature is made with.
Nonce(psig) == TweakPnonce(psig.pnonce, psig.musig.tweak)

VerifyPsig(musig, psig) ==
    /\ psig.musig = musig
    /\ psig.key \in musig.group.members
    /\ Nonce(psig) \in TweakPnonces(musig.pnonces, musig.tweak)

CombinePsigs(psigs) == psigs

\* What the network accepts for an output of the key and a message: partial
\* signatures of one session by all of its keys with all of its nonces.
SigValid(sig, tapkey, msg) ==
    \E musig \in {psig.musig : psig \in sig} :
        /\ musig.group = tapkey
        /\ musig.msg = msg
        /\ \A psig \in sig : VerifyPsig(musig, psig)
        /\ {psig.key : psig \in sig} = tapkey.members
        /\ {psig.pnonce : psig \in sig} = musig.pnonces

CreateCovenantPsig(session, signer) ==
    Musign(session.musig, session.cvid, signer)

SettleCovenantPsig(session, signer) ==
    Musign(session.musig, SessionSeed(session.token.id, signer), signer)

-----------------------------------------------------------------------------
(* Covenants: one session for each path of the contract. *)

CovenantId(cid, request, outputs) ==
    [cid |-> cid, deposit |-> DepositHash(request), outputs |-> outputs]

CovenantSessions(cvid, outputs, pnonce, request) ==
    [path \in DOMAIN outputs |->
        CovenantSession(GetAccountCtx(request), cvid, outputs[path], pnonce,
                        request.utxo)]

CreateCovenant(cid, outputs, request, signer) ==
    LET cvid     == CovenantId(cid, request, outputs)
        pnonce   == SessionPnonce(cvid, signer)
        sessions == CovenantSessions(cvid, outputs, pnonce, request)
    IN [cid |-> cid, cvid |-> cvid, pnonce |-> pnonce,
        psigs |-> [path \in DOMAIN outputs |->
                      CreateCovenantPsig(sessions[path], signer)]]

VerifyPsigs(sessions, covenant) ==
    \A path \in DOMAIN sessions :
        /\ path \in DOMAIN covenant.psigs
        /\ VerifyPsig(sessions[path].musig, covenant.psigs[path])

\* Mutant: a covenant is taken for the contract it is handed in with.
VerifyPsigsAlone(cid, outputs, covenant, request, device) ==
    LET sessions == CovenantSessions(covenant.cvid, outputs, covenant.pnonce, request)
    IN VerifyPsigs(sessions, covenant)

\* verify_covenant_data(), what it asks of the covenant.
VerifyCovenant(cid, outputs, covenant, request, device) ==
    LET cvid     == CovenantId(cid, request, outputs)
        sessions == CovenantSessions(cvid, outputs, covenant.pnonce, request)
    IN /\ request.agent_tkn.pk = AccountAgent(request, device)
       /\ covenant.cid = cid
       /\ covenant.cvid = cvid
       /\ VerifyPsigs(sessions, covenant)

SettleCovenant(cid, outputs, deposit, covenant, path, device) ==
    LET agent   == AccountAgent(deposit, device)
        cvid    == CovenantId(cid, deposit, outputs)
        session == CovenantSession(GetAccountCtx(deposit), cvid, outputs[path],
                                   covenant.pnonce, deposit.utxo)
    IN CombinePsigs({covenant.psigs[path], SettleCovenantPsig(session, agent)})

-----------------------------------------------------------------------------
(* Returns *)

ReturnTemplate(request) ==
    [addr  |-> request.return_addr,
     value |-> request.utxo.value - request.return_rate * RETURN_TX_VSIZE]

ReturnSession(pnonce, request, output) ==
    CovenantSession(GetAccountCtx(request), DepositHash(request), output, pnonce,
                    request.utxo)

CreateReturnPsig(request, signer) ==
    LET pnonce  == SessionPnonce(DepositHash(request), signer)
        session == ReturnSession(pnonce, request, ReturnTemplate(request))
    IN [pnonce |-> pnonce, psig |-> CreateCovenantPsig(session, signer)]

\* get_return_tx(), a transaction of one input.
GetReturnTx(request, return_psig, device) ==
    LET output  == ReturnTemplate(request)
        session == ReturnSession(return_psig.pnonce, request, output)
        agent   == AccountAgent(request, device)
    IN [output |-> output,
        vin    |-> {[utxo |-> request.utxo,
                     sig  |-> CombinePsigs({return_psig.psig,
                                               SettleCovenantPsig(session, agent)})]}]

-----------------------------------------------------------------------------
(* The requests of a funder: core/module/account/api.ts, deposit/api.ts *)

CreateCommitReq(cid, outputs, registration) ==
    [registration |-> registration,
     covenant     |-> CreateCovenant(cid, outputs, registration, registration.deposit_pk)]

CreateLockReq(cid, outputs, deposit) ==
    [deposit  |-> DepositHash(deposit),
     covenant |-> CreateCovenant(cid, outputs, deposit, deposit.deposit_pk)]

\* The rate of the request is not the return_rate that create_return_psig() reads.
CreateCloseReq(deposit, rate) ==
    [deposit |-> DepositHash(deposit), return_rate |-> rate,
     return_psig |-> CreateReturnPsig(deposit, deposit.deposit_pk)]

-----------------------------------------------------------------------------
(* Recovery by the funder alone *)

\* Mutant: the key of the agent is the one of its device.
ConfigOfDevice(account) ==
    [agent_pk |-> account.agent_tkn.pk.device, deposit_pk |-> account.deposit_pk,
     locktime |-> account.locktime, return_addr |-> account.return_addr]

RecoveryConfig(account) ==
    [agent_pk |-> account.agent_tkn.pk, deposit_pk |-> account.deposit_pk,
     locktime |-> account.locktime, return_addr |-> account.return_addr]

RecoveryCtx(config) ==
    LET script == RecoveryScript(config.return_addr, config.locktime)
    IN [tapkey |-> Tapkey({config.deposit_pk, config.agent_pk}, script),
        script |-> script, sequence |-> config.locktime]

\* sign_recovery_tx(), of the transaction get_recovery_tx() makes.
SignRecoveryTx(config, signer, rate, addr, utxo) ==
    LET ctx == RecoveryCtx(config)
    IN [output |-> [addr |-> addr, value |-> utxo.value - RECOVERY_TXSIZE * rate],
        vin    |-> {[utxo |-> utxo, key |-> signer, ctx |-> ctx]}]

AboveDust(rate, utxo) == utxo.value >= RECOVERY_TXSIZE * rate + DUST_LIMIT

\* What the network asks of the script path of an output of some age.
RecoveryValid(in, age) ==
    /\ in.ctx.tapkey = in.utxo.addr
    /\ in.ctx.tapkey.script = in.ctx.script
    /\ in.key = in.ctx.script.pubkey
    /\ in.ctx.sequence >= in.ctx.script.age
    /\ age >= in.ctx.sequence
=============================================================================
