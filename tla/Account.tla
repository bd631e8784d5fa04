------------------------------ MODULE Account ------------------------------
(***************************************************************************)
(* The account a funder holds with an agent: core/module/account and        *)
(* core/lib/session.ts. A key is a value, and a taproot address is the key  *)
(* it pays to. A hash, a nonce or a seed is a record of what it is made of, *)
(* so two are equal only when made of the same. The stamp of a token goes   *)
(* with its random id.                                                      *)
(***************************************************************************)
EXTENDS Naturals

CONSTANTS LOCKTIME_MIN, LOCKTIME_MAX    \* of the policy of the agent

\* The signing device: keys and nonces of its own for an id or a seed.
GetId(device, id)       == [device |-> device, id |-> id]
GenNonce(seed, signer)  == [key |-> signer, seed |-> seed]
Hmac(signer, data)      == [key |-> signer, data |-> data]

-----------------------------------------------------------------------------
\* session.ts

SessionSeed(id, signer) == Hmac(signer, id)

SessionPnonce(seed, signer) == GenNonce(seed, signer)

GenSessionToken(signer, id) ==
    [pk |-> signer, id |-> id, pn |-> SessionPnonce(SessionSeed(id, signer), signer)]

-----------------------------------------------------------------------------
\* util.ts and data.ts

AccountHash(request) ==
    [deposit_pk |-> request.deposit_pk, locktime |-> request.locktime,
     return_addr |-> request.return_addr]

AccountAgent(request, device) == GetId(device, AccountHash(request))

\* get_recovery_script(): what the owner of the return address may do alone,
\* once the output is as old as the locktime.
RecoveryScript(pubkey, locktime) == [pubkey |-> pubkey, age |-> locktime]

\* The key the output pays to: the keys of the group, tweaked by the script.
Tapkey(members, script) == [members |-> members, script |-> script]

AccountCtx(deposit_pk, locktime, return_addr, token) ==
    LET tapkey == Tapkey({deposit_pk, token.pk}, RecoveryScript(return_addr, locktime))
    IN [tapkey |-> tapkey, deposit_addr |-> tapkey, session |-> token]

GetAccountCtx(account) ==
    AccountCtx(account.deposit_pk, account.locktime, account.return_addr,
               account.agent_tkn)

CreateAccount(request, device, id) ==
    LET token == GenSessionToken(AccountAgent(request, device), id)
    IN [deposit_pk |-> request.deposit_pk, locktime |-> request.locktime,
        return_addr |-> request.return_addr, agent_tkn |-> token,
        deposit_addr |-> AccountCtx(request.deposit_pk, request.locktime,
                                    request.return_addr, token).deposit_addr]

\* A registration is an account with the rate of the return and the output.
CreateRegistration(account, rate, utxo) ==
    [deposit_pk |-> account.deposit_pk, locktime |-> account.locktime,
     return_addr |-> account.return_addr, agent_tkn |-> account.agent_tkn,
     deposit_addr |-> account.deposit_addr, return_rate |-> rate, utxo |-> utxo]

DepositHash(request) ==
    [account |-> AccountHash(request), agent_tkn |-> request.agent_tkn,
     return_rate |-> request.return_rate, utxo |-> request.utxo]

-----------------------------------------------------------------------------
\* core/validation/account.ts

VerifyAccountReq(request) == request.locktime \in LOCKTIME_MIN..LOCKTIME_MAX

VerifyAccountData(account, signer) ==
    /\ signer = account.deposit_pk
    /\ GetAccountCtx(account).deposit_addr = account.deposit_addr

VerifySessionToken(request, device) ==
    LET agent == AccountAgent(request, device)
        token == request.agent_tkn
    IN /\ token.pk = agent
       /\ token.pn = SessionPnonce(SessionSeed(token.id, agent), agent)

\* verify_deposit_data() of core/validation/deposit.ts, by the client.
VerifyDepositData(deposit, signer) ==
    /\ signer = deposit.deposit_pk
    /\ GetAccountCtx(deposit).deposit_addr = deposit.deposit_addr

VerifyUtxo(request) == request.utxo.addr = GetAccountCtx(request).tapkey
=============================================================================
