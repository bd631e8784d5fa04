----------------------------- MODULE MCCustody -----------------------------
(***************************************************************************)
(* Two outputs of one funder, at the same address, that only together fund  *)
(* a contract, and two contracts that may take them.                        *)
(***************************************************************************)
EXTENDS Custody, TLC

CONSTANTS alice, wallet, u1, u2, c1, c2, payout, refund

MCOwner == [u \in {u1, u2} |-> alice]
MCValue == u1 :> 1400 @@ u2 :> 1500
MCOutputs == c1 :> ("payout" :> payout @@ "refund" :> refund)
             @@ c2 :> ("refund" :> refund)

\* The return address is that of the key the account is made with, as in
\* test/src/e2e, or one of the funder's wallet, as in demo/06_request_account.ts.
OwnAddr    == [f \in {alice} |-> f]
WalletAddr == [f \in {alice} |-> wallet]
=============================================================================
