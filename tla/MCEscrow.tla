------------------------------ MODULE MCEscrow ------------------------------
(***************************************************************************)
(* A contract that two deposits fund in full, none of them alone.           *)
(***************************************************************************)
EXTENDS Escrow, TLC

CONSTANTS dep1, dep2

MCDeposits == {dep1, dep2}
MCValue    == dep1 :> 8 @@ dep2 :> 9
=============================================================================
