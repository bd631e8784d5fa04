------------------------------- MODULE Pledge -------------------------------
(***************************************************************************)
(* What an escrow promises of the outputs in its custody. An output is held *)
(* until it is spent; outputs pledged to a contract are paid out together,  *)
(* as it decides, and are returned to no one before the pledge is lifted.   *)
(* Whatever the agent does, an output whose timelock has passed may be      *)
(* recovered by its funder.                                                 *)
(***************************************************************************)
EXTENDS FiniteSets

CONSTANTS Utxos, Contracts, Paths, Free

VARIABLES
    pledge,     \* the contract each output is pledged to, or Free
    fate,       \* "held", "returned", "recovered", or the path it was paid on
    matured     \* the outputs whose timelock has passed

vars == <<pledge, fate, matured>>

Pledged(c) == {u \in Utxos : pledge[u] = c}
Held       == {u \in Utxos : fate[u] = "held"}

Init ==
    /\ pledge = [u \in Utxos |-> Free]
    /\ fate = [u \in Utxos |-> "held"]
    /\ matured = {}

PledgeTo(c, S) ==
    /\ Pledged(c) = {}
    /\ S # {}
    /\ \A u \in S : pledge[u] = Free /\ fate[u] \in {"held", "recovered"}
    /\ pledge' = [u \in Utxos |-> IF u \in S THEN c ELSE pledge[u]]
    /\ UNCHANGED <<fate, matured>>

Lift(c) ==
    /\ \A u \in Pledged(c) : fate[u] \in {"held", "recovered"}
    /\ pledge' = [u \in Utxos |-> IF u \in Pledged(c) THEN Free ELSE pledge[u]]
    /\ UNCHANGED <<fate, matured>>

Pay(c, path) ==
    /\ Pledged(c) # {}
    /\ Pledged(c) \subseteq Held
    /\ fate' = [u \in Utxos |-> IF u \in Pledged(c) THEN path ELSE fate[u]]
    /\ UNCHANGED <<pledge, matured>>

Return(u) ==
    /\ u \in Held
    /\ pledge[u] = Free
    /\ fate' = [fate EXCEPT ![u] = "returned"]
    /\ UNCHANGED <<pledge, matured>>

Recover(u) ==
    /\ u \in Held \cap matured
    /\ fate' = [fate EXCEPT ![u] = "recovered"]
    /\ UNCHANGED <<pledge, matured>>

Mature(S) ==
    /\ matured' = matured \cup S
    /\ UNCHANGED <<pledge, fate>>

Next ==
    \/ \E c \in Contracts :
         \/ Lift(c)
         \/ \E S \in SUBSET Utxos : PledgeTo(c, S)
         \/ \E path \in Paths : Pay(c, path)
    \/ \E u \in Utxos : Return(u) \/ Recover(u)
    \/ \E S \in SUBSET Utxos : Mature(S)

Spec == Init /\ [][Next]_vars
=============================================================================
