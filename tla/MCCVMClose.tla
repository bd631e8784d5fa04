----------------------------- MODULE MCCVMClose -----------------------------
(***************************************************************************)
(* A contract that uses the rest of the machine: a hash-locked claim, a    *)
(* lock, a close by two members, the schedule "close|resolve" of           *)
(* docs/resources/get-started.md, and tasks that fall due after it.  Two    *)
(* programs share an id: they have the same method and parameters.          *)
(***************************************************************************)
EXTENDS CVMAtomic

CONSTANTS MCStamps  \* the stamps a statement may carry

MCPathNames == <<"payout", "return">>

Prog(id, method, actions, paths, thold, members) ==
    [prog_id |-> id, method |-> method, actions |-> actions, paths |-> paths,
     thold |-> thold, members |-> members]

MCPrograms ==
  <<Prog("p_bob", "claim", <<"spend">>, <<"payout">>, 1, {"bob"}),
    Prog("p_carol", "endorse", <<"lock", "release">>, <<"return">>, 1, {"carol"}),
    Prog("p_both", "endorse", <<"close">>, <<"*">>, 2, {"alice", "bob"}),
    Prog("p_both", "endorse", <<"spend">>, <<"*">>, 2, {"alice", "bob"}),
    Prog("p_alice", "endorse", <<"dispute">>, <<"*">>, 1, {"alice"}),
    Prog("p_judge", "endorse", <<"resolve">>, <<"*">>, 1, {"carol", "dave"})>>

MCSchedule ==
  <<[at |-> 3, actions |-> <<"close", "resolve">>, paths |-> <<"payout", "return">>],
    [at |-> 4, actions |-> <<"*">>, paths |-> <<"*">>],
    [at |-> 2, actions |-> <<"lock", "dispute">>, paths |-> <<"payout">>]>>

\* A schedule with a lock after the close.
MCLockSchedule ==
  <<[at |-> 3, actions |-> <<"close">>, paths |-> <<"*">>],
    [at |-> 4, actions |-> <<"lock">>, paths |-> <<"payout">>]>>

MCSubstring == {<<"lock", "unlock">>}

Wit(id, action, path, sigs, preimage, stamp) ==
    [prog_id |-> id, action |-> action, path |-> path, sigs |-> sigs,
     preimage |-> preimage, stamp |-> stamp]

MCWitnessesAt(t) ==
    {Wit("p_bob", "spend", "payout", <<"bob">>, b, t) : b \in BOOLEAN}
    \cup {Wit("p_bob", "spend", "payout", <<"alice">>, TRUE, t)}
    \cup {Wit("p_carol", a, "return", <<"carol">>, FALSE, t) : a \in {"lock", "release"}}
    \cup {Wit("p_both", "close", Null, s, FALSE, t) :
            s \in {<<"alice">>, <<"bob">>, <<"alice", "alice">>}}
    \cup {Wit("p_both", "spend", "payout", <<"alice", "bob">>, FALSE, t)}
    \cup {Wit("p_alice", "dispute", p, <<"alice">>, FALSE, t) : p \in {"return", "ghost"}}
    \cup {Wit("p_judge", "resolve", "payout", <<"dave">>, FALSE, t)}

MCBatches == {<<w>> : w \in UNION {MCWitnessesAt(t) : t \in MCStamps}}

\* What TasksTimely, RunOnce and Decides ask of a schedule.
ASSUME MCAssumption == TimersForward /\ ClosesOnce
=============================================================================
