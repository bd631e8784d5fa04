------------------------------- MODULE MCCVM --------------------------------
(***************************************************************************)
(* The two-party sales contract of test/src/vm/vectors/escrow.json, with   *)
(* its programs, paths and schedule; times are ticks after activation.      *)
(***************************************************************************)
EXTENDS CVMAtomic

CONSTANTS MCStamps  \* the stamps a statement may carry

MCPathNames == <<"payout", "return">>

MCPrograms ==
  <<[prog_id |-> "p_dispute", method |-> "endorse", actions |-> <<"dispute">>,
     paths |-> <<"*">>, thold |-> 1, members |-> {"alice", "bob"}],
    [prog_id |-> "p_both", method |-> "endorse", actions |-> <<"spend", "resolve">>,
     paths |-> <<"*">>, thold |-> 2, members |-> {"alice", "bob"}],
    [prog_id |-> "p_carol", method |-> "endorse", actions |-> <<"resolve">>,
     paths |-> <<"*">>, thold |-> 1, members |-> {"carol"}]>>

MCSchedule ==
  <<[at |-> 4, actions |-> <<"spend">>, paths |-> <<"payout", "return">>],
    [at |-> 3, actions |-> <<"resolve">>, paths |-> <<"return">>]>>

MCSubstring == {<<"lock", "unlock">>}

Wit(id, action, path, sigs, stamp) ==
    [prog_id |-> id, action |-> action, path |-> path, sigs |-> sigs,
     preimage |-> FALSE, stamp |-> stamp]

\* Alice disputes the payout and bob the return; both vote, together or one at
\* a time; carol resolves.  The last statement names no action of its program.
MCWitnesses ==
    {Wit("p_dispute", "dispute", "payout", <<"alice">>, t) : t \in MCStamps}
    \cup {Wit("p_dispute", "dispute", "return", <<"bob">>, t) : t \in MCStamps}
    \cup {Wit("p_both", "spend", "payout", s, t) :
            s \in {<<"alice">>, <<"bob">>, <<"bob", "alice">>}, t \in MCStamps}
    \cup {Wit("p_both", "resolve", "payout", <<"bob", "alice">>, t) : t \in MCStamps}
    \cup {Wit("p_carol", "resolve", "return", <<"carol">>, t) : t \in MCStamps}
    \cup {Wit("p_carol", "spend", "return", <<"carol">>, t) : t \in MCStamps}

\* No statement, single statements, and arrays of two: a vote and then a vote or a dispute,
\* in either order of their stamps.
MCBatches ==
    {<<>>} \cup {<<w>> : w \in MCWitnesses}
    \cup {<<v, w>> :
            v \in {x \in MCWitnesses : x.sigs = <<"alice">> /\ x.action = "spend"},
            w \in {x \in MCWitnesses : x.sigs = <<"bob">>}}

\* What TasksTimely, RunOnce and Decides ask of a schedule.
ASSUME MCAssumption == TimersForward /\ ClosesOnce
=============================================================================
