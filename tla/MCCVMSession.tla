---------------------------- MODULE MCCVMSession ----------------------------
(***************************************************************************)
(* An agent with the contract of escrow.json, to which a hash-locked close *)
(* is added.                                                                *)
(***************************************************************************)
EXTENDS CVMSession

MCPathNames == <<"payout", "return">>

MCPrograms ==
  <<[prog_id |-> "p_dispute", method |-> "endorse", actions |-> <<"dispute">>,
     paths |-> <<"*">>, thold |-> 1, members |-> {"alice", "bob"}],
    [prog_id |-> "p_both", method |-> "endorse", actions |-> <<"spend", "resolve">>,
     paths |-> <<"*">>, thold |-> 2, members |-> {"alice", "bob"}],
    [prog_id |-> "p_close", method |-> "claim", actions |-> <<"close">>,
     paths |-> <<"*">>, thold |-> 1, members |-> {"bob"}],
    [prog_id |-> "p_carol", method |-> "endorse", actions |-> <<"resolve">>,
     paths |-> <<"*">>, thold |-> 1, members |-> {"carol"}]>>

MCSchedule ==
  <<[at |-> 5, actions |-> <<"spend">>, paths |-> <<"payout", "return">>],
    [at |-> 3, actions |-> <<"resolve">>, paths |-> <<"return">>]>>

MCSubstring == {<<"lock", "unlock">>}

MCMembers == {"alice", "bob", "carol"}

\* Alice and bob vote one at a time or together, alice and bob may dispute, bob
\* closes, carol resolves alone and alice and bob together.
MCTemplates ==
    {[action |-> "dispute", method |-> "endorse", path |-> "payout", preimage |-> FALSE],
     [action |-> "spend", method |-> "endorse", path |-> "payout", preimage |-> FALSE],
     [action |-> "close", method |-> "claim", path |-> Null, preimage |-> TRUE],
     [action |-> "resolve", method |-> "endorse", path |-> "return", preimage |-> FALSE],
     [action |-> "resolve", method |-> "endorse", path |-> "ghost", preimage |-> FALSE]}

\* The schedule fits the theorems of CVMSession_proofs.
ASSUME MCAssumption == TimersForward
=============================================================================
