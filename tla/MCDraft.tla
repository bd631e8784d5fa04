------------------------------ MODULE MCDraft ------------------------------
(***************************************************************************)
(* A buyer and sellers, as in docs/resources/get-started.md, with a second *)
(* seat for a seller and payments, over a template with entries of its     *)
(* own. A seller who leaves alone leaves its payment, whose address comes  *)
(* after those of two paths; a buyer's has one before it and goes. The     *)
(* sums agree when the buyer and one seller have joined, without a payment *)
(* left behind or with one.                                                *)
(***************************************************************************)
EXTENDS Publication

CONSTANTS alice, bob, outsider, host, buyer, seller

MCRoles == {buyer, seller}

MCPolicy ==
    [role \in MCRoles |->
        CASE role = buyer ->
               [paths |-> <<[label |-> "refund", amount |-> 9]>>, payment |-> 2,
                programs |-> <<"close", "dispute payout">>, seats |-> 1]
          [] role = seller ->
               [paths |-> <<[label |-> "payout", amount |-> 3],
                            [label |-> "payout", amount |-> 5]>>, payment |-> 1,
                programs |-> <<"close", "dispute refund">>, seats |-> 2]]

MCTemplate ==
    [paths    |-> <<[label |-> "payout", amount |-> 1, addr |-> NewAddress(outsider, 0)]>>,
     payments |-> <<[amount |-> 1, addr |-> NewAddress(outsider, 0)]>>,
     programs |-> <<[terms |-> "dispute refund", keys |-> <<outsider>>]>>]

MCProgramTerms ==
    [terms \in {"close", "dispute payout", "dispute refund"} |->
        CASE terms = "close" -> [actions |-> {"close"}, paths |-> {"*"}, thold |-> 2]
          [] terms = "dispute payout" ->
               [actions |-> {"dispute"}, paths |-> {"payout"}, thold |-> 1]
          [] terms = "dispute refund" ->
               [actions |-> {"dispute"}, paths |-> {"refund"}, thold |-> 1]]

\* One length, with and without a deadline and an effective date, and the
\* value the entries of two members add up to, with a payment left behind
\* or without.
MCTerms ==
    {[created_at |-> 100, deadline |-> span[1], duration |-> 3, effective |-> span[2],
      feerate |-> Null, value |-> value,
      schedule |-> <<[timer |-> 2, actions |-> {"close"}, paths |-> {"payout", "refund"}]>>] :
        span \in {<<2, 104>>, <<Null, 104>>, <<Null, Null>>},
        value \in {13, 14}}

MCProposalPolicy ==
    [FEERATE_MIN |-> 1, FEERATE_MAX |-> 9, DEADLINE_MIN |-> 1, DEADLINE_MAX |-> 4,
     DURATION_MIN |-> 1, DURATION_MAX |-> 5, EFFECTIVE_MAX |-> 6]

\* Nothing tells the signers apart.
MCSymmetry == Permutations(Signers)

MCFees == <<[amount |-> 1, addr |-> NewAddress(host, 0)]>>
=============================================================================
