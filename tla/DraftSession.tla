---------------------------- MODULE DraftSession ----------------------------
(***************************************************************************)
(* Signers who negotiate a proposal (src/src/client/lib and the draft part *)
(* of client/api/signer). A draft is a document: each signer holds a copy, *)
(* works on it, and hands it to others, who go on from it or from theirs.  *)
(* The parts of a proposal that nobody joins or leaves are left out, and   *)
(* what the schema of the documents checks holds here. A signature is the  *)
(* key and the proposal whose id it signs. A signer joins with its default *)
(* credential: the options hid and idx of join_session_api(), which make   *)
(* one of another key or of another account's xpub, are left out, so two   *)
(* members never have the wallet of one xpub.                              *)
(***************************************************************************)
EXTENDS Proposal

CONSTANTS
    Signers,
    Roles,      \* the ids of the policies
    Policy,     \* [Roles -> [paths, payment, programs, seats]]; no payment is 0
    Template,   \* the proposal the draft starts with: [paths, payments, programs]
    MaxSigs     \* bound: signatures on a copy

\* The policies of the roles: the programs of a policy are terms.
ASSUME PolicyAssumption ==
    \A role \in Roles :
        LET policy == Policy[role] IN
        /\ IsSequence(policy.paths)
        /\ \A i \in DOMAIN policy.paths : policy.paths[i].amount \in Int
        /\ IsSequence(policy.programs) /\ IsInjective(policy.programs)
        /\ policy.payment \in Nat /\ policy.seats \in Nat

\* The template holds no entry twice and none of those who may join. A program
\* is the four terms get_program_idx() compares, and the keys after them.
ASSUME TemplateAssumption ==
    /\ \A entries \in {Template.paths, Template.payments} :
         /\ IsSequence(entries) /\ IsInjective(entries)
         /\ \A i \in DOMAIN entries :
              entries[i].addr.wallet \notin Signers /\ entries[i].amount \in Int
    /\ IsSequence(Template.programs)
    /\ \A i, j \in DOMAIN Template.programs :
         Template.programs[i].terms = Template.programs[j].terms => i = j
    /\ \A i \in DOMAIN Template.programs :
         LET keys == Template.programs[i].keys IN
         /\ Template.programs[i] = [terms |-> Template.programs[i].terms, keys |-> keys]
         /\ IsSequence(keys) /\ IsInjective(keys)
         /\ keys # <<>> /\ ToSet(keys) \cap Signers = {}
    /\ Template = [paths    |-> Template.paths, payments |-> Template.payments,
                   programs |-> Template.programs]
    /\ MaxSigs \in Nat

VARIABLES
    held,       \* the copy each signer holds: [members, proposal, sigs]
    published   \* the request to publish: [endorsements, proposal], or Null

vars == <<held, published>>

-----------------------------------------------------------------------------
\* The wallet of a credential: new_address() counts from 0, has_address()
\* looks at the first addresses up to a limit.
NewAddress(pub, idx) == [wallet |-> pub, idx |-> idx]
HasAddress(pub, addr, limit) == addr.wallet = pub /\ addr.idx < limit

\* get_program_idx() and what add_member_data() does with it.
AddProgram(programs, terms, pub) ==
    LET idx == SelectInSeq(programs, LAMBDA e : e.terms = terms)
    IN IF idx = 0 THEN Append(programs, [terms |-> terms, keys |-> <<pub>>])
       ELSE [programs EXCEPT ![idx].keys = Append(@, pub)]

AddMemberData(pub, policy, proposal) ==
    [paths |-> proposal.paths
                 \o [i \in DOMAIN policy.paths |->
                        [label |-> policy.paths[i].label,
                         amount |-> policy.paths[i].amount,
                         addr |-> NewAddress(pub, i - 1)]],
     payments |-> IF policy.payment = 0 THEN proposal.payments
                  ELSE Append(proposal.payments,
                              [amount |-> policy.payment,
                               addr |-> NewAddress(pub, Len(policy.paths))]),
     programs |-> FoldLeft(LAMBDA programs, terms : AddProgram(programs, terms, pub),
                           proposal.programs, policy.programs)]

\* What stays when a member leaves: the entries of others, and the programs of
\* more keys than the member's. A program of four terms and one key has five
\* terms and goes with the key.
Others(pub, entries) == {e \in ToSet(entries) : ~HasAddress(pub, e.addr, Len(entries))}
Joint(pub, programs) == {e \in ToSet(programs) : ~(Len(e.keys) = 1 /\ Contains(e.keys, pub))}

\* Mutant: the key of the member stays in the programs others hold as well.
RemOwnPrograms(pub, proposal) ==
    [paths    |-> Filter(proposal.paths, Others(pub, proposal.paths)),
     payments |-> Filter(proposal.payments, Others(pub, proposal.payments)),
     programs |-> Filter(proposal.programs, Joint(pub, proposal.programs))]

\* Mutant: a path goes with every other path of its label.
RemLabels(pub, proposal) ==
    LET own    == ToSet(proposal.paths) \ Others(pub, proposal.paths)
        labels == {e.label : e \in own}
    IN [proposal EXCEPT !.paths = Filter(@, {e \in ToSet(@) : e.label \notin labels})]

RemMemberData(pub, proposal) ==
    LET kept == Filter(proposal.programs, Joint(pub, proposal.programs))
    IN [paths    |-> Filter(proposal.paths, Others(pub, proposal.paths)),
        payments |-> Filter(proposal.payments, Others(pub, proposal.payments)),
        programs |-> [i \in DOMAIN kept |-> [kept[i] EXCEPT !.keys = RemoveFirst(@, pub)]]]

HasMembership(pub, session) ==
    \E i \in DOMAIN session.members : session.members[i].pub = pub

Filled(role, session) ==
    Cardinality({i \in DOMAIN session.members : session.members[i].pid = role})

\* Mutant: a role takes one member more than it has seats.
HasRoomForOne(role, session) == Filled(role, session) <= Policy[role].seats

HasOpenRoles(role, session) == Filled(role, session) < Policy[role].seats

\* get_enrollment() and verify_member_data(): the programs of the policy are
\* looked for among themselves, so only paths and payment are compared.
VerifyMemberData(member, session) ==
    LET policy == Policy[member.pid]
        payments == session.proposal.payments
        paid == Filter(payments, {e \in ToSet(payments) : e.addr.wallet = member.pub})
    IN /\ policy.payment > 0 => ~(policy.payment < GetPayTotal(paid))
       /\ \A i \in DOMAIN policy.paths :
            \E e \in ToSet(session.proposal.paths) :
              /\ e.addr.wallet = member.pub
              /\ e.label = policy.paths[i].label
              /\ e.amount = policy.paths[i].amount

VerifySession(session) ==
    \A i \in DOMAIN session.members : VerifyMemberData(session.members[i], session)

-----------------------------------------------------------------------------
\* create_session(), and the draft goes round.
Init ==
    /\ held = [p \in Signers |-> [members |-> <<>>, proposal |-> Template, sigs |-> <<>>]]
    /\ published = Null

Join(p, role) ==
    LET session == held[p] IN
    /\ ~HasMembership(p, session)
    /\ HasOpenRoles(role, session)
    /\ held' = [held EXCEPT ![p] =
         [session EXCEPT !.members = Append(@, [pub |-> p, pid |-> role]),
                         !.proposal = AddMemberData(p, Policy[role], @)]]
    /\ UNCHANGED published

\* leave_session_api(): a signer who is no member changes nothing.
Leave(p) ==
    LET session == held[p] IN
    /\ HasMembership(p, session)
    /\ held' = [held EXCEPT ![p] =
         [session EXCEPT !.members = Filter(@, {e \in ToSet(@) : e.pub # p}),
                         !.proposal = RemMemberData(p, @)]]
    /\ UNCHANGED published

\* endorse_session_api(): anyone may, members and others, again and again.
Endorse(p) ==
    LET session == held[p] IN
    /\ VerifySession(session)
    /\ Len(session.sigs) < MaxSigs
    /\ held' = [held EXCEPT ![p].sigs =
                  Append(@, [pub |-> p, signs |-> session.proposal])]
    /\ UNCHANGED published

Reset(p) ==
    /\ held' = [held EXCEPT ![p].sigs = <<>>]
    /\ UNCHANGED published

\* encode_session() and decode_session() give the document to another signer.
Share(p, q) ==
    /\ held' = [held EXCEPT ![q] = held[p]]
    /\ UNCHANGED published

\* publish_session(), with verify_endorsements().
Publish(p) ==
    /\ VerifyEndorsements(held[p].proposal, held[p].sigs)
    /\ published' = [endorsements |-> held[p].sigs, proposal |-> held[p].proposal]
    /\ UNCHANGED held

\* Bound: a draft is followed until it is published.
Next ==
    /\ published = Null
    /\ \E p \in Signers :
         \/ \E role \in Roles : Join(p, role)
         \/ Leave(p) \/ Endorse(p) \/ Reset(p) \/ Publish(p)
         \/ \E q \in Signers \ {p} : Share(p, q)

Spec == Init /\ [][Next]_vars

-----------------------------------------------------------------------------
(* Properties *)

Pubs(session) == {session.members[i].pub : i \in DOMAIN session.members}

\* Every copy is a draft: its members are signers with one seat each, no role
\* has more members than seats, and its signatures are within the bound.
TypeOK ==
    \A p \in Signers : LET session == held[p] IN
        /\ Pubs(session) \subseteq Signers
        /\ Cardinality(Pubs(session)) = Len(session.members)
        /\ \A role \in Roles : Filled(role, session) <= Policy[role].seats
        /\ Len(session.sigs) <= MaxSigs

\* The paths a member is owed, and those who hold the terms of a program.
PathsOf(member) ==
    LET paths == Policy[member.pid].paths
    IN {[label |-> paths[i].label, amount |-> paths[i].amount,
         addr |-> NewAddress(member.pub, i - 1)] : i \in DOMAIN paths}

HoldersOf(terms, session) ==
    {m.pub : m \in {m \in ToSet(session.members) :
                       terms \in ToSet(Policy[m.pid].programs)}}
    \cup UNION {ToSet(e.keys) : e \in {e \in ToSet(Template.programs) : e.terms = terms}}

\* The payment of a member has the address after those of its paths.
PaymentOf(member) ==
    [amount |-> Policy[member.pid].payment,
     addr   |-> NewAddress(member.pub, Len(Policy[member.pid].paths))]

\* What a signer who left may have left behind: rem_member_data() looks at as
\* many addresses as the draft has payments, and a payment after paths can
\* have a later one.
Strays ==
    {PaymentOf([pub |-> p, pid |-> role]) :
        p \in Signers, role \in {role \in Roles : /\ Policy[role].payment > 0
                                                 /\ Policy[role].paths # <<>>}}

\* The entries of a proposal, once each, and those it should have.
EntriesAre(entries, expected) == IsInjective(entries) /\ ToSet(entries) = expected

\* Those it should have are there, and of others no more than those left behind.
PaymentsAre(payments, expected) ==
    /\ expected \subseteq ToSet(payments)
    /\ ToSet(payments) \subseteq expected \cup Strays
    /\ \A i, j \in DOMAIN payments :
         payments[i] = payments[j] /\ payments[i] \notin Strays => i = j

\* Whoever joined, left and joined again, in whatever order and with others in
\* the same programs: the proposal of a copy holds the paths, programs and
\* payments of its template and of its members, each once, and nothing of
\* anybody else, but for the payment of a role that has paths as well.
ProposalIsMembers ==
    \A p \in Signers :
        LET session  == held[p]
            members  == ToSet(session.members)
            programs == session.proposal.programs
        IN /\ EntriesAre(session.proposal.paths,
                ToSet(Template.paths) \cup UNION {PathsOf(m) : m \in members})
           /\ PaymentsAre(session.proposal.payments,
                ToSet(Template.payments)
                \cup {PaymentOf(m) : m \in {m \in members : Policy[m.pid].payment > 0}})
           /\ \A i \in DOMAIN programs :
                /\ \A j \in DOMAIN programs :
                     programs[i].terms = programs[j].terms => i = j
                /\ EntriesAre(programs[i].keys, HoldersOf(programs[i].terms, session))
           /\ \A terms \in UNION {ToSet(Policy[m.pid].programs) : m \in members} :
                \E i \in DOMAIN programs : programs[i].terms = terms

\* The wallet of a member has no payment besides, from a seat it had before.
PaidOnce(member, session) ==
    LET payments == session.proposal.payments IN
    \A i, j \in DOMAIN payments :
        payments[i].addr.wallet = member.pub /\ payments[j].addr.wallet = member.pub => i = j

\* A member is never left with a draft that does not verify by what others do:
\* none who joins or leaves takes or adds what verify_member_data() compares.
\* Only a payment the member itself left behind and came back to stops it.
DraftsVerify ==
    \A p \in Signers : \A m \in ToSet(held[p].members) :
        PaidOnce(m, held[p]) => VerifyMemberData(m, held[p])

=============================================================================
