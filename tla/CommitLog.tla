----------------------------- MODULE CommitLog ------------------------------
(***************************************************************************)
(* What a machine promises its host, whatever its programs and schedule    *)
(* are: an append-only log of stamped commits, in time order and before    *)
(* the expiration, and an outcome that is decided at most once, by the     *)
(* last commit of the log, after which nothing is committed any more.      *)
(***************************************************************************)
EXTENDS Integers, Sequences

CONSTANTS Outcomes, Undecided, From, Until

VARIABLES log, closed, outcome

TimeOrdered(s) ==
    /\ \A i \in DOMAIN s : From <= s[i].stamp /\ s[i].stamp < Until
    /\ \A i, j \in DOMAIN s : i <= j => s[i].stamp <= s[j].stamp

Extends(s, t) == Len(s) <= Len(t) /\ \A i \in DOMAIN s : t[i] = s[i]

Init == log = <<>> /\ closed = FALSE /\ outcome = Undecided

Commit ==
    /\ outcome = Undecided
    /\ Len(log) < Len(log')
    /\ Extends(log, log')
    /\ TimeOrdered(log')
    /\ closed' \in BOOLEAN /\ (closed => closed')
    /\ outcome' \in Outcomes \cup {Undecided}
    /\ outcome' # Undecided => closed' /\ log'[Len(log')].path = outcome'

Spec == Init /\ [][Commit]_<<log, closed, outcome>>
=============================================================================
