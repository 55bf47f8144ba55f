----------------------------- MODULE AlertBook -----------------------------
(***************************************************************************)
(* What ingestion promises about alerts, without feeds, transactions,       *)
(* locks or connections: a book with one line per article and the rules     *)
(* that matched it. A line is never removed and only gains rules, several   *)
(* lines change at once, and a delivery is asked for at most once for each  *)
(* line, after the line is in the book.                                     *)
(***************************************************************************)
EXTENDS Naturals

CONSTANTS Articles, RuleSet

VARIABLES
    book,    \* the rules recorded for each article; none at all without an alert
    asked    \* deliveries asked for by ingestion, by article

bookVars == <<book, asked>>

Init ==
    /\ book = [a \in Articles |-> {}]
    /\ asked = [a \in Articles |-> 0]

\* One committed batch: each article of it gains at least one rule or none new.
Record ==
    /\ book' \in [Articles -> SUBSET RuleSet]
    /\ \A a \in Articles : book[a] \subseteq book'[a]
    /\ UNCHANGED asked

Announce(a) ==
    /\ book[a] # {}
    /\ asked[a] = 0
    /\ asked' = [asked EXCEPT ![a] = 1]
    /\ UNCHANGED book

Next == Record \/ \E a \in Articles : Announce(a)

Spec == Init /\ [][Next]_bookVars
=============================================================================
