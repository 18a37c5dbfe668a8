----------------------------- MODULE PageSession ----------------------------
(***************************************************************************)
(* What every page promises of its own saves, said without requests, GETs  *)
(* or callbacks: the saves done are counted, the page is told of some of   *)
(* them, and what it shows is the store as of some save.  It never goes    *)
(* back to an older one, and what it was told of it comes to show.         *)
(***************************************************************************)
EXTENDS Integers

CONSTANT MaxWrites

VARIABLES written, told, shown
sessionVars == <<written, told, shown>>

Init == written = 0 /\ told = 0 /\ shown = 0

Write == written' = written + 1 /\ UNCHANGED <<told, shown>>
Tell == told' \in told .. written /\ UNCHANGED <<written, shown>>
Show == shown' \in shown .. written /\ UNCHANGED <<written, told>>

Next == Write \/ Tell \/ Show

\* A page that was told of its n-th save comes to show a store that has it.
ReadYourWrites == \A n \in 1 .. MaxWrites : told >= n ~> shown >= n

Safety == Init /\ [][Next]_sessionVars
Spec == Safety /\ ReadYourWrites
=============================================================================
