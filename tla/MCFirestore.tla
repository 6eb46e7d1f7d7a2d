---------------------------- MODULE MCFirestore -----------------------------
(***************************************************************************)
(* Intentions of one user, and of nobody, for model checking Firestore.    *)
(***************************************************************************)
EXTENDS Firestore, TLC

CONSTANTS p1, p2, g1, l1, i1, u1, u2, t1, t2

AtPlace == [type |-> "Location", location |-> l1]
Near    == [type |-> "Proximity", persons |-> {p1}, groups |-> {g1}]
Online  == [type |-> "Online"]

Draft(user, targets, start, end) ==
  [user |-> user, action |-> "Meet", targets |-> targets, start |-> start, end |-> end]

\* Of an interval from between two microseconds to the end of one, of an interval
\* within a microsecond, and of a target that Firestore has no document for; and,
\* none of which is stored, of an end before its start, for no user, and without an
\* action or a target.
MCDrafts ==
  {Draft(u1, <<AtPlace, Near>>, 1500, 3000), Draft(u2, <<Near>>, 1500, 1700),
   Draft(u1, <<AtPlace, Online>>, 1500, 3000),
   Draft(u1, <<AtPlace>>, 2700, 1500), Draft(Blank, <<AtPlace>>, 1500, 3000),
   [Draft(u1, <<AtPlace>>, 1500, 3000) EXCEPT !.action = Blank],
   Draft(u1, <<>>, 1500, 3000)}

\* Before, at, within and after the ends of these intervals and their microseconds.
MCTimes == {999, 1200, 1500, 1600, 1700, 1999, 2000, 3000, 3001, 4000}
=============================================================================
