---------------------------- MODULE MCFederation ----------------------------
(***************************************************************************)
(* Two users who know the same cafe and the same person, for model         *)
(* checking Federation.                                                    *)
(***************************************************************************)
EXTENDS Federation, TLC

CONSTANTS alice, bob, a1, b1, b2

MCFold == [s \in {"", "Cafe", "Food", "Bar", "Ann", "Ann M", "ann@x", "ANN@X"} |->
             IF s = "ANN@X" THEN "ann@x" ELSE s]

Person(name, handle) == [NewPerson(name) EXCEPT !.matcher = [name |-> name, handle |-> handle]]

\* A cafe with a GlobalID, and people known by name and handle, by another name
\* and that handle, and by the name alone.
MCCatalog ==
  [location |-> {[NewLocation("Cafe", "Food") EXCEPT !.globalID = "g"]},
   person   |-> {Person("Ann", "ann@x"), Person("Ann M", "ANN@X"), Person("Ann", Nil)}]

MCOwner == a1 :> alice @@ b1 :> bob @@ b2 :> bob

Symmetry == Permutations({b1, b2}) \cup Permutations(Calls)
=============================================================================
