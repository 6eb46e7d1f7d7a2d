---------------------------- MODULE MCReconciler ----------------------------
(***************************************************************************)
(* Small catalogs of entities for model checking Reconciler.               *)
(***************************************************************************)
EXTENDS Reconciler, TLC

\* Strings that occur as names, categories and handles, and their case folding.
MCFold ==
  [s \in {"", "Cafe", "CAFE", "Food", "Bar", "Ann", "Bob", "ann@x", "ANN@X"} |->
     CASE s = "CAFE"  -> "Cafe"
       [] s = "ANN@X" -> "ann@x"
       [] OTHER       -> s]

Global(e, g)        == [e EXCEPT !.globalID = g]
At(e, metres)       == [e EXCEPT !.matcher.at = metres]
Reached(e, handle)  == [e EXCEPT !.matcher.handle = handle]

Cafe    == NewLocation("Cafe", "Food")
CafeBar == NewLocation("CAFE", "Bar")
Ann     == NewPerson("Ann")
Bob     == NewPerson("Bob")

\* One cafe seen at points that lie 50, 51, 500, 501 and 551 metres apart, and once
\* without coordinates, and two entities with one GlobalID, one of which matches it.
LocationCatalog ==
  [location |-> {At(Cafe, m) : m \in {0, 50, 500, 551}}
                  \cup {CafeBar, Global(CafeBar, "g"), Global(NewLocation("Bar", "Bar"), "g")},
   person   |-> {}]

\* Both kinds at once: cafes that match possibly, one of them with a GlobalID, and
\* a person who matches by handle.
MixedCatalog ==
  [location |-> {Global(Cafe, "g"), CafeBar},
   person   |-> {Reached(Ann, "ann@x")}]

\* People as CreatePerson stores them.
CreatedCatalog ==
  [location |-> {},
   person   |-> {Ann, Bob}]

Symmetry == Permutations(LocalIDs) \cup Permutations(SenderIDs)
=============================================================================
