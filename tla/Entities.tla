------------------------------ MODULE Entities ------------------------------
(***************************************************************************)
(* The entities a user keeps (pkg/locations, pkg/people), as the services  *)
(* create them, the matchers that compare an incoming entity with a local  *)
(* one, and the two reads of a store that reconciliation makes.            *)
(*                                                                         *)
(* An entity is a record [name, globalID, matcher].  A location's matcher  *)
(* is [name, category, at], a person's is [name, handle].  Fields that     *)
(* nothing here reads (UserID, Type, CreatedAt, the location's own         *)
(* Category) are left out.                                                 *)
(***************************************************************************)
EXTENDS Integers, Sequences, FiniteSets, SequencesExt

CONSTANTS
  Nil,       \* a nil pointer or a missing entry
  Blank,     \* the empty string, which is what an unset Go string holds
  Fold,      \* Fold[s] is the case-folding class of the string s
  LocalIDs,  \* the UUIDs of the user's own entities
  Catalog    \* Catalog[kind]: the entities that may be stored or shared

Kinds == {"location", "person"}

Entity == UNION {Catalog[kind] : kind \in Kinds}

\* An item of the slice that ListAllForMatching returns.
Listed == [id : LocalIDs, entity : Entity]

ASSUME EntitiesAssumption ==
  /\ IsFiniteSet(LocalIDs)
  /\ Nil \notin LocalIDs \cup Entity \cup Seq(Listed)
  /\ \A e \in Catalog["location"] : e.matcher.at \in Int \cup {Nil}

MatchNone     == "NONE"
MatchPossible == "POSSIBLE"
MatchExact    == "EXACT"

-----------------------------------------------------------------------------
(* What the services store. *)

\* AddUserLocation and AddSharedLocation: the matcher copies name and category.
NewLocation(name, category) ==
  [name     |-> name,
   globalID |-> Nil,
   matcher  |-> [name |-> name, category |-> category, at |-> Nil]]

\* CreatePerson: the matcher is left at its zero value.
NewPerson(name) ==
  [name     |-> name,
   globalID |-> Nil,
   matcher  |-> [name |-> Blank, handle |-> Nil]]

-----------------------------------------------------------------------------
(* The matchers. *)

\* strings.EqualFold: equality under case folding.
EqualFold(s, t) == Fold[s] = Fold[t]

\* The great-circle distance, in metres, of two points of one meridian, a
\* point being its distance in metres from the equator along that meridian.
Distance(p, q) == IF p <= q THEN q - p ELSE p - q

SameSpot == 50    \* metres: 0.05 km in the code
Vicinity == 500   \* metres: 0.5 km in the code

\* Mutant: the 50 m boundary is exclusive.
LevelAtStrict(d) ==
  CASE d < SameSpot                   -> MatchExact
    [] d >= SameSpot /\ d <= Vicinity -> MatchPossible
    [] d > Vicinity                   -> MatchNone

\* Two places of one name and known coordinates, d metres apart.
LevelAt(d) ==
  CASE d <= SameSpot                  -> MatchExact
    [] d > SameSpot /\ d <= Vicinity  -> MatchPossible
    [] d > Vicinity                   -> MatchNone

\* LocationMatcher.Match: `at' is Nil unless both Lat and Lon are set.
LocationMatch(m, local) ==
  LET sameName == EqualFold(m.name, local.name)
      placed   == m.at # Nil /\ local.at # Nil
      sameCategory == EqualFold(m.category, local.category)
  IN  CASE ~sameName                              -> MatchNone
        [] sameName /\ placed                     -> LevelAt(Distance(m.at, local.at))
        [] sameName /\ ~placed /\ sameCategory    -> MatchExact
        [] sameName /\ ~placed /\ ~sameCategory   -> MatchPossible

\* Mutant: a local person without a handle may have any.
PersonMatchLax(m, local) ==
  LET sameHandle == m.handle # Nil /\ (local.handle = Nil \/ EqualFold(m.handle, local.handle))
      sameName   == EqualFold(m.name, local.name)
  IN  CASE sameHandle               -> MatchExact
        [] ~sameHandle /\ sameName  -> MatchPossible
        [] ~sameHandle /\ ~sameName -> MatchNone

\* PersonMatcher.Match: one handle decides, failing that one name.
PersonMatch(m, local) ==
  LET sameHandle == m.handle # Nil /\ local.handle # Nil
                      /\ EqualFold(m.handle, local.handle)
      sameName   == EqualFold(m.name, local.name)
  IN  CASE sameHandle               -> MatchExact
        [] ~sameHandle /\ sameName  -> MatchPossible
        [] ~sameHandle /\ ~sameName -> MatchNone

\* The level of an incoming entity against a local one.
MatchLevel(kind, incoming, local) ==
  IF kind = "location" THEN LocationMatch(incoming.matcher, local.matcher)
                       ELSE PersonMatch(incoming.matcher, local.matcher)

-----------------------------------------------------------------------------
(* The reads of one kind's store: entries[id] is an entity or Nil. *)

Stored(entries) == {i \in LocalIDs : entries[i] # Nil}

\* ListAllForMatching: copies of all entities, in whatever order the map or
\* the database yields them.
Listings(entries) ==
  SetToSeqs({[id |-> i, entity |-> entries[i]] : i \in Stored(entries)})

\* FindByGlobalID: the entities it may return for the incoming entity e.
Carriers(entries, e) ==
  {i \in Stored(entries) : e.globalID # Nil /\ entries[i].globalID = e.globalID}

-----------------------------------------------------------------------------
(* What a listing offers for an incoming entity. *)

LevelOf(kind, e, list, i) == MatchLevel(kind, e, list[i].entity)

\* Position i holds the first entity of the list at this level.
FirstAt(kind, e, list, i, level) ==
  /\ LevelOf(kind, e, list, i) = level
  /\ \A j \in 1 .. (i - 1) : LevelOf(kind, e, list, j) # level

\* No entity of the list is at this level.
NoneAt(kind, e, list, level) ==
  \A j \in DOMAIN list : LevelOf(kind, e, list, j) # level

\* id is the first exact match, or the first possible match when there is no
\* exact one, or Nil when nothing matches.
IsBest(kind, e, list, id) ==
  \/ \E i \in DOMAIN list : id = list[i].id /\ FirstAt(kind, e, list, i, MatchExact)
  \/ /\ NoneAt(kind, e, list, MatchExact)
     /\ \E i \in DOMAIN list : id = list[i].id /\ FirstAt(kind, e, list, i, MatchPossible)
  \/ /\ NoneAt(kind, e, list, MatchExact)
     /\ NoneAt(kind, e, list, MatchPossible)
     /\ id = Nil

BestMatch(kind, e, list) ==
  CHOOSE id \in LocalIDs \cup {Nil} : IsBest(kind, e, list, id)
=============================================================================
