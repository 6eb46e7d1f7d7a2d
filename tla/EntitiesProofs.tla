--------------------------- MODULE EntitiesProofs ---------------------------
(***************************************************************************)
(* What the matchers and the listings of Entities guarantee, for every     *)
(* catalog of entities: the lemmas that the proofs about one call, and     *)
(* about the calls of several users, have in common.                       *)
(***************************************************************************)
EXTENDS Entities, FiniteSetTheorems, WellFoundedInduction, TLAPS

-----------------------------------------------------------------------------
(* Listings. *)

\* A store that is a function of finitely many ids has finitely many entries.
LEMMA EntriesFinite ==
  ASSUME NEW entries
  PROVE  IsFiniteSet({[id |-> i, entity |-> entries[i]] : i \in Stored(entries)})
<1> DEFINE S == {[id |-> i, entity |-> entries[i]] : i \in Stored(entries)}
           f == [i \in Stored(entries) |-> [id |-> i, entity |-> entries[i]]]
<1>1. IsFiniteSet(Stored(entries))
  BY EntitiesAssumption, FS_Subset DEF Stored
<1>2. f \in Surjection(Stored(entries), S)
  BY DEF Surjection
<1> QED
  BY <1>1, <1>2, FS_Surjection

\* A listing is a sequence of items that are copies of the store's entries.
LEMMA ListingIsCopy ==
  ASSUME NEW entries \in [LocalIDs -> Entity \cup {Nil}],
         NEW list \in Listings(entries)
  PROVE  /\ list \in Seq(Listed)
         /\ \A i \in DOMAIN list : entries[list[i].id] = list[i].entity
         /\ \A i \in DOMAIN list : entries[list[i].id] # Nil
<1> DEFINE S == {[id |-> i, entity |-> entries[i]] : i \in Stored(entries)}
           n == Cardinality(S)
<1>1. n \in Nat
  BY EntriesFinite, FS_CardinalityType
<1>2. list \in [1 .. n -> S]
  BY DEF Listings, SetToSeqs
<1>3. S \subseteq Listed
  BY EntitiesAssumption DEF Stored, Listed
<1>4. \A x \in S : entries[x.id] = x.entity /\ entries[x.id] # Nil
  BY DEF Stored
<1> HIDE DEF S, n
<1>5. list \in Seq(Listed)
  BY <1>1, <1>2, <1>3
<1> QED
  BY <1>2, <1>4, <1>5

\* No entry is missing from a listing.
LEMMA ListingIsComplete ==
  ASSUME NEW entries, NEW list \in Listings(entries), NEW i \in Stored(entries)
  PROVE  \E n \in DOMAIN list : list[n].id = i
<1> DEFINE S == {[id |-> j, entity |-> entries[j]] : j \in Stored(entries)}
           N == 1 .. Cardinality(S)
<1>1. IsFiniteSet(S) /\ Cardinality(S) \in Nat
  BY EntriesFinite, FS_CardinalityType
<1>2. list \in [N -> S] /\ \A m, n \in N : m # n => list[m] # list[n]
  BY DEF Listings, SetToSeqs
<1>3. [id |-> i, entity |-> entries[i]] \in S
  OBVIOUS
<1>4. IsFiniteSet(N) /\ Cardinality(N) = Cardinality(S)
  BY <1>1, FS_Interval
<1> HIDE DEF S, N
<1>5. list \in Injection(N, S)
  BY <1>2 DEF Injection, IsInjective
<1>6. list \in Surjection(N, S)
  BY <1>1, <1>4, <1>5, FS_Injection
<1>7. PICK n \in N : list[n] = [id |-> i, entity |-> entries[i]]
  BY <1>3, <1>6 DEF Surjection
<1>8. DOMAIN list = N /\ list[n].id = i
  BY <1>2, <1>7
<1> QED
  BY <1>8

-----------------------------------------------------------------------------
(* The matchers. *)

\* The levels are the intervals 0 .. 50, 51 .. 500 and 501 .. of the distance.
LEMMA LevelOfPlaces ==
  ASSUME NEW e \in Catalog["location"], NEW local \in Catalog["location"],
         e.matcher.at # Nil, local.matcher.at # Nil
  PROVE  LET same == EqualFold(e.matcher.name, local.matcher.name)
             d    == Distance(e.matcher.at, local.matcher.at)
             lvl  == MatchLevel("location", e, local)
         IN  /\ d \in Int
             /\ lvl = MatchExact => same /\ d <= 50
             /\ lvl = MatchPossible => same /\ 50 < d /\ d <= 500
             /\ same /\ d <= 50 => lvl = MatchExact
<1> DEFINE same == EqualFold(e.matcher.name, local.matcher.name)
           d    == Distance(e.matcher.at, local.matcher.at)
           lvl  == MatchLevel("location", e, local)
<1>1. d \in Int
  <2>1. e.matcher.at \in Int /\ local.matcher.at \in Int
    BY EntitiesAssumption
  <2> QED
    BY <2>1 DEF Distance
<1>2. lvl = IF same THEN LevelAt(d) ELSE MatchNone
  BY DEF MatchLevel, LocationMatch
<1> HIDE DEF same, d, lvl
<1>3. /\ LevelAt(d) = MatchExact <=> d <= 50
      /\ LevelAt(d) = MatchPossible <=> 50 < d /\ d <= 500
  BY <1>1 DEF LevelAt, SameSpot, Vicinity, MatchNone, MatchPossible, MatchExact
<1>4. /\ lvl = MatchExact => same /\ d <= 50
      /\ lvl = MatchPossible => same /\ 50 < d /\ d <= 500
      /\ same /\ d <= 50 => lvl = MatchExact
  BY <1>2, <1>3 DEF MatchNone, MatchPossible, MatchExact
<1> QED
  BY <1>1, <1>4 DEF same, d, lvl

\* A matcher answers with one of three levels.
LEMMA LevelsAre ==
  ASSUME NEW kind \in Kinds, NEW d \in Catalog[kind], NEW e \in Catalog[kind]
  PROVE  MatchLevel(kind, d, e) \in {MatchNone, MatchPossible, MatchExact}
<1>1. CASE kind = "location"
  <2> DEFINE placed == d.matcher.at # Nil /\ e.matcher.at # Nil
             same == EqualFold(d.matcher.name, e.matcher.name)
             sameCategory == EqualFold(d.matcher.category, e.matcher.category)
             m == Distance(d.matcher.at, e.matcher.at)
  <2>1. placed => m \in Int
    BY <1>1, EntitiesAssumption DEF Distance
  <2>2. MatchLevel(kind, d, e) =
          IF ~same THEN MatchNone
          ELSE IF placed THEN LevelAt(m)
          ELSE IF sameCategory THEN MatchExact ELSE MatchPossible
    BY <1>1 DEF MatchLevel, LocationMatch
  <2>3. m \in Int => LevelAt(m) \in {MatchNone, MatchPossible, MatchExact}
    BY DEF LevelAt, SameSpot, Vicinity
  <2> HIDE DEF placed, same, sameCategory, m
  <2> QED
    BY <2>1, <2>2, <2>3
<1>2. CASE kind = "person"
  BY <1>2 DEF MatchLevel, PersonMatch
<1> QED
  BY <1>1, <1>2 DEF Kinds

\* It answers the same whichever of two entities is the incoming one.
LEMMA LevelIsSymmetric ==
  ASSUME NEW kind \in Kinds, NEW d \in Catalog[kind], NEW e \in Catalog[kind]
  PROVE  MatchLevel(kind, d, e) = MatchLevel(kind, e, d)
<1>1. \A s, t : EqualFold(s, t) <=> EqualFold(t, s)
  BY DEF EqualFold
<1>2. CASE kind = "location"
  <2>1. d.matcher.at # Nil /\ e.matcher.at # Nil =>
          Distance(d.matcher.at, e.matcher.at) = Distance(e.matcher.at, d.matcher.at)
    BY <1>2, EntitiesAssumption DEF Distance
  <2> QED
    BY <1>1, <1>2, <2>1 DEF MatchLevel, LocationMatch
<1>3. CASE kind = "person"
  BY <1>1, <1>3 DEF MatchLevel, PersonMatch
<1> QED
  BY <1>2, <1>3 DEF Kinds

-----------------------------------------------------------------------------
(* The best match. *)

\* Where some positions qualify, one of them is the first.
LEMMA FirstOf ==
  ASSUME NEW S \in SUBSET (Nat \ {0}), S # {}
  PROVE  \E i \in S : \A j \in 1 .. (i - 1) : j \notin S
<1> DEFINE less == OpToRel(<, Nat)
<1>1. IsWellFoundedOn(less, Nat)
  BY NatLessThanWellFounded
<1>2. \A i, j \in Nat : j < i => <<j, i>> \in less
  BY DEF OpToRel
<1> HIDE DEF less
<1>3. PICK i \in S : \A j \in S : ~ (<<j, i>> \in less)
  BY <1>1, WFMin
<1>4. ASSUME NEW j \in 1 .. (i - 1)
      PROVE  j \notin S
  <2>1. i \in Nat /\ j \in Nat /\ j < i
    OBVIOUS
  <2> QED
    BY <1>2, <1>3, <2>1
<1> QED
  BY <1>4

\* Every listing has a best match for every incoming entity, if it is none at all.
LEMMA BestExists ==
  ASSUME NEW kind, NEW e, NEW list \in Seq(Listed)
  PROVE  /\ BestMatch(kind, e, list) \in LocalIDs \cup {Nil}
         /\ IsBest(kind, e, list, BestMatch(kind, e, list))
<1>1. ASSUME NEW lvl, ~NoneAt(kind, e, list, lvl)
      PROVE  \E i \in DOMAIN list : FirstAt(kind, e, list, i, lvl)
  <2> DEFINE S == {i \in DOMAIN list : LevelOf(kind, e, list, i) = lvl}
  <2>1. S # {} /\ S \in SUBSET (Nat \ {0})
    BY <1>1 DEF NoneAt
  <2>2. PICK i \in S : \A j \in 1 .. (i - 1) : j \notin S
    BY <2>1, FirstOf
  <2>3. 1 .. (i - 1) \subseteq DOMAIN list
    <3>1. PICK n \in Nat : DOMAIN list = 1 .. n
      OBVIOUS
    <3>2. i \in 1 .. n
      BY <3>1
    <3> QED
      BY <3>1, <3>2
  <2> QED
    BY <2>2, <2>3 DEF FirstAt
<1>2. \A i \in DOMAIN list : list[i].id \in LocalIDs
  <2>1. \A i \in DOMAIN list : list[i] \in Listed
    OBVIOUS
  <2> QED
    BY <2>1 DEF Listed
<1>3. \E id \in LocalIDs \cup {Nil} : IsBest(kind, e, list, id)
  <2>1. CASE ~NoneAt(kind, e, list, MatchExact)
    BY <1>1, <1>2, <2>1 DEF IsBest
  <2>2. CASE NoneAt(kind, e, list, MatchExact) /\ ~NoneAt(kind, e, list, MatchPossible)
    BY <1>1, <1>2, <2>2 DEF IsBest
  <2>3. CASE NoneAt(kind, e, list, MatchExact) /\ NoneAt(kind, e, list, MatchPossible)
    BY <2>3 DEF IsBest
  <2> QED
    BY <2>1, <2>2, <2>3
<1> QED
  BY <1>3 DEF BestMatch
=============================================================================
