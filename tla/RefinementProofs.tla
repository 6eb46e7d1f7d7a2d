-------------------------- MODULE RefinementProofs --------------------------
(***************************************************************************)
(* ProcessPayload implements Resolution: every step of the call gives one  *)
(* incoming entity its verdict, or changes no verdict.                     *)
(***************************************************************************)
EXTENDS ReconcilerProofs

USE DEF scanVars, vars

\* A listing offers one thing only.
LEMMA BestIsUnique ==
  ASSUME NEW kind, NEW e, NEW list \in Seq(Listed), NEW a, NEW b,
         IsBest(kind, e, list, a), IsBest(kind, e, list, b)
  PROVE  a = b
<1> DEFINE At(i, lvl) == FirstAt(kind, e, list, i, lvl)
<1>1. \A i, j \in DOMAIN list : \A lvl : At(i, lvl) /\ At(j, lvl) => i = j
  BY DEF FirstAt
<1>2. \A i \in DOMAIN list : \A lvl : At(i, lvl) => ~NoneAt(kind, e, list, lvl)
  BY DEF FirstAt, NoneAt
<1> QED
  BY <1>1, <1>2 DEF IsBest

\* Hence what IsBest describes is what BestMatch chooses.
LEMMA BestIsBestMatch ==
  ASSUME NEW kind, NEW e, NEW list \in Seq(Listed), NEW id \in LocalIDs \cup {Nil},
         IsBest(kind, e, list, id)
  PROVE  BestMatch(kind, e, list) = id
<1>1. IsBest(kind, e, list, BestMatch(kind, e, list))
  BY DEF BestMatch
<1> QED
  BY <1>1, BestIsUnique

\* The operators of Entities mean the same in the instance.
LEMMA SameListings ==
  ASSUME NEW entries
  PROVE  Resolved!Listings(entries) = Listings(entries)
BY DEF Listings, Resolved!Listings, Stored, Resolved!Stored, SetToSeqs, Resolved!SetToSeqs,
  Cardinality, Resolved!Cardinality

\* So does the lookup by GlobalID, ...
LEMMA SameCarriers ==
  ASSUME NEW entries, NEW e
  PROVE  Resolved!Carriers(entries, e) = Carriers(entries, e)
BY DEF Carriers, Resolved!Carriers, Stored, Resolved!Stored

\* ... the level of a match, ...
LEMMA SameLevel ==
  ASSUME NEW kind, NEW e, NEW local
  PROVE  Resolved!MatchLevel(kind, e, local) = MatchLevel(kind, e, local)
BY DEF MatchLevel, Resolved!MatchLevel, LocationMatch, Resolved!LocationMatch,
       PersonMatch, Resolved!PersonMatch, EqualFold, Resolved!EqualFold,
       LevelAt, Resolved!LevelAt, Distance, Resolved!Distance,
       SameSpot, Resolved!SameSpot, Vicinity, Resolved!Vicinity,
       MatchNone, Resolved!MatchNone, MatchPossible, Resolved!MatchPossible,
       MatchExact, Resolved!MatchExact

\* ... and with it the best match.
LEMMA SameBestMatch ==
  ASSUME NEW kind, NEW e, NEW list
  PROVE  Resolved!BestMatch(kind, e, list) = BestMatch(kind, e, list)
<1>1. \A i : Resolved!LevelOf(kind, e, list, i) = LevelOf(kind, e, list, i)
  BY SameLevel DEF LevelOf, Resolved!LevelOf
<1>2. \A id : Resolved!IsBest(kind, e, list, id) <=> IsBest(kind, e, list, id)
  BY <1>1 DEF IsBest, Resolved!IsBest, FirstAt, Resolved!FirstAt, NoneAt,
     Resolved!NoneAt, MatchPossible, Resolved!MatchPossible, MatchExact,
     Resolved!MatchExact
<1> QED
  BY <1>2 DEF BestMatch, Resolved!BestMatch

-----------------------------------------------------------------------------
(* The steps. *)

Abstract == [kind \in Kinds |-> [k \in SenderIDs |-> Verdict(kind, k)]]

\* A call starts with no verdict.
LEMMA RefinesInit == Init => Resolved!AbsInit
<1> SUFFICES ASSUME Init PROVE Resolved!AbsInit
  OBVIOUS
<1>1. Abstract = [kind \in Kinds |->
                    [k \in SenderIDs |-> IF payload[kind][k] = Nil THEN Nil ELSE Pending]]
  BY ReconcilerAssumption DEF Abstract, Verdict, Init
<1> QED
  BY <1>1 DEF Abstract, Init, Resolved!AbsInit, Kinds, Resolved!Kinds

\* A step that lists nothing, visits nothing and settles nothing keeps every verdict.
LEMMA VerdictsKept ==
  ASSUME TypeOK, UNCHANGED <<payload, listing, todo, cur, mappings>>,
         cur # Nil => phase' = phase
  PROVE  Abstract' = Abstract
<1>1. ASSUME NEW kind \in Kinds, NEW k \in SenderIDs
      PROVE  Verdict(kind, k)' = Verdict(kind, k)
  <2>1. kind = phase' /\ k = cur <=> kind = phase /\ k = cur
    BY ReconcilerAssumption DEF TypeOK
  <2> QED
    BY <2>1 DEF Verdict
<1> QED
  BY <1>1 DEF Abstract

\* A visit of the incoming entity k gives it the verdict v.
LEMMA VisitDecides ==
  ASSUME TypeOK, NEW k \in SenderIDs, Visits(k), NEW v,
         UNCHANGED <<payload, listing, phase>>,
         todo' = [todo EXCEPT ![phase] = @ \ {k}],
         cur' \in {Nil, k},
         \A kind \in Kinds, j \in SenderIDs :
           ~(kind = phase /\ j = k) => mappings'[kind][j] = mappings[kind][j],
         Verdict(phase, k)' = v
  PROVE  /\ Abstract[phase][k] = Pending
         /\ Abstract' = [Abstract EXCEPT ![phase][k] = v]
<1>1. phase \in Kinds /\ cur = Nil /\ k \in todo[phase]
  BY DEF Visits
<1>2. Abstract[phase][k] = Pending
  BY <1>1 DEF Abstract, Verdict
<1>3. ASSUME NEW kind \in Kinds, NEW j \in SenderIDs, ~(kind = phase /\ j = k)
      PROVE  Verdict(kind, j)' = Verdict(kind, j)
  <2>1. j \in todo'[kind] <=> j \in todo[kind]
    BY <1>1, <1>3 DEF TypeOK
  <2>2. ~(kind = phase /\ j = cur) /\ ~(kind = phase' /\ j = cur')
    BY <1>1, <1>3, ReconcilerAssumption
  <2> QED
    BY <1>3, <2>1, <2>2 DEF Verdict
<1>4. \A kind \in Kinds, j \in SenderIDs :
        Abstract'[kind][j] = IF kind = phase /\ j = k THEN v ELSE Abstract[kind][j]
  BY <1>1, <1>3 DEF Abstract
<1> DEFINE Row(kind) == [j \in SenderIDs |->
                            IF kind = phase /\ j = k THEN v ELSE Abstract[kind][j]]
<1>5. Abstract' = [kind \in Kinds |-> Row(kind)]
  <2>1. \A kind \in Kinds : Abstract'[kind] = Row(kind)
    <3>1. \A kind \in Kinds : Abstract'[kind] = [j \in SenderIDs |-> Abstract'[kind][j]]
      BY DEF Abstract
    <3> QED
      BY <1>4, <3>1
  <2>2. Abstract' = [kind \in Kinds |-> Abstract'[kind]]
    BY DEF Abstract
  <2> HIDE DEF Row
  <2> QED
    BY <2>1, <2>2
<1>6. [Abstract EXCEPT ![phase][k] = v] = [kind \in Kinds |-> Row(kind)]
  BY <1>1 DEF Abstract
<1> QED
  BY <1>2, <1>5, <1>6

\* The scan records the verdict that its lookup's miss had given.
LEMMA SettleConfirms ==
  ASSUME IInv, cur # Nil, NEW id \in LocalIDs \cup {Nil}, Settle(id),
         IsBest(phase, Incoming, listing[phase], id),
         UNCHANGED <<payload, listing, phase, todo>>
  PROVE  Abstract' = Abstract
<1>1. /\ phase \in Kinds
      /\ cur \in SenderIDs
      /\ listing[phase] \in Seq(Listed)
      /\ cur \notin todo[phase]
  BY ScanTyped DEF IInv, ScanInv
<1>2. BestMatch(phase, payload[phase][cur], listing[phase]) = id
  BY <1>1, BestIsBestMatch DEF Incoming
<1>3. ASSUME NEW kind \in Kinds, NEW k \in SenderIDs
      PROVE  Verdict(kind, k)' = Verdict(kind, k)
  <2>1. CASE kind = phase /\ k = cur
    BY <1>1, <1>2, <2>1, ReconcilerAssumption DEF Verdict, Settle, IInv, TypeOK
  <2>2. CASE ~(kind = phase /\ k = cur)
    BY <1>1, <2>2, ReconcilerAssumption DEF Verdict, Settle, IInv, TypeOK
  <2> QED
    BY <2>1, <2>2
<1> QED
  BY <1>3 DEF Abstract

\* Every step lists, decides or inserts abstractly, or leaves the abstract state alone.
LEMMA RefinesStep ==
  ASSUME IInv, [Next]_vars
  PROVE  [Resolved!AbsNext]_<<store, payload, listing, Abstract>>
<1> DEFINE Stutters == UNCHANGED <<store, payload, listing, Abstract>>
<1> USE DEF IInv
<1>1. ASSUME NEW kind \in Kinds, NEW i \in LocalIDs, NEW e \in Catalog[kind],
             Insert(kind, i, e)
      PROVE  Resolved!Insert(kind, i, e)
  <2>1. UNCHANGED <<payload, listing, todo, cur, mappings, phase>>
    BY <1>1 DEF Insert
  <2>2. Abstract' = Abstract
    BY <2>1, VerdictsKept
  <2> QED
    BY <1>1, <2>2 DEF Insert, Resolved!Insert, Abstract
<1>2. ASSUME List
      PROVE  Resolved!TakeListing(phase)
  <2>1. cur = Nil
    BY <1>2 DEF List, ScanInv
  <2>2. ASSUME NEW kind \in Kinds, NEW k \in SenderIDs
        PROVE  Verdict(kind, k)' = Verdict(kind, k)
    BY <1>2, <2>1, <2>2, ReconcilerAssumption DEF List, Verdict
  <2>3. Abstract' = Abstract
    BY <2>2 DEF Abstract
  <2> QED
    BY <1>2, <2>3, SameListings DEF List, Resolved!TakeListing, Abstract
<1>3. ASSUME NEW k \in SenderIDs, LookupHit(k)
      PROVE  Resolved!Decide(phase, k)
  <2>1. phase \in Kinds /\ listing[phase] # Nil /\ cur = Nil /\ k \in todo[phase]
    BY <1>3 DEF LookupHit, Visits
  <2>2. PICK i \in Carriers(store[phase], payload[phase][k]) :
          mappings' = [mappings EXCEPT ![phase][k] = i]
    BY <1>3 DEF LookupHit
  <2>3. \A kind \in Kinds, j \in SenderIDs :
          ~(kind = phase /\ j = k) => mappings'[kind][j] = mappings[kind][j]
    BY <2>2 DEF TypeOK
  <2>4. Verdict(phase, k)' = i
    BY <1>3, <2>1, <2>2, ReconcilerAssumption DEF LookupHit, Verdict, TypeOK
  <2>5. Abstract[phase][k] = Pending /\ Abstract' = [Abstract EXCEPT ![phase][k] = i]
    BY <1>3, <2>1, <2>3, <2>4, VisitDecides DEF LookupHit
  <2>6. i \in Resolved!Carriers(store[phase], payload[phase][k])
    BY SameCarriers
  <2> QED
    BY <1>3, <2>1, <2>5, <2>6 DEF LookupHit, Resolved!Decide, Abstract
<1>4. ASSUME NEW k \in SenderIDs, LookupMiss(k)
      PROVE  Resolved!Decide(phase, k)
  <2> DEFINE v == BestMatch(phase, payload[phase][k], listing[phase])
  <2>1. phase \in Kinds /\ listing[phase] # Nil /\ cur = Nil /\ k \in todo[phase]
    BY <1>4 DEF LookupMiss, Visits
  <2>2. Verdict(phase, k)' = v
    BY <1>4, <2>1 DEF LookupMiss, Verdict, TypeOK
  <2>3. Abstract[phase][k] = Pending /\ Abstract' = [Abstract EXCEPT ![phase][k] = v]
    <3> HIDE DEF v
    <3> QED
      BY <1>4, <2>1, <2>2, VisitDecides DEF LookupMiss
  <2>4. v = Resolved!BestMatch(phase, payload[phase][k], listing[phase])
    BY SameBestMatch
  <2>5. StoreMayFail \/ Resolved!Carriers(store[phase], payload[phase][k]) = {}
    BY <1>4, SameCarriers DEF LookupMiss
  <2> QED
    BY <1>4, <2>1, <2>3, <2>4, <2>5 DEF LookupMiss, Resolved!Decide, Abstract
<1>5. ASSUME CompareExact
      PROVE  Stutters
  <2>1. cur # Nil /\ Settle(listing[phase][pos].id)
          /\ UNCHANGED <<store, payload, listing, phase, todo>>
    BY <1>5 DEF CompareExact, Scanning
  <2>2. listing[phase][pos].id \in LocalIDs
    BY <1>5, <2>1, ScanTyped DEF CompareExact, Scanning
  <2>3. IsBest(phase, Incoming, listing[phase], listing[phase][pos].id)
    BY <1>5, ExactIsBest
  <2> QED
    BY <2>1, <2>2, <2>3, SettleConfirms
<1>6. ASSUME Exhaust
      PROVE  Stutters
  <2>1. cur # Nil /\ Settle(best) /\ UNCHANGED <<store, payload, listing, phase, todo>>
    BY <1>6 DEF Exhaust
  <2>2. best \in LocalIDs \cup {Nil}
    BY DEF TypeOK
  <2>3. IsBest(phase, Incoming, listing[phase], best)
    BY <1>6, ExhaustIsBest
  <2> QED
    BY <2>1, <2>2, <2>3, SettleConfirms
<1>7. ASSUME ComparePossible \/ CompareSkip
      PROVE  Stutters
  <2>1. UNCHANGED <<store, payload, listing, todo, cur, mappings, phase>>
    BY <1>7 DEF ComparePossible, CompareSkip
  <2> QED
    BY <2>1, VerdictsKept
<1>8. ASSUME NextPhase
      PROVE  Stutters
  <2>1. cur = Nil /\ UNCHANGED <<store, payload, listing, todo, cur, mappings>>
    BY <1>8 DEF NextPhase
  <2> QED
    BY <2>1, VerdictsKept
<1>9. ASSUME UNCHANGED vars
      PROVE  Stutters
  <2>1. UNCHANGED <<store, payload, listing, todo, cur, mappings, phase>>
    BY <1>9
  <2> QED
    BY <2>1, VerdictsKept
<1>10. ASSUME List \/ \E k \in SenderIDs : LookupHit(k) \/ LookupMiss(k)
       PROVE  phase \in Resolved!Kinds
  BY <1>10 DEF List, LookupHit, LookupMiss, Visits, Kinds, Resolved!Kinds
<1> HIDE DEF Stutters
<1>11. Resolved!AbsNext \/ Stutters
  <2>1. CASE Environment
    BY <1>1, <2>1 DEF Environment, Resolved!AbsNext, Kinds, Resolved!Kinds
  <2>2. CASE List
    BY <1>2, <1>10, <2>2 DEF Resolved!AbsNext
  <2>3. CASE \E k \in SenderIDs : LookupHit(k) \/ LookupMiss(k)
    BY <1>3, <1>4, <1>10, <2>3 DEF Resolved!AbsNext
  <2> QED
    BY <1>5, <1>6, <1>7, <1>8, <1>9, <2>1, <2>2, <2>3 DEF Next, ProcessPayload
<1> QED
  BY <1>11 DEF Stutters

\* ProcessPayload implements the abstract specification: whatever the order of
\* the maps, the listings and the insertions, each incoming entity gets one
\* verdict in one step, by GlobalID or as the best match of one listing.
THEOREM Implementation == Spec => Refinement
<1>1. IInv /\ [Next]_vars => [Resolved!AbsNext]_Resolved!absVars
  BY RefinesStep DEF Resolved!absVars, Abstract
<1> QED
  BY <1>1, RefinesInit, Invariance, PTL DEF Spec, Refinement, Resolved!AbsSpec
=============================================================================
