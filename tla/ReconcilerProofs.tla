-------------------------- MODULE ReconcilerProofs --------------------------
(***************************************************************************)
(* The properties of Reconciler, for every set of entities, every payload  *)
(* and every interleaving with the user's insertions.                      *)
(***************************************************************************)
EXTENDS Reconciler, EntitiesProofs

-----------------------------------------------------------------------------
(* The inductive invariant, one conjunct at a time. *)

USE DEF scanVars, vars

\* Before the call has read anything the invariant holds.
LEMMA InitInv == Init => IInv
<1> SUFFICES ASSUME Init PROVE IInv
  OBVIOUS
<1>1. payload \in [Kinds -> [SenderIDs -> Entity \cup {Nil}]]
  BY DEF Init, Kinds, Entity
<1>2. TypeOK
  BY <1>1, EntitiesAssumption DEF Init, TypeOK, Kinds, MatchNone, MatchPossible
<1>3. KindsInv /\ TodoInv /\ ScanInv /\ ListingCurrent
  BY DEF Init, Kinds, KindsInv, TodoInv, ScanInv, ListingCurrent
<1>4. FuzzyIsBest /\ MissedIsUnlisted /\ EveryMappingJustified
  BY DEF Init, FuzzyIsBest, MissedIsUnlisted, EveryMappingJustified, Settled
<1> QED
  BY <1>2, <1>3, <1>4 DEF IInv

\* While a scan is on, its position is in a listing of the current kind.
LEMMA ScanTyped ==
  ASSUME TypeOK, ScanInv, cur # Nil
  PROVE  /\ phase \in Kinds
         /\ cur \in SenderIDs
         /\ listing[phase] \in Seq(Listed)
         /\ Len(listing[phase]) \in Nat
         /\ pos <= Len(listing[phase]) =>
              /\ pos \in DOMAIN listing[phase]
              /\ listing[phase][pos].id \in LocalIDs
<1>1. phase \in Kinds /\ cur \in SenderIDs /\ listing[phase] \in Seq(Listed)
  BY DEF TypeOK, ScanInv
<1> DEFINE list == listing[phase]
<1>2. list \in Seq(Listed) /\ pos \in Nat \ {0}
  BY <1>1 DEF TypeOK
<1> HIDE DEF list
<1>3. Len(list) \in Nat /\ (pos <= Len(list) => pos \in DOMAIN list /\ list[pos] \in Listed)
  BY <1>2
<1>4. pos <= Len(list) => list[pos].id \in LocalIDs
  BY <1>3 DEF Listed
<1> QED
  BY <1>1, <1>3, <1>4 DEF list

\* No step of the call or of the user breaks a type.
LEMMA TypeStep == IInv /\ [Next]_vars => TypeOK'
<1> SUFFICES ASSUME IInv, [Next]_vars PROVE TypeOK'
  OBVIOUS
<1> USE DEF IInv
<1>1. ASSUME NEW kind \in Kinds, NEW i \in LocalIDs, NEW e \in Catalog[kind],
             Insert(kind, i, e)
      PROVE  TypeOK'
  <2>1. e \in Entity
    BY DEF Entity
  <2> QED
    BY <1>1, <2>1 DEF Insert, TypeOK
<1>2. CASE List
  <2>1. listing' \in [Kinds -> Seq(Listed) \cup {Nil}]
    <3>1. CASE \E list \in Listings(store[phase]) : listing' = [listing EXCEPT ![phase] = list]
      <4>1. PICK list \in Listings(store[phase]) : listing' = [listing EXCEPT ![phase] = list]
        BY <3>1
      <4>2. store[phase] \in [LocalIDs -> Entity \cup {Nil}]
        BY <1>2 DEF List, TypeOK
      <4>3. list \in Seq(Listed)
        BY <4>2, ListingIsCopy
      <4> QED
        BY <1>2, <4>1, <4>3 DEF List, TypeOK
    <3>2. CASE listing' = [listing EXCEPT ![phase] = <<>>]
      BY <1>2, <3>2 DEF List, TypeOK
    <3> QED
      BY <1>2, <3>1, <3>2 DEF List
  <2> QED
    BY <1>2, <2>1 DEF List, TypeOK
<1>3. ASSUME NEW k \in SenderIDs, LookupHit(k)
      PROVE  TypeOK'
  BY <1>3 DEF LookupHit, Visits, Carriers, Stored, TypeOK
<1>4. ASSUME NEW k \in SenderIDs, LookupMiss(k)
      PROVE  TypeOK'
  BY <1>4 DEF LookupMiss, Visits, FreshScan, TypeOK
<1>5. CASE CompareExact
  BY <1>5, ScanTyped DEF CompareExact, Scanning, Settle, TypeOK
<1>6. CASE ComparePossible
  BY <1>6, ScanTyped DEF ComparePossible, Scanning, TypeOK
<1>7. CASE CompareSkip
  BY <1>7 DEF CompareSkip, TypeOK
<1>8. CASE Exhaust
  BY <1>8 DEF Exhaust, Settle, TypeOK
<1>9. CASE NextPhase
  BY <1>9 DEF NextPhase, TypeOK, Kinds
<1>10. CASE UNCHANGED vars
  BY <1>10 DEF TypeOK
<1> QED
  BY <1>1, <1>2, <1>3, <1>4, <1>5, <1>6, <1>7, <1>8, <1>9, <1>10
  DEF Next, ProcessPayload, Environment

\* No step stores an entity under another kind.
LEMMA KindsStep == IInv /\ [Next]_vars => KindsInv'
<1> SUFFICES ASSUME KindsInv, TypeOK, [Next]_vars PROVE KindsInv'
  BY DEF IInv
<1>1. ASSUME NEW kind \in Kinds, NEW i \in LocalIDs, NEW e \in Catalog[kind],
             Insert(kind, i, e)
      PROVE  KindsInv'
  BY <1>1 DEF Insert, KindsInv, TypeOK
<1>2. CASE UNCHANGED <<store, payload>>
  BY <1>2 DEF KindsInv
<1> QED
  BY <1>1, <1>2
  DEF Next, ProcessPayload, Environment, List, LookupHit, LookupMiss, CompareExact,
      ComparePossible, CompareSkip, Exhaust, NextPhase

\* No step skips the listing of a kind or visits what the payload lacks.
LEMMA TodoStep == IInv /\ [Next]_vars => TodoInv'
<1> SUFFICES ASSUME IInv, [Next]_vars PROVE TodoInv'
  OBVIOUS
<1> USE DEF IInv, TypeOK
<1>1. ASSUME NEW kind \in Kinds, NEW i \in LocalIDs, NEW e \in Catalog[kind],
             Insert(kind, i, e)
      PROVE  TodoInv'
  BY <1>1 DEF Insert, TodoInv
<1>2. CASE List
  <2>1. payload' = payload /\ todo' = todo
    BY <1>2 DEF List
  <2>2. \A kind \in Kinds : listing[kind] # Nil => listing'[kind] # Nil
    BY <1>2 DEF List
  <2> QED
    BY <2>1, <2>2 DEF TodoInv
<1>3. ASSUME NEW k \in SenderIDs, LookupHit(k) \/ LookupMiss(k)
      PROVE  TodoInv'
  BY <1>3 DEF LookupHit, LookupMiss, Visits, TodoInv
<1>4. CASE CompareExact \/ ComparePossible \/ CompareSkip \/ Exhaust \/ NextPhase
  BY <1>4 DEF CompareExact, ComparePossible, CompareSkip, Exhaust, NextPhase, TodoInv
<1>5. CASE UNCHANGED vars
  BY <1>5 DEF TodoInv
<1> QED
  BY <1>1, <1>2, <1>3, <1>4, <1>5 DEF Next, ProcessPayload, Environment

\* Entries are only added, so that a listing's copies stay current.
LEMMA CurrentStep == IInv /\ [Next]_vars => ListingCurrent'
<1> SUFFICES ASSUME IInv, [Next]_vars,
                    NEW kind \in Kinds, listing'[kind] # Nil,
                    NEW i \in DOMAIN listing'[kind]
             PROVE  store'[kind][listing'[kind][i].id] = listing'[kind][i].entity
  BY DEF ListingCurrent
<1> USE DEF IInv
<1>1. ASSUME NEW knd \in Kinds, NEW id \in LocalIDs, NEW e \in Catalog[knd],
             Insert(knd, id, e)
      PROVE  store'[kind][listing'[kind][i].id] = listing'[kind][i].entity
  <2>1. listing' = listing /\ store[knd][id] = Nil
    BY <1>1 DEF Insert
  <2>2. listing[kind] \in Seq(Listed)
    BY <2>1 DEF TypeOK
  <2>3. listing[kind][i] \in Listed
    BY <2>1, <2>2
  <2>4. listing[kind][i].entity # Nil
    BY <2>3, EntitiesAssumption DEF Listed
  <2>5. store[kind][listing[kind][i].id] = listing[kind][i].entity
    BY <2>1 DEF ListingCurrent
  <2>6. ~(kind = knd /\ listing[kind][i].id = id)
    BY <2>1, <2>4, <2>5
  <2> QED
    BY <1>1, <2>1, <2>5, <2>6 DEF Insert, TypeOK
<1>2. CASE List
  <2>0. store' = store
    BY <1>2 DEF List
  <2>1. CASE kind # phase
    BY <1>2, <2>1 DEF List, ListingCurrent, TypeOK
  <2>2. CASE kind = phase
    <3>1. store[kind] \in [LocalIDs -> Entity \cup {Nil}]
      BY DEF TypeOK
    <3>2. CASE listing'[kind] \in Listings(store[kind])
      BY <2>0, <3>1, <3>2, ListingIsCopy
    <3>3. CASE listing'[kind] = <<>>
      BY <3>3
    <3> QED
      BY <1>2, <2>2, <3>2, <3>3 DEF List, TypeOK
  <2> QED
    BY <2>1, <2>2
<1>3. CASE UNCHANGED <<store, listing>>
  BY <1>3 DEF ListingCurrent
<1> QED
  BY <1>1, <1>2, <1>3
  DEF Next, ProcessPayload, Environment, LookupHit, LookupMiss, CompareExact,
      ComparePossible, CompareSkip, Exhaust, NextPhase

\* Every step of the scan keeps its loop invariant.
LEMMA ScanStep == IInv /\ [Next]_vars => ScanInv'
<1> SUFFICES ASSUME IInv, [Next]_vars PROVE ScanInv'
  OBVIOUS
<1> USE DEF IInv
<1>1. ASSUME NEW kind \in Kinds, NEW i \in LocalIDs, NEW e \in Catalog[kind],
             Insert(kind, i, e)
      PROVE  ScanInv'
  BY <1>1 DEF Insert, ScanInv, Incoming
<1>2. CASE List
  BY <1>2 DEF List, ScanInv
<1>3. ASSUME NEW k \in SenderIDs, LookupHit(k)
      PROVE  ScanInv'
  BY <1>3 DEF LookupHit, Visits, ScanInv
<1>4. ASSUME NEW k \in SenderIDs, LookupMiss(k)
      PROVE  ScanInv'
  <2>1. listing[phase] \in Seq(Listed) /\ phase \in Kinds
    BY <1>4 DEF LookupMiss, Visits, TypeOK
  <2>2. Len(listing[phase]) \in Nat
    BY <2>1
  <2>3. payload[phase][k] # Nil
    BY <1>4 DEF LookupMiss, Visits, TodoInv
  <2>4. k \notin todo'[phase]
    BY <1>4, <2>1 DEF LookupMiss, TypeOK
  <2> QED
    BY <1>4, <2>2, <2>3, <2>4 DEF LookupMiss, Visits, FreshScan, ScanInv, Incoming
<1>5. CASE CompareExact \/ Exhaust
  BY <1>5 DEF CompareExact, Exhaust, Settle, ScanInv
<1>6. CASE ComparePossible
  <2>1. cur # Nil /\ pos <= Len(listing[phase])
    BY <1>6 DEF ComparePossible, Scanning
  <2>2. /\ pos \in Nat \ {0}
        /\ Len(listing[phase]) \in Nat
    BY <2>1, ScanTyped DEF TypeOK
  <2>3. pos' = pos + 1 /\ pos \in 1 .. (pos' - 1)
    BY <1>6, <2>2 DEF ComparePossible
  <2>4. \A j \in 1 .. (pos' - 1) : j \in 1 .. (pos - 1) \/ j = pos
    BY <2>2, <2>3
  <2>5. /\ level = MatchNone
        /\ LevelOf(phase, Incoming, listing[phase], pos) = MatchPossible
        /\ LevelOf(phase, Incoming, listing[phase], pos) # MatchExact
        /\ best' = listing[phase][pos].id
        /\ level' = MatchPossible
    BY <1>6 DEF ComparePossible, Keeps, Level
  <2>6. FirstAt(phase, Incoming, listing[phase], pos, MatchPossible)
    BY <2>1, <2>5 DEF ScanInv, FirstAt, MatchNone, MatchPossible
  <2>7. \A j \in 1 .. (pos' - 1) :
          LevelOf(phase, Incoming, listing[phase], j) # MatchExact
    BY <2>1, <2>4, <2>5 DEF ScanInv
  <2>8. pos' <= Len(listing[phase]) + 1
    BY <2>1, <2>2, <2>3
  <2>9. UNCHANGED <<payload, listing, phase, todo, cur>>
    BY <1>6 DEF ComparePossible
  <2> QED
    BY <2>1, <2>3, <2>5, <2>6, <2>7, <2>8, <2>9 DEF ScanInv, Incoming
<1>7. CASE CompareSkip
  <2>1. cur # Nil /\ pos <= Len(listing[phase])
    BY <1>7 DEF CompareSkip, Scanning
  <2>2. /\ pos \in Nat \ {0}
        /\ Len(listing[phase]) \in Nat
    BY <2>1, ScanTyped DEF TypeOK
  <2>3. pos' = pos + 1
    BY <1>7 DEF CompareSkip
  <2>4. \A j \in 1 .. (pos' - 1) : j \in 1 .. (pos - 1) \/ j = pos
    BY <2>2, <2>3
  <2>5. 1 .. (pos - 1) \subseteq 1 .. (pos' - 1)
    BY <2>2, <2>3
  <2>6. /\ LevelOf(phase, Incoming, listing[phase], pos) # MatchExact
        /\ level = MatchNone =>
             LevelOf(phase, Incoming, listing[phase], pos) # MatchPossible
    BY <1>7 DEF CompareSkip, Keeps, Level
  <2>7. \A j \in 1 .. (pos' - 1) :
          LevelOf(phase, Incoming, listing[phase], j) # MatchExact
    BY <2>1, <2>4, <2>6 DEF ScanInv
  <2>8. pos' <= Len(listing[phase]) + 1
    BY <2>1, <2>2, <2>3
  <2>9. UNCHANGED <<payload, listing, phase, todo, cur, best, level>>
    BY <1>7 DEF CompareSkip
  <2>10. CASE level = MatchNone
    <3>1. \A j \in 1 .. (pos' - 1) :
            LevelOf(phase, Incoming, listing[phase], j) # MatchPossible
      BY <2>1, <2>4, <2>6, <2>10 DEF ScanInv, MatchNone, MatchPossible
    <3>2. best = Nil
      BY <2>1, <2>10 DEF ScanInv, MatchNone, MatchPossible
    <3> QED
      BY <2>1, <2>7, <2>8, <2>9, <2>10, <3>1, <3>2 DEF ScanInv, Incoming
  <2>11. CASE level = MatchPossible
    <3>1. \E i \in 1 .. (pos - 1) :
            /\ best = listing[phase][i].id
            /\ FirstAt(phase, Incoming, listing[phase], i, MatchPossible)
      BY <2>1, <2>11 DEF ScanInv, MatchNone, MatchPossible
    <3>2. \E i \in 1 .. (pos' - 1) :
            /\ best = listing[phase][i].id
            /\ FirstAt(phase, Incoming, listing[phase], i, MatchPossible)
      BY <2>5, <3>1
    <3> QED
      BY <2>1, <2>7, <2>8, <2>9, <2>11, <3>2 DEF ScanInv, Incoming
  <2> QED
    BY <2>10, <2>11 DEF TypeOK
<1>8. CASE NextPhase
  BY <1>8 DEF NextPhase, ScanInv
<1>9. CASE UNCHANGED vars
  BY <1>9 DEF ScanInv, Incoming
<1> QED
  BY <1>1, <1>2, <1>3, <1>4, <1>5, <1>6, <1>7, <1>8, <1>9
  DEF Next, ProcessPayload, Environment

\* What the loop invariant says when the scan stops: at an exact match, ...
LEMMA ExactIsBest ==
  ASSUME TypeOK, ScanInv, CompareExact
  PROVE  IsBest(phase, Incoming, listing[phase], listing[phase][pos].id)
<1>1. cur # Nil /\ pos \in DOMAIN listing[phase]
  BY ScanTyped DEF CompareExact, Scanning
<1>2. FirstAt(phase, Incoming, listing[phase], pos, MatchExact)
  BY <1>1 DEF ScanInv, FirstAt, CompareExact, Level
<1> QED
  BY <1>1, <1>2 DEF IsBest

\* ... or at the end of the listing.
LEMMA ExhaustIsBest ==
  ASSUME TypeOK, ScanInv, Exhaust
  PROVE  IsBest(phase, Incoming, listing[phase], best)
<1>1. cur # Nil /\ pos > Len(listing[phase])
  BY DEF Exhaust
<1> DEFINE list == listing[phase]
<1>2. list \in Seq(Listed) /\ pos <= Len(list) + 1 /\ pos \in Nat
  BY <1>1, ScanTyped DEF ScanInv, TypeOK
<1>3. DOMAIN list = 1 .. (pos - 1)
  <2> HIDE DEF list
  <2>1. DOMAIN list = 1 .. Len(list) /\ Len(list) \in Nat
    BY <1>2
  <2>2. pos - 1 = Len(list)
    BY <1>1, <1>2, <2>1 DEF list
  <2> QED
    BY <2>1, <2>2
<1>4. NoneAt(phase, Incoming, list, MatchExact)
  BY <1>1, <1>3 DEF ScanInv, NoneAt
<1>5. CASE level = MatchNone
  BY <1>1, <1>3, <1>4, <1>5 DEF ScanInv, NoneAt, IsBest, MatchNone, MatchPossible
<1>6. CASE level = MatchPossible
  <2>1. \E i \in DOMAIN list :
          /\ best = list[i].id
          /\ FirstAt(phase, Incoming, list, i, MatchPossible)
    BY <1>1, <1>3, <1>6 DEF ScanInv, MatchNone, MatchPossible
  <2> QED
    BY <1>4, <2>1 DEF IsBest
<1> QED
  BY <1>5, <1>6 DEF TypeOK

\* A step that settles an entity without a GlobalID settles it with its best match.
LEMMA FuzzyStep == IInv /\ [Next]_vars => FuzzyIsBest'
<1> SUFFICES ASSUME IInv, [Next]_vars,
                    NEW kind \in Kinds, NEW k \in SenderIDs,
                    Settled(kind, k)', payload'[kind][k].globalID = Nil
             PROVE  IsBest(kind, payload'[kind][k], listing'[kind], mappings'[kind][k])
  BY DEF FuzzyIsBest
<1> DEFINE Goal == IsBest(kind, payload'[kind][k], listing'[kind], mappings'[kind][k])
<1> USE DEF IInv
<1>0. payload' = payload
  BY DEF Next, ProcessPayload, Environment, Insert, List, LookupHit, LookupMiss,
     CompareExact, ComparePossible, CompareSkip, Exhaust, NextPhase
<1>1. ASSUME Settled(kind, k), listing'[kind] = listing[kind],
             mappings'[kind][k] = mappings[kind][k]
      PROVE  Goal
  BY <1>0, <1>1 DEF FuzzyIsBest
<1>2. ASSUME NEW knd \in Kinds, NEW i \in LocalIDs, NEW e \in Catalog[knd],
             Insert(knd, i, e)
      PROVE  Goal
  BY <1>1, <1>2 DEF Insert, Settled
<1>3. CASE List
  <2>1. Settled(kind, k)
    BY <1>3 DEF List, Settled
  <2>2. kind # phase
    BY <1>3, <2>1 DEF List, Settled, TodoInv
  <2> QED
    BY <1>1, <1>3, <2>1, <2>2 DEF List, TypeOK
<1>4. ASSUME NEW j \in SenderIDs, LookupHit(j)
      PROVE  Goal
  <2>1. payload[phase][j].globalID # Nil
    BY <1>4 DEF LookupHit, Carriers
  <2>2. ~(kind = phase /\ k = j)
    BY <1>0, <2>1
  <2> QED
    BY <1>1, <1>4, <2>2 DEF LookupHit, Visits, Settled, TypeOK
<1>5. ASSUME NEW j \in SenderIDs, LookupMiss(j)
      PROVE  Goal
  <2>1. ~(kind = phase /\ k = j)
    BY <1>5 DEF LookupMiss, Settled
  <2>2. Settled(kind, k)
    BY <1>5, <2>1, ReconcilerAssumption DEF LookupMiss, Visits, Settled, TypeOK
  <2> QED
    BY <1>1, <1>5, <2>2 DEF LookupMiss
<1>6. ASSUME NEW id, Settle(id), IsBest(phase, Incoming, listing[phase], id),
             cur # Nil, UNCHANGED <<listing, phase, todo>>
      PROVE  Goal
  <2>1. phase \in Kinds /\ cur \in SenderIDs
    BY <1>6, ScanTyped
  <2>2. CASE kind = phase /\ k = cur
    BY <1>0, <1>6, <2>1, <2>2 DEF Settle, TypeOK, Incoming
  <2>3. CASE ~(kind = phase /\ k = cur)
    <3>1. Settled(kind, k)
      BY <1>0, <1>6, <2>3 DEF Settled
    <3>2. mappings'[kind][k] = mappings[kind][k]
      BY <1>6, <2>1, <2>3 DEF Settle, TypeOK
    <3> QED
      BY <1>1, <1>6, <3>1, <3>2
  <2> QED
    BY <2>2, <2>3
<1>7. CASE CompareExact
  <2>1. Settle(listing[phase][pos].id) /\ cur # Nil /\ UNCHANGED <<listing, phase, todo>>
    BY <1>7 DEF CompareExact, Scanning
  <2> QED
    BY <1>6, <1>7, <2>1, ExactIsBest
<1>8. CASE Exhaust
  <2>1. Settle(best) /\ cur # Nil /\ UNCHANGED <<listing, phase, todo>>
    BY <1>8 DEF Exhaust
  <2> QED
    BY <1>6, <1>8, <2>1, ExhaustIsBest
<1>9. CASE ComparePossible \/ CompareSkip
  BY <1>1, <1>9 DEF ComparePossible, CompareSkip, Settled
<1>10. CASE NextPhase
  <2>1. k # cur
    BY <1>10, ReconcilerAssumption DEF NextPhase
  <2> QED
    BY <1>1, <1>10, <2>1 DEF NextPhase, Settled
<1>11. CASE UNCHANGED vars
  BY <1>1, <1>11 DEF Settled
<1> QED
  BY <1>2, <1>3, <1>4, <1>5, <1>7, <1>8, <1>9, <1>10, <1>11
  DEF Next, ProcessPayload, Environment

\* A lookup that misses shows that its GlobalID is not in the earlier listing.
LEMMA MissedStep == IInv /\ [Next]_vars => MissedIsUnlisted'
<1> SUFFICES ASSUME IInv, [Next]_vars,
                    NEW kind \in Kinds, NEW k \in SenderIDs,
                    ~StoreMayFail, payload'[kind][k] # Nil, k \notin todo'[kind],
                    payload'[kind][k].globalID # Nil
             PROVE  \/ /\ Settled(kind, k)'
                       /\ mappings'[kind][k] # Nil
                       /\ store'[kind][mappings'[kind][k]].globalID
                            = payload'[kind][k].globalID
                    \/ \A i \in DOMAIN listing'[kind] :
                         listing'[kind][i].entity.globalID # payload'[kind][k].globalID
  BY DEF MissedIsUnlisted
<1> DEFINE g == payload[kind][k].globalID
           Found == /\ Settled(kind, k)
                    /\ mappings[kind][k] # Nil
                    /\ store[kind][mappings[kind][k]].globalID = g
           Unlisted == \A i \in DOMAIN listing[kind] :
                         listing[kind][i].entity.globalID # g
           Goal == Found' \/ Unlisted'
<1> USE DEF IInv
<1>0. payload' = payload
  BY DEF Next, ProcessPayload, Environment, Insert, List, LookupHit, LookupMiss,
     CompareExact, ComparePossible, CompareSkip, Exhaust, NextPhase
<1>1. k \notin todo[kind] => Found \/ Unlisted
  BY <1>0 DEF MissedIsUnlisted
<1>2. ASSUME Unlisted, listing'[kind] = listing[kind]
      PROVE  Goal
  BY <1>0, <1>2
<1>3. ASSUME Found, Settled(kind, k)', mappings'[kind][k] = mappings[kind][k],
             store'[kind] = store[kind]
      PROVE  Goal
  BY <1>0, <1>3
<1> HIDE DEF Goal
<1> SUFFICES Goal
  BY <1>0 DEF Goal
<1>4. ASSUME NEW knd \in Kinds, NEW i \in LocalIDs, NEW e \in Catalog[knd],
             Insert(knd, i, e)
      PROVE  Goal
  <2>1. CASE Found
    <3>1. store[kind][mappings[kind][k]] # Nil
      BY <2>1 DEF EveryMappingJustified
    <3>2. store'[kind][mappings[kind][k]] = store[kind][mappings[kind][k]]
      BY <1>4, <3>1 DEF Insert, TypeOK
    <3> QED
      BY <1>0, <1>4, <2>1, <3>2 DEF Insert, Settled, Goal
  <2>2. CASE Unlisted
    BY <1>2, <1>4, <2>2 DEF Insert
  <2> QED
    BY <1>1, <1>4, <2>1, <2>2 DEF Insert
<1>5. CASE List
  <2>1. k \notin todo[kind] /\ listing[kind] # Nil
    BY <1>0, <1>5 DEF List, TodoInv
  <2>2. listing'[kind] = listing[kind]
    BY <1>5, <2>1 DEF List, TypeOK
  <2>3. Found => Settled(kind, k)' /\ UNCHANGED <<mappings, store>>
    BY <1>0, <1>5 DEF List, Settled
  <2> QED
    BY <1>1, <1>2, <1>3, <2>1, <2>2, <2>3
<1>6. ASSUME NEW j \in SenderIDs, LookupHit(j)
      PROVE  Goal
  <2>1. CASE kind = phase /\ k = j
    <3>1. PICK i \in Carriers(store[phase], payload[phase][k]) :
            mappings' = [mappings EXCEPT ![phase][k] = i]
      BY <1>6, <2>1 DEF LookupHit
    <3>2. /\ i \in LocalIDs
          /\ store[kind][i].globalID = g
      BY <2>1, <3>1 DEF Carriers, Stored
    <3>3. mappings'[kind][k] = i
      BY <2>1, <3>1 DEF TypeOK
    <3>4. Settled(kind, k)'
      BY <1>0, <1>6, <2>1, ReconcilerAssumption DEF LookupHit, Visits, Settled
    <3> QED
      BY <1>0, <1>6, <3>2, <3>3, <3>4, EntitiesAssumption DEF LookupHit, Goal
  <2>2. CASE ~(kind = phase /\ k = j)
    <3>1. k \notin todo[kind] /\ mappings'[kind][k] = mappings[kind][k]
      BY <1>6, <2>2 DEF LookupHit, Visits, TypeOK
    <3>2. Found => Settled(kind, k)'
      BY <1>0, <1>6 DEF LookupHit, Visits, Settled
    <3> QED
      BY <1>1, <1>2, <1>3, <1>6, <3>1, <3>2 DEF LookupHit
  <2> QED
    BY <2>1, <2>2
<1>7. ASSUME NEW j \in SenderIDs, LookupMiss(j)
      PROVE  Goal
  <2>1. CASE kind = phase /\ k = j
    <3>1. Carriers(store[kind], payload[kind][k]) = {}
      BY <1>7, <2>1 DEF LookupMiss
    <3>2. ASSUME NEW i \in DOMAIN listing[kind]
          PROVE  listing[kind][i].entity.globalID # g
      <4>1. listing[kind] \in Seq(Listed)
        BY <1>7, <2>1 DEF LookupMiss, Visits, TypeOK
      <4>2. listing[kind][i] \in Listed
        BY <3>2, <4>1
      <4>3. store[kind][listing[kind][i].id] = listing[kind][i].entity
        BY <1>7, <2>1, <3>2 DEF LookupMiss, Visits, ListingCurrent
      <4>4. listing[kind][i].id \in Stored(store[kind])
        BY <4>2, <4>3, EntitiesAssumption DEF Listed, Stored
      <4> QED
        BY <1>0, <3>1, <4>3, <4>4 DEF Carriers
    <3> QED
      BY <1>2, <1>7, <3>2 DEF LookupMiss
  <2>2. CASE ~(kind = phase /\ k = j)
    <3>1. k \notin todo[kind]
      BY <1>7, <2>2 DEF LookupMiss, Visits, TypeOK
    <3>2. Found => Settled(kind, k)'
      BY <1>0, <1>7, <2>2 DEF LookupMiss, Visits, Settled
    <3> QED
      BY <1>1, <1>2, <1>3, <1>7, <3>1, <3>2 DEF LookupMiss
  <2> QED
    BY <2>1, <2>2
<1>8. ASSUME NEW id, Settle(id), cur # Nil, UNCHANGED <<store, listing, phase, todo>>
      PROVE  Goal
  <2>1. phase \in Kinds /\ cur \in SenderIDs
    BY <1>8, ScanTyped
  <2>2. Found => Settled(kind, k)' /\ mappings'[kind][k] = mappings[kind][k]
    BY <1>0, <1>8, <2>1, ReconcilerAssumption DEF Settle, Settled, TypeOK
  <2> QED
    BY <1>1, <1>2, <1>3, <1>8, <2>2
<1>9. CASE CompareExact \/ Exhaust
  <2>1. cur # Nil /\ UNCHANGED <<store, listing, phase, todo>>
    BY <1>9 DEF CompareExact, Exhaust, Scanning
  <2>2. Settle(listing[phase][pos].id) \/ Settle(best)
    BY <1>9 DEF CompareExact, Exhaust
  <2> QED
    BY <1>8, <2>1, <2>2
<1>10. CASE ComparePossible \/ CompareSkip
  <2>1. Found => Settled(kind, k)'
    BY <1>0, <1>10 DEF ComparePossible, CompareSkip, Settled
  <2> QED
    BY <1>1, <1>2, <1>3, <1>10, <2>1 DEF ComparePossible, CompareSkip
<1>11. CASE NextPhase
  <2>1. Found => Settled(kind, k)'
    BY <1>0, <1>11, ReconcilerAssumption DEF NextPhase, Settled
  <2> QED
    BY <1>1, <1>2, <1>3, <1>11, <2>1 DEF NextPhase
<1>12. CASE UNCHANGED vars
  <2>1. Found => Settled(kind, k)'
    BY <1>12 DEF Settled
  <2> QED
    BY <1>1, <1>2, <1>3, <1>12, <2>1
<1> QED
  BY <1>4, <1>5, <1>6, <1>7, <1>9, <1>10, <1>11, <1>12
  DEF Next, ProcessPayload, Environment

\* What a listing offers is in the store and matches.
LEMMA BestIsJustified ==
  ASSUME IInv, NEW kind \in Kinds, listing[kind] # Nil,
         NEW i \in DOMAIN listing[kind], NEW e,
         LevelOf(kind, e, listing[kind], i) \in {MatchPossible, MatchExact}
  PROVE  LET local == store[kind][listing[kind][i].id]
         IN  local # Nil /\ MatchLevel(kind, e, local) # MatchNone
<1>1. listing[kind] \in Seq(Listed)
  BY DEF IInv, TypeOK
<1>2. listing[kind][i] \in Listed
  BY <1>1
<1>3. listing[kind][i].entity # Nil
  BY <1>2, EntitiesAssumption DEF Listed
<1>4. store[kind][listing[kind][i].id] = listing[kind][i].entity
  BY DEF IInv, ListingCurrent
<1> QED
  BY <1>3, <1>4 DEF LevelOf, MatchNone, MatchPossible, MatchExact

\* A step records only what it found by GlobalID or by matcher.
LEMMA JustifiedStep == IInv /\ [Next]_vars => EveryMappingJustified'
<1> DEFINE Just(st, kind, k, id) ==
             /\ payload[kind][k] # Nil
             /\ st[kind][id] # Nil
             /\ \/ /\ payload[kind][k].globalID # Nil
                   /\ st[kind][id].globalID = payload[kind][k].globalID
                \/ MatchLevel(kind, payload[kind][k], st[kind][id]) # MatchNone
<1> SUFFICES ASSUME IInv, [Next]_vars,
                    NEW kind \in Kinds, NEW k \in SenderIDs, mappings'[kind][k] # Nil
             PROVE  Just(store', kind, k, mappings'[kind][k])
  <2>1. [Next]_vars => payload' = payload
    BY DEF Next, ProcessPayload, Environment, Insert, List, LookupHit, LookupMiss,
       CompareExact, ComparePossible, CompareSkip, Exhaust, NextPhase
  <2> QED
    BY <2>1 DEF EveryMappingJustified
<1> USE DEF IInv
<1>1. mappings[kind][k] # Nil => Just(store, kind, k, mappings[kind][k])
  BY DEF EveryMappingJustified
<1> HIDE DEF Just
<1>2. ASSUME NEW knd \in Kinds, NEW i \in LocalIDs, NEW e \in Catalog[knd],
             Insert(knd, i, e)
      PROVE  Just(store', kind, k, mappings'[kind][k])
  <2>1. mappings' = mappings /\ Just(store, kind, k, mappings[kind][k])
    BY <1>1, <1>2 DEF Insert
  <2>2. store'[kind][mappings[kind][k]] = store[kind][mappings[kind][k]]
    BY <1>2, <2>1 DEF Insert, Just, TypeOK
  <2> QED
    BY <2>1, <2>2 DEF Just
<1>3. ASSUME NEW j \in SenderIDs, LookupHit(j)
      PROVE  Just(store', kind, k, mappings'[kind][k])
  <2>1. PICK i \in Carriers(store[phase], payload[phase][j]) :
          mappings' = [mappings EXCEPT ![phase][j] = i]
    BY <1>3 DEF LookupHit
  <2>2. payload[phase][j] # Nil
    BY <1>3 DEF LookupHit, Visits, TodoInv
  <2>3. Just(store, phase, j, i)
    BY <2>1, <2>2 DEF Carriers, Stored, Just
  <2>4. CASE kind = phase /\ k = j
    BY <1>3, <2>1, <2>3, <2>4 DEF LookupHit, TypeOK
  <2>5. CASE ~(kind = phase /\ k = j)
    BY <1>1, <1>3, <2>1, <2>5 DEF LookupHit, TypeOK
  <2> QED
    BY <2>4, <2>5
<1>4. ASSUME cur # Nil, NEW i \in DOMAIN listing[phase], Settle(listing[phase][i].id),
             LevelOf(phase, Incoming, listing[phase], i) \in {MatchPossible, MatchExact},
             store' = store
      PROVE  Just(store', kind, k, mappings'[kind][k])
  <2>1. phase \in Kinds /\ cur \in SenderIDs
    BY <1>4, ScanTyped
  <2>2. Just(store, phase, cur, listing[phase][i].id)
    <3>1. listing[phase] # Nil /\ Incoming # Nil
      BY <1>4 DEF ScanInv
    <3>2. /\ store[phase][listing[phase][i].id] # Nil
          /\ MatchLevel(phase, Incoming, store[phase][listing[phase][i].id]) # MatchNone
      BY <1>4, <2>1, <3>1, BestIsJustified
    <3> QED
      BY <3>1, <3>2 DEF Just, Incoming
  <2>3. CASE kind = phase /\ k = cur
    BY <1>4, <2>1, <2>2, <2>3 DEF Settle, TypeOK
  <2>4. CASE ~(kind = phase /\ k = cur)
    BY <1>1, <1>4, <2>1, <2>4 DEF Settle, TypeOK
  <2> QED
    BY <2>3, <2>4
<1>5. CASE CompareExact
  <2>1. cur # Nil /\ store' = store /\ Settle(listing[phase][pos].id)
    BY <1>5 DEF CompareExact, Scanning
  <2>2. pos \in DOMAIN listing[phase]
    BY <1>5, <2>1, ScanTyped DEF CompareExact, Scanning
  <2>3. LevelOf(phase, Incoming, listing[phase], pos) = MatchExact
    BY <1>5 DEF CompareExact, Level
  <2> QED
    BY <1>4, <2>1, <2>2, <2>3
<1>6. CASE Exhaust
  <2>1. cur # Nil /\ store' = store /\ Settle(best)
    BY <1>6 DEF Exhaust
  <2>2. CASE best = Nil
    BY <1>1, <2>1, <2>2, ScanTyped DEF Settle, TypeOK
  <2>3. CASE best # Nil
    <3>1. PICK i \in 1 .. (pos - 1) :
            /\ best = listing[phase][i].id
            /\ FirstAt(phase, Incoming, listing[phase], i, MatchPossible)
      BY <2>1, <2>3 DEF ScanInv
    <3>2. i \in DOMAIN listing[phase]
      <4>1. /\ pos \in Nat /\ Len(listing[phase]) \in Nat
            /\ pos <= Len(listing[phase]) + 1
            /\ listing[phase] \in Seq(Listed)
        BY <2>1, ScanTyped DEF ScanInv, TypeOK
      <4>2. i \in 1 .. Len(listing[phase])
        BY <4>1
      <4> QED
        BY <4>1, <4>2
    <3> QED
      BY <1>4, <2>1, <3>1, <3>2 DEF FirstAt
  <2> QED
    BY <2>2, <2>3
<1>7. CASE UNCHANGED <<store, mappings>>
  BY <1>1, <1>7
<1> QED
  BY <1>2, <1>3, <1>5, <1>6, <1>7
  DEF Next, ProcessPayload, Environment, List, LookupMiss, ComparePossible,
      CompareSkip, NextPhase

-----------------------------------------------------------------------------
(* The theorems. *)

\* The inductive invariant holds throughout every call.
THEOREM Invariance == Spec => []IInv
<1>1. IInv /\ [Next]_vars => IInv'
  BY TypeStep, KindsStep, TodoStep, ScanStep, CurrentStep, FuzzyStep, MissedStep, JustifiedStep
  DEF IInv
<1> QED
  BY InitInv, <1>1, PTL DEF Spec

\* Every variable of ProcessPayload keeps its type, and only ids of the
\* recipient's own entities are recorded as mappings.
THEOREM TypeCorrect == Spec => []TypeOK
BY Invariance, PTL DEF IInv

\* The scan of a listing computes the first exact or else the first possible
\* match, in whatever order the store lists its entities.
THEOREM FuzzyMatching == Spec => []FuzzyIsBest
BY Invariance, PTL DEF IInv

\* With a store that cannot fail, a GlobalID that is in the listing is matched
\* by GlobalID, whatever was inserted between the listing and the lookup.
THEOREM GlobalMatching == Spec => []KnownGlobalIDWins
<1>1. IInv => KnownGlobalIDWins
  BY DEF IInv, MissedIsUnlisted, KnownGlobalIDWins, Settled
<1> QED
  BY Invariance, <1>1, PTL

\* Failing reads and concurrent insertions never invent a mapping.
THEOREM Justification == Spec => []EveryMappingJustified
BY Invariance, PTL DEF IInv

-----------------------------------------------------------------------------
(* Places. *)

\* What is listed is an entity of its kind.
LEMMA ListedInCatalog ==
  ASSUME IInv, NEW kind \in Kinds, listing[kind] # Nil, NEW i \in DOMAIN listing[kind]
  PROVE  /\ listing[kind][i].id \in LocalIDs
         /\ listing[kind][i].entity \in Catalog[kind]
         /\ listing[kind][i].entity = store[kind][listing[kind][i].id]
<1>1. listing[kind] \in Seq(Listed)
  BY DEF IInv, TypeOK
<1>2. listing[kind][i] \in Listed
  BY <1>1
<1>3. listing[kind][i].id \in LocalIDs /\ listing[kind][i].entity \in Entity
  BY <1>2 DEF Listed
<1>4. listing[kind][i].entity # Nil
  BY <1>3, EntitiesAssumption
<1>5. listing[kind][i].entity = store[kind][listing[kind][i].id]
  BY DEF IInv, ListingCurrent
<1> QED
  BY <1>3, <1>4, <1>5 DEF IInv, KindsInv

\* A best match is an item of the listing, at its level.
LEMMA BestIsListed ==
  ASSUME IInv, NEW kind \in Kinds, listing[kind] # Nil,
         NEW e, NEW i \in DOMAIN listing[kind], IsBest(kind, e, listing[kind], listing[kind][i].id)
  PROVE  \/ LevelOf(kind, e, listing[kind], i) = MatchExact
         \/ /\ LevelOf(kind, e, listing[kind], i) = MatchPossible
            /\ NoneAt(kind, e, listing[kind], MatchExact)
<1> DEFINE list == listing[kind]
<1>1. list[i].id # Nil
  BY ListedInCatalog, EntitiesAssumption
<1>2. ASSUME NEW j \in DOMAIN list, list[i].id = list[j].id
      PROVE  LevelOf(kind, e, list, j) = LevelOf(kind, e, list, i)
  BY <1>2, ListedInCatalog DEF LevelOf
<1> QED
  BY <1>1, <1>2 DEF IsBest, FirstAt

\* Wherever its namesakes are, a placed location is mapped to none that is more than
\* 500 m away, and to none more than 50 m away when one within 50 m was listed.
THEOREM Nearness == Spec => []NearbyPlaceWins
<1>1. IInv => NearbyPlaceWins
  <2> DEFINE list == listing["location"]
             Metres(e, local) == Distance(e.matcher.at, local.matcher.at)
             Near(e, local) == /\ EqualFold(e.matcher.name, local.matcher.name)
                               /\ local.matcher.at # Nil
                               /\ Metres(e, local) <= 50
  <2> SUFFICES ASSUME IInv, NEW k \in SenderIDs,
                      Settled("location", k),
                      payload["location"][k].globalID = Nil,
                      payload["location"][k].matcher.at # Nil,
                      NEW i \in DOMAIN list,
                      mappings["location"][k] = list[i].id,
                      list[i].entity.matcher.at # Nil
               PROVE  LET e == payload["location"][k]
                          d == Metres(e, list[i].entity)
                      IN  /\ d <= 500
                          /\ d > 50 => \A j \in DOMAIN list : ~Near(e, list[j].entity)
    BY DEF NearbyPlaceWins
  <2>1. "location" \in Kinds
    BY DEF Kinds
  <2>2. list # Nil
    BY <2>1 DEF Settled, IInv, TodoInv
  <2>3. PICK e \in Catalog["location"] : e = payload["location"][k]
    BY <2>1 DEF Settled, IInv, KindsInv
  <2>4. PICK local \in Catalog["location"] : local = list[i].entity
    BY <2>1, <2>2, ListedInCatalog
  <2>5. IsBest("location", e, list, list[i].id)
    BY <2>1, <2>3 DEF IInv, FuzzyIsBest
  <2>6. \/ MatchLevel("location", e, local) = MatchExact
        \/ /\ MatchLevel("location", e, local) = MatchPossible
           /\ \A j \in DOMAIN list : MatchLevel("location", e, list[j].entity) # MatchExact
    BY <2>1, <2>2, <2>4, <2>5, BestIsListed DEF LevelOf, NoneAt
  <2>7. /\ Metres(e, local) \in Int
        /\ Metres(e, local) <= 500
        /\ Metres(e, local) > 50 => MatchLevel("location", e, local) # MatchExact
    BY <2>3, <2>4, <2>6, LevelOfPlaces
  <2>8. ASSUME NEW j \in DOMAIN list, Near(e, list[j].entity)
        PROVE  MatchLevel("location", e, list[j].entity) = MatchExact
    <3>1. list[j].entity \in Catalog["location"]
      BY <2>1, <2>2, ListedInCatalog
    <3> QED
      BY <2>3, <2>8, <3>1, LevelOfPlaces
  <2> QED
    BY <2>3, <2>4, <2>6, <2>7, <2>8
<1> QED
  BY Invariance, <1>1, PTL
=============================================================================
