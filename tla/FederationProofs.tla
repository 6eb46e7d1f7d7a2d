-------------------------- MODULE FederationProofs --------------------------
(***************************************************************************)
(* What users who reconcile each other's entities can rely on, for any     *)
(* number of users, calls and letters: the inductive invariant of          *)
(* Federation and what follows from it.                                    *)
(***************************************************************************)
EXTENDS Federation, EntitiesProofs

-----------------------------------------------------------------------------
(* Ranks. *)

\* A rank is one of four, and 3 is that of carriers of one GlobalID.
LEMMA RankFacts ==
  ASSUME NEW kind \in Kinds, NEW d \in Catalog[kind], NEW e \in Catalog[kind]
  PROVE  LET r == Rank(kind, d, e)
             same == d.globalID # Nil /\ d.globalID = e.globalID
             lvl == MatchLevel(kind, d, e)
         IN  /\ r \in 0 .. 3
             /\ same => r = 3
             /\ ~same /\ lvl = MatchExact => r = 2
             /\ ~same /\ lvl = MatchPossible => r = 1
             /\ ~same /\ lvl = MatchNone => r = 0
             /\ lvl \in {MatchNone, MatchPossible, MatchExact}
<1> DEFINE same == d.globalID # Nil /\ d.globalID = e.globalID
           lvl == MatchLevel(kind, d, e)
<1>1. lvl \in {MatchNone, MatchPossible, MatchExact}
  BY LevelsAre
<1>2. Rank(kind, d, e) =
        IF same THEN 3
        ELSE CASE lvl = MatchExact    -> 2
               [] lvl = MatchPossible -> 1
               [] lvl = MatchNone     -> 0
  BY DEF Rank
<1> HIDE DEF same, lvl
<1>3. /\ same => Rank(kind, d, e) = 3
      /\ ~same /\ lvl = MatchExact => Rank(kind, d, e) = 2
      /\ ~same /\ lvl = MatchPossible => Rank(kind, d, e) = 1
      /\ ~same /\ lvl = MatchNone => Rank(kind, d, e) = 0
  BY <1>2 DEF MatchNone, MatchPossible, MatchExact
<1>4. Rank(kind, d, e) \in 0 .. 3
  BY <1>1, <1>3
<1> QED
  BY <1>1, <1>3, <1>4 DEF same, lvl

\* Who agrees with an entity, the entity agrees with.
LEMMA RankIsSymmetric ==
  ASSUME NEW kind \in Kinds, NEW d \in Catalog[kind], NEW e \in Catalog[kind]
  PROVE  Rank(kind, d, e) = Rank(kind, e, d)
<1>1. MatchLevel(kind, d, e) = MatchLevel(kind, e, d)
  BY LevelIsSymmetric
<1>2. CASE d.globalID # Nil /\ d.globalID = e.globalID
  BY <1>2, RankFacts
<1>3. CASE ~(d.globalID # Nil /\ d.globalID = e.globalID)
  <2>1. ~(e.globalID # Nil /\ e.globalID = d.globalID)
    BY <1>3
  <2>2. CASE MatchLevel(kind, d, e) = MatchExact
    BY <1>1, <1>3, <2>1, <2>2, RankFacts
  <2>3. CASE MatchLevel(kind, d, e) = MatchPossible
    BY <1>1, <1>3, <2>1, <2>3, RankFacts
  <2>4. CASE MatchLevel(kind, d, e) = MatchNone
    BY <1>1, <1>3, <2>1, <2>4, RankFacts
  <2> QED
    BY <2>2, <2>3, <2>4, RankFacts
<1> QED
  BY <1>2, <1>3

-----------------------------------------------------------------------------
(* Types. *)

\* What is stored is an entity of its kind, and not Nil.
LEMMA StoredInCatalog ==
  ASSUME KindsInv, NEW kind \in Kinds, NEW i \in LocalIDs, store[kind][i] # Nil
  PROVE  store[kind][i] \in Catalog[kind]
BY DEF KindsInv

\* The own part of a store has the type of the store.
LEMMA OwnPartTyped ==
  ASSUME TypeOK, NEW u, NEW kind \in Kinds
  PROVE  /\ OwnPart(u, kind) \in [LocalIDs -> Entity \cup {Nil}]
         /\ \A i \in LocalIDs :
              OwnPart(u, kind)[i] = IF Owner[i] = u THEN store[kind][i] ELSE Nil
BY DEF TypeOK, OwnPart

\* A letter is not Nil, nor is a listing or an entity.
LEMMA NotNil ==
  /\ \A m \in Letter : m # Nil
  /\ \A list \in Seq(Listed) : list # Nil
  /\ \A e \in Entity : e # Nil
  /\ \A i \in LocalIDs : i # Nil
  /\ Pending # Nil /\ Pending \notin LocalIDs
BY FederationAssumption, EntitiesAssumption

\* A step of the program.
LEMMA StepCases ==
  ASSUME [Next]_vars
  PROVE  \/ UNCHANGED vars
         \/ \E kind \in Kinds, i \in LocalIDs : \E e \in Catalog[kind] : Insert(kind, i, e)
         \/ \E u, v \in Users, some \in SUBSET LocalIDs : u # v /\ Share(u, v, some)
         \/ \E c \in Calls, m \in sent : Receive(c, m)
         \/ \E c \in Calls, kind \in Kinds : TakeListing(c, kind)
         \/ \E c \in Calls, kind \in Kinds, k \in LocalIDs : Decide(c, kind, k)
         \/ \E c \in Calls : Return(c)
BY DEF Next

\* A listing is one of entities of the recipient.
LEMMA TakenListing ==
  ASSUME TypeOK, NEW c \in Calls, NEW kind \in Kinds, TakeListing(c, kind)
  PROVE  \E list \in Listings(OwnPart(letter[c].to, kind)) :
           /\ list \in Seq(Listed)
           /\ listing' = [listing EXCEPT ![c][kind] = list]
           /\ listing'[c][kind] = list
           /\ \A n \in DOMAIN list :
                /\ list[n].id \in LocalIDs
                /\ Owner[list[n].id] = letter[c].to
                /\ store[kind][list[n].id] = list[n].entity
           /\ \A i \in LocalIDs :
                Owner[i] = letter[c].to /\ store[kind][i] # Nil =>
                  \E n \in DOMAIN list : list[n].id = i
<1> DEFINE own == OwnPart(letter[c].to, kind)
<1>1. PICK list \in Listings(own) : listing' = [listing EXCEPT ![c][kind] = list]
  BY DEF TakeListing
<1>2. own \in [LocalIDs -> Entity \cup {Nil}]
  BY OwnPartTyped
<1>3. \A i \in LocalIDs : own[i] = IF Owner[i] = letter[c].to THEN store[kind][i] ELSE Nil
  BY OwnPartTyped
<1> HIDE DEF own
<1>4. /\ list \in Seq(Listed)
      /\ \A n \in DOMAIN list : own[list[n].id] = list[n].entity /\ own[list[n].id] # Nil
  BY <1>2, ListingIsCopy
<1>5. \A n \in DOMAIN list : list[n].id \in LocalIDs
  <2>1. \A n \in DOMAIN list : list[n] \in Listed
    BY <1>4
  <2> QED
    BY <2>1 DEF Listed
<1>6. \A i \in LocalIDs : own[i] # Nil => \E n \in DOMAIN list : list[n].id = i
  BY ListingIsComplete DEF Stored
<1>7. listing'[c][kind] = list
  BY <1>1 DEF TypeOK
<1>8. \A n \in DOMAIN list :
        Owner[list[n].id] = letter[c].to /\ store[kind][list[n].id] = list[n].entity
  BY <1>3, <1>4, <1>5
<1>9. \A i \in LocalIDs : Owner[i] = letter[c].to /\ store[kind][i] # Nil =>
        \E n \in DOMAIN list : list[n].id = i
  BY <1>3, <1>6
<1> QED
  BY <1>1, <1>4, <1>5, <1>7, <1>8, <1>9 DEF own

\* A verdict carries the GlobalID, or is the best match when nobody does.
LEMMA DecidedVerdict ==
  ASSUME TypeOK, CallInv, NEW c \in Calls, NEW kind \in Kinds, NEW k \in LocalIDs,
         Decide(c, kind, k)
  PROVE  LET e   == letter[c].payload[kind][k]
             own == OwnPart(letter[c].to, kind)
         IN  \E r \in LocalIDs \cup {Nil} :
               /\ verdict' = [verdict EXCEPT ![c][kind][k] = r]
               /\ letter[c] # Nil /\ e # Nil
               /\ listing[c][kind] \in Seq(Listed) /\ listing[c][kind] # Nil
               /\ \/ r \in Carriers(own, e)
                  \/ Carriers(own, e) = {} /\ IsBest(kind, e, listing[c][kind], r)
<1> DEFINE e   == letter[c].payload[kind][k]
           own == OwnPart(letter[c].to, kind)
<1>1. letter[c] # Nil /\ listing[c][kind] # Nil /\ verdict[c][kind][k] = Pending
  BY DEF Decide
<1>2. e # Nil
  BY <1>1, NotNil DEF CallInv
<1>3. listing[c][kind] \in Seq(Listed)
  BY <1>1 DEF TypeOK
<1>4. Carriers(own, e) \subseteq LocalIDs
  BY DEF Carriers, Stored
<1>5. PICK r \in IF Carriers(own, e) # {} THEN Carriers(own, e)
                 ELSE {BestMatch(kind, e, listing[c][kind])} :
        verdict' = [verdict EXCEPT ![c][kind][k] = r]
  BY DEF Decide
<1> HIDE DEF e, own
<1>6. CASE Carriers(own, e) # {}
  BY <1>1, <1>2, <1>3, <1>4, <1>5, <1>6 DEF e, own
<1>7. CASE Carriers(own, e) = {}
  <2>1. r = BestMatch(kind, e, listing[c][kind])
    BY <1>5, <1>7
  <2>2. r \in LocalIDs \cup {Nil} /\ IsBest(kind, e, listing[c][kind], r)
    BY <1>3, <2>1, BestExists
  <2> QED
    BY <1>1, <1>2, <1>3, <1>5, <1>7, <2>2 DEF e, own
<1> QED
  BY <1>6, <1>7

-----------------------------------------------------------------------------
(* The inductive invariant, one conjunct at a time. *)

USE DEF call, vars

\* Before anything is stored the invariant holds.
LEMMA InitInv == Init => IInv
<1> SUFFICES ASSUME Init PROVE IInv
  OBVIOUS
<1>1. TypeOK
  BY NotNil DEF Init, TypeOK, Unheard
<1>2. KindsInv /\ LetterInv /\ CallInv /\ ListingInv
  BY DEF Init, KindsInv, LetterInv, CallInv, ListingInv, Unheard
<1>3. LinkInv /\ VerdictInv
  BY DEF Init, LinkInv, VerdictInv, Decided
<1> QED
  BY <1>1, <1>2, <1>3 DEF IInv

\* What is stored stays stored as it is.
LEMMA StoreGrows ==
  ASSUME TypeOK, [Next]_vars, NEW kind \in Kinds, NEW i \in LocalIDs, store[kind][i] # Nil
  PROVE  store'[kind][i] = store[kind][i]
<1>1. ASSUME NEW other \in Kinds, NEW j \in LocalIDs, NEW e \in Catalog[other],
             Insert(other, j, e)
      PROVE  store'[kind][i] = store[kind][i]
  BY <1>1 DEF Insert, TypeOK
<1>2. CASE UNCHANGED store
  BY <1>2
<1> QED
  BY <1>1, <1>2, StepCases DEF Share, Receive, TakeListing, Decide, Return

\* No step of a user or of a call breaks a type.
LEMMA TypeStep == IInv /\ [Next]_vars => TypeOK'
<1> SUFFICES ASSUME IInv, [Next]_vars PROVE TypeOK'
  OBVIOUS
<1> USE DEF IInv
<1>1. ASSUME NEW kind \in Kinds, NEW i \in LocalIDs, NEW e \in Catalog[kind],
             Insert(kind, i, e)
      PROVE  TypeOK'
  <2>1. e \in Entity
    BY DEF Entity
  <2> QED
    BY <1>1, <2>1 DEF Insert, TypeOK
<1>2. ASSUME NEW u \in Users, NEW v \in Users, NEW some \in SUBSET LocalIDs,
             Share(u, v, some)
      PROVE  TypeOK'
  <2> DEFINE m == [to |-> v,
                   payload |-> [kind \in Kinds |->
                                  [i \in LocalIDs |-> IF i \in some THEN OwnPart(u, kind)[i] ELSE Nil]]]
  <2>1. m \in Letter
    BY OwnPartTyped DEF Letter
  <2>2. sent' \subseteq Letter
    BY <1>2, <2>1 DEF Share, TypeOK
  <2> QED
    BY <1>2, <2>2 DEF Share, TypeOK
<1>3. ASSUME NEW c \in Calls, NEW m \in sent, Receive(c, m)
      PROVE  TypeOK'
  <2>1. m \in Letter
    BY DEF TypeOK
  <2>2. /\ letter' \in [Calls -> Letter \cup {Nil}]
        /\ known' \in [Calls -> SUBSET Link]
        /\ verdict' \in [Calls -> [Kinds -> [LocalIDs -> LocalIDs \cup {Nil, Pending}]]]
    BY <1>3, <2>1 DEF Receive, TypeOK
  <2>3. \A d \in Calls, kind \in Kinds, k \in LocalIDs :
          verdict'[d][kind][k] \in LocalIDs => Owner[verdict'[d][kind][k]] = letter'[d].to
    BY <1>3, NotNil DEF Receive, TypeOK
  <2> QED
    BY <1>3, <2>2, <2>3 DEF Receive, TypeOK
<1>4. ASSUME NEW c \in Calls, NEW kind \in Kinds, TakeListing(c, kind)
      PROVE  TypeOK'
  <2>1. PICK list \in Seq(Listed) : listing' = [listing EXCEPT ![c][kind] = list]
    BY <1>4, TakenListing
  <2>2. listing' \in [Calls -> [Kinds -> Seq(Listed) \cup {Nil}]]
    BY <2>1 DEF TypeOK
  <2> QED
    BY <1>4, <2>2 DEF TakeListing, TypeOK
<1>5. ASSUME NEW c \in Calls, NEW kind \in Kinds, NEW k \in LocalIDs, Decide(c, kind, k)
      PROVE  TypeOK'
  <2> DEFINE list == listing[c][kind]
             e == letter[c].payload[kind][k]
             own == OwnPart(letter[c].to, kind)
  <2>1. PICK r \in LocalIDs \cup {Nil} :
          /\ verdict' = [verdict EXCEPT ![c][kind][k] = r]
          /\ letter[c] # Nil /\ list # Nil
          /\ r \in Carriers(own, e) \/ IsBest(kind, e, list, r)
    BY <1>5, DecidedVerdict
  <2>2. verdict' \in [Calls -> [Kinds -> [LocalIDs -> LocalIDs \cup {Nil, Pending}]]]
    BY <2>1 DEF TypeOK
  <2>3. r \in LocalIDs => Owner[r] = letter[c].to
    <3>1. CASE r \in Carriers(own, e)
      BY <3>1, OwnPartTyped DEF Carriers, Stored
    <3>2. CASE IsBest(kind, e, list, r)
      <4>1. r \in LocalIDs => \E n \in DOMAIN list : r = list[n].id
        BY <3>2, NotNil DEF IsBest
      <4> QED
        BY <2>1, <4>1 DEF ListingInv
    <3> QED
      BY <2>1, <3>1, <3>2
  <2>4. \A d \in Calls, other \in Kinds, j \in LocalIDs :
          verdict'[d][other][j] \in LocalIDs => Owner[verdict'[d][other][j]] = letter[d].to
    BY <2>1, <2>3 DEF TypeOK
  <2> QED
    BY <1>5, <2>2, <2>4 DEF Decide, TypeOK
<1>6. ASSUME NEW c \in Calls, Return(c)
      PROVE  TypeOK'
  <2>1. /\ links' \subseteq Link
        /\ letter' \in [Calls -> Letter \cup {Nil}]
        /\ listing' \in [Calls -> [Kinds -> Seq(Listed) \cup {Nil}]]
        /\ verdict' \in [Calls -> [Kinds -> [LocalIDs -> LocalIDs \cup {Nil, Pending}]]]
        /\ known' \in [Calls -> SUBSET Link]
    BY <1>6 DEF Return, TypeOK, Link, Unheard
  <2>2. \A d \in Calls, kind \in Kinds, k \in LocalIDs :
          verdict'[d][kind][k] \in LocalIDs => Owner[verdict'[d][kind][k]] = letter'[d].to
    BY <1>6, NotNil DEF Return, TypeOK
  <2> QED
    BY <1>6, <2>1, <2>2 DEF Return, TypeOK
<1>7. CASE UNCHANGED vars
  BY <1>7 DEF TypeOK
<1> QED
  BY <1>1, <1>2, <1>3, <1>4, <1>5, <1>6, <1>7, StepCases

\* Entities are added to the stores of their kind.
LEMMA KindsStep == IInv /\ [Next]_vars => KindsInv'
<1> SUFFICES ASSUME IInv, [Next]_vars PROVE KindsInv'
  OBVIOUS
<1>1. ASSUME NEW kind \in Kinds, NEW i \in LocalIDs, NEW e \in Catalog[kind],
             Insert(kind, i, e)
      PROVE  KindsInv'
  BY <1>1 DEF IInv, TypeOK, KindsInv, Insert
<1>2. CASE UNCHANGED store
  BY <1>2 DEF IInv, KindsInv
<1> QED
  BY <1>1, <1>2, StepCases DEF Share, Receive, TakeListing, Decide, Return

\* Letters copy what their sender has stored, and what is stored stays.
LEMMA LetterStep == IInv /\ [Next]_vars => LetterInv'
<1> SUFFICES ASSUME IInv, [Next]_vars,
                    NEW m \in sent', NEW kind \in Kinds, NEW k \in LocalIDs,
                    m.payload[kind][k] # Nil
             PROVE  store'[kind][k] = m.payload[kind][k] /\ Owner[k] # m.to
  BY DEF LetterInv
<1>1. CASE m \in sent
  <2>1. store[kind][k] = m.payload[kind][k] /\ Owner[k] # m.to
    BY <1>1 DEF IInv, LetterInv
  <2> QED
    BY <2>1, StoreGrows DEF IInv
<1>2. ASSUME NEW u \in Users, NEW v \in Users, NEW some \in SUBSET LocalIDs,
             u # v, Share(u, v, some), m \notin sent
      PROVE  store'[kind][k] = m.payload[kind][k] /\ Owner[k] # m.to
  <2>1. /\ m.to = v
        /\ m.payload[kind][k] = IF k \in some THEN OwnPart(u, kind)[k] ELSE Nil
        /\ store' = store
    BY <1>2 DEF Share
  <2> QED
    BY <1>2, <2>1, OwnPartTyped DEF IInv
<1>3. CASE sent' = sent
  BY <1>1, <1>3
<1> QED
  BY <1>1, <1>2, <1>3, StepCases DEF Insert, Receive, TakeListing, Decide, Return

\* A call never has a verdict on what its letter does not hold.
LEMMA CallStep == IInv /\ [Next]_vars => CallInv'
<1> SUFFICES ASSUME IInv, [Next]_vars, NEW c \in Calls
             PROVE  /\ letter'[c] # Nil => letter'[c] \in sent'
                    /\ \A kind \in Kinds, k \in LocalIDs :
                         verdict'[c][kind][k] # Nil =>
                           letter'[c] # Nil /\ letter'[c].payload[kind][k] # Nil
                    /\ known'[c] \subseteq links'
  BY DEF CallInv
<1> DEFINE Goal == /\ letter'[c] # Nil => letter'[c] \in sent'
                   /\ \A kind \in Kinds, k \in LocalIDs :
                        verdict'[c][kind][k] # Nil =>
                          letter'[c] # Nil /\ letter'[c].payload[kind][k] # Nil
                   /\ known'[c] \subseteq links'
<1>0. /\ letter[c] # Nil => letter[c] \in sent
      /\ \A kind \in Kinds, k \in LocalIDs :
           verdict[c][kind][k] # Nil => letter[c] # Nil /\ letter[c].payload[kind][k] # Nil
      /\ known[c] \subseteq links
  BY DEF IInv, CallInv
<1>1. CASE UNCHANGED call /\ sent \subseteq sent' /\ links \subseteq links'
  BY <1>0, <1>1
<1>2. ASSUME NEW u \in Users, NEW v \in Users, NEW some \in SUBSET LocalIDs,
             Share(u, v, some)
      PROVE  Goal
  BY <1>1, <1>2 DEF Share
<1>3. ASSUME NEW d \in Calls, NEW m \in sent, Receive(d, m)
      PROVE  Goal
  <2>1. CASE d = c
    <3>1. letter'[c] = m /\ known'[c] = links /\ links' = links /\ sent' = sent
      BY <1>3, <2>1 DEF IInv, TypeOK, Receive
    <3>2. \A kind \in Kinds, k \in LocalIDs :
            verdict'[c][kind][k] = IF m.payload[kind][k] = Nil THEN Nil ELSE Pending
      BY <1>3, <2>1 DEF IInv, TypeOK, Receive
    <3>3. m # Nil
      BY NotNil DEF IInv, TypeOK
    <3> QED
      BY <3>1, <3>2, <3>3
  <2>2. CASE d # c
    BY <1>0, <1>3, <2>2 DEF IInv, TypeOK, Receive
  <2> QED
    BY <2>1, <2>2
<1>4. ASSUME NEW d \in Calls, NEW kind \in Kinds, TakeListing(d, kind)
      PROVE  Goal
  BY <1>0, <1>4 DEF TakeListing
<1>5. ASSUME NEW d \in Calls, NEW kind \in Kinds, NEW k \in LocalIDs, Decide(d, kind, k)
      PROVE  Goal
  <2>1. PICK r \in LocalIDs \cup {Nil} :
          /\ verdict' = [verdict EXCEPT ![d][kind][k] = r]
          /\ letter[d] # Nil /\ letter[d].payload[kind][k] # Nil
    BY <1>5, DecidedVerdict DEF IInv
  <2>2. \A other \in Kinds, j \in LocalIDs :
          verdict'[c][other][j] # Nil =>
            \/ verdict[c][other][j] # Nil
            \/ c = d /\ other = kind /\ j = k
    BY <2>1 DEF IInv, TypeOK
  <2> QED
    BY <1>0, <1>5, <2>1, <2>2 DEF Decide
<1>6. ASSUME NEW d \in Calls, Return(d)
      PROVE  Goal
  <2>1. links \subseteq links' /\ sent' = sent
    BY <1>6 DEF Return
  <2>2. CASE d = c
    BY <1>6, <2>2 DEF IInv, TypeOK, Return
  <2>3. CASE d # c
    BY <1>0, <1>6, <2>1, <2>3 DEF IInv, TypeOK, Return
  <2> QED
    BY <2>2, <2>3
<1> QED
  BY <1>1, <1>2, <1>3, <1>4, <1>5, <1>6, StepCases DEF Insert

\* A listing copies what is stored and stays, and misses no end of a link.
LEMMA ListingStep == IInv /\ [Next]_vars => ListingInv'
<1> SUFFICES ASSUME IInv, [Next]_vars, NEW c \in Calls, NEW kind \in Kinds,
                    listing'[c][kind] # Nil
             PROVE  LET list == listing'[c][kind]
                    IN  /\ letter'[c] # Nil
                        /\ \A n \in DOMAIN list :
                             /\ Owner[list[n].id] = letter'[c].to
                             /\ store'[kind][list[n].id] = list[n].entity
                        /\ \A j, k \in LocalIDs :
                             <<kind, j, k>> \in known'[c] =>
                               \A i \in {j, k} : Owner[i] = letter'[c].to =>
                                 \E n \in DOMAIN list : list[n].id = i
  BY DEF ListingInv
<1> DEFINE list == listing[c][kind]
           Goal == LET new == listing'[c][kind]
                   IN  /\ letter'[c] # Nil
                       /\ \A n \in DOMAIN new :
                            /\ Owner[new[n].id] = letter'[c].to
                            /\ store'[kind][new[n].id] = new[n].entity
                       /\ \A j, k \in LocalIDs :
                            <<kind, j, k>> \in known'[c] =>
                              \A i \in {j, k} : Owner[i] = letter'[c].to =>
                                \E n \in DOMAIN new : new[n].id = i
<1>1. ASSUME list # Nil, listing'[c][kind] = list, letter'[c] = letter[c], known'[c] = known[c]
      PROVE  Goal
  <2>1. /\ letter[c] # Nil
        /\ \A n \in DOMAIN list : /\ Owner[list[n].id] = letter[c].to
                                  /\ store[kind][list[n].id] = list[n].entity
        /\ \A j, k \in LocalIDs :
             <<kind, j, k>> \in known[c] =>
               \A i \in {j, k} : Owner[i] = letter[c].to => \E n \in DOMAIN list : list[n].id = i
    BY <1>1 DEF IInv, ListingInv
  <2>2. \A n \in DOMAIN list : list[n].id \in LocalIDs /\ list[n].entity # Nil
    <3>1. \A n \in DOMAIN list : list[n] \in Listed
      BY <1>1 DEF IInv, TypeOK
    <3> QED
      BY <3>1, NotNil DEF Listed
  <2>3. \A n \in DOMAIN list : store'[kind][list[n].id] = list[n].entity
    BY <2>1, <2>2, StoreGrows DEF IInv
  <2> HIDE DEF list
  <2> QED
    BY <1>1, <2>1, <2>3
<1>2. ASSUME NEW d \in Calls, NEW m \in sent, Receive(d, m)
      PROVE  Goal
  <2>1. d # c
    BY <1>2 DEF Receive, IInv, ListingInv
  <2> QED
    BY <1>1, <1>2, <2>1 DEF IInv, TypeOK, Receive
<1>3. ASSUME NEW d \in Calls, NEW other \in Kinds, TakeListing(d, other)
      PROVE  Goal
  <2>1. UNCHANGED <<store, letter, known>> /\ letter[d] # Nil
    BY <1>3 DEF TakeListing
  <2>2. CASE d = c /\ other = kind
    <3>1. PICK new \in Seq(Listed) :
            /\ listing'[c][kind] = new
            /\ \A n \in DOMAIN new :
                 /\ Owner[new[n].id] = letter[c].to
                 /\ store[kind][new[n].id] = new[n].entity
            /\ \A i \in LocalIDs :
                 Owner[i] = letter[c].to /\ store[kind][i] # Nil =>
                   \E n \in DOMAIN new : new[n].id = i
      <4>1. TakeListing(c, kind)
        BY <1>3, <2>2
      <4>2. PICK new \in Listings(OwnPart(letter[c].to, kind)) :
              /\ new \in Seq(Listed)
              /\ listing'[c][kind] = new
              /\ \A n \in DOMAIN new :
                   /\ Owner[new[n].id] = letter[c].to
                   /\ store[kind][new[n].id] = new[n].entity
              /\ \A i \in LocalIDs :
                   Owner[i] = letter[c].to /\ store[kind][i] # Nil =>
                     \E n \in DOMAIN new : new[n].id = i
        BY <4>1, TakenListing DEF IInv
      <4> QED
        BY <4>2
    <3>2. \A j, k \in LocalIDs : <<kind, j, k>> \in known[c] =>
            store[kind][j] # Nil /\ store[kind][k] # Nil
      BY DEF IInv, CallInv, LinkInv
    <3> QED
      BY <2>1, <2>2, <3>1, <3>2
  <2>3. CASE ~(d = c /\ other = kind)
    <3>1. listing'[c][kind] = list
      BY <1>3, <2>3 DEF IInv, TypeOK, TakeListing
    <3> QED
      BY <1>1, <2>1, <3>1
  <2> QED
    BY <2>2, <2>3
<1>4. ASSUME NEW d \in Calls, Return(d)
      PROVE  Goal
  <2>1. d # c
    BY <1>4 DEF Return, Unheard, IInv, TypeOK
  <2> QED
    BY <1>1, <1>4, <2>1 DEF IInv, TypeOK, Return
<1>5. CASE UNCHANGED <<letter, listing, known>>
  BY <1>1, <1>5
<1> QED
  BY <1>2, <1>3, <1>4, <1>5, StepCases DEF Insert, Share, Decide

\* What a call compares is of the kind that it is compared with.
LEMMA SentInCatalog ==
  ASSUME IInv, NEW c \in Calls, NEW kind \in Kinds, NEW k \in LocalIDs, Decided(c, kind, k)
  PROVE  /\ letter[c].payload[kind][k] \in Catalog[kind]
         /\ letter[c].payload[kind][k] = store[kind][k]
<1>1. letter[c] \in sent /\ letter[c].payload[kind][k] # Nil
  BY DEF Decided, IInv, CallInv
<1>2. store[kind][k] = letter[c].payload[kind][k]
  BY <1>1 DEF IInv, LetterInv
<1> QED
  BY <1>1, <1>2, StoredInCatalog DEF IInv

\* What is listed is stored, and is of the kind of the listing.
LEMMA ListedInCatalog ==
  ASSUME IInv, NEW c \in Calls, NEW kind \in Kinds, listing[c][kind] # Nil,
         NEW n \in DOMAIN listing[c][kind]
  PROVE  LET item == listing[c][kind][n]
         IN  /\ item.id \in LocalIDs /\ Owner[item.id] = letter[c].to
             /\ item.entity = store[kind][item.id]
             /\ item.entity \in Catalog[kind]
<1> DEFINE item == listing[c][kind][n]
<1>1. listing[c][kind] \in Seq(Listed)
  BY DEF IInv, TypeOK
<1>2. item \in Listed
  BY <1>1
<1>3. item.id \in LocalIDs /\ item.entity # Nil
  BY <1>2, NotNil DEF Listed
<1>4. item.entity = store[kind][item.id] /\ Owner[item.id] = letter[c].to
  BY DEF IInv, ListingInv
<1> QED
  BY <1>3, <1>4, StoredInCatalog DEF IInv

\* A verdict that names an entity names one that is stored, and agrees.
LEMMA VerdictAgrees ==
  ASSUME IInv, NEW c \in Calls, NEW kind \in Kinds, NEW k \in LocalIDs, NEW i \in LocalIDs,
         Decided(c, kind, k), verdict[c][kind][k] = i
  PROVE  /\ store[kind][i] # Nil
         /\ Rank(kind, letter[c].payload[kind][k], store[kind][i]) >= 1
<1> DEFINE e == letter[c].payload[kind][k]
           list == listing[c][kind]
<1>1. e \in Catalog[kind]
  BY SentInCatalog
<1>2. CASE e.globalID # Nil /\ store[kind][i] # Nil /\ store[kind][i].globalID = e.globalID
  <2>1. Rank(kind, e, store[kind][i]) = 3
    BY <1>1, <1>2, StoredInCatalog, RankFacts DEF IInv
  <2> QED
    BY <1>2, <2>1
<1>3. CASE list # Nil /\ IsBest(kind, e, list, i)
  <2>1. PICK n \in DOMAIN list :
          /\ i = list[n].id
          /\ LevelOf(kind, e, list, n) \in {MatchExact, MatchPossible}
    BY <1>3, NotNil DEF IsBest, FirstAt
  <2>2. store[kind][i] = list[n].entity /\ store[kind][i] \in Catalog[kind]
    BY <1>3, <2>1, ListedInCatalog
  <2>3. MatchLevel(kind, e, store[kind][i]) \in {MatchExact, MatchPossible}
    BY <2>1, <2>2 DEF LevelOf
  <2>4. Rank(kind, e, store[kind][i]) >= 1
    BY <1>1, <2>2, <2>3, RankFacts
  <2>5. store[kind][i] # Nil
    BY <2>2, NotNil DEF Entity
  <2> QED
    BY <2>4, <2>5
<1> QED
  BY <1>2, <1>3 DEF IInv, VerdictInv

\* What a call returns it has decided, and a decision is an agreement of two users'
\* entities.
LEMMA LinkStep == IInv /\ [Next]_vars => LinkInv'
<1> SUFFICES ASSUME IInv, [Next]_vars,
                    NEW kind \in Kinds, NEW k \in LocalIDs, NEW i \in LocalIDs,
                    <<kind, k, i>> \in links'
             PROVE  /\ store'[kind][k] # Nil /\ store'[kind][i] # Nil
                    /\ Owner[k] # Owner[i]
                    /\ Rank(kind, store'[kind][k], store'[kind][i]) >= 1
  BY DEF LinkInv
<1> DEFINE Agree == /\ store[kind][k] # Nil /\ store[kind][i] # Nil
                    /\ Owner[k] # Owner[i]
                    /\ Rank(kind, store[kind][k], store[kind][i]) >= 1
<1>1. <<kind, k, i>> \in links => Agree
  BY DEF IInv, LinkInv
<1>2. ASSUME NEW c \in Calls, Return(c), verdict[c][kind][k] = i
      PROVE  Agree
  <2> DEFINE e == letter[c].payload[kind][k]
             local == store[kind][i]
  <2>1. letter[c] \in sent /\ letter[c] # Nil /\ e # Nil
    BY <1>2, NotNil DEF IInv, CallInv
  <2>2. e = store[kind][k] /\ Owner[k] # letter[c].to
    BY <2>1 DEF IInv, LetterInv
  <2>3. Owner[i] = letter[c].to
    BY <1>2 DEF IInv, TypeOK
  <2>4. Decided(c, kind, k)
    BY <1>2, <2>1, NotNil DEF Decided
  <2>5. local # Nil /\ Rank(kind, e, local) >= 1
    BY <1>2, <2>1, <2>4, VerdictAgrees
  <2> QED
    BY <2>1, <2>2, <2>3, <2>5
<1>3. Agree
  <2>1. CASE links' = links
    BY <1>1, <2>1
  <2>2. ASSUME NEW c \in Calls, Return(c)
        PROVE  Agree
    <3>1. <<kind, k, i>> \in links \/ verdict[c][kind][k] = i
      BY <2>2 DEF Return
    <3> QED
      BY <1>1, <1>2, <2>2, <3>1
  <2> QED
    BY <2>1, <2>2, StepCases DEF Insert, Share, Receive, TakeListing, Decide
<1>4. store'[kind][k] = store[kind][k] /\ store'[kind][i] = store[kind][i]
  BY <1>3, StoreGrows DEF IInv
<1> QED
  BY <1>3, <1>4

\* A verdict rests on the listing that the call took, or on a GlobalID that stays.
LEMMA VerdictStep == IInv /\ [Next]_vars => VerdictInv'
<1> DEFINE Carried(e, local) ==
             local # Nil /\ e.globalID # Nil /\ local.globalID = e.globalID
           NoCarrier(e, list) ==
             \A n \in DOMAIN list : e.globalID # Nil => list[n].entity.globalID # e.globalID
<1> SUFFICES ASSUME IInv, [Next]_vars, NEW c \in Calls, NEW kind \in Kinds, NEW k \in LocalIDs,
                    Decided(c, kind, k)'
             PROVE  LET e    == letter'[c].payload[kind][k]
                        r    == verdict'[c][kind][k]
                        list == listing'[c][kind]
                    IN  /\ list # Nil
                        /\ \/ r \in LocalIDs /\ Carried(e, store'[kind][r])
                           \/ NoCarrier(e, list) /\ IsBest(kind, e, list, r)
  BY DEF VerdictInv
<1> DEFINE Goal == LET e    == letter'[c].payload[kind][k]
                       r    == verdict'[c][kind][k]
                       list == listing'[c][kind]
                   IN  /\ list # Nil
                       /\ \/ r \in LocalIDs /\ Carried(e, store'[kind][r])
                          \/ NoCarrier(e, list) /\ IsBest(kind, e, list, r)
<1>1. ASSUME letter'[c] = letter[c], verdict'[c][kind][k] = verdict[c][kind][k],
             listing'[c][kind] = listing[c][kind]
      PROVE  Goal
  <2> DEFINE e    == letter[c].payload[kind][k]
             r    == verdict[c][kind][k]
             list == listing[c][kind]
  <2>1. Decided(c, kind, k)
    BY <1>1 DEF Decided
  <2>2. /\ list # Nil
        /\ \/ r \in LocalIDs /\ Carried(e, store[kind][r])
           \/ NoCarrier(e, list) /\ IsBest(kind, e, list, r)
    BY <2>1 DEF IInv, VerdictInv
  <2>3. r \in LocalIDs /\ store[kind][r] # Nil => store'[kind][r] = store[kind][r]
    BY StoreGrows DEF IInv
  <2> QED
    BY <1>1, <2>2, <2>3
<1>2. ASSUME NEW d \in Calls, NEW m \in sent, Receive(d, m)
      PROVE  Goal
  <2>1. CASE d = c
    <3>1. verdict'[c][kind][k] = (IF m.payload[kind][k] = Nil THEN Nil ELSE Pending)
      BY <1>2, <2>1 DEF IInv, TypeOK, Receive
    <3>2. letter'[c] = m
      BY <1>2, <2>1 DEF IInv, TypeOK, Receive
    <3> QED
      BY <3>1, <3>2 DEF Decided
  <2>2. CASE d # c
    BY <1>1, <1>2, <2>2 DEF IInv, TypeOK, Receive
  <2> QED
    BY <2>1, <2>2
<1>3. ASSUME NEW d \in Calls, NEW other \in Kinds, TakeListing(d, other)
      PROVE  Goal
  <2>1. UNCHANGED <<letter, verdict>>
    BY <1>3 DEF TakeListing
  <2>2. Decided(c, kind, k)
    BY <2>1 DEF Decided
  <2>3. ~(d = c /\ other = kind)
    BY <1>3, <2>2 DEF TakeListing, IInv, VerdictInv
  <2>4. listing'[c][kind] = listing[c][kind]
    BY <1>3, <2>3 DEF TakeListing, IInv, TypeOK
  <2> QED
    BY <1>1, <2>1, <2>4
<1>4. ASSUME NEW d \in Calls, NEW other \in Kinds, NEW j \in LocalIDs, Decide(d, other, j)
      PROVE  Goal
  <2>1. UNCHANGED <<store, letter, listing>>
    BY <1>4 DEF Decide
  <2>2. CASE d = c /\ other = kind /\ j = k
    <3> DEFINE e    == letter[c].payload[kind][k]
               own  == OwnPart(letter[c].to, kind)
               list == listing[c][kind]
    <3>1. Decide(c, kind, k)
      BY <1>4, <2>2
    <3>2. PICK r \in LocalIDs \cup {Nil} :
            /\ verdict' = [verdict EXCEPT ![c][kind][k] = r]
            /\ list # Nil
            /\ \/ r \in Carriers(own, e)
               \/ Carriers(own, e) = {} /\ IsBest(kind, e, list, r)
      BY <3>1, DecidedVerdict DEF IInv
    <3>3. verdict'[c][kind][k] = r
      BY <3>2 DEF IInv, TypeOK
    <3>4. \A i \in LocalIDs : own[i] = IF Owner[i] = letter[c].to THEN store[kind][i] ELSE Nil
      BY OwnPartTyped DEF IInv
    <3>5. \A n \in DOMAIN list :
            list[n].id \in LocalIDs /\ own[list[n].id] = list[n].entity /\ list[n].entity # Nil
      <4>1. \A n \in DOMAIN list :
              /\ list[n].id \in LocalIDs /\ Owner[list[n].id] = letter[c].to
              /\ list[n].entity = store[kind][list[n].id]
              /\ list[n].entity \in Catalog[kind]
        BY <3>2, ListedInCatalog
      <4>2. \A x \in Catalog[kind] : x # Nil
        BY NotNil DEF Entity
      <4> QED
        BY <3>4, <4>1, <4>2
    <3> HIDE DEF e, own, list
    <3>6. r \in Carriers(own, e) => r \in LocalIDs /\ Carried(e, store[kind][r])
      BY <3>4 DEF Carriers, Stored
    <3>7. Carriers(own, e) = {} => NoCarrier(e, list)
      BY <3>5 DEF Carriers, Stored
    <3> QED
      BY <2>1, <3>2, <3>3, <3>6, <3>7 DEF e, list
  <2>3. CASE ~(d = c /\ other = kind /\ j = k)
    <3>1. PICK r \in LocalIDs \cup {Nil} : verdict' = [verdict EXCEPT ![d][other][j] = r]
      BY <1>4, DecidedVerdict DEF IInv
    <3>2. verdict'[c][kind][k] = verdict[c][kind][k]
      BY <2>3, <3>1 DEF IInv, TypeOK
    <3> QED
      BY <1>1, <2>1, <3>2
  <2> QED
    BY <2>2, <2>3
<1>5. ASSUME NEW d \in Calls, Return(d)
      PROVE  Goal
  <2>1. d # c
    BY <1>5 DEF Return, Decided, IInv, TypeOK
  <2> QED
    BY <1>1, <1>5, <2>1 DEF IInv, TypeOK, Return
<1>6. CASE UNCHANGED <<letter, listing, verdict>>
  BY <1>1, <1>6
<1> QED
  BY <1>2, <1>3, <1>4, <1>5, <1>6, StepCases DEF Insert, Share

\* The strengthening of the types and of the two properties is an invariant.
THEOREM Invariance == Spec => []IInv
<1>1. IInv /\ [Next]_vars => IInv'
  BY TypeStep, KindsStep, LetterStep, CallStep, ListingStep, LinkStep, VerdictStep DEF IInv
<1> QED
  BY InitInv, <1>1, PTL DEF Spec

\* Every variable keeps its type, and whoever's listing a call reads, it maps only to
\* entities of the user whom the letter was sent to.
THEOREM TypeCorrect == Spec => []TypeOK
<1>1. IInv => TypeOK
  BY DEF IInv
<1> QED
  BY Invariance, <1>1, PTL

-----------------------------------------------------------------------------
(* Verdicts. *)

\* A verdict is no worse than any of the recipient's entities that was listed.
LEMMA VerdictIsBest ==
  ASSUME IInv, NEW c \in Calls, NEW kind \in Kinds, NEW k \in LocalIDs, Decided(c, kind, k),
         NEW n \in DOMAIN listing[c][kind],
         Rank(kind, letter[c].payload[kind][k], listing[c][kind][n].entity) >= 1
  PROVE  AsGoodAs(c, kind, k, listing[c][kind][n].id)
<1> DEFINE e    == letter[c].payload[kind][k]
           r    == verdict[c][kind][k]
           list == listing[c][kind]
           mine == list[n].entity
           AtLeast(local) == Rank(kind, e, local) >= Rank(kind, e, mine)
<1>1. e \in Catalog[kind]
  BY SentInCatalog
<1>2. list # Nil
  BY DEF IInv, VerdictInv
<1>3. \A m \in DOMAIN list :
        /\ list[m].id \in LocalIDs
        /\ list[m].entity = store[kind][list[m].id]
        /\ list[m].entity \in Catalog[kind]
  BY <1>2, ListedInCatalog
<1>4. Rank(kind, e, mine) \in 1 .. 3
  BY <1>1, <1>3, RankFacts
<1>5. CASE r \in LocalIDs /\ e.globalID # Nil /\ store[kind][r] # Nil
                          /\ store[kind][r].globalID = e.globalID
  <2>1. Rank(kind, e, store[kind][r]) = 3
    BY <1>1, <1>5, StoredInCatalog, RankFacts DEF IInv
  <2>2. r # Nil
    BY <1>5, NotNil
  <2> QED
    BY <1>3, <1>4, <2>1, <2>2 DEF AsGoodAs
<1>6. CASE /\ \A m \in DOMAIN list : e.globalID # Nil => list[m].entity.globalID # e.globalID
           /\ IsBest(kind, e, list, r)
  <2>1. \A m \in DOMAIN list :
          LET lvl == MatchLevel(kind, e, list[m].entity)
              rank == Rank(kind, e, list[m].entity)
          IN  /\ lvl \in {MatchNone, MatchPossible, MatchExact}
              /\ lvl = MatchExact => rank = 2
              /\ lvl = MatchPossible => rank = 1
              /\ lvl = MatchNone => rank = 0
    BY <1>1, <1>3, <1>6, RankFacts
  <2>2. ASSUME NoneAt(kind, e, list, MatchExact), NoneAt(kind, e, list, MatchPossible)
        PROVE  FALSE
    BY <1>4, <2>1, <2>2 DEF NoneAt, LevelOf
  <2>3. PICK m \in DOMAIN list :
          /\ r = list[m].id
          /\ \/ MatchLevel(kind, e, list[m].entity) = MatchExact
             \/ /\ MatchLevel(kind, e, list[m].entity) = MatchPossible
                /\ MatchLevel(kind, e, mine) # MatchExact
    BY <1>6, <2>2 DEF IsBest, FirstAt, NoneAt, LevelOf
  <2>4. Rank(kind, e, list[m].entity) >= Rank(kind, e, mine)
    BY <2>1, <2>3 DEF MatchExact, MatchPossible, MatchNone
  <2>5. r # Nil /\ list[m].entity = store[kind][r]
    BY <1>3, <2>3, NotNil
  <2> QED
    BY <1>3, <2>4, <2>5 DEF AsGoodAs
<1> QED
  BY <1>5, <1>6 DEF IInv, VerdictInv

\* An own entity that a link known to the call had with the incoming one is listed,
\* and agrees with it.
LEMMA KnownIsListed ==
  ASSUME IInv, NEW c \in Calls, NEW kind \in Kinds, NEW k \in LocalIDs, NEW i \in LocalIDs,
         Decided(c, kind, k), Owner[i] = letter[c].to,
         <<kind, k, i>> \in known[c] \/ <<kind, i, k>> \in known[c]
  PROVE  \E n \in DOMAIN listing[c][kind] :
           /\ listing[c][kind][n].id = i
           /\ Rank(kind, letter[c].payload[kind][k], listing[c][kind][n].entity) >= 1
<1> DEFINE e == letter[c].payload[kind][k]
           list == listing[c][kind]
<1>1. e \in Catalog[kind] /\ e = store[kind][k]
  BY SentInCatalog
<1>2. list # Nil
  BY DEF IInv, VerdictInv
<1>3. PICK n \in DOMAIN list : list[n].id = i
  BY <1>2 DEF IInv, ListingInv
<1>4. list[n].entity = store[kind][i] /\ list[n].entity \in Catalog[kind]
  BY <1>2, <1>3, ListedInCatalog
<1>5. \/ Rank(kind, store[kind][k], store[kind][i]) >= 1
      \/ Rank(kind, store[kind][i], store[kind][k]) >= 1
  BY DEF IInv, CallInv, LinkInv
<1> QED
  BY <1>1, <1>3, <1>4, <1>5, RankIsSymmetric

\* So the verdict is no worse than that own entity.
LEMMA NoWorseThanKnown ==
  ASSUME IInv, NEW c \in Calls, NEW kind \in Kinds, NEW k \in LocalIDs, NEW i \in LocalIDs,
         Decided(c, kind, k), Owner[i] = letter[c].to,
         <<kind, k, i>> \in known[c] \/ <<kind, i, k>> \in known[c]
  PROVE  AsGoodAs(c, kind, k, i)
<1>1. PICK n \in DOMAIN listing[c][kind] :
        /\ listing[c][kind][n].id = i
        /\ Rank(kind, letter[c].payload[kind][k], listing[c][kind][n].entity) >= 1
  BY KnownIsListed
<1>2. AsGoodAs(c, kind, k, listing[c][kind][n].id)
  BY <1>1, VerdictIsBest
<1> QED
  BY <1>1, <1>2

\* However often, late or out of order the payloads of any number of friends arrive,
\* and whatever was inserted in between: what was mapped stays mapped, and no worse.
THEOREM Redelivery == Spec => []RedeliveryIsNoWorse
<1>1. IInv => RedeliveryIsNoWorse
  BY NoWorseThanKnown DEF RedeliveryIsNoWorse
<1> QED
  BY Invariance, <1>1, PTL

\* The matchers answer alike in both directions, so what a friend found to be mine I
\* find again when it comes back, or something that agrees as well.
THEOREM RoundTrip == Spec => []RoundTripIsNoWorse
<1>1. IInv => RoundTripIsNoWorse
  BY NoWorseThanKnown DEF RoundTripIsNoWorse
<1> QED
  BY Invariance, <1>1, PTL
=============================================================================
