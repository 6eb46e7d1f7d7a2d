-------------------------- MODULE FirestoreProofs ---------------------------
(***************************************************************************)
(* The inductive invariant of the Firestore stores, what follows from it,  *)
(* and that AddMemberToGroup and GetGroup implement Membership.            *)
(***************************************************************************)
EXTENDS Firestore, TLAPS

USE DEF plans, calls

-----------------------------------------------------------------------------
(* Types. *)

\* The answer of a call is one of five, wherever it comes from.
LEMMA ReturnsType ==
  ASSUME TypeOK, NEW t \in Callers,
         NEW outcome \in {"joined", "refused", "failed", "undecoded"},
         Returns(t, outcome)
  PROVE  /\ answer' \in [Callers -> {"none", "joined", "refused", "failed", "undecoded"}]
         /\ pc' \in [Callers -> {"idle", "get", "commit", "return"}]
BY DEF TypeOK, Returns

\* What GetGroup returns is a set of people.
LEMMA MembersType ==
  ASSUME TypeOK, NEW g \in Groups
  PROVE  Members(g) \in (SUBSET People) \cup {Nil}
BY DEF TypeOK, Members

\* The variables start with their types.
LEMMA InitType == Init => TypeOK
BY FirestoreAssumption DEF Init, TypeOK

\* Every step keeps them; a commit needs a call.
LEMMA StepType == TypeOK /\ CallInv /\ [Next]_vars => TypeOK'
<1> SUFFICES ASSUME TypeOK, CallInv, [Next]_vars
             PROVE  TypeOK'
  OBVIOUS
<1>1. CASE UNCHANGED vars
  BY <1>1 DEF vars, TypeOK
<1>2. ASSUME NEW p \in People, AddPerson(p)
      PROVE  TypeOK'
  BY <1>2 DEF AddPerson, TypeOK
<1>3. ASSUME NEW g \in Groups, AddGroup(g)
      PROVE  TypeOK'
  BY <1>3 DEF AddGroup, TypeOK
<1>4. ASSUME NEW l \in Places, AddSharedLocation(l)
      PROVE  TypeOK'
  BY <1>4 DEF AddSharedLocation, LocationDocument, TypeOK
<1>5. ASSUME NEW l \in Places, NEW u \in Users, AddUserLocation(l, u)
      PROVE  TypeOK'
  BY <1>5 DEF AddUserLocation, LocationDocument, TypeOK
<1>6. ASSUME NEW i \in Plans, NEW draft \in Drafts, AddIntention(i, draft)
      PROVE  TypeOK'
  <2>1. CASE Storable(draft)
    <3>1. Document(draft) \in Documents
      BY <2>1 DEF Documents
    <3> QED
      BY <1>6, <2>1, <3>1 DEF AddIntention, TypeOK
  <2>2. CASE ~Storable(draft)
    BY <1>6, <2>2 DEF AddIntention, TypeOK
  <2> QED
    BY <2>1, <2>2
<1>7. ASSUME NEW t \in Callers, NEW g \in Groups, NEW p \in People, Call(t, g, p)
      PROVE  TypeOK'
  BY <1>7, FirestoreAssumption DEF Call, TypeOK
<1>8. ASSUME NEW t \in Callers, NEW g \in Groups, GetGroup(t, g)
      PROVE  TypeOK'
  BY <1>8, ReturnsType, MembersType DEF GetGroup, TypeOK
<1>9. ASSUME NEW t \in Callers, Get(t)
      PROVE  TypeOK'
  BY <1>9 DEF Get, TypeOK
<1>10. ASSUME NEW t \in Callers, GetNothing(t)
       PROVE  TypeOK'
  BY <1>10, ReturnsType DEF GetNothing, TypeOK
<1>11. ASSUME NEW t \in Callers, Commit(t)
       PROVE  TypeOK'
  <2>1. groups' \in [Groups -> (SUBSET [type : {"string", "array"}, id : People]) \cup {Nil}]
    <3>1. call[t] \in [group : Groups, person : People]
      BY <1>11 DEF Commit, CallInv, TypeOK
    <3>2. AsString(call[t].person) \in [type : {"string", "array"}, id : People]
      BY <3>1 DEF AsString
    <3>3. groups[call[t].group] \in SUBSET [type : {"string", "array"}, id : People]
      BY <1>11, <3>1 DEF Commit, TypeOK
    <3> QED
      BY <1>11, <3>1, <3>2, <3>3 DEF Commit, TypeOK
  <2> QED
    BY <1>11, <2>1, ReturnsType DEF Commit, TypeOK
<1>12. ASSUME NEW t \in Callers, CommitNothing(t)
       PROVE  TypeOK'
  BY <1>12, ReturnsType DEF CommitNothing, TypeOK
<1>13. ASSUME NEW t \in Callers, Abort(t)
       PROVE  TypeOK'
  BY <1>13, FirestoreAssumption DEF Abort, TypeOK
<1>14. ASSUME NEW t \in Callers, Fail(t)
       PROVE  TypeOK'
  BY <1>14, ReturnsType DEF Fail, TypeOK
<1>15. ASSUME NEW t \in Callers, Return(t)
       PROVE  TypeOK'
  BY <1>15, FirestoreAssumption DEF Return, TypeOK
<1> QED
  BY <1>1, <1>2, <1>3, <1>4, <1>5, <1>6, <1>7, <1>8, <1>9, <1>10, <1>11, <1>12, <1>13,
     <1>14, <1>15 DEF Next, Proceeds

-----------------------------------------------------------------------------
(* The invariant. *)

\* Only the steps of AddMemberToGroup and GetGroup touch a call.
LEMMA CallsKept ==
  ASSUME CallInv, UNCHANGED calls, people \subseteq people'
  PROVE  CallInv'
BY DEF CallInv

\* A call that comes to its answer knows no less than before.
LEMMA ReturnsInv ==
  ASSUME TypeOK, CallInv, NEW t \in Callers,
         NEW outcome \in {"joined", "refused", "failed", "undecoded"},
         Returns(t, outcome), UNCHANGED <<people, call>>
  PROVE  CallInv'
BY DEF TypeOK, CallInv, Returns

\* Every call keeps to its program.
LEMMA StepCall == TypeOK /\ CallInv /\ [Next]_vars => CallInv'
<1> SUFFICES ASSUME TypeOK, CallInv, [Next]_vars
             PROVE  CallInv'
  OBVIOUS
<1>1. CASE UNCHANGED vars
  BY <1>1, CallsKept DEF vars
<1>2. ASSUME NEW p \in People, AddPerson(p)
      PROVE  CallInv'
  BY <1>2, CallsKept DEF AddPerson
<1>3. ASSUME NEW g \in Groups, AddGroup(g)
      PROVE  CallInv'
  BY <1>3, CallsKept DEF AddGroup
<1>4. ASSUME NEW l \in Places, AddSharedLocation(l)
      PROVE  CallInv'
  BY <1>4, CallsKept DEF AddSharedLocation
<1>5. ASSUME NEW l \in Places, NEW u \in Users, AddUserLocation(l, u)
      PROVE  CallInv'
  BY <1>5, CallsKept DEF AddUserLocation
<1>6. ASSUME NEW i \in Plans, NEW draft \in Drafts, AddIntention(i, draft)
      PROVE  CallInv'
  BY <1>6, CallsKept DEF AddIntention
<1>7. ASSUME NEW t \in Callers, NEW g \in Groups, NEW p \in People, Call(t, g, p)
      PROVE  CallInv'
  BY <1>7, NilAssumption DEF Call, CallInv, TypeOK
<1>8. ASSUME NEW t \in Callers, NEW g \in Groups, GetGroup(t, g)
      PROVE  CallInv'
  BY <1>8, ReturnsInv, CallsKept DEF GetGroup, CallInv
<1>9. ASSUME NEW t \in Callers, Get(t)
      PROVE  CallInv'
  BY <1>9 DEF Get, CallInv, TypeOK
<1>10. ASSUME NEW t \in Callers, GetNothing(t)
       PROVE  CallInv'
  BY <1>10, ReturnsInv DEF GetNothing
<1>11. ASSUME NEW t \in Callers, Commit(t)
       PROVE  CallInv'
  BY <1>11, ReturnsInv DEF Commit
<1>12. ASSUME NEW t \in Callers, CommitNothing(t)
       PROVE  CallInv'
  BY <1>12, ReturnsInv DEF CommitNothing
<1>13. ASSUME NEW t \in Callers, Abort(t)
       PROVE  CallInv'
  BY <1>13 DEF Abort, CallInv, TypeOK
<1>14. ASSUME NEW t \in Callers, Fail(t)
       PROVE  CallInv'
  BY <1>14, ReturnsInv DEF Fail
<1>15. ASSUME NEW t \in Callers, Return(t)
       PROVE  CallInv'
  BY <1>15 DEF Return, CallInv, TypeOK
<1> QED
  BY <1>1, <1>2, <1>3, <1>4, <1>5, <1>6, <1>7, <1>8, <1>9, <1>10, <1>11, <1>12, <1>13,
     <1>14, <1>15 DEF Next, Proceeds

\* Only AddIntention touches the intentions, and only the services of locations
\* the locations.
LEMMA PlansOrPlaces ==
  ASSUME [Next]_vars
  PROVE  /\ \/ UNCHANGED <<intentions, memory, acknowledged>>
            \/ \E i \in Plans, draft \in Drafts : AddIntention(i, draft)
         /\ \/ UNCHANGED locations
            \/ \E l \in Places : AddSharedLocation(l) \/ \E u \in Users : AddUserLocation(l, u)
BY DEF Next, vars, Proceeds, AddPerson, AddGroup, AddUserLocation, AddSharedLocation,
  AddIntention, Call, Get, GetNothing, Commit, CommitNothing, Abort, Fail, Return, GetGroup

\* Both stores keep what they were given, which is valid.
LEMMA StepTwin == TypeOK /\ TwinInv /\ [Next]_vars => TwinInv'
<1> SUFFICES ASSUME TypeOK, TwinInv, [Next]_vars
             PROVE  TwinInv'
  OBVIOUS
<1>1. CASE UNCHANGED <<intentions, memory, acknowledged>>
  BY <1>1 DEF TwinInv
<1>2. ASSUME NEW i \in Plans, NEW draft \in Drafts, AddIntention(i, draft)
      PROVE  TwinInv'
  <2>1. memory[i] = Nil /\ Valid(draft) /\ draft # Nil
    BY <1>2, NilAssumption DEF AddIntention
  <2>2. memory'[i] = draft /\ \A j \in Plans \ {i} : memory'[j] = memory[j]
    BY <1>2 DEF AddIntention, TypeOK
  <2>3. intentions[i] = Nil
    BY <2>1 DEF TwinInv
  <2>4. CASE Storable(draft)
    <3>1. Document(draft) # Nil
      BY <2>4, NilAssumption DEF Documents
    <3>2. /\ intentions'[i] = Document(draft)
          /\ \A j \in Plans \ {i} : intentions'[j] = intentions[j]
      BY <1>2, <2>4 DEF AddIntention, TypeOK
    <3>3. acknowledged' \subseteq acknowledged \cup {i}
      BY <1>2, <2>4 DEF AddIntention
    <3> QED
      BY <2>1, <2>2, <2>4, <3>1, <3>2, <3>3 DEF TwinInv, TypeOK
  <2>5. CASE ~Storable(draft)
    <3>1. UNCHANGED <<intentions, acknowledged>>
      BY <1>2, <2>5 DEF AddIntention
    <3> QED
      BY <2>1, <2>2, <2>3, <2>5, <3>1 DEF TwinInv, TypeOK
  <2> QED
    BY <2>4, <2>5
<1> QED
  BY <1>1, <1>2, PlansOrPlaces

\* Locations keep their owners.
LEMMA StepOwner == TypeOK /\ OwnerInv /\ [Next]_vars => OwnerInv'
<1> SUFFICES ASSUME TypeOK, OwnerInv, [Next]_vars
             PROVE  OwnerInv'
  OBVIOUS
<1>1. CASE UNCHANGED locations
  BY <1>1 DEF OwnerInv
<1>2. ASSUME NEW l \in Places, AddSharedLocation(l)
      PROVE  OwnerInv'
  BY <1>2 DEF AddSharedLocation, LocationDocument, OwnerInv, TypeOK
<1>3. ASSUME NEW l \in Places, NEW u \in Users, AddUserLocation(l, u)
      PROVE  OwnerInv'
  BY <1>3, NilAssumption DEF AddUserLocation, LocationDocument, OwnerInv, TypeOK
<1> QED
  BY <1>1, <1>2, <1>3, PlansOrPlaces

\* The inductive invariant of the Firestore stores holds for all sets of people,
\* groups, locations, intentions and callers, whatever fails.
THEOREM Invariance == Spec => []IInv
<1>1. Init => IInv
  BY InitType DEF Init, IInv, CallInv, TwinInv, OwnerInv
<1>2. IInv /\ [Next]_vars => IInv'
  BY StepType, StepCall, StepTwin, StepOwner DEF IInv
<1> QED
  BY <1>1, <1>2, PTL DEF Spec

\* Every variable keeps its type; a transaction makes MaxAttempts attempts at most.
THEOREM TypeCorrect == Spec => []TypeOK
<1>1. IInv => TypeOK
  BY DEF IInv
<1> QED
  BY <1>1, Invariance, PTL

\* A location is listed for its owner, or for everybody, and never for both.
THEOREM OneAudience == Spec => []LocationsHaveOneAudience
<1>1. IInv => LocationsHaveOneAudience
  <2> SUFFICES ASSUME TypeOK, OwnerInv, NEW l \in Found
               PROVE  LET owners == {u \in Users : l \in ListByUserID(u)}
                      IN  IF l \in ListShared THEN owners = {}
                                              ELSE \E u \in Users : owners = {u}
    BY DEF IInv, LocationsHaveOneAudience
  <2> DEFINE owners == {u \in Users : l \in ListByUserID(u)}
  <2>1. l \in Places /\ locations[l] # Nil
    BY DEF Found
  <2>2. locations[l].type = "SHARED" <=> locations[l].userId = Nil
    BY <2>1 DEF OwnerInv
  <2>3. locations[l].userId \in Users \cup {Nil}
    BY <2>1 DEF TypeOK
  <2>4. owners = {u \in Users : u = locations[l].userId}
    BY DEF ListByUserID
  <2>5. l \in ListShared <=> locations[l].type = "SHARED"
    BY DEF ListShared
  <2> QED
    BY <2>2, <2>3, <2>4, <2>5, NilAssumption
<1> QED
  BY <1>1, Invariance, PTL

-----------------------------------------------------------------------------
(* Queries. *)

\* A target that is written and read again is the one it was.
LEMMA TargetReturns ==
  ASSUME NEW t \in LocationTarget \cup ProximityTarget
  PROVE  ToTarget(ToTargetDocument(t)) = t
<1>1. CASE t \in LocationTarget
  BY <1>1 DEF LocationTarget, ToTarget, ToTargetDocument
<1>2. CASE t \in ProximityTarget
  BY <1>2 DEF ProximityTarget, ToTarget, ToTargetDocument
<1> QED
  BY <1>1, <1>2

\* The microsecond of a moment begins less than a microsecond before it, and is its
\* own microsecond.
LEMMA CutFacts ==
  ASSUME NEW t \in Int
  PROVE  /\ Cut(t) \in Int
         /\ Cut(t) <= t /\ t < Cut(t) + 1000
         /\ Cut(Cut(t)) = Cut(t)
BY DEF Cut

\* Microseconds keep the order of the moments.
LEMMA CutMonotone ==
  ASSUME NEW s \in Int, NEW t \in Int, s <= t
  PROVE  Cut(s) <= Cut(t)
BY DEF Cut

\* So is an intention, to the microsecond, if all its targets are written.
LEMMA DraftReturns ==
  ASSUME NEW draft \in Drafts, Storable(draft)
  PROVE  Decoded(Document(draft)) = Rounded(draft)
<1>1. /\ DOMAIN draft = {"user", "action", "targets", "start", "end"}
      /\ draft = [x \in DOMAIN draft |-> draft[x]]
      /\ draft.targets \in Seq(LocationTarget \cup ProximityTarget \cup OtherTarget)
  BY FirestoreAssumption
<1>2. \A n \in DOMAIN draft.targets : draft.targets[n] \in LocationTarget \cup ProximityTarget
  BY <1>1 DEF Storable, Writable, OtherTarget
<1> DEFINE docs == [n \in DOMAIN draft.targets |-> ToTargetDocument(draft.targets[n])]
<1>3. [n \in DOMAIN docs |-> ToTarget(docs[n])] = draft.targets
  BY <1>1, <1>2, TargetReturns
<1>4. /\ DOMAIN Rounded(draft) = {"user", "action", "targets", "start", "end"}
      /\ Rounded(draft) = [x \in DOMAIN Rounded(draft) |-> Rounded(draft)[x]]
      /\ Rounded(draft).targets = draft.targets
  BY <1>1 DEF Rounded
<1>5. Document(draft) = [Rounded(draft) EXCEPT !.targets = docs]
  BY <1>4 DEF Document
<1>6. Document(draft).targets = docs
  BY <1>4, <1>5
<1>7. Decoded(Document(draft)) = [Document(draft) EXCEPT !.targets = draft.targets]
  BY <1>3, <1>6 DEF Decoded
<1> QED
  BY <1>4, <1>5, <1>7

\* Its document has the fields that queries look at.
LEMMA DocumentFields ==
  ASSUME NEW draft \in Drafts
  PROVE  /\ Document(draft).user = draft.user
         /\ Document(draft).start = Cut(draft.start)
         /\ Document(draft).end = Cut(draft.end)
         /\ draft.start \in Int /\ draft.end \in Int
BY FirestoreAssumption DEF Document, Rounded

\* A query asks about the moment it was given, or about its microsecond.
LEMMA AskedFacts ==
  ASSUME NEW time \in Int, NEW asked \in Asked(time)
  PROVE  /\ asked \in Int /\ asked # Nil
         /\ Cut(time) <= asked /\ asked <= time
BY CutFacts, NilAssumption DEF Asked

\* What the Where clauses select and the loop in memory skips begins or ends in the
\* microsecond that was asked about.
LEMMA OnlyStored ==
  ASSUME NEW draft \in Drafts, NEW user, NEW activeAt \in Times \cup {Nil},
         NEW asked \in Asked(activeAt),
         Selects(Document(draft), user, asked), Skips(draft, user, activeAt)
  PROVE  activeAt # Nil /\ Cut(activeAt) \in {Cut(draft.start), Cut(draft.end)}
<1>1. draft.start \in Int /\ draft.end \in Int
  BY DocumentFields
<1>2. activeAt # Nil /\ (activeAt < draft.start \/ activeAt > draft.end)
  BY DocumentFields DEF Selects, Skips
<1>3. activeAt \in Int
  BY <1>2, FirestoreAssumption
<1>4. asked \in Int /\ asked # Nil /\ Cut(activeAt) <= asked /\ asked <= activeAt
  BY <1>3, AskedFacts
<1>5. Cut(draft.start) <= asked /\ asked <= Cut(draft.end)
  BY <1>4, DocumentFields DEF Selects
<1>6. CASE activeAt < draft.start
  BY <1>1, <1>2, <1>3, <1>4, <1>5, <1>6 DEF Cut
<1>7. CASE activeAt > draft.end
  BY <1>1, <1>2, <1>3, <1>4, <1>5, <1>7 DEF Cut
<1> QED
  BY <1>2, <1>6, <1>7

\* What the loop keeps and the Where clauses pass over ends in the microsecond whose
\* beginning is all that Firestore has of it.
LEMMA OnlyKept ==
  ASSUME NEW draft \in Drafts, NEW user, NEW activeAt \in Times \cup {Nil},
         NEW asked \in Asked(activeAt),
         ~Selects(Document(draft), user, asked), ~Skips(draft, user, activeAt)
  PROVE  activeAt # Nil /\ Cut(draft.end) < activeAt
<1>1. /\ draft.start \in Int /\ draft.end \in Int
      /\ Cut(draft.start) \in Int /\ Cut(draft.end) \in Int
  BY DocumentFields, CutFacts
<1>2. activeAt # Nil
  BY DocumentFields DEF Selects, Skips, Asked
<1>3. activeAt \in Int
  BY <1>2, FirestoreAssumption
<1>4. asked \in Int /\ asked # Nil /\ Cut(activeAt) <= asked /\ asked <= activeAt
  BY <1>3, AskedFacts
<1>5. draft.start <= activeAt
  BY <1>1, <1>2, <1>3 DEF Skips
<1>6. Cut(draft.start) <= asked
  BY <1>1, <1>3, <1>4, <1>5, CutMonotone, CutFacts
<1>7. Cut(draft.end) < asked
  BY <1>1, <1>4, <1>6, DocumentFields DEF Selects, Skips
<1> QED
  BY <1>1, <1>2, <1>3, <1>4, <1>7

\* What the invariant says of one intention.
LEMMA TwinsOf ==
  ASSUME IInv, NEW i \in Plans
  PROVE  /\ memory[i] # Nil => memory[i] \in Drafts /\ Valid(memory[i])
         /\ intentions[i] # Nil =>
              /\ memory[i] # Nil /\ Storable(memory[i])
              /\ intentions[i] = Document(memory[i])
              /\ Decoded(intentions[i]) = Rounded(memory[i])
         /\ memory[i] # Nil /\ Storable(memory[i]) => intentions[i] # Nil
<1>1. memory[i] # Nil => memory[i] \in Drafts /\ Valid(memory[i])
  BY DEF IInv, TwinInv, TypeOK
<1>2. intentions[i] # Nil =>
        memory[i] # Nil /\ Storable(memory[i]) /\ intentions[i] = Document(memory[i])
  BY DEF IInv, TwinInv
<1>3. memory[i] # Nil /\ Storable(memory[i]) => intentions[i] # Nil
  BY DEF IInv, TwinInv
<1> QED
  BY <1>1, <1>2, <1>3, DraftReturns

\* For all intentions that the services accept, and all moments, the two stores differ
\* in what QueriesAgree names and in nothing else.
THEOREM Agreement == Spec => []QueriesAgree
<1>1. IInv => QueriesAgree
  <2> SUFFICES ASSUME IInv, NEW user \in Users \cup {Nil}, NEW activeAt \in Times \cup {Nil},
                      NEW asked \in Asked(activeAt)
               PROVE  /\ \A found \in Query(user, asked) :
                           memory[found[1]] # Nil /\ found[2] = Rounded(memory[found[1]])
                      /\ \A i \in Ids(MemoryQuery(user, activeAt)) \ Ids(Query(user, asked)) :
                           \/ ~Storable(memory[i])
                           \/ activeAt # Nil /\ Cut(memory[i].end) < activeAt
                      /\ \A i \in Ids(Query(user, asked)) \ Ids(MemoryQuery(user, activeAt)) :
                           /\ activeAt # Nil
                           /\ Cut(activeAt) \in {Cut(memory[i].start), Cut(memory[i].end)}
    BY DEF QueriesAgree
  <2>1. \A i : i \in Ids(Query(user, asked)) <=>
               i \in Plans /\ intentions[i] # Nil /\ Selects(intentions[i], user, asked)
    <3>1. ASSUME NEW i \in Ids(Query(user, asked))
          PROVE  i \in Plans /\ intentions[i] # Nil /\ Selects(intentions[i], user, asked)
      BY <3>1 DEF Ids, Query
    <3>2. ASSUME NEW i \in Plans, intentions[i] # Nil, Selects(intentions[i], user, asked)
          PROVE  i \in Ids(Query(user, asked))
      <4>1. <<i, Decoded(intentions[i])>> \in Query(user, asked)
        BY <3>2 DEF Query
      <4> QED
        BY <4>1 DEF Ids
    <3> QED
      BY <3>1, <3>2
  <2>2. \A i : i \in Ids(MemoryQuery(user, activeAt)) <=>
               i \in Plans /\ memory[i] # Nil /\ ~Skips(memory[i], user, activeAt)
    <3>1. ASSUME NEW i \in Ids(MemoryQuery(user, activeAt))
          PROVE  i \in Plans /\ memory[i] # Nil /\ ~Skips(memory[i], user, activeAt)
      BY <3>1 DEF Ids, MemoryQuery
    <3>2. ASSUME NEW i \in Plans, memory[i] # Nil, ~Skips(memory[i], user, activeAt)
          PROVE  i \in Ids(MemoryQuery(user, activeAt))
      <4>1. <<i, memory[i]>> \in MemoryQuery(user, activeAt)
        BY <3>2 DEF MemoryQuery
      <4> QED
        BY <4>1 DEF Ids
    <3> QED
      BY <3>1, <3>2
  <2>3. ASSUME NEW found \in Query(user, asked)
        PROVE  memory[found[1]] # Nil /\ found[2] = Rounded(memory[found[1]])
    BY <2>3, TwinsOf DEF Query
  <2>4. ASSUME NEW i \in Ids(MemoryQuery(user, activeAt)) \ Ids(Query(user, asked)),
               Storable(memory[i])
        PROVE  activeAt # Nil /\ Cut(memory[i].end) < activeAt
    <3>1. i \in Plans /\ memory[i] # Nil /\ ~Skips(memory[i], user, activeAt)
      BY <2>2, <2>4
    <3>2. /\ memory[i] \in Drafts
          /\ intentions[i] # Nil /\ intentions[i] = Document(memory[i])
      BY <2>4, <3>1, TwinsOf
    <3>3. ~Selects(Document(memory[i]), user, asked)
      BY <2>1, <2>4, <3>1, <3>2
    <3> QED
      BY <3>1, <3>2, <3>3, OnlyKept
  <2>5. ASSUME NEW i \in Ids(Query(user, asked)) \ Ids(MemoryQuery(user, activeAt))
        PROVE  activeAt # Nil /\ Cut(activeAt) \in {Cut(memory[i].start), Cut(memory[i].end)}
    <3>1. i \in Plans /\ intentions[i] # Nil /\ Selects(intentions[i], user, asked)
      BY <2>1, <2>5
    <3>2. /\ memory[i] \in Drafts /\ memory[i] # Nil
          /\ intentions[i] = Document(memory[i])
      BY <3>1, TwinsOf
    <3>3. Skips(memory[i], user, activeAt)
      BY <2>2, <2>5, <3>1, <3>2
    <3> QED
      BY <3>1, <3>2, <3>3, OnlyStored
  <2> QED
    BY <2>3, <2>4, <2>5
<1> QED
  BY <1>1, Invariance, PTL

\* Whatever interval it has, an acknowledged intention is found at the microseconds of
\* both its ends, and from its start to the second of them.
THEOREM Findability == Spec => []AcknowledgedIsFound
<1>1. IInv => AcknowledgedIsFound
  <2> SUFFICES ASSUME IInv, NEW i \in acknowledged
               PROVE  LET draft == memory[i]
                          Finds(time) == \A asked \in Asked(time) :
                                           <<i, Rounded(draft)>> \in Query(draft.user, asked)
                      IN  /\ Finds(Cut(draft.start)) /\ Finds(Cut(draft.end))
                          /\ \A time \in Times :
                               draft.start <= time /\ time <= Cut(draft.end) => Finds(time)
    BY DEF AcknowledgedIsFound
  <2> DEFINE draft == memory[i]
             first == Cut(draft.start)
             last  == Cut(draft.end)
  <2>1. i \in Plans /\ intentions[i] # Nil
    BY DEF IInv, TypeOK, TwinInv
  <2>2. /\ draft \in Drafts /\ Valid(draft)
        /\ intentions[i] = Document(draft)
        /\ Decoded(intentions[i]) = Rounded(draft)
    BY <2>1, TwinsOf
  <2>3. draft.start \in Int /\ draft.end \in Int /\ draft.start <= draft.end
    BY <2>2, DocumentFields DEF Valid
  <2>4. /\ first \in Int /\ last \in Int /\ first <= last
        /\ Cut(first) = first /\ Cut(last) = last
    BY <2>3, CutFacts, CutMonotone
  <2>5. ASSUME NEW asked \in Int, first <= asked, asked <= last
        PROVE  <<i, Rounded(draft)>> \in Query(draft.user, asked)
    <3>1. Selects(intentions[i], draft.user, asked)
      BY <2>2, <2>5, DocumentFields DEF Selects
    <3> QED
      BY <2>1, <2>2, <3>1 DEF Query
  <2>6. ASSUME NEW time \in Int, first <= Cut(time), time <= last, NEW asked \in Asked(time)
        PROVE  <<i, Rounded(draft)>> \in Query(draft.user, asked)
    <3>1. asked \in Int /\ Cut(time) <= asked /\ asked <= time /\ Cut(time) \in Int
      BY AskedFacts, CutFacts
    <3> HIDE DEF draft, first, last
    <3>2. first <= asked /\ asked <= last
      BY <2>4, <2>6, <3>1
    <3> QED
      BY <2>5, <3>1, <3>2
  <2>7. ASSUME NEW time \in Times, draft.start <= time
        PROVE  time \in Int /\ first <= Cut(time)
    BY <2>3, <2>7, CutMonotone, FirestoreAssumption
  <2> QED
    BY <2>4, <2>6, <2>7
<1> QED
  BY <1>1, Invariance, PTL

-----------------------------------------------------------------------------
(* Refinement. *)

\* The abstract values of groups, pc and call, and answer.
Enrolled == [g \in Groups |-> Members(g)]
Requests == [t \in Callers |-> IF pc[t] \in {"get", "commit"} THEN call[t] ELSE Nil]
Answers  == [t \in Callers |-> IF answer[t] = "undecoded" THEN "failed" ELSE answer[t]]

\* A store starts as it should.
LEMMA RefinesInit == Init => Promised!AbsInit
<1> SUFFICES ASSUME Init PROVE Promised!AbsInit
  OBVIOUS
<1>1. Enrolled = [g \in Groups |-> Nil]
  BY DEF Init, Enrolled, Members
<1>2. Requests = [t \in Callers |-> Nil]
  BY DEF Init, Requests
<1>3. Answers = [t \in Callers |-> "none"]
  BY DEF Init, Answers
<1> QED
  BY <1>1, <1>2, <1>3 DEF Init, Enrolled, Requests, Answers, Promised!AbsInit

\* Groups that do not change have the members they had.
LEMMA MembersKept ==
  ASSUME UNCHANGED groups
  PROVE  Enrolled' = Enrolled
BY DEF Enrolled, Members

\* A call that comes to its answer is a request no more.
LEMMA ReturnsMaps ==
  ASSUME TypeOK, NEW t \in Callers, NEW outcome, Returns(t, outcome), UNCHANGED call
  PROVE  /\ Requests' = [Requests EXCEPT ![t] = Nil]
         /\ Answers' = [Answers EXCEPT ![t] = IF outcome = "undecoded" THEN "failed" ELSE outcome]
BY DEF TypeOK, Returns, Requests, Answers

\* A call under way is a request with no answer, and its group's members are known.
LEMMA UnderWay ==
  ASSUME TypeOK, CallInv, NEW t \in Callers, pc[t] \in {"get", "commit"}
  PROVE  /\ call[t] \in [group : Groups, person : People]
         /\ Requests[t] = call[t] /\ Requests[t] # Nil
         /\ Enrolled[call[t].group] = Nil <=> groups[call[t].group] = Nil
<1>1. call[t] \in [group : Groups, person : People]
  BY DEF TypeOK, CallInv
<1>2. groups[call[t].group] # Nil =>
        {value.id : value \in groups[call[t].group]} \in SUBSET People
  BY <1>1 DEF TypeOK
<1> QED
  BY <1>1, <1>2, NilAssumption DEF Requests, Enrolled, Members

\* Writing one group changes its members, and no others.
LEMMA WrittenGroup ==
  ASSUME TypeOK, NEW g \in Groups, NEW S, S # Nil, groups' = [groups EXCEPT ![g] = S]
  PROVE  Enrolled' = [Enrolled EXCEPT ![g] = {value.id : value \in S}]
<1>1. groups'[g] = S /\ \A h \in Groups \ {g} : groups'[h] = groups[h]
  BY DEF TypeOK
<1>2. ASSUME NEW h \in Groups
      PROVE  Enrolled'[h] = IF groups'[h] = Nil THEN Nil ELSE {value.id : value \in groups'[h]}
  BY DEF Enrolled, Members
<1>3. ASSUME NEW h \in Groups
      PROVE  Enrolled[h] = IF groups[h] = Nil THEN Nil ELSE {value.id : value \in groups[h]}
  BY DEF Enrolled, Members
<1>4. Enrolled'[g] = {value.id : value \in S}
  BY <1>1, <1>2
<1>5. ASSUME NEW h \in Groups, h # g
      PROVE  Enrolled'[h] = Enrolled[h]
  <2>1. groups'[h] = groups[h]
    BY <1>1, <1>5
  <2> QED
    BY <2>1, <1>2, <1>3
<1> QED
  BY <1>4, <1>5 DEF Enrolled

\* The ids of a union of values.
LEMMA UnionOfIds ==
  ASSUME NEW S, NEW p
  PROVE  {value.id : value \in S \cup {AsString(p)}} = {value.id : value \in S} \cup {p}
<1>1. AsString(p).id = p
  BY DEF AsString
<1> QED
  BY <1>1

\* What the union of arrays does to the members.
LEMMA CommitEnrols ==
  ASSUME TypeOK, CallInv, NEW t \in Callers, Commit(t)
  PROVE  Enrolled' = [Enrolled EXCEPT ![call[t].group] = @ \cup {call[t].person}]
<1>1. PICK g \in Groups, p \in People : g = call[t].group /\ p = call[t].person
  BY UnderWay DEF Commit
<1>2. groups[g] # Nil /\ groups' = [groups EXCEPT ![g] = groups[g] \cup {AsString(p)}]
  BY <1>1 DEF Commit
<1>3. groups[g] \in SUBSET [type : {"string", "array"}, id : People]
  BY <1>2 DEF TypeOK
<1>4. groups[g] \cup {AsString(p)} # Nil
  BY <1>3, NilAssumption DEF AsString
<1>5. Enrolled' = [Enrolled EXCEPT ![g] = {value.id : value \in groups[g] \cup {AsString(p)}}]
  BY <1>2, <1>4, WrittenGroup
<1>6. Enrolled[g] = {value.id : value \in groups[g]}
  BY <1>2 DEF Enrolled, Members
<1>7. {value.id : value \in groups[g] \cup {AsString(p)}} = Enrolled[g] \cup {p}
  BY <1>6, UnionOfIds
<1>8. Enrolled' = [Enrolled EXCEPT ![g] = Enrolled[g] \cup {p}]
  BY <1>5, <1>7
<1> QED
  BY <1>1, <1>8

\* The abstract store sees its own steps and no others.
LEMMA RefinesStep == IInv /\ [Next]_vars => [Promised!AbsNext]_(Promised!absVars)
<1> SUFFICES ASSUME TypeOK, CallInv, [Next]_vars
             PROVE  Promised!AbsNext \/ UNCHANGED Promised!absVars
  BY DEF IInv
<1> DEFINE Same == UNCHANGED <<people, Enrolled, Requests, Answers, view>>
<1>0. ASSUME Same
      PROVE  UNCHANGED Promised!absVars
  BY <1>0 DEF Promised!absVars, Enrolled, Requests, Answers
<1>1. ASSUME UNCHANGED <<people, groups, calls>>
      PROVE  Same
  BY <1>1, MembersKept DEF Requests, Answers
<1>2. ASSUME NEW p \in People, AddPerson(p)
      PROVE  Promised!AddPerson(p)
  <2>1. UNCHANGED <<Enrolled, Requests, Answers, view>>
    BY <1>2, MembersKept DEF AddPerson, Requests, Answers
  <2> QED
    BY <1>2, <2>1 DEF AddPerson, Promised!AddPerson, Enrolled, Requests, Answers
<1>3. ASSUME NEW g \in Groups, AddGroup(g)
      PROVE  Promised!AddGroup(g)
  <2>1. Enrolled[g] = Nil
    BY <1>3 DEF AddGroup, Enrolled, Members
  <2>2. Enrolled' = [Enrolled EXCEPT ![g] = {}]
    <3>1. {} # Nil /\ {value.id : value \in {}} = {}
      BY NilAssumption
    <3> QED
      BY <1>3, <3>1, WrittenGroup DEF AddGroup
  <2>3. UNCHANGED <<Requests, Answers>>
    BY <1>3 DEF AddGroup, Requests, Answers
  <2> QED
    BY <1>3, <2>1, <2>2, <2>3 DEF AddGroup, Promised!AddGroup, Enrolled, Requests, Answers
<1>4. ASSUME NEW t \in Callers, NEW g \in Groups, NEW p \in People, Call(t, g, p)
      PROVE  Promised!Call(t, g, p)
  <2>1. Requests[t] = Nil /\ Answers[t] = "none"
    BY <1>4 DEF Call, CallInv, Requests, Answers
  <2>2. Requests' = [Requests EXCEPT ![t] = [group |-> g, person |-> p]]
    BY <1>4 DEF Call, Requests, TypeOK
  <2>3. UNCHANGED <<Enrolled, Answers>>
    BY <1>4, MembersKept DEF Call, Answers
  <2> QED
    BY <1>4, <2>1, <2>2, <2>3
    DEF Call, Promised!Call, Promised!Idle, Enrolled, Requests, Answers
<1>5. ASSUME NEW t \in Callers, NEW g \in Groups, GetGroup(t, g)
      PROVE  Promised!AbsNext
  <2>1. Requests[t] = Nil /\ Answers[t] = "none"
    BY <1>5 DEF GetGroup, CallInv, Requests, Answers
  <2>2. UNCHANGED Enrolled
    BY <1>5, MembersKept DEF GetGroup
  <2>3. CASE UNCHANGED <<pc, answer>> /\ view' = [view EXCEPT ![t] = Members(g)]
    <3>1. UNCHANGED <<Requests, Answers>> /\ view' = [view EXCEPT ![t] = Enrolled[g]]
      BY <1>5, <2>3 DEF GetGroup, Requests, Answers, Enrolled
    <3>2. Promised!Read(t, g)
      BY <1>5, <2>1, <2>2, <3>1
      DEF GetGroup, Promised!Read, Promised!Idle, Enrolled, Requests, Answers
    <3> QED
      BY <3>2 DEF Promised!AbsNext
  <2>4. ASSUME NEW outcome \in {"failed", "undecoded"}, Returns(t, outcome), UNCHANGED view
        PROVE  Promised!ReadFails(t)
    <3>1. /\ Requests' = [Requests EXCEPT ![t] = Nil]
          /\ Answers' = [Answers EXCEPT ![t] = "failed"]
      BY <1>5, <2>4, ReturnsMaps DEF GetGroup
    <3>2. UNCHANGED Requests
      BY <2>1, <3>1 DEF Requests
    <3> QED
      BY <1>5, <2>1, <2>2, <2>4, <3>1, <3>2
      DEF GetGroup, Promised!ReadFails, Promised!Idle, Enrolled, Requests, Answers
  <2> QED
    BY <1>5, <2>3, <2>4 DEF GetGroup, Promised!AbsNext
<1>6. ASSUME NEW t \in Callers, Get(t) \/ Abort(t)
      PROVE  Same
  <2>1. Requests' = Requests
    BY <1>6 DEF Get, Abort, Requests, TypeOK
  <2> QED
    BY <1>6, <2>1, MembersKept DEF Get, Abort, Answers
<1>7. ASSUME NEW t \in Callers, GetNothing(t) \/ CommitNothing(t)
      PROVE  Promised!Refuse(t)
  <2>1. /\ Requests' = [Requests EXCEPT ![t] = Nil]
        /\ Answers' = [Answers EXCEPT ![t] = "refused"]
    BY <1>7, ReturnsMaps DEF GetNothing, CommitNothing
  <2>2. Requests[t] # Nil /\ Requests[t] = call[t]
    BY <1>7, UnderWay DEF GetNothing, CommitNothing
  <2>3. Enrolled[call[t].group] = Nil \/ call[t].person \notin people
    BY <1>7, UnderWay DEF GetNothing, CommitNothing
  <2> QED
    BY <1>7, <2>1, <2>2, <2>3, MembersKept
    DEF GetNothing, CommitNothing, Promised!Refuse, Promised!Admissible,
        Enrolled, Requests, Answers
<1>8. ASSUME NEW t \in Callers, Commit(t)
      PROVE  Promised!Join(t) \/ Promised!Fail(t)
  <2>1. Requests[t] # Nil /\ Requests[t] = call[t]
    BY <1>8, UnderWay DEF Commit
  <2>2. Enrolled[call[t].group] # Nil /\ call[t].person \in people
    BY <1>8, UnderWay DEF Commit, CallInv
  <2>3. Enrolled' = [Enrolled EXCEPT ![Requests[t].group] = @ \cup {Requests[t].person}]
    BY <1>8, <2>1, CommitEnrols
  <2>4. CASE Returns(t, "joined")
    <3>1. /\ Requests' = [Requests EXCEPT ![t] = Nil]
          /\ Answers' = [Answers EXCEPT ![t] = "joined"]
      BY <1>8, <2>4, ReturnsMaps DEF Commit
    <3> QED
      BY <1>8, <2>1, <2>2, <2>3, <3>1
      DEF Commit, Promised!Join, Promised!Admissible, Enrolled, Requests, Answers
  <2>5. CASE Returns(t, "failed")
    <3>1. /\ Requests' = [Requests EXCEPT ![t] = Nil]
          /\ Answers' = [Answers EXCEPT ![t] = "failed"]
      BY <1>8, <2>5, ReturnsMaps DEF Commit
    <3> QED
      BY <1>8, <2>1, <2>2, <2>3, <3>1
      DEF Commit, Promised!Fail, Promised!Admissible, Enrolled, Requests, Answers
  <2> QED
    BY <1>8, <2>4, <2>5 DEF Commit
<1>9. ASSUME NEW t \in Callers, Fail(t)
      PROVE  Promised!Fail(t)
  <2>1. /\ Requests' = [Requests EXCEPT ![t] = Nil]
        /\ Answers' = [Answers EXCEPT ![t] = "failed"]
    BY <1>9, ReturnsMaps DEF Fail
  <2>2. Requests[t] # Nil
    BY <1>9, UnderWay DEF Fail
  <2> QED
    BY <1>9, <2>1, <2>2, MembersKept DEF Fail, Promised!Fail, Enrolled, Requests, Answers
<1>10. ASSUME NEW t \in Callers, Return(t)
       PROVE  Promised!Return(t)
  <2>1. Answers[t] # "none"
    BY <1>10 DEF Return, CallInv, Answers
  <2>2. Answers' = [Answers EXCEPT ![t] = "none"] /\ UNCHANGED <<Enrolled, Requests>>
    BY <1>10, MembersKept DEF Return, Requests, Answers, TypeOK
  <2> QED
    BY <1>10, <2>1, <2>2 DEF Return, Promised!Return, Enrolled, Requests, Answers
<1>11. ASSUME NEW l \in Places, AddSharedLocation(l) \/ \E u \in Users : AddUserLocation(l, u)
       PROVE  UNCHANGED <<people, groups, calls>>
  BY <1>11 DEF AddSharedLocation, AddUserLocation
<1>12. ASSUME NEW i \in Plans, NEW draft \in Drafts, AddIntention(i, draft)
       PROVE  UNCHANGED <<people, groups, calls>>
  BY <1>12 DEF AddIntention
<1>13. CASE UNCHANGED vars
  BY <1>0, <1>1, <1>13 DEF vars
<1>14. CASE \E t \in Callers : Proceeds(t)
  BY <1>0, <1>6, <1>7, <1>8, <1>9, <1>10, <1>14 DEF Proceeds, Promised!AbsNext
<1>15. CASE Next /\ ~ \E t \in Callers : Proceeds(t)
  BY <1>0, <1>1, <1>2, <1>3, <1>4, <1>5, <1>11, <1>12, <1>15 DEF Next, Promised!AbsNext
<1> QED
  BY <1>13, <1>14, <1>15

\* However transactions interleave, are aborted and lose their answers, the Firestore
\* store of people and groups implements Membership.
THEOREM Implementation == Spec => Linearizable
BY RefinesInit, RefinesStep, Invariance, PTL DEF Spec, Linearizable, Promised!AbsSpec
=============================================================================
