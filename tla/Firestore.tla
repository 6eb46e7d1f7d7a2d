----------------------------- MODULE Firestore ------------------------------
(***************************************************************************)
(* The Firestore stores of people and groups, locations and intentions     *)
(* (internal/storage/firestore), used by several goroutines, with the      *)
(* services that write to them (pkg/people, pkg/locations, pkg/intentions).*)
(*                                                                         *)
(* A request to Firestore is one step; it may fail, and a write may be     *)
(* applied although its caller sees an error.  AddMemberToGroup is a       *)
(* transaction, which reads, commits, and starts over when the commit is   *)
(* aborted.  The intentions are compared with those of the in-memory store *)
(* (pkg/intentions/intentionmemstore.go), which keeps targets of any type  *)
(* and every nanosecond.                                                   *)
(***************************************************************************)
EXTENDS Integers, Sequences

CONSTANTS
  Nil,
  Blank,       \* the empty string
  People,      \* the UUIDs of people
  Groups,      \* the UUIDs of groups
  Places,      \* the UUIDs of locations
  Plans,       \* the UUIDs of intentions; bounds AddIntention
  Users,       \* the ids of users
  Drafts,      \* the arguments AddIntention is called with
  Times,       \* the moments that queries ask about, in nanoseconds
  Callers,     \* the goroutines that use AddMemberToGroup and GetGroup
  MaxAttempts  \* of a transaction

\* The two types of target that the packages know, and one that they do not.
LocationTarget  == [type : {"Location"}, location : Places]
ProximityTarget == [type : {"Proximity"}, persons : SUBSET People, groups : SUBSET Groups]
OtherTarget     == [type : {"Online"}]

ASSUME FirestoreAssumption ==
  /\ Drafts \subseteq
       [user : Users \cup {Blank}, action : STRING \cup {Blank},
        targets : Seq(LocationTarget \cup ProximityTarget \cup OtherTarget),
        start : Int, end : Int]
  /\ Times \subseteq Int
  /\ MaxAttempts \in Nat \ {0}

VARIABLES
  people,        \* the ids of the documents in the collection people
  groups,        \* groups[g]: the field memberIds of the document g, or Nil
  locations,     \* locations[l]: the document l, or Nil
  intentions,    \* intentions[i]: the document i, or Nil
  memory,        \* memory[i]: the intention i in an in-memory store, or Nil
  acknowledged,  \* the intentions whose AddIntention returned no error
  pc,            \* pc[t]: where t is in AddMemberToGroup, or "idle"
  call,          \* call[t]: the group and the person that t's call is about
  attempt,       \* attempt[t]: the attempts that t's transaction has made
  answer,        \* answer[t]: the outcome of a call that is about to return
  view           \* view[t]: the members of the group that t got last, or Nil

plans == <<intentions, memory, acknowledged>>
calls == <<pc, call, attempt, answer, view>>
vars  == <<people, groups, locations, plans, calls>>

-----------------------------------------------------------------------------
(* Fields and their values. *)

\* uuid.UUID.String() is a string value.  A uuid.UUID itself is an array of
\* bytes, and DataTo decodes nothing else into one.
AsString(p) == [type |-> "string", id |-> p]

Decodes(value) == value.type = "array"

Members(g) == IF groups[g] = Nil THEN Nil ELSE {value.id : value \in groups[g]}

\* A location's document keeps whose it is; Nil is an owner that is left out.
LocationDocument(type, owner) == [type |-> type, userId |-> owner]

\* toTargetDocument, which has no document for other types of target.
Writable(t) == t.type \in {"Location", "Proximity"}

ToTargetDocument(t) ==
  IF t.type = "Location"
  THEN [type |-> t.type, locationId |-> t.location, personIds |-> {}, groupIds |-> {}]
  ELSE [type |-> t.type, locationId |-> Nil, personIds |-> t.persons, groupIds |-> t.groups]

ToTarget(d) ==
  IF d.type = "Location" THEN [type |-> d.type, location |-> d.locationId]
                         ELSE [type |-> d.type, persons |-> d.personIds, groups |-> d.groupIds]

\* Go counts nanoseconds, and Firestore keeps the microseconds of a timestamp.
Cut(time) == time - (time % 1000)

Rounded(draft) == [draft EXCEPT !.start = Cut(@), !.end = Cut(@)]

Document(draft) ==
  [Rounded(draft) EXCEPT !.targets = [n \in DOMAIN @ |-> ToTargetDocument(@[n])]]

\* Add writes every target, or nothing.
Storable(draft) == \A n \in DOMAIN draft.targets : Writable(draft.targets[n])

Documents == {Document(draft) : draft \in {d \in Drafts : Storable(d)}}

\* Nil is none of the values it stands beside.
ASSUME NilAssumption ==
  /\ Nil \notin Users /\ Nil \notin Int /\ Nil \notin Drafts /\ Nil \notin Documents
  /\ Nil \notin [group : Groups, person : People]
  /\ Nil \notin [type : {"USER", "SHARED"}, userId : Users \cup {Nil}]
  /\ \A S \in SUBSET People : Nil # S
  /\ \A S \in SUBSET [type : {"string", "array"}, id : People] : Nil # S

Decoded(doc) == [doc EXCEPT !.targets = [n \in DOMAIN @ |-> ToTarget(@[n])]]

-----------------------------------------------------------------------------
(* Queries.  A user or a time that is Nil does not restrict them. *)

\* What Firestore compares when a query asks about a moment: the moment itself, or
\* its microsecond.
Asked(activeAt) == IF activeAt = Nil THEN {Nil} ELSE {activeAt, Cut(activeAt)}

\* Mutant: an intention is over at its end.
SelectsOpen(doc, user, activeAt) ==
  /\ user # Nil => doc.user = user
  /\ activeAt # Nil => doc.start <= activeAt /\ doc.end > activeAt

\* The Where clauses of the Firestore store.
Selects(doc, user, activeAt) ==
  /\ user # Nil => doc.user = user
  /\ activeAt # Nil => doc.start <= activeAt /\ doc.end >= activeAt

\* What the in-memory store passes over.
Skips(intent, user, activeAt) ==
  \/ user # Nil /\ intent.user # user
  \/ activeAt # Nil /\ (activeAt < intent.start \/ activeAt > intent.end)

Query(user, activeAt) ==
  {<<i, Decoded(intentions[i])>> :
     i \in {j \in Plans : intentions[j] # Nil /\ Selects(intentions[j], user, activeAt)}}

MemoryQuery(user, activeAt) ==
  {<<i, memory[i]>> : i \in {j \in Plans : memory[j] # Nil /\ ~Skips(memory[j], user, activeAt)}}

\* What an iterator over the whole collection yields.
Found == {l \in Places : locations[l] # Nil}

ListByUserID(u) == {l \in Found : locations[l].userId = u}

ListShared == {l \in Found : locations[l].type = "SHARED"}

-----------------------------------------------------------------------------
Init ==
  /\ people = {}
  /\ groups = [g \in Groups |-> Nil]
  /\ locations = [l \in Places |-> Nil]
  /\ intentions = [i \in Plans |-> Nil]
  /\ memory = [i \in Plans |-> Nil]
  /\ acknowledged = {}
  /\ pc = [t \in Callers |-> "idle"]
  /\ call = [t \in Callers |-> Nil]
  /\ attempt = [t \in Callers |-> 0]
  /\ answer = [t \in Callers |-> "none"]
  /\ view = [t \in Callers |-> Nil]

AddPerson(p) ==
  /\ people' = people \cup {p}
  /\ UNCHANGED <<groups, locations, plans, calls>>

AddGroup(g) ==
  /\ groups[g] = Nil
  /\ groups' = [groups EXCEPT ![g] = {}]
  /\ UNCHANGED <<people, locations, plans, calls>>

AddUserLocation(l, u) ==
  /\ locations[l] = Nil
  /\ locations' = [locations EXCEPT ![l] = LocationDocument("USER", u)]
  /\ UNCHANGED <<people, groups, plans, calls>>

\* Mutant: the user who adds a shared location owns it.
AddSharedLocationOwned(l) ==
  /\ locations[l] = Nil
  /\ \E u \in Users :
       locations' = [locations EXCEPT ![l] = LocationDocument("SHARED", u)]
  /\ UNCHANGED <<people, groups, plans, calls>>

AddSharedLocation(l) ==
  /\ locations[l] = Nil
  /\ locations' = [locations EXCEPT ![l] = LocationDocument("SHARED", Nil)]
  /\ UNCHANGED <<people, groups, plans, calls>>

\* Mutant: the interval is not looked at.
ValidUntimed(draft) ==
  /\ draft.user # Blank /\ draft.action # Blank
  /\ draft.targets # <<>>

Valid(draft) ==
  /\ draft.user # Blank /\ draft.action # Blank
  /\ ~(draft.end < draft.start)
  /\ draft.targets # <<>>

\* AddIntention, of one service over the Firestore store and one over an in-memory
\* store.  The in-memory Add takes whatever is valid; the other refuses a target that
\* it has no document for, and its answer may be lost.  (A request that fails before
\* it is applied changes nothing, and its intention is given to neither store.)
AddIntention(i, draft) ==
  /\ memory[i] = Nil
  /\ Valid(draft)
  /\ memory' = [memory EXCEPT ![i] = draft]
  /\ \/ /\ Storable(draft)
        /\ intentions' = [intentions EXCEPT ![i] = Document(draft)]
        /\ acknowledged' \in {acknowledged, acknowledged \cup {i}}
     \/ /\ ~Storable(draft)
        /\ UNCHANGED <<intentions, acknowledged>>
  /\ UNCHANGED <<people, groups, locations, calls>>

(* AddMemberToGroup. *)

\* Mutant: the two UUIDs change places.
CallSwapped(t, g, p) ==
  /\ pc[t] = "idle"
  /\ call' = [call EXCEPT ![t] = [group |-> p, person |-> g]]
  /\ attempt' = [attempt EXCEPT ![t] = 1]
  /\ pc' = [pc EXCEPT ![t] = "get"]
  /\ UNCHANGED <<people, groups, locations, plans, answer, view>>

Call(t, g, p) ==
  /\ pc[t] = "idle"
  /\ call' = [call EXCEPT ![t] = [group |-> g, person |-> p]]
  /\ attempt' = [attempt EXCEPT ![t] = 1]
  /\ pc' = [pc EXCEPT ![t] = "get"]
  /\ UNCHANGED <<people, groups, locations, plans, answer, view>>

\* Mutant: the error of Get is not looked at.
GetUnchecked(t) ==
  /\ pc[t] = "get"
  /\ pc' = [pc EXCEPT ![t] = "commit"]
  /\ UNCHANGED <<people, groups, locations, plans, call, attempt, answer, view>>

\* The person exists.
Get(t) ==
  /\ pc[t] = "get"
  /\ call[t].person \in people
  /\ pc' = [pc EXCEPT ![t] = "commit"]
  /\ UNCHANGED <<people, groups, locations, plans, call, attempt, answer, view>>

Returns(t, outcome) ==
  /\ answer' = [answer EXCEPT ![t] = outcome]
  /\ pc' = [pc EXCEPT ![t] = "return"]

\* There is no such person.
GetNothing(t) ==
  /\ pc[t] = "get"
  /\ call[t].person \notin people
  /\ Returns(t, "refused")
  /\ UNCHANGED <<people, groups, locations, plans, call, attempt, view>>

\* The commit of the ArrayUnion is applied; its answer may be lost.
Commit(t) ==
  /\ pc[t] = "commit"
  /\ groups[call[t].group] # Nil
  /\ groups' = [groups EXCEPT ![call[t].group] = @ \cup {AsString(call[t].person)}]
  /\ Returns(t, "joined") \/ Returns(t, "failed")
  /\ UNCHANGED <<people, locations, plans, call, attempt, view>>

\* Update needs the group's document.
CommitNothing(t) ==
  /\ pc[t] = "commit"
  /\ groups[call[t].group] = Nil
  /\ Returns(t, "refused")
  /\ UNCHANGED <<people, groups, locations, plans, call, attempt, view>>

\* Mutant: aborted commits are not counted.
AbortForEver(t) ==
  /\ pc[t] = "commit"
  /\ pc' = [pc EXCEPT ![t] = "get"]
  /\ UNCHANGED <<people, groups, locations, plans, call, attempt, answer, view>>

\* The commit is aborted, and the transaction starts over.
Abort(t) ==
  /\ pc[t] = "commit"
  /\ attempt[t] < MaxAttempts
  /\ attempt' = [attempt EXCEPT ![t] = @ + 1]
  /\ pc' = [pc EXCEPT ![t] = "get"]
  /\ UNCHANGED <<people, groups, locations, plans, call, answer, view>>

\* Another error, or the last attempt was aborted.
Fail(t) ==
  /\ pc[t] \in {"get", "commit"}
  /\ Returns(t, "failed")
  /\ UNCHANGED <<people, groups, locations, plans, call, attempt, view>>

Return(t) ==
  /\ pc[t] = "return"
  /\ answer' = [answer EXCEPT ![t] = "none"]
  /\ call' = [call EXCEPT ![t] = Nil]
  /\ attempt' = [attempt EXCEPT ![t] = 0]
  /\ pc' = [pc EXCEPT ![t] = "idle"]
  /\ UNCHANGED <<people, groups, locations, plans, view>>

\* GetGroup reads one document and decodes it.
GetGroup(t, g) ==
  /\ pc[t] = "idle"
  /\ \/ /\ groups[g] # Nil => \A value \in groups[g] : Decodes(value)
        /\ view' = [view EXCEPT ![t] = Members(g)]
        /\ UNCHANGED <<pc, answer>>
     \/ /\ groups[g] # Nil /\ \E value \in groups[g] : ~Decodes(value)
        /\ Returns(t, "undecoded")
        /\ UNCHANGED view
     \/ /\ Returns(t, "failed")
        /\ UNCHANGED view
  /\ UNCHANGED <<people, groups, locations, plans, call, attempt>>

\* A call that has begun runs on: every request is answered or times out.
Proceeds(t) ==
  \/ Get(t) \/ GetNothing(t)
  \/ Commit(t) \/ CommitNothing(t) \/ Abort(t) \/ Fail(t)
  \/ Return(t)

Next ==
  \/ \E p \in People : AddPerson(p)
  \/ \E g \in Groups : AddGroup(g)
  \/ \E l \in Places : AddSharedLocation(l) \/ \E u \in Users : AddUserLocation(l, u)
  \/ \E i \in Plans, draft \in Drafts : AddIntention(i, draft)
  \/ \E t \in Callers :
       \/ \E g \in Groups, p \in People : Call(t, g, p)
       \/ \E g \in Groups : GetGroup(t, g)
       \/ Proceeds(t)

Spec == Init /\ [][Next]_vars

FairSpec == Spec /\ \A t \in Callers : WF_vars(Proceeds(t))

-----------------------------------------------------------------------------
(* The abstract specification.  A call takes effect when its commit is
   applied, or when it finds that something is missing. *)

Promised == INSTANCE Membership WITH
  NeedsPerson <- TRUE,
  MayFail <- TRUE,
  members <- [g \in Groups |-> Members(g)],
  request <- [t \in Callers |-> IF pc[t] \in {"get", "commit"} THEN call[t] ELSE Nil],
  answer  <- [t \in Callers |-> IF answer[t] = "undecoded" THEN "failed" ELSE answer[t]]

-----------------------------------------------------------------------------
(* Properties. *)

\* Every variable keeps its type: a call is about a group and a person, and no
\* transaction makes more than MaxAttempts attempts.
TypeOK ==
  /\ people \subseteq People
  /\ groups \in [Groups -> (SUBSET [type : {"string", "array"}, id : People]) \cup {Nil}]
  /\ locations \in [Places -> [type : {"USER", "SHARED"}, userId : Users \cup {Nil}] \cup {Nil}]
  /\ memory \in [Plans -> Drafts \cup {Nil}]
  /\ intentions \in [Plans -> Documents \cup {Nil}]
  /\ acknowledged \subseteq Plans
  /\ pc \in [Callers -> {"idle", "get", "commit", "return"}]
  /\ call \in [Callers -> [group : Groups, person : People] \cup {Nil}]
  /\ attempt \in [Callers -> 0 .. MaxAttempts]
  /\ answer \in [Callers -> {"none", "joined", "refused", "failed", "undecoded"}]
  /\ view \in [Callers -> (SUBSET People) \cup {Nil}]

\* However transactions interleave, are aborted and lose their answers, a member
\* that was acknowledged is in the group, only stored people become members, and
\* nothing is refused without cause.
Linearizable == Promised!AbsSpec

Ids(result) == {found[1] : found \in result}

\* The Firestore store and an in-memory store that were given the same intentions
\* answer every query alike, but for targets of a type that only the second keeps and
\* for moments within a microsecond of an end of the interval: the first misses what
\* is left of the last microsecond, and finds what shares a microsecond with an end.
\* Whatever it finds comes back with its targets, and with its microseconds.
QueriesAgree ==
  \A user \in Users \cup {Nil}, activeAt \in Times \cup {Nil} :
    \A asked \in Asked(activeAt) :
      LET stored == Query(user, asked)
          kept   == MemoryQuery(user, activeAt)
      IN  /\ \A found \in stored :
               memory[found[1]] # Nil /\ found[2] = Rounded(memory[found[1]])
          /\ \A i \in Ids(kept) \ Ids(stored) :
               \/ ~Storable(memory[i])
               \/ activeAt # Nil /\ Cut(memory[i].end) < activeAt
          /\ \A i \in Ids(stored) \ Ids(kept) :
               /\ activeAt # Nil
               /\ Cut(activeAt) \in {Cut(memory[i].start), Cut(memory[i].end)}

\* No intention is acknowledged that would never be active: its user finds it at the
\* microseconds of its start and of its end, and at every moment from its start to
\* the microsecond of its end.
AcknowledgedIsFound ==
  \A i \in acknowledged :
    LET draft == memory[i]
        Finds(time) == \A asked \in Asked(time) :
                         <<i, Rounded(draft)>> \in Query(draft.user, asked)
    IN  /\ Finds(Cut(draft.start)) /\ Finds(Cut(draft.end))
        /\ \A time \in Times :
             draft.start <= time /\ time <= Cut(draft.end) => Finds(time)

\* Whichever service call stored it, a location is listed for one user or for
\* everybody, and not for both.
LocationsHaveOneAudience ==
  \A l \in Found :
    LET owners == {u \in Users : l \in ListByUserID(u)}
    IN  IF l \in ListShared THEN owners = {} ELSE \E u \in Users : owners = {u}

\* A call that has not returned knows what it is about, has an answer exactly when
\* it is about to return, and commits for a stored person only.
CallInv ==
  \A t \in Callers :
    /\ pc[t] = "return" <=> answer[t] # "none"
    /\ pc[t] \in {"get", "commit"} => call[t] # Nil
    /\ pc[t] = "commit" => call[t].person \in people

\* Both stores were given the same valid intentions; the Firestore store holds those
\* that have a document, and only they are acknowledged.
TwinInv ==
  /\ \A i \in Plans :
       IF memory[i] # Nil /\ Storable(memory[i])
       THEN intentions[i] # Nil /\ intentions[i] = Document(memory[i])
       ELSE intentions[i] = Nil
  /\ \A i \in Plans : memory[i] # Nil => Valid(memory[i])
  /\ \A i \in acknowledged : intentions[i] # Nil

\* A location has an owner unless it is shared.
OwnerInv ==
  \A l \in Places : locations[l] # Nil => (locations[l].type = "SHARED" <=> locations[l].userId = Nil)

\* The inductive invariant of FirestoreProofs: its parts, each stated above, hold
\* between any two requests.
IInv == TypeOK /\ CallInv /\ TwinInv /\ OwnerInv

\* Every call of AddMemberToGroup returns, however often it is aborted.
CallsReturn == \A t \in Callers : pc[t] # "idle" ~> pc[t] = "idle"

-----------------------------------------------------------------------------
(* What the tests say, and the code does not do. *)

\* people_firestore_test.go:94-95: after AddMemberToGroup, GetGroup returns the
\* group without an error, `require.NoError(t, err)'.
GroupsAreReadable == \A t \in Callers : answer[t] # "undecoded"
=============================================================================
