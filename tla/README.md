# A TLA+ model of action-intention

action-intention is a Go program with which people plan what they mean to do
(*intentions*: an action, an interval of time, and *targets* that refer to
locations, people and groups) and share those plans. A shared plan is packed
with the entities it refers to, encrypted for its recipient, signed, and sent
through a routing service. The recipient maps the sender's entities onto its
own ("your mum is my aunt") with a *reconciler*. This directory models the
parts where that can go wrong in ways a unit test hardly reaches - the
reconciler, the sharing protocol, the two of them at work together, the in-memory
store of people and groups, and the stores in Firestore -, model-checks them with
TLC, and proves with TLAPS, for each of the five, that its safety properties hold in
instances of every size.

Lines below are given as `file:line`; paths are relative to `src/`.

## 1. Inventory

| Component | Source | State it keeps | Operations |
|---|---|---|---|
| Reconciliation engine | `pkg/reconciliation/reconcile.go` | none between calls; in a call: the listing of one kind, the best match so far, the result maps | `ProcessPayload` |
| Location matching | `pkg/locations/locationmodels.go`, `locationformulae.go` | none | `LocationMatcher.Match`, `haversine` |
| Person matching | `pkg/people/personmodels.go` | none | `PersonMatcher.Match` |
| Locations | `pkg/locations/locationsservice.go`, `locationsmemorystore.go` | id -> location, under a mutex | `AddUserLocation`, `AddSharedLocation`, `GetLocation`, `ListAllForMatching`, `FindByGlobalID` |
| People and groups | `pkg/people/personservice.go`, `personmemorystore.go` | id -> person, id -> group with member ids, under a mutex | `CreatePerson`, `CreateGroup`, `AddMemberToGroup`, reads |
| Intentions | `pkg/intentions/` | id -> intention, under a mutex | `AddIntention`, `FindActiveIntentions`, `Query` |
| Sharing orchestrator | `app/intentionapp.go`, `pkg/sharing/payload.go` | references to the services, a private key | `ShareIntention`, `buildSharedPayload` |
| Cryptography | `pkg/crypto/crypto.go` | none | `GenerateKeys`, `Encrypt`, `Decrypt`, `Sign`, `Verify` |
| Key service client | `internal/clients/keyservice_client.go` | the service's URL; the service itself (external) keeps user -> public key | `GetKey`, `StoreKey` |
| Routing service client | `internal/clients/routingservice_client.go` | the service's URL; the service itself (external) keeps undelivered envelopes | `Send` |
| Receiving client | `demo/distributedsecure/rundistributedsecure.go` | private key, its own stores | receive, verify, decrypt, decode, reconcile |
| Firestore storage | `internal/storage/firestore/` | collections of documents, in a database that all goroutines share | the three `Store` interfaces again; `AddMemberToGroup` as a transaction |
| Entry point, demos, end-to-end tests | `cmd/`, `demo/`, `test/` | - | straight-line scripts |

### How they interact

* `ShareIntention` reads the sender's three stores one request at a time,
  then calls the key service (HTTP, 10 s timeout), encrypts and signs, then
  calls the routing service (HTTP, 15 s timeout). Nothing is held locked over
  two of these steps.
* The recipient polls the routing service, verifies against the sender's public
  key (key service again), decrypts, decodes JSON, and hands the payload to
  `ProcessPayload`.
* `ProcessPayload` lists the recipient's stores once per kind, and looks up each
  incoming GlobalID in the stores as they are at that moment. Other goroutines
  may add entities all the while.
* The stores only grow, apart from `AddMemberToGroup`: no code deletes an entity
  or changes one.
* `AddMemberToGroup` of the Firestore store reads the person, then commits a union to
  the group, in a function that the client library runs again when the commit is aborted.
* Two clients that share with each other reconcile what they receive with stores that
  they themselves share from: what one has mapped comes back to the other, or comes twice.

### What is hard, and what correct means

* **Reconciler**: two reads of different age (listing and lookup), dropped errors, map iteration
  order, a `break`, concurrent insertions. Correct: each incoming entity gets one verdict, which is
  a local entity that carries its GlobalID or else the best match of the listing; failures lose
  mappings and never invent one; a call ends.
* **Matchers**: boundaries at 50 m and 500 m, missing coordinates, empty
  matchers, handles before names. Correct: near places win over far ones,
  matched people have something in common.
* **Sharing**: a payload read bit by bit, dropped read errors, keys replaced
  between encryption and decryption, an answer lost after the letter was
  accepted, letters lost, repeated and reordered. Correct: what is opened is what
  was shared, from the sender's stores only; success means accepted; a letter of a call
  that began when both ends had published their keys can be opened as long as they hold
  them, whatever keys they had before; a call returns.
* **In-memory people store**: groups that are copied out of a map, extended and put
  back, and slices that share an array with a group some caller holds. Correct:
  each call takes effect at one moment, what was read does not change, a call returns.
* **Firestore stores**: requests that fail after they were applied, transactions that are
  aborted and run again, values that are written as one type and read as another,
  filters that another implementation has too, the boundaries of the active-at query,
  nanoseconds that become microseconds.
  Correct: each call takes effect at one moment or, if it failed, perhaps; both
  implementations of a query agree wherever their data can; what was acknowledged can be
  found; a call returns.
* **Clients together**: a payload that arrives again and after others, matchers applied
  with the roles exchanged, calls that overlap. Correct: what was mapped once is mapped
  again no worse, in either direction.

`PROJECT.json` lists every hazard at its line, with the properties that cover it.

## 2. The modules

    Entities            entities, matchers, the reads of a store
      |-- EntitiesProofs  lemmas on listings, matchers and best matches
      |-- Resolution    abstract: one verdict per incoming entity
      |-- Reconciler    ProcessPayload, step by step  (INSTANCEs Resolution)
            |-- MCReconciler       catalogs for TLC
            |-- ReconcilerProofs   inductive invariant and its consequences
            |                      (with EntitiesProofs)
                  |-- RefinementProofs   Reconciler implements Resolution
    Sharing             ShareIntention, keys, letters, receiving
      |-- MCSharing     two users for TLC
      |-- SharingProofs inductive invariant and its consequences
    Membership          abstract: groups as sets that grow
      |-- PeopleStore   the in-memory store, step by step  (INSTANCEs Membership)
      |     |-- MCPeopleStore
      |     |-- PeopleStoreProofs  inductive invariant, its consequences, and that
      |                            PeopleStore implements Membership
      |-- Firestore     the Firestore stores, request by request  (INSTANCEs Membership)
            |-- MCFirestore        intentions for TLC
            |-- FirestoreProofs    inductive invariant, its consequences, and that
                                   Firestore implements Membership
    Entities
      |-- Federation    users who share, receive and reconcile
            |-- MCFederation       two users for TLC
            |-- FederationProofs   inductive invariant and its consequences
                                   (with EntitiesProofs)

### Entities

An entity is a record of its name, its GlobalID and its matcher; the other
fields are read by nothing modelled. `LocationMatch` and `PersonMatch` are the two `Match`
methods, arm by arm. `Stored`, `Listings` and `Carriers` stand for the three ways the reconciler reads a
store; the location store and the people store have the same shape, and each is one
value of `Kinds`. A listing may come in any order, which is what a Go map and
a Firestore query give.

Abstractions: strings are members of a small set and `Fold` is their case
folding; points lie on one meridian and are whole metres, so that the haversine
formula becomes a difference (its float rounding is left out); a location's
coordinates are one value that is `Nil` unless both are set, which is how `Match` uses
them.

### Reconciler

The variables are the locals of `ProcessPayload`: `listing` (`localLocations`,
`localPeople`), `todo` (what the range loop has still to visit), `cur`, `pos`,
`best` and `level` (the scan), `mappings` (the result), with `store`, which
belongs to the user, `payload`, and `phase`, which says which of the two loops
runs. The two loops are written twice in the source and differ only in their types; the
model has them once, parameterised by the kind.

| Action | Code |
|---|---|
| `Insert` | `Add`, `AddPerson`, from another goroutine |
| `List` | lines 39, 84: a failed listing becomes an empty one |
| `LookupHit`, `LookupMiss` | lines 46-52, 91-97 |
| `CompareExact`, `ComparePossible`, `CompareSkip` | one turn of the inner loop, lines 56-68, 101-113 |
| `Exhaust` | lines 70-77, 115-122 |
| `NextPhase` | from the location loop to the people loop, and to the return |

The order in which `todo` is visited is free because Go's map order is.
A step is atomic when it holds one mutex or makes one database request; the steps between
two reads interleave with insertions. `StoreMayFail` is FALSE for the in-memory
stores, whose reads cannot return an error that matters here, and TRUE for
Firestore.

### Resolution

What a call promises, with no loop in it: the store grows, a listing is
taken once per kind, and each incoming entity gets one verdict in one step. The
refinement mapping gives an entity its verdict when its lookup misses,
which is before the scan computes it: from then on nothing that is inserted can change it,
because the scan reads the listing. That is the point of the refinement: it
would fail if the listing were taken again (the mutant `ListAgain`).

### Sharing

| Variable | Code |
|---|---|
| `entities`, `intentions` | the stores of all users; `Home` says whose |
| `made` | the pairs a client generated; it holds the last one as its private key |
| `directory` | the key service |
| `at`, `args`, `pos`, `gathered`, `letter` | a call of `ShareIntention`: where it is and its locals |
| `mail` | the routing service |
| `inbox` | what a client has opened |
| `accepted`, `args[c].had`, `args[c].published` | history: what the service ever accepted, what was stored and which keys were published when the call began |

| Action | Code |
|---|---|
| `AddEntity`, `AddIntention` | the services' `Add...` and `Create...` |
| `GenerateKeys`, `StoreKey` | start of a client, `app.New`'s private key, the upload |
| `Begin`, `Gather` | `buildSharedPayload`: the query, then one read per target |
| `Seal`, `SealFails` | `GetKey`, `Encrypt`, `Sign` with their error returns |
| `SendAccepted`, `SendRejected`, `SendUnanswered` | the three things that can happen to the POST |
| `Lose`, `Receive` | the routing service (external) and the receiving half of the secure demo |

Cryptography is symbolic: a key pair is one value, an envelope records which
pair it was sealed for and signed by, and opens with that pair only. Everybody
follows the program: nobody forges letters, and properties are about agreement between honest
clients. The AAD is the pair of ids, which assumes ids without a colon.
`Unmarshal` models what `encoding/json` does to the interface slice `Targets`.

`Receive` is the receiving half of the secure demo, which is a script for one letter: it
verifies with Alice's key by name, takes the first envelope of the queue and ends the program when that does not
open. The model's client verifies with the key of the letter's own sender, takes the letters one
by one, in any order, and goes on when one does not open, as a client of more than one friend has to.
No property depends on the difference: a letter that does not open leaves nothing either way.

`OpensUnlessRekeyed` speaks of the keys at the moment the call began. If both ends had
published the pair that they hold now (`Kept`), the letter opens, also when one of them had
other pairs before, published or not. That is all that can be asked: a pair that is replaced later is gone, with
every letter that was sealed for it, since nothing persists private keys.

### PeopleStore

| Variable | Code |
|---|---|
| `people`, `groups` | the store's two maps; of a group only its `MemberIDs` |
| `arrays` | the arrays behind those slices, as long as their capacity |
| `writer`, `readers` | the store's `sync.RWMutex` |
| `pc`, `call`, `local`, `answer` | a goroutine's call: where it is, its arguments, its copy of the group, its result |
| `view` | the group that a goroutine got from `GetGroup` last |

`AddMemberToGroup` is taken one statement at a time: `Lock`, `Find` (the copy out of the map)
or `FindNothing`, `ScanHit` or `ScanMiss`, `AppendInPlace` or `AppendToCopy`, `Store`, and
`Unlock`, the deferred one. `GetGroup` is `RLock`, `Copy` and `Unlock`. `AddPerson`
and `AddGroup` are one assignment under the lock and so one step. Go's `append` is
external: it doubles the capacity when a slice is full, as the runtime does for
small slices of this element size. (It grows large ones by less; the proofs need only
that the new array has room and begins with a copy.)

The scan is one step since nothing that it reads is written meanwhile: cells
within the length of a slice never are. That the store may pass its own array
to callers rests on the same fact, and `Linearizable` checks it, as
`view` is mapped to what the slice holds now.

### Membership

What a `people.Store` promises: a group is a set, `AddMemberToGroup` takes effect at
one moment of its call and is refused only for cause, a group that was read stays as it
was. `NeedsPerson` says whether members have to be stored people, `MayFail` whether a call
may end in an error of the store itself, of which nobody can tell whether it took effect:
both FALSE in memory, both TRUE in Firestore. PeopleStore's refinement mapping forgets order,
arrays and locks, and a call takes effect at `Store`, `ScanHit` or `FindNothing`.
Firestore's forgets attempts and the type in which members are written, and a call
takes effect at `Commit`, or is refused at `GetNothing` or `CommitNothing`.

### Firestore

| Variable | Code |
|---|---|
| `people`, `groups`, `locations`, `intentions` | the collections; of a document, the fields that some query or conversion reads |
| `memory` | an in-memory store of intentions behind a second service that is called with the same arguments |
| `acknowledged` | history: the intentions whose `AddIntention` returned nil |
| `pc`, `call`, `attempt`, `answer` | a goroutine's `AddMemberToGroup`: where it is, its arguments, the attempts of its transaction, its result |
| `view` | the members of the group that a goroutine got from `GetGroup` last |

| Action | Code |
|---|---|
| `AddPerson`, `AddGroup` | `people_firestore.go:49`, `:102` |
| `AddUserLocation`, `AddSharedLocation` | `locationsservice.go:21`, `:36`, with `toLocationDocument` |
| `AddIntention` | `intentionservice.go:32`, once over either store: validation, then the `Add` in memory, which keeps every target, and the `Add` of Firestore with `toTargetDocument`, which refuses a target of an unknown type and whose answer may be lost |
| `Call`, `Get`, `GetNothing` | `people_firestore.go:134-144` |
| `Commit`, `CommitNothing`, `Abort`, `Fail` | the `Update` and the commit behind it: applied, or not because there is no group, or aborted and run again, or failed; also when it was applied |
| `Return`, `GetGroup` | the return, and `people_firestore.go:114` |

`Query`, `ListByUserID` and `ListShared` are the three queries, and `MemoryQuery` is
the in-memory `Query`. The model of the database is external and taken from how the
code and its tests use it: a request is one step; a transaction's reads are valid at its commit, or
the commit is aborted, and `RunTransaction` runs the function again, up to
`MaxAttempts` times (five in the library); `Update` fails when there is no document;
`ArrayUnion` adds a value that is not there yet; and `DataTo` decodes an array of bytes, not
a string, into a `uuid.UUID`. No step removes a person, so that the read of `Get` is
still true at `Commit` whatever happens between the two.

`NewIntentionService` takes either store, so as "to easily switch between in-memory, database, or
mock stores" (`intentionservice.go:19-21`); `QueriesAgree` says how far that goes. Times are
nanoseconds, as in Go. Firestore keeps the microsecond of a timestamp (`Cut`), so that a document's
interval starts and ends up to 999 ns early. Whether the moment a query asks about is cut as well is
the database's affair, and the model leaves it open (`Asked`): the properties hold either way. The
stores then differ in three ways, which `QueriesAgree` names, and in no other: Firestore does not
hold an intention with a target of a type it has no document for; it misses an intention at a moment
that is within its interval but after the microsecond of its end; and it finds one at a moment
outside the interval that shares a microsecond with an end of it. What it finds has the times of
`Rounded`. `AcknowledgedIsFound` stops at the microsecond of the end for the same reason: at the
very nanosecond of its end an intention may not be found.

A proximity target's people and groups are sets. That they
are arrays of arrays of bytes, which Firestore may refuse, is left out
as well: the tests store such a target. In memory, `ListByUserID` and `ListShared` of locations are stubs
that return nothing; there is no agreement to state.

### Federation

A *letter* is a payload that was shared and opened: `Sharing` says which of them a
recipient gets, and that they may come late, again, or never. A call of `ProcessPayload`
takes the steps of `Resolution` (`TakeListing`, `Decide`, `Return`), which
`RefinementProofs` shows to be all that can be seen of it, so that two users, two
calls at once, and the way back fit into one instance. Each user has stores of their
own, in memory, as both distributed demos have; a letter holds any of a user's
own entities. `links` is what the calls have mapped so far, and `known` what it was when
a call began.

`RedeliveryIsNoWorse` and `RoundTripIsNoWorse` compare a call's verdict with an
entity that an earlier call has mapped: by rank, a common GlobalID above an exact match
above a possible one. The first needs that stores only grow and that the verdict is the
best of what is listed; the second also that the matchers are symmetric and
that what arrives is what was stored.

## 3. Runs

| Run | Instance | Shows |
|---|---|---|
| `reconcile_locations` | 3 local ids, 2 incoming, 7 kinds of location, 4 of them 50, 51, 500, 501 and 551 m apart | type, best match, GlobalID precedence, both distance boundaries and the inductive invariant |
| `reconcile_refines` | 2 local ids, 2 incoming, both kinds, failing store, fairness | refinement of Resolution, that no mapping is invented, and termination |
| `share` | 2 users, 1 call, 3 key pairs, a target of the other user, fairness | type, what is opened is what was shared, letters are readable whatever pairs the two ends had before those they hold, the payload is complete, success means accepted, the inductive invariant, and that the call returns |
| `people_shared` | 4 people, 1 group, 2 goroutines | type, distinct members, refinement of Membership, that the lock is held exactly on the way to its release, and the inductive invariant; it checks for deadlock |
| `firestore` | 2 people, 1 group, 2 goroutines, 2 attempts, 1 location, 1 intention of 7 drafts, 10 moments, fairness | type, refinement of Membership, agreement of the queries but for unknown targets and parts of a microsecond, findability, one audience per location, the inductive invariant, and that calls return; it checks for deadlock |
| `federation` | 2 users, 3 ids, 2 letters, 2 calls at once, 1 location, 3 kinds of person | type, that a payload that comes again and an entity that comes back are mapped no worse, and the inductive invariant |

Runs that end in a violation, each of one statement that the documents make and the
code does not keep (the finding of the same run quotes it):

| Run | The statement | What happens |
|---|---|---|
| `reconcile_possible` | possible matches are only logged (`roadmap.md:52`) | they are recorded as mappings |
| `reconcile_created` | fuzzy matches rest on names and context (`project_outline.md:70`) | `CreatePerson` leaves the matcher empty, and empty equals empty |
| `share_partial` | all related data is gathered (`app/intentionapp.go:120`) | an entity whose read fails is left out silently |
| `share_groups` | a payload is self-contained (`pkg/sharing/payload.go:11`) | a group's members are not in it |
| `share_portable` | a payload is portable (`pkg/sharing/payload.go:11`) | the decoded intention has no targets |
| `firestore_members` | a group can be read after a member was added (`internal/storage/firestore/people_firestore_test.go:94-96`) | the member is written as a string, which cannot be decoded into a UUID |

### Bounds, and why they are enough

* `LocalIDs` (3 or 2): the scan must be able to pass an entity, keep a possible
  match, meet a second possible match or an exact one, which takes three positions;
  they also bound the insertions.
* `SenderIDs` (2): a second turn of the range loop is what a variable left over from the
  first would spoil.
* The catalogs of `MCReconciler` hold, for the question of their run, entities at each level to each
  other; they also bound the payload, which holds any of them or none under each key.
* `Keys` (2 or 3): one pair per user, and a third for a replacement, which may be published
  before the call begins or while it runs.
* `Calls` of Sharing (1): calls share nothing but the stores, the keys and the mail, which other
  steps change in every way a second call could; the theorems are about any number.
* Two users, an intention of two targets: one that is found before or after one
  that is not, and one that belongs to the other user's stores.
* `People` (4): slices of capacity 1, 2 and 4, so that `append` moves to a new array
  three times and writes in place once, beyond the end of a slice that was read with
  three members. `Contacts` (1) bounds `AddPerson`, which nothing else depends on.
* `Groups` (1): a call touches one group. `Callers` (2): a writer or a reader in the
  midst of another's call.
* `People` of Firestore (2): two members whose transactions overlap, or one that is added
  twice. `MaxAttempts` (2): a transaction that starts over and one that is aborted for good.
* `Plans` (1): a query looks at each intention by itself. `Drafts`: an interval that starts between
  two microseconds and ends at one, an interval within one microsecond, a target that Firestore has
  no document for, and each way to be refused by the service. `Times` (10, from 999 to 4000 ns):
  before, at, within and after the intervals and the microseconds of their ends; each exception that
  `QueriesAgree` makes is needed for some of them. `Places` (1): so does a listing of locations.
* Federation's ids (3): one entity that goes out and two that it can be mapped to, or one of
  each kind; it bounds the insertions. `MaxLetters` (2): a letter and the one that brings its
  entity back, or a later one that overtakes it; each may arrive any number of times. `Calls` (2): one call
  in the midst of another.

`CHECK_DEADLOCK FALSE` stands in the configurations of Reconciler, Sharing and Federation
since these may stop: a call returns and the ids, keys, calls and letters of an instance are
used up. Callers of PeopleStore and Firestore never run out of calls, so their runs check for
deadlock. Symmetry is used only in runs that check invariants.

### Fairness

`Reconciler!FairSpec` has weak fairness on `ProcessPayload`: a goroutine that can
run does, and every store read returns. Nothing is assumed of `Insert`.
`Sharing!FairSpec` has weak fairness on the steps of each call that has begun:
store reads end, and both HTTP clients have timeouts. Nothing is assumed of the services:
they may refuse or lose every request.
`Firestore!FairSpec` has weak fairness on the steps of each `AddMemberToGroup` that
has begun: a request is answered or fails. Which of the two is never assumed, nor that a commit
is ever applied; the call returns since attempts are counted.
Nothing is claimed of PeopleStore or Federation that needs fairness.

## 4. Proofs

Proved with TLAPS, for all values of the constants that satisfy
`EntitiesAssumption` and `ReconcilerAssumption` (finitely many ids; markers such as `Nil` are
no ids or entities; where a location is known, it is a whole number of metres):

| Theorem | States |
|---|---|
| `ReconcilerProofs!Invariance` | `Spec => []IInv` |
| `ReconcilerProofs!TypeCorrect` | `Spec => []TypeOK` |
| `ReconcilerProofs!FuzzyMatching` | the scan finds the best match |
| `ReconcilerProofs!GlobalMatching` | a listed GlobalID is matched by GlobalID |
| `ReconcilerProofs!Justification` | no mapping is invented |
| `ReconcilerProofs!Nearness` | a placed location is mapped to no namesake beyond 500 m, and to none beyond 50 m when one within 50 m is listed |
| `RefinementProofs!Implementation` | `Spec => Refinement`, that is, ProcessPayload implements Resolution |

The argument. None of the properties is inductive by itself. `ScanInv` is the
loop invariant of the scan: no exact match lies behind `pos`, and `best` is the first possible
one there; with it, stopping at an exact match or at the end yields
`IsBest` (`ExactIsBest`, `ExhaustIsBest`), which is `FuzzyIsBest`. `TodoInv` says
that nothing is visited before its kind is listed. `ListingCurrent` says that a listing's copies
equal the store's entries, which holds because entries are only added; it
turns a fact about a listing into one about the store, for
`EveryMappingJustified`, and back: a GlobalID that a lookup misses in the store
of now is not in the older listing either (`MissedIsUnlisted`), whence
`KnownGlobalIDWins`. The refinement needs `IInv` and that a listing has one best match
(`BestIsUnique`), so that the verdict chosen when the lookup misses is the one the
scan arrives at.

`Nearness` adds what the levels mean. `KindsInv` says that a location is compared with
locations only; `EntitiesProofs!LevelOfPlaces` that the levels of two placed namesakes are the
intervals up to 50, up to 500 and beyond; and a best match that is only possible leaves no exact one
in the listing (`BestIsListed`). `EntitiesProofs` holds what this proof and those about Federation
have in common: a listing is finite, a copy of the store (`ListingIsCopy`) and misses nothing
(`ListingIsComplete`); every listing has a best match (`BestExists`, where the least position
of a set exists because the naturals are well-founded); a matcher answers with one of three levels, and
the same whichever of two entities is the incoming one (`LevelIsSymmetric`).

For Sharing, for all values of the constants that satisfy `SharingAssumption`
(the tables have their types; `Nil` is no user, ref, intention or key):

| Theorem | States |
|---|---|
| `SharingProofs!Invariance` | `Spec => []IInv` |
| `SharingProofs!TypeCorrect` | `Spec => []TypeOK` |
| `SharingProofs!Success` | success means accepted |
| `SharingProofs!Integrity` | what is opened is what was shared |
| `SharingProofs!Readability` | a letter of a call that began when both ends had published the keys they hold can be opened |
| `SharingProofs!Completeness` | payloads are complete, if `~StoreMayFail` |

The argument follows a letter. `GatherInv` says what a call has gathered: targets of the shared
intention, from the sender's stores, and all of those passed so far that were stored when the call
began, if reads cannot fail. `KeyInv` says that the keys in the directory and in the calls were
generated by their owners. Hence a letter is `SealedBy` its call when it is sealed, and stays so
(`SealedStays`), since `Monotone` shows that a call keeps its arguments and stops reading, that
stores and accepted letters only grow, and that generated keys are not forgotten; the last part,
that it was sealed for the pair its recipient has kept, stays because a pair that is held now was
held before (`KeptBefore`: a new pair is unlike all earlier ones). `PublishedInv` is about the same
pairs before there is a letter: one that was published when the call began and is still held is the
one the directory has and the one the call signs with. `LetterInv` carries this to every accepted
letter and `InboxInv` to every inbox, and the theorems read off what `SealedBy` says, `Readability`
together with `PublishedInv`.

For Firestore, for all values of the constants that satisfy `FirestoreAssumption`
(drafts are intentions with targets of three types, times are integers, that is, any nanoseconds, at
least one attempt) and `NilAssumption` (`Nil` is none of the values it stands beside):

| Theorem | States |
|---|---|
| `FirestoreProofs!Invariance` | `Spec => []IInv` |
| `FirestoreProofs!TypeCorrect` | `Spec => []TypeOK` |
| `FirestoreProofs!OneAudience` | a location is listed for one user or for everybody |
| `FirestoreProofs!Agreement` | both implementations of the query agree, but for targets of unknown types and parts of a microsecond |
| `FirestoreProofs!Findability` | what was acknowledged is found at the microseconds of both its ends, and from its start to the second of them |
| `FirestoreProofs!Implementation` | `Spec => Linearizable`, that is, the store of people and groups implements Membership |

The argument. `TwinInv` says that the store in memory holds the valid intentions as they were given,
and Firestore the documents of those that have one (`Storable`); since `toTarget` undoes
`toTargetDocument` on the two types that can be written, a decoded document is the intention to the
microsecond (`DraftReturns`, `TwinsOf`). `Agreement` is left with the filters and with what cutting
does to them (`CutFacts`, `CutMonotone`): an intention that the query selects and the loop skips has
an end in the microsecond asked about (`OnlyStored`), and one that the loop keeps and the query does
not was cut short of it (`OnlyKept`). `Findability` needs that only valid intentions are kept, as an
end before its start would be found at neither, and that cutting keeps the order of the two ends.
`OwnerInv` ties a location's type to its owner, from which both listings follow. `CallInv` makes the
refinement go through: at `commit` the person is stored, so that a commit that is applied is one
Membership admits; an answer is there exactly when a call is about to return, so that an idle caller
of one is an idle caller of the other. `CommitEnrols` is the one step on data: the union of one
string value adds one member.

For PeopleStore, for all values of the constants that satisfy
`PeopleStoreAssumption` and its `NilAssumption` (who may be stored may be a member; `Nil` is none
of the values it stands beside):

| Theorem | States |
|---|---|
| `PeopleStoreProofs!Invariance` | `Spec => []IInv` |
| `PeopleStoreProofs!TypeCorrect` | `Spec => []TypeOK` |
| `PeopleStoreProofs!LockDiscipline` | the lock is held exactly on the way to its release, and a writer is alone |
| `PeopleStoreProofs!Distinctness` | a group lists each member once |
| `PeopleStoreProofs!Implementation` | `Spec => Linearizable`, that is, the store in memory implements Membership |

The argument. `HoldersRelease` comes first: it says which statements run under which lock,
so that a goroutine past `Lock` is alone with the map. `SharingInv` is about aliasing: two groups
never share an array, and a slice that a reader got from a group's array is no longer than the
group is now, which is why `append` may write the cell behind the group's last one. `CopyInv`
follows a writer: its copy is the group in the map until it appends, and then `Extends` it, by a
member that was not there, in an array that no other group uses. The proof says what
`append` does once (`AppendFacts`, from `InPlace` and `ToCopy`): every slice in the map and with
a reader keeps its cells, and the copy gains one. Everything else about the steps is which of these
slices they move (`SliceCases`). In the refinement an append is a stutter (`AppendHides`), and
`Store` adds the new member and no other (`StoreEnrols`). Without `SharingInv` the statement
about `view` would be false: it is what keeps a group that was read from changing.

For Federation, for all values of the constants that satisfy `EntitiesAssumption`
and `FederationAssumption` (every id has an owner, `Nil` is no letter), so for any number of users:

| Theorem | States |
|---|---|
| `FederationProofs!Invariance` | `Spec => []IInv` |
| `FederationProofs!TypeCorrect` | `Spec => []TypeOK`, with which a call maps only to its recipient's entities |
| `FederationProofs!Redelivery` | what is received again is mapped no worse |
| `FederationProofs!RoundTrip` | what comes back is mapped no worse |

The argument. What is stored stays as it is (`StoreGrows`), so that what a letter (`LetterInv`) or
a listing (`ListingInv`) copied still equals the store, however late it is used. `LinkInv` says that
the two ends of a link are stored, belong to two users and agree with a rank of at least 1;
its own end was stored when a later call took its listing, and is therefore in it
(`ListingInv`, last conjunct). `VerdictInv` says that a verdict carries the incoming GlobalID or is
the best match of the listing, in which case nothing listed carries it. Hence a verdict ranks no
lower than any listed entity that agrees at all (`VerdictIsBest`), the end of the known link
among them (`KnownIsListed`). For `RoundTrip` the link is read from its other end, which is where
`RankIsSymmetric` comes in.

The proof corrected the property. `RedeliveryIsNoWorse` first spoke of every link of the
incoming entity. For two users that is the same, and TLC found nothing wrong with it; the
step from a link to the listing failed, since the link may be one that a third user's call
made to the third user's entity, which this recipient's listing does not hold. An instance with three users
then showed the violation, and the property now names the links of the recipient.

Only model-checked: `Completes` of Reconciler and `CallsReturn` of Sharing and of Firestore, since
liveness is out of the prover's reach; and that no run ends in a deadlock, which `LockDiscipline`
explains for the in-memory store. Every invariant that a passing run checks is proved, and so is
each of the three refinements. The properties of the runs that end in a violation are false, and
their counterexamples are the result.

## 5. Not modelled

* `cmd/`, which builds the objects and waits for a signal; the single-user demo, a straight line
  over the packages; the routing demo, whose main is commented out; the end-to-end tests,
  which drive services this repository does not hold. They serve no operation of their own. Of
  the distributed demo, its wiring is in Federation.
* Rounding in `haversine`; keys of a payload that are not UUIDs; AES, RSA and
  base64 themselves; HTTP beyond its outcomes.
* Firestore's own limits: nested arrays, indexes that a query needs.
* Two clients on one Firestore database, whose listings would hold each other's
  entities (`locations_firestore.go:118`): no program of the repository runs so.
* The intentions' in-memory store and that of locations have methods of one map
  access under a lock each: they are atomic steps of Sharing and Reconciler.

## 6. Plan

Done: Entities, Resolution, Reconciler, Sharing, Membership, PeopleStore, Firestore and
Federation; proofs of the safety properties of each, and of the refinements of Reconciler,
PeopleStore and Firestore.

Next, in this order:

1. That a call of Federation implements Resolution, with its user's own part of the stores as
   the store, so that the step from Reconciler to Federation is a theorem as well.
2. What Membership promises its callers, proved once of the abstract specification: members are
   never lost, and a group that was read stays as it was; both stores inherit it.
