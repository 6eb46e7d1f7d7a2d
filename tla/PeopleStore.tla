---------------------------- MODULE PeopleStore -----------------------------
(***************************************************************************)
(* The in-memory people.InMemoryStore (pkg/people/personmemorystore.go),   *)
(* used by several goroutines: its RWMutex, and the slices in which groups *)
(* keep their members.                                                     *)
(*                                                                         *)
(* A slice is a length and a reference to an array.  GetGroup returns one  *)
(* whose array the store goes on using: append writes into it as long as   *)
(* there is room, and moves to an array of twice the size when there is    *)
(* none.  AddPerson and AddGroup, one assignment under the lock, are one   *)
(* step here; AddMemberToGroup and GetGroup take theirs one at a time.     *)
(***************************************************************************)
EXTENDS Integers, Sequences, SequencesExt

CONSTANTS
  Nil,
  People,      \* the UUIDs that occur as members
  Contacts,    \* the people that may be stored; bounds AddPerson
  Groups,      \* the UUIDs of groups
  Callers      \* the goroutines that use the store

ASSUME PeopleStoreAssumption ==
  /\ Contacts \subseteq People
  /\ Nil \notin People \cup Groups \cup Callers

\* Nil is none of the values it stands beside.
ASSUME NilAssumption ==
  /\ Nil \notin [array : Nat, len : Nat]
  /\ Nil \notin [group : Groups, person : People \cup {Nil}]
  /\ \A S \in SUBSET People : Nil # S

VARIABLES
  people,   \* the keys of the map people
  groups,   \* groups[g]: the MemberIDs of the group g, or Nil
  arrays,   \* the arrays that were allocated, their cells Nil until written
  writer,   \* the goroutine that holds the write lock, or Nil
  readers,  \* the goroutines that hold the read lock
  pc,       \* pc[t]: where t is
  call,     \* call[t]: the group and the person that t's call is about
  local,    \* local[t]: the MemberIDs of t's copy g of the group
  answer,   \* answer[t]: "joined" for nil, "refused" for an error, or "none"
  view      \* view[t]: the MemberIDs that t got from GetGroup last, or Nil

lock  == <<writer, readers>>
store == <<people, groups>>
vars  == <<store, arrays, lock, pc, call, local, answer, view>>

-----------------------------------------------------------------------------
(* Slices. *)

Empty == [array |-> 0, len |-> 0]   \* []uuid.UUID{} has no room

Room(s) == IF s.array = 0 THEN 0 ELSE Len(arrays[s.array])

Elements(s) == [n \in 1 .. s.len |-> arrays[s.array][n]]

MembersOf(s) == IF s = Nil THEN Nil ELSE Range(Elements(s))

\* The array to which append moves a slice that is full.
Grown(s, p) ==
  LET size == IF s.len = 0 THEN 1 ELSE 2 * s.len
  IN  [n \in 1 .. size |->
         CASE n <= s.len    -> arrays[s.array][n]
           [] n = s.len + 1 -> p
           [] OTHER         -> Nil]

-----------------------------------------------------------------------------
Init ==
  /\ people = {}
  /\ groups = [g \in Groups |-> Nil]
  /\ arrays = <<>>
  /\ writer = Nil
  /\ readers = {}
  /\ pc = [t \in Callers |-> "idle"]
  /\ call = [t \in Callers |-> Nil]
  /\ local = [t \in Callers |-> Empty]
  /\ answer = [t \in Callers |-> "none"]
  /\ view = [t \in Callers |-> Nil]

Unlocked == writer = Nil /\ readers = {}

\* CreatePerson and AddPerson.
AddPerson(p) ==
  /\ Unlocked
  /\ people' = people \cup {p}
  /\ UNCHANGED <<groups, arrays, lock, pc, call, local, answer, view>>

\* CreateGroup and AddGroup, under a new UUID.
AddGroup(g) ==
  /\ Unlocked
  /\ groups[g] = Nil
  /\ groups' = [groups EXCEPT ![g] = Empty]
  /\ UNCHANGED <<people, arrays, lock, pc, call, local, answer, view>>

(* AddMemberToGroup. *)

\* Mutant: the two UUIDs change places.
CallSwapped(t, g, p) ==
  /\ pc[t] = "idle"
  /\ call' = [call EXCEPT ![t] = [group |-> p, person |-> g]]
  /\ pc' = [pc EXCEPT ![t] = "lock"]
  /\ UNCHANGED <<store, arrays, lock, local, answer, view>>

Call(t, g, p) ==
  /\ pc[t] = "idle"
  /\ call' = [call EXCEPT ![t] = [group |-> g, person |-> p]]
  /\ pc' = [pc EXCEPT ![t] = "lock"]
  /\ UNCHANGED <<store, arrays, lock, local, answer, view>>

\* Mutant: RLock where Lock is needed.
LockShared(t) ==
  /\ pc[t] = "lock"
  /\ writer = Nil
  /\ readers' = readers \cup {t}
  /\ pc' = [pc EXCEPT ![t] = "find"]
  /\ UNCHANGED <<store, arrays, writer, call, local, answer, view>>

\* Lock.
Lock(t) ==
  /\ pc[t] = "lock"
  /\ Unlocked
  /\ writer' = t
  /\ pc' = [pc EXCEPT ![t] = "find"]
  /\ UNCHANGED <<store, arrays, readers, call, local, answer, view>>

\* The group is copied out of the map.
Find(t) ==
  /\ pc[t] = "find"
  /\ groups[call[t].group] # Nil
  /\ local' = [local EXCEPT ![t] = groups[call[t].group]]
  /\ pc' = [pc EXCEPT ![t] = "scan"]
  /\ UNCHANGED <<store, arrays, lock, call, answer, view>>

\* Mutant: the early return leaves the lock held.
FindNothingHeld(t) ==
  /\ pc[t] = "find"
  /\ groups[call[t].group] = Nil
  /\ pc' = [pc EXCEPT ![t] = "idle"]
  /\ call' = [call EXCEPT ![t] = Nil]
  /\ UNCHANGED <<store, arrays, lock, local, answer, view>>

\* There is no such group.
FindNothing(t) ==
  /\ pc[t] = "find"
  /\ groups[call[t].group] = Nil
  /\ answer' = [answer EXCEPT ![t] = "refused"]
  /\ pc' = [pc EXCEPT ![t] = "unlock"]
  /\ UNCHANGED <<store, arrays, lock, call, local, view>>

\* Mutant: the members are not scanned.
Always(t) == TRUE

IsNew(t) == call[t].person \notin MembersOf(local[t])

\* The loop over the members ends with or without a hit.
ScanHit(t) ==
  /\ pc[t] = "scan"
  /\ ~IsNew(t)
  /\ answer' = [answer EXCEPT ![t] = "joined"]
  /\ pc' = [pc EXCEPT ![t] = "unlock"]
  /\ UNCHANGED <<store, arrays, lock, call, local, view>>

ScanMiss(t) ==
  /\ pc[t] = "scan"
  /\ IsNew(t)
  /\ pc' = [pc EXCEPT ![t] = "append"]
  /\ UNCHANGED <<store, arrays, lock, call, local, answer, view>>

\* Mutant: the new member is written over the last one.
AppendOverLast(t) ==
  /\ pc[t] = "append"
  /\ local[t].len < Room(local[t])
  /\ arrays' = [arrays EXCEPT ![local[t].array][local[t].len] = call[t].person]
  /\ local' = [local EXCEPT ![t].len = @ + 1]
  /\ pc' = [pc EXCEPT ![t] = "store"]
  /\ UNCHANGED <<store, lock, call, answer, view>>

\* append, into the array the slice already has.
AppendInPlace(t) ==
  /\ pc[t] = "append"
  /\ local[t].len < Room(local[t])
  /\ arrays' = [arrays EXCEPT ![local[t].array][local[t].len + 1] = call[t].person]
  /\ local' = [local EXCEPT ![t].len = @ + 1]
  /\ pc' = [pc EXCEPT ![t] = "store"]
  /\ UNCHANGED <<store, lock, call, answer, view>>

\* append, to a new array.
AppendToCopy(t) ==
  /\ pc[t] = "append"
  /\ local[t].len >= Room(local[t])
  /\ arrays' = Append(arrays, Grown(local[t], call[t].person))
  /\ local' = [local EXCEPT ![t] = [array |-> Len(arrays) + 1, len |-> @.len + 1]]
  /\ pc' = [pc EXCEPT ![t] = "store"]
  /\ UNCHANGED <<store, lock, call, answer, view>>

\* The copy is put back into the map.
Store(t) ==
  /\ pc[t] = "store"
  /\ groups' = [groups EXCEPT ![call[t].group] = local[t]]
  /\ answer' = [answer EXCEPT ![t] = "joined"]
  /\ pc' = [pc EXCEPT ![t] = "unlock"]
  /\ UNCHANGED <<people, arrays, lock, call, local, view>>

\* The deferred Unlock or RUnlock, and the return.
Unlock(t) ==
  /\ pc[t] = "unlock"
  /\ writer' = IF writer = t THEN Nil ELSE writer
  /\ readers' = readers \ {t}
  /\ answer' = [answer EXCEPT ![t] = "none"]
  /\ call' = [call EXCEPT ![t] = Nil]
  /\ local' = [local EXCEPT ![t] = Empty]
  /\ pc' = [pc EXCEPT ![t] = "idle"]
  /\ UNCHANGED <<store, arrays, view>>

(* GetGroup. *)

CallGet(t, g) ==
  /\ pc[t] = "idle"
  /\ call' = [call EXCEPT ![t] = [group |-> g, person |-> Nil]]
  /\ pc' = [pc EXCEPT ![t] = "rlock"]
  /\ UNCHANGED <<store, arrays, lock, local, answer, view>>

RLock(t) ==
  /\ pc[t] = "rlock"
  /\ writer = Nil
  /\ readers' = readers \cup {t}
  /\ pc' = [pc EXCEPT ![t] = "copy"]
  /\ UNCHANGED <<store, arrays, writer, call, local, answer, view>>

\* The Group that is returned shares its array with the store's.
Copy(t) ==
  /\ pc[t] = "copy"
  /\ view' = [view EXCEPT ![t] = groups[call[t].group]]
  /\ pc' = [pc EXCEPT ![t] = "unlock"]
  /\ UNCHANGED <<store, arrays, lock, call, local, answer>>

Next ==
  \/ \E p \in Contacts : AddPerson(p)
  \/ \E g \in Groups : AddGroup(g)
  \/ \E t \in Callers :
       \/ \E g \in Groups, p \in People : Call(t, g, p)
       \/ Lock(t) \/ Find(t) \/ FindNothing(t) \/ ScanHit(t) \/ ScanMiss(t)
       \/ AppendInPlace(t) \/ AppendToCopy(t) \/ Store(t)
       \/ \E g \in Groups : CallGet(t, g)
       \/ RLock(t) \/ Copy(t)
       \/ Unlock(t)

Spec == Init /\ [][Next]_vars

-----------------------------------------------------------------------------
(* The abstract specification.  A call takes effect when it stores its copy,
   or when it finds that it has nothing to store. *)

Requests(t) == pc[t] \in {"lock", "find", "scan", "append", "store"}

Promised == INSTANCE Membership WITH
  NeedsPerson <- FALSE,
  MayFail <- FALSE,
  members <- [g \in Groups |-> MembersOf(groups[g])],
  request <- [t \in Callers |-> IF Requests(t) THEN call[t] ELSE Nil],
  view    <- [t \in Callers |-> MembersOf(view[t])]

-----------------------------------------------------------------------------
(* Properties. *)

Slice == [array : 0 .. Len(arrays), len : Nat]

\* Every variable keeps its type: a call is about a group and a person, and a slice is
\* in an array that there is.
TypeOK ==
  /\ people \subseteq People
  /\ arrays \in Seq(Seq(People \cup {Nil}))
  /\ groups \in [Groups -> Slice \cup {Nil}]
  /\ writer \in Callers \cup {Nil}
  /\ readers \subseteq Callers
  /\ pc \in [Callers -> {"idle", "lock", "find", "scan", "append", "store", "unlock",
                         "rlock", "copy"}]
  /\ call \in [Callers -> [group : Groups, person : People \cup {Nil}] \cup {Nil}]
  /\ local \in [Callers -> Slice]
  /\ answer \in [Callers -> {"none", "joined", "refused"}]
  /\ view \in [Callers -> Slice \cup {Nil}]

\* However the goroutines interleave, AddMemberToGroup loses no member that it
\* acknowledged and refuses no call without cause, and append does not reach
\* into a slice that somebody got from GetGroup before.
Linearizable == Promised!AbsSpec

\* A group lists each of its members once, however often it was added.
MembersAreDistinct ==
  \A g \in Groups :
    groups[g] # Nil => \A m, n \in 1 .. groups[g].len :
                         Elements(groups[g])[m] = Elements(groups[g])[n] => m = n

-----------------------------------------------------------------------------
(* Why the properties hold: the inductive invariant. *)

\* A goroutine holds the lock, for writing or with other readers, exactly while it
\* is on its way to the release of it, so that no early return keeps the lock and
\* none releases it twice.
HoldersRelease ==
  /\ writer # Nil => readers = {}
  /\ \A t \in Callers :
       /\ pc[t] \in {"find", "scan", "append", "store"} => writer = t
       /\ pc[t] = "copy" => t \in readers
       /\ writer = t \/ t \in readers <=>
            pc[t] \in {"find", "scan", "append", "store", "copy", "unlock"}

\* A call knows what it is about, and has an answer only when it is over.
CallInv ==
  \A t \in Callers :
    /\ Requests(t) => call[t] \in [group : Groups, person : People]
    /\ pc[t] \in {"rlock", "copy"} => call[t] # Nil
    /\ answer[t] # "none" => pc[t] = "unlock"

\* The slice stays within its array, and its cells are written.
Fits(s) ==
  /\ s.array = 0 <=> s.len = 0
  /\ s.len <= Room(s)
  /\ \A n \in 1 .. s.len : arrays[s.array][n] \in People

\* Groups do not share arrays, and a slice that was read from a group is no longer
\* than the group is now.
SharingInv ==
  /\ \A g \in Groups : groups[g] # Nil => Fits(groups[g])
  /\ \A t \in Callers : view[t] # Nil => Fits(view[t])
  /\ \A g, h \in Groups :
       groups[g] # Nil /\ groups[h] # Nil /\ groups[g].array = groups[h].array
         => g = h \/ groups[g].array = 0
  /\ \A t \in Callers, g \in Groups :
       view[t] # Nil /\ groups[g] # Nil /\ view[t].array = groups[g].array
         => view[t].len <= groups[g].len

\* What t will put back is the group with one more member, in an array that no
\* other group uses and that no reader has seen beyond.
Extends(t) ==
  LET g == call[t].group
      s == local[t]
  IN  /\ Fits(s)
      /\ s.len = groups[g].len + 1
      /\ \A n \in 1 .. groups[g].len : arrays[s.array][n] = arrays[groups[g].array][n]
      /\ arrays[s.array][s.len] = call[t].person
      /\ \A h \in Groups \ {g} : groups[h] # Nil => groups[h].array # s.array
      /\ \A u \in Callers : view[u] # Nil /\ view[u].array = s.array => view[u].len <= s.len

\* A writer's copy is the group in the map, and then extends it.
CopyInv ==
  \A t \in Callers :
    /\ pc[t] \in {"scan", "append", "store"} => groups[call[t].group] # Nil
    /\ pc[t] \in {"scan", "append"} => local[t] = groups[call[t].group]
    /\ pc[t] \in {"append", "store"} =>
         call[t].person \notin MembersOf(groups[call[t].group])
    /\ pc[t] = "store" => Extends(t)

\* The inductive invariant of PeopleStoreProofs: its parts, each stated above, hold
\* between any two statements of the goroutines.
IInv ==
  /\ TypeOK
  /\ HoldersRelease
  /\ CallInv
  /\ SharingInv
  /\ CopyInv
  /\ MembersAreDistinct
=============================================================================
