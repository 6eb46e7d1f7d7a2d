------------------------- MODULE PeopleStoreProofs --------------------------
(***************************************************************************)
(* The properties of PeopleStore, for any number of goroutines, groups and *)
(* members, and that it implements Membership.                             *)
(*                                                                         *)
(* What happens to arrays and slices is proved first, of memories and      *)
(* slices as values, and then used of the variables before and after a     *)
(* step.                                                                   *)
(***************************************************************************)
EXTENDS PeopleStore, TLAPS

-----------------------------------------------------------------------------
(* Memories: sequences of arrays. *)

Cell == People \cup {Nil}

Memory == Seq(Seq(Cell))

SliceOf(mem) == [array : 0 .. Len(mem), len : Nat]

FitsIn(mem, s) ==
  /\ s.array = 0 <=> s.len = 0
  /\ s.len <= IF s.array = 0 THEN 0 ELSE Len(mem[s.array])
  /\ \A n \in 1 .. s.len : mem[s.array][n] \in People

\* mem with p in the cell n of the array a.
Written(mem, a, n, p) == [mem EXCEPT ![a][n] = p]

CellsOf(mem, s) == {mem[s.array][n] : n \in 1 .. s.len}

\* The slice s is the same in both memories.
SameSlice(mem, new, s) ==
  /\ s.array # 0 => Len(new[s.array]) = Len(mem[s.array])
  /\ \A n \in 1 .. s.len : new[s.array][n] = mem[s.array][n]

\* An array of a memory has a length.
LEMMA ArrayTyped ==
  ASSUME NEW mem \in Memory, NEW a \in 1 .. Len(mem)
  PROVE  mem[a] \in Seq(Cell) /\ Len(mem[a]) \in Nat
BY DEF Memory

\* Writing a cell changes that cell only.
LEMMA CellWritten ==
  ASSUME NEW mem \in Memory, NEW a \in 1 .. Len(mem), NEW n \in 1 .. Len(mem[a]),
         NEW p \in Cell, NEW new, new = Written(mem, a, n, p)
  PROVE  /\ new \in Memory
         /\ Len(new) = Len(mem)
         /\ \A b \in 1 .. Len(mem) :
              /\ Len(new[b]) = Len(mem[b])
              /\ \A m \in 1 .. Len(mem[b]) :
                   new[b][m] = IF b = a /\ m = n THEN p ELSE mem[b][m]
<1> DEFINE row == [mem[a] EXCEPT ![n] = p]
<1>0. new = [mem EXCEPT ![a] = row]
  BY DEF Written
<1>1. mem[a] \in Seq(Cell) /\ Len(mem[a]) \in Nat
  BY ArrayTyped
<1>2. /\ row \in Seq(Cell) /\ Len(row) = Len(mem[a])
      /\ \A m \in 1 .. Len(mem[a]) : row[m] = IF m = n THEN p ELSE mem[a][m]
  BY <1>1
<1> HIDE DEF row
<1>3. new \in Memory /\ Len(new) = Len(mem)
  BY <1>0, <1>2 DEF Memory
<1>4. \A b \in 1 .. Len(mem) : new[b] = IF b = a THEN row ELSE mem[b]
  BY <1>0 DEF Memory
<1> QED
  BY <1>2, <1>3, <1>4

\* A new array changes none of the others.
LEMMA ArrayAdded ==
  ASSUME NEW mem \in Memory, NEW row \in Seq(Cell)
  PROVE  /\ Append(mem, row) \in Memory
         /\ Len(mem) \in Nat
         /\ Len(Append(mem, row)) = Len(mem) + 1
         /\ Append(mem, row)[Len(mem) + 1] = row
         /\ \A b \in 1 .. Len(mem) : Append(mem, row)[b] = mem[b]
BY DEF Memory

\* A slice that is the same keeps its bounds, its type and its members.
LEMMA SameSliceFits ==
  ASSUME NEW mem \in Memory, NEW new \in Memory, Len(mem) <= Len(new),
         NEW s \in SliceOf(mem), FitsIn(mem, s), SameSlice(mem, new, s)
  PROVE  /\ s \in SliceOf(new)
         /\ FitsIn(new, s)
         /\ CellsOf(new, s) = CellsOf(mem, s)
<1>1. Len(mem) \in Nat /\ Len(new) \in Nat
  BY DEF Memory
<1>2. s \in SliceOf(new)
  BY <1>1 DEF SliceOf
<1>3. FitsIn(new, s)
  BY DEF FitsIn, SameSlice
<1>4. CellsOf(new, s) = CellsOf(mem, s)
  BY DEF CellsOf, SameSlice
<1> QED
  BY <1>2, <1>3, <1>4

\* Adding an array leaves every slice as it was.
LEMMA AddedKeeps ==
  ASSUME NEW mem \in Memory, NEW row \in Seq(Cell),
         NEW s \in SliceOf(mem), FitsIn(mem, s)
  PROVE  SameSlice(mem, Append(mem, row), s)
<1>1. Len(mem) \in Nat /\ s.array \in 0 .. Len(mem) /\ s.len \in Nat
  BY DEF Memory, SliceOf
<1>2. s.array # 0 => Append(mem, row)[s.array] = mem[s.array]
  BY <1>1, ArrayAdded
<1>3. s.array = 0 => s.len = 0
  BY DEF FitsIn
<1> QED
  BY <1>1, <1>2, <1>3 DEF SameSlice

\* Writing a cell beyond a slice leaves the slice as it was.
LEMMA WrittenKeeps ==
  ASSUME NEW mem \in Memory, NEW a \in 1 .. Len(mem), NEW n \in 1 .. Len(mem[a]),
         NEW p \in Cell, NEW s \in SliceOf(mem), FitsIn(mem, s),
         s.array = a => s.len < n, NEW new, new = Written(mem, a, n, p)
  PROVE  SameSlice(mem, new, s)
<1>1. \A b \in 1 .. Len(mem) :
        /\ Len(new[b]) = Len(mem[b])
        /\ \A m \in 1 .. Len(mem[b]) : new[b][m] = IF b = a /\ m = n THEN p ELSE mem[b][m]
  BY CellWritten
<1>2. Len(mem) \in Nat /\ s.array \in 0 .. Len(mem) /\ s.len \in Nat
  BY DEF Memory, SliceOf
<1>3. CASE s.array = 0
  BY <1>2, <1>3 DEF SameSlice, FitsIn
<1>4. CASE s.array # 0
  <2>1. s.array \in 1 .. Len(mem) /\ Len(mem[s.array]) \in Nat
    BY <1>2, <1>4, ArrayTyped
  <2>2. \A m \in 1 .. s.len : m \in 1 .. Len(mem[s.array]) /\ ~(s.array = a /\ m = n)
    BY <1>2, <1>4, <2>1 DEF FitsIn
  <2> QED
    BY <1>1, <2>1, <2>2 DEF SameSlice
<1> QED
  BY <1>3, <1>4

-----------------------------------------------------------------------------
(* append. *)

\* The slice t of new is the slice s of mem and p behind it.
OneMore(mem, new, s, t, p) ==
  /\ FitsIn(new, t)
  /\ t.len = s.len + 1
  /\ \A n \in 1 .. s.len : new[t.array][n] = mem[s.array][n]
  /\ new[t.array][t.len] = p

\* One more cell, one more member.
LEMMA OneMoreCell ==
  ASSUME NEW mem, NEW new, NEW s, s.len \in Nat, NEW t, NEW p, OneMore(mem, new, s, t, p)
  PROVE  CellsOf(new, t) = CellsOf(mem, s) \cup {p}
<1>1. 1 .. t.len = (1 .. s.len) \cup {s.len + 1}
  BY DEF OneMore
<1>2. CellsOf(new, t) = {new[t.array][n] : n \in 1 .. s.len} \cup {new[t.array][s.len + 1]}
  BY <1>1 DEF CellsOf
<1>3. {new[t.array][n] : n \in 1 .. s.len} = CellsOf(mem, s)
  BY DEF OneMore, CellsOf
<1> QED
  BY <1>2, <1>3 DEF OneMore

\* append where there is room.
LEMMA InPlace ==
  ASSUME NEW mem \in Memory, NEW s \in SliceOf(mem), FitsIn(mem, s),
         s.len < IF s.array = 0 THEN 0 ELSE Len(mem[s.array]), NEW p \in People,
         NEW new, new = Written(mem, s.array, s.len + 1, p),
         NEW t, t = [array |-> s.array, len |-> s.len + 1]
  PROVE  /\ new \in Memory /\ Len(new) = Len(mem)
         /\ s.array \in 1 .. Len(mem) /\ s.len + 1 \in 1 .. Len(mem[s.array])
         /\ t \in SliceOf(new)
         /\ OneMore(mem, new, s, t, p)
<1>1. Len(mem) \in Nat /\ s.array \in 0 .. Len(mem) /\ s.len \in Nat
  BY DEF Memory, SliceOf
<1>2. s.array \in 1 .. Len(mem)
  BY <1>1
<1>3. Len(mem[s.array]) \in Nat /\ s.len + 1 \in 1 .. Len(mem[s.array])
  BY <1>1, <1>2, ArrayTyped
<1>4. p \in Cell
  BY DEF Cell
<1>5. /\ new \in Memory /\ Len(new) = Len(mem)
      /\ Len(new[s.array]) = Len(mem[s.array])
      /\ \A m \in 1 .. Len(mem[s.array]) :
           new[s.array][m] = IF m = s.len + 1 THEN p ELSE mem[s.array][m]
  <2>1. PICK a \in 1 .. Len(mem) : a = s.array
    BY <1>2
  <2>2. PICK n \in 1 .. Len(mem[a]) : n = s.len + 1
    BY <1>3, <2>1
  <2>3. new = Written(mem, a, n, p)
    BY <2>1, <2>2
  <2>4. p \in Cell
    BY <1>4
  <2> HIDE <1>1, <1>2, <1>3, <1>4
  <2>5. new \in Memory
    BY <2>3, <2>4, CellWritten
  <2>6. Len(new) = Len(mem)
    BY <2>3, <2>4, CellWritten
  <2>7. \A b \in 1 .. Len(mem) :
          /\ Len(new[b]) = Len(mem[b])
          /\ \A m \in 1 .. Len(mem[b]) :
               new[b][m] = IF b = a /\ m = n THEN p ELSE mem[b][m]
    BY <2>3, <2>4, CellWritten
  <2> QED
    BY <1>2, <2>1, <2>2, <2>5, <2>6, <2>7
<1>6. t \in SliceOf(new) /\ t.array = s.array /\ t.len = s.len + 1
  BY <1>1, <1>2, <1>5 DEF SliceOf
<1>7. \A n \in 1 .. s.len : n \in 1 .. Len(mem[s.array]) /\ n # s.len + 1
  BY <1>1, <1>3
<1>8. \A n \in 1 .. s.len : new[s.array][n] = mem[s.array][n] /\ mem[s.array][n] \in People
  BY <1>5, <1>7 DEF FitsIn
<1>9. new[s.array][s.len + 1] = p
  BY <1>3, <1>5
<1>10. ASSUME NEW n \in 1 .. t.len
       PROVE  new[t.array][n] \in People
  <2>1. n \in 1 .. s.len \/ n = s.len + 1
    BY <1>1, <1>6
  <2> QED
    BY <1>6, <1>8, <1>9, <2>1
<1>11. FitsIn(new, t)
  BY <1>1, <1>2, <1>3, <1>5, <1>6, <1>10 DEF FitsIn
<1> QED
  BY <1>2, <1>3, <1>5, <1>6, <1>8, <1>9, <1>11 DEF OneMore

\* The array that a full slice is copied to holds it, and has room.
LEMMA GrownHolds ==
  ASSUME arrays \in Memory, NEW s \in SliceOf(arrays), FitsIn(arrays, s), NEW p \in People
  PROVE  /\ Grown(s, p) \in Seq(Cell)
         /\ Len(Grown(s, p)) \in Nat /\ s.len + 1 <= Len(Grown(s, p))
         /\ \A n \in 1 .. s.len : Grown(s, p)[n] = arrays[s.array][n]
         /\ Grown(s, p)[s.len + 1] = p
<1> DEFINE size == IF s.len = 0 THEN 1 ELSE 2 * s.len
           cell(n) == CASE n <= s.len    -> arrays[s.array][n]
                        [] n = s.len + 1 -> p
                        [] OTHER         -> Nil
<1>1. s.len \in Nat /\ size \in Nat /\ s.len + 1 <= size
  BY DEF SliceOf
<1>2. Grown(s, p) = [n \in 1 .. size |-> cell(n)]
  BY DEF Grown
<1>3. /\ \A n \in 1 .. s.len : cell(n) = arrays[s.array][n] /\ cell(n) \in People
      /\ cell(s.len + 1) = p
  BY <1>1 DEF FitsIn
<1>4. \A n \in 1 .. size : n > s.len + 1 => cell(n) = Nil
  BY <1>1
<1>5. \A n \in 1 .. size : cell(n) \in Cell
  BY <1>1, <1>3, <1>4 DEF Cell
<1> HIDE DEF size, cell
<1>6. Grown(s, p) \in Seq(Cell) /\ Len(Grown(s, p)) = size
  BY <1>1, <1>2, <1>5
<1> QED
  BY <1>1, <1>2, <1>3, <1>6

\* append where there is no room.
LEMMA ToCopy ==
  ASSUME NEW mem \in Memory, NEW s \in SliceOf(mem), FitsIn(mem, s), NEW p \in People,
         NEW row \in Seq(Cell), Len(row) \in Nat, s.len + 1 <= Len(row),
         \A n \in 1 .. s.len : row[n] = mem[s.array][n], row[s.len + 1] = p,
         NEW new, new = Append(mem, row),
         NEW t, t = [array |-> Len(mem) + 1, len |-> s.len + 1]
  PROVE  /\ new \in Memory /\ Len(new) = Len(mem) + 1
         /\ t \in SliceOf(new)
         /\ OneMore(mem, new, s, t, p)
<1>1. Len(mem) \in Nat /\ s.len \in Nat
  BY DEF Memory, SliceOf
<1>2. new \in Memory /\ Len(new) = Len(mem) + 1 /\ new[Len(mem) + 1] = row
  BY ArrayAdded
<1>3. t \in SliceOf(new) /\ t.array = Len(mem) + 1 /\ t.len = s.len + 1
  BY <1>1, <1>2 DEF SliceOf
<1>4. new[t.array] = row
  BY <1>2, <1>3
<1>5. ASSUME NEW n \in 1 .. t.len
      PROVE  row[n] \in People
  <2>1. n \in 1 .. s.len \/ n = s.len + 1
    BY <1>1, <1>3
  <2> QED
    BY <2>1 DEF FitsIn
<1>6. FitsIn(new, t)
  BY <1>1, <1>3, <1>4, <1>5 DEF FitsIn
<1> QED
  BY <1>2, <1>3, <1>4, <1>6 DEF OneMore

-----------------------------------------------------------------------------
(* The lock and the calls. *)

\* The variables that the steps of goroutines are about have their types.
Typed ==
  /\ writer \in Callers \cup {Nil}
  /\ readers \subseteq Callers
  /\ pc \in [Callers -> {"idle", "lock", "find", "scan", "append", "store", "unlock",
                         "rlock", "copy"}]
  /\ call \in [Callers -> [group : Groups, person : People \cup {Nil}] \cup {Nil}]
  /\ answer \in [Callers -> {"none", "joined", "refused"}]

\* The steps of goroutines other than those of Call and CallGet.
Proceeds(t) ==
  \/ Lock(t) \/ Find(t) \/ FindNothing(t) \/ ScanHit(t) \/ ScanMiss(t)
  \/ AppendInPlace(t) \/ AppendToCopy(t) \/ Store(t)
  \/ RLock(t) \/ Copy(t) \/ Unlock(t)

\* The steps of Next.
LEMMA StepCases ==
  ASSUME [Next]_vars
  PROVE  \/ UNCHANGED vars
         \/ \E p \in Contacts : AddPerson(p)
         \/ \E g \in Groups : AddGroup(g)
         \/ \E t \in Callers, g \in Groups, p \in People : Call(t, g, p)
         \/ \E t \in Callers, g \in Groups : CallGet(t, g)
         \/ \E t \in Callers : Proceeds(t)
BY DEF Next, Proceeds

\* A goroutine is a value other than Nil.
LEMMA CallerNotNil == \A t \in Callers : t # Nil
BY PeopleStoreAssumption

\* Every step keeps these types.
LEMMA TypedStep == Typed /\ [Next]_vars => Typed'
<1> SUFFICES ASSUME Typed, [Next]_vars
             PROVE  Typed'
  OBVIOUS
<1>1. CASE UNCHANGED vars
  BY <1>1 DEF vars, lock, Typed
<1>2. ASSUME NEW p \in Contacts, AddPerson(p)
      PROVE  Typed'
  BY <1>2 DEF AddPerson, lock, Typed
<1>3. ASSUME NEW g \in Groups, AddGroup(g)
      PROVE  Typed'
  BY <1>3 DEF AddGroup, lock, Typed
<1>4. ASSUME NEW t \in Callers, NEW g \in Groups, NEW p \in People, Call(t, g, p)
      PROVE  Typed'
  BY <1>4 DEF Call, lock, Typed
<1>5. ASSUME NEW t \in Callers, NEW g \in Groups, CallGet(t, g)
      PROVE  Typed'
  BY <1>5 DEF CallGet, lock, Typed
<1>6. ASSUME NEW t \in Callers, Proceeds(t)
      PROVE  Typed'
  <2>1. CASE Lock(t)
    BY <2>1 DEF Lock, Typed
  <2>2. CASE Find(t) \/ FindNothing(t)
    BY <2>2 DEF Find, FindNothing, lock, Typed
  <2>3. CASE ScanHit(t) \/ ScanMiss(t)
    BY <2>3 DEF ScanHit, ScanMiss, lock, Typed
  <2>4. CASE AppendInPlace(t) \/ AppendToCopy(t)
    BY <2>4 DEF AppendInPlace, AppendToCopy, lock, Typed
  <2>5. CASE Store(t)
    BY <2>5 DEF Store, lock, Typed
  <2>6. CASE RLock(t)
    BY <2>6 DEF RLock, Typed
  <2>7. CASE Copy(t)
    BY <2>7 DEF Copy, lock, Typed
  <2>8. CASE Unlock(t)
    BY <2>8 DEF Unlock, Typed
  <2> QED
    BY <1>6, <2>1, <2>2, <2>3, <2>4, <2>5, <2>6, <2>7, <2>8 DEF Proceeds
<1> QED
  BY <1>1, <1>2, <1>3, <1>4, <1>5, <1>6, StepCases

\* Every path through the two methods holds the lock it needs, and releases it.
LEMMA HoldersStep == Typed /\ HoldersRelease /\ [Next]_vars => HoldersRelease'
<1> SUFFICES ASSUME Typed, HoldersRelease, [Next]_vars
             PROVE  HoldersRelease'
  OBVIOUS
<1>1. ASSUME UNCHANGED <<lock, pc>>
      PROVE  HoldersRelease'
  BY <1>1 DEF lock, HoldersRelease
<1>2. ASSUME NEW t \in Callers, UNCHANGED lock, NEW from, NEW to,
             pc[t] = from, pc' = [pc EXCEPT ![t] = to],
             \/ from = "idle" /\ to \in {"lock", "rlock"}
             \/ /\ from \in {"find", "scan", "append", "store"}
                /\ to \in {"scan", "append", "store", "unlock"}
             \/ from = "copy" /\ to = "unlock"
      PROVE  HoldersRelease'
  BY <1>2 DEF lock, HoldersRelease, Typed
<1>3. ASSUME NEW t \in Callers, NEW g \in Groups, NEW p \in People, Call(t, g, p)
      PROVE  HoldersRelease'
  BY <1>2, <1>3 DEF Call
<1>4. ASSUME NEW t \in Callers, NEW g \in Groups, CallGet(t, g)
      PROVE  HoldersRelease'
  BY <1>2, <1>4 DEF CallGet
<1>5. ASSUME NEW t \in Callers, Proceeds(t)
      PROVE  HoldersRelease'
  <2>1. CASE Lock(t)
    BY <2>1, CallerNotNil DEF Lock, Unlocked, HoldersRelease, Typed
  <2>2. CASE Find(t) \/ FindNothing(t)
    BY <1>2, <2>2 DEF Find, FindNothing
  <2>3. CASE ScanHit(t) \/ ScanMiss(t)
    BY <1>2, <2>3 DEF ScanHit, ScanMiss
  <2>4. CASE AppendInPlace(t) \/ AppendToCopy(t) \/ Store(t)
    BY <1>2, <2>4 DEF AppendInPlace, AppendToCopy, Store
  <2>5. CASE RLock(t)
    BY <2>5, CallerNotNil DEF RLock, HoldersRelease, Typed
  <2>6. CASE Copy(t)
    BY <1>2, <2>6 DEF Copy
  <2>7. CASE Unlock(t)
    BY <2>7, CallerNotNil DEF Unlock, HoldersRelease, Typed
  <2> QED
    BY <1>5, <2>1, <2>2, <2>3, <2>4, <2>5, <2>6, <2>7 DEF Proceeds
<1>6. ASSUME NEW p \in Contacts, AddPerson(p)
      PROVE  HoldersRelease'
  BY <1>1, <1>6 DEF AddPerson
<1>7. ASSUME NEW g \in Groups, AddGroup(g)
      PROVE  HoldersRelease'
  BY <1>1, <1>7 DEF AddGroup
<1>8. CASE UNCHANGED vars
  BY <1>1, <1>8 DEF vars
<1> QED
  BY <1>3, <1>4, <1>5, <1>6, <1>7, <1>8, StepCases

\* Every call keeps to its program.
LEMMA CallStep == Typed /\ CallInv /\ [Next]_vars => CallInv'
<1> SUFFICES ASSUME Typed, CallInv, [Next]_vars
             PROVE  CallInv'
  OBVIOUS
<1>1. ASSUME UNCHANGED <<pc, call, answer>>
      PROVE  CallInv'
  BY <1>1 DEF CallInv, Requests
<1>2. ASSUME NEW p \in Contacts, AddPerson(p)
      PROVE  CallInv'
  BY <1>1, <1>2 DEF AddPerson
<1>3. ASSUME NEW g \in Groups, AddGroup(g)
      PROVE  CallInv'
  BY <1>1, <1>3 DEF AddGroup
<1>4. ASSUME NEW t \in Callers, NEW g \in Groups, NEW p \in People, Call(t, g, p)
      PROVE  CallInv'
  BY <1>4 DEF Call, CallInv, Requests, Typed
<1>5. ASSUME NEW t \in Callers, NEW g \in Groups, CallGet(t, g)
      PROVE  CallInv'
  BY <1>5, NilAssumption DEF CallGet, CallInv, Requests, Typed
<1>6. ASSUME NEW t \in Callers, Proceeds(t)
      PROVE  CallInv'
  <2>1. CASE Lock(t) \/ RLock(t)
    BY <2>1 DEF Lock, RLock, CallInv, Requests, Typed
  <2>2. CASE Find(t) \/ ScanMiss(t)
    BY <2>2 DEF Find, ScanMiss, CallInv, Requests, Typed
  <2>3. CASE AppendInPlace(t) \/ AppendToCopy(t)
    BY <2>3 DEF AppendInPlace, AppendToCopy, CallInv, Requests, Typed
  <2>4. CASE FindNothing(t) \/ ScanHit(t) \/ Store(t)
    BY <2>4 DEF FindNothing, ScanHit, Store, CallInv, Requests, Typed
  <2>5. CASE Copy(t)
    BY <2>5 DEF Copy, CallInv, Requests, Typed
  <2>6. CASE Unlock(t)
    BY <2>6 DEF Unlock, CallInv, Requests, Typed
  <2> QED
    BY <1>6, <2>1, <2>2, <2>3, <2>4, <2>5, <2>6 DEF Proceeds
<1>7. CASE UNCHANGED vars
  BY <1>1, <1>7 DEF vars
<1> QED
  BY <1>2, <1>3, <1>4, <1>5, <1>6, <1>7, StepCases

-----------------------------------------------------------------------------
(* The slices in the variables. *)

\* What TypeOK and SharingInv say, of arrays as a memory.
LEMMA Slices ==
  ASSUME IInv
  PROVE  /\ arrays \in Memory
         /\ \A g \in Groups : groups[g] # Nil =>
              groups[g] \in SliceOf(arrays) /\ FitsIn(arrays, groups[g])
         /\ \A t \in Callers : view[t] # Nil =>
              view[t] \in SliceOf(arrays) /\ FitsIn(arrays, view[t])
         /\ \A t \in Callers : local[t] \in SliceOf(arrays)
<1>1. arrays \in Memory
  BY DEF IInv, TypeOK, Memory, Cell
<1>2. Slice = SliceOf(arrays)
  BY DEF Slice, SliceOf
<1>3. \A s : Fits(s) <=> FitsIn(arrays, s)
  BY DEF Fits, Room, FitsIn
<1> QED
  BY <1>1, <1>2, <1>3 DEF IInv, TypeOK, SharingInv

\* The members of a group are what its cells hold.
LEMMA MembersAreCells ==
  ASSUME NEW s, s # Nil
  PROVE  MembersOf(s) = CellsOf(arrays, s)
BY DEF MembersOf, Elements, Range, CellsOf

\* A goroutine that appends holds a copy of its group.
LEMMA Appending ==
  ASSUME IInv, NEW t \in Callers, pc[t] \in {"append", "store"}
  PROVE  /\ call[t].group \in Groups /\ call[t].person \in People
         /\ groups[call[t].group] # Nil
         /\ pc[t] = "append" => local[t] = groups[call[t].group]
         /\ writer = t /\ readers = {}
         /\ \A u \in Callers \ {t} : pc[u] \notin {"find", "scan", "append", "store", "copy"}
<1>1. call[t] \in [group : Groups, person : People]
  BY DEF IInv, CallInv, Requests
<1>2. writer = t /\ readers = {}
  BY CallerNotNil DEF IInv, HoldersRelease
<1>3. \A u \in Callers \ {t} : pc[u] \notin {"find", "scan", "append", "store", "copy"}
  BY <1>2 DEF IInv, HoldersRelease
<1> QED
  BY <1>1, <1>2, <1>3 DEF IInv, CopyInv

\* What append does to the arrays and to the copy: the slices in the map and in the
\* hands of readers stay as they are, and the copy has one member more.
LEMMA AppendFacts ==
  ASSUME IInv, NEW t \in Callers, AppendInPlace(t) \/ AppendToCopy(t)
  PROVE  /\ arrays' \in Memory /\ Len(arrays) <= Len(arrays')
         /\ \A g \in Groups : groups[g] # Nil => SameSlice(arrays, arrays', groups[g])
         /\ \A u \in Callers : view[u] # Nil => SameSlice(arrays, arrays', view[u])
         /\ local'[t] \in SliceOf(arrays')
         /\ \A u \in Callers \ {t} : local'[u] = local[u]
         /\ OneMore(arrays, arrays', local[t], local'[t], call[t].person)
         /\ \A g \in Groups \ {call[t].group} :
              groups[g] # Nil => groups[g].array # local'[t].array
         /\ \A u \in Callers :
              view[u] # Nil /\ view[u].array = local'[t].array => view[u].len <= local'[t].len
<1>1. PICK s \in SliceOf(arrays), p \in People, h \in Groups :
        /\ s = local[t] /\ p = call[t].person /\ h = call[t].group
        /\ groups[h] # Nil /\ s = groups[h] /\ FitsIn(arrays, s)
  BY Appending, Slices DEF AppendInPlace, AppendToCopy
<1>2. arrays \in Memory /\ Len(arrays) \in Nat /\ s.array \in 0 .. Len(arrays) /\ s.len \in Nat
  BY Slices DEF Memory, SliceOf
<1>3. local \in [Callers -> SliceOf(arrays)]
  BY DEF IInv, TypeOK, Slice, SliceOf
<1>4. CASE AppendInPlace(t)
  <2> DEFINE a == s.array
             n == s.len + 1
             new == [array |-> a, len |-> n]
  <2>1. arrays' = Written(arrays, a, n, p)
    BY <1>1, <1>4 DEF AppendInPlace, Written
  <2>2. local'[t] = new /\ \A u \in Callers \ {t} : local'[u] = local[u]
    BY <1>1, <1>3, <1>4 DEF AppendInPlace, SliceOf
  <2>3. s.len < IF s.array = 0 THEN 0 ELSE Len(arrays[s.array])
    BY <1>1, <1>4 DEF AppendInPlace, Room
  <2>4. /\ arrays' \in Memory /\ Len(arrays') = Len(arrays)
        /\ a \in 1 .. Len(arrays) /\ n \in 1 .. Len(arrays[a])
        /\ new \in SliceOf(arrays')
        /\ OneMore(arrays, arrays', s, new, p)
    BY <1>1, <1>2, <2>1, <2>3, InPlace
  <2>5. p \in Cell
    BY DEF Cell
  <2>6. ASSUME NEW x \in SliceOf(arrays), FitsIn(arrays, x), x.array = a => x.len < n
        PROVE  SameSlice(arrays, arrays', x)
    BY <1>2, <2>1, <2>4, <2>5, <2>6, WrittenKeeps
  <2>7. ASSUME NEW g \in Groups, groups[g] # Nil
        PROVE  SameSlice(arrays, arrays', groups[g]) /\ (g # h => groups[g].array # a)
    <3>1. groups[g].array = a => g = h
      BY <1>1, <1>2, <2>4, <2>7 DEF IInv, SharingInv
    <3> QED
      BY <1>1, <1>2, <2>6, <2>7, <3>1, Slices
  <2>8. ASSUME NEW u \in Callers, view[u] # Nil
        PROVE  SameSlice(arrays, arrays', view[u]) /\ (view[u].array = a => view[u].len <= n)
    <3>1. view[u].array = a => view[u].len <= s.len
      BY <1>1, <2>8 DEF IInv, SharingInv
    <3>2. view[u] \in SliceOf(arrays) /\ FitsIn(arrays, view[u]) /\ view[u].len \in Nat
      BY <2>8, Slices DEF SliceOf
    <3>3. view[u].array = a => view[u].len < n /\ view[u].len <= n
      BY <1>2, <3>1, <3>2
    <3> QED
      BY <2>6, <3>2, <3>3
  <2> QED
    BY <1>1, <1>2, <2>2, <2>4, <2>7, <2>8
<1>5. CASE AppendToCopy(t)
  <2> DEFINE row == Grown(s, p)
             new == [array |-> Len(arrays) + 1, len |-> s.len + 1]
  <2>1. arrays' = Append(arrays, row)
    BY <1>1, <1>5 DEF AppendToCopy
  <2>2. local'[t] = new /\ \A u \in Callers \ {t} : local'[u] = local[u]
    BY <1>1, <1>3, <1>5 DEF AppendToCopy
  <2>3. /\ row \in Seq(Cell)
        /\ Len(row) \in Nat /\ s.len + 1 <= Len(row)
        /\ \A n \in 1 .. s.len : row[n] = arrays[s.array][n]
        /\ row[s.len + 1] = p
    BY <1>1, <1>2, GrownHolds
  <2> HIDE DEF row
  <2>4. /\ arrays' \in Memory /\ Len(arrays') = Len(arrays) + 1
        /\ new \in SliceOf(arrays')
        /\ OneMore(arrays, arrays', s, new, p)
    BY <1>1, <1>2, <2>1, <2>3, ToCopy
  <2>5. ASSUME NEW x \in SliceOf(arrays), FitsIn(arrays, x)
        PROVE  SameSlice(arrays, arrays', x) /\ x.array # Len(arrays) + 1
    <3>1. SameSlice(arrays, arrays', x)
      BY <1>2, <2>1, <2>3, <2>5, AddedKeeps
    <3>2. x.array \in 0 .. Len(arrays)
      BY DEF SliceOf
    <3> QED
      BY <1>2, <3>1, <3>2
  <2> QED
    BY <1>1, <1>2, <2>2, <2>4, <2>5, Slices
<1> QED
  BY <1>4, <1>5

-----------------------------------------------------------------------------
(* The steps that concern slices. *)

\* Only four kinds of step concern the slices in the map and in the hands of readers.
LEMMA SliceCases ==
  ASSUME [Next]_vars
  PROVE  \/ UNCHANGED <<groups, arrays, view>>
         \/ \E g \in Groups : AddGroup(g)
         \/ \E t \in Callers : AppendInPlace(t) \/ AppendToCopy(t)
         \/ \E t \in Callers : Store(t)
         \/ \E t \in Callers : Copy(t)
<1>1. CASE UNCHANGED vars
  BY <1>1 DEF vars, store
<1>2. ASSUME NEW p \in Contacts, AddPerson(p)
      PROVE  UNCHANGED <<groups, arrays, view>>
  BY <1>2 DEF AddPerson
<1>3. ASSUME NEW t \in Callers, NEW g \in Groups, CallGet(t, g) \/ \E p \in People : Call(t, g, p)
      PROVE  UNCHANGED <<groups, arrays, view>>
  BY <1>3 DEF Call, CallGet, store
<1>4. ASSUME NEW t \in Callers,
             Lock(t) \/ Find(t) \/ FindNothing(t) \/ ScanHit(t) \/ ScanMiss(t) \/ RLock(t) \/ Unlock(t)
      PROVE  UNCHANGED <<groups, arrays, view>>
  BY <1>4 DEF Lock, Find, FindNothing, ScanHit, ScanMiss, RLock, Unlock, store
<1> QED
  BY <1>1, <1>2, <1>3, <1>4, StepCases DEF Proceeds

\* What a writer is about to put back.
LEMMA Storing ==
  ASSUME IInv, NEW t \in Callers, Store(t)
  PROVE  /\ call[t].group \in Groups /\ groups[call[t].group] # Nil
         /\ call[t].person \in People
         /\ \A g \in Groups \ {call[t].group} : groups'[g] = groups[g]
         /\ groups'[call[t].group] = local[t]
         /\ arrays' = arrays /\ view' = view /\ local' = local
         /\ local[t] \in SliceOf(arrays)
         /\ OneMore(arrays, arrays, groups[call[t].group], local[t], call[t].person)
         /\ \A g \in Groups \ {call[t].group} :
              groups[g] # Nil => groups[g].array # local[t].array
         /\ \A u \in Callers :
              view[u] # Nil /\ view[u].array = local[t].array => view[u].len <= local[t].len
<1>1. call[t].group \in Groups /\ groups[call[t].group] # Nil /\ call[t].person \in People
  BY Appending DEF Store
<1>2. local[t] \in SliceOf(arrays)
  BY Slices
<1>3. Extends(t)
  BY DEF Store, IInv, CopyInv
<1>4. OneMore(arrays, arrays, groups[call[t].group], local[t], call[t].person)
  BY <1>3 DEF Extends, Fits, Room, OneMore, FitsIn
<1>5. /\ \A g \in Groups \ {call[t].group} : groups'[g] = groups[g]
      /\ groups'[call[t].group] = local[t]
      /\ arrays' = arrays /\ view' = view /\ local' = local
  BY <1>1 DEF Store, IInv, TypeOK
<1> QED
  BY <1>1, <1>2, <1>3, <1>4, <1>5 DEF Extends

\* What a reader takes is a group.
LEMMA Copying ==
  ASSUME IInv, NEW t \in Callers, Copy(t)
  PROVE  /\ call[t].group \in Groups
         /\ view'[t] = groups[call[t].group]
         /\ \A u \in Callers \ {t} : view'[u] = view[u]
         /\ UNCHANGED <<groups, arrays, local, call>>
<1>1. call[t].group \in Groups
  BY DEF Copy, IInv, CallInv, TypeOK
<1> QED
  BY <1>1 DEF Copy, store, IInv, TypeOK

\* A slice is a value other than Nil.
LEMMA SliceNotNil == ASSUME NEW mem, NEW s \in SliceOf(mem), Len(mem) \in Nat PROVE s # Nil
<1>1. s \in [array : Nat, len : Nat]
  BY DEF SliceOf
<1> QED
  BY <1>1, NilAssumption

\* The slices in the map and in the hands of readers stay apart, and written.
LEMMA SharingStep == IInv /\ [Next]_vars => SharingInv'
<1> SUFFICES ASSUME IInv, [Next]_vars
             PROVE  SharingInv'
  OBVIOUS
<1>1. CASE UNCHANGED <<groups, arrays, view>>
  BY <1>1 DEF IInv, SharingInv, Fits, Room
<1>2. ASSUME NEW g \in Groups, AddGroup(g)
      PROVE  SharingInv'
  <2>1. /\ groups'[g] = Empty /\ \A h \in Groups \ {g} : groups'[h] = groups[h]
        /\ arrays' = arrays /\ view' = view
    BY <1>2 DEF AddGroup, IInv, TypeOK
  <2>2. \A h \in Groups : groups'[h] # Nil => FitsIn(arrays', groups'[h])
    BY <2>1, Slices DEF Empty, FitsIn
  <2>3. \A u \in Callers : view'[u] # Nil => FitsIn(arrays', view'[u])
    BY <2>1, Slices
  <2>4. \A h, k \in Groups :
          groups'[h] # Nil /\ groups'[k] # Nil /\ groups'[h].array = groups'[k].array
            => h = k \/ groups'[h].array = 0
    BY <2>1 DEF Empty, IInv, SharingInv
  <2>5. ASSUME NEW u \in Callers, NEW h \in Groups,
               view'[u] # Nil, groups'[h] # Nil, view'[u].array = groups'[h].array
        PROVE  view'[u].len <= groups'[h].len
    <3>1. CASE h = g
      BY <2>1, <2>3, <2>5, <3>1 DEF Empty, FitsIn
    <3>2. CASE h # g
      BY <2>1, <2>5, <3>2 DEF IInv, SharingInv
    <3> QED
      BY <3>1, <3>2
  <2> QED
    BY <2>2, <2>3, <2>4, <2>5 DEF SharingInv, Fits, Room, FitsIn
<1>3. ASSUME NEW t \in Callers, AppendInPlace(t) \/ AppendToCopy(t)
      PROVE  SharingInv'
  <2>1. groups' = groups /\ view' = view
    BY <1>3 DEF AppendInPlace, AppendToCopy, store
  <2>2. arrays \in Memory /\ arrays' \in Memory /\ Len(arrays) <= Len(arrays')
    BY <1>3, AppendFacts, Slices
  <2>3. \A g \in Groups : groups[g] # Nil => FitsIn(arrays', groups[g])
    BY <1>3, <2>2, AppendFacts, Slices, SameSliceFits
  <2>4. \A u \in Callers : view[u] # Nil => FitsIn(arrays', view[u])
    BY <1>3, <2>2, AppendFacts, Slices, SameSliceFits
  <2> QED
    BY <2>1, <2>3, <2>4 DEF IInv, SharingInv, Fits, Room, FitsIn
<1>4. ASSUME NEW t \in Callers, Store(t)
      PROVE  SharingInv'
  <2>1. PICK h \in Groups, s \in SliceOf(arrays) :
          /\ h = call[t].group /\ s = local[t]
          /\ groups'[h] = s /\ \A g \in Groups \ {h} : groups'[g] = groups[g]
          /\ arrays' = arrays /\ view' = view
          /\ FitsIn(arrays, s)
          /\ \A g \in Groups \ {h} : groups[g] # Nil => groups[g].array # s.array
          /\ \A u \in Callers : view[u] # Nil /\ view[u].array = s.array => view[u].len <= s.len
    BY <1>4, Storing DEF OneMore
  <2>2. \A g \in Groups : groups'[g] # Nil => FitsIn(arrays', groups'[g])
    BY <2>1, Slices
  <2>3. \A u \in Callers : view'[u] # Nil => FitsIn(arrays', view'[u])
    BY <2>1, Slices
  <2>4. ASSUME NEW g \in Groups, NEW k \in Groups,
               groups'[g] # Nil, groups'[k] # Nil, groups'[g].array = groups'[k].array
        PROVE  g = k \/ groups'[g].array = 0
    <3>1. CASE g = h \/ k = h
      BY <2>1, <2>4, <3>1
    <3>2. CASE g # h /\ k # h
      BY <2>1, <2>4, <3>2 DEF IInv, SharingInv
    <3> QED
      BY <3>1, <3>2
  <2>5. \A u \in Callers, g \in Groups :
          view'[u] # Nil /\ groups'[g] # Nil /\ view'[u].array = groups'[g].array
            => view'[u].len <= groups'[g].len
    BY <2>1 DEF IInv, SharingInv
  <2> QED
    BY <2>2, <2>3, <2>4, <2>5 DEF SharingInv, Fits, Room, FitsIn
<1>5. ASSUME NEW t \in Callers, Copy(t)
      PROVE  SharingInv'
  <2>1. PICK h \in Groups :
          /\ view'[t] = groups[h] /\ \A u \in Callers \ {t} : view'[u] = view[u]
          /\ groups' = groups /\ arrays' = arrays
    BY <1>5, Copying
  <2>2. \A g \in Groups : groups'[g] # Nil => FitsIn(arrays', groups'[g])
    BY <2>1, Slices
  <2>3. \A u \in Callers : view'[u] # Nil => FitsIn(arrays', view'[u])
    BY <2>1, Slices
  <2>4. ASSUME NEW u \in Callers, NEW g \in Groups,
               view'[u] # Nil, groups'[g] # Nil, view'[u].array = groups'[g].array
        PROVE  view'[u].len <= groups'[g].len
    <3>1. CASE u # t
      BY <2>1, <2>4, <3>1 DEF IInv, SharingInv
    <3>2. CASE u = t
      <4>1. groups[h] # Nil /\ groups[g] # Nil /\ groups[h].array = groups[g].array
        BY <2>1, <2>4, <3>2
      <4>2. h = g \/ groups[h].array = 0
        BY <4>1 DEF IInv, SharingInv
      <4>3. /\ groups[h].len \in Nat /\ FitsIn(arrays, groups[h])
            /\ groups[g].len \in Nat
        BY <4>1, Slices DEF SliceOf
      <4>4. groups[h].len <= groups[g].len
        BY <4>2, <4>3 DEF FitsIn
      <4> QED
        BY <2>1, <3>2, <4>4
    <3> QED
      BY <3>1, <3>2
  <2>5. \A g, k \in Groups :
          groups'[g] # Nil /\ groups'[k] # Nil /\ groups'[g].array = groups'[k].array
            => g = k \/ groups'[g].array = 0
    BY <2>1 DEF IInv, SharingInv
  <2> QED
    BY <2>2, <2>3, <2>4, <2>5 DEF SharingInv, Fits, Room, FitsIn
<1> QED
  BY <1>1, <1>2, <1>3, <1>4, <1>5, SliceCases

\* Every variable keeps its type.
LEMMA TypeStep == IInv /\ [Next]_vars => TypeOK'
<1> SUFFICES ASSUME IInv, [Next]_vars
             PROVE  TypeOK'
  OBVIOUS
<1> DEFINE Keeps ==
             /\ people' \subseteq People
             /\ arrays' \in Memory
             /\ groups' \in [Groups -> SliceOf(arrays') \cup {Nil}]
             /\ local' \in [Callers -> SliceOf(arrays')]
             /\ view' \in [Callers -> SliceOf(arrays') \cup {Nil}]
<1>1. Typed'
  <2>1. Typed
    BY DEF IInv, TypeOK, Typed
  <2> QED
    BY <2>1, TypedStep
<1>2. /\ people \subseteq People
      /\ arrays \in Memory /\ Len(arrays) \in Nat
      /\ groups \in [Groups -> SliceOf(arrays) \cup {Nil}]
      /\ local \in [Callers -> SliceOf(arrays)]
      /\ view \in [Callers -> SliceOf(arrays) \cup {Nil}]
      /\ Empty \in SliceOf(arrays)
  <2>1. Slice = SliceOf(arrays)
    BY DEF Slice, SliceOf
  <2>2. arrays \in Memory /\ Len(arrays) \in Nat
    BY Slices DEF Memory
  <2>3. Empty \in SliceOf(arrays)
    BY <2>2 DEF Empty, SliceOf
  <2> QED
    BY <2>1, <2>2, <2>3 DEF IInv, TypeOK
<1>3. ASSUME UNCHANGED vars
      PROVE  Keeps
  BY <1>2, <1>3 DEF vars, store
<1>4. ASSUME NEW p \in Contacts, AddPerson(p)
      PROVE  Keeps
  BY <1>2, <1>4, PeopleStoreAssumption DEF AddPerson
<1>5. ASSUME NEW g \in Groups, AddGroup(g)
      PROVE  Keeps
  BY <1>2, <1>5 DEF AddGroup
<1>6. ASSUME NEW t \in Callers, NEW g \in Groups, CallGet(t, g) \/ \E p \in People : Call(t, g, p)
      PROVE  Keeps
  BY <1>2, <1>6 DEF Call, CallGet, store
<1>7. ASSUME NEW t \in Callers, Proceeds(t)
      PROVE  Keeps
  <2>1. CASE Lock(t) \/ FindNothing(t) \/ ScanHit(t) \/ ScanMiss(t) \/ RLock(t)
    BY <1>2, <2>1 DEF Lock, FindNothing, ScanHit, ScanMiss, RLock, store
  <2>2. CASE Find(t)
    <3>1. call[t].group \in Groups
      BY <2>2 DEF Find, IInv, CallInv, Requests
    <3> QED
      BY <1>2, <2>2, <3>1 DEF Find, store
  <2>3. CASE AppendInPlace(t) \/ AppendToCopy(t)
    <3>1. arrays' \in Memory /\ Len(arrays) <= Len(arrays') /\ Len(arrays') \in Nat
      BY <2>3, AppendFacts DEF Memory
    <3>2. SliceOf(arrays) \subseteq SliceOf(arrays')
      BY <1>2, <3>1 DEF SliceOf
    <3>3. \A u \in Callers : local'[u] \in SliceOf(arrays')
      BY <1>2, <2>3, <3>2, AppendFacts
    <3>4. local' = [u \in Callers |-> local'[u]]
      BY <1>2, <2>3 DEF AppendInPlace, AppendToCopy
    <3>5. local' \in [Callers -> SliceOf(arrays')]
      BY <3>3, <3>4
    <3>6. people' = people /\ groups' = groups /\ view' = view
      BY <2>3 DEF AppendInPlace, AppendToCopy, store
    <3> QED
      BY <1>2, <3>1, <3>2, <3>5, <3>6
  <2>4. CASE Store(t)
    BY <1>2, <2>4 DEF Store
  <2>5. CASE Copy(t)
    <3>1. call[t].group \in Groups
      BY <2>5, Copying
    <3> QED
      BY <1>2, <2>5, <3>1 DEF Copy, store
  <2>6. CASE Unlock(t)
    BY <1>2, <2>6 DEF Unlock, store
  <2> QED
    BY <1>7, <2>1, <2>2, <2>3, <2>4, <2>5, <2>6 DEF Proceeds
<1>8. Keeps
  BY <1>2, <1>3, <1>4, <1>5, <1>6, <1>7, StepCases
<1> QED
  BY <1>1, <1>8 DEF Typed, TypeOK, Slice, SliceOf, Memory, Cell

\* Members of a slice that is one longer are distinct if the new one is new.
LEMMA OneMoreDistinct ==
  ASSUME NEW mem, NEW s, s.len \in Nat, NEW t, NEW p, OneMore(mem, mem, s, t, p),
         p \notin CellsOf(mem, s),
         \A m, n \in 1 .. s.len : mem[s.array][m] = mem[s.array][n] => m = n
  PROVE  \A m, n \in 1 .. t.len : mem[t.array][m] = mem[t.array][n] => m = n
<1> SUFFICES ASSUME NEW m \in 1 .. t.len, NEW n \in 1 .. t.len,
                    mem[t.array][m] = mem[t.array][n]
             PROVE  m = n
  OBVIOUS
<1>1. \A k \in 1 .. t.len : k \in 1 .. s.len \/ k = t.len
  BY DEF OneMore
<1>2. \A k \in 1 .. s.len : mem[t.array][k] = mem[s.array][k] /\ mem[t.array][k] # p
  BY DEF OneMore, CellsOf
<1>3. mem[t.array][t.len] = p
  BY DEF OneMore
<1> QED
  BY <1>1, <1>2, <1>3

\* A group comes to list nobody twice.
LEMMA DistinctStep == IInv /\ [Next]_vars => MembersAreDistinct'
<1> SUFFICES ASSUME IInv, [Next]_vars
             PROVE  MembersAreDistinct'
  OBVIOUS
<1> DEFINE Distinct(mem, s) ==
             \A m, n \in 1 .. s.len : mem[s.array][m] = mem[s.array][n] => m = n
<1>1. \A g \in Groups : groups[g] # Nil => Distinct(arrays, groups[g])
  BY DEF IInv, MembersAreDistinct, Elements
<1>2. ASSUME \A g \in Groups : groups'[g] # Nil => Distinct(arrays', groups'[g])
      PROVE  MembersAreDistinct'
  BY <1>2 DEF MembersAreDistinct, Elements
<1>3. CASE UNCHANGED <<groups, arrays, view>> \/ \E t \in Callers : Copy(t)
  BY <1>1, <1>2, <1>3, Copying
<1>4. ASSUME NEW g \in Groups, AddGroup(g)
      PROVE  MembersAreDistinct'
  <2>1. /\ groups'[g] = Empty /\ \A h \in Groups \ {g} : groups'[h] = groups[h]
        /\ arrays' = arrays
    BY <1>4 DEF AddGroup, IInv, TypeOK
  <2>2. Distinct(arrays, Empty)
    BY DEF Empty
  <2> QED
    BY <1>1, <1>2, <2>1, <2>2
<1>5. ASSUME NEW t \in Callers, AppendInPlace(t) \/ AppendToCopy(t)
      PROVE  MembersAreDistinct'
  <2>1. groups' = groups
    BY <1>5 DEF AppendInPlace, AppendToCopy, store
  <2>2. \A g \in Groups : groups[g] # Nil => SameSlice(arrays, arrays', groups[g])
    BY <1>5, AppendFacts
  <2>3. \A g \in Groups : groups[g] # Nil => Distinct(arrays', groups[g])
    BY <1>1, <2>2 DEF SameSlice
  <2> QED
    BY <1>2, <2>1, <2>3
<1>6. ASSUME NEW t \in Callers, Store(t)
      PROVE  MembersAreDistinct'
  <2>1. PICK h \in Groups :
          /\ h = call[t].group /\ groups[h] # Nil
          /\ groups'[h] = local[t] /\ \A g \in Groups \ {h} : groups'[g] = groups[g]
          /\ arrays' = arrays
          /\ OneMore(arrays, arrays, groups[h], local[t], call[t].person)
    BY <1>6, Storing
  <2>2. call[t].person \notin CellsOf(arrays, groups[h])
    BY <1>6, <2>1, MembersAreCells DEF Store, IInv, CopyInv
  <2>3. groups[h].len \in Nat
    BY <2>1, Slices DEF SliceOf
  <2>4. Distinct(arrays, local[t])
    BY <1>1, <2>1, <2>2, <2>3, OneMoreDistinct
  <2> QED
    BY <1>1, <1>2, <2>1, <2>4
<1> QED
  BY <1>3, <1>4, <1>5, <1>6, SliceCases

\* What CopyInv says of a goroutine: where it is, its call, and its copy.
CopyOf(mem, held, read, at, c, s) ==
  /\ at \in {"scan", "append", "store"} => held[c.group] # Nil
  /\ at \in {"scan", "append"} => s = held[c.group]
  /\ at \in {"append", "store"} => c.person \notin CellsOf(mem, held[c.group])
  /\ at = "store" =>
       /\ OneMore(mem, mem, held[c.group], s, c.person)
       /\ \A h \in Groups \ {c.group} : held[h] # Nil => held[h].array # s.array
       /\ \A u \in Callers : read[u] # Nil /\ read[u].array = s.array => read[u].len <= s.len

\* CopyInv before a step.
LEMMA CopyNow ==
  ASSUME CopyInv
  PROVE  \A u \in Callers : CopyOf(arrays, groups, view, pc[u], call[u], local[u])
<1> SUFFICES ASSUME NEW u \in Callers
             PROVE  CopyOf(arrays, groups, view, pc[u], call[u], local[u])
  OBVIOUS
<1>1. /\ pc[u] \in {"scan", "append", "store"} => groups[call[u].group] # Nil
      /\ pc[u] \in {"scan", "append"} => local[u] = groups[call[u].group]
  BY DEF CopyInv
<1>2. pc[u] \in {"append", "store"} => call[u].person \notin CellsOf(arrays, groups[call[u].group])
  BY <1>1, MembersAreCells DEF CopyInv
<1>3. pc[u] = "store" =>
        /\ OneMore(arrays, arrays, groups[call[u].group], local[u], call[u].person)
        /\ \A h \in Groups \ {call[u].group} : groups[h] # Nil => groups[h].array # local[u].array
        /\ \A v \in Callers :
             view[v] # Nil /\ view[v].array = local[u].array => view[v].len <= local[u].len
  BY DEF CopyInv, Extends, Fits, Room, OneMore, FitsIn
<1> QED
  BY <1>1, <1>2, <1>3 DEF CopyOf

\* CopyInv after a step.
LEMMA CopyThen ==
  ASSUME \A u \in Callers : CopyOf(arrays', groups', view', pc'[u], call'[u], local'[u])
  PROVE  CopyInv'
<1> SUFFICES ASSUME NEW u \in Callers
             PROVE  /\ pc'[u] \in {"scan", "append", "store"} => groups'[call'[u].group] # Nil
                    /\ pc'[u] \in {"scan", "append"} => local'[u] = groups'[call'[u].group]
                    /\ pc'[u] \in {"append", "store"} =>
                         call'[u].person \notin MembersOf(groups[call[u].group])'
                    /\ pc'[u] = "store" => Extends(u)'
  BY DEF CopyInv
<1>1. CopyOf(arrays', groups', view', pc'[u], call'[u], local'[u])
  OBVIOUS
<1>2. /\ pc'[u] \in {"scan", "append", "store"} => groups'[call'[u].group] # Nil
      /\ pc'[u] \in {"scan", "append"} => local'[u] = groups'[call'[u].group]
  BY <1>1 DEF CopyOf
<1>3. ASSUME groups'[call'[u].group] # Nil
      PROVE  MembersOf(groups[call[u].group])' = CellsOf(arrays', groups'[call'[u].group])
  BY <1>3 DEF MembersOf, Elements, Range, CellsOf
<1>4. pc'[u] \in {"append", "store"} => call'[u].person \notin MembersOf(groups[call[u].group])'
  BY <1>1, <1>2, <1>3 DEF CopyOf
<1>5. pc'[u] = "store" => Extends(u)'
  BY <1>1 DEF CopyOf, Extends, Fits, Room, OneMore, FitsIn
<1> QED
  BY <1>2, <1>4, <1>5

\* A goroutine that is not at work on a copy.
LEMMA NoCopy ==
  ASSUME NEW mem, NEW held, NEW read, NEW at, NEW c, NEW s, at \notin {"scan", "append", "store"}
  PROVE  CopyOf(mem, held, read, at, c, s)
BY DEF CopyOf

\* A writer's copy is that of its group, whatever the others do.
LEMMA CopyStep == IInv /\ [Next]_vars => CopyInv'
<1> SUFFICES ASSUME IInv, [Next]_vars
             PROVE  CopyInv'
  OBVIOUS
<1>1. \A u \in Callers : CopyOf(arrays, groups, view, pc[u], call[u], local[u])
  BY CopyNow DEF IInv
<1>2. /\ pc = [u \in Callers |-> pc[u]] /\ call = [u \in Callers |-> call[u]]
      /\ local = [u \in Callers |-> local[u]] /\ view = [u \in Callers |-> view[u]]
  BY DEF IInv, TypeOK
<1>3. ASSUME UNCHANGED <<groups, arrays, view, pc, call, local>>
      PROVE  CopyInv'
  BY <1>1, <1>3, CopyThen
<1>4. ASSUME NEW t \in Callers, UNCHANGED <<groups, arrays, view>>,
             \A u \in Callers \ {t} : pc'[u] = pc[u] /\ call'[u] = call[u] /\ local'[u] = local[u],
             CopyOf(arrays, groups, view, pc'[t], call'[t], local'[t])
      PROVE  CopyInv'
  BY <1>1, <1>4, CopyThen
<1>5. ASSUME NEW p \in Contacts, AddPerson(p)
      PROVE  CopyInv'
  BY <1>3, <1>5 DEF AddPerson
<1>6. ASSUME NEW g \in Groups, AddGroup(g)
      PROVE  CopyInv'
  <2>1. \A u \in Callers : pc'[u] \notin {"scan", "append", "store"}
    BY <1>6, CallerNotNil DEF AddGroup, Unlocked, IInv, HoldersRelease
  <2> QED
    BY <2>1, NoCopy, CopyThen
<1>7. ASSUME NEW t \in Callers, NEW g \in Groups, CallGet(t, g) \/ \E p \in People : Call(t, g, p)
      PROVE  CopyInv'
  <2>1. pc'[t] \in {"lock", "rlock"}
    BY <1>2, <1>7 DEF Call, CallGet
  <2>2. /\ UNCHANGED <<groups, arrays, view>>
        /\ \A u \in Callers \ {t} : pc'[u] = pc[u] /\ call'[u] = call[u] /\ local'[u] = local[u]
    BY <1>2, <1>7 DEF Call, CallGet, store
  <2> QED
    BY <1>4, <2>1, <2>2, NoCopy
<1>8. ASSUME NEW t \in Callers,
             Lock(t) \/ FindNothing(t) \/ ScanHit(t) \/ RLock(t) \/ Unlock(t)
      PROVE  CopyInv'
  <2>1. pc'[t] \in {"find", "unlock", "copy", "idle"}
    BY <1>2, <1>8 DEF Lock, FindNothing, ScanHit, RLock, Unlock
  <2>2. /\ UNCHANGED <<groups, arrays, view>>
        /\ \A u \in Callers \ {t} : pc'[u] = pc[u] /\ call'[u] = call[u] /\ local'[u] = local[u]
    BY <1>2, <1>8 DEF Lock, FindNothing, ScanHit, RLock, Unlock, store
  <2> QED
    BY <1>4, <2>1, <2>2, NoCopy
<1>9. ASSUME NEW t \in Callers, Find(t)
      PROVE  CopyInv'
  <2>1. pc'[t] = "scan" /\ call'[t] = call[t] /\ local'[t] = groups[call[t].group]
    BY <1>2, <1>9 DEF Find
  <2>2. /\ UNCHANGED <<groups, arrays, view>>
        /\ \A u \in Callers \ {t} : pc'[u] = pc[u] /\ call'[u] = call[u] /\ local'[u] = local[u]
    BY <1>2, <1>9 DEF Find, store
  <2>3. CopyOf(arrays, groups, view, pc'[t], call'[t], local'[t])
    BY <1>9, <2>1 DEF Find, CopyOf
  <2> QED
    BY <1>4, <2>2, <2>3
<1>10. ASSUME NEW t \in Callers, ScanMiss(t)
       PROVE  CopyInv'
  <2>1. pc'[t] = "append" /\ call'[t] = call[t] /\ local'[t] = local[t]
    BY <1>2, <1>10 DEF ScanMiss
  <2>2. /\ UNCHANGED <<groups, arrays, view>>
        /\ \A u \in Callers \ {t} : pc'[u] = pc[u] /\ call'[u] = call[u] /\ local'[u] = local[u]
    BY <1>2, <1>10 DEF ScanMiss, store
  <2>3. groups[call[t].group] # Nil /\ local[t] = groups[call[t].group]
    BY <1>1, <1>10 DEF ScanMiss, CopyOf
  <2>4. call[t].person \notin CellsOf(arrays, groups[call[t].group])
    BY <1>10, <2>3, MembersAreCells DEF ScanMiss, IsNew
  <2>5. CopyOf(arrays, groups, view, pc'[t], call'[t], local'[t])
    BY <2>1, <2>3, <2>4 DEF CopyOf
  <2> QED
    BY <1>4, <2>2, <2>5
<1>11. ASSUME NEW t \in Callers, AppendInPlace(t) \/ AppendToCopy(t)
       PROVE  CopyInv'
  <2>1. pc[t] = "append"
    BY <1>11 DEF AppendInPlace, AppendToCopy
  <2>2. \A u \in Callers \ {t} : pc'[u] \notin {"scan", "append", "store"}
    BY <1>2, <1>11, <2>1, Appending DEF AppendInPlace, AppendToCopy
  <2>3. pc'[t] = "store" /\ call' = call /\ groups' = groups /\ view' = view
    BY <1>2, <1>11 DEF AppendInPlace, AppendToCopy, store
  <2>4. PICK h \in Groups, p \in People, s \in SliceOf(arrays) :
          /\ h = call[t].group /\ p = call[t].person
          /\ s = groups[h] /\ s # Nil /\ s = local[t] /\ FitsIn(arrays, s)
    BY <2>1, Appending, Slices
  <2>5. SameSlice(arrays, arrays', s) /\ OneMore(arrays, arrays', s, local'[t], p)
    BY <1>11, <2>4, AppendFacts
  <2>6. OneMore(arrays', arrays', s, local'[t], p)
    BY <2>5 DEF SameSlice, OneMore
  <2>7. p \notin CellsOf(arrays', s)
    <3>1. p \notin CellsOf(arrays, s)
      BY <1>1, <2>1, <2>4 DEF CopyOf
    <3> QED
      BY <2>5, <3>1 DEF SameSlice, CellsOf
  <2>8. CopyOf(arrays', groups', view', pc'[t], call'[t], local'[t])
    BY <1>11, <2>3, <2>4, <2>6, <2>7, AppendFacts DEF CopyOf
  <2> QED
    BY <2>2, <2>8, NoCopy, CopyThen
<1>12. ASSUME NEW t \in Callers, Store(t)
       PROVE  CopyInv'
  <2>1. \A u \in Callers \ {t} : pc'[u] \notin {"scan", "append", "store"}
    BY <1>2, <1>12, Appending DEF Store
  <2>2. pc'[t] = "unlock"
    BY <1>2, <1>12 DEF Store
  <2> QED
    BY <2>1, <2>2, NoCopy, CopyThen
<1>13. ASSUME NEW t \in Callers, Copy(t)
       PROVE  CopyInv'
  <2>1. \A u \in Callers : pc'[u] \notin {"scan", "append", "store"}
    BY <1>2, <1>13, CallerNotNil DEF Copy, IInv, HoldersRelease
  <2> QED
    BY <2>1, NoCopy, CopyThen
<1>14. CASE UNCHANGED vars
  BY <1>3, <1>14 DEF vars, store
<1> QED
  BY <1>5, <1>6, <1>7, <1>8, <1>9, <1>10, <1>11, <1>12, <1>13, <1>14, StepCases DEF Proceeds

-----------------------------------------------------------------------------
(* The theorems. *)

\* The store starts empty, with nobody in it.
LEMMA InitInv == Init => IInv
<1> SUFFICES ASSUME Init
             PROVE  IInv
  OBVIOUS
<1>1. TypeOK
  <2>1. arrays \in Seq(Seq(People \cup {Nil})) /\ Len(arrays) = 0
    BY DEF Init
  <2>2. Empty \in Slice
    BY <2>1 DEF Empty, Slice
  <2> QED
    BY <2>1, <2>2 DEF Init, TypeOK
<1>2. HoldersRelease
  BY CallerNotNil DEF Init, HoldersRelease
<1>3. CallInv
  BY DEF Init, CallInv, Requests
<1>4. SharingInv /\ CopyInv /\ MembersAreDistinct
  BY DEF Init, SharingInv, CopyInv, MembersAreDistinct
<1> QED
  BY <1>1, <1>2, <1>3, <1>4 DEF IInv

\* The inductive invariant holds for any number of goroutines, groups and members:
\* between any two statements of AddMemberToGroup and GetGroup, the slices in the map,
\* in the writer's copy and in the readers' hands are what they should be.
THEOREM Invariance == Spec => []IInv
<1>1. IInv /\ [Next]_vars => IInv'
  <2> SUFFICES ASSUME IInv, [Next]_vars
               PROVE  IInv'
    OBVIOUS
  <2>1. Typed
    BY DEF IInv, TypeOK, Typed
  <2>2. HoldersRelease' /\ CallInv'
    BY <2>1, HoldersStep, CallStep DEF IInv
  <2>3. SharingInv' /\ CopyInv' /\ MembersAreDistinct'
    BY SharingStep, CopyStep, DistinctStep
  <2>4. TypeOK'
    BY TypeStep
  <2> QED
    BY <2>2, <2>3, <2>4 DEF IInv
<1> QED
  BY <1>1, InitInv, PTL DEF Spec

\* Every variable keeps its type: a call is about a group and a person, and a slice is
\* in an array that there is.
THEOREM TypeCorrect == Spec => []TypeOK
<1>1. IInv => TypeOK
  BY DEF IInv
<1> QED
  BY <1>1, Invariance, PTL

\* A group lists each of its members once, however often and by however many
\* goroutines it is added.
THEOREM Distinctness == Spec => []MembersAreDistinct
<1>1. IInv => MembersAreDistinct
  BY DEF IInv
<1> QED
  BY <1>1, Invariance, PTL

\* No path through the methods keeps the lock or releases it twice.
THEOREM LockDiscipline == Spec => []HoldersRelease
<1>1. IInv => HoldersRelease
  BY DEF IInv
<1> QED
  BY <1>1, Invariance, PTL

-----------------------------------------------------------------------------
(* Refinement. *)

\* The abstract values of groups, of pc and call, and of view.
Enrolled  == [g \in Groups |-> MembersOf(groups[g])]
Requested == [t \in Callers |-> IF Requests(t) THEN call[t] ELSE Nil]
Seen      == [t \in Callers |-> MembersOf(view[t])]

\* They are what the cells hold, before a step and after it.
LEMMA Abstracted ==
  /\ Enrolled = [g \in Groups |-> IF groups[g] = Nil THEN Nil ELSE CellsOf(arrays, groups[g])]
  /\ Seen = [t \in Callers |-> IF view[t] = Nil THEN Nil ELSE CellsOf(arrays, view[t])]
  /\ Enrolled' =
       [g \in Groups |-> IF groups'[g] = Nil THEN Nil ELSE CellsOf(arrays', groups'[g])]
  /\ Seen' = [t \in Callers |-> IF view'[t] = Nil THEN Nil ELSE CellsOf(arrays', view'[t])]
<1>1. \A g \in Groups :
        MembersOf(groups[g]) = IF groups[g] = Nil THEN Nil ELSE CellsOf(arrays, groups[g])
  BY MembersAreCells DEF MembersOf
<1>2. \A t \in Callers :
        MembersOf(view[t]) = IF view[t] = Nil THEN Nil ELSE CellsOf(arrays, view[t])
  BY MembersAreCells DEF MembersOf
<1>3. ASSUME NEW g \in Groups
      PROVE  MembersOf(groups[g])' =
               IF groups'[g] = Nil THEN Nil ELSE CellsOf(arrays', groups'[g])
  BY DEF MembersOf, Elements, Range, CellsOf
<1>4. ASSUME NEW t \in Callers
      PROVE  MembersOf(view[t])' =
               IF view'[t] = Nil THEN Nil ELSE CellsOf(arrays', view'[t])
  BY DEF MembersOf, Elements, Range, CellsOf
<1> QED
  BY <1>1, <1>2, <1>3, <1>4 DEF Enrolled, Seen

\* Where no slice changes, no member does.
LEMMA SlicesKept ==
  ASSUME UNCHANGED <<groups, arrays, view>>
  PROVE  UNCHANGED <<Enrolled, Seen>>
BY Abstracted

\* A group of the map has a set of members, and an unknown one none.
LEMMA EnrolledSet ==
  ASSUME IInv, NEW g \in Groups
  PROVE  Enrolled[g] = Nil <=> groups[g] = Nil
<1>1. groups[g] # Nil => CellsOf(arrays, groups[g]) \in SUBSET People
  BY Slices DEF CellsOf, FitsIn
<1> QED
  BY <1>1, Abstracted, NilAssumption

\* Where append leaves slices as they are, it adds no member to them.
LEMMA AppendHides ==
  ASSUME IInv, NEW t \in Callers, AppendInPlace(t) \/ AppendToCopy(t)
  PROVE  UNCHANGED <<Enrolled, Seen>>
<1>1. groups' = groups /\ view' = view
  BY DEF AppendInPlace, AppendToCopy, store
<1>2. arrays \in Memory /\ arrays' \in Memory /\ Len(arrays) <= Len(arrays')
  BY AppendFacts, Slices
<1>3. ASSUME NEW g \in Groups, groups[g] # Nil
      PROVE  CellsOf(arrays', groups[g]) = CellsOf(arrays, groups[g])
  BY <1>2, <1>3, AppendFacts, Slices, SameSliceFits
<1>4. ASSUME NEW u \in Callers, view[u] # Nil
      PROVE  CellsOf(arrays', view[u]) = CellsOf(arrays, view[u])
  BY <1>2, <1>4, AppendFacts, Slices, SameSliceFits
<1> QED
  BY <1>1, <1>3, <1>4, Abstracted

\* What is put back has the members it had, and the new one.
LEMMA StoreEnrols ==
  ASSUME IInv, NEW t \in Callers, Store(t)
  PROVE  /\ Enrolled' = [Enrolled EXCEPT ![call[t].group] = @ \cup {call[t].person}]
         /\ Seen' = Seen
<1>1. PICK h \in Groups, p \in People :
        /\ h = call[t].group /\ p = call[t].person /\ groups[h] # Nil
        /\ groups'[h] = local[t] /\ \A g \in Groups \ {h} : groups'[g] = groups[g]
        /\ arrays' = arrays /\ view' = view
        /\ OneMore(arrays, arrays, groups[h], local[t], p)
        /\ local[t] \in SliceOf(arrays)
  BY Storing
<1>2. local[t] # Nil
  BY <1>1, Slices, SliceNotNil DEF Memory
<1>3. groups[h].len \in Nat
  BY <1>1, Slices DEF SliceOf
<1>4. CellsOf(arrays, local[t]) = CellsOf(arrays, groups[h]) \cup {p}
  BY <1>1, <1>3, OneMoreCell
<1>5. Enrolled'[h] = Enrolled[h] \cup {p}
  BY <1>1, <1>2, <1>4, Abstracted
<1>6. \A g \in Groups \ {h} : Enrolled'[g] = Enrolled[g]
  BY <1>1, Abstracted
<1>7. Enrolled' = [g \in Groups |-> Enrolled'[g]] /\ Enrolled = [g \in Groups |-> Enrolled[g]]
  BY Abstracted
<1>8. Enrolled' = [Enrolled EXCEPT ![h] = @ \cup {p}]
  BY <1>5, <1>6, <1>7
<1> QED
  BY <1>1, <1>8, Abstracted

\* A call under way is a request.
LEMMA UnderWay ==
  ASSUME IInv, NEW t \in Callers, Requests(t)
  PROVE  /\ call[t].group \in Groups
         /\ Requested[t] = call[t] /\ Requested[t] # Nil
<1>1. call[t] \in [group : Groups, person : People]
  BY DEF IInv, CallInv
<1> QED
  BY <1>1, NilAssumption DEF Requested

\* A call that is over is none.
LEMMA Ended ==
  ASSUME IInv, NEW t \in Callers, pc' = [pc EXCEPT ![t] = "unlock"], UNCHANGED call
  PROVE  Requested' = [Requested EXCEPT ![t] = Nil]
BY DEF IInv, TypeOK, Requested, Requests

\* The store starts as it should.
LEMMA RefinesInit == Init => Promised!AbsInit
<1> SUFFICES ASSUME Init
             PROVE  Promised!AbsInit
  OBVIOUS
<1>1. Enrolled = [g \in Groups |-> Nil] /\ Seen = [t \in Callers |-> Nil]
  BY Abstracted DEF Init
<1>2. Requested = [t \in Callers |-> Nil]
  BY DEF Init, Requested, Requests
<1> QED
  BY <1>1, <1>2 DEF Init, Enrolled, Requested, Seen, Promised!AbsInit

\* The abstract store sees its own steps and no others.
LEMMA RefinesStep == IInv /\ [Next]_vars => [Promised!AbsNext]_(Promised!absVars)
<1> SUFFICES ASSUME IInv, [Next]_vars
             PROVE  Promised!AbsNext \/ UNCHANGED Promised!absVars
  OBVIOUS
<1> DEFINE Same == UNCHANGED <<people, Enrolled, Requested, answer, Seen>>
<1>0. ASSUME Same
      PROVE  UNCHANGED Promised!absVars
  BY <1>0 DEF Promised!absVars, Enrolled, Requested, Seen
<1>1. ASSUME UNCHANGED vars
      PROVE  Same
  BY <1>1, SlicesKept DEF vars, store, Requested, Requests
<1>2. ASSUME NEW p \in Contacts, AddPerson(p)
      PROVE  Promised!AddPerson(p)
  <2>1. UNCHANGED <<Enrolled, Requested, answer, Seen>>
    BY <1>2, SlicesKept DEF AddPerson, Requested, Requests
  <2> QED
    BY <1>2, <2>1 DEF AddPerson, Promised!AddPerson, Enrolled, Requested, Seen
<1>3. ASSUME NEW g \in Groups, AddGroup(g)
      PROVE  Promised!AddGroup(g)
  <2>1. /\ groups[g] = Nil /\ groups'[g] = Empty
        /\ \A h \in Groups \ {g} : groups'[h] = groups[h]
        /\ arrays' = arrays /\ view' = view
    BY <1>3 DEF AddGroup, IInv, TypeOK
  <2>2. Empty # Nil /\ CellsOf(arrays, Empty) = {}
    BY NilAssumption DEF Empty, CellsOf
  <2>3. Enrolled[g] = Nil /\ Enrolled' = [Enrolled EXCEPT ![g] = {}]
    <3>1. Enrolled[g] = Nil /\ Enrolled'[g] = {}
      BY <2>1, <2>2, Abstracted
    <3>2. \A h \in Groups \ {g} : Enrolled'[h] = Enrolled[h]
      BY <2>1, Abstracted
    <3>3. Enrolled' = [h \in Groups |-> Enrolled'[h]] /\ Enrolled = [h \in Groups |-> Enrolled[h]]
      BY Abstracted
    <3> QED
      BY <3>1, <3>2, <3>3
  <2>4. UNCHANGED <<people, Requested, answer, Seen>>
    BY <1>3, <2>1, Abstracted DEF AddGroup, Requested, Requests
  <2> QED
    BY <2>3, <2>4 DEF Promised!AddGroup, Enrolled, Requested, Seen
<1>4. ASSUME NEW t \in Callers, NEW g \in Groups, NEW p \in People, Call(t, g, p)
      PROVE  Promised!Call(t, g, p)
  <2>1. Requested[t] = Nil /\ answer[t] = "none"
    BY <1>4 DEF Call, IInv, CallInv, Requested, Requests
  <2>2. Requested' = [Requested EXCEPT ![t] = [group |-> g, person |-> p]]
    BY <1>4 DEF Call, IInv, TypeOK, Requested, Requests
  <2>3. UNCHANGED <<people, Enrolled, answer, Seen>>
    BY <1>4, SlicesKept DEF Call, store
  <2> QED
    BY <2>1, <2>2, <2>3 DEF Promised!Call, Promised!Idle, Enrolled, Requested, Seen
<1>5. ASSUME NEW t \in Callers, NEW g \in Groups, CallGet(t, g)
      PROVE  Same
  <2>1. Requested' = Requested
    BY <1>5 DEF CallGet, IInv, TypeOK, Requested, Requests
  <2> QED
    BY <1>5, <2>1, SlicesKept DEF CallGet, store
<1>6. ASSUME NEW t \in Callers, Lock(t) \/ Find(t) \/ ScanMiss(t) \/ RLock(t)
      PROVE  Same
  <2>1. Requested' = Requested
    BY <1>6 DEF Lock, Find, ScanMiss, RLock, IInv, TypeOK, Requested, Requests
  <2> QED
    BY <1>6, <2>1, SlicesKept DEF Lock, Find, ScanMiss, RLock, store
<1>7. ASSUME NEW t \in Callers, AppendInPlace(t) \/ AppendToCopy(t)
      PROVE  Same
  <2>1. Requested' = Requested
    BY <1>7 DEF AppendInPlace, AppendToCopy, IInv, TypeOK, Requested, Requests
  <2> QED
    BY <1>7, <2>1, AppendHides DEF AppendInPlace, AppendToCopy, store
<1>8. ASSUME NEW t \in Callers, FindNothing(t)
      PROVE  Promised!Refuse(t)
  <2>1. Requested[t] = call[t] /\ Requested[t] # Nil /\ Enrolled[call[t].group] = Nil
    BY <1>8, UnderWay, EnrolledSet DEF FindNothing, Requests
  <2>2. Requested' = [Requested EXCEPT ![t] = Nil]
    BY <1>8, Ended DEF FindNothing
  <2>3. UNCHANGED <<people, Enrolled, Seen>> /\ answer' = [answer EXCEPT ![t] = "refused"]
    BY <1>8, SlicesKept DEF FindNothing, store
  <2> QED
    BY <2>1, <2>2, <2>3
    DEF Promised!Refuse, Promised!Admissible, Enrolled, Requested, Seen
<1>9. ASSUME NEW t \in Callers, ScanHit(t) \/ Store(t)
      PROVE  Promised!Join(t)
  <2>1. Requested[t] = call[t] /\ Requested[t] # Nil /\ call[t].group \in Groups
    BY <1>9, UnderWay DEF ScanHit, Store, Requests
  <2>2. groups[call[t].group] # Nil /\ Enrolled[call[t].group] # Nil
    BY <1>9, <2>1, EnrolledSet DEF ScanHit, Store, IInv, CopyInv
  <2>3. Requested' = [Requested EXCEPT ![t] = Nil]
    BY <1>9, Ended DEF ScanHit, Store
  <2>4. /\ Enrolled' = [Enrolled EXCEPT ![call[t].group] = @ \cup {call[t].person}]
        /\ Seen' = Seen
    <3>1. CASE Store(t)
      BY <3>1, StoreEnrols
    <3>2. CASE ScanHit(t)
      <4>1. call[t].person \in Enrolled[call[t].group]
        BY <2>1, <3>2 DEF ScanHit, IsNew, IInv, CopyInv, Enrolled
      <4>2. UNCHANGED <<Enrolled, Seen>>
        BY <3>2, SlicesKept DEF ScanHit, store
      <4>3. Enrolled[call[t].group] \cup {call[t].person} = Enrolled[call[t].group]
        BY <4>1
      <4> QED
        BY <2>1, <4>2, <4>3 DEF Enrolled
    <3> QED
      BY <1>9, <3>1, <3>2
  <2>5. people' = people /\ answer' = [answer EXCEPT ![t] = "joined"]
    BY <1>9 DEF ScanHit, Store, store
  <2> QED
    BY <2>1, <2>2, <2>3, <2>4, <2>5
    DEF Promised!Join, Promised!Admissible, Enrolled, Requested, Seen
<1>10. ASSUME NEW t \in Callers, Copy(t)
       PROVE  \E g \in Groups : Promised!Read(t, g)
  <2>1. PICK g \in Groups : g = call[t].group
    BY <1>10, Copying
  <2>2. Requested[t] = Nil /\ answer[t] = "none"
    BY <1>10 DEF Copy, IInv, CallInv, Requested, Requests
  <2>3. /\ view'[t] = groups[g] /\ \A u \in Callers \ {t} : view'[u] = view[u]
        /\ groups' = groups /\ arrays' = arrays
    BY <1>10, <2>1, Copying
  <2>4. Enrolled' = Enrolled /\ Seen' = [Seen EXCEPT ![t] = Enrolled[g]]
    BY <2>3, Abstracted
  <2>5. people' = people /\ answer' = answer
    BY <1>10 DEF Copy, store
  <2>6. Requested' = [Requested EXCEPT ![t] = Nil]
    BY <1>10, Ended DEF Copy
  <2>7. Requested' = Requested
    BY <2>2, <2>6 DEF Requested
  <2>8. Promised!Read(t, g)
    BY <2>2, <2>4, <2>5, <2>7 DEF Promised!Read, Promised!Idle, Enrolled, Requested, Seen
  <2> QED
    BY <2>8
<1>11. ASSUME NEW t \in Callers, Unlock(t)
       PROVE  Promised!Return(t) \/ Same
  <2>1. Requested' = Requested
    BY <1>11 DEF Unlock, IInv, TypeOK, Requested, Requests
  <2>2. UNCHANGED <<people, Enrolled, Seen>> /\ answer' = [answer EXCEPT ![t] = "none"]
    BY <1>11, SlicesKept DEF Unlock, store
  <2>3. CASE answer[t] = "none"
    BY <2>1, <2>2, <2>3 DEF IInv, TypeOK
  <2>4. CASE answer[t] # "none"
    BY <2>1, <2>2, <2>4 DEF Promised!Return, Enrolled, Requested, Seen
  <2> QED
    BY <2>3, <2>4
<1>12. ASSUME NEW t \in Callers, Proceeds(t)
       PROVE  Promised!AbsNext \/ Same
  BY <1>6, <1>7, <1>8, <1>9, <1>10, <1>11, <1>12 DEF Proceeds, Promised!AbsNext
<1>13. \A p \in Contacts : p \in People
  BY PeopleStoreAssumption
<1> QED
  BY <1>0, <1>1, <1>2, <1>3, <1>4, <1>5, <1>12, <1>13, StepCases DEF Promised!AbsNext

\* However the goroutines interleave, the store in memory implements Membership:
\* AddMemberToGroup loses no member that it acknowledged and refuses no call without
\* cause, and append does not reach into a slice that GetGroup returned before.
THEOREM Implementation == Spec => Linearizable
BY RefinesInit, RefinesStep, Invariance, PTL DEF Spec, Linearizable, Promised!AbsSpec
=============================================================================
