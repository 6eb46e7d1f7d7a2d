----------------------------- MODULE Reconciler -----------------------------
(***************************************************************************)
(* Reconciler.ProcessPayload (pkg/reconciliation/reconcile.go): one call   *)
(* that maps the entities of a received payload onto the recipient's own,  *)
(* one kind after the other, while the recipient goes on adding entities.  *)
(*                                                                         *)
(* For each kind the call lists the store once, then ranges over the       *)
(* incoming entities in map order: a lookup by GlobalID in the store as it *)
(* is then, and, when that finds nothing, a scan of the listing.  Every    *)
(* store operation is atomic (a mutex, or one database request), so the    *)
(* steps between two of them interleave with the user's insertions.        *)
(***************************************************************************)
EXTENDS Entities

CONSTANTS
  SenderIDs,    \* the UUIDs that key the maps of the incoming payload
  Pending,      \* used by the abstract specification only
  StoreMayFail  \* TRUE for Firestore, FALSE for the in-memory stores

ASSUME ReconcilerAssumption ==
  /\ Nil \notin SenderIDs
  /\ Pending \notin LocalIDs \cup {Nil}
  /\ StoreMayFail \in BOOLEAN

VARIABLES
  store,     \* store[kind][id]: the local entity, or Nil
  payload,   \* payload[kind][k]: the incoming entity, or Nil
  listing,   \* listing[kind]: localLocations or localPeople, Nil until listed
  phase,     \* the kind being reconciled, then "done"
  todo,      \* todo[kind]: the incoming keys the range loop has still to visit
  cur,       \* the incoming key being scanned for, or Nil
  pos,       \* the position in the listing of the scan's next comparison
  best,      \* bestMatchID
  level,     \* bestMatchLevel
  mappings   \* mappings[kind][k]: the id recorded in the result, or Nil

scanVars == <<cur, pos, best, level>>
vars == <<store, payload, listing, phase, todo, scanVars, mappings>>

Incoming == payload[phase][cur]
Level    == LevelOf(phase, Incoming, listing[phase], pos)

-----------------------------------------------------------------------------
Init ==
  /\ store = [kind \in Kinds |-> [i \in LocalIDs |-> Nil]]
  /\ \E locs \in [SenderIDs -> Catalog["location"] \cup {Nil}],
        pers \in [SenderIDs -> Catalog["person"] \cup {Nil}] :
       payload = [kind \in Kinds |-> IF kind = "location" THEN locs ELSE pers]
  /\ listing = [kind \in Kinds |-> Nil]
  /\ phase = "location"
  /\ todo = [kind \in Kinds |-> {k \in SenderIDs : payload[kind][k] # Nil}]
  /\ cur = Nil
  /\ pos = 1
  /\ best = Nil
  /\ level = MatchNone
  /\ mappings = [kind \in Kinds |-> [k \in SenderIDs |-> Nil]]

\* Store.Add or AddPerson of a new entity, from another goroutine.
Insert(kind, i, e) ==
  /\ store[kind][i] = Nil
  /\ store' = [store EXCEPT ![kind][i] = e]
  /\ UNCHANGED <<payload, listing, phase, todo, scanVars, mappings>>

\* Mutant: the store is listed again before every comparison.
ListAgain ==
  /\ phase \in Kinds
  /\ \/ \E list \in Listings(store[phase]) : listing' = [listing EXCEPT ![phase] = list]
     \/ StoreMayFail /\ listing' = [listing EXCEPT ![phase] = <<>>]
  /\ UNCHANGED <<store, payload, phase, todo, scanVars, mappings>>

\* ListAllForMatching; its error is dropped and leaves a nil slice.
List ==
  /\ phase \in Kinds
  /\ listing[phase] = Nil
  /\ \/ \E list \in Listings(store[phase]) : listing' = [listing EXCEPT ![phase] = list]
     \/ StoreMayFail /\ listing' = [listing EXCEPT ![phase] = <<>>]
  /\ UNCHANGED <<store, payload, phase, todo, scanVars, mappings>>

\* The body of the range loop may start on the incoming entity k.
Visits(k) ==
  /\ phase \in Kinds
  /\ listing[phase] # Nil
  /\ cur = Nil
  /\ k \in todo[phase]

\* FindByGlobalID finds a local entity: it is the match.
LookupHit(k) ==
  /\ Visits(k)
  /\ \E i \in Carriers(store[phase], payload[phase][k]) :
       mappings' = [mappings EXCEPT ![phase][k] = i]
  /\ todo' = [todo EXCEPT ![phase] = @ \ {k}]
  /\ UNCHANGED <<store, payload, listing, phase, scanVars>>

\* Mutant: bestMatchID is declared outside the range loop.
ScanFromLast ==
  /\ pos' = 1
  /\ best' = best
  /\ level' = MatchNone

\* What the scan of one incoming entity starts from.
FreshScan ==
  /\ pos' = 1
  /\ best' = Nil
  /\ level' = MatchNone

\* Mutant: the error of FindByGlobalID is not looked at.
LookupIgnored(k) ==
  /\ Visits(k)
  /\ cur' = k
  /\ FreshScan
  /\ todo' = [todo EXCEPT ![phase] = @ \ {k}]
  /\ UNCHANGED <<store, payload, listing, phase, mappings>>

\* No GlobalID, no carrier of it, or an error: the listing is scanned.
LookupMiss(k) ==
  /\ Visits(k)
  /\ StoreMayFail \/ Carriers(store[phase], payload[phase][k]) = {}
  /\ cur' = k
  /\ FreshScan
  /\ todo' = [todo EXCEPT ![phase] = @ \ {k}]
  /\ UNCHANGED <<store, payload, listing, phase, mappings>>

Scanning == cur # Nil /\ pos <= Len(listing[phase])

\* Mutant: the result maps local to sender ids.
SettleSwapped(id) ==
  /\ mappings' = [mappings EXCEPT ![phase][cur] = cur]
  /\ cur' = Nil

\* The scan ends and bestMatchID, if any, becomes the mapping.
Settle(id) ==
  /\ mappings' = [mappings EXCEPT ![phase][cur] = id]
  /\ cur' = Nil

\* An exact match ends the scan at once.
CompareExact ==
  /\ Scanning
  /\ Level = MatchExact
  /\ Settle(listing[phase][pos].id)
  /\ UNCHANGED <<store, payload, listing, phase, todo, pos, best, level>>

\* Mutant: a later possible match replaces an earlier one.
KeepsLast(lvl) == lvl = MatchPossible

\* Only the first possible match is kept.
Keeps(lvl) == lvl = MatchPossible /\ level = MatchNone

ComparePossible ==
  /\ Scanning
  /\ Level # MatchExact
  /\ Keeps(Level)
  /\ best' = listing[phase][pos].id
  /\ level' = MatchPossible
  /\ pos' = pos + 1
  /\ UNCHANGED <<store, payload, listing, phase, todo, cur, mappings>>

CompareSkip ==
  /\ Scanning
  /\ Level # MatchExact
  /\ ~Keeps(Level)
  /\ pos' = pos + 1
  /\ UNCHANGED <<store, payload, listing, phase, todo, cur, best, level, mappings>>

\* Mutant: the end of the listing is missed by one.
ExhaustLate ==
  /\ cur # Nil
  /\ pos > Len(listing[phase]) + 1
  /\ Settle(best)
  /\ UNCHANGED <<store, payload, listing, phase, todo, pos, best, level>>

\* The listing is exhausted: the possible match, or nothing, is recorded.
Exhaust ==
  /\ cur # Nil
  /\ pos > Len(listing[phase])
  /\ Settle(best)
  /\ UNCHANGED <<store, payload, listing, phase, todo, pos, best, level>>

\* Locations are reconciled before people.
NextPhase ==
  /\ phase \in Kinds
  /\ listing[phase] # Nil
  /\ cur = Nil
  /\ todo[phase] = {}
  /\ phase' = IF phase = "location" THEN "person" ELSE "done"
  /\ UNCHANGED <<store, payload, listing, todo, scanVars, mappings>>

ProcessPayload ==
  \/ List
  \/ \E k \in SenderIDs : LookupHit(k) \/ LookupMiss(k)
  \/ CompareExact \/ ComparePossible \/ CompareSkip \/ Exhaust
  \/ NextPhase

Environment ==
  \E kind \in Kinds : \E i \in LocalIDs, e \in Catalog[kind] : Insert(kind, i, e)

Next == ProcessPayload \/ Environment

Spec == Init /\ [][Next]_vars

\* The call runs on; nobody has to insert anything.
FairSpec == Spec /\ WF_vars(ProcessPayload)

-----------------------------------------------------------------------------
(* The abstract specification: the verdict on cur falls when its lookup    *)
(* misses, before the scan computes it.                                    *)

Settled(kind, k) ==
  /\ payload[kind][k] # Nil
  /\ k \notin todo[kind]
  /\ ~(kind = phase /\ k = cur)

Verdict(kind, k) ==
  CASE k \in todo[kind] -> Pending
    [] k \notin todo[kind] /\ kind = phase /\ k = cur ->
         BestMatch(kind, payload[kind][k], listing[kind])
    [] OTHER -> mappings[kind][k]

Resolved == INSTANCE Resolution WITH
  verdict <- [kind \in Kinds |-> [k \in SenderIDs |-> Verdict(kind, k)]]

-----------------------------------------------------------------------------
(* Properties. *)

\* Every variable keeps its type; in particular only ids of the user's own
\* entities are ever recorded in the result.
TypeOK ==
  /\ store \in [Kinds -> [LocalIDs -> Entity \cup {Nil}]]
  /\ payload \in [Kinds -> [SenderIDs -> Entity \cup {Nil}]]
  /\ listing \in [Kinds -> Seq(Listed) \cup {Nil}]
  /\ phase \in Kinds \cup {"done"}
  /\ todo \in [Kinds -> SUBSET SenderIDs]
  /\ cur \in SenderIDs \cup {Nil}
  /\ pos \in Nat \ {0}
  /\ best \in LocalIDs \cup {Nil}
  /\ level \in {MatchNone, MatchPossible}
  /\ mappings \in [Kinds -> [SenderIDs -> LocalIDs \cup {Nil}]]

\* The scan's loop, with its break and its bestMatchLevel, computes the best
\* match: an incoming entity without a GlobalID is mapped to the first exact
\* match of the listing, or to the first possible one when no exact one
\* exists, or to nothing when nothing matches, whatever the store's order.
FuzzyIsBest ==
  \A kind \in Kinds, k \in SenderIDs :
    Settled(kind, k) /\ payload[kind][k].globalID = Nil =>
      IsBest(kind, payload[kind][k], listing[kind], mappings[kind][k])

\* A GlobalID takes precedence over the matchers, although it is looked up in
\* the store as it is now and the matchers see the store as it was: when the
\* store cannot fail, an incoming entity whose GlobalID is in the listing is
\* mapped to an entity that carries it.
KnownGlobalIDWins ==
  \A kind \in Kinds, k \in SenderIDs :
    /\ ~StoreMayFail
    /\ Settled(kind, k)
    /\ payload[kind][k].globalID # Nil
    /\ \E i \in DOMAIN listing[kind] :
         listing[kind][i].entity.globalID = payload[kind][k].globalID
    => /\ mappings[kind][k] # Nil
       /\ store[kind][mappings[kind][k]].globalID = payload[kind][k].globalID

\* Failing reads and concurrent insertions lose mappings but never invent one:
\* what an entity is mapped to is in the store of its kind, and carries its
\* GlobalID or is matched by its matcher.
EveryMappingJustified ==
  \A kind \in Kinds, k \in SenderIDs :
    mappings[kind][k] # Nil =>
      LET e     == payload[kind][k]
          local == store[kind][mappings[kind][k]]
      IN  /\ e # Nil
          /\ local # Nil
          /\ \/ e.globalID # Nil /\ local.globalID = e.globalID
             \/ MatchLevel(kind, e, local) # MatchNone

\* Coordinates decide between places of one name, boundaries included: a placed
\* location without a GlobalID is mapped neither to one more than 500 m away
\* nor, when one within 50 m is listed, to one further away than that.
NearbyPlaceWins ==
  \A k \in SenderIDs :
    LET e == payload["location"][k]
        Metres(local) == Distance(e.matcher.at, local.matcher.at)
        Near(local) == /\ EqualFold(e.matcher.name, local.matcher.name)
                       /\ local.matcher.at # Nil
                       /\ Metres(local) <= 50
    IN  Settled("location", k) /\ e.globalID = Nil /\ e.matcher.at # Nil =>
          \A i \in DOMAIN listing["location"] :
            LET local == listing["location"][i].entity
            IN  /\ mappings["location"][k] = listing["location"][i].id
                /\ local.matcher.at # Nil
                => /\ Metres(local) <= 500
                   /\ Metres(local) > 50 =>
                        \A j \in DOMAIN listing["location"] :
                          ~Near(listing["location"][j].entity)

\* The whole call, loops, lookups and dropped errors included, does no more
\* than give each incoming entity one verdict in one step.
Refinement == Resolved!AbsSpec

\* A call returns, however many entities are stored while it runs.
Completes == <>(phase = "done")

-----------------------------------------------------------------------------
(* Why the properties hold: the inductive invariant. *)

\* Only what the payload has is visited, and only once its kind is listed.
TodoInv ==
  \A kind \in Kinds, k \in SenderIDs :
    /\ k \in todo[kind] => payload[kind][k] # Nil
    /\ payload[kind][k] # Nil /\ k \notin todo[kind] => listing[kind] # Nil

\* The loop invariant of the scan: no exact match was passed, and best is the
\* first possible match that was, if any.
ScanInv ==
  cur # Nil =>
    /\ phase \in Kinds
    /\ listing[phase] # Nil
    /\ Incoming # Nil
    /\ cur \notin todo[phase]
    /\ pos <= Len(listing[phase]) + 1
    /\ \A j \in 1 .. (pos - 1) : LevelOf(phase, Incoming, listing[phase], j) # MatchExact
    /\ \/ /\ level = MatchNone
          /\ best = Nil
          /\ \A j \in 1 .. (pos - 1) :
               LevelOf(phase, Incoming, listing[phase], j) # MatchPossible
       \/ /\ level = MatchPossible
          /\ \E i \in 1 .. (pos - 1) :
               /\ best = listing[phase][i].id
               /\ FirstAt(phase, Incoming, listing[phase], i, MatchPossible)

\* A place is stored and shared as a place, a person as a person.
KindsInv ==
  \A kind \in Kinds :
    /\ store[kind] \in [LocalIDs -> Catalog[kind] \cup {Nil}]
    /\ payload[kind] \in [SenderIDs -> Catalog[kind] \cup {Nil}]

\* The copies in a listing stay current: nothing is ever changed or removed.
ListingCurrent ==
  \A kind \in Kinds :
    listing[kind] # Nil =>
      \A i \in DOMAIN listing[kind] :
        store[kind][listing[kind][i].id] = listing[kind][i].entity

\* A GlobalID that the lookup missed is not in the listing either.
MissedIsUnlisted ==
  \A kind \in Kinds, k \in SenderIDs :
    /\ ~StoreMayFail
    /\ payload[kind][k] # Nil
    /\ k \notin todo[kind]
    /\ payload[kind][k].globalID # Nil
    => \/ /\ Settled(kind, k)
          /\ mappings[kind][k] # Nil
          /\ store[kind][mappings[kind][k]].globalID = payload[kind][k].globalID
       \/ \A i \in DOMAIN listing[kind] :
            listing[kind][i].entity.globalID # payload[kind][k].globalID

\* The inductive invariant of Spec.
IInv ==
  /\ TypeOK
  /\ KindsInv
  /\ TodoInv
  /\ ScanInv
  /\ ListingCurrent
  /\ FuzzyIsBest
  /\ MissedIsUnlisted
  /\ EveryMappingJustified

-----------------------------------------------------------------------------
(* What the documents say, and the code does not do. *)

\* roadmap.md:52: "The current reconciler logs MatchPossible results but takes
\* no action."
PossibleIsOnlyLogged ==
  \A kind \in Kinds, k \in SenderIDs :
    Settled(kind, k) /\ payload[kind][k].globalID = Nil
      /\ NoneAt(kind, payload[kind][k], listing[kind], MatchExact)
    => mappings[kind][k] = Nil

\* project_outline.md:70: without a GlobalID the reconciler finds "a fuzzy match
\* based on names, categories, and other context": two people who are mapped
\* have a name or a handle in common.
PeopleShareANameOrHandle ==
  \A k \in SenderIDs :
    Settled("person", k) /\ payload["person"][k].globalID = Nil
      /\ mappings["person"][k] # Nil
    => LET e     == payload["person"][k]
           local == store["person"][mappings["person"][k]]
           Names(p) == {Fold[p.name], Fold[p.matcher.name]} \ {Fold[Blank]}
       IN  \/ Names(e) \cap Names(local) # {}
           \/ PersonMatch(e.matcher, local.matcher) = MatchExact
=============================================================================
