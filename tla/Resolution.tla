----------------------------- MODULE Resolution -----------------------------
(***************************************************************************)
(* What reconciling a payload promises, whatever loop computes it.         *)
(*                                                                         *)
(* While the user's own store grows, every incoming entity gets one        *)
(* verdict, in one step, and keeps it: a local entity that carries its     *)
(* GlobalID at that very moment, or else the best match of a listing of    *)
(* the store taken earlier in the call - the first exact match, failing    *)
(* that the first possible one, failing that none.                         *)
(***************************************************************************)
EXTENDS Entities

CONSTANTS
  SenderIDs,    \* the UUIDs that key the maps of the incoming payload
  Pending,      \* no verdict yet
  StoreMayFail  \* TRUE for Firestore, FALSE for the in-memory stores

VARIABLES
  store,    \* store[kind][id]: the local entity, or Nil
  payload,  \* payload[kind][k]: the incoming entity, or Nil
  listing,  \* listing[kind]: what the listing of the store returned, or Nil
  verdict   \* verdict[kind][k]: a local id, Nil for no match, or Pending

absVars == <<store, payload, listing, verdict>>

AbsInit ==
  /\ store = [kind \in Kinds |-> [i \in LocalIDs |-> Nil]]
  /\ \E locs \in [SenderIDs -> Catalog["location"] \cup {Nil}],
        pers \in [SenderIDs -> Catalog["person"] \cup {Nil}] :
       payload = [kind \in Kinds |-> IF kind = "location" THEN locs ELSE pers]
  /\ listing = [kind \in Kinds |-> Nil]
  /\ verdict = [kind \in Kinds |->
                  [k \in SenderIDs |-> IF payload[kind][k] = Nil THEN Nil
                                                                 ELSE Pending]]

\* The user stores a new entity.
Insert(kind, i, e) ==
  /\ store[kind][i] = Nil
  /\ store' = [store EXCEPT ![kind][i] = e]
  /\ UNCHANGED <<payload, listing, verdict>>

\* The store is listed once per kind; a failed listing counts as empty.
TakeListing(kind) ==
  /\ listing[kind] = Nil
  /\ \/ \E list \in Listings(store[kind]) : listing' = [listing EXCEPT ![kind] = list]
     \/ StoreMayFail /\ listing' = [listing EXCEPT ![kind] = <<>>]
  /\ UNCHANGED <<store, payload, verdict>>

\* One incoming entity gets its verdict.
Decide(kind, k) ==
  /\ listing[kind] # Nil
  /\ verdict[kind][k] = Pending
  /\ \/ \E i \in Carriers(store[kind], payload[kind][k]) :
          verdict' = [verdict EXCEPT ![kind][k] = i]
     \/ /\ StoreMayFail \/ Carriers(store[kind], payload[kind][k]) = {}
        /\ verdict' = [verdict EXCEPT ![kind][k] =
                         BestMatch(kind, payload[kind][k], listing[kind])]
  /\ UNCHANGED <<store, payload, listing>>

AbsNext ==
  \E kind \in Kinds :
    \/ \E i \in LocalIDs, e \in Catalog[kind] : Insert(kind, i, e)
    \/ TakeListing(kind)
    \/ \E k \in SenderIDs : Decide(kind, k)

AbsSpec == AbsInit /\ [][AbsNext]_absVars
=============================================================================
