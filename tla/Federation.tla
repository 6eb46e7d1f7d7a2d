----------------------------- MODULE Federation -----------------------------
(***************************************************************************)
(* Users who share entities and reconcile what they receive, as the two    *)
(* distributed demos wire it (demo/distributed, demo/distributedsecure).   *)
(*                                                                         *)
(* A letter stands for a payload that was shared and opened (Sharing), and *)
(* may arrive late, repeatedly, out of order, or never.  The call that     *)
(* handles one takes the steps of Resolution, which ProcessPayload         *)
(* implements (RefinementProofs), and shares its user's stores with other  *)
(* calls and with the user's insertions.  The stores are in memory: they   *)
(* do not fail.                                                            *)
(***************************************************************************)
EXTENDS Entities

CONSTANTS
  Users,
  Owner,       \* Owner[i]: the user whose services make up the UUID i
  Calls,       \* the ids of calls of ProcessPayload
  Pending,     \* no verdict yet
  MaxLetters   \* bounds Share

\* What a friend's payload holds when it arrives.
Letter == [to : Users, payload : [Kinds -> [LocalIDs -> Entity \cup {Nil}]]]

ASSUME FederationAssumption ==
  /\ Owner \in [LocalIDs -> Users]
  /\ MaxLetters \in Nat
  /\ Pending \notin LocalIDs \cup {Nil}
  /\ Nil \notin Letter

VARIABLES
  store,    \* store[kind][i]: the entity i of its owner's store, or Nil
  sent,     \* the letters that were ever shared
  letter,   \* letter[c]: the letter that c handles, or Nil
  listing,  \* listing[c][kind]: what c's listing of its user's store returned, or Nil
  verdict,  \* verdict[c][kind][k]: an id of c's user, Nil for no match, or Pending
  links,    \* what the calls that returned have mapped: <<kind, incoming, own>>
  known     \* known[c]: the links when c began

call == <<letter, listing, verdict, known>>
vars == <<store, sent, call, links>>

-----------------------------------------------------------------------------
\* The user's own part of a store.
OwnPart(u, kind) == [i \in LocalIDs |-> IF Owner[i] = u THEN store[kind][i] ELSE Nil]

Unheard == [kind \in Kinds |-> Nil]

Init ==
  /\ store = [kind \in Kinds |-> [i \in LocalIDs |-> Nil]]
  /\ sent = {}
  /\ letter = [c \in Calls |-> Nil]
  /\ listing = [c \in Calls |-> Unheard]
  /\ verdict = [c \in Calls |-> [kind \in Kinds |-> [k \in LocalIDs |-> Nil]]]
  /\ links = {}
  /\ known = [c \in Calls |-> {}]

\* A user adds an entity under a new UUID.
Insert(kind, i, e) ==
  /\ \A other \in Kinds : store[other][i] = Nil
  /\ store' = [store EXCEPT ![kind][i] = e]
  /\ UNCHANGED <<sent, call, links>>

\* A user shares some of the entities in the own stores.
Share(u, v, some) ==
  /\ Cardinality(sent) < MaxLetters
  /\ some # {}
  /\ sent' = sent \cup
       {[to |-> v,
         payload |-> [kind \in Kinds |->
                        [i \in LocalIDs |-> IF i \in some THEN OwnPart(u, kind)[i] ELSE Nil]]]}
  /\ UNCHANGED <<store, call, links>>

\* ProcessPayload is called for a letter.
Receive(c, m) ==
  /\ letter[c] = Nil
  /\ letter' = [letter EXCEPT ![c] = m]
  /\ verdict' = [verdict EXCEPT ![c] =
                   [kind \in Kinds |-> [k \in LocalIDs |->
                      IF m.payload[kind][k] = Nil THEN Nil ELSE Pending]]]
  /\ known' = [known EXCEPT ![c] = links]
  /\ UNCHANGED <<store, sent, listing, links>>

\* Mutant: all users share one store.
TakeListingOfAll(c, kind) ==
  /\ letter[c] # Nil
  /\ listing[c][kind] = Nil
  /\ \E list \in Listings(store[kind]) : listing' = [listing EXCEPT ![c][kind] = list]
  /\ UNCHANGED <<store, sent, letter, verdict, links, known>>

\* The store of the letter's recipient is listed, once per kind.
TakeListing(c, kind) ==
  /\ letter[c] # Nil
  /\ listing[c][kind] = Nil
  /\ \E list \in Listings(OwnPart(letter[c].to, kind)) :
       listing' = [listing EXCEPT ![c][kind] = list]
  /\ UNCHANGED <<store, sent, letter, verdict, links, known>>

\* Mutant: the scan of the listing ends at the first entity that matches at all.
DecideAtFirst(c, kind, k) ==
  /\ letter[c] # Nil
  /\ listing[c][kind] # Nil
  /\ verdict[c][kind][k] = Pending
  /\ LET e    == letter[c].payload[kind][k]
         list == listing[c][kind]
         hit(n) == LevelOf(kind, e, list, n) # MatchNone
     IN  \/ /\ \A n \in DOMAIN list : ~hit(n)
            /\ verdict' = [verdict EXCEPT ![c][kind][k] = Nil]
         \/ \E n \in DOMAIN list :
              /\ hit(n) /\ \A m \in 1 .. (n - 1) : ~hit(m)
              /\ verdict' = [verdict EXCEPT ![c][kind][k] = list[n].id]
  /\ UNCHANGED <<store, sent, letter, listing, links, known>>

\* One incoming entity gets its verdict.
Decide(c, kind, k) ==
  /\ letter[c] # Nil
  /\ listing[c][kind] # Nil
  /\ verdict[c][kind][k] = Pending
  /\ LET e == letter[c].payload[kind][k]
         carriers == Carriers(OwnPart(letter[c].to, kind), e)
     IN  \E i \in IF carriers # {} THEN carriers ELSE {BestMatch(kind, e, listing[c][kind])} :
           verdict' = [verdict EXCEPT ![c][kind][k] = i]
  /\ UNCHANGED <<store, sent, letter, listing, links, known>>

\* Mutant: the listings are kept for the next call.
ReturnCached(c) ==
  /\ letter[c] # Nil
  /\ \A kind \in Kinds : listing[c][kind] # Nil
  /\ \A kind \in Kinds, k \in LocalIDs : verdict[c][kind][k] # Pending
  /\ links' = links \cup
       {l \in Kinds \X LocalIDs \X LocalIDs : verdict[c][l[1]][l[2]] = l[3]}
  /\ letter' = [letter EXCEPT ![c] = Nil]
  /\ verdict' = [verdict EXCEPT ![c] = [kind \in Kinds |-> [k \in LocalIDs |-> Nil]]]
  /\ known' = [known EXCEPT ![c] = {}]
  /\ UNCHANGED <<store, sent, listing>>

\* The mappings are returned to the client.
Return(c) ==
  /\ letter[c] # Nil
  /\ \A kind \in Kinds : listing[c][kind] # Nil
  /\ \A kind \in Kinds, k \in LocalIDs : verdict[c][kind][k] # Pending
  /\ links' = links \cup
       {l \in Kinds \X LocalIDs \X LocalIDs : verdict[c][l[1]][l[2]] = l[3]}
  /\ letter' = [letter EXCEPT ![c] = Nil]
  /\ listing' = [listing EXCEPT ![c] = Unheard]
  /\ verdict' = [verdict EXCEPT ![c] = [kind \in Kinds |-> [k \in LocalIDs |-> Nil]]]
  /\ known' = [known EXCEPT ![c] = {}]
  /\ UNCHANGED <<store, sent>>

Next ==
  \/ \E kind \in Kinds, i \in LocalIDs : \E e \in Catalog[kind] : Insert(kind, i, e)
  \/ \E u, v \in Users :
       u # v /\ \E some \in SUBSET {i \in LocalIDs : \E kind \in Kinds :
                                      OwnPart(u, kind)[i] # Nil} : Share(u, v, some)
  \/ \E c \in Calls :
       \/ \E m \in sent : Receive(c, m)
       \/ \E kind \in Kinds : TakeListing(c, kind)
       \/ \E kind \in Kinds, k \in LocalIDs : Decide(c, kind, k)
       \/ Return(c)

Spec == Init /\ [][Next]_vars

-----------------------------------------------------------------------------
(* Properties. *)

Link == Kinds \X LocalIDs \X LocalIDs

\* Every variable keeps its type, and the mappings of a call name entities of the
\* user who received the letter.
TypeOK ==
  /\ store \in [Kinds -> [LocalIDs -> Entity \cup {Nil}]]
  /\ sent \subseteq Letter
  /\ letter \in [Calls -> Letter \cup {Nil}]
  /\ listing \in [Calls -> [Kinds -> Seq(Listed) \cup {Nil}]]
  /\ verdict \in [Calls -> [Kinds -> [LocalIDs -> LocalIDs \cup {Nil, Pending}]]]
  /\ links \subseteq Link
  /\ known \in [Calls -> SUBSET Link]
  /\ \A c \in Calls, kind \in Kinds, k \in LocalIDs :
       verdict[c][kind][k] \in LocalIDs => Owner[verdict[c][kind][k]] = letter[c].to

\* How well two entities agree, a common GlobalID being best.
Rank(kind, d, e) ==
  IF d.globalID # Nil /\ d.globalID = e.globalID THEN 3
  ELSE CASE MatchLevel(kind, d, e) = MatchExact    -> 2
         [] MatchLevel(kind, d, e) = MatchPossible -> 1
         [] MatchLevel(kind, d, e) = MatchNone     -> 0

\* c has mapped k to an entity that is no worse a match than the own entity i.
AsGoodAs(c, kind, k, i) ==
  LET e == letter[c].payload[kind][k]
      r == verdict[c][kind][k]
  IN  /\ r # Nil
      /\ Rank(kind, e, store[kind][r]) >= Rank(kind, e, store[kind][i])

Decided(c, kind, k) ==
  /\ letter[c] # Nil
  /\ letter[c].payload[kind][k] # Nil
  /\ verdict[c][kind][k] # Pending

\* A payload that arrives again, after and beside whatever else was received and
\* stored, maps every entity that its recipient mapped before, and none of them worse.
RedeliveryIsNoWorse ==
  \A c \in Calls, kind \in Kinds, k, i \in LocalIDs :
    Decided(c, kind, k) /\ <<kind, k, i>> \in known[c] /\ Owner[i] = letter[c].to
      => AsGoodAs(c, kind, k, i)

\* An entity to which a friend has mapped one of mine is, when that friend shares
\* it, mapped to one of mine that is no worse a match than the one I had shared.
RoundTripIsNoWorse ==
  \A c \in Calls, kind \in Kinds, k, i \in LocalIDs :
    Decided(c, kind, k) /\ <<kind, i, k>> \in known[c] /\ Owner[i] = letter[c].to
      => AsGoodAs(c, kind, k, i)

-----------------------------------------------------------------------------
(* Why the properties hold: the inductive invariant. *)

\* A place is stored as a place, a person as a person.
KindsInv ==
  \A kind \in Kinds : store[kind] \in [LocalIDs -> Catalog[kind] \cup {Nil}]

\* A payload holds copies of what its sender, not its recipient, has stored.
LetterInv ==
  \A m \in sent, kind \in Kinds, k \in LocalIDs :
    m.payload[kind][k] # Nil => store[kind][k] = m.payload[kind][k] /\ Owner[k] # m.to

\* A call handles a letter that was sent, gives verdicts on what is in it only, and
\* knows of nothing that no other call returned.
CallInv ==
  \A c \in Calls :
    /\ letter[c] # Nil => letter[c] \in sent
    /\ \A kind \in Kinds, k \in LocalIDs :
         verdict[c][kind][k] # Nil => letter[c] # Nil /\ letter[c].payload[kind][k] # Nil
    /\ known[c] \subseteq links

\* The items of a listing are copies of the recipient's entities, and none of those
\* to which something had been mapped when the call began is missing.
ListingInv ==
  \A c \in Calls, kind \in Kinds :
    listing[c][kind] # Nil =>
      LET list == listing[c][kind]
      IN  /\ letter[c] # Nil
          /\ \A n \in DOMAIN list :
               /\ Owner[list[n].id] = letter[c].to
               /\ store[kind][list[n].id] = list[n].entity
          /\ \A j, k \in LocalIDs :
               <<kind, j, k>> \in known[c] =>
                 \A i \in {j, k} : Owner[i] = letter[c].to => \E n \in DOMAIN list : list[n].id = i

\* What was mapped agrees, and belongs to two users.
LinkInv ==
  \A kind \in Kinds, k, i \in LocalIDs :
    <<kind, k, i>> \in links =>
      /\ store[kind][k] # Nil /\ store[kind][i] # Nil
      /\ Owner[k] # Owner[i]
      /\ Rank(kind, store[kind][k], store[kind][i]) >= 1

\* A verdict carries the GlobalID of the entity, or is the best match of a listing
\* that has no carrier of it.
VerdictInv ==
  \A c \in Calls, kind \in Kinds, k \in LocalIDs :
    Decided(c, kind, k) =>
      LET e    == letter[c].payload[kind][k]
          r    == verdict[c][kind][k]
          list == listing[c][kind]
      IN  /\ list # Nil
          /\ \/ /\ r \in LocalIDs /\ store[kind][r] # Nil
                /\ e.globalID # Nil /\ store[kind][r].globalID = e.globalID
             \/ /\ \A n \in DOMAIN list :
                     e.globalID # Nil => list[n].entity.globalID # e.globalID
                /\ IsBest(kind, e, list, r)

\* The inductive invariant of FederationProofs: its parts, each stated above.
IInv ==
  /\ TypeOK
  /\ KindsInv
  /\ LetterInv
  /\ CallInv
  /\ ListingInv
  /\ LinkInv
  /\ VerdictInv
=============================================================================
