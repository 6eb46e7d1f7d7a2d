------------------------------ MODULE Sharing -------------------------------
(***************************************************************************)
(* Sharing an intention between two clients: App.ShareIntention            *)
(* (app/intentionapp.go) with pkg/crypto and the two HTTP clients, the     *)
(* external key and routing services as those clients see them, and the    *)
(* receiving side as demo/distributedsecure carries it out.                *)
(*                                                                         *)
(* Cryptography is symbolic: a key pair is one value, sealing and signing  *)
(* record which pair was used, and a letter opens only with the same one.  *)
(* Every ShareIntention encrypts under a fresh AES key and nonce, so that  *)
(* letters of different calls differ.  The AAD, senderID:recipientID, is   *)
(* the pair of the two ids: ids contain no colon.                          *)
(***************************************************************************)
EXTENDS Integers, Sequences, SequencesExt

CONSTANTS
  Nil,
  Users,
  Refs,         \* the UUIDs of locations, people and groups
  Intentions,   \* the UUIDs of intentions
  Targets,      \* Targets[i]: the refs that intention i's targets name, in order
  Members,      \* Members[r]: the MemberIDs of r, empty unless r is a group
  Home,         \* Home[x]: the user whose stores may hold the ref or intention x
  Keys,         \* key pairs; how many there are bounds GenerateKeys
  Calls,        \* calls of ShareIntention; how many there are bounds them
  StoreMayFail  \* TRUE for Firestore, FALSE for the in-memory stores

ASSUME SharingAssumption ==
  /\ Targets \in [Intentions -> Seq(Refs)]
  /\ Members \in [Refs -> SUBSET Refs]
  /\ Home \in [Refs \cup Intentions -> Users]
  /\ Nil \notin Users \cup Refs \cup Intentions \cup Keys
  /\ StoreMayFail \in BOOLEAN

VARIABLES
  entities,   \* the refs that are stored, each by its home
  intentions, \* the intentions that are stored, each by its home
  made,       \* made[u]: the key pairs u generated; u's client holds the last
  directory,  \* directory[u]: the public key the key service has for u, or Nil
  at,         \* at[c]: where the call c is
  args,       \* args[c]: the arguments of c, and, as history, the refs stored and the
              \* keys published when it began
  pos,        \* pos[c]: the position in the targets of the next ref to read
  gathered,   \* gathered[c]: the refs whose entities are in the payload
  letter,     \* letter[c]: the SecureEnvelope of c, or Nil
  mail,       \* the letters that the routing service still has to deliver
  accepted,   \* the letters that it ever accepted (a history variable)
  inbox       \* inbox[u]: what u's client has opened

local  == <<entities, intentions>>
keys   == <<made, directory>>
post   == <<mail, accepted, inbox>>
vars   == <<local, keys, at, args, pos, gathered, letter, post>>

NoArgs == [from |-> Nil, to |-> Nil, intention |-> Nil, key |-> Nil, had |-> {},
           published |-> [u \in Users |-> Nil]]

\* The private key a user's client holds, or Nil.
Private(u) == IF made[u] = <<>> THEN Nil ELSE Last(made[u])

-----------------------------------------------------------------------------
Init ==
  /\ entities = {}
  /\ intentions = {}
  /\ made = [u \in Users |-> <<>>]
  /\ directory = [u \in Users |-> Nil]
  /\ at = [c \in Calls |-> "idle"]
  /\ args = [c \in Calls |-> NoArgs]
  /\ pos = [c \in Calls |-> 1]
  /\ gathered = [c \in Calls |-> {}]
  /\ letter = [c \in Calls |-> Nil]
  /\ mail = {}
  /\ accepted = {}
  /\ inbox = [u \in Users |-> {}]

(* The user's own stores. *)

\* Add, AddPerson, AddGroup.
AddEntity(r) ==
  /\ r \notin entities
  /\ entities' = entities \cup {r}
  /\ UNCHANGED <<intentions, keys, at, args, pos, gathered, letter, post>>

\* AddIntention does not look whether its targets exist.
AddIntention(i) ==
  /\ i \notin intentions
  /\ Targets[i] # <<>>
  /\ intentions' = intentions \cup {i}
  /\ UNCHANGED <<entities, keys, at, args, pos, gathered, letter, post>>

(* Keys.  Nothing persists a private key: a client that starts again makes
   a new pair, and uploads it in a second step. *)

GenerateKeys(u) ==
  /\ \E k \in Keys \ UNION {Range(made[v]) : v \in Users} :
       made' = [made EXCEPT ![u] = Append(@, k)]
  /\ UNCHANGED <<local, directory, at, args, pos, gathered, letter, post>>

StoreKey(u) ==
  /\ Private(u) # Nil
  /\ directory' = [directory EXCEPT ![u] = Private(u)]
  /\ UNCHANGED <<local, made, at, args, pos, gathered, letter, post>>

(* ShareIntention. *)

\* The query of buildSharedPayload, over all the intentions of the sender.
Begin(c, s, r, i) ==
  /\ at[c] = "idle"
  /\ args' = [args EXCEPT ![c] = [from |-> s, to |-> r, intention |-> i,
                                  key |-> Private(s), had |-> entities,
                                  published |-> directory]]
  /\ \/ /\ i \in intentions /\ Home[i] = s
        /\ at' = [at EXCEPT ![c] = "gather"]
     \/ /\ StoreMayFail \/ ~(i \in intentions /\ Home[i] = s)
        /\ at' = [at EXCEPT ![c] = "error"]
  /\ UNCHANGED <<local, keys, pos, gathered, letter, post>>

Wanted(c) == Targets[args[c].intention]

\* Mutant: one store is shared by all users.
FindsAnywhere(c) == Wanted(c)[pos[c]] \in entities

\* The sender's stores have the entity of the next target.
Finds(c) ==
  /\ Wanted(c)[pos[c]] \in entities
  /\ Home[Wanted(c)[pos[c]]] = args[c].from

\* Mutant: what a failing read returns joins the payload too.
GatherAnyway(c) ==
  /\ at[c] = "gather"
  /\ pos[c] <= Len(Wanted(c))
  /\ gathered' = [gathered EXCEPT ![c] = @ \cup {Wanted(c)[pos[c]]}]
  /\ pos' = [pos EXCEPT ![c] = @ + 1]
  /\ UNCHANGED <<local, keys, at, args, letter, post>>

\* GetLocation, GetPerson, GetGroup: an entity that is read joins the payload,
\* one that is not found, or not read for another reason, is passed over.
Gather(c) ==
  /\ at[c] = "gather"
  /\ pos[c] <= Len(Wanted(c))
  /\ \/ /\ Finds(c)
        /\ gathered' = [gathered EXCEPT ![c] = @ \cup {Wanted(c)[pos[c]]}]
     \/ /\ StoreMayFail \/ ~Finds(c)
        /\ UNCHANGED gathered
  /\ pos' = [pos EXCEPT ![c] = @ + 1]
  /\ UNCHANGED <<local, keys, at, args, letter, post>>

AAD(sender, recipient) == <<sender, recipient>>

\* Encrypt and Sign, and the SecureEnvelope around them.
Envelope(c, key) ==
  [call      |-> c,
   sender    |-> args[c].from,
   recipient |-> args[c].to,
   payload   |-> [intention |-> args[c].intention,
                  targets   |-> Wanted(c),
                  entities  |-> gathered[c]],
   aad       |-> AAD(args[c].from, args[c].to),
   sealedFor |-> key,
   signedBy  |-> args[c].key]

\* Mutant: the error of GetKey is not looked at.
SealUnchecked(c) ==
  /\ at[c] = "gather"
  /\ pos[c] > Len(Wanted(c))
  /\ args[c].key # Nil
  /\ letter' = [letter EXCEPT ![c] = Envelope(c, directory[args[c].to])]
  /\ at' = [at EXCEPT ![c] = "send"]
  /\ UNCHANGED <<local, keys, args, pos, gathered, post>>

\* Mutant: a recipient's first key is kept for all letters.
SealCached(c) ==
  /\ at[c] = "gather"
  /\ pos[c] > Len(Wanted(c))
  /\ directory[args[c].to] # Nil
  /\ args[c].key # Nil
  /\ letter' = [letter EXCEPT ![c] = Envelope(c, Head(made[args[c].to]))]
  /\ at' = [at EXCEPT ![c] = "send"]
  /\ UNCHANGED <<local, keys, args, pos, gathered, post>>

\* Mutant: the last target is not gathered.
SealEarly(c) ==
  /\ at[c] = "gather"
  /\ pos[c] >= Len(Wanted(c))
  /\ directory[args[c].to] # Nil
  /\ args[c].key # Nil
  /\ letter' = [letter EXCEPT ![c] = Envelope(c, directory[args[c].to])]
  /\ at' = [at EXCEPT ![c] = "send"]
  /\ UNCHANGED <<local, keys, args, pos, gathered, post>>

\* GetKey of the recipient, Encrypt, Sign.
Seal(c) ==
  /\ at[c] = "gather"
  /\ pos[c] > Len(Wanted(c))
  /\ directory[args[c].to] # Nil
  /\ args[c].key # Nil
  /\ letter' = [letter EXCEPT ![c] = Envelope(c, directory[args[c].to])]
  /\ at' = [at EXCEPT ![c] = "send"]
  /\ UNCHANGED <<local, keys, args, pos, gathered, post>>

\* Mutant: a call without a private key waits for one.
SealFailsUnknown(c) ==
  /\ at[c] = "gather"
  /\ pos[c] > Len(Wanted(c))
  /\ args[c].key # Nil
  /\ at' = [at EXCEPT ![c] = "error"]
  /\ UNCHANGED <<local, keys, args, pos, gathered, letter, post>>

\* The key service fails or does not know the recipient, or the sender has no
\* private key to sign with.
SealFails(c) ==
  /\ at[c] = "gather"
  /\ pos[c] > Len(Wanted(c))
  /\ at' = [at EXCEPT ![c] = "error"]
  /\ UNCHANGED <<local, keys, args, pos, gathered, letter, post>>

\* The routing service answers 202 Accepted.
SendAccepted(c) ==
  /\ at[c] = "send"
  /\ mail' = mail \cup {letter[c]}
  /\ accepted' = accepted \cup {letter[c]}
  /\ at' = [at EXCEPT ![c] = "ok"]
  /\ UNCHANGED <<local, keys, args, pos, gathered, letter, inbox>>

\* Mutant: the status code is not looked at.
SendUnchecked(c) ==
  /\ at[c] = "send"
  /\ at' = [at EXCEPT ![c] = "ok"]
  /\ UNCHANGED <<local, keys, args, pos, gathered, letter, post>>

\* It answers otherwise, or the request does not reach it.
SendRejected(c) ==
  /\ at[c] = "send"
  /\ at' = [at EXCEPT ![c] = "error"]
  /\ UNCHANGED <<local, keys, args, pos, gathered, letter, post>>

\* It accepts the letter, but its answer is lost or later than 15 seconds.
SendUnanswered(c) ==
  /\ at[c] = "send"
  /\ mail' = mail \cup {letter[c]}
  /\ accepted' = accepted \cup {letter[c]}
  /\ at' = [at EXCEPT ![c] = "error"]
  /\ UNCHANGED <<local, keys, args, pos, gathered, letter, inbox>>

(* The routing service and the receiving client. *)

Lose(m) ==
  /\ m \in mail
  /\ mail' = mail \ {m}
  /\ UNCHANGED <<local, keys, at, args, pos, gathered, letter, accepted, inbox>>

\* Verify against a public key, which a failing GetKey leaves Nil.
Verifies(m, key) == key # Nil /\ m.signedBy = key

\* Decrypt: the AES key opens with the private key, the data with the AAD.
Decrypts(m, aad, key) == m.sealedFor = key /\ m.aad = aad

Opens(m) ==
  /\ Verifies(m, directory[m.sender])
  /\ Decrypts(m, AAD(m.sender, m.recipient), Private(m.recipient))

\* json.Unmarshal cannot decode an element of the interface slice Targets: it
\* leaves nil in its place, goes on, and returns an error, which is dropped.
Unmarshal(payload) ==
  [payload EXCEPT !.targets = [n \in DOMAIN payload.targets |-> Nil]]

\* What a letter leaves at its recipient.
Opened(m) == [call |-> m.call, sender |-> m.sender, payload |-> Unmarshal(m.payload)]

\* The recipient's client gets a letter, once or again, and opens it, or refuses
\* it because it does not open or because GetKey fails.  (The demo has one sender
\* and one letter, and ends when the letter does not open: here the client verifies
\* with the key of the letter's own sender, takes letters one by one and goes on.)
Receive(m) ==
  /\ m \in mail
  /\ mail' \in {mail, mail \ {m}}
  /\ \/ /\ Opens(m)
        /\ inbox' = [inbox EXCEPT ![m.recipient] = @ \cup {Opened(m)}]
     \/ UNCHANGED inbox
  /\ UNCHANGED <<local, keys, at, args, pos, gathered, letter, accepted>>

ShareIntention(c) ==
  \/ \E s, r \in Users, i \in Intentions : Begin(c, s, r, i)
  \/ Gather(c)
  \/ Seal(c) \/ SealFails(c)
  \/ SendAccepted(c) \/ SendRejected(c) \/ SendUnanswered(c)

\* A call that has begun runs on by itself: every read, request and timeout ends.
Proceeds(c) ==
  \/ Gather(c)
  \/ Seal(c) \/ SealFails(c)
  \/ SendAccepted(c) \/ SendRejected(c) \/ SendUnanswered(c)

Next ==
  \/ \E r \in Refs : AddEntity(r)
  \/ \E i \in Intentions : AddIntention(i)
  \/ \E u \in Users : GenerateKeys(u) \/ StoreKey(u)
  \/ \E c \in Calls : ShareIntention(c)
  \/ \E m \in mail : Lose(m) \/ Receive(m)

Spec == Init /\ [][Next]_vars

FairSpec == Spec /\ \A c \in Calls : WF_vars(Proceeds(c))

-----------------------------------------------------------------------------
(* Properties. *)

Payload == [intention : Intentions, targets : Seq(Refs \cup {Nil}), entities : SUBSET Refs]

Letter == [call : Calls, sender : Users, recipient : Users, payload : Payload,
           aad : Users \X Users, sealedFor : Keys, signedBy : Keys]

\* Every variable keeps its type: no letter is built from a missing key.
TypeOK ==
  /\ entities \subseteq Refs
  /\ intentions \subseteq Intentions
  /\ made \in [Users -> Seq(Keys)]
  /\ directory \in [Users -> Keys \cup {Nil}]
  /\ at \in [Calls -> {"idle", "gather", "send", "ok", "error"}]
  /\ args \in [Calls -> [from : Users, to : Users, intention : Intentions,
                         key : Keys \cup {Nil}, had : SUBSET Refs,
                         published : [Users -> Keys \cup {Nil}]] \cup {NoArgs}]
  /\ pos \in [Calls -> Nat \ {0}]
  /\ gathered \in [Calls -> SUBSET Refs]
  /\ letter \in [Calls -> Letter \cup {Nil}]
  /\ mail \subseteq accepted
  /\ accepted \subseteq Letter
  /\ inbox \in [Users -> SUBSET [call : Calls, sender : Users, payload : Payload]]

\* What a recipient opens is what its sender shared with it: the letter of a
\* call of that sender to that recipient, with entities of the sender's own
\* stores only, and of those only targets of the shared intention.
OpenedIsShared ==
  \A u \in Users : \A n \in inbox[u] :
    LET c == n.call
    IN  /\ at[c] \in {"ok", "error"}
        /\ args[c].from = n.sender
        /\ args[c].to = u
        /\ n.payload.intention = args[c].intention
        /\ Home[n.payload.intention] = n.sender
        /\ \A r \in n.payload.entities :
             r \in entities /\ Home[r] = n.sender
               /\ r \in Range(Targets[n.payload.intention])

\* A call reports success only when the routing service has accepted a letter
\* of that call for its recipient, whatever the network does to the answer.
SuccessIsAccepted ==
  \A c \in Calls :
    at[c] = "ok" => \E m \in accepted : m.call = c /\ m.recipient = args[c].to

\* u still holds the pair whose public key the directory had when c began.
Kept(c, u) == args[c].published[u] # Nil /\ args[c].published[u] = Private(u)

\* Only a new key pair makes a letter unreadable: whatever pairs the two ends had
\* before, and lost in a restart, the recipient can verify and decrypt every letter
\* of a call that began when both had published the pairs that they still hold.
OpensUnlessRekeyed ==
  \A m \in accepted : Kept(m.call, m.sender) /\ Kept(m.call, m.recipient) => Opens(m)

\* intentionapp.go:120, "gathers an intention and all its related data": a
\* letter carries every target its sender's stores had when the call began.
PayloadIsComplete ==
  \A m \in accepted :
    \A r \in Range(m.payload.targets) \cap args[m.call].had :
      Home[r] = m.sender => r \in m.payload.entities

\* Every call of ShareIntention returns.
CallsReturn ==
  \A c \in Calls : at[c] = "gather" ~> at[c] \in {"ok", "error"}

-----------------------------------------------------------------------------
(* Why the properties hold: the inductive invariant. *)

\* A call that has begun has arguments.
ArgsInv ==
  \A c \in Calls : at[c] # "idle" => args[c].from \in Users

\* Keys come from their owner: what the directory offers for a user, and what a
\* call signs with, was generated by that user.
KeyInv ==
  /\ \A u \in Users : directory[u] # Nil => directory[u] \in Range(made[u])
  /\ \A c \in Calls :
       at[c] # "idle" /\ args[c].key # Nil => args[c].key \in Range(made[args[c].from])

\* A pair that was published when a call began, and is still held, is still the one
\* that the directory has and that the call signs with.
PublishedInv ==
  \A c \in Calls : at[c] # "idle" =>
    /\ \A u \in Users :
         /\ args[c].published[u] # Nil => args[c].published[u] \in Range(made[u])
         /\ Kept(c, u) => directory[u] = Private(u)
    /\ Kept(c, args[c].from) => args[c].key = Private(args[c].from)

\* A call that was not refused shares an intention of its sender, and what it
\* has gathered are the targets passed so far, as far as they are stored there.
GatherInv ==
  \A c \in Calls :
    /\ at[c] \in {"gather", "send", "ok"} => Home[args[c].intention] = args[c].from
    /\ args[c].had \subseteq entities
    /\ at[c] = "idle" => gathered[c] = {} /\ pos[c] = 1
    /\ \A r \in gathered[c] :
         r \in entities /\ Home[r] = args[c].from /\ r \in Range(Wanted(c))
    /\ at[c] # "idle" /\ ~StoreMayFail =>
         \A n \in DOMAIN Wanted(c) :
           n < pos[c] /\ Wanted(c)[n] \in args[c].had /\ Home[Wanted(c)[n]] = args[c].from
           => Wanted(c)[n] \in gathered[c]

\* The letter m is one that the call c, which has read all it wants, sealed with
\* keys of its two ends, and with the one that the recipient kept, if it kept one.
SealedBy(c, m) ==
  /\ m \in Letter
  /\ m = Envelope(c, m.sealedFor)
  /\ m.sealedFor \in Range(made[m.recipient])
  /\ Kept(c, m.recipient) => m.sealedFor = Private(m.recipient)
  /\ Home[args[c].intention] = args[c].from
  /\ pos[c] > Len(Wanted(c))

\* Every letter, sent or accepted, is one that its call sealed.
LetterInv ==
  /\ \A c \in Calls : at[c] = "send" => SealedBy(c, letter[c])
  /\ \A m \in accepted : at[m.call] \in {"ok", "error"} /\ SealedBy(m.call, m)

\* What is in an inbox was taken from a letter to its owner.
InboxInv ==
  \A u \in Users : \A n \in inbox[u] : \E m \in accepted : m.recipient = u /\ n = Opened(m)

\* The inductive invariant of Spec.
IInv ==
  /\ TypeOK
  /\ ArgsInv
  /\ KeyInv
  /\ PublishedInv
  /\ GatherInv
  /\ LetterInv
  /\ InboxInv
  /\ SuccessIsAccepted

-----------------------------------------------------------------------------
(* What the documents say, and the code does not do. *)

\* payload.go:11, "self-contained": the people a shared group refers to are in
\* the payload, as far as the sender's stores have them.
GroupsAreSelfContained ==
  \A m \in accepted :
    \A g \in m.payload.entities :
      \A p \in Members[g] \cap args[m.call].had :
        Home[p] = m.sender => p \in m.payload.entities

\* payload.go:11, "portable representation of an intention": the recipient gets
\* the intention with its targets.
IntentionIsPortable ==
  \A u \in Users : \A n \in inbox[u] :
    n.payload.targets = Targets[n.payload.intention]
=============================================================================
