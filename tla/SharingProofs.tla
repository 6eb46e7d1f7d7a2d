--------------------------- MODULE SharingProofs ----------------------------
(***************************************************************************)
(* Theorems about Sharing: whatever the users store, share and re-key, and *)
(* whatever the network loses, repeats or reorders.                        *)
(***************************************************************************)
EXTENDS Sharing, TLAPS

USE DEF local, keys, post, vars

-----------------------------------------------------------------------------
(* Keys and calls. *)

\* The private key of a user is one that the user generated.
LEMMA PrivateIsOwn ==
  ASSUME TypeOK, NEW u \in Users, Private(u) # Nil
  PROVE  Private(u) \in Keys /\ Private(u) \in Range(made[u])
<1>1. made[u] \in Seq(Keys) /\ made[u] # <<>>
  BY DEF TypeOK, Private
<1>2. Len(made[u]) \in DOMAIN made[u] /\ made[u][Len(made[u])] \in Keys
  BY <1>1
<1> QED
  BY <1>1, <1>2 DEF Private, Last, Range

\* The arguments of a call that has begun, with its history.
Args == [from : Users, to : Users, intention : Intentions, key : Keys \cup {Nil},
         had : SUBSET Refs, published : [Users -> Keys \cup {Nil}]]

\* A call that has begun has arguments, and knows what it wants.
LEMMA BegunTyped ==
  ASSUME TypeOK, ArgsInv, NEW c \in Calls, at[c] # "idle"
  PROVE  /\ args[c] \in Args
         /\ Wanted(c) \in Seq(Refs)
<1>1. args[c] # NoArgs
  BY SharingAssumption DEF ArgsInv, NoArgs
<1>2. args[c] \in Args
  BY <1>1 DEF TypeOK, Args
<1> QED
  BY <1>2, SharingAssumption DEF Wanted, Args

\* Generating a pair adds to what its user generated, and takes nothing away.
LEMMA MadeGrows ==
  ASSUME TypeOK, NEW u \in Users, GenerateKeys(u), NEW v \in Users
  PROVE  Range(made[v]) \subseteq Range(made'[v])
<1>1. PICK k \in Keys : made' = [made EXCEPT ![u] = Append(@, k)]
  BY DEF GenerateKeys
<1>2. made[u] \in Seq(Keys) /\ made[v] \in Seq(Keys) /\ made \in [Users -> Seq(Keys)]
  BY DEF TypeOK
<1>3. CASE v # u
  BY <1>1, <1>2, <1>3
<1>4. CASE v = u
  <2>1. made'[v] = Append(made[v], k)
    BY <1>1, <1>2, <1>4
  <2>2. \A n \in DOMAIN made[v] : n \in DOMAIN made'[v] /\ made'[v][n] = made[v][n]
    BY <1>2, <2>1
  <2> QED
    BY <2>2 DEF Range
<1> QED
  BY <1>3, <1>4

\* What a call seals when its two ends have keys is a letter.
LEMMA EnvelopeTyped ==
  ASSUME TypeOK, ArgsInv, NEW c \in Calls, at[c] # "idle",
         NEW key \in Keys, args[c].key # Nil
  PROVE  Envelope(c, key) \in Letter
<1>1. /\ args[c].from \in Users /\ args[c].to \in Users
      /\ args[c].intention \in Intentions /\ args[c].key \in Keys
      /\ Wanted(c) \in Seq(Refs)
  BY BegunTyped DEF Args
<1>2. Wanted(c) \in Seq(Refs \cup {Nil})
  BY <1>1
<1>3. gathered[c] \in SUBSET Refs
  BY DEF TypeOK
<1>4. [intention |-> args[c].intention, targets |-> Wanted(c), entities |-> gathered[c]]
        \in Payload
  BY <1>1, <1>2, <1>3 DEF Payload
<1>5. AAD(args[c].from, args[c].to) \in Users \X Users
  BY <1>1 DEF AAD
<1> QED
  BY <1>1, <1>4, <1>5 DEF Envelope, Letter

\* What a letter leaves at its recipient has the type of an inbox entry.
LEMMA OpenedTyped ==
  ASSUME NEW m \in Letter
  PROVE  /\ Opened(m) \in [call : Calls, sender : Users, payload : Payload]
         /\ Opened(m).call = m.call
         /\ Opened(m).sender = m.sender
         /\ Opened(m).payload.intention = m.payload.intention
         /\ Opened(m).payload.entities = m.payload.entities
<1>1. m.payload \in Payload
  BY DEF Letter
<1> DEFINE decoded == [n \in DOMAIN m.payload.targets |-> Nil]
<1>2. m.payload.targets \in Seq(Refs \cup {Nil})
  BY <1>1 DEF Payload
<1>3. DOMAIN m.payload.targets = 1 .. Len(m.payload.targets)
      /\ Len(m.payload.targets) \in Nat
  BY <1>2
<1>4. decoded \in Seq(Refs \cup {Nil})
  BY <1>3
<1>5. Unmarshal(m.payload) = [m.payload EXCEPT !.targets = decoded]
  BY DEF Unmarshal
<1>6. /\ Unmarshal(m.payload) \in Payload
      /\ Unmarshal(m.payload).intention = m.payload.intention
      /\ Unmarshal(m.payload).entities = m.payload.entities
  <2> HIDE DEF decoded
  <2> QED
    BY <1>1, <1>4, <1>5 DEF Payload
<1>7. m.call \in Calls /\ m.sender \in Users
  BY DEF Letter
<1> QED
  BY <1>6, <1>7 DEF Opened

-----------------------------------------------------------------------------
(* The inductive invariant, one conjunct at a time. *)

\* Before anything is stored or shared the invariant holds.
LEMMA InitInv == Init => IInv
<1> SUFFICES ASSUME Init PROVE IInv
  OBVIOUS
<1>1. TypeOK
  BY SharingAssumption DEF Init, TypeOK
<1>2. /\ ArgsInv /\ KeyInv /\ PublishedInv
      /\ LetterInv /\ InboxInv /\ SuccessIsAccepted
  BY DEF Init, ArgsInv, KeyInv, PublishedInv, LetterInv, InboxInv, SuccessIsAccepted
<1>3. GatherInv
  BY DEF Init, GatherInv, NoArgs
<1> QED
  BY <1>1, <1>2, <1>3 DEF IInv

\* No step breaks a type: a letter is sealed with two keys, or not at all.
LEMMA TypeStep == IInv /\ [Next]_vars => TypeOK'
<1> SUFFICES ASSUME IInv, [Next]_vars PROVE TypeOK'
  OBVIOUS
<1>0. TypeOK /\ ArgsInv
  BY DEF IInv
<1> USE DEF TypeOK
<1>1. ASSUME NEW r \in Refs, AddEntity(r) PROVE TypeOK'
  BY <1>0, <1>1 DEF AddEntity
<1>2. ASSUME NEW i \in Intentions, AddIntention(i) PROVE TypeOK'
  BY <1>0, <1>2 DEF AddIntention
<1>3. ASSUME NEW u \in Users, GenerateKeys(u) PROVE TypeOK'
  BY <1>0, <1>3 DEF GenerateKeys
<1>4. ASSUME NEW u \in Users, StoreKey(u) PROVE TypeOK'
  BY <1>0, <1>4, PrivateIsOwn DEF StoreKey
<1>5. ASSUME NEW c \in Calls, NEW s \in Users, NEW r \in Users, NEW i \in Intentions,
             Begin(c, s, r, i)
      PROVE  TypeOK'
  <2>1. Private(s) \in Keys \cup {Nil}
    BY <1>0, PrivateIsOwn
  <2> DEFINE a == [from |-> s, to |-> r, intention |-> i, key |-> Private(s),
                   had |-> entities, published |-> directory]
  <2>2. a \in Args
    BY <1>0, <2>1 DEF Args
  <2>3. /\ args' = [args EXCEPT ![c] = a]
        /\ \/ at' = [at EXCEPT ![c] = "gather"]
           \/ at' = [at EXCEPT ![c] = "error"]
        /\ UNCHANGED <<local, keys, pos, gathered, letter, post>>
    BY <1>5 DEF Begin
  <2>4. args' \in [Calls -> Args \cup {NoArgs}]
    <3>1. args \in [Calls -> Args \cup {NoArgs}]
      BY <1>0 DEF Args
    <3> HIDE DEF a
    <3> QED
      BY <2>2, <2>3, <3>1
  <2>5. at' \in [Calls -> {"idle", "gather", "send", "ok", "error"}]
    BY <1>0, <2>3
  <2>6. /\ UNCHANGED <<entities, intentions, made, directory, pos, gathered, letter, mail,
                      accepted, inbox>>
        /\ NoArgs' = NoArgs
    BY <2>3 DEF NoArgs
  <2>7. args' \in [Calls -> [from : Users, to : Users, intention : Intentions,
                          key : Keys \cup {Nil}, had : SUBSET Refs,
                          published : [Users -> Keys \cup {Nil}]] \cup {NoArgs}]'
    BY <2>4, <2>6 DEF Args
  <2> QED
    BY <1>0, <2>5, <2>6, <2>7
<1>6. ASSUME NEW c \in Calls, Gather(c) PROVE TypeOK'
  <2>1. at[c] # "idle" /\ pos[c] <= Len(Wanted(c))
    BY <1>6 DEF Gather
  <2>2. Wanted(c) \in Seq(Refs)
    BY <1>0, <2>1, BegunTyped
  <2>3. Wanted(c)[pos[c]] \in Refs
    BY <1>0, <2>1, <2>2
  <2>4. gathered' \in [Calls -> SUBSET Refs]
    <3>1. gathered \in [Calls -> SUBSET Refs]
      BY <1>0
    <3>2. \/ gathered' = [gathered EXCEPT ![c] = @ \cup {Wanted(c)[pos[c]]}]
          \/ gathered' = gathered
      BY <1>6 DEF Gather
    <3> HIDE DEF TypeOK
    <3> QED
      BY <2>3, <3>1, <3>2
  <2>5. pos' \in [Calls -> Nat \ {0}]
    BY <1>0, <1>6 DEF Gather
  <2>6. UNCHANGED <<local, keys, at, args, letter, post>>
    BY <1>6 DEF Gather
  <2> QED
    BY <1>0, <2>4, <2>5, <2>6
<1>7. ASSUME NEW c \in Calls, Seal(c) PROVE TypeOK'
  <2>1. args[c].to \in Users
    BY <1>0, <1>7, BegunTyped DEF Seal, Args
  <2>2. directory[args[c].to] \in Keys
    BY <1>0, <1>7, <2>1 DEF Seal
  <2>3. Envelope(c, directory[args[c].to]) \in Letter
    BY <1>0, <1>7, <2>2, EnvelopeTyped DEF Seal
  <2> QED
    BY <1>0, <1>7, <2>3 DEF Seal
<1>8. ASSUME NEW c \in Calls, SealFails(c) \/ SendRejected(c) PROVE TypeOK'
  BY <1>0, <1>8 DEF SealFails, SendRejected
<1>9. ASSUME NEW c \in Calls, SendAccepted(c) \/ SendUnanswered(c) PROVE TypeOK'
  <2>1. letter[c] \in Letter
    BY <1>9 DEF IInv, LetterInv, SealedBy, SendAccepted, SendUnanswered
  <2> QED
    BY <1>0, <1>9, <2>1 DEF SendAccepted, SendUnanswered
<1>10. ASSUME NEW m \in mail, Lose(m) PROVE TypeOK'
  BY <1>0, <1>10 DEF Lose
<1>11. ASSUME NEW m \in mail, Receive(m) PROVE TypeOK'
  <2>1. m \in Letter
    BY <1>0
  <2>2. Opened(m) \in [call : Calls, sender : Users, payload : Payload]
    BY <2>1, OpenedTyped
  <2>3. mail' \subseteq accepted'
    BY <1>0, <1>11 DEF Receive
  <2>4. inbox' = inbox \/ inbox' = [inbox EXCEPT ![m.recipient] = @ \cup {Opened(m)}]
    BY <1>11 DEF Receive
  <2>5. inbox' \in [Users -> SUBSET [call : Calls, sender : Users, payload : Payload]]
    <3> HIDE DEF TypeOK
    <3>1. inbox \in [Users -> SUBSET [call : Calls, sender : Users, payload : Payload]]
      BY <1>0 DEF TypeOK
    <3> QED
      BY <2>2, <2>4, <3>1
  <2> QED
    BY <1>0, <1>11, <2>3, <2>5 DEF Receive
<1>12. CASE UNCHANGED vars
  BY <1>0, <1>12
<1> QED
  BY <1>1, <1>2, <1>3, <1>4, <1>5, <1>6, <1>7, <1>8, <1>9, <1>10, <1>11, <1>12
  DEF Next, ShareIntention

\* What a step leaves alone: it takes nothing from the stores, the generated keys
\* or the accepted letters, keeps the arguments of the calls that have begun, and
\* what they have read once they stop reading.
LEMMA Monotone ==
  ASSUME TypeOK, [Next]_vars
  PROVE  /\ entities \subseteq entities'
         /\ accepted \subseteq accepted'
         /\ \A u \in Users : Range(made[u]) \subseteq Range(made'[u])
         /\ \A c \in Calls :
              /\ at[c] # "idle" => at'[c] # "idle" /\ args'[c] = args[c]
              /\ at[c] = "idle" /\ (\A s, r \in Users, i \in Intentions : ~Begin(c, s, r, i))
                   => at'[c] = "idle" /\ args'[c] = args[c]
              /\ at[c] \in {"ok", "error"} => at'[c] = at[c]
              /\ \/ at[c] = "gather" /\ Gather(c)
                 \/ gathered'[c] = gathered[c] /\ pos'[c] = pos[c]
<1> DEFINE Begins(c) == \E s, r \in Users, i \in Intentions : Begin(c, s, r, i)
<1>1. entities \subseteq entities' /\ accepted \subseteq accepted'
  BY DEF Next, ShareIntention, AddEntity, AddIntention, GenerateKeys, StoreKey, Begin, Gather,
         Seal, SealFails, SendAccepted, SendRejected, SendUnanswered, Lose, Receive
<1>2. made' = made \/ \E u \in Users : GenerateKeys(u)
  BY DEF Next, ShareIntention, AddEntity, AddIntention, StoreKey, Begin, Gather,
         Seal, SealFails, SendAccepted, SendRejected, SendUnanswered, Lose, Receive
<1>3. \A u \in Users : Range(made[u]) \subseteq Range(made'[u])
  BY <1>2, MadeGrows
<1>4. ASSUME NEW d \in Calls, Begins(d) \/ Gather(d) \/ Seal(d) \/ SealFails(d)
               \/ SendAccepted(d) \/ SendRejected(d) \/ SendUnanswered(d),
             NEW c \in Calls, c # d
      PROVE  /\ at'[c] = at[c] /\ args'[c] = args[c]
             /\ gathered'[c] = gathered[c] /\ pos'[c] = pos[c]
  BY <1>4 DEF TypeOK, Begin, Gather, Seal, SealFails, SendAccepted, SendRejected, SendUnanswered
<1>5. ASSUME NEW c \in Calls,
             Gather(c) \/ Seal(c) \/ SealFails(c)
               \/ SendAccepted(c) \/ SendRejected(c) \/ SendUnanswered(c)
      PROVE  /\ at[c] \in {"gather", "send"} /\ at'[c] # "idle" /\ args'[c] = args[c]
             /\ \/ at[c] = "gather" /\ Gather(c)
                \/ gathered'[c] = gathered[c] /\ pos'[c] = pos[c]
  BY <1>5 DEF TypeOK, Gather, Seal, SealFails, SendAccepted, SendRejected, SendUnanswered
<1>6. ASSUME NEW c \in Calls, Begins(c)
      PROVE  at[c] = "idle" /\ gathered'[c] = gathered[c] /\ pos'[c] = pos[c]
  BY <1>6 DEF Begin
<1>7. \/ UNCHANGED <<at, args, gathered, pos>>
      \/ \E d \in Calls : \/ Begins(d) \/ Gather(d) \/ Seal(d) \/ SealFails(d)
                           \/ SendAccepted(d) \/ SendRejected(d) \/ SendUnanswered(d)
  BY DEF Next, ShareIntention, AddEntity, AddIntention, GenerateKeys, StoreKey, Lose, Receive
<1>8. ASSUME NEW c \in Calls
      PROVE  /\ at[c] # "idle" => at'[c] # "idle" /\ args'[c] = args[c]
             /\ at[c] = "idle" /\ ~Begins(c) => at'[c] = "idle" /\ args'[c] = args[c]
             /\ at[c] \in {"ok", "error"} => at'[c] = at[c]
             /\ \/ at[c] = "gather" /\ Gather(c)
                \/ gathered'[c] = gathered[c] /\ pos'[c] = pos[c]
  <2> HIDE DEF Begins
  <2> QED
    BY <1>4, <1>5, <1>6, <1>7
<1> QED
  BY <1>1, <1>3, <1>8

\* A call begins with arguments.
LEMMA ArgsStep == IInv /\ [Next]_vars => ArgsInv'
<1> SUFFICES ASSUME IInv, [Next]_vars, NEW c \in Calls, at'[c] # "idle"
             PROVE  args'[c].from \in Users
  BY DEF ArgsInv
<1>0. TypeOK /\ ArgsInv
  BY DEF IInv
<1>1. CASE at[c] # "idle"
  BY <1>0, <1>1, Monotone DEF ArgsInv
<1>2. CASE at[c] = "idle"
  <2>1. PICK s \in Users, r \in Users, i \in Intentions : Begin(c, s, r, i)
    BY <1>0, <1>2, Monotone
  <2>2. args'[c].from = s
    BY <1>0, <2>1 DEF TypeOK, Begin
  <2> QED
    BY <2>2
<1> QED
  BY <1>1, <1>2

\* A user uploads and signs with its own keys only.
LEMMA KeyStep == IInv /\ [Next]_vars => KeyInv'
<1> SUFFICES ASSUME IInv, [Next]_vars PROVE KeyInv'
  OBVIOUS
<1>0. /\ TypeOK /\ ArgsInv /\ KeyInv
      /\ \A u \in Users : Range(made[u]) \subseteq Range(made'[u])
  BY Monotone DEF IInv
<1>1. ASSUME NEW u \in Users, directory'[u] # Nil
      PROVE  directory'[u] \in Range(made'[u])
  <2>1. directory'[u] = directory[u] \/ (StoreKey(u) /\ directory'[u] = Private(u))
    BY <1>0 DEF TypeOK, Next, ShareIntention, AddEntity, AddIntention, GenerateKeys, StoreKey,
         Begin, Gather, Seal, SealFails, SendAccepted, SendRejected, SendUnanswered, Lose, Receive
  <2>2. CASE directory'[u] = directory[u]
    BY <1>0, <1>1, <2>2 DEF KeyInv
  <2>3. CASE StoreKey(u) /\ directory'[u] = Private(u)
    BY <1>0, <2>3, PrivateIsOwn DEF StoreKey
  <2> QED
    BY <2>1, <2>2, <2>3
<1>2. ASSUME NEW c \in Calls, at'[c] # "idle", args'[c].key # Nil
      PROVE  args'[c].key \in Range(made'[args'[c].from])
  <2>1. CASE at[c] # "idle"
    <3>1. args'[c] = args[c] /\ args[c].from \in Users
      BY <1>0, <2>1, Monotone DEF ArgsInv
    <3> QED
      BY <1>0, <1>2, <2>1, <3>1 DEF KeyInv
  <2>2. CASE at[c] = "idle"
    <3>1. PICK s \in Users, r \in Users, i \in Intentions : Begin(c, s, r, i)
      BY <1>0, <1>2, <2>2, Monotone
    <3>2. args'[c].key = Private(s) /\ args'[c].from = s /\ made' = made
      BY <1>0, <3>1 DEF TypeOK, Begin
    <3> QED
      BY <1>0, <1>2, <3>2, PrivateIsOwn
  <2> QED
    BY <2>1, <2>2
<1> QED
  BY <1>1, <1>2 DEF KeyInv

\* A user who generates a pair keeps none of the old ones, and what a user kept is
\* the pair it held before the step.
LEMMA KeptBefore ==
  ASSUME IInv, [Next]_vars, NEW c \in Calls, at[c] # "idle", NEW u \in Users, Kept(c, u)'
  PROVE  Kept(c, u) /\ Private(u)' = Private(u)
<1>0. TypeOK /\ PublishedInv /\ args'[c] = args[c]
  BY Monotone DEF IInv
<1>1. args[c].published[u] # Nil /\ args[c].published[u] \in Range(made[u])
  BY <1>0 DEF PublishedInv, Kept
<1>2. made'[u] = made[u] \/ GenerateKeys(u)
  BY <1>0 DEF TypeOK, Next, ShareIntention, AddEntity, AddIntention, GenerateKeys, StoreKey,
       Begin, Gather, Seal, SealFails, SendAccepted, SendRejected, SendUnanswered, Lose, Receive
<1>3. CASE made'[u] = made[u]
  BY <1>0, <1>3 DEF Kept, Private
<1>4. CASE GenerateKeys(u)
  <2>1. PICK k \in Keys \ UNION {Range(made[v]) : v \in Users} :
          made' = [made EXCEPT ![u] = Append(@, k)]
    BY <1>4 DEF GenerateKeys
  <2>2. made[u] \in Seq(Keys) /\ made'[u] = Append(made[u], k)
    BY <1>0, <2>1 DEF TypeOK
  <2>3. Private(u)' = k
    BY <2>2 DEF Private, Last
  <2>4. k \notin Range(made[u])
    BY <2>1
  <2> QED
    BY <1>0, <1>1, <2>3, <2>4 DEF Kept
<1> QED
  BY <1>2, <1>3, <1>4

\* A pair that was published and is still held stays the one in use.
LEMMA PublishedStep == IInv /\ [Next]_vars => PublishedInv'
<1> SUFFICES ASSUME IInv, [Next]_vars, NEW c \in Calls, at'[c] # "idle"
             PROVE  /\ \A u \in Users :
                         /\ args'[c].published[u] # Nil
                              => args'[c].published[u] \in Range(made'[u])
                         /\ Kept(c, u)' => directory'[u] = Private(u)'
                    /\ Kept(c, args[c].from)' => args'[c].key = Private(args[c].from)'
  BY DEF PublishedInv, Kept, Private
<1>0. /\ TypeOK /\ ArgsInv /\ KeyInv /\ PublishedInv
      /\ \A u \in Users : Range(made[u]) \subseteq Range(made'[u])
  BY Monotone DEF IInv
<1>1. CASE at[c] # "idle"
  <2>1. args'[c] = args[c] /\ args[c].from \in Users
    BY <1>0, <1>1, Monotone DEF ArgsInv
  <2>2. ASSUME NEW u \in Users, args'[c].published[u] # Nil
        PROVE  args'[c].published[u] \in Range(made'[u])
    BY <1>0, <1>1, <2>1, <2>2 DEF PublishedInv
  <2>3. ASSUME NEW u \in Users, Kept(c, u)'
        PROVE  directory'[u] = Private(u)'
    <3>1. Private(u)' = Private(u) /\ directory[u] = Private(u)
      BY <1>0, <1>1, <2>3, KeptBefore DEF PublishedInv
    <3>2. directory'[u] = directory[u] \/ directory'[u] = Private(u)
      BY <1>0 DEF TypeOK, Next, ShareIntention, AddEntity, AddIntention, GenerateKeys, StoreKey,
           Begin, Gather, Seal, SealFails, SendAccepted, SendRejected, SendUnanswered, Lose,
           Receive
    <3> QED
      BY <3>1, <3>2
  <2>4. ASSUME Kept(c, args[c].from)'
        PROVE  args'[c].key = Private(args[c].from)'
    <3>1. Kept(c, args[c].from) /\ Private(args[c].from)' = Private(args[c].from)
      BY <1>0, <1>1, <2>1, <2>4, KeptBefore DEF Kept, Private
    <3> QED
      BY <1>0, <1>1, <2>1, <3>1 DEF PublishedInv
  <2> QED
    BY <2>2, <2>3, <2>4
<1>2. CASE at[c] = "idle"
  <2>1. PICK s \in Users, r \in Users, i \in Intentions : Begin(c, s, r, i)
    BY <1>0, <1>2, Monotone
  <2>2. /\ args'[c].published = directory /\ args'[c].key = Private(s) /\ args'[c].from = s
        /\ made' = made /\ directory' = directory
    BY <1>0, <2>1 DEF TypeOK, Begin
  <2>3. \A u \in Users : Private(u)' = Private(u)
    BY <2>2 DEF Private
  <2> QED
    BY <1>0, <2>2, <2>3 DEF KeyInv, Kept
<1> QED
  BY <1>1, <1>2

\* A step keeps what is gathered true to the sender's stores, and complete as far
\* as the targets are passed.
LEMMA GatherStep == IInv /\ [Next]_vars => GatherInv'
<1> SUFFICES ASSUME IInv, [Next]_vars PROVE GatherInv'
  OBVIOUS
<1>0. TypeOK /\ ArgsInv /\ GatherInv /\ entities \subseteq entities'
  BY Monotone DEF IInv
<1> DEFINE Shared(a, st) == st \in {"gather", "send", "ok"} => Home[a.intention] = a.from
           True(W, a, es, g) ==
             \A r \in g : r \in es /\ Home[r] = a.from /\ r \in Range(W)
           Complete(W, a, g, p) ==
             ~StoreMayFail =>
               \A n \in DOMAIN W :
                 n < p /\ W[n] \in a.had /\ Home[W[n]] = a.from => W[n] \in g
           Inv(W, a, es, st, g, p) ==
             /\ Shared(a, st)
             /\ a.had \subseteq es
             /\ st = "idle" => g = {} /\ p = 1
             /\ True(W, a, es, g)
             /\ st # "idle" => Complete(W, a, g, p)
<1>1. \A c \in Calls : Inv(Wanted(c), args[c], entities, at[c], gathered[c], pos[c])
  BY <1>0 DEF GatherInv
<1>2. ASSUME NEW c \in Calls
      PROVE  Inv(Targets[args'[c].intention], args'[c], entities', at'[c], gathered'[c], pos'[c])
  <2> DEFINE W == Targets[args[c].intention]
  <2>0. Inv(W, args[c], entities, at[c], gathered[c], pos[c])
    BY <1>1 DEF Wanted
  <2>1. CASE /\ at[c] = "idle"
             /\ \A s, r \in Users, i \in Intentions : ~Begin(c, s, r, i)
    <3>1. at'[c] = "idle" /\ args'[c] = args[c]
      BY <1>0, <2>1, Monotone
    <3>2. gathered'[c] = gathered[c] /\ pos'[c] = pos[c]
      BY <1>0, <2>1, Monotone
    <3> QED
      BY <1>0, <2>0, <2>1, <3>1, <3>2
  <2>2. CASE \E s, r \in Users, i \in Intentions : Begin(c, s, r, i)
    <3>1. PICK s \in Users, r \in Users, i \in Intentions : Begin(c, s, r, i)
      BY <2>2
    <3>2. /\ args'[c].intention = i /\ args'[c].from = s /\ args'[c].had = entities
          /\ at'[c] # "idle"
          /\ at'[c] \in {"gather", "send", "ok"} => Home[i] = s
          /\ at[c] = "idle"
          /\ entities' = entities /\ gathered' = gathered /\ pos' = pos
      BY <1>0, <3>1 DEF TypeOK, Begin
    <3>3. gathered'[c] = {} /\ pos'[c] = 1
      BY <2>0, <3>2
    <3>4. Targets[i] \in Seq(Refs)
      BY SharingAssumption
    <3>5. \A n \in DOMAIN Targets[i] : ~(n < 1)
      BY <3>4
    <3> QED
      BY <3>2, <3>3, <3>5
  <2>3. CASE at[c] = "gather" /\ Gather(c)
    <3>1. args' = args /\ at' = at /\ entities' = entities
      BY <2>3 DEF Gather
    <3>2. W \in Seq(Refs) /\ W = Wanted(c)
      BY <1>0, <2>3, BegunTyped DEF Wanted
    <3>3. /\ pos[c] \in 1 .. Len(W)
          /\ pos'[c] = pos[c] + 1
          /\ \/ Finds(c) /\ gathered'[c] = gathered[c] \cup {W[pos[c]]}
             \/ (StoreMayFail \/ ~Finds(c)) /\ gathered'[c] = gathered[c]
      BY <1>0, <2>3, <3>2 DEF TypeOK, Gather
    <3>4. Finds(c) <=> W[pos[c]] \in entities /\ Home[W[pos[c]]] = args[c].from
      BY <3>2 DEF Finds
    <3>5. True(W, args[c], entities, gathered'[c])
      <4>1. W[pos[c]] \in Range(W)
        BY <3>2, <3>3 DEF Range
      <4> QED
        BY <2>0, <3>3, <3>4, <4>1
    <3>6. Complete(W, args[c], gathered'[c], pos'[c])
      <4> SUFFICES ASSUME ~StoreMayFail, NEW n \in DOMAIN W, n < pos[c] + 1,
                          W[n] \in args[c].had, Home[W[n]] = args[c].from
                   PROVE  W[n] \in gathered'[c]
        BY <3>3
      <4>1. CASE n < pos[c]
        BY <2>0, <2>3, <3>3, <4>1
      <4>2. CASE n = pos[c]
        BY <2>0, <3>3, <3>4, <4>2
      <4> QED
        BY <3>2, <3>3, <4>1, <4>2
    <3> QED
      BY <2>0, <2>3, <3>1, <3>5, <3>6
  <2>4. CASE /\ at[c] # "idle"
             /\ gathered'[c] = gathered[c] /\ pos'[c] = pos[c]
    <3>1. args'[c] = args[c] /\ at'[c] # "idle"
      BY <1>0, <2>4, Monotone
    <3>2. at'[c] \in {"gather", "send", "ok"} => at[c] \in {"gather", "send", "ok"}
      BY <1>0, <2>4, Monotone DEF TypeOK
    <3> QED
      BY <1>0, <2>0, <2>4, <3>1, <3>2
  <2> QED
    BY <1>0, <2>1, <2>2, <2>3, <2>4, Monotone
<1> QED
  BY <1>2 DEF GatherInv, Wanted

\* Once it has sealed a letter, a call is held to it.
LEMMA SealedStays ==
  ASSUME IInv, [Next]_vars, NEW c \in Calls, at[c] \in {"send", "ok", "error"},
         NEW m, SealedBy(c, m)
  PROVE  SealedBy(c, m)'
<1>0. TypeOK
  BY DEF IInv
<1>1. /\ args'[c] = args[c] /\ gathered'[c] = gathered[c] /\ pos'[c] = pos[c]
      /\ \A u \in Users : Range(made[u]) \subseteq Range(made'[u])
  BY <1>0, Monotone
<1>2. m \in Letter /\ m.recipient \in Users
  BY DEF SealedBy, Letter
<1>3. Envelope(c, m.sealedFor)' = Envelope(c, m.sealedFor) /\ Wanted(c)' = Wanted(c)
  BY <1>1 DEF Envelope, Wanted
<1>4. Kept(c, m.recipient)' => m.sealedFor = Private(m.recipient)'
  <2> SUFFICES ASSUME Kept(c, m.recipient)'
               PROVE  m.sealedFor = Private(m.recipient)'
    OBVIOUS
  <2>1. Kept(c, m.recipient) /\ Private(m.recipient)' = Private(m.recipient)
    BY <1>2, KeptBefore
  <2> QED
    BY <2>1 DEF SealedBy
<1> QED
  BY <1>1, <1>2, <1>3, <1>4 DEF SealedBy

\* What a call seals it seals with keys of its two ends, after its last read.
LEMMA SealSeals ==
  ASSUME IInv, NEW c \in Calls, Seal(c)
  PROVE  SealedBy(c, letter[c])'
<1> DEFINE key == directory[args[c].to]
<1>0. TypeOK /\ ArgsInv /\ KeyInv /\ PublishedInv /\ GatherInv
  BY DEF IInv
<1>1. /\ at[c] = "gather" /\ pos[c] > Len(Wanted(c))
      /\ key # Nil /\ args[c].key # Nil
      /\ UNCHANGED <<args, pos, gathered, made>>
  BY DEF Seal
<1>2. args[c].to \in Users
  BY <1>0, <1>1, BegunTyped DEF Args
<1>3. key \in Keys /\ key \in Range(made[args[c].to])
  BY <1>0, <1>1, <1>2 DEF TypeOK, KeyInv
<1>4. Envelope(c, key) \in Letter
  BY <1>0, <1>1, <1>3, EnvelopeTyped
<1>5. letter'[c] = Envelope(c, key)
  BY <1>0 DEF TypeOK, Seal
<1>6. letter'[c].sealedFor = key /\ letter'[c].recipient = args[c].to
  BY <1>5 DEF Envelope
<1>7. Wanted(c)' = Wanted(c)
  BY <1>1 DEF Wanted
<1>8. letter'[c] = Envelope(c, letter[c].sealedFor)'
  BY <1>1, <1>5, <1>6, <1>7 DEF Envelope
<1>9. Home[args[c].intention] = args[c].from
  BY <1>0, <1>1 DEF GatherInv
<1>10. Kept(c, letter[c].recipient)' => letter'[c].sealedFor = Private(letter[c].recipient)'
  BY <1>0, <1>1, <1>2, <1>6 DEF PublishedInv, Kept, Private
<1> QED
  BY <1>1, <1>3, <1>4, <1>5, <1>6, <1>7, <1>8, <1>9, <1>10 DEF SealedBy

\* Letters are sent as they were sealed.
LEMMA LetterStep == IInv /\ [Next]_vars => LetterInv'
<1> SUFFICES ASSUME IInv, [Next]_vars PROVE LetterInv'
  OBVIOUS
<1>0. TypeOK /\ LetterInv
  BY DEF IInv
<1>1. ASSUME NEW c \in Calls, at'[c] = "send" PROVE SealedBy(c, letter[c])'
  <2>1. Seal(c) \/ (at[c] = "send" /\ letter'[c] = letter[c])
    BY <1>0, <1>1 DEF TypeOK, Next, ShareIntention, AddEntity, AddIntention, GenerateKeys,
         StoreKey, Begin, Gather, Seal, SealFails, SendAccepted, SendRejected, SendUnanswered,
         Lose, Receive
  <2>2. CASE Seal(c)
    BY <2>2, SealSeals
  <2>3. CASE at[c] = "send" /\ letter'[c] = letter[c]
    <3>1. SealedBy(c, letter[c])
      BY <1>0, <2>3 DEF LetterInv
    <3>2. \A m : SealedBy(c, m) => SealedBy(c, m)'
      BY <2>3, SealedStays
    <3> QED
      BY <2>3, <3>1, <3>2 DEF SealedBy
  <2> QED
    BY <2>1, <2>2, <2>3
<1>2. ASSUME NEW m \in accepted'
      PROVE  at'[m.call] \in {"ok", "error"} /\ SealedBy(m.call, m)'
  <2>1. m \in accepted
        \/ \E c \in Calls : (SendAccepted(c) \/ SendUnanswered(c)) /\ m = letter[c]
    BY DEF Next, ShareIntention, AddEntity, AddIntention, GenerateKeys, StoreKey, Begin, Gather,
         Seal, SealFails, SendAccepted, SendRejected, SendUnanswered, Lose, Receive
  <2>2. CASE m \in accepted
    <3>1. m.call \in Calls /\ at[m.call] \in {"ok", "error"} /\ SealedBy(m.call, m)
      BY <1>0, <2>2 DEF TypeOK, LetterInv, Letter
    <3> QED
      BY <1>0, <3>1, SealedStays, Monotone
  <2>3. ASSUME NEW c \in Calls, SendAccepted(c) \/ SendUnanswered(c), m = letter[c]
        PROVE  at'[m.call] \in {"ok", "error"} /\ SealedBy(m.call, m)'
    <3>1. at[c] = "send" /\ at'[c] \in {"ok", "error"}
      BY <1>0, <2>3 DEF TypeOK, SendAccepted, SendUnanswered
    <3>2. SealedBy(c, m)
      BY <1>0, <2>3, <3>1 DEF LetterInv
    <3>3. m.call = c
      BY <3>2 DEF SealedBy, Envelope
    <3> QED
      BY <1>0, <3>1, <3>2, <3>3, SealedStays
  <2> QED
    BY <2>1, <2>2, <2>3
<1> QED
  BY <1>1, <1>2 DEF LetterInv

\* Nothing gets into an inbox but letters to its owner.
LEMMA InboxStep == IInv /\ [Next]_vars => InboxInv'
<1> SUFFICES ASSUME IInv, [Next]_vars, NEW u \in Users, NEW n \in inbox'[u]
             PROVE  \E m \in accepted' : m.recipient = u /\ n = Opened(m)
  BY DEF InboxInv, Opened, Unmarshal
<1>0. TypeOK /\ InboxInv /\ accepted \subseteq accepted'
  BY Monotone DEF IInv
<1>1. n \in inbox[u] \/ \E m \in mail : Receive(m)
  BY <1>0 DEF Next, ShareIntention, AddEntity, AddIntention, GenerateKeys, StoreKey, Begin, Gather,
       Seal, SealFails, SendAccepted, SendRejected, SendUnanswered, Lose
<1>2. CASE n \in inbox[u]
  BY <1>0, <1>2 DEF InboxInv
<1>3. ASSUME NEW m \in mail, Receive(m), n \notin inbox[u]
      PROVE  m.recipient = u /\ n = Opened(m) /\ m \in accepted'
  <2>1. m.recipient \in Users /\ m \in accepted
    BY <1>0 DEF TypeOK, Letter
  <2>2. inbox' = [inbox EXCEPT ![m.recipient] = @ \cup {Opened(m)}]
    BY <1>3 DEF Receive
  <2> QED
    BY <1>0, <1>3, <2>1, <2>2 DEF TypeOK
<1> QED
  BY <1>1, <1>2, <1>3

\* A call turns to success only by having its letter accepted.
LEMMA SuccessStep == IInv /\ [Next]_vars => SuccessIsAccepted'
<1> SUFFICES ASSUME IInv, [Next]_vars, NEW c \in Calls, at'[c] = "ok"
             PROVE  \E m \in accepted' : m.call = c /\ m.recipient = args'[c].to
  BY DEF SuccessIsAccepted
<1>0. TypeOK /\ LetterInv /\ SuccessIsAccepted /\ accepted \subseteq accepted'
  BY Monotone DEF IInv
<1>1. at[c] = "ok" \/ SendAccepted(c)
  BY <1>0 DEF TypeOK, Next, ShareIntention, AddEntity, AddIntention, GenerateKeys, StoreKey,
       Begin, Gather, Seal, SealFails, SendAccepted, SendRejected, SendUnanswered, Lose, Receive
<1>2. CASE at[c] = "ok"
  BY <1>0, <1>2, Monotone DEF SuccessIsAccepted
<1>3. CASE SendAccepted(c)
  <2>1. at[c] = "send" /\ letter[c] \in accepted' /\ args' = args
    BY <1>3 DEF SendAccepted
  <2>2. PICK key : letter[c] = Envelope(c, key)
    BY <1>0, <2>1 DEF LetterInv, SealedBy
  <2>3. letter[c].call = c /\ letter[c].recipient = args[c].to
    BY <2>2 DEF Envelope
  <2> QED
    BY <2>1, <2>3
<1> QED
  BY <1>1, <1>2, <1>3

-----------------------------------------------------------------------------
(* The theorems. *)

\* The inductive invariant holds throughout.
THEOREM Invariance == Spec => []IInv
<1>1. IInv /\ [Next]_vars => IInv'
  BY TypeStep, ArgsStep, KeyStep, PublishedStep, GatherStep, LetterStep, InboxStep, SuccessStep
  DEF IInv
<1> QED
  BY InitInv, <1>1, PTL DEF Spec

\* Every variable keeps its type, and no letter is built from a missing key.
THEOREM TypeCorrect == Spec => []TypeOK
BY Invariance, PTL DEF IInv

\* ShareIntention reports success only for a letter that was accepted.
THEOREM Success == Spec => []SuccessIsAccepted
BY Invariance, PTL DEF IInv

\* What a recipient opens is what its sender shared with it, however letters
\* are lost, repeated and reordered.
THEOREM Integrity == Spec => []OpenedIsShared
<1>1. IInv => OpenedIsShared
  <2> SUFFICES ASSUME IInv, NEW u \in Users, NEW n \in inbox[u]
               PROVE  LET c == n.call
                      IN  /\ at[c] \in {"ok", "error"}
                          /\ args[c].from = n.sender
                          /\ args[c].to = u
                          /\ n.payload.intention = args[c].intention
                          /\ Home[n.payload.intention] = n.sender
                          /\ \A r \in n.payload.entities :
                               r \in entities /\ Home[r] = n.sender
                                 /\ r \in Range(Targets[n.payload.intention])
    BY DEF OpenedIsShared
  <2>1. PICK m \in accepted : m.recipient = u /\ n = Opened(m)
    BY DEF IInv, InboxInv
  <2>2. /\ m \in Letter /\ m.call \in Calls
        /\ at[m.call] \in {"ok", "error"} /\ SealedBy(m.call, m)
    BY DEF IInv, TypeOK, LetterInv, Letter
  <2>3. /\ n.call = m.call /\ n.sender = m.sender
        /\ n.payload.intention = m.payload.intention
        /\ n.payload.entities = m.payload.entities
    BY <2>1, <2>2, OpenedTyped
  <2>4. /\ m.sender = args[m.call].from /\ m.recipient = args[m.call].to
        /\ m.payload.intention = args[m.call].intention
        /\ m.payload.entities = gathered[m.call]
        /\ Home[args[m.call].intention] = args[m.call].from
    BY <2>2 DEF SealedBy, Envelope
  <2>5. \A r \in gathered[m.call] :
          r \in entities /\ Home[r] = args[m.call].from
            /\ r \in Range(Targets[args[m.call].intention])
    BY <2>2 DEF IInv, GatherInv, Wanted
  <2> QED
    BY <2>1, <2>2, <2>3, <2>4, <2>5
<1> QED
  BY Invariance, <1>1, PTL

\* A letter can be opened if its two ends still hold the pairs that they had
\* published when its call began.
THEOREM Readability == Spec => []OpensUnlessRekeyed
<1>1. IInv => OpensUnlessRekeyed
  <2> SUFFICES ASSUME IInv, NEW m \in accepted,
                      Kept(m.call, m.sender), Kept(m.call, m.recipient)
               PROVE  Opens(m)
    BY DEF OpensUnlessRekeyed
  <2>1. /\ TypeOK /\ PublishedInv /\ m \in Letter /\ m.call \in Calls
        /\ at[m.call] # "idle" /\ SealedBy(m.call, m)
    BY DEF IInv, TypeOK, LetterInv, Letter
  <2>2. m.sender \in Users
    BY <2>1 DEF Letter
  <2>3. /\ m.sender = args[m.call].from /\ m.signedBy = args[m.call].key
        /\ m.aad = AAD(m.sender, m.recipient)
    BY <2>1 DEF SealedBy, Envelope
  <2>4. m.sealedFor = Private(m.recipient)
    BY <2>1 DEF SealedBy
  <2>5. /\ directory[m.sender] = Private(m.sender) /\ m.signedBy = Private(m.sender)
        /\ Private(m.sender) # Nil
    BY <2>1, <2>2, <2>3 DEF PublishedInv, Kept
  <2> QED
    BY <2>3, <2>4, <2>5 DEF Opens, Verifies, Decrypts
<1> QED
  BY Invariance, <1>1, PTL

\* With stores that cannot fail, every letter carries all the targets that its
\* sender had when the call began.
THEOREM Completeness ==
  ASSUME ~StoreMayFail
  PROVE  Spec => []PayloadIsComplete
<1>1. IInv => PayloadIsComplete
  <2> SUFFICES ASSUME IInv, NEW m \in accepted,
                      NEW r \in Range(m.payload.targets) \cap args[m.call].had,
                      Home[r] = m.sender
               PROVE  r \in m.payload.entities
    BY DEF PayloadIsComplete
  <2> DEFINE c == m.call
  <2>1. /\ TypeOK /\ ArgsInv /\ GatherInv /\ m \in Letter /\ c \in Calls
        /\ at[c] # "idle" /\ SealedBy(c, m)
    BY DEF IInv, TypeOK, LetterInv, Letter
  <2>2. /\ m.payload.targets = Wanted(c) /\ m.payload.entities = gathered[c]
        /\ m.sender = args[c].from /\ pos[c] > Len(Wanted(c))
    BY <2>1 DEF SealedBy, Envelope
  <2>3. Wanted(c) \in Seq(Refs) /\ pos[c] \in Nat
    BY <2>1, BegunTyped DEF TypeOK
  <2>4. PICK n \in DOMAIN Wanted(c) : r = Wanted(c)[n]
    BY <2>2 DEF Range
  <2>5. n < pos[c]
    BY <2>2, <2>3
  <2> QED
    BY <2>1, <2>2, <2>4, <2>5 DEF GatherInv
<1> QED
  BY Invariance, <1>1, PTL
=============================================================================
