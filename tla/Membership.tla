----------------------------- MODULE Membership -----------------------------
(***************************************************************************)
(* What a people.Store (pkg/people/personstore.go) promises to goroutines  *)
(* that share it, of people, groups and their members.                     *)
(*                                                                         *)
(* A group is a set that only grows.  Each AddMemberToGroup takes effect   *)
(* at one moment between its call and its return, and is refused only if   *)
(* something it refers to does not exist at that moment.  A group that     *)
(* GetGroup returned stays in its caller's hands as it was when read.  Of  *)
(* a call that fails it is unknown whether it took effect.                 *)
(***************************************************************************)
CONSTANTS
  Nil,
  People,      \* the UUIDs of people
  Groups,      \* the UUIDs of groups
  Callers,     \* the goroutines that use the store
  NeedsPerson, \* whether a member has to be a stored person
  MayFail      \* whether the store may fail

VARIABLES
  people,   \* the people that are stored
  members,  \* members[g]: the set of members of the group g, or Nil
  request,  \* request[t]: what t asks AddMemberToGroup for, or Nil
  answer,   \* answer[t]: the outcome that t has still to be told
  view      \* view[t]: the members of the group that t read last, or Nil

absVars == <<people, members, request, answer, view>>

AbsInit ==
  /\ people = {}
  /\ members = [g \in Groups |-> Nil]
  /\ request = [t \in Callers |-> Nil]
  /\ answer = [t \in Callers |-> "none"]
  /\ view = [t \in Callers |-> Nil]

AddPerson(p) ==
  /\ people' = people \cup {p}
  /\ UNCHANGED <<members, request, answer, view>>

AddGroup(g) ==
  /\ members[g] = Nil
  /\ members' = [members EXCEPT ![g] = {}]
  /\ UNCHANGED <<people, request, answer, view>>

Idle(t) == request[t] = Nil /\ answer[t] = "none"

Call(t, g, p) ==
  /\ Idle(t)
  /\ request' = [request EXCEPT ![t] = [group |-> g, person |-> p]]
  /\ UNCHANGED <<people, members, answer, view>>

Admissible(r) ==
  /\ members[r.group] # Nil
  /\ NeedsPerson => r.person \in people

Join(t) ==
  /\ request[t] # Nil
  /\ Admissible(request[t])
  /\ members' = [members EXCEPT ![request[t].group] = @ \cup {request[t].person}]
  /\ request' = [request EXCEPT ![t] = Nil]
  /\ answer' = [answer EXCEPT ![t] = "joined"]
  /\ UNCHANGED <<people, view>>

Refuse(t) ==
  /\ request[t] # Nil
  /\ ~Admissible(request[t])
  /\ request' = [request EXCEPT ![t] = Nil]
  /\ answer' = [answer EXCEPT ![t] = "refused"]
  /\ UNCHANGED <<people, members, view>>

Fail(t) ==
  /\ MayFail
  /\ request[t] # Nil
  /\ \/ UNCHANGED members
     \/ /\ Admissible(request[t])
        /\ members' = [members EXCEPT ![request[t].group] = @ \cup {request[t].person}]
  /\ request' = [request EXCEPT ![t] = Nil]
  /\ answer' = [answer EXCEPT ![t] = "failed"]
  /\ UNCHANGED <<people, view>>

Return(t) ==
  /\ answer[t] # "none"
  /\ answer' = [answer EXCEPT ![t] = "none"]
  /\ UNCHANGED <<people, members, request, view>>

Read(t, g) ==
  /\ Idle(t)
  /\ view' = [view EXCEPT ![t] = members[g]]
  /\ UNCHANGED <<people, members, request, answer>>

ReadFails(t) ==
  /\ MayFail
  /\ Idle(t)
  /\ answer' = [answer EXCEPT ![t] = "failed"]
  /\ UNCHANGED <<people, members, request, view>>

AbsNext ==
  \/ \E p \in People : AddPerson(p)
  \/ \E g \in Groups : AddGroup(g)
  \/ \E t \in Callers :
       \/ \E g \in Groups, p \in People : Call(t, g, p)
       \/ Join(t) \/ Refuse(t) \/ Fail(t) \/ Return(t) \/ ReadFails(t)
       \/ \E g \in Groups : Read(t, g)

AbsSpec == AbsInit /\ [][AbsNext]_absVars
=============================================================================
