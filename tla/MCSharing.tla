----------------------------- MODULE MCSharing ------------------------------
(***************************************************************************)
(* Two users, one of whom plans to meet at a cafe with a friend and a      *)
(* group, for model checking Sharing.                                      *)
(***************************************************************************)
EXTENDS Sharing, TLC

CONSTANTS alice, bob, cafe, ann, team, plan

MCUsers      == {alice, bob}
MCRefs       == {cafe, ann, team}
MCIntentions == {plan}

\* A target that names a location, and one that names a group.
MCTargets == plan :> <<cafe, team>>

\* The group has one member, whom the targets do not name.
MCMembers == cafe :> {} @@ ann :> {} @@ team :> {ann}

MCHome == [x \in MCRefs \cup MCIntentions |-> alice]

\* The friend is an entity of the other user's stores.
ForeignTargets == plan :> <<ann, cafe>>
ForeignHome    == [x \in MCRefs \cup MCIntentions |-> IF x = ann THEN bob ELSE alice]
=============================================================================
