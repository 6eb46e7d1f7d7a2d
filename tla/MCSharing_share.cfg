CONSTANTS
  Nil = Nil
  alice = alice
  bob = bob
  cafe = cafe
  ann = ann
  team = team
  plan = plan
  k1 = k1
  k2 = k2
  k3 = k3
  c1 = c1
  Users <- MCUsers
  Refs <- MCRefs
  Intentions <- MCIntentions
  Targets <- ForeignTargets
  Members <- MCMembers
  Home <- ForeignHome
  Keys = {k1,k2,k3}
  Calls = {c1}
  StoreMayFail = FALSE
SPECIFICATION FairSpec
INVARIANT TypeOK
INVARIANT OpensUnlessRekeyed
INVARIANT OpenedIsShared
INVARIANT PayloadIsComplete
INVARIANT SuccessIsAccepted
INVARIANT IInv
PROPERTY CallsReturn
CHECK_DEADLOCK FALSE
