CONSTANTS
  Nil = Nil
  alice = alice
  bob = bob
  cafe = cafe
  ann = ann
  team = team
  plan = plan
  k1 = k1
  k2 = k2
  c1 = c1
  Users <- MCUsers
  Refs <- MCRefs
  Intentions <- MCIntentions
  Targets <- MCTargets
  Members <- MCMembers
  Home <- MCHome
  Keys = {k1,k2}
  Calls = {c1}
  StoreMayFail = FALSE
SPECIFICATION Spec
INVARIANT IntentionIsPortable
CHECK_DEADLOCK FALSE
