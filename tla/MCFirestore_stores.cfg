CONSTANTS
  Nil = Nil
  Blank = Blank
  p1 = p1
  p2 = p2
  g1 = g1
  l1 = l1
  i1 = i1
  u1 = u1
  u2 = u2
  t1 = t1
  t2 = t2
  People = {p1,p2}
  Groups = {g1}
  Places = {l1}
  Plans = {i1}
  Users = {u1,u2}
  Drafts <- MCDrafts
  Times <- MCTimes
  Callers = {t1,t2}
  MaxAttempts = 2
SPECIFICATION FairSpec
INVARIANT TypeOK
INVARIANT QueriesAgree
INVARIANT AcknowledgedIsFound
INVARIANT LocationsHaveOneAudience
INVARIANT IInv
PROPERTY Linearizable
PROPERTY CallsReturn
