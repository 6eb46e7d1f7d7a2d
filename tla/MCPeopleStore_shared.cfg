CONSTANTS
  Nil = Nil
  p1 = p1
  p2 = p2
  p3 = p3
  p4 = p4
  g1 = g1
  t1 = t1
  t2 = t2
  People <- MCPeople
  Contacts <- MCContacts
  Groups <- MCGroups
  Callers <- MCCallers
SPECIFICATION Spec
INVARIANT TypeOK
INVARIANT MembersAreDistinct
INVARIANT HoldersRelease
INVARIANT IInv
PROPERTY Linearizable
