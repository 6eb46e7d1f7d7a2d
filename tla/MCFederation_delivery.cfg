CONSTANTS
  Nil = Nil
  Blank = ""
  Pending = Pending
  Fold <- MCFold
  alice = alice
  bob = bob
  a1 = a1
  b1 = b1
  b2 = b2
  c1 = c1
  c2 = c2
  LocalIDs = {a1,b1,b2}
  Users = {alice,bob}
  Owner <- MCOwner
  Calls = {c1,c2}
  Catalog <- MCCatalog
  MaxLetters = 2
SPECIFICATION Spec
SYMMETRY Symmetry
INVARIANT TypeOK
INVARIANT RedeliveryIsNoWorse
INVARIANT RoundTripIsNoWorse
INVARIANT IInv
CHECK_DEADLOCK FALSE
