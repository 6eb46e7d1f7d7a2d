CONSTANTS
  Nil = Nil
  Pending = Pending
  Blank = ""
  Fold <- MCFold
  l1 = l1
  l2 = l2
  l3 = l3
  s1 = s1
  s2 = s2
  LocalIDs = {l1,l2,l3}
  SenderIDs = {s1,s2}
  Catalog <- LocationCatalog
  StoreMayFail = FALSE
SPECIFICATION Spec
SYMMETRY Symmetry
INVARIANT TypeOK
INVARIANT FuzzyIsBest
INVARIANT KnownGlobalIDWins
INVARIANT NearbyPlaceWins
INVARIANT IInv
CHECK_DEADLOCK FALSE
