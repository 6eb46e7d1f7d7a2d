CONSTANTS
  Nil = Nil
  Pending = Pending
  Blank = ""
  Fold <- MCFold
  l1 = l1
  l2 = l2
  s1 = s1
  LocalIDs = {l1,l2}
  SenderIDs = {s1}
  Catalog <- LocationCatalog
  StoreMayFail = FALSE
SPECIFICATION Spec
INVARIANT PossibleIsOnlyLogged
CHECK_DEADLOCK FALSE
