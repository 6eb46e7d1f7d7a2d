CONSTANTS
  Nil = Nil
  Pending = Pending
  Blank = ""
  Fold <- MCFold
  l1 = l1
  l2 = l2
  s1 = s1
  s2 = s2
  LocalIDs = {l1,l2}
  SenderIDs = {s1,s2}
  Catalog <- MixedCatalog
  StoreMayFail = TRUE
SPECIFICATION FairSpec
INVARIANT EveryMappingJustified
PROPERTY Refinement
PROPERTY Completes
CHECK_DEADLOCK FALSE
