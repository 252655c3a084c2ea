SPECIFICATION FairSpec
CONSTANT Thread = {t1, t2, t3, t4}
INVARIANTS
  IndInv
  Exclusion
PROPERTIES
  LockSpec
  SomebodyEnters
