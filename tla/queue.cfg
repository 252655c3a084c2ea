SPECIFICATION Spec
CONSTANTS
  Thread = {t1, t2}
  Node = {n1, n2, n3}
  Data = {d1, d2}
  NULL = NULL
INVARIANTS WellLinked
PROPERTIES FifoSpec
CHECK_DEADLOCK FALSE
