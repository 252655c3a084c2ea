SPECIFICATION Spec
CONSTANTS
  Conn = {c1, c2, c3, c4}
  MaxClients = 3
  NULL = NULL
INVARIANTS
  IndInv
PROPERTIES
  IndexMapSpec
