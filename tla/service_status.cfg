SPECIFICATION Spec
CONSTANTS
  Cmd = {c1}
  Pid = {p1, p2, p3}
  NULL = NULL
  Lines <- NoLines
  Scenes <- Orderly
PROPERTIES StatusHarmless
