\* The run ends when MaxValues values have been written and read, or with a
\* value that cannot be parsed.
CHECK_DEADLOCK FALSE
SPECIFICATION Spec
CONSTANTS
  Messages <- MessageList
  MaxValues = 3
INVARIANTS
  ReadsBack
  Aligned
  SkipsWhole
