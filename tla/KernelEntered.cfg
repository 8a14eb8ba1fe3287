SPECIFICATION Spec
CONSTANTS
  Line <- MCLine
  Fault <- MCFault
  Soft <- MCSoft
INVARIANT TypeOK
INVARIANT OnlyInUser
INVARIANT ReadyWhenOn
PROPERTY LinesServed
CHECK_DEADLOCK FALSE
