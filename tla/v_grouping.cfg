SPECIFICATION Spec
CONSTANTS
  None = None  Invalid = Invalid
PROPERTY ContinuationJoins
CHECK_DEADLOCK FALSE
