SPECIFICATION Spec
CONSTANTS
  None = None  Invalid = Invalid
PROPERTY NeighbourKeepsItsWords
CHECK_DEADLOCK FALSE
