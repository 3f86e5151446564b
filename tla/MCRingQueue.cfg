CONSTANTS
  Capacity = 3
  Values = {0, 1, 2}
  ERR_EMPTY <- MCErrEmpty
SPECIFICATION Spec
INVARIANTS TypeOK EndAgrees
PROPERTY Implements
