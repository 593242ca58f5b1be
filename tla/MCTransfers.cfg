SPECIFICATION Spec
CONSTANTS
  Xfers = {x1, x2, x3}
INVARIANTS
  TypeOK
  CallbacksHaveData
  DataReleased
