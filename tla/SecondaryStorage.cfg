SPECIFICATION Spec
CONSTANTS
  Writers = {w1, w2}
  Readers = {r1, r2}
  NoValue = NoValue
  Limit = 2
  Window = 3
  Lifetime = 2
  MaxLosses = 1
INVARIANTS KeysExpire AdmissionsAreBounded UsedOnce MissIsExplained
PROPERTIES ServedAgain
\* The calls on a token end and its time runs out.
CHECK_DEADLOCK FALSE
