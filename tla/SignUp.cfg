SPECIFICATION Spec
CONSTANTS
  c1 = c1
  c2 = c2
  c3 = c3
  c4 = c4
  e1 = e1
  e2 = e2
  e3 = e3
  k1 = k1
  k2 = k2
  k3 = k3
  NoCall = NoCall
  NoEmail = NoEmail
  NoCode = NoCode
  Calls = {c1, c2, c3}
  Emails = {e1, e2, e3}
  Normalised <- Spellings
  Codes = {k1, k2}
  MaxTries = 2
  MaxRemovals = 1
  MaxLost = 1
SYMMETRY Symmetric
INVARIANTS ReferralForest CreditedIsOwner ReferralsCounted VerifiedIsWelcomed
PROPERTIES ConflictExplained
\* The system stops when every request is answered.
CHECK_DEADLOCK FALSE
