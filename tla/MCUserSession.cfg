SPECIFICATION Spec
CONSTANTS
  Thread = {t1, t2}
  TTL = 2
  Lifetime = 3
  Limit = 1
  MaxVersion = 2
  MaxGen = 2
  MaxOthers = 2
SYMMETRY Symmetry
INVARIANTS StaleEndsInTime NotReactivated NotServedLate
PROPERTIES NewestSecretStays
CHECK_DEADLOCK FALSE
