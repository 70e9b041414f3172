SPECIFICATION Spec
CONSTANTS
  Calls = {c1, c2, c3}
  Tokens = {t1}
  Keys = {k1, k2}
  First = First
  None = None
SYMMETRY CallSymmetry
INVARIANTS
  TypeOK
  AdmittedWasValid
  DeletedOnce
  DeletedIsNotListed
  HolderIsCurrent
  RevocationIsEffective
PROPERTY TableIsAtomic
CHECK_DEADLOCK FALSE
