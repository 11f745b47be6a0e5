CONSTANTS
  a = a
  b = b
  Cached = 0
  Client = {1, 2, 3}
  Kept <- MCKept
  Letter <- MCLetter
  MaxTyped = 2
  MaxRemoved = 1
SYMMETRY MCSymmetry
SPECIFICATION Spec
INVARIANTS
  TypeOK
  TextSorted
  Converges
  NoteIsText
CHECK_DEADLOCK FALSE
