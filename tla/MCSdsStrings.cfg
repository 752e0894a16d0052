\* The refinement, with one variable: sdsdup is left out, and room to spare.
CONSTANTS
  Addr = {a1, a2}
  Var = {s}
  NULL = NULL
  Byte <- MCByte
  Literals <- MCLiterals
  Csets <- MCCsets
  Indices <- MCMoreIndices
  TrimCleared = FALSE
  MaxRoom = 6
  SizeofHdr = 16
  PREFIX_SIZE = 8
  SizeMod = 1024
SPECIFICATION Spec
PROPERTIES
  ImplementsStrings
  CallsMakeTheirStrings
SYMMETRY AddrSymmetry
CHECK_DEADLOCK FALSE
