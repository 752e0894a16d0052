\* Two strings of up to four bytes of a few kinds, and a third address to move
\* to.  TRUE: callers may trim a string they have cleared.
CONSTANTS
  Addr = {a1, a2, a3}
  Var = {s, t}
  NULL = NULL
  Byte <- MCByte
  Literals <- MCLiterals
  Csets <- MCCsets
  Indices <- MCIndices
  TrimCleared = TRUE
  MaxRoom = 4
  SizeofHdr = 16
  PREFIX_SIZE = 8
  SizeMod = 1024
SPECIFICATION Spec
INVARIANTS
  NeverUndefined
  HandlesOwnTheirBlocks
  ReadAsStrings
SYMMETRY Symmetry
\* The process stops for good when it aborts.
CHECK_DEADLOCK FALSE
