\* Two pointer variables, three addresses (so that realloc can move a block
\* while another one is held), an empty request and two others, and an 8-byte
\* prefix as on LP64.  SizeMod is above the largest total, 3 * (5 + 8).
CONSTANTS
  Addr = {a1, a2, a3}
  Var = {p, q}
  NULL = NULL
  Requests = {0, 3, 5}
  PREFIX_SIZE = 8
  SizeMod = 64
SPECIFICATION ClientSpec
INVARIANTS
  HeaderTellsTheTruth
  Accounting
  PointersOwnBlocks
\* The process stops for good when it aborts.
CHECK_DEADLOCK FALSE
