\* One list, since no call here touches two; four nodes, so that an interior
\* node can have interior neighbours; one iterator, which the others would not
\* disturb.  SizeMod is above the largest total.
CONSTANTS
  List = {l1}
  Node = {n1, n2, n3, n4}
  Iter = {i1}
  Value = {v1, v2}
  NULL = NULL
  SizeofList = 48
  SizeofNode = 24
  SizeofIter = 16
  PREFIX_SIZE = 8
  SizeMod = 1024
SPECIFICATION Spec
INVARIANTS
  TypeOK
  IteratorsKeepTheirPlace
SYMMETRY Symmetry
\* The process stops for good when it aborts.
CHECK_DEADLOCK FALSE
