\* Liveness and the refinement, so without symmetry and with less of the rest.
\* Three nodes: a list of one can be copied, and one more node be added.
CONSTANTS
  v1 = v1
  v2 = v2
  v3 = v3
  v4 = v4
  List = {l1, l2}
  Node = {n1, n2, n3}
  Iter = {i1}
  Value = {v1, v2}
  NULL = NULL
  SizeofList = 48
  SizeofNode = 24
  SizeofIter = 16
  PREFIX_SIZE = 8
  SizeMod = 1024
  Content <- MCContent
  Methods <- MCAllOrNone
  Indices <- MCIndices
SPECIFICATION CSpec
PROPERTIES
  CallsReturn
  ImplementsSequences
CHECK_DEADLOCK FALSE
