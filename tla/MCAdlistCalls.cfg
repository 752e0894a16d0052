\* Two lists and four nodes: a list of two can be copied in full, and a list of
\* three until malloc fails.  Four values in pairs of equal content.
CONSTANTS
  v1 = v1
  v2 = v2
  v3 = v3
  v4 = v4
  List = {l1, l2}
  Node = {n1, n2, n3, n4}
  Iter = {i1}
  Value = {v1, v2, v3, v4}
  NULL = NULL
  SizeofList = 48
  SizeofNode = 24
  SizeofIter = 16
  PREFIX_SIZE = 8
  SizeMod = 1024
  Content <- MCContent
  Methods <- MCMethods
  Indices <- MCIndices
SPECIFICATION CSpec
INVARIANTS
  NeverUndefined
  SoundBetweenCalls
PROPERTIES
  LookupsAreRight
  DupRollsBack
SYMMETRY Symmetry
\* The process stops for good when it aborts.
CHECK_DEADLOCK FALSE
