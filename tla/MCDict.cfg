\* Three keys of which two share a bucket, four entries for chains, and two
\* tables: dictExpand finds one place for a second.
CONSTANTS
  simpleHash = simpleHash
  commonHash = commonHash
  k1 = k1
  k2 = k2
  k3 = k3
  Key = {k1, k2, k3}
  Hash <- MCHash
  Table = {t1, t2}
  Entry = {e1, e2, e3, e4}
  DictAddr = d
  PrivAddr = p
  NULL = NULL
  Value = {v1, v2}
  ExpandSizes = {3, 4, 5}
  Liberties = {}
  SizeofDict = 88
  SizeofEntry = 24
  SizeofPriv = 16
  SizeofPointer = 8
  PREFIX_SIZE = 8
  SizeMod = 1024
SPECIFICATION Spec
INVARIANTS
  NeverUndefined
  TablesAreSound
PROPERTIES
  ExpandsToTheLeastPower
  ReleaseFreesAll
SYMMETRY Symmetry
\* The process stops for good when it aborts.
CHECK_DEADLOCK FALSE
