\* Three calls on a tree of three directories.
CONSTANTS
  c1 = c1
  c2 = c2
  c3 = c3
  top = top
  left = left
  right = right
  Calls = {c1, c2, c3}
  Dirs = {top, left, right}
  Path <- SharedPath
SPECIFICATION Spec
SYMMETRY PairSymmetry
INVARIANTS
  TypeOK
  ReadyIsReady
  NoneFailsAlone
\* All calls have returned in the end.
CHECK_DEADLOCK FALSE
