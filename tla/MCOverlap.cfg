\* Three tasks, nothing fails.
CONSTANTS
  Tasks = {t1, t2, t3}
  Jobs <- EnrootJob
  NoFile = NoFile
  OldFile = OldFile
  MaxFaults = 0
  MaxRequeues = 0
SPECIFICATION Spec
SYMMETRY TaskSymmetry
INVARIANT
  CallbacksExclusive
\* The step ends.
CHECK_DEADLOCK FALSE
