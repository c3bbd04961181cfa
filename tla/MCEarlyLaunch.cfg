\* Two tasks, nothing fails.
CONSTANTS
  Tasks = {t1, t2}
  Jobs <- EnrootJob
  NoFile = NoFile
  OldFile = OldFile
  MaxFaults = 0
  MaxRequeues = 0
SPECIFICATION Spec
SYMMETRY TaskSymmetry
INVARIANT
  PreparedBeforeLaunch
\* The step ends.
CHECK_DEADLOCK FALSE
