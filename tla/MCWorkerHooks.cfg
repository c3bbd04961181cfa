\* Three tasks on a worker with Enroot, one failure or kill.
CONSTANTS
  Tasks = {t1, t2, t3}
  Jobs <- EnrootJobs
  NoFile = NoFile
  OldFile = OldFile
  MaxFaults = 1
  MaxRequeues = 0
SPECIFICATION Spec
SYMMETRY TaskSymmetry
INVARIANTS
  CleanOrMarked
  WinnerPrepared
  SetupRounds
\* The step ends.
CHECK_DEADLOCK FALSE
