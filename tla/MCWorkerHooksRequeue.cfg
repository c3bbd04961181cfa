\* Two tasks, every shape of a step but a long dump directory, one failure or kill, one requeue.
CONSTANTS
  Tasks = {t1, t2}
  Jobs <- ShortJobs
  NoFile = NoFile
  OldFile = OldFile
  MaxFaults = 1
  MaxRequeues = 1
SPECIFICATION FairSpec
INVARIANTS
  TypeOK
  CleanOrMarked
  WinnerPrepared
  SetupRounds
  CallbacksExclusive
PROPERTIES
  UsesWithLock
  InitHooksReturn
  DeadTasksReaped
\* The step ends.
CHECK_DEADLOCK FALSE
