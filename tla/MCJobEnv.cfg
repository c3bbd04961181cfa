\* A step inside another, one edit by a user, one setenv failure.
CONSTANTS
  Steps = {s1, s2}
  Login = Login
  Environs <- Shells
  Options <- CommandLines
  MaxFaults = 1
  MaxEdits = 1
SPECIFICATION Spec
SYMMETRY StepSymmetry
INVARIANTS
  TypeOK
  UserValueKept
  StepDirOwn
  LoginOrder
\* Every step is launched in the end.
CHECK_DEADLOCK FALSE
