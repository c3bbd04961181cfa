\* A step inside another, one edit by a user, no failure.
CONSTANTS
  Steps = {s1, s2}
  Login = Login
  Environs <- PlainShell
  Options <- CommandLines
  MaxFaults = 0
  MaxEdits = 1
SPECIFICATION Spec
SYMMETRY StepSymmetry
INVARIANT
  UserDirUntouched
\* Every step is launched in the end.
CHECK_DEADLOCK FALSE
