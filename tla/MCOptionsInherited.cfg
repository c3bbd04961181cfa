\* A step inside another, no edit by a user, no failure.
CONSTANTS
  Steps = {s1, s2}
  Login = Login
  Environs <- PlainShell
  Options <- CommandLines
  MaxFaults = 0
  MaxEdits = 0
SPECIFICATION Spec
SYMMETRY StepSymmetry
INVARIANT
  ConfigurationOrder
\* Every step is launched in the end.
CHECK_DEADLOCK FALSE
