SPECIFICATION Spec
CONSTANTS
  Builders <- MC_Both
  Dev <- MC_Dev
  NSources <- MC_NSources
  Capacity <- MC_Roomy
  ToolsMayFail = FALSE
  None = None
\* Every builder returns or raises: its final step is not a deadlock.
CHECK_DEADLOCK FALSE
INVARIANT
  SuccessMeansBootable
