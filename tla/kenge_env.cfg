CONSTANTS
  Libs <- MC_Libs
  DepChoices <- MC_DepChoices
  ProgChoices <- MC_ProgChoices
  Toolchains <- MC_Toolchains
  Machines <- MC_Machines
  MaxEnvs = 2
  MaxOps = 4
  Absent = Absent
  NoDeps = NoDeps
SPECIFICATION Spec
INVARIANTS TypeOK ProgramLinksClosure
PROPERTIES LibsIsolated
\* The read of the SConstructs ends after MaxOps calls or at an exception.
CHECK_DEADLOCK FALSE
