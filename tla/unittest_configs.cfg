CONSTANTS
  Trees <- MC_Trees
  Constraints <- MC_Constraints
  Machine = "machine"
  Example = "example"
  TestLib = "test_lib"
  Wombat = "wombat"
  BuildDirKey = "build_dir"
  UserSetups <- MC_UserSetups
  NoFile = NoFile
SPECIFICATION Spec
INVARIANTS TypeOK EveryConfigOnce LoggedCommandIsRunCommand SconsBuildsRequested
\* main ends by sys.exit after the summary, or by an uncaught exception.
CHECK_DEADLOCK FALSE
