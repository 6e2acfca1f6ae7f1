SPECIFICATION MC_RelocSpec
CONSTANTS
  N <- MC_N
  ALIGNMENT <- MC_ALIGNMENT
  ArmKernelReserve <- MC_ArmKernelReserve
  KernelBase <- MC_KernelBase
  KernelEnds <- MC_KernelEnds
  Sizes <- MC_Sizes
  RawAddrs <- MC_RawAddrs
  LinuxBuildAddrs <- MC_LinuxBuildAddrs
  Flags <- MC_RelocFlags
  Archs <- MC_Archs
  Bss <- MC_Bss
  LinkOutcomes <- MC_Outcomes
  MakeOutcomes <- MC_Success
  NoLoad = NoLoad
  NoAddr = NoAddr
  Partial = Partial
\* The build ends, successfully or not: a final state is not a deadlock.
CHECK_DEADLOCK FALSE
PROPERTY
  PlacementRefined
