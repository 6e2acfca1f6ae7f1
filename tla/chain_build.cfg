SPECIFICATION ImgSpec
CONSTANTS
  N <- MC_N
  ALIGNMENT <- MC_ALIGNMENT
  ArmKernelReserve <- MC_ArmKernelReserve
  KernelBase <- MC_KernelBase
  KernelEnds <- MC_KernelEnds
  Sizes <- MC_Sizes
  RawAddrs <- MC_RawAddrs
  LinuxBuildAddrs <- MC_LinuxBuildAddrs
  Flags <- MC_AllFlags
  Archs <- MC_Archs
  Bss <- MC_Bss
  LinkOutcomes <- MC_Outcomes
  MakeOutcomes <- MC_Outcomes
  KipOutcomes <- MC_Outcomes
  NoLoad = NoLoad
  NoAddr = NoAddr
  Partial = Partial
  NoKip = NoKip
\* The build ends with the image built or with an error: not a deadlock.
CHECK_DEADLOCK FALSE
INVARIANT
  TypeOK
  LinkedJustAfterPredecessor
  DiteFilesExist
  DiteArchKnown
