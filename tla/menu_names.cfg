CONSTANTS
  BuildDir = BuildDir
  KsBuildDir = KsBuildDir
  Dirs <- MC_Dirs
  KsDirs <- MC_KsDirs
  Bases <- MC_Bases
  KernelDir = BuildDir
  NMods = 2
SPECIFICATION Spec
INVARIANT MenuMatchesImage
\* The SCons read ends with c.img built or with a UserError.
CHECK_DEADLOCK FALSE
