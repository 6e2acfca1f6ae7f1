---------------------------- MODULE BootImage ----------------------------
(***************************************************************************)
(* The relocation chain composed with the embedded image composer,        *)
(* BootImageBuilder of src/src/tools/bootimg.py.  On every architecture    *)
(* but ia32, Bootimage (build.py) makes bootimg.dite depend on the whole   *)
(* `depends` list; once the chain is done SCons runs BootImageBuilder,     *)
(* which reads the kernel's `kip` symbol with nm, builds one dite argument *)
(* group per module (rest = [(init, "i")] + others) and runs dite.         *)
(***************************************************************************)
EXTENDS Relocator, TLC

CONSTANTS
  KipOutcomes,   \* whether nm finds `kip` in the kernel: a subset of BOOLEAN
  NoKip          \* model value: get_symbol_addr returned None

VARIABLES
  kip,       \* the kip address dite is given, or NoKip
  diteArgs,  \* diteArgs[k]: the file dite is given for module k
  diteOpts,  \* the architecture's options on dite's command line, or NoAddr
  image      \* bootimg.dite: "none", "built", "failed" or "UnboundLocalError"

imgVars == <<vars, kip, diteArgs, diteOpts, image>>

(* Mutant: the powerpc branch of the chain of elifs left out.              *)
DiteArchOptionsNoPowerpc ==
  [a \in {"arm", "ia32", "mips64", "alpha", "powerpc64"} |->
     [phy |-> a \in {"arm", "mips64"}, extra |-> {}]]

(* The if/elif chain on self.arch: whether the kernel is given by its      *)
(* physical address (phy_kernel "-p") and the extra options (patch_kcp on  *)
(* ia32, the address rewrites on mips64 and alpha).  An architecture      *)
(* outside the chain leaves phy_kernel unbound.                            *)
DiteArchOptions ==
  ("arm" :> [phy |-> TRUE, extra |-> {}])
  @@ ("ia32" :> [phy |-> FALSE, extra |-> {"kcp-mainmem"}])
  @@ ("mips64" :> [phy |-> TRUE,
                  extra |-> {"elf-modify-virtaddr", "elf-modify-physaddr", "kcp-mainmem"}])
  @@ ("alpha" :> [phy |-> FALSE, extra |-> {"elf-modify-physaddr"}])
  @@ ("powerpc" :> [phy |-> FALSE, extra |-> {}])
  @@ ("powerpc64" :> [phy |-> FALSE, extra |-> {}])

(* The flag BootImageBuilder sees: the root task is passed as (init, "i"), *)
(* whereas the chain relinked it with flag "".                             *)
DiteFlag(k) == IF k = 1 THEN "i" ELSE flag[k]

(* Mutant: a raw module passed by its .reloc name like the others.         *)
DiteEntryRawAsReloc(k) == [mod |-> k, file |-> "reloc"]

(* The file of module k on the dite command line: the binary itself with  *)
(* -R for "raw", <app>.reloc for "l" and for every other flag.            *)
DiteEntry(k) ==
  IF DiteFlag(k) = "raw" THEN [mod |-> k, file |-> "input"]
                         ELSE [mod |-> k, file |-> "reloc"]

(* The file is on disk and is a complete ELF.                              *)
FileOk(e) ==
  IF e.file = "reloc" THEN relocAt[e.mod] \in Addr ELSE srcPresent[e.mod]

(* get_symbol_addr(kernel, "kip"): the kernel's symbol, or None.           *)
ImgInit ==
  /\ Init
  /\ kip \in {IF found THEN "kip" ELSE NoKip : found \in KipOutcomes}
  /\ diteArgs = [k \in Mods |-> NoAddr]
  /\ diteOpts = NoAddr
  /\ image = "none"

(* BootImageBuilder.__call__: the command line names every module's file; *)
(* dite fails on a file it cannot read; given "-K 0xNone" it reads the     *)
(* address as it can (strtoul gives 0) and may or may not go on; a        *)
(* non-zero exit raises "Error running dite".  Reading phy_kernel for an  *)
(* architecture the elif chain does not know raises first.               *)
RunDite ==
  /\ status = "done" /\ image = "none" /\ arch # "ia32"
  /\ IF arch \in DOMAIN DiteArchOptions
       THEN /\ diteOpts' = DiteArchOptions[arch]
            /\ diteArgs' = [k \in Mods |-> DiteEntry(k)]
            /\ \E ok \in IF \E k \in Mods : ~FileOk(DiteEntry(k)) THEN {FALSE}
                         ELSE IF kip = NoKip THEN BOOLEAN
                         ELSE {TRUE} :
                 image' = IF ok THEN "built" ELSE "failed"
       ELSE /\ image' = "UnboundLocalError"
            /\ UNCHANGED <<diteArgs, diteOpts>>
  /\ UNCHANGED <<vars, kip>>

(* The image variables stay as they are while the chain runs.            *)
ImgKeep == UNCHANGED <<kip, diteArgs, diteOpts, image>>

(* The chain's steps (Relocator's Next, disjunct by disjunct), then dite. *)
ImgNext ==
  \/ \E k \in Mods :
       \/ ExtentNotFound(k) /\ ImgKeep
       \/ RelinkOk(k) /\ ImgKeep
       \/ RelinkFails(k) /\ ImgKeep
       \/ RelinkLinux(k) /\ ImgKeep
       \/ PassRaw(k) /\ ImgKeep
  \/ Finish /\ ImgKeep
  \/ RunDite

ImgSpec == ImgInit /\ [][ImgNext]_imgVars

-----------------------------------------------------------------------------
(* When dite runs after a successful chain, every file its command line    *)
(* names is on disk and complete: Bootimage's `flags != "raw"` test that   *)
(* decides which modules get a .reloc and BootImageBuilder's own flag      *)
(* tests that decide which file to pass agree, although they see          *)
(* different flags for the root task.                                      *)
DiteFilesExist ==
  image \in {"built", "failed"} => \A k \in Mods : FileOk(diteArgs[k])

(* Every architecture of an available machine (machines.py) that builds a *)
(* dite image has a branch in BootImageBuilder's elif chain, so dite runs *)
(* with the kernel addressed as that architecture needs instead of the    *)
(* builder failing on an unbound phy_kernel after the whole chain.        *)
DiteArchKnown ==
  image # "UnboundLocalError"
=============================================================================
