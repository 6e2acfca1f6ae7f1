--------------------------- MODULE MC_Relocator ---------------------------
(***************************************************************************)
(* Instantiates Relocator for TLC.  One address unit is 0x4000 (16 KiB):   *)
(* ALIGNMENT 0x10000 is 4 units, the arm reservation of 4 MiB is 256       *)
(* units, and the kernel starts at 0x100000 (64 units) and ends at         *)
(* 0x180000 (96, aligned) or 0x188000 (98, not aligned).  Module sizes of  *)
(* 4 units (a multiple of ALIGNMENT) and 9 units (0x23400 rounded, the     *)
(* spec's example) reach both branches of align().  A raw ELF may be       *)
(* linked where the kernel starts (0x100000) or far above it (0x800000).   *)
(* The architectures are those of machines.py's available machines.      *)
(***************************************************************************)
EXTENDS Relocator

MC_N == 3
MC_ALIGNMENT == 4
MC_ArmKernelReserve == 256
MC_KernelBase == 64
MC_KernelEnds == {96, 98}
MC_Sizes == {4, 9}
MC_RawAddrs == {64, 512}
MC_LinuxBuildAddrs == {0}
MC_AllFlags == {"", "raw", "l"}
MC_RelocFlags == {"", "l"}
MC_PlainFlags == {""}
MC_Archs == {Mach!Attr(m, "arch") : m \in Mach!Available}
MC_Bss == 1
MC_Outcomes == BOOLEAN
MC_Success == {TRUE}

(* The chain without raw modules (flags "" and "l"): PassRaw and          *)
(* ExtentNotFound, which only a raw module enables, are left out; every    *)
(* other step is Relocator's, under Relocator's fairness.                   *)
MC_RelocNext ==
  \/ \E k \in Mods :
       \/ RelinkOk(k)
       \/ RelinkFails(k)
       \/ RelinkLinux(k)
  \/ Finish
MC_RelocSpec == Init /\ [][MC_RelocNext]_vars /\ WF_vars(MC_RelocNext)

(* The refinement of the spec's placement contract (Placement).            *)
Abs == INSTANCE Placement WITH
         cursor <- IF ~Found(Last) THEN NoAddr ELSE LinkAddress(Last),
         next <- pc,
         placed <- [k \in Mods |-> IF k < pc /\ flag[k] # "raw"
                                    THEN linkedAt[k] ELSE NoAddr],
         outcome <- status

PlacementRefined == Abs!Spec
=============================================================================
