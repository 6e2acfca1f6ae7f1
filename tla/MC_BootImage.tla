--------------------------- MODULE MC_BootImage ---------------------------
(***************************************************************************)
(* Instantiates BootImage with the bounds of MC_Relocator (see there) on   *)
(* the architecture of every available machine: arm takes the dite path   *)
(* with the kernel reservation, mips64 and alpha (64-bit ELF) with wrapped *)
(* readelf lines, powerpc plain; ia32 ends after the chain (its disk      *)
(* images are DiskImage's).                                                *)
(***************************************************************************)
EXTENDS BootImage

MC_N == 3
MC_ALIGNMENT == 4
MC_ArmKernelReserve == 256
MC_KernelBase == 64
MC_KernelEnds == {96, 98}
MC_Sizes == {4, 9}
MC_RawAddrs == {64, 512}
MC_LinuxBuildAddrs == {0}
MC_AllFlags == {"", "raw", "l"}
MC_Archs == {Mach!Attr(m, "arch") : m \in Mach!Available}
MC_Bss == 1
MC_Outcomes == BOOLEAN
=============================================================================
