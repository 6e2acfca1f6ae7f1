---------------------------- MODULE MC_BootMenu ----------------------------
(***************************************************************************)
(* BootMenu for TLC: a root task and one more module, each built in the   *)
(* kernel's build directory or in one whose path contains "kickstart"     *)
(* (a build.<conf> with such a conf name), with one of two names, plain   *)
(* or gzipped, relinked or raw.                                            *)
(***************************************************************************)
EXTENDS BootMenu

CONSTANTS BuildDir, KsBuildDir

MC_Dirs == {BuildDir, KsBuildDir}
MC_KsDirs == {KsBuildDir}
MC_Bases == {"ig_naming", "vmlinux"}
=============================================================================
