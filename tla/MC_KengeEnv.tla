---------------------------- MODULE MC_KengeEnv ----------------------------
(***************************************************************************)
(* KengeEnv for TLC.  Three libraries: c, l4 and check (the one           *)
(* BUILD_TESTS adds).  A library may depend on nothing, on one library   *)
(* or on gcc; a library stored again under its name closes a cycle.  A   *)
(* program asks for a library, for two, for the template entry, or for a *)
(* name no SConstruct added.  Two toolchains: pleb's and another.  The    *)
(* machines are pleb and ds20, which has no platform.                     *)
(***************************************************************************)
EXTENDS KengeEnv

MC_Libs == {"c", "l4", "check"}
MC_DepChoices == {<<>>, <<"c">>, <<"l4">>, <<"gcc">>}
MC_ProgChoices == {<<"l4">>, <<"l4", "c">>, <<"template">>, <<"nosuch">>}
MC_Toolchains == {"arm-linux-", "mips-elf-"}
MC_Machines == {"pleb", "ds20"}
=============================================================================
