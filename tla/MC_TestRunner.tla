--------------------------- MODULE MC_TestRunner ---------------------------
(***************************************************************************)
(* TestRunner for TLC.  Trees over three variables, each name used at most *)
(* once: machine and example, which log_name reads, and toolchain, which   *)
(* it does not.  A Variable has no value, or two.  The shapes are empty   *)
(* And/Or, one child, two children, and a node nested as the first or the *)
(* last child of another.  machine is pleb or ia32, a class machines.py  *)
(* marks virtual, which scons rejects.  The user setups reach a machine  *)
(* from a config file, a broken file, and conf with its file present and *)
(* missing.                                                                 *)
(***************************************************************************)
EXTENDS TestRunner

MC_Vals(n) == IF n = "machine" THEN <<"pleb", "ia32">> ELSE <<"x", "y">>
MC_Leaf(n) == {[kind |-> "var", name |-> n, vals |-> v] : v \in {<<>>, MC_Vals(n)}}
MC_Node(k, kids) == [kind |-> k, kids |-> kids]
MC_Kinds == {"and", "or"}

MC_Trees ==
  {MC_Node(k, <<>>) : k \in MC_Kinds}
  \cup {MC_Node(k, <<a>>) : k \in MC_Kinds, a \in MC_Leaf("machine")}
  \cup {MC_Node(k, <<a, b>>) : k \in MC_Kinds, a \in MC_Leaf("machine"),
                               b \in MC_Leaf("example")}
  \cup {MC_Node(k, <<MC_Node(k2, <<a, b>>), c>>) :
          k \in MC_Kinds, k2 \in MC_Kinds, a \in MC_Leaf("machine"),
          b \in MC_Leaf("example"), c \in MC_Leaf("toolchain")}
  \cup {MC_Node(k, <<c, MC_Node(k2, <<a, b>>)>>) :
          k \in MC_Kinds, k2 \in MC_Kinds, a \in MC_Leaf("machine"),
          b \in MC_Leaf("example"), c \in MC_Leaf("toolchain")}

(* No constraint, machine=pleb, and toolchain=y.                           *)
MC_Constraints ==
  {[n \in {} |-> {}], [n \in {"machine"} |-> {"pleb"}], [n \in {"toolchain"} |-> {"y"}]}

(* Config files: one that picks a machine (and print_sim_log), one that    *)
(* sets conf=c, one execfile fails on; c.conf picks another machine and   *)
(* a build_dir.                                                            *)
MC_NoSets == [n \in {} |-> "None"]
MC_MachineFile == [ok |-> TRUE, sets |-> ("machine" :> "pleb2") @@ ("print_sim_log" :> TRUE)]
MC_ConfFile == [ok |-> TRUE, sets |-> ("conf" :> "c")]
MC_BrokenFile == [ok |-> FALSE, sets |-> MC_NoSets]
MC_CConf == [ok |-> TRUE, sets |-> ("machine" :> "nslu2") @@ ("build_dir" :> "b")]

(* No files; a .conf with a machine; a broken ~/.sconf; a .conf setting   *)
(* conf with c.conf present, and with it missing.                          *)
MC_UserSetups ==
  {[dot |-> NoFile, home |-> NoFile, confs |-> MC_NoSets],
   [dot |-> MC_MachineFile, home |-> NoFile, confs |-> MC_NoSets],
   [dot |-> NoFile, home |-> MC_BrokenFile, confs |-> MC_NoSets],
   [dot |-> MC_ConfFile, home |-> MC_MachineFile, confs |-> ("c" :> MC_CConf)],
   [dot |-> MC_ConfFile, home |-> NoFile, confs |-> MC_NoSets]}
=============================================================================
