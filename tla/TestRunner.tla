----------------------------- MODULE TestRunner -----------------------------
(***************************************************************************)
(* The unit-test runner of src/src/tools: the And/Or configuration trees   *)
(* of ut_config.py, and ConfigTree, OrderedDict, TestRun and main of       *)
(* ut_core.py.  main counts the configurations the tree yields and the    *)
(* command-line constraints allow, then walks them again: with -n it       *)
(* prints each command, otherwise it runs scons for each, counts passes   *)
(* and failures, and logs failed (or, with -l all, every) test.  Ctrl-C   *)
(* ends the loop early; the summary is printed and the exit status says   *)
(* whether a test failed.                                                  *)
(*                                                                         *)
(* A tree is a record: [kind |-> "var", name, vals] for Variable, or       *)
(* [kind |-> "and"/"or", kids] for And and Or.  A generator yields either *)
(* a (name, val) tuple, [tuple |-> [name, val]], or a list of tuples,     *)
(* [list |-> <<[name, val], ...>>].  An OrderedDict is [dict, order]: the  *)
(* function and the list insert_order.  main is given an And or Or tree   *)
(* (a bare Variable yields tuples, which ConfigTree cannot unpack).  Test  *)
(* outcomes are chosen when a test runs.                                  *)
(***************************************************************************)
EXTENDS Integers, Sequences, SequencesExt

CONSTANTS
  Trees,        \* the configuration trees main may be given
  Constraints,  \* the name=val,... constraints get_options may return
  Machine,      \* the variable names TestRun reads: 'machine',
  Example,      \* 'example',
  TestLib,      \* 'test_lib'
  Wombat,       \* and 'wombat'
  BuildDirKey,  \* the key 'build_dir' command_line stores
  UserSetups,   \* the user's config files scons may find (see Options)
  NoFile        \* model value: a config file that does not exist

Opt == INSTANCE Options

VARIABLES
  tree, cons,   \* main's arguments: the tree and the parsed constraints
  ctree,        \* the configurations ConfigTree(tree, cons) yields, in order
  accepted,     \* accepted[k]: scons's configuration phase accepts test k's
                \* command line (fixed by ctree and the user's files)
  opts,         \* [execute, logAll, logFile, build]: -n, -l all, -m file, -b
  i,            \* the loop counter i of main
  passes, failures,
  phase,        \* "loop", "blocked" (in a test that never returns),
                \* "interrupted" (Ctrl-C), "crashed" (an uncaught
                \* exception) or "done"
  ran,          \* history: the configurations run or shown, in order
  logs,         \* history: [file, cmd] of each log written with -m file,
                \* with the command run_test ran and the configuration
  user          \* the config files of the user running the tests

vars == <<tree, ctree, accepted, cons, opts, i, passes, failures, phase, ran, logs, user>>

-----------------------------------------------------------------------------
(* ut_config.py                                                            *)

(* flatten([i] + tmp) where tmp is a flat list: a tuple becomes a         *)
(* one-element list, a (flat) list is taken as it is.                       *)
Flatten(x, tmp) == [list |-> (IF "tuple" \in DOMAIN x THEN <<x.tuple>> ELSE x.list)
                             \o tmp.list]

(* Variable.__iter__: one (name, val) tuple per value.                      *)
VarGen(t) == [j \in DOMAIN t.vals |-> [tuple |-> [name |-> t.name, val |-> t.vals[j]]]]

RECURSIVE Gen(_), AndGen(_), OrGen(_)
(* iter(node)                                                              *)
Gen(t) == CASE t.kind = "var" -> VarGen(t)
            [] t.kind = "and" -> AndGen(t.kids)
            [] t.kind = "or" -> OrGen(t.kids)

(* Mutant: the tail's generator is made once, outside the loop, so it is  *)
(* exhausted after the first item of the first child.                      *)
AndGenTailOnce(kids) ==
  IF kids = <<>> THEN << [list |-> <<>>] >>
  ELSE LET first == Gen(Head(kids))
           rest == AndGen(Tail(kids))
       IN  IF first = <<>> THEN <<>>
           ELSE [b \in DOMAIN rest |-> Flatten(first[1], rest[b])]

(* and_gen: for each item of the first child, each item of the tail.       *)
AndGen(kids) ==
  IF kids = <<>> THEN << [list |-> <<>>] >>
  ELSE LET first == Gen(Head(kids))
           rest == AndGen(Tail(kids))
       IN  FlattenSeq([a \in DOMAIN first |->
                         [b \in DOMAIN rest |-> Flatten(first[a], rest[b])]])

(* or_gen: the items of the first child, then those of the tail.           *)
OrGen(kids) ==
  IF kids = <<>> THEN <<>>
  ELSE [a \in DOMAIN Gen(Head(kids)) |-> Flatten(Gen(Head(kids))[a], [list |-> <<>>])]
       \o OrGen(Tail(kids))

-----------------------------------------------------------------------------
(* ut_core.py                                                              *)

EmptyDict == [dict |-> [n \in {} |-> ""], order |-> <<>>]

(* OrderedDict.__setitem__: set the value and append the key to            *)
(* insert_order, whether or not it is already there.                       *)
SetItem(d, k, v) == [dict |-> [n \in DOMAIN d.dict \cup {k} |->
                                 IF n = k THEN v ELSE d.dict[n]],
                     order |-> Append(d.order, k)]

(* OrderedDict.items()                                                     *)
Items(d) == [j \in DOMAIN d.order |-> [name |-> d.order[j], val |-> d.dict[d.order[j]]]]

(* ConfigTree.__to_dict                                                    *)
ToDict(args) == FoldLeft(LAMBDA d, p : SetItem(d, p.name, p.val), EmptyDict, args)

(* ConfigTree.check_options: every constrained name is set to an allowed   *)
(* value (a missing name reads as None, which no constraint allows).       *)
CheckOptions(d, c) == \A n \in DOMAIN c : n \in DOMAIN d.dict /\ d.dict[n] \in c[n]

(* iter(ConfigTree(tree, constraints))                                     *)
Configs(t, c) == SelectSeq([j \in DOMAIN Gen(t) |-> ToDict(Gen(t)[j].list)],
                           LAMBDA d : CheckOptions(d, c))

(* TestRun.build_dir: build.<machine>, or build without a machine.         *)
BuildDir(d) == IF Machine \in DOMAIN d.dict THEN "build." \o d.dict[Machine]
               ELSE "build"

(* TestRun.command_options: the items whose value is not empty.           *)
Command(d) == SelectSeq(Items(d), LAMBDA p : p.val # "")

(* Mutant: the command is formatted before build_dir is stored.            *)
CommandLineFormatFirst(d) ==
  [config |-> SetItem(d, BuildDirKey, BuildDir(d)), cmd |-> Command(d)]

(* TestRun.command_line: stores build_dir in the configuration, then       *)
(* formats the scons command from it; the configuration stays changed.    *)
CommandLine(d) ==
  LET new == SetItem(d, BuildDirKey, BuildDir(d))
  IN  [config |-> new, cmd |-> Command(new)]

(* TestRun.log_name: <machine>_<example or lib...>.err; a configuration    *)
(* without a machine raises KeyError.                                      *)
HasLogName(d) == Machine \in DOMAIN d.dict
LogName(d) ==
  d.dict[Machine] \o "_"
  \o (CASE Example \in DOMAIN d.dict -> d.dict[Example]
        [] TestLib \in DOMAIN d.dict -> "lib" \o d.dict[TestLib]
        [] Wombat \in DOMAIN d.dict /\ d.dict[Wombat] = "yes" -> "wombat"
        [] OTHER -> "unknown")
  \o ".err"

(* SCons's ARGUMENTS: each name=value word of the command line, a later   *)
(* one replacing an earlier one of the same name.                          *)
SconsArgs(cmd) ==
  [n \in {cmd[j].name : j \in DOMAIN cmd} |->
     cmd[Max({j \in DOMAIN cmd : cmd[j].name = n})].val]

(* TestRun.command_line's target: simulate_test when the tests are run    *)
(* and -b (build only) is not given; otherwise the default build.        *)
Target(o) == IF o.execute /\ ~o.build THEN "simulate_test" ELSE "build"

(* The status commands.getstatusoutput returns, or "hung".  scons reads   *)
(* the command line and the user's config files; when its configuration  *)
(* phase raises it exits non-zero (ok: it does not raise).  A build ends; simulate_test waits on  *)
(* the simulator, which may never stop, and nothing times it out.        *)
Results(ok, o) ==
  IF ~ok THEN {"failed"}
  ELSE {"ok", "failed"} \cup (IF Target(o) = "simulate_test" THEN {"hung"} ELSE {})

Total == Len(ctree)

(* get_options: -n clears execute, -b sets build, -l all logs every test *)
(* rather than failures, -m file (the default) writes logs to files      *)
(* rather than inline.  -o only chooses how results are printed.           *)
RunnerOptions == [execute : BOOLEAN, logAll : BOOLEAN, logFile : BOOLEAN, build : BOOLEAN]

Init ==
  /\ tree \in Trees
  /\ cons \in Constraints
  /\ ctree = Configs(tree, cons)
  /\ user \in UserSetups
  /\ accepted = [k \in 1..Len(ctree) |->
                  Opt!Configure(SconsArgs(CommandLine(ctree[k]).cmd), user).status = "ok"]
  /\ opts \in RunnerOptions
  /\ i = 1 /\ passes = 0 /\ failures = 0
  /\ phase = "loop"
  /\ ran = <<>> /\ logs = <<>>

(* One iteration with -n: print the command line of the next test.         *)
ShowTest ==
  /\ phase = "loop" /\ i <= Total /\ ~opts.execute
  /\ ran' = Append(ran, ctree[i])
  /\ i' = i + 1
  /\ UNCHANGED <<tree, ctree, accepted, cons, opts, passes, failures, phase, logs, user>>

(* Mutant: the else of the pass count is lost: every test counts a pass.  *)
PassCountAlways(failed) == passes + 1

(* if test.status: failures += 1 else: passes += 1                         *)
PassCount(failed) == IF failed THEN passes ELSE passes + 1

(* One iteration that runs the next test: run_test (command_line stores    *)
(* build_dir), count it, and when it is logged do_logging (command_line    *)
(* once more, then the log file for -m file).  A test that never returns  *)
(* leaves main blocked in run_test.                                         *)
RunTest ==
  /\ phase = "loop" /\ i <= Total /\ opts.execute
  /\ LET c == ctree[i]
         run == CommandLine(c)
         logged == CommandLine(run.config)
     IN  \E r \in Results(accepted[i], opts) :
           LET failed == r = "failed"
               doLog == failed \/ opts.logAll
           IN  /\ ran' = Append(ran, c)
               /\ IF r = "hung"
                  THEN phase' = "blocked" /\ UNCHANGED <<i, passes, failures, logs>>
                  ELSE
                  /\ passes' = PassCount(failed)
                  /\ failures' = failures + (IF failed THEN 1 ELSE 0)
                  /\ IF doLog /\ opts.logFile /\ ~HasLogName(c)
                     THEN phase' = "crashed" /\ UNCHANGED <<i, logs>>
                     ELSE /\ logs' = IF doLog /\ opts.logFile
                                     THEN Append(logs, [file |-> LogName(c),
                                                        cmd |-> logged.cmd,
                                                        run |-> run.cmd, cfg |-> c])
                                     ELSE logs
                          /\ i' = i + 1
                          /\ UNCHANGED phase
  /\ UNCHANGED <<tree, ctree, accepted, cons, opts, user>>

(* KeyboardInterrupt, between two tests or inside a blocked one, ends the *)
(* loop; the summary follows.                                              *)
Interrupt ==
  /\ \/ phase = "loop" /\ i <= Total
     \/ phase = "blocked"
  /\ phase' = "interrupted"
  /\ UNCHANGED <<tree, ctree, accepted, cons, opts, i, passes, failures, ran, logs, user>>

(* The loop is over: RESULTS and sys.exit(failures != 0).                  *)
Finish ==
  /\ phase = "loop" /\ i > Total
  /\ phase' = "done"
  /\ UNCHANGED <<tree, ctree, accepted, cons, opts, i, passes, failures, ran, logs, user>>

Next == ShowTest \/ RunTest \/ Interrupt \/ Finish

Spec == Init /\ [][Next]_vars

-----------------------------------------------------------------------------
(* What the trees mean (the module docstring of ut_config.py): a Variable  *)
(* is one setting per value, an And every combination of one setting of   *)
(* each child, an Or the settings of any one child.  A configuration is a *)
(* function from names to values.                                          *)

RECURSIVE Meaning(_), AllOf(_)
Meaning(t) ==
  CASE t.kind = "var" -> {[n \in {t.name} |-> t.vals[j]] : j \in DOMAIN t.vals}
    [] t.kind = "and" -> AllOf(t.kids)
    [] t.kind = "or" -> UNION {Meaning(t.kids[j]) : j \in DOMAIN t.kids}
AllOf(kids) ==
  IF kids = <<>> THEN {[n \in {} |-> ""]}
  ELSE {f @@ g : f \in Meaning(Head(kids)), g \in AllOf(Tail(kids))}

Allowed(f, c) == \A n \in DOMAIN c : n \in DOMAIN f /\ f[n] \in c[n]

-----------------------------------------------------------------------------
(* Properties                                                              *)

TypeOK ==
  /\ opts \in RunnerOptions
  /\ phase \in {"loop", "blocked", "interrupted", "crashed", "done"}
  /\ i \in 1..Total + 1 /\ Len(ran) - (i - 1) \in
       (IF phase \in {"loop", "done"} THEN {0} ELSE {0, 1})
  /\ passes \in Nat /\ failures \in Nat
  /\ passes + failures = IF opts.execute
                          THEN i - 1 + (IF phase = "crashed" THEN 1 ELSE 0) ELSE 0

(* A run that is not cut short tries every configuration the tree           *)
(* describes and the constraints allow, and each exactly once, however     *)
(* And, Or, empty nodes and flatten nest (ConfigTree over and_gen/or_gen). *)
EveryConfigOnce ==
  phase = "done" =>
    /\ {ran[j].dict : j \in DOMAIN ran} = {f \in Meaning(tree) : Allowed(f, cons)}
    /\ \A j, k \in DOMAIN ran : j # k => ran[j].dict # ran[k].dict

(* The command a log file records (do_logging calls command_line a second *)
(* time, which stores build_dir again and lists it twice) asks scons for  *)
(* what run_test's command asked: the test's non-empty settings, with     *)
(* build_dir set to its machine's build directory.                        *)
LoggedCommandIsRunCommand ==
  \A j \in DOMAIN logs :
    LET l == logs[j]
        set == {n \in DOMAIN l.cfg.dict : l.cfg.dict[n] # ""}
    IN  /\ SconsArgs(l.cmd) = SconsArgs(l.run)
        /\ SconsArgs(l.run) = (BuildDirKey :> BuildDir(l.cfg))
                               @@ [n \in set |-> l.cfg.dict[n]]

(* scons builds what the runner asked for: when the configuration phase   *)
(* of build.py accepts the command run_test ran, the machine it builds is *)
(* the test's machine, whatever the user's .conf, ~/.sconf and conf file  *)
(* say, and the build directory is the one TestRun.build_dir chose.  A    *)
(* user file that sets conf sends every build to build.<conf> instead    *)
(* (build.py 364-365); that case is left out of the second conjunct.      *)
SconsBuildsRequested ==
  \A j \in DOMAIN logs :
    LET d == logs[j].cfg.dict
        c == Opt!Configure(SconsArgs(logs[j].run), user)
    IN  c.status = "ok" =>
          /\ Machine \in DOMAIN d /\ d[Machine] # "" => c.g["machine"] = d[Machine]
          /\ "conf" \notin DOMAIN Opt!ReadUserFiles(user).opts =>
               c.g["build_dir"] = BuildDir(logs[j].cfg)
=============================================================================
