------------------------------ MODULE Options ------------------------------
(***************************************************************************)
(* The configuration phase of src/src/tools/build.py: the top-level code  *)
(* that reads the user's config files into `opts`, and the add_arg,       *)
(* add_list and add_config_bool calls that give each option its value:    *)
(* the command line's name=value (SCons ARGUMENTS), else the config files'*)
(* value, else the default.  It runs once, in order, before any           *)
(* environment is made, so it is a function of its inputs: the command    *)
(* line and what the user's files hold.                                    *)
(*                                                                         *)
(* A config file is [ok, sets]: whether execfile runs it without an       *)
(* exception, and the names it assigns.  A user setup is [dot, home,     *)
(* confs]: ./.conf and ~/.sconf (a file or NoFile), and the file          *)
(* <conf>.conf (or configs/<conf>.conf) found for each conf name.  Values  *)
(* are names without a comma, so arg.split(",") has one item; Python's    *)
(* None is "None"; a config file gives a boolean option a Python bool.    *)
(* The help text, install_dir, install_name and the boot_* options only   *)
(* format strings and are left out.                                        *)
(***************************************************************************)
EXTENDS TLC, Sequences

CONSTANT NoFile   \* model value: the file does not exist

Mach == INSTANCE Machines

(* The state of the script: "ok" or the exception raised, the dict opts   *)
(* the config files fill, and the globals the options have set.           *)
Start == [status |-> "ok", opts |-> [n \in {} |-> "None"], g |-> [n \in {} |-> "None"]]

Fail(st, e) == [st EXCEPT !.status = e]
SetGlobal(st, name, v) == [st EXCEPT !.g = (name :> v) @@ @]

(* read_user_config: execfile(filename, opts); any exception becomes      *)
(* UserError "Cannot continnue after error in config file".              *)
ReadUserConfig(st, file) ==
  IF file.ok THEN [st EXCEPT !.opts = file.sets @@ @]
  ELSE Fail(st, "UserError")

(* Mutant: a config file's value wins over the command line.              *)
ArgOfOptsFirst(st, args, name, default) ==
  IF name \in DOMAIN st.opts THEN st.opts[name]
  ELSE IF name \in DOMAIN args THEN args[name]
  ELSE default

(* ARGUMENTS.get(name, def_val), def_val being opts[name] if set.         *)
ArgOf(st, args, name, default) ==
  IF name \in DOMAIN args THEN args[name]
  ELSE IF name \in DOMAIN st.opts THEN st.opts[name]
  ELSE default

(* _add_arg.  options is the set of valid names (add_list's (name, class) *)
(* pairs taken by their name), {} for none.  Without options the value is *)
(* stored as it is; with options None is "need argument", a value not in  *)
(* options is rejected, and the first item (the whole list for           *)
(* as_list) is stored.                                                     *)
AddArg(st, args, name, default, options, asList) ==
  LET arg == ArgOf(st, args, name, default)
  IN  CASE st.status # "ok" -> st
        [] options = {} -> SetGlobal(st, name, arg)
        [] arg = "None" \/ arg \notin options -> Fail(st, "UserError")
        [] OTHER -> SetGlobal(st, name, IF asList THEN <<arg>> ELSE arg)

(* _add_bool: a string (the command line's) is True for 1/true/yes and     *)
(* False for 0/false/no; x.lower() is called but its result dropped, so   *)
(* any other spelling, "True" included, is rejected.  A bool from a       *)
(* config file or the default is stored as it is.                          *)
AddBool(st, args, name, default) ==
  CASE st.status # "ok" -> st
    [] name \in DOMAIN args ->
         LET x == args[name]
         IN  CASE x \in {"1", "true", "yes"} -> SetGlobal(st, name, TRUE)
               [] x \in {"0", "false", "no"} -> SetGlobal(st, name, FALSE)
               [] OTHER -> Fail(st, "UserError")
    [] OTHER -> SetGlobal(st, name, ArgOf(st, args, name, default))

(* The endianness check after toolsuffix: a machine whose endian is        *)
(* neither big nor little stops the build.                                 *)
CheckEndian(st) ==
  IF st.status = "ok" /\ Mach!Attr(st.g["machine"], "endian") \notin {"big", "little"}
  THEN Fail(st, "unknown endianness") ELSE st

(* The config files: ./.conf, then ~/.sconf, each overriding the last.     *)
ReadUserFiles(u) ==
  LET s1 == IF u.dot = NoFile THEN Start ELSE ReadUserConfig(Start, u.dot)
  IN  IF u.home = NoFile \/ s1.status # "ok" THEN s1 ELSE ReadUserConfig(s1, u.home)

(* conf: unless it is None, build_dir becomes build.<conf> (a build_dir   *)
(* option is not read); a non-empty conf's <conf>.conf is then read, too  *)
(* late to change conf or build_dir.                                       *)
ReadConf(st, args, u) ==
  LET s == CHOOSE r \in {AddArg(x, args, "conf", "None", {}, FALSE) : x \in {st}} : TRUE
      conf == s.g["conf"]
  IN  CASE s.status # "ok" -> s
        [] conf = "None" -> AddArg(s, args, "build_dir", "build", {}, FALSE)
        [] conf = "" -> SetGlobal(s, "build_dir", "build.")
        [] conf \notin DOMAIN u.confs ->
             Fail(SetGlobal(s, "build_dir", "build." \o conf), "UserError")
        [] OTHER -> ReadUserConfig(SetGlobal(s, "build_dir", "build." \o conf), u.confs[conf])

(* The configuration phase, from the user's files to print_sim_log.  Each *)
(* step's state is bound to a value before the next step reads it.        *)
Configure(args, u) ==
  LET s1 == CHOOSE r \in {ReadConf(x, args, u) : x \in {ReadUserFiles(u)}} : TRUE
      s2 == CHOOSE r \in {AddArg(x, args, "machine", "None", Mach!Available, FALSE) : x \in {s1}} : TRUE
      s3 == CHOOSE r \in {AddArg(x, args, "l4conf", "None", {}, FALSE) : x \in {s2}} : TRUE
      s4 == CHOOSE r \in {AddArg(x, args, "toolprefix", "None", {}, FALSE) : x \in {s3}} : TRUE
      s5 == CHOOSE r \in {CheckEndian(AddArg(x, args, "toolsuffix", "None", {}, FALSE)) : x \in {s4}} : TRUE
  IN  AddBool(s5, args, "print_sim_log", FALSE)
=============================================================================
