----------------------------- MODULE KengeEnv -----------------------------
(***************************************************************************)
(* The build environments of src/src/tools/build.py: KengeEnvironment,    *)
(* its Copy, and the library table every environment keeps.  The         *)
(* SConstruct makes one KengeEnvironment ("base") and derives the others *)
(* with Copy (Bootimage copies "kickstart" and "elf-loader").  AddLibrary *)
(* runs a library's SConstruct, which calls KengeLibrary and stores its   *)
(* description under the library's name in env.libs; an application's   *)
(* SConstruct calls KengeProgram, which links every library get_libs     *)
(* finds through the dependency lists.  SCons reads all SConstructs in   *)
(* one thread; an uncaught exception ends the read and the build.        *)
(*                                                                         *)
(* A library description is the tuple (headers, lib, path, crt, deps) of  *)
(* KengeLibrary, abstracted to whether `lib` is a library (not None) and  *)
(* the dependency list; the template entry setup_templates makes is a    *)
(* 3-tuple and has no dependency list (NoDeps).  env.libs is a            *)
(* util.OrderedDict; its insertion order is never read for anything but  *)
(* membership, so a table is a function from names to descriptions.     *)
(* The table is an object that an environment refers to (libsOf), so     *)
(* that two environments could share one.  Compiler flags, source globs, *)
(* IDL and template generation, and header paths are left out.           *)
(***************************************************************************)
EXTENDS Integers, Sequences, SequencesExt, FiniteSets

CONSTANTS
  Libs,          \* names of the libraries under libs/ a SConstruct may add
  DepChoices,    \* LIBS lists a library SConstruct may pass to KengeLibrary
  ProgChoices,   \* LIBS lists an application may pass to KengeProgram
  Toolchains,    \* toolchain prefixes toolprefix or a Copy may pass
  Machines,      \* the machines the machine= option may select
  MaxEnvs,       \* bound on the environments made
  MaxOps,        \* bound on the SConstruct calls after the first environment
  Absent,        \* model value: a keyword argument not passed
  NoDeps         \* model value: a description without a dependency list

Mach == INSTANCE Machines

ASSUME Machines \subseteq Mach!Available

VARIABLES
  envs,       \* the environments made so far: 1..envs, 1 is "base"
  static,     \* static[e]: env.static, read by build_busybox and build_ramdisk
  testenv,    \* testenv[e]: env.testenv
  toolchain,  \* toolchain[e]: [pre, suf], what set_toolchain made CC of
  linkStatic, \* linkStatic[e]: env["LINKFLAGS"] is " -static"
  buildTests, \* the construction variable BUILD_TESTS (Copy keeps it)
  libsOf,     \* libsOf[e]: the table object env e refers to as env.libs
  table,      \* table[o]: the library table object o
  last,       \* the last program KengeProgram linked, or Absent
  status,     \* "ok", or the exception that ended the read
  ops         \* SConstruct calls made since the first environment

vars == <<envs, static, testenv, toolchain, linkStatic, buildTests, libsOf,
          table, last, status, ops>>

Envs == 1..envs

(* A (public_headers, lib, path, crt, libs) tuple: whether lib is a      *)
(* library, whether crt is a list of startup objects (not None), and the  *)
(* dependency list.                                                        *)
Entry(code, crt, deps) == [code |-> code, crt |-> crt, deps |-> deps]

-----------------------------------------------------------------------------
(* KengeEnvironment.__init__                                               *)

(* TOOLCHAIN=None: the machine's toolchain, unless toolprefix or           *)
(* toolsuffix was given on the command line; a missing one becomes "".    *)
InitToolchain(m, tp, ts) ==
  IF tp = Absent /\ ts = Absent THEN [pre |-> Mach!Attr(m, "toolchain"), suf |-> ""]
  ELSE [pre |-> IF tp = Absent THEN "" ELSE tp,
        suf |-> IF ts = Absent THEN "" ELSE ts]

(* setup_idl4 (the IDL4 command, idl4_command, is always a string),        *)
(* setup_libgcc and setup_templates, in that order.                        *)
BaseLibs ==
  ("idl4" :> Entry(FALSE, FALSE, <<>>))
  @@ ("gcc" :> Entry(TRUE, FALSE, <<>>))
  @@ ("template" :> Entry(FALSE, FALSE, NoDeps))

(* The CPPDEFINES __init__ ends with call machine.platform.upper() and     *)
(* machine.endian.upper(): a machine with no platform, or endian None,    *)
(* makes KengeEnvironment raise AttributeError.                            *)
Configurable(m) ==
  Mach!HasAttr(m, "platform") /\ Mach!Attr(m, "endian") # "None"

(* The toolprefix and toolsuffix options: neither, a prefix, or a suffix.  *)
ToolOptions ==
  {<<Absent, Absent>>, <<Absent, "-s">>} \cup {<<t, Absent>> : t \in Toolchains}

Init ==
  \E m \in Machines, st \in {0, 1}, te \in {0, 1}, bt \in BOOLEAN,
    opt \in ToolOptions :
    /\ envs = 1
    /\ static = (1 :> st)
    /\ testenv = (1 :> te)
    /\ toolchain = (1 :> InitToolchain(m, opt[1], opt[2]))
    /\ linkStatic = (1 :> (st = 1))
    /\ buildTests = bt
    /\ libsOf = (1 :> 1)
    /\ table = (1 :> BaseLibs)
    /\ last = Absent
    /\ status = IF Configurable(m) THEN "ok" ELSE "AttributeError"
    /\ ops = 0

Running == status = "ok" /\ ops < MaxOps

-----------------------------------------------------------------------------
(* KengeEnvironment.Copy(name, **kargs)                                    *)

(* Mutant: Copy without util.OrderedDict.__copy__: copy.copy shares the    *)
(* dict and list of the original table.                                   *)
CopyShared(e, kst, kte, ktc) ==
  LET n == envs + 1
      st == IF kst = Absent THEN 0 ELSE kst
      te == IF kte = Absent THEN 0 ELSE kte
      tc == IF ktc = Absent THEN toolchain[e] ELSE [pre |-> ktc, suf |-> ""]
  IN  /\ Running /\ envs < MaxEnvs
      /\ envs' = n
      /\ static' = [static EXCEPT ![e] = st] @@ (n :> st)
      /\ testenv' = [testenv EXCEPT ![e] = te] @@ (n :> te)
      /\ toolchain' = [toolchain EXCEPT ![e] = tc] @@ (n :> tc)
      /\ linkStatic' = linkStatic @@ (n :> linkStatic[e])
      /\ libsOf' = libsOf @@ (n :> libsOf[e])
      /\ table' = table @@ (n :> table[libsOf[e]])
      /\ ops' = ops + 1
      /\ UNCHANGED <<buildTests, last, status>>

(* Mutant: `self.static = kargs.get("STATIC")` without the else branch:   *)
(* a Copy without STATIC stores None.                                     *)
CopyStaticNone(e, kst, kte, ktc) ==
  LET n == envs + 1
      st == IF kst = Absent THEN Absent ELSE kst
      te == IF kte = Absent THEN 0 ELSE kte
      tc == IF ktc = Absent THEN toolchain[e] ELSE [pre |-> ktc, suf |-> ""]
  IN  /\ Running /\ envs < MaxEnvs
      /\ envs' = n
      /\ static' = [static EXCEPT ![e] = st] @@ (n :> st)
      /\ testenv' = [testenv EXCEPT ![e] = te] @@ (n :> te)
      /\ toolchain' = [toolchain EXCEPT ![e] = tc] @@ (n :> tc)
      /\ linkStatic' = linkStatic @@ (n :> linkStatic[e])
      /\ libsOf' = libsOf @@ (n :> n)
      /\ table' = table @@ (n :> table[libsOf[e]])
      /\ ops' = ops + 1
      /\ UNCHANGED <<buildTests, last, status>>

(* util.OrderedDict.__copy__: a new table object n with copies of the     *)
(* dict and insert_order of the table env e refers to.                     *)
CopyTable(e, n) == table @@ (n :> table[libsOf[e]])

(* Copy(name, STATIC=kst, TESTENV=kte, TOOLCHAIN=ktc): set_toolchain,     *)
(* static and testenv are applied to self, the environment copied, and    *)
(* Environment.Copy then clones self, construction variables (LINKFLAGS,  *)
(* BUILD_TESTS) included; libs is copied with util.OrderedDict.__copy__.  *)
(* A TOOLCHAIN given as a (prefix, "") pair.                               *)
Copy(e, kst, kte, ktc) ==
  LET n == envs + 1
      st == IF kst = Absent THEN 0 ELSE kst
      te == IF kte = Absent THEN 0 ELSE kte
      tc == IF ktc = Absent THEN toolchain[e] ELSE [pre |-> ktc, suf |-> ""]
  IN  /\ Running /\ envs < MaxEnvs
      /\ envs' = n
      /\ static' = [static EXCEPT ![e] = st] @@ (n :> st)
      /\ testenv' = [testenv EXCEPT ![e] = te] @@ (n :> te)
      /\ toolchain' = [toolchain EXCEPT ![e] = tc] @@ (n :> tc)
      /\ linkStatic' = linkStatic @@ (n :> linkStatic[e])
      /\ libsOf' = libsOf @@ (n :> n)
      /\ table' = CopyTable(e, n)
      /\ ops' = ops + 1
      /\ UNCHANGED <<buildTests, last, status>>

-----------------------------------------------------------------------------
(* AddLibrary and KengeLibrary                                             *)

(* util.OrderedDict.__setitem__; insert_order, which only get_libs' link *)
(* order follows, is left out.                                             *)
SetLib(tbl, k, v) == (k :> v) @@ tbl

(* Store description d under name lib in the table env e refers to.       *)
Store(e, lib, d) ==
  table' = [table EXCEPT ![libsOf[e]] = SetLib(@, lib, d)]

(* AddLibrary(lib) where libs/<lib>/SConstruct calls                       *)
(* env.KengeLibrary(lib, LIBS=deps): with BUILD_TESTS, "check" is appended *)
(* to a given LIBS; every name in it must already be a library of env,    *)
(* else UserError ends the read; the description, whose crt is None, is  *)
(* stored under lib.                                                       *)
AddKengeLibrary(e, lib, deps) ==
  /\ Running
  /\ LET ds == IF deps = Absent THEN <<>>
               ELSE IF buildTests THEN Append(deps, "check") ELSE deps
     IN  IF \A i \in DOMAIN ds : ds[i] \in DOMAIN table[libsOf[e]]
         THEN /\ Store(e, lib, Entry(TRUE, FALSE, ds))
              /\ UNCHANGED status
         ELSE /\ status' = "UserError"
              /\ UNCHANGED table
  /\ ops' = ops + 1
  /\ UNCHANGED <<envs, static, testenv, toolchain, linkStatic, buildTests,
                 libsOf, last>>

(* AddLibrary(lib) where the SConstruct builds its own description: a     *)
(* header-only one (lib None), whose dependencies get_libs still follows, *)
(* or one with code and startup objects, as a C library provides.          *)
AddOwnLibrary(e, lib, deps, code, crt) ==
  /\ Running
  /\ Store(e, lib, Entry(code, crt, deps))
  /\ ops' = ops + 1
  /\ UNCHANGED <<envs, static, testenv, toolchain, linkStatic, buildTests,
                 libsOf, last, status>>

-----------------------------------------------------------------------------
(* get_libs and KengeProgram                                               *)

(* A result of get_libs: the exception raised ("none" when it returned),  *)
(* the list of libraries, and the list `seen` it shares with its callers. *)
Res(err, libs, seen) == [err |-> err, libs |-> libs, seen |-> seen]

RECURSIVE GetLibsHeaderStop(_, _, _), DepsLoopHeaderStop(_, _, _, _)
(* Mutant: a header-only library returns at once, without its deps.       *)
GetLibsHeaderStop(tbl, lib, seen) ==
  IF lib \notin DOMAIN tbl THEN Res("LibraryNotFound", <<>>, seen)
  ELSE IF ~tbl[lib].code THEN Res("none", <<>>, seen)
  ELSE IF lib \in ToSet(seen) THEN Res("none", <<lib>>, seen)
  ELSE IF tbl[lib].deps = NoDeps THEN Res("IndexError", <<>>, seen)
  ELSE DepsLoopHeaderStop(tbl, tbl[lib].deps, <<lib>>, Append(seen, lib))

DepsLoopHeaderStop(tbl, ds, acc, seen) ==
  IF ds = <<>> THEN Res("none", acc, seen)
  ELSE LET r == GetLibsHeaderStop(tbl, Head(ds), seen)
       IN  IF r.err # "none" THEN r
           ELSE DepsLoopHeaderStop(tbl, Tail(ds), acc \o r.libs, r.seen)

RECURSIVE GetLibs(_, _, _), DepsLoop(_, _, _, _)
(* get_libs(lib, seen): LibraryNotFound for a name not in the table; the  *)
(* library itself unless it is header-only; nothing more when it is       *)
(* already in seen; otherwise it joins seen and each dependency is        *)
(* followed in order with the same seen.  Element 4 of a 3-tuple raises   *)
(* IndexError.                                                             *)
GetLibs(tbl, lib, seen) ==
  IF lib \notin DOMAIN tbl THEN Res("LibraryNotFound", <<>>, seen)
  ELSE LET own == IF tbl[lib].code THEN <<lib>> ELSE <<>>
       IN  IF lib \in ToSet(seen) THEN Res("none", own, seen)
           ELSE IF tbl[lib].deps = NoDeps THEN Res("IndexError", <<>>, seen)
           ELSE DepsLoop(tbl, tbl[lib].deps, own, Append(seen, lib))

DepsLoop(tbl, ds, acc, seen) ==
  IF ds = <<>> THEN Res("none", acc, seen)
  ELSE LET r == GetLibs(tbl, Head(ds), seen)
       IN  IF r.err # "none" THEN r
           ELSE DepsLoop(tbl, Tail(ds), acc \o r.libs, r.seen)

(* The first exception get_libs raises for one of the program's LIBS      *)
(* (each called with a fresh seen), or "none", and the union of results.  *)
ProgramLibs(tbl, req) ==
  LET rs == [i \in DOMAIN req |-> GetLibs(tbl, req[i], <<>>)]
      bad == {i \in DOMAIN rs : rs[i].err # "none"}
  IN  IF bad = {} THEN Res("none", UNION {ToSet(rs[i].libs) : i \in DOMAIN rs}, <<>>)
      ELSE Res(rs[Min(bad)].err, {}, <<>>)

(* KengeProgram(name, LIBS=req) in env e: LibraryNotFound becomes          *)
(* UserError; an IndexError propagates; then `del kargs["LIBS"]` raises    *)
(* KeyError when no LIBS was given.  When env has a library "c", its crt  *)
(* is prepended to the objects: None + list raises TypeError.  The        *)
(* program is linked with the set of libraries found.                      *)
KengeProgram(e, req) ==
  /\ Running
  /\ LET tbl == table[libsOf[e]]
         r == IF req = Absent THEN Res("none", {}, <<>>) ELSE ProgramLibs(tbl, req)
     IN  CASE r.err = "LibraryNotFound" -> status' = "UserError" /\ UNCHANGED last
           [] r.err = "IndexError" -> status' = "IndexError" /\ UNCHANGED last
           [] req = Absent -> status' = "KeyError" /\ UNCHANGED last
           [] "c" \in DOMAIN tbl /\ ~tbl["c"].crt -> status' = "TypeError" /\ UNCHANGED last
           [] OTHER -> /\ last' = [env |-> e, req |-> req, tbl |-> tbl, libs |-> r.libs]
                       /\ UNCHANGED status
  /\ ops' = ops + 1
  /\ UNCHANGED <<envs, static, testenv, toolchain, linkStatic, buildTests,
                 libsOf, table>>

(* The descriptions a library's own SConstruct returns: header-only, or,  *)
(* for "c", the only name whose crt KengeProgram reads, code with startup *)
(* objects.                                                                *)
OwnKinds(lib) == {[code |-> FALSE, crt |-> FALSE]}
                 \cup (IF lib = "c" THEN {[code |-> TRUE, crt |-> TRUE]} ELSE {})

Next ==
  \/ \E e \in Envs, kst \in {Absent, 0, 1}, kte \in {Absent, 1},
        ktc \in {Absent} \cup Toolchains :
       Copy(e, kst, kte, ktc)
  \/ \E e \in Envs, lib \in Libs, deps \in {Absent} \cup DepChoices :
       AddKengeLibrary(e, lib, deps)
  \/ \E e \in Envs, lib \in Libs, deps \in DepChoices :
       \E own \in OwnKinds(lib) : AddOwnLibrary(e, lib, deps, own.code, own.crt)
  \/ \E e \in Envs, req \in {Absent} \cup ProgChoices :
       KengeProgram(e, req)

Spec == Init /\ [][Next]_vars

-----------------------------------------------------------------------------
(* What a program should be linked with: every library reachable from its *)
(* LIBS through the dependency lists that has code.                        *)

RECURSIVE Reach(_, _)
Reach(tbl, s) ==
  LET next == s \cup UNION {ToSet(tbl[l].deps) :
                             l \in {x \in s \cap DOMAIN tbl : tbl[x].deps # NoDeps}}
  IN  IF next = s THEN s ELSE Reach(tbl, next)

Visible(e) == table[libsOf[e]]

-----------------------------------------------------------------------------
(* Properties                                                              *)

TypeOK ==
  /\ envs \in 1..MaxEnvs
  /\ static \in [Envs -> {0, 1}] /\ testenv \in [Envs -> {0, 1}]
  /\ toolchain \in [Envs -> [pre : Toolchains \cup {""}
                                     \cup {Mach!Attr(m, "toolchain") : m \in Machines},
                               suf : {"", "-s"}]]
  /\ linkStatic \in [Envs -> BOOLEAN]
  /\ libsOf \in [Envs -> Envs]
  /\ status \in {"ok", "UserError", "KeyError", "IndexError", "TypeError", "AttributeError"}

(* A program KengeProgram links gets exactly the libraries with code      *)
(* reachable from its LIBS, header-only libraries looked through and      *)
(* cycles (a library stored again under its name) cut, in the table of    *)
(* the environment it is built in (get_libs' shared `seen` list); and a   *)
(* program links only when every library it reaches is in that table.    *)
ProgramLinksClosure ==
  last # Absent =>
    LET reach == Reach(last.tbl, ToSet(last.req))
    IN  /\ reach \subseteq DOMAIN last.tbl
        /\ last.libs = {l \in reach \cap DOMAIN last.tbl : last.tbl[l].code}

(* Environments do not share library tables: a step changes the libraries *)
(* of at most one existing environment, so AddLibrary in a Copy ("elf-     *)
(* loader", "kickstart") leaves the environment it was copied from alone  *)
(* (Copy and util.OrderedDict.__copy__).                                   *)
LibsIsolated ==
  [][Cardinality({e \in Envs : Visible(e)' # Visible(e)}) <= 1]_vars

(* Copy leaves the environment it copies as it was: its static and        *)
(* testenv flags and its toolchain change only when it is made (the      *)
(* docstring: "Create a new environment based on self").                   *)
CopyLeavesParent ==
  [][\A e \in Envs : /\ static'[e] = static[e]
                     /\ testenv'[e] = testenv[e]
                     /\ toolchain'[e] = toolchain[e]]_vars

=============================================================================
