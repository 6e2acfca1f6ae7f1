----------------------------- MODULE BootMenu -----------------------------
(***************************************************************************)
(* The ia32 branch of KengeEnvironment.Bootimage (build.py) with the boot  *)
(* menu BuildMenuLst writes and the names GrubBootImage's copy() gives the *)
(* files on c.img (bootimg.py).  Bootimage lists `depends`: the kernel,   *)
(* then <binary>.reloc for each module, or the binary itself for a raw    *)
(* one; it installs the kickstart loader, the kernel, the menu and every   *)
(* module under its basename; the simulator image c.img gets `depends`,   *)
(* a menu.lst with ROOT /boot/grub, and kickstart, copied in that order   *)
(* with `mcopy -o`, which overwrites a file of the same name.             *)
(*                                                                         *)
(* A file is its directory, its name and its suffixes (".gz", ".reloc");  *)
(* a directory is a model value, and KsDirs are those whose path contains *)
(* "kickstart".  Tool failures and the concurrent floppy image are         *)
(* DiskImage's; here every copy succeeds.                                  *)
(***************************************************************************)
EXTENDS Integers, Sequences, SequencesExt, FiniteSets

CONSTANTS
  Dirs,      \* directories a binary may be built in
  KsDirs,    \* the directories whose path contains "kickstart"
  Bases,     \* file names without suffix
  KernelDir, \* where Pistachio's kernel is built
  NMods      \* modules passed to Bootimage: the root task and the others

ASSUME KsDirs \subseteq Dirs /\ KernelDir \in Dirs \ KsDirs

File(dir, base, sfx) == [dir |-> dir, base |-> base, sfx |-> sfx]

(* The binaries a caller may pass, plain or gzipped, and their flags.     *)
Binaries == {File(d, b, s) : d \in Dirs, b \in Bases, s \in {<<>>, <<".gz">>}}
Args == [file : Binaries, flag : {"", "raw"}]

Kernel == File(KernelDir, "kernel", <<>>)
Kickstart == File("loaders", "kickstart", <<>>)
MenuFile == File("sim", "menu.lst", <<>>)

VARIABLES
  args,      \* [init] + others as Bootimage normalises them: (binary, flag)
  depends,   \* Bootimage's `depends`
  menu,      \* sim/menu.lst: its module lines, each with the file it means
  queue,     \* the sources of c.img GrubBootImage has still to copy
  image,     \* c.img's /boot/grub: file name -> the file copied there
  status     \* "read", "copy", "done", or "UserError" (SCons read failed)

vars == <<args, depends, menu, queue, image, status>>

-----------------------------------------------------------------------------
(* os.path.basename, with the file's suffixes.                             *)
Basename(f) == [base |-> f.base, sfx |-> f.sfx]

EndsWith(f, s) == f.sfx # <<>> /\ Last(f.sfx) = s

Strip(n) == [n EXCEPT !.sfx = Front(@)]

(* Bootimage: the .reloc the chain makes of a module, or the raw binary.   *)
Placed(a) == IF a.flag # "raw" THEN [a.file EXCEPT !.sfx = Append(@, ".reloc")]
             ELSE a.file

(* The targets Bootimage installs, each with the file installed there:    *)
(* kickstart, the kernel, the menu, and each module's .reloc (or the raw   *)
(* binary) under os.path.basename(str(binary)).                            *)
Installs(as) ==
  {[name |-> Basename(f), src |-> f] : f \in {Kickstart, Kernel, MenuFile}}
  \cup {[name |-> Basename(as[i].file), src |-> Placed(as[i])] : i \in DOMAIN as}

(* Two ways to build one target: SCons raises UserError.                   *)
Clash(ts) == \E t, u \in ts : t.name = u.name /\ t.src # u.src

(* BuildMenuLst(target, source=depends, ROOT): a module line for every     *)
(* source whose absolute path does not contain "kickstart", named by its  *)
(* basename without a trailing ".reloc".                                   *)
MenuLines(srcs) ==
  LET keep == SelectSeq(srcs, LAMBDA f : f.dir \notin KsDirs /\ f.base # "kickstart")
      name(f) == IF EndsWith(f, ".reloc") THEN Strip(Basename(f)) ELSE Basename(f)
  IN  [i \in DOMAIN keep |-> [name |-> name(keep[i]), src |-> keep[i]]]

(* copy(file) in GrubBootImage: the name it gets on the image, its        *)
(* basename without a trailing ".reloc", or else without a trailing ".gz". *)
CopyName(f) ==
  IF EndsWith(f, ".reloc") \/ EndsWith(f, ".gz") THEN Strip(Basename(f))
  ELSE Basename(f)

-----------------------------------------------------------------------------
Init ==
  /\ args \in [1..NMods -> Args]
  /\ depends = <<>> /\ menu = <<>> /\ queue = <<>>
  /\ image = [n \in {} |-> Kernel]
  /\ status = "read"

(* SCons reads Bootimage's ia32 branch.  Two install targets of the same   *)
(* name for different files make SCons raise UserError; otherwise the     *)
(* menu command and c.img's command are set up and, the chain done, the   *)
(* menu is written and GrubBootImage starts copying simdeps.               *)
ReadBootimage ==
  /\ status = "read"
  /\ LET deps == <<Kernel>> \o [i \in DOMAIN args |-> Placed(args[i])]
     IN  IF Clash(Installs(args))
         THEN /\ status' = "UserError"
              /\ UNCHANGED <<depends, menu, queue>>
         ELSE /\ depends' = deps
              /\ menu' = MenuLines(deps)
              /\ queue' = deps \o <<MenuFile, Kickstart>>
              /\ status' = "copy"
  /\ UNCHANGED <<args, image>>

(* copy(each): mcopy -o <file> c:/boot/grub/<name>.                        *)
CopyEach ==
  /\ status = "copy" /\ queue # <<>>
  /\ image' = (CopyName(Head(queue)) :> Head(queue)) @@ image
  /\ queue' = Tail(queue)
  /\ UNCHANGED <<args, depends, menu, status>>

(* The last copy done: c.img is built.                                     *)
Finish ==
  /\ status = "copy" /\ queue = <<>>
  /\ status' = "done"
  /\ UNCHANGED <<args, depends, menu, queue, image>>

Next == ReadBootimage \/ CopyEach \/ Finish

Spec == Init /\ [][Next]_vars

-----------------------------------------------------------------------------
(* The menu of c.img lists every module of `depends` once, by the name    *)
(* under which that module, and no other file, is on the image: spec 2    *)
(* says the boot menu references the final module filenames, and spec 4.4 *)
(* step 5 copies modules with relocation and compression suffixes         *)
(* stripped.                                                               *)
MenuMatchesImage ==
  status = "done" =>
    /\ [i \in DOMAIN menu |-> menu[i].src] = depends
    /\ \A i \in DOMAIN menu :
         menu[i].name \in DOMAIN image /\ image[menu[i].name] = menu[i].src
=============================================================================
