---------------------------- MODULE Relocator ----------------------------
(***************************************************************************)
(* The sequential relocation chain of the kenge build system               *)
(* (src/src/tools/build.py): KengeEnvironment.Bootimage threads the list   *)
(* `depends`, starting with the kernel, through one `buildreloc` command   *)
(* per module.  Each command asks `link_address` for the aligned end of    *)
(* the last LOAD segment of the previous artifact (`last`) and re-links    *)
(* the module there with `ld -Ttext=...`; a module flagged "l" (the Wombat *)
(* Linux kernel) is instead rebuilt by make with LINUX_START_ADDR; a       *)
(* module flagged "raw" is not relinked, but becomes `last` itself.        *)
(*                                                                         *)
(* Addresses are integers in a unit of the modeller's choice (the MC       *)
(* module fixes one).  An artifact is the extent [lo, hi) of what it      *)
(* occupies; link_address reads it through `readelf -l`, whose listing is *)
(* modelled line by line (Readelf) and scanned as the code scans it.      *)
(***************************************************************************)
EXTENDS Integers, Sequences, FiniteSets

CONSTANTS
  N,                 \* modules after the kernel: the root task and the others
  ALIGNMENT,         \* build.py ALIGNMENT (0x10000)
  ArmKernelReserve,  \* the 4 MiB link_address adds after an arm kernel
  KernelBase,        \* where the kernel's LOAD segment starts
  KernelEnds,        \* where it may end
  Sizes,             \* memory footprints a relinked module may have
  RawAddrs,          \* link addresses a raw module's own ELF may have
  LinuxBuildAddrs,   \* addresses the plain vmlinux build may be linked at
  Flags,             \* flags the caller may give a module after the root task
  Archs,             \* target architectures: of machines.py's available machines
  Bss,               \* the part of an ELF's last LOAD segment not in the file
  LinkOutcomes,      \* exit outcomes of ld: a subset of BOOLEAN
  MakeOutcomes,      \* outcomes of the Wombat make: a subset of BOOLEAN
  NoLoad,            \* model value: readelf lists no LOAD segment
  NoAddr,            \* model value: no address / no file
  Partial            \* model value: a truncated ld output

ASSUME N \in Nat \ {0}
ASSUME ALIGNMENT \in Nat \ {0}
ASSUME Flags \subseteq {"", "raw", "l"}
Mach == INSTANCE Machines

ASSUME Archs \subseteq {Mach!Attr(m, "arch") : m \in Mach!Available}

Mods == 1..N

(* An artifact on disk: the extent of its last LOAD segment, and whether   *)
(* its file name ends in "kernel" (what the arm reservation tests).        *)
Artifact(lo, hi, isKernel) == [lo |-> lo, hi |-> hi, kernel |-> isKernel]
Blob == Artifact(NoLoad, NoLoad, FALSE)   \* a raw file that is not an ELF

VARIABLES
  arch,      \* env.arch
  flag,      \* flag[k]: the module's flag; the root task (k = 1) has ""
  pc,        \* the module whose buildreloc command runs next
  depends,   \* Bootimage's `depends`: artifacts, kernel first
  linkedAt,  \* linkedAt[k]: the address passed to ld / make for module k
  relocAt,   \* relocAt[k]: what <module>.reloc on disk is linked at,
             \*   NoAddr when absent, Partial when ld left a truncated file
  srcPresent,\* srcPresent[k]: the module's input binary is on disk
  status     \* "running", "done" or "failed" (the build's outcome)

vars == <<arch, flag, pc, depends, linkedAt, relocAt, srcPresent, status>>

-----------------------------------------------------------------------------
(* util/build.py align(): round up to ALIGNMENT.                           *)
Align(val) ==
  LET ovr == val % ALIGNMENT
  IN  IF ovr # 0 THEN val + ALIGNMENT - ovr ELSE val

(* machine.wordsize: each architecture's class in machines.py sets it and *)
(* no machine below it overrides it.                                      *)
Wordsize(a) == Mach!Attr(a, "wordsize")

ASSUME \A m \in Mach!Available :
         Mach!Attr(m, "wordsize") = Wordsize(Mach!Attr(m, "arch"))

(* `readelf -l <file>` as link_address reads it: the output lines, each   *)
(* split into words.  A word is text, or a hex number readelf prints and  *)
(* eval(s + "L") reads back, an exact round trip: it stands for the       *)
(* number.  A linked ELF has two LOAD segments, .text then .data with its *)
(* .bss not in the file; on an ELF64 readelf wraps each program header    *)
(* onto two lines.  A file that is not an ELF gives no output (the error  *)
(* goes to stderr).                                                        *)
Txt(str) == [txt |-> str]
Hex(n) == [hex |-> n]
Line(strs) == [i \in DOMAIN strs |-> Txt(strs[i])]

LoadLines(p, filesz, memsz) ==
  IF Wordsize(arch) = 32
  THEN << <<Txt("LOAD"), Txt("off"), Hex(p), Hex(p), Hex(filesz), Hex(memsz),
            Txt("RW"), Txt("align")>> >>
  ELSE << <<Txt("LOAD"), Txt("off"), Hex(p), Hex(p)>>,
          <<Hex(filesz), Hex(memsz), Txt("RW"), Txt("align")>> >>

Readelf(art) ==
  IF art.hi = NoLoad THEN <<>>
  ELSE << <<>>, Line(<<"Program", "Headers:">>),
          Line(<<"Type", "Offset", "VirtAddr", "PhysAddr">>) >>
       \o (IF Wordsize(arch) = 32 THEN <<>>
           ELSE << Line(<<"FileSiz", "MemSiz", "Flags", "Align">>) >>)
       \o LoadLines(art.lo, 1, 1)
       \o LoadLines(art.lo + 1, art.hi - art.lo - 1 - Bss, art.hi - art.lo - 1)
       \o << <<>>, Line(<<"00", ".text">>), Line(<<"01", ".data", ".bss">>) >>

(* parts[0] == "LOAD"                                                      *)
IsLoad(word) == "txt" \in DOMAIN word /\ word.txt = "LOAD"

(* The state of link_address's loop: last_phys, last_memsize, on_next, and *)
(* whether indexing a line raised IndexError.                              *)
ScanInit == [phys |-> NoLoad, memsz |-> NoLoad, onNext |-> 0, err |-> FALSE]

(* Mutant: a wrapped header's memory size taken from the first word of    *)
(* the following line (FileSiz) instead of the second.                     *)
ScanLineFilesz(st, parts) ==
  LET s1 == IF st.onNext = 1
            THEN IF Len(parts) < 2 THEN [st EXCEPT !.err = TRUE]
                 ELSE [st EXCEPT !.memsz = parts[1].hex, !.onNext = 0]
            ELSE st
  IN  IF Len(parts) > 4 /\ IsLoad(parts[1])
      THEN [s1 EXCEPT !.phys = parts[4].hex, !.memsz = parts[6].hex]
      ELSE IF Len(parts) > 0 /\ IsLoad(parts[1])
      THEN IF Len(parts) < 4 THEN [s1 EXCEPT !.err = TRUE]
           ELSE [s1 EXCEPT !.phys = parts[4].hex, !.onNext = 1]
      ELSE s1

(* One iteration of the loop over the lines: a line after a wrapped LOAD  *)
(* gives the memory size (its second word); a full LOAD line gives the    *)
(* physical address and memory size; a wrapped one the address, and sets *)
(* on_next.  Every LOAD line overwrites what an earlier one gave.          *)
ScanLine(st, parts) ==
  LET s1 == IF st.onNext = 1
            THEN IF Len(parts) < 2 THEN [st EXCEPT !.err = TRUE]
                 ELSE [st EXCEPT !.memsz = parts[2].hex, !.onNext = 0]
            ELSE st
  IN  IF Len(parts) > 4 /\ IsLoad(parts[1])
      THEN [s1 EXCEPT !.phys = parts[4].hex, !.memsz = parts[6].hex]
      ELSE IF Len(parts) > 0 /\ IsLoad(parts[1])
      THEN IF Len(parts) < 4 THEN [s1 EXCEPT !.err = TRUE]
           ELSE [s1 EXCEPT !.phys = parts[4].hex, !.onNext = 1]
      ELSE s1

(* The loop `for line in os.popen(...).readlines()`.  The state is bound  *)
(* to s, a value, so that each line is scanned once.                       *)
RECURSIVE ScanLines(_, _)
ScanLines(st, lines) ==
  IF lines = <<>> THEN st
  ELSE CHOOSE r \in {ScanLines(ScanLine(s, Head(lines)), Tail(lines)) : s \in {st}} : TRUE

Scan(art) == ScanLines(ScanInit, Readelf(art))

(* link_address finds an end address: no "Error finding end address" and  *)
(* no IndexError.                                                          *)
Found(art) == Scan(art).phys # NoLoad /\ ~Scan(art).err

(* Mutant: the arm reservation added after every file, not only the kernel. *)
LinkAddressArmAll(art) ==
  Align(Scan(art).phys + Scan(art).memsz + IF arch = "arm" THEN ArmKernelReserve ELSE 0)

(* link_address(file): the aligned end of the last LOAD segment readelf    *)
(* lists, plus the arm reservation when the file is the kernel.  Only     *)
(* defined when Found.                                                     *)
LinkAddress(art) ==
  Align(Scan(art).phys + Scan(art).memsz
        + IF arch = "arm" /\ art.kernel THEN ArmKernelReserve ELSE 0)

Last == depends[Len(depends)]

Init ==
  /\ arch \in Archs
  /\ flag \in {f \in [Mods -> Flags \cup {""}] : f[1] = ""}
  /\ pc = 1
  /\ depends \in {<<Artifact(KernelBase, e, TRUE)>> : e \in KernelEnds}
  /\ linkedAt = [k \in Mods |-> NoAddr]
  /\ relocAt = [k \in Mods |-> NoAddr]
  /\ srcPresent = [k \in Mods |-> TRUE]
  /\ status = "running"

Step(k) == status = "running" /\ pc = k

(* buildreloc on a `last` without LOAD segment: link_address raises        *)
(* before any command runs.                                                *)
ExtentNotFound(k) ==
  /\ Step(k) /\ flag[k] # "raw"
  /\ ~Found(Last)
  /\ status' = "failed"
  /\ UNCHANGED <<arch, flag, pc, depends, linkedAt, relocAt, srcPresent>>

(* ld -Ttext=<link_address(last)> succeeds: <module>.reloc is linked there *)
(* and becomes `last`.                                                     *)
RelinkOk(k) ==
  /\ Step(k) /\ flag[k] = "" /\ Found(Last) /\ TRUE \in LinkOutcomes
  /\ LET text == LinkAddress(Last)
     IN  \E size \in Sizes :
           /\ depends' = Append(depends, Artifact(text, text + size, FALSE))
           /\ linkedAt' = [linkedAt EXCEPT ![k] = text]
           /\ relocAt' = [relocAt EXCEPT ![k] = text]
  /\ pc' = k + 1
  /\ UNCHANGED <<arch, flag, srcPresent, status>>

(* ld exits non-zero: buildreloc removes app, the module's INPUT binary,   *)
(* and returns the status; whatever ld left as <module>.reloc stays.       *)
RelinkFails(k) ==
  /\ Step(k) /\ flag[k] = "" /\ Found(Last) /\ FALSE \in LinkOutcomes
  /\ linkedAt' = [linkedAt EXCEPT ![k] = LinkAddress(Last)]
  /\ \E left \in {NoAddr, Partial} : relocAt' = [relocAt EXCEPT ![k] = left]
  /\ srcPresent' = [srcPresent EXCEPT ![k] = FALSE]
  /\ status' = "failed"
  /\ UNCHANGED <<arch, flag, pc, depends>>

(* Flag "l": "cp vmlinux vmlinux.tmp; make LINUX_START_ADDR=<addr>;       *)
(* cp vmlinux <target>; cp vmlinux.tmp vmlinux" run as one shell command.  *)
(* Its exit status is that of the last cp, so a failed make goes          *)
(* unnoticed and <target> is the vmlinux of the earlier, plain build.      *)
RelinkLinux(k) ==
  /\ Step(k) /\ flag[k] = "l" /\ Found(Last)
  /\ LET text == LinkAddress(Last)
     IN  \E makeOk \in MakeOutcomes, plain \in LinuxBuildAddrs, size \in Sizes :
           LET at == IF makeOk THEN text ELSE plain
           IN  /\ depends' = Append(depends, Artifact(at, at + size, FALSE))
               /\ linkedAt' = [linkedAt EXCEPT ![k] = text]
               /\ relocAt' = [relocAt EXCEPT ![k] = at]
  /\ pc' = k + 1
  /\ UNCHANGED <<arch, flag, srcPresent, status>>

(* Mutant: a raw module left out of `depends`.                            *)
PassRawNotAppended(k) ==
  /\ Step(k) /\ flag[k] = "raw"
  /\ pc' = k + 1
  /\ UNCHANGED <<arch, flag, depends, linkedAt, relocAt, srcPresent, status>>

(* Flag "raw": no command; the binary itself is appended to `depends` and  *)
(* so is `last` for the next module.  It is either an ELF linked at an     *)
(* address of its own or a file with no LOAD segment.                      *)
PassRaw(k) ==
  /\ Step(k) /\ flag[k] = "raw"
  /\ \E raw \in {Blob} \cup {Artifact(a, a + s, FALSE) : a \in RawAddrs, s \in Sizes} :
       depends' = Append(depends, raw)
  /\ pc' = k + 1
  /\ UNCHANGED <<arch, flag, linkedAt, relocAt, srcPresent, status>>

(* Every module placed: the image command may run.                         *)
Finish ==
  /\ status = "running" /\ pc = N + 1
  /\ status' = "done"
  /\ UNCHANGED <<arch, flag, pc, depends, linkedAt, relocAt, srcPresent>>

Next ==
  \/ \E k \in Mods :
       \/ ExtentNotFound(k)
       \/ RelinkOk(k)
       \/ RelinkFails(k)
       \/ RelinkLinux(k)
       \/ PassRaw(k)
  \/ Finish

(* SCons runs the commands of the chain one after another until one fails *)
(* or all are done; nothing else competes for them.                        *)
Spec == Init /\ [][Next]_vars /\ WF_vars(Next)

-----------------------------------------------------------------------------
(* Invariants                                                              *)

Addr == Int
RelocState == Addr \cup {NoAddr, Partial}

TypeOK ==
  /\ arch \in Archs
  /\ flag \in [Mods -> Flags \cup {""}]
  /\ pc \in 1..N + 1
  /\ Len(depends) = pc
  /\ \A i \in 1..Len(depends) : depends[i].hi \in Addr \cup {NoLoad}
  /\ linkedAt \in [Mods -> Addr \cup {NoAddr}]
  /\ relocAt \in [Mods -> RelocState]
  /\ srcPresent \in [Mods -> BOOLEAN]
  /\ status \in {"running", "done", "failed"}

(* The end of an artifact's footprint that the next module must clear:    *)
(* the architecture profile reserves ArmKernelReserve after an arm kernel  *)
(* (spec 4.1).                                                             *)
Floor(art) == art.hi + IF arch = "arm" /\ art.kernel THEN ArmKernelReserve ELSE 0

(* Every address handed to ld or to the Wombat make is aligned, clears    *)
(* the footprint of the artifact it follows in `depends` (the file the     *)
(* command read, as it is on disk), and wastes less than one alignment     *)
(* unit: it is the least aligned address at or above that floor.  This is *)
(* what link_address, align and the threading of `last` through Bootimage  *)
(* together must achieve.                                                  *)
LinkedJustAfterPredecessor ==
  \A k \in Mods : linkedAt[k] # NoAddr =>
    /\ linkedAt[k] % ALIGNMENT = 0
    /\ Floor(depends[k]) <= linkedAt[k]
    /\ linkedAt[k] < Floor(depends[k]) + ALIGNMENT


-----------------------------------------------------------------------------
(* Properties the spec or the code's comments state and the code breaks;  *)
(* each is checked by a run that expects a violation.                      *)

(* Artifacts the chain links (kernel, relocated modules, the Linux         *)
(* kernel): those it does not link, raw modules, are placed by the loader. *)
Linked(i) == i = 1 \/ flag[i - 1] # "raw"

(* No two linked artifacts overlap in memory (spec 3, 8): the kernel and   *)
(* every relinked module occupy disjoint [lo, hi) ranges.  The spec says a *)
(* raw module never advances the cursor; Bootimage makes it `last`, so     *)
(* link_address places the next module after the raw ELF's own extent.     *)
RelocatedDisjoint ==
  \A i, j \in 1..Len(depends) :
    (i < j /\ Linked(i) /\ Linked(j)) =>
      depends[i].hi <= depends[j].lo \/ depends[j].hi <= depends[i].lo

(* Every module the chain has got past without error is on disk linked at *)
(* the address its command was given (spec 4.2: a failed relink or        *)
(* rebuild fails the build with RelocationFailed).                         *)
LinkedWhereRequested ==
  \A k \in Mods : (k < pc /\ flag[k] # "raw") => relocAt[k] = linkedAt[k]
=============================================================================
