---------------------------- MODULE DiskImage ----------------------------
(***************************************************************************)
(* The disk-image composers of src/src/tools/bootimg.py: GrubBootImage    *)
(* (c.img, hard disk "c:" / "(hd0)") and GrubFloppyImage (usb.img, floppy *)
(* "a:" / "(fd0)").  Each writes the grub device map `bmap` and the        *)
(* mtools configuration `mtoolsrc`, both at a fixed path in env.builddir,  *)
(* then creates the image with dd, formats it, installs the grub stage     *)
(* files, runs the grub installer and copies every source onto it.  Only   *)
(* the exit status of the source copies is looked at: a failed copy        *)
(* removes the image and raises "Bootimage disk full".                     *)
(*                                                                         *)
(* SCons may run both builders at once (scons -j): they are independent    *)
(* targets of Bootimage (build.py).  Each os.system call and each write of *)
(* a configuration file is one atomic step; an mtools or grub command acts *)
(* on the image that the configuration file names at the moment it runs,  *)
(* and fails when that file does not define its drive.                     *)
(***************************************************************************)
EXTENDS Integers, FiniteSets

CONSTANTS
  Builders,      \* the image builders running; each builds the image named by itself
  Dev,           \* Dev[b]: the drive it names in mtoolsrc and bmap ("c:"/(hd0), "a:"/(fd0))
  NSources,      \* sources copied onto the image: modules, menu.lst, kickstart
  Capacity,      \* Capacity[b]: how many sources fit on image b
  ToolsMayFail,  \* whether dd, mtools and grub may fail for reasons of their own
  None           \* model value: a configuration file not yet written

Sources == 1..NSources

VARIABLES
  pc,         \* pc[b]: the builder's next step
  next,       \* next[b]: the source the copy loop is at
  bmap,       \* env.builddir/bmap: [dev, img] or None
  mtoolsrc,   \* env.builddir/mtoolsrc: [dev, img] or None
  exists,     \* exists[i]: the image file i is on disk
  formatted,  \* formatted[i]: image i carries a FAT filesystem
  stages,     \* stages[i]: /boot/grub and the three stage files are on it
  bootable,   \* bootable[i]: grub is installed in its boot sector
  copied      \* copied[i]: the sources on image i

vars == <<pc, next, bmap, mtoolsrc, exists, formatted, stages, bootable,
          copied>>

Steps == {"bmap", "mtoolsrc", "create", "format", "stages", "grub", "copy",
          "done", "failed"}

(* The outcomes an external tool may have.                                 *)
ToolOk == IF ToolsMayFail THEN BOOLEAN ELSE {TRUE}

(* Mutant: both builders name the same drive letter in mtoolsrc.          *)
MtoolTargetAnyDrive(b) == IF mtoolsrc # None THEN mtoolsrc.img ELSE None

(* The image an mtools command of b acts on: the file mtoolsrc gives for   *)
(* b's drive letter, or None when mtoolsrc does not define it.             *)
MtoolTarget(b) ==
  IF mtoolsrc # None /\ mtoolsrc.dev = Dev[b] THEN mtoolsrc.img ELSE None

(* The image grub --device-map=bmap installs on for b's device.            *)
GrubTarget(b) ==
  IF bmap # None /\ bmap.dev = Dev[b] THEN bmap.img ELSE None

Init ==
  /\ pc = [b \in Builders |-> "bmap"]
  /\ next = [b \in Builders |-> 1]
  /\ bmap = None
  /\ mtoolsrc = None
  /\ exists = [i \in Builders |-> FALSE]
  /\ formatted = [i \in Builders |-> FALSE]
  /\ stages = [i \in Builders |-> FALSE]
  /\ bootable = [i \in Builders |-> FALSE]
  /\ copied = [i \in Builders |-> {}]

Goto(b, from, to) == pc[b] = from /\ pc' = [pc EXCEPT ![b] = to]

(* open(bmap, "w").write("(hd0) %s" % output_image)                        *)
WriteBmap(b) ==
  /\ Goto(b, "bmap", "mtoolsrc")
  /\ bmap' = [dev |-> Dev[b], img |-> b]
  /\ UNCHANGED <<next, mtoolsrc, exists, formatted, stages, bootable, copied>>

(* open(mtoolsrc, "w").write('drive c: file="%s" ...' % output_image)      *)
WriteMtoolsrc(b) ==
  /\ Goto(b, "mtoolsrc", "create")
  /\ mtoolsrc' = [dev |-> Dev[b], img |-> b]
  /\ UNCHANGED <<next, bmap, exists, formatted, stages, bootable, copied>>

(* dd if=/dev/zero of=<image>: a fresh, zero-filled image (status ignored). *)
Create(b) ==
  /\ Goto(b, "create", "format")
  /\ \E ok \in ToolOk :
       IF ok
       THEN /\ exists' = [exists EXCEPT ![b] = TRUE]
            /\ formatted' = [formatted EXCEPT ![b] = FALSE]
            /\ stages' = [stages EXCEPT ![b] = FALSE]
            /\ bootable' = [bootable EXCEPT ![b] = FALSE]
            /\ copied' = [copied EXCEPT ![b] = {}]
       ELSE UNCHANGED <<exists, formatted, stages, bootable, copied>>
  /\ UNCHANGED <<next, bmap, mtoolsrc>>

(* mpartition -I; mpartition -c ...; mformat c: (statuses ignored).  A new *)
(* filesystem loses whatever was copied onto the image before.             *)
Format(b) ==
  /\ Goto(b, "format", "stages")
  /\ LET t == MtoolTarget(b)
     IN  \E ok \in ToolOk :
           IF ok /\ t # None /\ exists[t]
           THEN /\ formatted' = [formatted EXCEPT ![t] = TRUE]
                /\ stages' = [stages EXCEPT ![t] = FALSE]
                /\ copied' = [copied EXCEPT ![t] = {}]
           ELSE UNCHANGED <<formatted, stages, copied>>
  /\ UNCHANGED <<next, bmap, mtoolsrc, exists, bootable>>

(* mmd /boot, mmd /boot/grub, mcopy of stage1, stage2, fat_stage1_5.       *)
InstallStages(b) ==
  /\ Goto(b, "stages", "grub")
  /\ LET t == MtoolTarget(b)
     IN  \E ok \in ToolOk :
           IF ok /\ t # None /\ exists[t] /\ formatted[t]
           THEN stages' = [stages EXCEPT ![t] = TRUE]
           ELSE UNCHANGED stages
  /\ UNCHANGED <<next, bmap, mtoolsrc, exists, formatted, bootable, copied>>

(* echo "... setup (hd0)" | grub --device-map=bmap --batch (status ignored). *)
InstallGrub(b) ==
  /\ Goto(b, "grub", "copy")
  /\ LET t == GrubTarget(b)
     IN  \E ok \in ToolOk :
           IF ok /\ t # None /\ exists[t] /\ stages[t]
           THEN bootable' = [bootable EXCEPT ![t] = TRUE]
           ELSE UNCHANGED bootable
  /\ UNCHANGED <<next, bmap, mtoolsrc, exists, formatted, stages, copied>>

(* Why "mcopy -o <source> c:/boot/grub/<name>" would fail now, or "none".  *)
CopyFault(b, t) ==
  IF t = None \/ ~exists[t] \/ ~formatted[t] \/ ~stages[t] THEN "tool"
  ELSE IF next[b] \notin copied[t] /\ Cardinality(copied[t]) >= Capacity[t]
       THEN "full"
       ELSE "none"

(* Mutant: the copy loop runs one source past the end.                     *)
CopyOkPastEnd(b) ==
  /\ pc[b] = "copy" /\ next[b] <= NSources + 1
  /\ LET t == MtoolTarget(b)
     IN  /\ CopyFault(b, t) = "none"
         /\ copied' = [copied EXCEPT ![t] = @ \cup {next[b]}]
  /\ next' = [next EXCEPT ![b] = @ + 1]
  /\ UNCHANGED <<pc, bmap, mtoolsrc, exists, formatted, stages, bootable>>

(* copy(each) succeeds: the source is on the image mtoolsrc names.         *)
CopyOk(b) ==
  /\ pc[b] = "copy" /\ next[b] <= NSources
  /\ LET t == MtoolTarget(b)
     IN  /\ CopyFault(b, t) = "none"
         /\ TRUE \in ToolOk
         /\ copied' = [copied EXCEPT ![t] = @ \cup {next[b]}]
  /\ next' = [next EXCEPT ![b] = @ + 1]
  /\ UNCHANGED <<pc, bmap, mtoolsrc, exists, formatted, stages, bootable>>

(* copy(each) fails: os.system("rm <image>") and raise "Bootimage disk     *)
(* full", whatever made mcopy fail.                                        *)
CopyFails(b) ==
  /\ pc[b] = "copy" /\ next[b] <= NSources
  /\ CopyFault(b, MtoolTarget(b)) # "none" \/ FALSE \in ToolOk
  /\ pc' = [pc EXCEPT ![b] = "failed"]
  /\ exists' = [exists EXCEPT ![b] = FALSE]
  /\ formatted' = [formatted EXCEPT ![b] = FALSE]
  /\ stages' = [stages EXCEPT ![b] = FALSE]
  /\ bootable' = [bootable EXCEPT ![b] = FALSE]
  /\ copied' = [copied EXCEPT ![b] = {}]
  /\ UNCHANGED <<next, bmap, mtoolsrc>>

(* The copy loop is over: the builder returns and SCons records success.   *)
Finish(b) ==
  /\ pc[b] = "copy" /\ next[b] = NSources + 1
  /\ pc' = [pc EXCEPT ![b] = "done"]
  /\ UNCHANGED <<next, bmap, mtoolsrc, exists, formatted, stages, bootable, copied>>

Next ==
  \E b \in Builders :
    \/ WriteBmap(b) \/ WriteMtoolsrc(b) \/ Create(b) \/ Format(b)
    \/ InstallStages(b) \/ InstallGrub(b) \/ CopyOk(b) \/ CopyFails(b)
    \/ Finish(b)

Spec == Init /\ [][Next]_vars

-----------------------------------------------------------------------------
(* Invariants                                                              *)

Config == [dev : {Dev[b] : b \in Builders}, img : Builders] \cup {None}

TypeOK ==
  /\ pc \in [Builders -> Steps]
  /\ next \in [Builders -> 1..NSources + 1]
  /\ bmap \in Config /\ mtoolsrc \in Config
  /\ exists \in [Builders -> BOOLEAN]
  /\ formatted \in [Builders -> BOOLEAN]
  /\ stages \in [Builders -> BOOLEAN]
  /\ bootable \in [Builders -> BOOLEAN]
  /\ copied \in [Builders -> SUBSET Sources]

(* Composition is all or nothing (spec 4.4, 7), even with both builders    *)
(* running at once on the shared configuration files: a builder that     *)
(* failed has left no image file, and one that succeeded has every source *)
(* on its own image, which no other builder has touched since.            *)
ImageAllOrNothing ==
  \A b \in Builders :
    /\ pc[b] = "failed" => ~exists[b]
    /\ pc[b] = "done" => exists[b] /\ formatted[b] /\ copied[b] = Sources

-----------------------------------------------------------------------------
(* Properties the spec states and the code breaks (runs expect a          *)
(* violation).                                                             *)

(* An image reported built boots: grub is installed on it (spec 4.4,      *)
(* steps 1-5 strictly ordered, any failure fatal).                         *)
SuccessMeansBootable ==
  \A b \in Builders : pc[b] = "done" => bootable[b]

=============================================================================
