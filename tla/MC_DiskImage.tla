--------------------------- MODULE MC_DiskImage ---------------------------
(***************************************************************************)
(* Instantiates DiskImage for TLC: the hard-disk image c.img ("hd") and    *)
(* the USB floppy image usb.img ("fd"), three sources (a module, menu.lst  *)
(* and kickstart); an image holds all of them, or only two (the tight      *)
(* floppy), or one more than there are (the roomy hard disk).              *)
(***************************************************************************)
EXTENDS DiskImage

MC_Both == {"hd", "fd"}
MC_HdOnly == {"hd"}
MC_Dev == [b \in {"hd", "fd"} |-> IF b = "hd" THEN "c" ELSE "a"]
MC_NSources == 3
MC_Roomy == [b \in {"hd", "fd"} |-> 3]
MC_Tight == [b \in {"hd", "fd"} |-> IF b = "hd" THEN 4 ELSE 2]
=============================================================================
