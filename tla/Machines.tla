----------------------------- MODULE Machines -----------------------------
(***************************************************************************)
(* The machine classes of src/src/tools/machines.py and the way build.py   *)
(* reads them.  A class is its parent (single inheritance; Machine's is    *)
(* "object") and the attributes its body assigns; an attribute of a class *)
(* is the one of the nearest class up the chain that assigns it, as in     *)
(* Python, and a class none of whose ancestors assigns it has none         *)
(* (AttributeError).  Only the attributes build.py and bootimg.py read to *)
(* choose what to build are kept; the compiler flag lists, cpu and the     *)
(* timer and serial drivers, which only go into command lines, are left   *)
(* out.  Python's None is the string "None" for a string attribute;       *)
(* pidreloc, None or True and only compared with True, is a boolean;      *)
(* drivers is the set of its items.                                        *)
(***************************************************************************)
EXTENDS TLC

Class(parent, attrs) == [parent |-> parent, attrs |-> attrs]

NoAttrs == [a \in {} |-> "None"]

(* class Machine and the ia32 machines.                                    *)
Ia32Classes ==
  ("Machine" :> Class("object",
      [virtual |-> TRUE, wordsize |-> "None", elfloader |-> FALSE,
       endian |-> "None", pidreloc |-> FALSE, wombat_config |-> "None",
       drivers |-> {}]))
  @@ ("ia32" :> Class("Machine",
      [wordsize |-> 32, arch |-> "ia32", endian |-> "little", toolchain |-> "",
       sim |-> "qemu_sim", wombat_config |-> "l4linux_config_ia32"]))
  @@ ("pc99_vga" :> Class("ia32",
      [virtual |-> FALSE, l4conf |-> "ia32-qemu-graphic", platform |-> "pc99",
       serial_console |-> FALSE]))
  @@ ("pc99" :> Class("ia32",
      [virtual |-> FALSE, l4conf |-> "ia32-qemu-serial", platform |-> "pc99",
       serial_console |-> TRUE]))

(* The arm machines: StrongARM, XScale (pxa, ixp4xx), s3c2410, at91rm9200. *)
ArmClasses ==
  ("arm" :> Class("Machine",
      [wordsize |-> 32, arch |-> "arm", toolchain |-> "arm-linux-",
       endian |-> "little", sim |-> "skyeye_sim", pidreloc |-> TRUE,
       wombat_config |-> "l4linux_config_arm"]))
  @@ ("sa1100" :> Class("arm",
      [l4conf |-> "sa1100", wombat_config |-> "l4linux_config_sa1100"]))
  @@ ("pleb" :> Class("sa1100",
      [virtual |-> FALSE, skyeye |-> "pleb.skyeye", platform |-> "pleb"]))
  @@ ("ipaq_h3800" :> Class("sa1100",
      [virtual |-> FALSE, skyeye |-> "pleb.skyeye", elfloader |-> TRUE,
       platform |-> "pleb"]))
  @@ ("xscale" :> Class("arm", NoAttrs))
  @@ ("pxa" :> Class("xscale",
      [platform |-> "pxa", wombat_config |-> "l4linux_config_pxa",
       drivers |-> {"pxa"}]))
  @@ ("ixp4xx" :> Class("xscale",
      [platform |-> "ixp4xx", wombat_config |-> "l4linux_config_ixp4xx"]))
  @@ ("pleb2" :> Class("pxa",
      [virtual |-> FALSE, skyeye |-> "pleb2.skyeye", elfloader |-> TRUE,
       subplatform |-> "pxa255", wombat_config |-> "l4linux_config_pleb2"]))
  @@ ("pleb2_thumb" :> Class("pleb2", [toolchain |-> "arm-elf-"]))
  @@ ("gumstix" :> Class("pxa",
      [virtual |-> FALSE, skyeye |-> "gumstix.skyeye", elfloader |-> TRUE,
       subplatform |-> "pxa255", wombat_config |-> "l4linux_config_gumstix"]))
  @@ ("ibox" :> Class("pxa",
      [virtual |-> FALSE, skyeye |-> "ibox.skyeye", elfloader |-> TRUE,
       subplatform |-> "pxa270", wombat_config |-> "l4linux_config_ibox"]))
  @@ ("hx4700" :> Class("pxa",
      [virtual |-> FALSE, skyeye |-> "hx4700.skyeye", elfloader |-> TRUE,
       subplatform |-> "pxa270"]))
  @@ ("ln2410sbc" :> Class("arm",
      [virtual |-> FALSE, l4conf |-> "ln2410sbc", skyeye |-> "ln2410sbc.skyeye",
       platform |-> "ln2410sbc"]))
  @@ ("smdk2410" :> Class("arm",
      [virtual |-> FALSE, l4conf |-> "ln2410sbc", platform |-> "ln2410sbc"]))
  @@ ("nslu2" :> Class("ixp4xx",
      [elfloader |-> TRUE, endian |-> "big", skyeye |-> "nslu2.skyeye",
       subplatform |-> "ixp420", toolchain |-> "armv5b-softfloat-linux-",
       virtual |-> FALSE]))
  @@ ("at91rm9200" :> Class("arm", [platform |-> "at91rm9200"]))
  @@ ("at9200dev" :> Class("at91rm9200", [virtual |-> FALSE, elfloader |-> TRUE]))
  @@ ("csb337" :> Class("at91rm9200", [virtual |-> FALSE, elfloader |-> TRUE]))

(* The mips64, alpha and powerpc machines.                                  *)
OtherClasses ==
  ("mips64" :> Class("Machine",
      [wordsize |-> 64, arch |-> "mips64", toolchain |-> "mips64-elf-",
       sim |-> "sulima_sim"]))
  @@ ("u4600" :> Class("mips64",
      [virtual |-> FALSE, platform |-> "u4600", l4conf |-> "u4600",
       endian |-> "big"]))
  @@ ("alpha" :> Class("Machine",
      [wordsize |-> 64, arch |-> "alpha", endian |-> "little",
       toolchain |-> "alpha-unknown-linux-gnu-", elfloader |-> TRUE,
       sim |-> "m5_sim"]))
  @@ ("ds20" :> Class("alpha", [virtual |-> FALSE, l4conf |-> "tsunami"]))
  @@ ("powerpc" :> Class("Machine",
      [wordsize |-> 32, arch |-> "powerpc", toolchain |-> "powerpc-linux-"]))
  @@ ("ppc405" :> Class("powerpc", NoAttrs))
  @@ ("pek405" :> Class("ppc405",
      [virtual |-> FALSE, l4conf |-> "pek405", platform |-> "pek405",
       endian |-> "big"]))

Classes == Ia32Classes @@ ArmClasses @@ OtherClasses

(* The class that supplies attribute a of class c, or "object" if none.    *)
RECURSIVE Owner(_, _)
Owner(c, a) ==
  CASE c = "object" -> "object"
    [] a \in DOMAIN Classes[c].attrs -> c
    [] OTHER -> Owner(Classes[c].parent, a)

(* hasattr(c, a) and c.a                                                    *)
HasAttr(c, a) == Owner(c, a) # "object"
Attr(c, a) == Classes[Owner(c, a)].attrs[a]

(* build.py's available_machines: the subclasses of Machine in the module, *)
(* Machine included, that are not virtual.                                 *)
Available == {c \in DOMAIN Classes : ~Attr(c, "virtual")}
=============================================================================
