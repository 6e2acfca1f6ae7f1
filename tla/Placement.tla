---------------------------- MODULE Placement ----------------------------
(***************************************************************************)
(* What the relocation chain promises (spec 4.1, 4.2, 3): an address      *)
(* cursor starts at the aligned end of the kernel, plus the architecture's *)
(* reservation after a kernel image; each module that is not raw is placed *)
(* at the cursor and the cursor moves to the aligned end of that module;   *)
(* a raw module is placed unchanged and does not move the cursor; any     *)
(* step may fail, which ends the chain.  It abstracts every file and tool. *)
(***************************************************************************)
EXTENDS Integers

CONSTANTS N, ALIGNMENT, ArmKernelReserve, KernelEnds, Sizes, Flags, Archs,
          NoAddr

VARIABLES arch, flag, next, cursor, placed, outcome

Mods == 1..N

(* The least multiple of ALIGNMENT at or above v.                          *)
RoundUp(v) == CHOOSE m \in v..v + ALIGNMENT - 1 : m % ALIGNMENT = 0

(* The architecture profile: extra span reserved after a kernel image.     *)
KernelReserve(a) == IF a = "arm" THEN ArmKernelReserve ELSE 0

Init ==
  /\ arch \in Archs
  /\ flag \in {f \in [Mods -> Flags \cup {""}] : f[1] = ""}
  /\ next = 1
  /\ cursor \in {RoundUp(e + KernelReserve(arch)) : e \in KernelEnds}
  /\ placed = [k \in Mods |-> NoAddr]
  /\ outcome = "running"

Place(k) ==
  /\ outcome = "running" /\ next = k /\ flag[k] # "raw"
  /\ placed' = [placed EXCEPT ![k] = cursor]
  /\ cursor' \in {RoundUp(cursor + s) : s \in Sizes}
  /\ next' = k + 1
  /\ UNCHANGED <<arch, flag, outcome>>

PassRaw(k) ==
  /\ outcome = "running" /\ next = k /\ flag[k] = "raw"
  /\ next' = k + 1
  /\ UNCHANGED <<arch, flag, cursor, placed, outcome>>

Fail ==
  /\ outcome = "running"
  /\ outcome' = "failed"
  /\ UNCHANGED <<arch, flag, next, cursor, placed>>

Complete ==
  /\ outcome = "running" /\ next = N + 1
  /\ outcome' = "done"
  /\ UNCHANGED <<arch, flag, next, cursor, placed>>

Next == (\E k \in Mods : Place(k) \/ PassRaw(k)) \/ Fail \/ Complete

Spec == Init /\ [][Next]_<<arch, flag, next, cursor, placed, outcome>>
=============================================================================
