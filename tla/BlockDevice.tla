----------------------------- MODULE BlockDevice -----------------------------
(***************************************************************************)
(* What the FAT driver relies on when it calls int13h_read_o and           *)
(* int13h_write_o of kernel/arch/i386/FAT.c: sectors move one at a time    *)
(* between the transfer area and the partition, a call that returns 0 has  *)
(* moved them all, and a write that has returned survives a power loss.    *)
(* A failed read (-1) has moved some of them.  AtaPio is shown to implement *)
(* this module; the disk transfers of FatVolume are of this kind.          *)
(***************************************************************************)
EXTENDS Integers

CONSTANTS
  Blocks,       \* sector numbers of the partition
  Data,         \* contents of a sector
  MaxBlocks     \* sectors a call may move

VARIABLES
  disk,         \* what a read finds
  stable,       \* what is left after a power loss
  mem,          \* the transfer area
  call, done    \* the call in progress, and how many sectors it has moved

vars == <<disk, stable, mem, call, done>>

Idle == [op |-> "none", sector |-> 0, num |-> 0]
Calls == [op : {"read", "write"}, sector : Blocks, num : 0 .. MaxBlocks]
Sector == call.sector + done
Held == [Blocks -> Data]
Area == [0 .. MaxBlocks - 1 -> Data]

Init == disk \in Held /\ stable = disk /\ mem \in Area /\ call = Idle /\ done = 0

(* A call names sectors of the partition only; any other one is refused    *)
(* before the disk is asked, with the area the caller has filled.          *)
Start(c) ==
  /\ call = Idle /\ \A i \in 0 .. c.num - 1 : c.sector + i \in Blocks
  /\ call' = c /\ done' = 0
  /\ IF c.op = "write" THEN mem' \in Area ELSE UNCHANGED mem
  /\ UNCHANGED <<disk, stable>>

Refuse == call = Idle /\ mem' \in Area /\ UNCHANGED <<disk, stable, call, done>>

Read ==
  /\ call.op = "read" /\ done < call.num
  /\ mem' = [mem EXCEPT ![done] = disk[Sector]] /\ done' = done + 1
  /\ UNCHANGED <<disk, stable, call>>
Write ==
  /\ call.op = "write" /\ done < call.num
  /\ disk' = [disk EXCEPT ![Sector] = mem[done]] /\ done' = done + 1
  /\ UNCHANGED <<stable, mem, call>>

(* The drive may save sectors at any time.                                 *)
Settle ==
  /\ stable' \in [Blocks -> Data] /\ \A b \in Blocks : stable'[b] \in {stable[b], disk[b]}
  /\ UNCHANGED <<disk, mem, call, done>>

End == call' = Idle /\ done' = 0 /\ UNCHANGED <<disk, stable, mem>>
Return == call # Idle /\ done = call.num /\ (call.op = "write" => stable = disk) /\ End
Fail == call.op = "read" /\ done < call.num /\ End

PowerLoss == disk' = stable /\ call' = Idle /\ done' = 0 /\ UNCHANGED <<stable, mem>>

Next == (\E c \in Calls : Start(c)) \/ Refuse \/ Read \/ Write \/ Settle \/ Return \/ Fail \/ PowerLoss
Spec == Init /\ [][Next]_vars
=============================================================================
