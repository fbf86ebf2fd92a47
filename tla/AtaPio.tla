------------------------------- MODULE AtaPio -------------------------------
(***************************************************************************)
(* int13h_read_o and int13h_write_o of kernel/arch/i386/FAT.c, polling a   *)
(* drive that works on its own: it is busy with a command, asks for the    *)
(* words of a sector (DRQ), keeps written sectors in a cache, saves them   *)
(* when it likes or when it is told to, and may fail.  The drive is        *)
(* modelled from the registers the code uses.  The 256 words of a sector   *)
(* move in one step: the drive does nothing between them.                  *)
(***************************************************************************)
EXTENDS Integers

CONSTANTS
  PartStart, PartLength,  \* part_start_lba, part_length
  DiskEnd,                \* sectors of the whole disk
  WordSize,               \* modulus of an unsigned long
  MaxBlocks,              \* 0x7F
  PollLimit,              \* 100
  Requests,               \* calls the driver may make
  Failing,                \* commands the drive may fail
  Drops,                  \* does the drive ignore a command while it is busy?
  MaxCalls, MaxErrors, MaxCrashes

VARIABLES
  pc,           \* where the kernel is in the call
  req,          \* sector_offset and num_blocks of the call
  i,            \* iterator
  timeout,
  mem,          \* sectors of the transfer area
  ret,          \* what the last call returned
  drive,        \* the drive's command, its position and its status bits
  next,         \* a command that came while the drive was busy
  cache, media, \* written sectors the drive has not saved, and saved ones
  calls, errors, crashes

kernel == <<pc, req, i, timeout, mem, ret, calls>>
disk == <<drive, next, cache, media>>
vars == <<kernel, disk, errors, crashes>>

Lbas == 0 .. DiskEnd - 1
Unset == -1
Fresh(c, k) == DiskEnd + c * MaxBlocks + k
Data == 0 .. Fresh(MaxCalls, MaxBlocks)
NoReq == [op |-> "none", sector |-> 0, num |-> 0]

-----------------------------------------------------------------------------
(* The drive.  A command accepted while nothing is in progress starts at   *)
(* once and makes the drive busy.  One that comes too early waits for the  *)
(* sector in progress, or is lost; it always replaces a transfer for which *)
(* the host no longer comes.                                               *)
Command(op, lba, n) == [op |-> op, lba |-> lba, left |-> n]
NoCommand == Command("none", 0, 0)
Working(c) ==
  [cmd |-> c, bsy |-> c.op # "none", drq |-> FALSE, err |-> FALSE, buf |-> Unset]
Issue(c) ==
  IF drive.cmd.op = "none" \/ (drive.drq /\ ~Drops)
    THEN drive' = Working(c) /\ UNCHANGED next
    ELSE UNCHANGED drive /\ next' = IF Drops THEN next ELSE c

Visible == [l \in Lbas |->
  IF drive.cmd.op = "write" /\ drive.buf # Unset /\ l = drive.cmd.lba THEN drive.buf
  ELSE IF l \in DOMAIN cache THEN cache[l] ELSE media[l]]

Cached(l, v) == [x \in DOMAIN cache \cup {l} |-> IF x = l THEN v ELSE cache[x]]
Advanced(c) == [c EXCEPT !.lba = @ + 1, !.left = @ - 1]
AfterSector(c) ==
  IF next # NoCommand THEN Working(next)
  ELSE IF c.left > 0 THEN Working(c) ELSE Working(NoCommand)

(* Data for the host, or room for data from the host.                      *)
DriveReady ==
  /\ drive.bsy /\ drive.buf = Unset
  /\ \/ drive.cmd.op = "read"
        /\ IF next = NoCommand
             THEN drive' = [drive EXCEPT !.bsy = FALSE, !.drq = TRUE, !.buf = Visible[drive.cmd.lba]]
             ELSE drive' = Working(next)
     \/ drive.cmd.op = "write" /\ drive' = [drive EXCEPT !.bsy = FALSE, !.drq = TRUE]
  /\ next' = NoCommand
  /\ UNCHANGED <<kernel, cache, media, errors, crashes>>
DriveStores ==
  /\ drive.bsy /\ drive.cmd.op = "write" /\ drive.buf # Unset
  /\ cache' = Cached(drive.cmd.lba, drive.buf)
  /\ drive' = AfterSector(Advanced(drive.cmd)) /\ next' = NoCommand
  /\ UNCHANGED <<kernel, media, errors, crashes>>
DriveFlushes ==
  /\ drive.bsy /\ drive.cmd.op = "flush"
  /\ media' = Visible /\ cache' = [l \in {} |-> Unset]
  /\ drive' = Working(next) /\ next' = NoCommand
  /\ UNCHANGED <<kernel, errors, crashes>>
DriveSaves ==
  /\ \E l \in DOMAIN cache :
       /\ media' = [media EXCEPT ![l] = cache[l]]
       /\ cache' = [x \in DOMAIN cache \ {l} |-> cache[x]]
  /\ UNCHANGED <<kernel, drive, next, errors, crashes>>
DriveFails ==
  /\ drive.bsy /\ drive.cmd.op \in Failing /\ errors < MaxErrors
  /\ errors' = errors + 1
  /\ drive' = [Working(next) EXCEPT !.err = (next = NoCommand)] /\ next' = NoCommand
  /\ UNCHANGED <<kernel, cache, media, crashes>>

-----------------------------------------------------------------------------
(* The two checks in front of every transfer.                              *)
Refused_Late(r) == (r.sector + r.num) % WordSize > PartLength + 1 \/ r.num > MaxBlocks
Refused(r) == (r.sector + r.num) % WordSize > PartLength \/ r.num > MaxBlocks
Lba(r) == (r.sector + PartStart) % WordSize

Return(v) == pc' = "idle" /\ ret' = v

(* The caller fills the transfer area before it writes.                    *)
Call(r) ==
  /\ pc = "idle" /\ calls < MaxCalls
  /\ calls' = calls + 1 /\ req' = r /\ i' = 0 /\ timeout' = 0
  /\ mem' = IF r.op = "write" THEN [k \in DOMAIN mem |-> Fresh(calls, k)] ELSE mem
  /\ IF Refused(r)
       THEN Return(-1) /\ UNCHANGED disk
       ELSE /\ pc' = IF r.op = "read" THEN "poll" ELSE "error"
            /\ ret' = 1
            /\ Issue(Command(r.op, Lba(r), r.num)) /\ UNCHANGED <<cache, media>>
  /\ UNCHANGED <<errors, crashes>>

(* int13h_read_o: wait for DRQ, but not forever.                           *)
TimedOut == timeout + 1 = PollLimit
Poll ==
  /\ pc = "poll" /\ i < req.num /\ ~drive.drq
  /\ IF TimedOut
       THEN Return(-1) /\ UNCHANGED timeout
       ELSE timeout' = timeout + 1 /\ UNCHANGED <<pc, ret>>
  /\ UNCHANGED <<req, i, mem, calls, disk, errors, crashes>>

Position_Fixed == 0
Position == i
ReadSector ==
  /\ pc = "poll" /\ i < req.num /\ drive.drq
  /\ mem' = [mem EXCEPT ![Position] = drive.buf]
  /\ drive' = AfterSector(Advanced(drive.cmd))
  /\ i' = i + 1 /\ timeout' = 0
  /\ UNCHANGED <<pc, ret, req, calls, next, cache, media, errors, crashes>>

(* int13h_write_o: four reads of the status, one after the other, each of  *)
(* which may start them again.  While the drive is busy its error and      *)
(* ready bits mean nothing.                                                *)
Test(at, bits, then) ==
  /\ pc = at
  /\ \E b \in bits : pc' = IF b THEN then ELSE "error"
  /\ UNCHANGED <<req, i, timeout, mem, ret, calls, disk, errors, crashes>>
NoError == Test("error", IF drive.bsy THEN BOOLEAN ELSE {~drive.err}, "ready")
IsReady == Test("ready", IF drive.bsy THEN BOOLEAN ELSE {TRUE}, "busy")
NotBusy == Test("busy", {~drive.bsy}, "data")
RoomBit_Inverted == ~drive.drq
RoomBit == drive.drq
HasRoom == Test("data", {RoomBit}, "send")

AfterSend_NoFlush == "done"
AfterSend == "flush"
WriteSector ==
  /\ pc = "send"
  /\ drive' = IF drive.drq /\ drive.cmd.op = "write"
                THEN [drive EXCEPT !.bsy = TRUE, !.drq = FALSE, !.buf = mem[i]] ELSE drive
  /\ i' = i + 1
  /\ pc' = IF i + 1 = req.num THEN AfterSend ELSE "error"
  /\ UNCHANGED <<req, timeout, mem, ret, calls, next, cache, media, errors, crashes>>

(* 0xE7, the wait for the drive to finish, and the end of both calls.      *)
Flush ==
  /\ pc = "flush" /\ Issue(Command("flush", 0, 0))
  /\ pc' = "done"
  /\ UNCHANGED <<req, i, timeout, mem, ret, calls, cache, media, errors, crashes>>
Finished ==
  /\ (pc = "poll" /\ i = req.num) \/ (pc = "done" /\ ~drive.bsy)
  /\ Return(0)
  /\ UNCHANGED <<req, i, timeout, mem, calls, disk, errors, crashes>>

PowerLoss ==
  /\ crashes < MaxCrashes /\ crashes' = crashes + 1
  /\ drive' = Working(NoCommand) /\ next' = NoCommand /\ cache' = [l \in {} |-> Unset]
  /\ Return(1) /\ req' = NoReq /\ i' = 0 /\ timeout' = 0
  /\ UNCHANGED <<mem, calls, media, errors>>

-----------------------------------------------------------------------------
Init ==
  /\ pc = "idle" /\ req = NoReq /\ i = 0 /\ timeout = 0 /\ ret = 1
  /\ mem = [k \in 0 .. MaxBlocks - 1 |-> 0]
  /\ drive = Working(NoCommand) /\ next = NoCommand
  /\ media = [l \in Lbas |-> l] /\ cache = [l \in {} |-> Unset]
  /\ calls = 0 /\ errors = 0 /\ crashes = 0

Drive == DriveReady \/ DriveStores \/ DriveFlushes \/ DriveSaves \/ DriveFails
Kernel == Poll \/ ReadSector \/ NoError \/ IsReady \/ NotBusy \/ HasRoom \/ WriteSector \/ Flush \/ Finished
NoMoreCalls == pc = "idle" /\ calls = MaxCalls /\ UNCHANGED vars
Next == Drive \/ Kernel \/ PowerLoss \/ NoMoreCalls \/ \E r \in Requests : Call(r)
Spec == Init /\ [][Next]_vars

(* The kernel polls and does nothing else; a drive that is busy gets on    *)
(* with its command, or reports an error.                                  *)
DriveWorks == DriveReady \/ DriveStores \/ DriveFlushes
FairSpec == Spec /\ WF_vars(Kernel) /\ WF_vars(DriveWorks)
-----------------------------------------------------------------------------
(* "Returns 0 on success and non-zero on failure": after a call that       *)
(* returned 0 the transfer area and the sectors of the disk agree, through *)
(* time-outs whose data came too late, and power losses.                   *)
ZeroMeansDone ==
  pc = "idle" /\ ret = 0 => \A k \in 0 .. req.num - 1 : mem[k] = Visible[Lba(req) + k]

(* "Only write sectors on the booted partition": no step changes another   *)
(* sector of the disk, or one the call does not name.                      *)
StaysInPartition ==
  [][\A l \in Lbas : Visible'[l] # Visible[l] =>
       /\ l \in PartStart .. PartStart + PartLength - 1
       /\ l \in Lba(req) .. Lba(req) + req.num - 1 \/ crashes' # crashes]_vars

(* The polling driver and the drive together implement BlockDevice: sector *)
(* by sector, and durable when the write has returned.                     *)
Partition(d) == [b \in 0 .. PartLength - 1 |-> d[PartStart + b]]
Ongoing == pc # "idle"
Device == INSTANCE BlockDevice WITH
  Blocks <- 0 .. PartLength - 1,
  disk <- Partition(Visible), stable <- Partition(media),
  call <- IF Ongoing THEN req ELSE NoReq, done <- IF Ongoing THEN i ELSE 0
ImplementsDevice == Device!Spec

(* Every read returns, whatever the drive does; a write returns unless the *)
(* drive reports an error, over which int13h_write_o loops for ever.       *)
CallsEnd == pc # "idle" ~> pc = "idle" \/ (req.op = "write" /\ drive.err)
=============================================================================
