------------------------------ MODULE FatVolume ------------------------------
(***************************************************************************)
(* The FAT32 driver of kernel/arch/i386/FAT.c: putFile and getFile with    *)
(* everything they call (directorySearch, directoryAdd, allocateFreeFAT,   *)
(* clusterRead, clusterWrite, FATRead, FATWrite).  One step is one disk    *)
(* transfer together with the memory-only code up to the next transfer.    *)
(*                                                                         *)
(* A cluster is a sequence of units.  A unit of a directory is one 32-byte *)
(* entry slot; a unit of a file is one byte; the model scales both to the  *)
(* same small number per sector.  The driver has ONE transfer area in      *)
(* memory (DISK_READ_LOCATION = DISK_WRITE_LOCATION): `buf', one cell per  *)
(* cluster.  Table sectors go through cell 0, like directory clusters.     *)
(***************************************************************************)
EXTENDS Integers, Sequences, FiniteSets

CONSTANTS
  TotalClusters,   \* total_clusters: cluster numbers are 2 .. TotalClusters-1
  DataEnd,         \* the first cluster whose sectors are outside the partition
  SPC,             \* bootsect.sectors_per_cluster
  SlotsPerSector,  \* units in a sector
  EntriesPerSlot,  \* table entries in the space of one unit (8 in the code)
  TableLen,        \* entries in all copies of the table, which lie side by side
  LowKept,         \* values GET_ENTRY_LOW_BITS keeps apart (16 in the code)
  HalfWord,        \* modulus of unsigned short
  Root,            \* root_cluster
  BufClusters,     \* clusters in the 256kB transfer area
  WordSize,        \* modulus of unsigned int
  Names, NoName,   \* file names in FAT format; the name of a non-entry
  BadNames,        \* those testIfFATFormat refuses
  ShortNames,      \* those with an extension of one or two characters
  Volumes,         \* the volumes the driver may find at start-up
  DirPaths,        \* directory paths below C:\, as sequences of names
  Sizes,           \* file sizes offered to putFile, in units
  Offsets,         \* readInOffset values offered to getFile
  MaxCalls,        \* bound: calls of putFile and getFile
  MaxFaults,       \* bound: sector reads that time out
  MaxCrashes       \* bound: power losses

FREE == 0
BAD == 268435447
END == 268435448

(* FATInitialize divides ALL sectors of the volume by the cluster size, so *)
(* the highest cluster numbers the driver accepts have no data sectors.    *)
Clusters == 2 .. TotalClusters - 1
Stored == 2 .. DataEnd - 1
ClusterUnits == SPC * SlotsPerSector
Units == 0 .. ClusterUnits - 1
EntriesPerSector == EntriesPerSlot * SlotsPerSector
Table == 0 .. TableLen - 1
Cells == 0 .. BufClusters + TotalClusters

Unit == [kind : {"end", "free", "junk", "file", "dir", "byte"},
         name : Names \cup {NoName}, n : Nat, size : Nat]
Content == [Units -> Unit]
IsEntry(u) == u.kind \in {"file", "dir"}

Mark(k) == [kind |-> k, name |-> NoName, n |-> 0, size |-> 0]
Byte(name, i) == [kind |-> "byte", name |-> name, n |-> i, size |-> 0]
Blank == [i \in Units |-> Mark("end")]

VARIABLES
  fat,      \* the file allocation table on disk
  data,     \* the data area on disk
  buf,      \* the transfer area
  pc,       \* the transfer that comes next
  call,     \* the arguments of the call in progress, or of the last one
  result,   \* what the last call returned
  meta,     \* file_info: the directory entry found last
  todo,     \* path components still to be resolved
  seek,     \* directorySearch: the name it looks for
  after,    \* the caller directorySearch or allocateFreeFAT returns to
  cluster,  \* the cluster being searched, extended, read or written
  dir,      \* putFile: first cluster of the receiving directory
  slot,     \* directoryAdd: the open slot in cell 0
  probe,    \* allocateFreeFAT: the cluster being tried
  left,     \* putFile: dataLeftToWrite
  count,    \* getFile: clusterReadCount
  calls, faults, crashes,  \* calls, read time-outs and power losses so far
  files,    \* history: what putFile reported as written
  mishaps   \* history: what has gone wrong unnoticed, see Mishap

disk == <<fat, data>>
locals == <<todo, seek, after, cluster, dir, slot, probe, left, count>>
vars == <<disk, buf, pc, call, result, meta, locals, calls, faults, crashes, files,
          mishaps>>

-----------------------------------------------------------------------------
(* Table look-up.  Both functions divide the byte offset by the CLUSTER    *)
(* size to find the sector, read ONE sector into a zeroed array of cluster *)
(* size, and index that array: with SPC > 1 an entry past the first sector *)
(* of a group reads as zero, and a write to it is lost.                    *)
ValidCluster(c) == c >= 2 /\ c < TotalClusters
TableSector(c) == c \div (SPC * EntriesPerSector)
EntOffset(c) == c % (SPC * EntriesPerSector)
Covered(c) == EntOffset(c) < EntriesPerSector
TableIndex(c) == TableSector(c) * EntriesPerSector + EntOffset(c)
TableValue(c) == IF Covered(c) THEN fat[TableIndex(c)] ELSE 0
TableSet(c, v) == IF Covered(c) THEN [fat EXCEPT ![TableIndex(c)] = v] ELSE fat

(* A table sector seen as directory slots: the first byte of slot k is the *)
(* low byte of table entry EntriesPerSlot * k of that sector.              *)
LowByteUnit(v) ==
  CASE v % 256 = 0 -> Mark("end")
    [] v % 256 = 229 -> Mark("free")
    [] OTHER -> Mark("junk")
SectorImage(table, c) ==
  [k \in 0 .. SlotsPerSector - 1 |->
     LowByteUnit(table[TableSector(c) * EntriesPerSector + EntriesPerSlot * k])]
WithTableSector_WholeCluster(cell, table, c) ==
  [i \in Units |-> LowByteUnit(table[TableSector(c) * EntriesPerSector + EntriesPerSlot * i])]
WithTableSector(cell, table, c) ==
  [i \in Units |-> IF i < SlotsPerSector THEN SectorImage(table, c)[i] ELSE cell[i]]

Fault == faults < MaxFaults /\ faults' = faults + 1

(* The two outcomes of each routine: it returned its value, or -1.         *)
FATReadOk(c) ==
  /\ ValidCluster(c)
  /\ buf' = [buf EXCEPT ![0] = WithTableSector(@, fat, c)]
  /\ UNCHANGED faults
FATReadFails(c) ==
  /\ \/ ~ValidCluster(c) /\ UNCHANGED faults
     \/ ValidCluster(c) /\ Fault
  /\ UNCHANGED buf
FATWriteOk(c, v) ==
  /\ ValidCluster(c)
  /\ fat' = TableSet(c, v)
  /\ buf' = [buf EXCEPT ![0] = WithTableSector(@, TableSet(c, v), c)]
  /\ UNCHANGED <<data, faults>>
FATWriteFails(c) == FATReadFails(c) /\ UNCHANGED disk

(* int13h_read_o and int13h_write_o refuse sectors outside the partition.  *)
OnDisk(c) == ValidCluster(c) /\ c < DataEnd
Sectors(B, new, old) ==
  [i \in Units |-> IF i \div SlotsPerSector \in B THEN new[i] ELSE old[i]]
clusterReadOk(c, cell) ==
  /\ OnDisk(c)
  /\ buf' = [buf EXCEPT ![cell] = data[c]]
  /\ UNCHANGED faults
clusterReadFails(c, cell) ==
  \/ ~OnDisk(c) /\ UNCHANGED <<buf, faults>>
  \/ /\ OnDisk(c) /\ Fault
     /\ \E b \in 0 .. SPC - 1 :
          buf' = [buf EXCEPT ![cell] = Sectors(0 .. b - 1, data[c], @)]

(* GET_ENTRY_LOW_BITS keeps four bits of the low half, x & (16 - 1),       *)
(* GET_ENTRY_HIGH_BITS the high half; GET_CLUSTER_FROM_ENTRY puts the two  *)
(* together again.                                                         *)
EntryCluster(c) == ((c % HalfWord) % LowKept) + HalfWord * (c \div HalfWord)

(* convertFromFATFormat leaves a byte of its output unwritten behind a     *)
(* short extension: what directorySearch then looks for is the name or a   *)
(* name no entry has.                                                      *)
SearchNames(name) == IF name \in ShortNames THEN {name, NoName} ELSE {name}

(* What the driver does not notice.  "passed": allocateFreeFAT has taken a *)
(* failed table read for a cluster in use.  "cut": an entry was stored     *)
(* that names another cluster than the one allocated for it.  "confused":  *)
(* a cluster with bytes of a file in it was read as a directory; the model *)
(* goes on as if no byte looked like an entry.  "missed": putFile looked   *)
(* for the wrong name when it checked that the file does not exist yet.    *)
Mishap == {"passed", "cut", "confused", "missed"}
When(condition, what) == IF condition THEN {what} ELSE {}
HoldsBytes(x) == \E i \in Units : x[i].kind = "byte"
ReadAsDirectory(x) ==
  mishaps' = mishaps \cup When(HoldsBytes(x), "confused")
                     \cup When(after = "exists" /\ seek # call.name, "missed")
EntryStored == mishaps' = mishaps \cup When(EntryCluster(probe) # probe, "cut")

-----------------------------------------------------------------------------
(* Returns and calls.                                                      *)
ClearLocals ==
  /\ todo' = <<>> /\ seek' = NoName /\ after' = "none"
  /\ cluster' = 0 /\ dir' = 0 /\ slot' = 0 /\ probe' = 0
  /\ left' = 0 /\ count' = 0

Return(r) == pc' = "idle" /\ result' = r /\ ClearLocals /\ UNCHANGED call

Search(name, c, caller) ==
  /\ pc' = "search" /\ seek' = name /\ cluster' = c /\ after' = caller
  /\ UNCHANGED <<call, result, slot, probe, left, count>>

Allocate(caller) ==
  /\ pc' = "alloc" /\ probe' = 2 /\ after' = caller
  /\ UNCHANGED <<call, result, todo, seek, dir, count>>

Goto(label, c) ==
  /\ pc' = label /\ cluster' = c
  /\ UNCHANGED <<call, result, todo, seek, after, dir, slot, probe>>

Begin == pc = "idle" /\ calls < MaxCalls /\ calls' = calls + 1

BeginPut(path, name, size) ==
  /\ Begin
  /\ call' = [kind |-> "put", path |-> path, name |-> name, size |-> size, off |-> 0]
  /\ \/ /\ name \in BadNames
        /\ result' = -2
        /\ UNCHANGED <<pc, locals, meta>>
     \/ /\ name \notin BadNames /\ path = <<>>
        /\ meta' = [Mark("dir") EXCEPT !.n = Root]
        /\ pc' = "search" /\ seek' \in SearchNames(name) /\ cluster' = Root /\ dir' = Root
        /\ after' = "exists"
        /\ UNCHANGED <<result, todo, slot, probe, left, count>>
     \/ /\ name \notin BadNames /\ path # <<>>
        /\ pc' = "search" /\ seek' = Head(path) /\ todo' = Tail(path)
        /\ cluster' = Root /\ after' = "path"
        /\ UNCHANGED <<result, meta, dir, slot, probe, left, count>>
  /\ UNCHANGED <<disk, buf, faults, crashes, files, mishaps>>

BeginGet(path, off) ==
  /\ Begin /\ path # <<>>
  /\ call' = [kind |-> "get", path |-> path, name |-> NoName, size |-> 0, off |-> off]
  /\ pc' = "search" /\ seek' = Head(path) /\ todo' = Tail(path)
  /\ cluster' = Root /\ after' = "path"
  /\ UNCHANGED <<disk, buf, result, meta, dir, slot, probe, left, count,
                 faults, crashes, files, mishaps>>

(* The end-of-chain test on a value FATRead has returned.                  *)
EndOfChain_Linked(v) == v # FREE
EndOfChain(v) == v >= END

-----------------------------------------------------------------------------
(* directorySearch and what its three callers do with the answer.          *)
Stops(u, name) == u.kind = "end" \/ (IsEntry(u) /\ u.name = name)
Hits(cell, name) == {i \in Units : Stops(cell[i], name)}
IsFirst(i, S) == i \in S /\ \A j \in S : i <= j

(* getFile once the whole path is resolved to the entry u.                 *)
BytesNeeded(u) == (call.off * ClusterUnits + u.size) % WordSize
OffsetRefused_Zero(u) == BytesNeeded(u) > BufClusters * ClusterUnits
OffsetRefused_Large(u) == call.off < 1
OffsetRefused(u) == call.off < 1 \/ BytesNeeded(u) > BufClusters * ClusterUnits
ReadFile(u) ==
  IF u.kind = "dir" \/ OffsetRefused(u)
    THEN Return(-3)
    ELSE Goto("getRead", u.n) /\ count' = 0 /\ UNCHANGED left

Found(u) ==
  \/ /\ after = "path" /\ meta' = u
     /\ \/ /\ todo # <<>>
           /\ Search(Head(todo), u.n, "path") /\ todo' = Tail(todo) /\ UNCHANGED dir
        \/ /\ todo = <<>> /\ call.kind = "put"
           /\ \E sought \in SearchNames(call.name) : Search(sought, u.n, "exists")
           /\ dir' = u.n /\ UNCHANGED todo
        \/ /\ todo = <<>> /\ call.kind = "get"
           /\ ReadFile(u)
     /\ UNCHANGED files
  \/ /\ after = "exists"
     /\ Return(-3)
     /\ UNCHANGED <<meta, files>>
  \/ /\ after = "verify" /\ meta' = u
     /\ IF call.size > 0
          THEN /\ Goto("putWrite", u.n) /\ left' = call.size
               /\ UNCHANGED <<count, files>>
          ELSE /\ Return(0)
               /\ files' = files \cup {[name |-> call.name, dir |-> dir, start |-> u.n, size |-> 0]}

NotFound ==
  /\ IF after = "exists" /\ meta.kind = "dir"
       THEN Goto("addRead", dir) /\ UNCHANGED <<left, count>>
       ELSE Return(-2)
  /\ UNCHANGED <<meta, files>>

Abort == Return(-1) /\ UNCHANGED <<meta, files>>

directorySearch ==
  /\ pc = "search"
  /\ UNCHANGED disk
  /\ \/ /\ clusterReadOk(cluster, 0)
        /\ ReadAsDirectory(data[cluster])
        /\ \/ /\ Hits(data[cluster], seek) = {}
              /\ Goto("searchNext", cluster) /\ UNCHANGED <<left, count, meta, files>>
           \/ \E i \in Units :
                /\ IsFirst(i, Hits(data[cluster], seek))
                /\ IF IsEntry(data[cluster][i]) THEN Found(data[cluster][i]) ELSE NotFound
     \/ clusterReadFails(cluster, 0) /\ Abort /\ UNCHANGED mishaps

directorySearchNext ==
  /\ pc = "searchNext"
  /\ UNCHANGED <<disk, mishaps>>
  /\ \/ /\ FATReadOk(cluster)
        /\ IF EndOfChain(TableValue(cluster))
             THEN NotFound
             ELSE Goto("search", TableValue(cluster)) /\ UNCHANGED <<left, count, meta, files>>
     \/ FATReadFails(cluster) /\ Abort

-----------------------------------------------------------------------------
(* allocateFreeFAT: the first cluster whose table entry reads as free.  A  *)
(* failed read is -1 in an unsigned variable, so "clusterStatus < 0" never *)
(* holds and the cluster is passed over.                                   *)
MoreClusters_OneTooMany == probe <= TotalClusters
MoreClusters == probe < TotalClusters
AllocatedMark_Free == FREE
AllocatedMark == END
Passed_Stuck == UNCHANGED <<pc, probe>>
Passed_Taken == pc' = "allocMark" /\ UNCHANGED probe
Passed == probe' = probe + 1 /\ UNCHANGED pc

allocateFreeFAT ==
  /\ pc = "alloc"
  /\ UNCHANGED <<disk, meta, files>>
  /\ \/ /\ ~MoreClusters
        /\ Return(-1)
        /\ UNCHANGED <<buf, faults, mishaps>>
     \/ /\ MoreClusters
        /\ \/ /\ FATReadOk(probe)
              /\ IF TableValue(probe) = FREE
                   THEN pc' = "allocMark" /\ UNCHANGED probe
                   ELSE Passed
              /\ UNCHANGED mishaps
           \/ FATReadFails(probe) /\ Passed /\ mishaps' = mishaps \cup {"passed"}
        /\ UNCHANGED <<call, result, todo, seek, after, cluster, dir, slot, left, count>>

allocateFreeFATMark ==
  /\ pc = "allocMark"
  /\ UNCHANGED mishaps
  /\ \/ /\ FATWriteOk(probe, AllocatedMark)
        /\ pc' = after
        /\ UNCHANGED <<call, result, locals, meta, files>>
     \/ FATWriteFails(probe) /\ Abort

-----------------------------------------------------------------------------
(* directoryAdd.                                                           *)
Open(cell) == {i \in Units : cell[i].kind \in {"free", "end"}}

directoryAdd ==
  /\ pc = "addRead"
  /\ UNCHANGED disk
  /\ \/ /\ clusterReadOk(cluster, 0)
        /\ ReadAsDirectory(data[cluster])
        /\ \/ /\ Open(data[cluster]) = {}
              /\ Goto("addNext", cluster) /\ UNCHANGED <<left, count>>
           \/ \E i \in Units :
                /\ IsFirst(i, Open(data[cluster]))
                /\ Allocate("addStore") /\ slot' = i
                /\ UNCHANGED <<cluster, left>>
        /\ UNCHANGED <<meta, files>>
     \/ clusterReadFails(cluster, 0) /\ Abort /\ UNCHANGED mishaps

(* next_cluster is unsigned: a failed FATRead (-1) compares as the end of  *)
(* the chain.                                                              *)
directoryAddNext ==
  /\ pc = "addNext"
  /\ UNCHANGED <<disk, meta, files, mishaps>>
  /\ \/ /\ FATReadOk(cluster) /\ ~EndOfChain(TableValue(cluster))
        /\ Goto("addRead", TableValue(cluster)) /\ UNCHANGED <<left, count>>
     \/ /\ \/ FATReadOk(cluster) /\ EndOfChain(TableValue(cluster))
           \/ FATReadFails(cluster)
        /\ Allocate("addLink") /\ UNCHANGED <<cluster, slot, left>>

directoryAddLink ==
  /\ pc = "addLink"
  /\ UNCHANGED mishaps
  /\ \/ /\ FATWriteOk(cluster, probe)
        /\ Goto("addRead", probe) /\ UNCHANGED <<left, count, meta, files>>
     \/ FATWriteFails(cluster) /\ Abort

(* The entry is copied to its slot in cell 0 and the WHOLE cell is written *)
(* to the directory cluster; allocateFreeFAT has used cell 0 since the     *)
(* directory was read into it.                                             *)
NewEntry ==
  [kind |-> "file", name |-> call.name, n |-> EntryCluster(probe), size |-> call.size]
StoredDirectory == [buf[0] EXCEPT ![slot] = NewEntry]

(* putFile searches for the entry it has added.                            *)
SearchAgain == \E sought \in SearchNames(call.name) : Search(sought, dir, "verify")

directoryAddStore ==
  /\ pc = "addStore"
  /\ buf' = [buf EXCEPT ![0] = StoredDirectory]
  /\ data' = [data EXCEPT ![cluster] = StoredDirectory]
  /\ SearchAgain
  /\ EntryStored
  /\ UNCHANGED <<fat, todo, dir, meta, faults, files>>

-----------------------------------------------------------------------------
(* putFile: the data loop.                                                 *)
DataWrite == IF left >= ClusterUnits THEN ClusterUnits + 1 ELSE left
DataFrom_Left == left % WordSize
DataFrom == (call.size - left) % WordSize
FileCell(k) ==
  [i \in Units |-> LET at == (k - 1) * ClusterUnits + i
                   IN IF at < DataWrite THEN Byte(call.name, DataFrom + at) ELSE buf[k][i]]

FileCopied == [buf EXCEPT ![1] = FileCell(1), ![2] = FileCell(2)]

(* clusterWrite copies the data before int13h_write_o may refuse it.       *)
putFileWrite ==
  /\ pc = "putWrite"
  /\ UNCHANGED <<fat, faults, meta, mishaps>>
  /\ buf' = IF ValidCluster(cluster) THEN FileCopied ELSE buf
  /\ \/ /\ ~OnDisk(cluster)
        /\ Return(-1)
        /\ UNCHANGED <<data, files>>
     \/ /\ OnDisk(cluster)
        /\ data' = [data EXCEPT ![cluster] = FileCell(1)]
        /\ IF left = DataWrite
             THEN /\ Return(0)
                  /\ files' = files \cup
                       {[name |-> call.name, dir |-> dir, start |-> meta.n, size |-> call.size]}
             ELSE /\ left' = (left - DataWrite) % WordSize
                  /\ Allocate("putLink")
                  /\ UNCHANGED <<cluster, slot, files>>

putFileLink ==
  /\ pc = "putLink"
  /\ UNCHANGED mishaps
  /\ \/ /\ FATWriteOk(cluster, probe)
        /\ Goto("putWrite", probe) /\ UNCHANGED <<left, count, meta, files>>
     \/ FATWriteFails(cluster) /\ Abort

-----------------------------------------------------------------------------
(* getFile: the read loop.  The return value of clusterRead is not used.   *)
getFileRead ==
  /\ pc = "getRead"
  /\ \/ clusterReadOk(cluster, count + call.off)
     \/ clusterReadFails(cluster, count + call.off)
  /\ Goto("getNext", cluster) /\ count' = count + 1
  /\ UNCHANGED <<disk, left, meta, files, mishaps>>

getFileNext ==
  /\ pc = "getNext"
  /\ UNCHANGED <<disk, mishaps>>
  /\ \/ /\ FATReadOk(cluster)
        /\ LET v == TableValue(cluster)
           IN IF v = BAD THEN Return(-1)
              ELSE IF EndOfChain(v) THEN Return(0)
              ELSE Goto("getRead", v) /\ UNCHANGED <<left, count>>
        /\ UNCHANGED <<meta, files>>
     \/ FATReadFails(cluster) /\ Abort

-----------------------------------------------------------------------------
(* The machine loses power: memory is gone.  Of a cluster being written    *)
(* any of the sectors may have reached the disk, as in BlockDevice.        *)
NoCall == [kind |-> "none", path |-> <<>>, name |-> NoName, size |-> 0, off |-> 0]

PowerLoss ==
  /\ pc # "idle" /\ crashes < MaxCrashes /\ crashes' = crashes + 1
  /\ \/ UNCHANGED <<data, mishaps>>
     \/ /\ pc = "addStore" /\ EntryStored
        /\ \E B \in SUBSET (0 .. SPC - 1) \ {{}} :
             data' = [data EXCEPT ![cluster] = Sectors(B, StoredDirectory, @)]
     \/ /\ pc = "putWrite" /\ OnDisk(cluster) /\ UNCHANGED mishaps
        /\ \E B \in SUBSET (0 .. SPC - 1) \ {{}} :
             data' = [data EXCEPT ![cluster] = Sectors(B, FileCell(1), @)]
  /\ pc' = "idle" /\ call' = NoCall /\ result' = 0 /\ meta' = Mark("end")
  /\ ClearLocals
  /\ buf' = [m \in Cells |-> Blank]
  /\ UNCHANGED <<fat, calls, faults, files>>

Init ==
  /\ \E v \in Volumes : fat = v.fat /\ data = v.data
  /\ buf = [m \in Cells |-> Blank]
  /\ pc = "idle" /\ call = NoCall /\ result = 0 /\ meta = Mark("end")
  /\ todo = <<>> /\ seek = NoName /\ after = "none"
  /\ cluster = 0 /\ dir = 0 /\ slot = 0 /\ probe = 0 /\ left = 0 /\ count = 0
  /\ calls = 0 /\ faults = 0 /\ crashes = 0 /\ files = {} /\ mishaps = {}

Step ==
  /\ \/ directorySearch \/ directorySearchNext
     \/ allocateFreeFAT \/ allocateFreeFATMark
     \/ directoryAdd \/ directoryAddNext \/ directoryAddLink \/ directoryAddStore
     \/ putFileWrite \/ putFileLink
     \/ getFileRead \/ getFileNext
  /\ UNCHANGED <<calls, crashes>>

(* No further call is made.                                                *)
Rest == pc = "idle" /\ calls = MaxCalls /\ UNCHANGED vars

Next ==
  \/ \E p \in DirPaths, n \in Names, s \in Sizes : BeginPut(p, n, s)
  \/ \E p \in DirPaths, n \in Names, o \in Offsets : BeginGet(Append(p, n), o)
  \/ Step
  \/ PowerLoss
  \/ Rest

Spec == Init /\ [][Next]_vars

(* The driver never blocks: a call that has started takes its next step.   *)
FairSpec == Spec /\ WF_vars(Step)

-----------------------------------------------------------------------------
(* What a well-formed volume is.  The links of the chains are those of the *)
(* stored clusters: what lies behind them are unused entries and, from the *)
(* second copy of the table on, repetitions.                               *)
NoDangling(t) == \A c \in Stored : t[c] \in Clusters => t[t[c]] # FREE
NoCrossLink(t) ==
  \A c, d \in Stored : t[c] \in Clusters /\ t[c] = t[d] => c = d
Acyclic(t) == \A S \in SUBSET Stored : S # {} => \E c \in S : t[c] \notin S
WellFormed(t) == NoDangling(t) /\ NoCrossLink(t) /\ Acyclic(t)
Allocated(t, c) == c \in Clusters /\ t[c] # FREE

Places == Stored \X Units
EntryAt(a, p) == a[p[1]][p[2]]
EntriesIn(a) == {p \in Places : IsEntry(EntryAt(a, p))}
StartsOwned(t, a) ==
  /\ \A p \in EntriesIn(a) :
        /\ Allocated(t, EntryAt(a, p).n) /\ EntryAt(a, p).n # Root
        /\ \A c \in Stored : t[c] # EntryAt(a, p).n
  /\ \A p, q \in EntriesIn(a) : EntryAt(a, p).n = EntryAt(a, q).n => p = q

(* A free cluster may hold bytes of a deleted file, but no old entries.    *)
VolumeOK(v) ==
  /\ v.fat \in [Table -> Nat] /\ v.data \in [Stored -> Content]
  /\ Allocated(v.fat, Root) /\ \A c \in Stored : v.fat[c] # Root
  /\ WellFormed(v.fat)
  /\ StartsOwned(v.fat, v.data)

ASSUME SizesAssumption ==
  /\ TotalClusters \in Nat /\ DataEnd \in 3 .. TotalClusters /\ Root \in Stored
  /\ SPC \in Nat \ {0} /\ SlotsPerSector \in Nat \ {0} /\ EntriesPerSlot \in Nat \ {0}
  /\ TableLen \in Nat /\ TotalClusters <= TableLen /\ TableLen % EntriesPerSector = 0
  /\ LowKept \in Nat \ {0} /\ HalfWord \in Nat \ {0} /\ HalfWord % LowKept = 0
  /\ BufClusters \in Nat /\ WordSize \in Nat \ {0}
  /\ Sizes \subseteq 0 .. WordSize - 1 /\ Offsets \subseteq Nat
  /\ MaxCalls \in Nat /\ MaxFaults \in Nat /\ MaxCrashes \in Nat
ASSUME NamesAssumption ==
  /\ NoName \notin Names /\ BadNames \subseteq Names /\ ShortNames \subseteq Names
  /\ DirPaths \subseteq Seq(Names)
ASSUME VolumesAssumption == \A v \in Volumes : VolumeOK(v)

-----------------------------------------------------------------------------
(* Every variable has the type the code gives it.                          *)
Labels == {"idle", "search", "searchNext", "alloc", "allocMark", "addRead", "addNext",
           "addLink", "addStore", "putWrite", "putLink", "getRead", "getNext"}
Calls == [kind : {"none", "put", "get"}, path : Seq(Names), name : Names \cup {NoName},
          size : 0 .. WordSize - 1, off : Nat]
TypeOK ==
  /\ fat \in [Table -> Nat] /\ data \in [Stored -> Content]
  /\ buf \in [Cells -> Content]
  /\ pc \in Labels /\ call \in Calls /\ result \in -3 .. 0 /\ meta \in Unit
  /\ todo \in Seq(Names) /\ seek \in Names \cup {NoName}
  /\ after \in {"none", "path", "exists", "verify", "addLink", "addStore", "putLink"}
  /\ cluster \in Nat /\ dir \in Nat /\ slot \in Units /\ probe \in 0 .. TotalClusters
  /\ left \in 0 .. WordSize - 1 /\ count \in Nat
  /\ calls \in 0 .. MaxCalls /\ faults \in 0 .. MaxFaults /\ crashes \in 0 .. MaxCrashes
  /\ files \subseteq [name : Names \cup {NoName}, dir : Nat, start : Nat, size : Nat]
  /\ mishaps \subseteq Mishap

(* At every moment, also between two transfers of a call and after a power *)
(* loss, the links of the table on disk are disjoint finite chains: no     *)
(* link to a free cluster, no cluster with two predecessors, no cycle.     *)
(* Two things the driver does not notice can end this: file bytes read as  *)
(* a directory, and an entry whose number was cut (FAT.h:45) to that of a  *)
(* free cluster allocateFreeFAT had passed over after a failed read.       *)
Orderly == "confused" \notin mishaps /\ ~({"cut", "passed"} \subseteq mishaps)
ChainsWellFormed == Orderly => WellFormed(fat)

(* directoryAdd "allocate[s] new cluster for new file" (FAT.c:760): every  *)
(* entry on disk owns the first cluster of a chain, no two entries share   *)
(* it and it is not inside another chain.                                  *)
EntriesOwnTheirChains == StartsOwned(fat, data)

(* The same until an entry is stored whose cluster number GET_ENTRY_LOW_   *)
(* BITS has cut, or bytes of a file are read as a directory: no failed     *)
(* read and no power loss gives two entries one chain.                     *)
Undisturbed == mishaps \subseteq {"passed"}
EntriesOwnUntilCut == Undisturbed => StartsOwned(fat, data)

(* Without read failures, and until a cluster number is cut or bytes are   *)
(* read as a directory, FATWrite is called only to mark a free cluster or  *)
(* to link the LAST cluster of a chain: no link is ever replaced.          *)
ChainsOnlyGrow ==
  [][faults = 0 /\ Undisturbed => \A c \in Clusters :
       \/ fat'[c] = fat[c]
       \/ fat[c] = FREE /\ fat'[c] = END
       \/ fat[c] >= END /\ fat'[c] \in Clusters]_vars

(* The same whatever reads fail: directoryAdd extends a directory only     *)
(* when there are "no more clusters to search".                            *)
ChainsOnlyGrowAlways ==
  [][\A c \in Clusters : fat[c] \in Clusters => fat'[c] = fat[c]]_vars

(* allocateFreeFAT reads table sectors over the FIRST sector of the        *)
(* directory cluster in memory, and over no other: an entry in a later     *)
(* sector of its cluster survives every directoryAdd, and every power loss *)
(* that lets any part of the cluster reach the disk.                       *)
LaterSectorsKept ==
  [][Undisturbed => \A p \in EntriesIn(data) :
       p[2] >= SlotsPerSector => EntryAt(data', p) = EntryAt(data, p)]_vars

Chain(c) ==
  LET f[i \in 0 .. TotalClusters] ==
        IF i = 0 THEN c ELSE IF f[i - 1] \in Stored THEN fat[f[i - 1]] ELSE END
  IN f

(* Byte i of the file as found along its chain.                            *)
ReadsBack(f, i) ==
  LET c == Chain(f.start)[i \div ClusterUnits]
  IN c \in Stored /\ data[c][i % ClusterUnits] = Byte(f.name, i)

(* "file successfully written" (FAT.c:1060): when putFile returns 0, every *)
(* byte of the file can be read along its chain.                           *)
WrittenDataKept == \A f \in files : \A i \in 0 .. f.size - 1 : ReadsBack(f, i)

(* That holds for a file that is shorter than a cluster, and keeps holding *)
(* whatever later calls, failed reads and power losses do, until a cluster *)
(* number is cut or bytes are read as a directory.                         *)
ShortFilesKept ==
  Undisturbed => \A f \in files : f.size < ClusterUnits =>
             \A i \in 0 .. f.size - 1 : ReadsBack(f, i)

(* A file of any length putFile has reported as written, right or wrong,   *)
(* stays what it is: no later step changes a link of its chain or a unit   *)
(* of its clusters, under the same condition.                              *)
ClustersOf(f) == {Chain(f.start)[i] : i \in 0 .. TotalClusters} \cap Stored
WrittenFilesStay ==
  [][Undisturbed' => \A f \in files : \A c \in ClustersOf(f) :
       fat'[c] = fat[c] /\ data'[c] = data[c]]_vars

(* directoryAdd "cop[ies] data to empty location": a file putFile reported *)
(* as written is still listed in its directory after the next putFile.     *)
WrittenFilesListed ==
  \A f \in files : \E i \in 0 .. TotalClusters, k \in Units :
    LET c == Chain(f.dir)[i]
    IN c \in Stored /\ data[c][k] = [kind |-> "file", name |-> f.name, n |-> f.start,
                                     size |-> f.size]

(* When getFile returns 0 and no read has failed, the transfer area holds  *)
(* the file's clusters in order from readInOffset on: the table look-ups   *)
(* between the reads have not disturbed them.  A cluster outside the       *)
(* partition is not delivered: getFile does not look at what clusterRead   *)
(* returns.                                                                *)
GotFile == pc = "idle" /\ call.kind = "get" /\ result = 0
FileInBuffer ==
  \A i \in 0 .. TotalClusters :
    Chain(meta.n)[i] \in Stored => buf[call.off + i] = data[Chain(meta.n)[i]]
GetFileDelivers == GotFile /\ faults = 0 => FileInBuffer

(* getFile never reads a cluster to a place past the 256kB transfer area   *)
(* when the chain it follows is as long as the size in the entry says.     *)
(* The limit test looks at the size only: an empty file, and a file with   *)
(* exactly a cluster left to write at some point, to whose chain putFile   *)
(* then adds until the volume is full, have more clusters than that.       *)
ChainLength(c) == Cardinality({i \in 0 .. TotalClusters : Chain(c)[i] \in Clusters})
ChainAsLongAsSize(u) == (ChainLength(u.n) - 1) * ClusterUnits < u.size
StaysInBuffer ==
  pc = "getRead" /\ ChainAsLongAsSize(meta) => count + call.off < BufClusters

(* Every call returns.                                                     *)
CallsReturn == pc # "idle" ~> pc = "idle"
=============================================================================
