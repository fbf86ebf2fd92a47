--------------------------- MODULE FatVolumeProofs ---------------------------
(* Proofs about FatVolume.                                                 *)
EXTENDS FatVolume, TLAPS

(* The volumes on which FATRead and FATWrite find the entry they look for: *)
(* one sector to a cluster, or a table of a single sector.  No cluster     *)
(* number is one of the marks.                                             *)
TableFits ==
  /\ TotalClusters <= BAD
  /\ SPC = 1 \/ TotalClusters <= EntriesPerSector

(* On such a volume they address the entry of the cluster they are asked   *)
(* for.                                                                    *)
LEMMA TableLookup ==
  ASSUME TableFits, NEW c \in Clusters
  PROVE  Covered(c) /\ TableIndex(c) = c /\ c \in Table
<1> DEFINE E == EntriesPerSector
<1>1. E \in Nat /\ E > 0
  BY SizesAssumption DEF EntriesPerSector
<1>2. c \in Nat /\ c < TotalClusters /\ c \in Table
  BY SizesAssumption DEF Clusters, Table
<1>3. CASE SPC = 1
  <2>1. SPC * E = E
    BY <1>1, <1>3
  <2>2. c % E < E /\ c = (c \div E) * E + (c % E)
    BY <1>1, <1>2
  <2> QED
    BY <2>1, <2>2, <1>2 DEF Covered, TableIndex, TableSector, EntOffset
<1>4. CASE TotalClusters <= E
  <2>1. SPC * E \in Nat /\ SPC * E >= E
    BY <1>1, SizesAssumption
  <2>2. c < SPC * E
    BY <2>1, <1>2, <1>4, <1>1, SizesAssumption
  <2>3. c % (SPC * E) = c /\ c \div (SPC * E) = 0
    BY <2>1, <2>2, <1>2
  <2>4. TableSector(c) = 0 /\ EntOffset(c) = c
    BY <2>3 DEF TableSector, EntOffset
  <2>5. 0 * E + c = c
    BY <1>1, <1>2
  <2>6. Covered(c)
    BY <2>4, <1>1, <1>2, <1>4, SizesAssumption DEF Covered
  <2>7. TableIndex(c) = c
    BY <2>4, <2>5, Zenon DEF TableIndex
  <2> QED
    BY <2>6, <2>7, <1>2
<1> QED
  BY <1>3, <1>4 DEF TableFits

(* GET_ENTRY_LOW_BITS can only lower a number: an entry never names a      *)
(* higher cluster than the one allocated for it.                           *)
LEMMA EntryClusterBelow ==
  ASSUME NEW c \in Nat
  PROVE  EntryCluster(c) \in Nat /\ EntryCluster(c) <= c
<1> DEFINE q == c \div HalfWord
           r == c % HalfWord
<1>1. q \in Nat /\ r \in Nat /\ c = HalfWord * q + r
  BY SizesAssumption
<1>2. r % LowKept \in Nat /\ r % LowKept <= r
  <2> HIDE DEF r
  <2> QED BY <1>1, SizesAssumption
<1>3. HalfWord * q \in Nat
  <2> HIDE DEF q
  <2> QED BY <1>1, SizesAssumption
<1>4. EntryCluster(c) = (r % LowKept) + HalfWord * q
  BY DEF EntryCluster
<1> HIDE DEF q, r
<1> QED
  BY <1>1, <1>2, <1>3, <1>4

-----------------------------------------------------------------------------
(* Types of what the transfers move.                                       *)
(* A cluster has at least one unit, and the transfer area at least cells   *)
(* 0, 1 and 2, the ones putFile fills.                                     *)
LEMMA UnitsNonempty == 0 \in Units /\ ClusterUnits \in Nat /\ 1 \in Cells /\ 2 \in Cells /\ 0 \in Cells
<1>1. SPC * SlotsPerSector \in Nat /\ SPC * SlotsPerSector > 0
  BY SizesAssumption
<1> QED
  BY <1>1, SizesAssumption DEF Units, ClusterUnits, Cells

(* A unit that is no entry is a unit.                                      *)
LEMMA MarkType ==
  ASSUME NEW k \in {"end", "free", "junk", "file", "dir", "byte"}
  PROVE  Mark(k) \in Unit
  BY DEF Mark, Unit

(* Zeroed memory is a cluster of units.                                    *)
LEMMA BlankType == Blank \in Content
  BY MarkType DEF Blank, Content

(* Whatever the low byte of a table entry, it reads as a directory slot.   *)
LEMMA LowByteType == \A v : LowByteUnit(v) \in Unit
  BY MarkType DEF LowByteUnit

(* The call record of an idle driver is a call record.                     *)
LEMMA NoCallType == NoCall \in Calls
<1>1. <<>> \in Seq(Names)
  OBVIOUS
<1>2. 0 \in 0 .. WordSize - 1 /\ 0 \in Nat
  BY SizesAssumption
<1>3. "none" \in {"none", "put", "get"} /\ NoName \in Names \cup {NoName}
  OBVIOUS
<1> QED
  BY <1>1, <1>2, <1>3, Zenon DEF NoCall, Calls

(* A table sector read over a cell of the transfer area leaves a cell.     *)
LEMMA ImageType ==
  ASSUME NEW cell \in Content, NEW t, NEW c
  PROVE  WithTableSector(cell, t, c) \in Content
<1>1. ASSUME NEW i \in Units, i < SlotsPerSector
      PROVE  SectorImage(t, c)[i] \in Unit
  <2>1. i \in 0 .. SlotsPerSector - 1
    BY <1>1, SizesAssumption, UnitsNonempty DEF Units
  <2> QED
    BY <2>1, LowByteType DEF SectorImage
<1> QED
  BY <1>1 DEF WithTableSector, Content

(* A transfer of some of its sectors mixes two clusters into one.          *)
LEMMA SectorsType ==
  ASSUME NEW B, NEW x \in Content, NEW y \in Content
  PROVE  Sectors(B, x, y) \in Content
  BY DEF Sectors, Content

(* The root directory has a cluster.                                       *)
LEMMA RootStored == Root \in Nat /\ Root \in Clusters
  BY SizesAssumption DEF Stored, Clusters

(* A cluster inside the partition is one of the stored clusters.           *)
LEMMA OnDiskStored ==
  ASSUME NEW c \in Nat, OnDisk(c)
  PROVE  c \in Stored /\ c \in Clusters
  BY SizesAssumption DEF OnDisk, ValidCluster, Stored, Clusters

(* FATRead and FATWrite never index past the table on disk.                *)
LEMMA IndexInTable ==
  ASSUME NEW c \in Clusters, Covered(c)
  PROVE  TableIndex(c) \in Table
<1> DEFINE E == EntriesPerSector
           M == SPC * E
           q == c \div M
           r == c % M
<1>1. E \in Nat /\ E > 0
  BY SizesAssumption DEF EntriesPerSector
<1>2. M \in Nat /\ M >= E
  BY <1>1, SizesAssumption
<1>3. c \in Nat /\ c < TableLen
  BY SizesAssumption DEF Clusters
<1>4. q \in Nat /\ r \in Nat /\ c = q * M + r
  <2> HIDE DEF E, M
  <2> QED BY <1>1, <1>2, <1>3
<1>5. q * E <= q * M /\ q * E \in Nat /\ q * M \in Nat
  <2> HIDE DEF E, M, q
  <2> QED BY <1>1, <1>2, <1>4
<1>6. q * E + r \in 0 .. TableLen - 1
  <2> HIDE DEF E, M, q, r
  <2> QED BY <1>3, <1>4, <1>5, SizesAssumption
<1> QED
  BY <1>6 DEF TableIndex, TableSector, EntOffset, Table

(* A cluster FATRead accepts has a table value.                            *)
LEMMA TableValueType ==
  ASSUME TypeOK, NEW c \in Nat, ValidCluster(c)
  PROVE  c \in Clusters /\ TableValue(c) \in Nat
<1>1. c \in Clusters
  BY SizesAssumption DEF ValidCluster, Clusters
<1> QED
  BY <1>1, IndexInTable DEF TypeOK, TableValue

(* FATWrite leaves a table.                                                *)
LEMMA TableSetType ==
  ASSUME TypeOK, NEW c, NEW v \in Nat
  PROVE  TableSet(c, v) \in [Table -> Nat]
  BY DEF TypeOK, TableSet

(* What putFile copies for a cluster is a cluster of units.                *)
LEMMA FileCellType ==
  ASSUME TypeOK, NEW k \in {1, 2}
  PROVE  FileCell(k) \in Content
<1>1. (call.size - left) % WordSize \in Nat
  BY SizesAssumption DEF TypeOK, Calls
<1>2. ASSUME NEW i \in Units
      PROVE  (k - 1) * ClusterUnits + i \in Nat
  BY UnitsNonempty DEF Units
<1>3. ASSUME NEW n \in Nat
      PROVE  Byte(call.name, n) \in Unit
  BY DEF Byte, Unit, TypeOK, Calls
<1>4. ASSUME NEW i \in Units
      PROVE  buf[k][i] \in Unit
  BY UnitsNonempty DEF TypeOK, Content
<1>5. ASSUME NEW i \in Units
      PROVE  Byte(call.name, DataFrom + ((k - 1) * ClusterUnits + i)) \in Unit
  BY <1>1, <1>2, <1>3 DEF DataFrom
<1> QED
  BY <1>4, <1>5 DEF FileCell, Content

(* What directoryAdd writes back is a cluster of units.                    *)
LEMMA StoredDirectoryType ==
  ASSUME TypeOK
  PROVE  StoredDirectory \in Content
<1>1. EntryCluster(probe) \in Nat
  BY EntryClusterBelow, SizesAssumption DEF TypeOK
<1>2. NewEntry \in Unit
  BY <1>1, SizesAssumption DEF NewEntry, Unit, TypeOK, Calls
<1> QED
  BY <1>2, UnitsNonempty DEF StoredDirectory, TypeOK, Content

-----------------------------------------------------------------------------
(* The type invariant.  allocateFreeFAT returns to the label `after', so   *)
(* its type alone is not inductive: the caller has to be one of three.     *)
Callers == {"addLink", "addStore", "putLink"}
CallerOK == pc \in {"alloc", "allocMark"} => after \in Callers
TypeInv == TypeOK /\ CallerOK

MemType ==
  /\ fat \in [Table -> Nat] /\ data \in [Stored -> Content]
  /\ buf \in [Cells -> Content] /\ faults \in 0 .. MaxFaults
RegType ==
  /\ pc \in Labels /\ call \in Calls /\ result \in -3 .. 0
  /\ todo \in Seq(Names) /\ seek \in Names \cup {NoName}
  /\ after \in {"none", "path", "exists", "verify", "addLink", "addStore", "putLink"}
  /\ cluster \in Nat /\ dir \in Nat /\ slot \in Units /\ probe \in 0 .. TotalClusters
  /\ left \in 0 .. WordSize - 1 /\ count \in Nat
  /\ CallerOK
HistType ==
  /\ meta \in Unit /\ calls \in 0 .. MaxCalls /\ crashes \in 0 .. MaxCrashes
  /\ files \subseteq [name : Names \cup {NoName}, dir : Nat, start : Nat, size : Nat]

(* The type invariant in parts: memory, registers and histories.           *)
LEMMA TypeParts == TypeInv <=> MemType /\ RegType /\ HistType /\ mishaps \subseteq Mishap
  BY DEF TypeInv, TypeOK, MemType, RegType, HistType

(* The memory part: each transfer, in both outcomes.                       *)
(* FATRead, successful or not, keeps the memory part.                      *)
LEMMA FATReadMem ==
  ASSUME TypeInv, NEW c, FATReadOk(c) \/ FATReadFails(c), UNCHANGED disk
  PROVE  MemType'
<1>1. CASE FATReadOk(c)
  <2>1. WithTableSector(buf[0], fat, c) \in Content
    BY ImageType, UnitsNonempty DEF TypeInv, TypeOK
  <2> QED
    BY <1>1, <2>1 DEF FATReadOk, TypeInv, TypeOK, MemType, disk
<1>2. CASE FATReadFails(c)
  BY <1>2, SizesAssumption DEF FATReadFails, Fault, TypeInv, TypeOK, MemType, disk
<1> QED
  BY <1>1, <1>2

(* FATWrite, successful or not, keeps the memory part.                     *)
LEMMA FATWriteMem ==
  ASSUME TypeInv, NEW c, NEW v \in Nat, FATWriteOk(c, v) \/ FATWriteFails(c)
  PROVE  MemType'
<1>1. CASE FATWriteOk(c, v)
  <2>1. WithTableSector(buf[0], TableSet(c, v), c) \in Content
    BY ImageType, UnitsNonempty DEF TypeInv, TypeOK
  <2>2. TableSet(c, v) \in [Table -> Nat]
    BY TableSetType DEF TypeInv
  <2> QED
    BY <1>1, <2>1, <2>2 DEF FATWriteOk, TypeInv, TypeOK, MemType
<1>2. CASE FATWriteFails(c)
  BY <1>2, FATReadMem DEF FATWriteFails
<1> QED
  BY <1>1, <1>2

(* clusterRead, whole or cut short, keeps the memory part.                 *)
LEMMA clusterReadMem ==
  ASSUME TypeInv, NEW c \in Nat, NEW m,
         clusterReadOk(c, m) \/ clusterReadFails(c, m), UNCHANGED disk
  PROVE  MemType'
<1>1. OnDisk(c) => c \in Stored
  BY OnDiskStored
<1>2. CASE clusterReadOk(c, m)
  BY <1>1, <1>2 DEF clusterReadOk, TypeInv, TypeOK, MemType, disk
<1>3. CASE clusterReadFails(c, m)
  <2>1. CASE UNCHANGED <<buf, faults>>
    BY <2>1 DEF TypeInv, TypeOK, MemType, disk
  <2>2. CASE /\ OnDisk(c) /\ Fault
             /\ \E b \in 0 .. SPC - 1 :
                  buf' = [buf EXCEPT ![m] = Sectors(0 .. b - 1, data[c], @)]
    <3>1. PICK b \in 0 .. SPC - 1 :
                  buf' = [buf EXCEPT ![m] = Sectors(0 .. b - 1, data[c], buf[m])]
      BY <2>2
    <3>2. m \in Cells => Sectors(0 .. b - 1, data[c], buf[m]) \in Content
      BY <1>1, <2>2, SectorsType DEF TypeInv, TypeOK
    <3>3. buf' \in [Cells -> Content]
      BY <3>1, <3>2 DEF TypeInv, TypeOK
    <3> QED
      BY <3>3, <2>2, SizesAssumption DEF Fault, TypeInv, TypeOK, MemType, disk
  <2> QED
    BY <1>3, <2>1, <2>2 DEF clusterReadFails
<1> QED
  BY <1>2, <1>3

(* The register part: each way to continue.                                *)
(* Returning a code keeps the register part.                               *)
LEMMA ReturnReg ==
  ASSUME TypeInv, NEW r \in -3 .. 0, Return(r)
  PROVE  RegType'
<1>1. 0 \in 0 .. WordSize - 1 /\ 0 \in 0 .. TotalClusters
  BY SizesAssumption
<1> QED
  BY <1>1, UnitsNonempty DEF Return, ClearLocals, TypeInv, TypeOK, RegType, Labels, CallerOK

(* Going on with another cluster keeps the register part.                  *)
LEMMA GotoReg ==
  ASSUME TypeInv, NEW label \in Labels \ {"alloc", "allocMark"}, NEW c \in Nat, Goto(label, c),
         left' \in 0 .. WordSize - 1, count' \in Nat
  PROVE  RegType'
  BY DEF Goto, TypeInv, TypeOK, RegType, CallerOK

(* Calling directorySearch keeps the register part.                        *)
LEMMA SearchReg ==
  ASSUME TypeInv, NEW name \in Names \cup {NoName}, NEW c \in Nat,
         NEW caller \in {"path", "exists", "verify"}, Search(name, c, caller),
         todo' \in Seq(Names), dir' \in Nat
  PROVE  RegType'
  BY DEF Search, TypeInv, TypeOK, RegType, CallerOK, Labels

(* What directorySearch looks for is a name or no name.                    *)
LEMMA SearchNamesType ==
  ASSUME NEW name \in Names \cup {NoName}
  PROVE  SearchNames(name) \subseteq Names \cup {NoName}
  BY DEF SearchNames

(* Calling allocateFreeFAT keeps the register part.                        *)
LEMMA AllocateReg ==
  ASSUME TypeInv, NEW caller \in Callers, Allocate(caller),
         cluster' \in Nat, slot' \in Units, left' \in 0 .. WordSize - 1
  PROVE  RegType'
<1>1. 2 \in 0 .. TotalClusters
  BY SizesAssumption
<1> QED
  BY <1>1 DEF Allocate, TypeInv, TypeOK, RegType, CallerOK, Callers, Labels

(* Giving up after a failed transfer keeps the type invariant.             *)
LEMMA AbortType ==
  ASSUME TypeInv, Abort, MemType', mishaps' \subseteq Mishap, UNCHANGED <<calls, crashes>>
  PROVE  TypeInv'
<1>1. RegType'
  BY ReturnReg DEF Abort
<1>2. HistType'
  BY DEF Abort, TypeInv, TypeOK, HistType
<1> QED
  BY <1>1, <1>2 DEF TypeInv, TypeOK, MemType, RegType, HistType

(* What a caller of directorySearch does with a found entry keeps it.      *)
LEMMA FoundType ==
  ASSUME TypeInv, NEW u \in Unit, Found(u), MemType', mishaps' \subseteq Mishap,
         UNCHANGED <<calls, crashes>>
  PROVE  TypeInv'
<1> USE DEF TypeInv
<1>0. u.n \in Nat /\ u.kind \in {"end", "free", "junk", "file", "dir", "byte"}
  BY DEF Unit
<1>1. RegType'
  <2>1. CASE after = "path" /\ todo # <<>> /\ Search(Head(todo), u.n, "path")
             /\ todo' = Tail(todo) /\ UNCHANGED dir
    <3>1. Head(todo) \in Names /\ Tail(todo) \in Seq(Names)
      BY <2>1 DEF TypeOK
    <3> QED
      BY <1>0, <2>1, <3>1, SearchReg DEF TypeOK
  <2>2. ASSUME NEW sought \in SearchNames(call.name), Search(sought, u.n, "exists"),
               dir' = u.n, UNCHANGED todo
        PROVE  RegType'
    BY <1>0, <2>2, SearchNamesType, SearchReg DEF TypeOK, Calls
  <2>3. CASE after = "path" /\ ReadFile(u)
    <3>1. CASE Return(-3)
      BY <3>1, ReturnReg
    <3>2. CASE Goto("getRead", u.n) /\ count' = 0 /\ UNCHANGED left
      BY <3>2, <1>0, GotoReg DEF TypeOK, Labels
    <3> QED
      BY <2>3, <3>1, <3>2 DEF ReadFile
  <2>4. CASE Return(-3) \/ Return(0)
    BY <2>4, ReturnReg
  <2>5. CASE Goto("putWrite", u.n) /\ left' = call.size /\ UNCHANGED <<count, files>>
    BY <2>5, <1>0, GotoReg DEF TypeOK, Labels, Calls
  <2> QED
    BY <2>1, <2>2, <2>3, <2>4, <2>5 DEF Found
<1>2. meta' \in Unit
  BY DEF Found, TypeOK
<1>3. files' \subseteq [name : Names \cup {NoName}, dir : Nat, start : Nat, size : Nat]
  <2>1. [name |-> call.name, dir |-> dir, start |-> u.n, size |-> 0]
           \in [name : Names \cup {NoName}, dir : Nat, start : Nat, size : Nat]
    BY <1>0 DEF TypeOK, Calls
  <2>2. files' = files \/ files' = files \cup {[name |-> call.name, dir |-> dir, start |-> u.n, size |-> 0]}
    BY DEF Found
  <2> QED
    BY <2>1, <2>2 DEF TypeOK
<1> QED
  BY <1>1, <1>2, <1>3 DEF TypeOK, MemType, RegType

(* What it does when there is none keeps it.                               *)
LEMMA NotFoundType ==
  ASSUME TypeInv, NotFound, MemType', mishaps' \subseteq Mishap, UNCHANGED <<calls, crashes>>
  PROVE  TypeInv'
<1> USE DEF TypeInv
<1>1. RegType'
  <2>1. CASE Return(-2)
    BY <2>1, ReturnReg
  <2>2. CASE Goto("addRead", dir) /\ UNCHANGED <<left, count>>
    BY <2>2, GotoReg DEF TypeOK, Labels
  <2> QED
    BY <2>1, <2>2 DEF NotFound
<1> QED
  BY <1>1 DEF NotFound, TypeOK, MemType, RegType

(* Init establishes the type invariant and every step keeps it.            *)
LEMMA TypeInit == Init => TypeInv
<1> SUFFICES ASSUME Init PROVE TypeInv
  OBVIOUS
<1>1. PICK v \in Volumes : fat = v.fat /\ data = v.data
  BY DEF Init
<1>2. fat \in [Table -> Nat] /\ data \in [Stored -> Content]
  BY <1>1, VolumesAssumption DEF VolumeOK
<1>3. NoCall \in Calls /\ Mark("end") \in Unit
  BY NoCallType, MarkType
<1>4. 0 \in 0 .. WordSize - 1 /\ 0 \in 0 .. TotalClusters /\ 0 \in -3 .. 0
      /\ 0 \in 0 .. MaxCalls /\ 0 \in 0 .. MaxFaults /\ 0 \in 0 .. MaxCrashes
  BY SizesAssumption
<1>5. buf \in [Cells -> Content]
  BY BlankType DEF Init
<1> QED
  BY <1>2, <1>3, <1>4, <1>5, UnitsNonempty DEF Init, TypeInv, TypeOK, CallerOK, Labels

(* Nothing that has gone wrong is forgotten.                               *)
LEMMA MishapsGrow ==
  ASSUME [Next]_vars
  PROVE  mishaps \subseteq mishaps' /\ (mishaps \subseteq Mishap => mishaps' \subseteq Mishap)
<1> DEFINE Grown == \E W \in SUBSET Mishap : mishaps' = mishaps \cup W
<1> SUFFICES Grown
  OBVIOUS
<1>1. ASSUME NEW x, ReadAsDirectory(x) PROVE Grown
  <2>1. mishaps' = mishaps \cup (When(HoldsBytes(x), "confused")
                                \cup When(after = "exists" /\ seek # call.name, "missed"))
    BY <1>1 DEF ReadAsDirectory
  <2>2. When(HoldsBytes(x), "confused")
          \cup When(after = "exists" /\ seek # call.name, "missed") \in SUBSET Mishap
    BY DEF When, Mishap
  <2> QED
    BY <2>1, <2>2
<1>2. ASSUME EntryStored PROVE Grown
  <2>1. When(EntryCluster(probe) # probe, "cut") \in SUBSET Mishap
    BY DEF When, Mishap
  <2> QED
    BY <1>2, <2>1 DEF EntryStored
<1>3. ASSUME UNCHANGED mishaps PROVE Grown
  <2>1. mishaps' = mishaps \cup {} /\ {} \in SUBSET Mishap
    BY <1>3
  <2> QED
    BY <2>1
<1>4. ASSUME mishaps' = mishaps \cup {"passed"} PROVE Grown
  BY <1>4 DEF Mishap
<1> HIDE DEF Grown
<1>5. CASE Step
  <2>1. CASE directorySearch \/ directoryAdd
    BY <2>1, <1>1, <1>3 DEF directorySearch, directoryAdd
  <2>2. CASE directorySearchNext \/ allocateFreeFAT \/ allocateFreeFATMark
    BY <2>2, <1>3, <1>4 DEF directorySearchNext, allocateFreeFAT, allocateFreeFATMark
  <2>3. CASE directoryAddNext \/ directoryAddLink \/ directoryAddStore
    BY <2>3, <1>2, <1>3 DEF directoryAddNext, directoryAddLink, directoryAddStore
  <2>4. CASE putFileWrite \/ putFileLink \/ getFileRead \/ getFileNext
    BY <2>4, <1>3 DEF putFileWrite, putFileLink, getFileRead, getFileNext
  <2> QED
    BY <1>5, <2>1, <2>2, <2>3, <2>4 DEF Step
<1>6. CASE PowerLoss
  BY <1>6, <1>2, <1>3 DEF PowerLoss
<1>7. ASSUME NEW path, NEW x, NEW y, BeginPut(path, x, y) \/ BeginGet(path, x)
      PROVE  Grown
  BY <1>7, <1>3 DEF BeginPut, BeginGet
<1>8. CASE UNCHANGED vars
  BY <1>8, <1>3 DEF vars
<1> QED
  BY <1>5, <1>6, <1>7, <1>8 DEF Next, Rest

(* Every step of a call, a new call and a power loss keep the type         *)
(* invariant.                                                              *)
LEMMA TypeNext == TypeInv /\ [Next]_vars => TypeInv'
<1> SUFFICES ASSUME TypeInv, [Next]_vars PROVE TypeInv'
  OBVIOUS
<1> USE DEF TypeInv
<1>m. mishaps' \subseteq Mishap
  BY MishapsGrow DEF TypeOK
<1>p. TypeInv' <=> MemType' /\ RegType' /\ HistType'
  BY <1>m DEF TypeOK, MemType, RegType, HistType
<1>h. UNCHANGED <<meta, files, calls, crashes>> => HistType'
  BY DEF TypeOK, HistType
<1>1. ASSUME NEW path \in DirPaths, NEW name \in Names, NEW size \in Sizes,
             BeginPut(path, name, size)
      PROVE  TypeInv'
  <2>1. path \in Seq(Names) /\ size \in 0 .. WordSize - 1
    BY NamesAssumption, SizesAssumption
  <2>2. call' \in Calls
    BY <1>1, <2>1 DEF BeginPut, Calls
  <2>3. path # <<>> => Head(path) \in Names /\ Tail(path) \in Seq(Names)
    BY <2>1
  <2>4. [Mark("dir") EXCEPT !.n = Root] \in Unit
    BY RootStored DEF Mark, Unit
  <2>0. Begin
    BY <1>1 DEF BeginPut
  <2>r. Root \in Nat
    BY RootStored
  <2>5. calls' \in 0 .. MaxCalls
    BY <2>0, SizesAssumption DEF Begin, TypeOK
  <2>6. HistType'
    BY <1>1, <2>4, <2>5 DEF BeginPut, TypeOK, HistType
  <2>7. MemType'
    BY <1>1 DEF BeginPut, TypeOK, MemType, disk
  <2>8. RegType'
    <3>1. CASE result' = -2 /\ UNCHANGED <<pc, locals, meta>>
      BY <3>1, <2>0, <2>2 DEF Begin, TypeOK, RegType, CallerOK, locals
    <3>2. CASE /\ pc' = "search" /\ seek' \in SearchNames(name)
               /\ cluster' = Root /\ dir' = Root /\ after' = "exists"
               /\ UNCHANGED <<result, todo, slot, probe, left, count>>
      BY <3>2, <2>2, <2>r, SearchNamesType DEF TypeOK, RegType, CallerOK, Labels
    <3>3. CASE /\ path # <<>>
               /\ pc' = "search" /\ seek' = Head(path) /\ todo' = Tail(path)
               /\ cluster' = Root /\ after' = "path"
               /\ UNCHANGED <<result, meta, dir, slot, probe, left, count>>
      BY <3>3, <2>2, <2>3, <2>r DEF TypeOK, RegType, CallerOK, Labels
    <3> QED
      BY <1>1, <3>1, <3>2, <3>3 DEF BeginPut
  <2> QED
    BY <1>p, <2>6, <2>7, <2>8
<1>2. ASSUME NEW path \in Seq(Names), NEW off \in Offsets, BeginGet(path, off)
      PROVE  TypeInv'
  <2>1. call' \in Calls
    BY <1>2, SizesAssumption DEF BeginGet, Calls
  <2>2. Head(path) \in Names /\ Tail(path) \in Seq(Names)
    BY <1>2 DEF BeginGet
  <2>3. calls' \in 0 .. MaxCalls
    BY <1>2, SizesAssumption DEF BeginGet, Begin, TypeOK
  <2> QED
    BY <1>2, <2>1, <2>2, <2>3, <1>m, RootStored
       DEF BeginGet, TypeOK, CallerOK, Labels, disk
<1>3. ASSUME directorySearch, UNCHANGED <<calls, crashes>>
      PROVE  TypeInv'
  <2>1. MemType'
    BY <1>3, clusterReadMem DEF directorySearch, TypeOK
  <2>2. CASE Abort
    BY <2>1, <2>2, <1>3, <1>m, AbortType
  <2>3. CASE Goto("searchNext", cluster) /\ UNCHANGED <<left, count, meta, files>>
    BY <2>1, <2>3, <1>3, <1>p, <1>h, GotoReg DEF TypeOK, Labels
  <2>4. CASE NotFound
    BY <2>1, <2>4, <1>3, <1>m, NotFoundType
  <2>5. ASSUME NEW i \in Units, Found(data[cluster][i]), OnDisk(cluster)
        PROVE  TypeInv'
    <3>1. cluster \in Stored
      BY <2>5, OnDiskStored DEF TypeOK
    <3>2. data[cluster][i] \in Unit
      BY <3>1 DEF TypeOK, Content
    <3> QED
      BY <2>1, <2>5, <3>2, <1>3, <1>m, FoundType
  <2> QED
    BY <1>3, <2>2, <2>3, <2>4, <2>5 DEF directorySearch, clusterReadOk
<1>4. ASSUME directorySearchNext, UNCHANGED <<calls, crashes>>
      PROVE  TypeInv'
  <2>1. MemType'
    BY <1>4, FATReadMem DEF directorySearchNext
  <2>2. CASE Abort
    BY <2>1, <2>2, <1>4, <1>m, AbortType
  <2>3. CASE NotFound
    BY <2>1, <2>3, <1>4, <1>m, NotFoundType
  <2>4. CASE FATReadOk(cluster) /\ Goto("search", TableValue(cluster))
             /\ UNCHANGED <<left, count, meta, files>>
    <3>1. TableValue(cluster) \in Nat
      BY <2>4, TableValueType DEF FATReadOk, TypeOK
    <3> QED
      BY <2>1, <2>4, <3>1, <1>4, <1>p, <1>h, GotoReg DEF TypeOK, Labels
  <2> QED
    BY <1>4, <2>2, <2>3, <2>4 DEF directorySearchNext
<1>5. ASSUME allocateFreeFAT, UNCHANGED <<calls, crashes>>
      PROVE  TypeInv'
  <2>1. CASE Return(-1) /\ UNCHANGED <<buf, faults>>
    <3>1. MemType'
      BY <1>5, <2>1 DEF allocateFreeFAT, TypeOK, MemType, disk
    <3> QED
      BY <2>1, <3>1, <1>5, <1>p, <1>h, ReturnReg DEF allocateFreeFAT
  <2>2. CASE MoreClusters
    <3>1. MemType'
      BY <1>5, <2>2, FATReadMem DEF allocateFreeFAT
    <3>2. probe + 1 \in 0 .. TotalClusters
      BY <2>2, SizesAssumption DEF MoreClusters, TypeOK
    <3>3. RegType'
      BY <1>5, <2>2, <3>2 DEF allocateFreeFAT, Passed, TypeOK, RegType, CallerOK, Labels
    <3> QED
      BY <3>1, <3>3, <1>5, <1>p, <1>h DEF allocateFreeFAT
  <2> QED
    BY <1>5, <2>1, <2>2 DEF allocateFreeFAT
<1>6. ASSUME allocateFreeFATMark, UNCHANGED <<calls, crashes>>
      PROVE  TypeInv'
  <2>1. MemType'
    BY <1>6, FATWriteMem DEF allocateFreeFATMark, AllocatedMark, END
  <2>2. CASE Abort
    BY <2>1, <2>2, <1>6, <1>m, AbortType
  <2>3. CASE pc' = after /\ UNCHANGED <<call, result, locals, meta, files>>
    <3>1. RegType'
      BY <2>3, <1>6 DEF allocateFreeFATMark, TypeOK, RegType, CallerOK, Callers, Labels, locals
    <3> QED
      BY <2>1, <2>3, <3>1, <1>6, <1>p, <1>h
  <2> QED
    BY <1>6, <2>2, <2>3 DEF allocateFreeFATMark
<1>7. ASSUME directoryAdd, UNCHANGED <<calls, crashes>>
      PROVE  TypeInv'
  <2>1. MemType'
    BY <1>7, clusterReadMem DEF directoryAdd, TypeOK
  <2>2. CASE Abort
    BY <2>1, <2>2, <1>7, <1>m, AbortType
  <2>3. CASE Goto("addNext", cluster) /\ UNCHANGED <<left, count, meta, files>>
    BY <2>1, <2>3, <1>7, <1>p, <1>h, GotoReg DEF TypeOK, Labels
  <2>4. ASSUME NEW i \in Units, Allocate("addStore"), slot' = i,
               UNCHANGED <<cluster, left, meta, files>>
        PROVE  TypeInv'
    BY <2>1, <2>4, <1>7, <1>p, <1>h, AllocateReg DEF TypeOK, Callers
  <2> QED
    BY <1>7, <2>2, <2>3, <2>4 DEF directoryAdd
<1>8. ASSUME directoryAddNext, UNCHANGED <<calls, crashes>>
      PROVE  TypeInv'
  <2>1. MemType'
    BY <1>8, FATReadMem DEF directoryAddNext
  <2>2. CASE FATReadOk(cluster) /\ Goto("addRead", TableValue(cluster))
             /\ UNCHANGED <<left, count, meta, files>>
    <3>1. TableValue(cluster) \in Nat
      BY <2>2, TableValueType DEF FATReadOk, TypeOK
    <3> QED
      BY <2>1, <2>2, <3>1, <1>8, <1>p, <1>h, GotoReg DEF TypeOK, Labels
  <2>3. CASE Allocate("addLink") /\ UNCHANGED <<cluster, slot, left, meta, files>>
    BY <2>1, <2>3, <1>8, <1>p, <1>h, AllocateReg DEF TypeOK, Callers
  <2> QED
    BY <1>8, <2>2, <2>3 DEF directoryAddNext
<1>9. ASSUME directoryAddLink \/ putFileLink, UNCHANGED <<calls, crashes>>
      PROVE  TypeInv'
  <2>0. probe \in Nat
    BY SizesAssumption DEF TypeOK
  <2>1. MemType'
    BY <1>9, <2>0, FATWriteMem DEF directoryAddLink, putFileLink
  <2>2. CASE Abort
    BY <2>1, <2>2, <1>9, <1>m, AbortType
  <2>3. CASE (Goto("addRead", probe) \/ Goto("putWrite", probe))
             /\ UNCHANGED <<left, count, meta, files>>
    BY <2>0, <2>1, <2>3, <1>9, <1>p, <1>h, GotoReg DEF TypeOK, Labels
  <2> QED
    BY <1>9, <2>2, <2>3 DEF directoryAddLink, putFileLink
<1>10. ASSUME directoryAddStore, UNCHANGED <<calls, crashes>>
       PROVE  TypeInv'
  <2>1. StoredDirectory \in Content
    BY StoredDirectoryType
  <2>2. MemType'
    BY <1>10, <2>1 DEF directoryAddStore, TypeOK, MemType
  <2>3. RegType'
    <3>1. PICK sought \in SearchNames(call.name) : Search(sought, dir, "verify")
      BY <1>10 DEF directoryAddStore, SearchAgain
    <3>2. sought \in Names \cup {NoName}
      BY SearchNamesType DEF TypeOK, Calls
    <3> QED
      BY <1>10, <3>1, <3>2, SearchReg DEF directoryAddStore, TypeOK
  <2> QED
    BY <2>2, <2>3, <1>10, <1>p, <1>h DEF directoryAddStore
<1>11. ASSUME putFileWrite, UNCHANGED <<calls, crashes>>
       PROVE  TypeInv'
  <2>b. buf' \in [Cells -> Content]
    <3>1. FileCell(1) \in Content /\ FileCell(2) \in Content
      BY FileCellType
    <3> QED
      BY <1>11, <3>1 DEF putFileWrite, FileCopied, TypeOK
  <2>1. CASE Return(-1) /\ UNCHANGED <<data, files>>
    <3>1. MemType'
      BY <1>11, <2>1, <2>b DEF putFileWrite, TypeOK, MemType
    <3> QED
      BY <2>1, <3>1, <1>11, <1>p, <1>h, ReturnReg DEF putFileWrite
  <2>2. CASE OnDisk(cluster)
    <3>1. FileCell(1) \in Content
      BY FileCellType
    <3>2. MemType'
      BY <1>11, <2>2, <2>b, <3>1 DEF putFileWrite, TypeOK, MemType
    <3>3. RegType'
      <4>1. CASE Return(0)
        BY <4>1, ReturnReg
      <4>2. CASE /\ left' = (left - DataWrite) % WordSize
                 /\ Allocate("putLink")
                 /\ UNCHANGED <<cluster, slot, files>>
        <5>1. DataWrite \in Int
          BY UnitsNonempty, SizesAssumption DEF DataWrite, TypeOK
        <5>2. left' \in 0 .. WordSize - 1
          BY <4>2, <5>1, SizesAssumption DEF TypeOK
        <5> QED
          BY <4>2, <5>2, AllocateReg DEF TypeOK, Callers
      <4> QED
        BY <1>11, <2>2, <4>1, <4>2 DEF putFileWrite
    <3>4. HistType'
      <4>1. [name |-> call.name, dir |-> dir, start |-> meta.n, size |-> call.size]
               \in [name : Names \cup {NoName}, dir : Nat, start : Nat, size : Nat]
        BY SizesAssumption DEF TypeOK, Calls, Unit
      <4>2. files' = files \/ files' = files \cup
               {[name |-> call.name, dir |-> dir, start |-> meta.n, size |-> call.size]}
        BY <1>11 DEF putFileWrite
      <4> QED
        BY <1>11, <4>1, <4>2 DEF putFileWrite, TypeOK, HistType
    <3> QED
      BY <3>2, <3>3, <3>4, <1>p
  <2> QED
    BY <1>11, <2>1, <2>2 DEF putFileWrite
<1>12. ASSUME getFileRead, UNCHANGED <<calls, crashes>>
       PROVE  TypeInv'
  <2>1. MemType'
    BY <1>12, clusterReadMem DEF getFileRead, TypeOK
  <2>2. Goto("getNext", cluster) /\ count' = count + 1 /\ UNCHANGED <<left, meta, files>>
    BY <1>12 DEF getFileRead
  <2>3. RegType'
    BY <2>2, GotoReg DEF TypeOK, Labels
  <2> QED
    BY <2>1, <2>2, <2>3, <1>12, <1>p, <1>h
<1>13. ASSUME getFileNext, UNCHANGED <<calls, crashes>>
       PROVE  TypeInv'
  <2>1. MemType'
    BY <1>13, FATReadMem DEF getFileNext
  <2>2. CASE Abort
    BY <2>1, <2>2, <1>13, <1>m, AbortType
  <2>3. CASE (Return(-1) \/ Return(0)) /\ UNCHANGED <<meta, files>>
    BY <2>1, <2>3, <1>13, <1>p, <1>h, ReturnReg
  <2>4. CASE FATReadOk(cluster) /\ Goto("getRead", TableValue(cluster))
             /\ UNCHANGED <<left, count, meta, files>>
    <3>1. TableValue(cluster) \in Nat
      BY <2>4, TableValueType DEF FATReadOk, TypeOK
    <3> QED
      BY <2>1, <2>4, <3>1, <1>13, <1>p, <1>h, GotoReg DEF TypeOK, Labels
  <2> QED
    BY <1>13, <2>2, <2>3, <2>4 DEF getFileNext
<1>14. ASSUME PowerLoss
       PROVE  TypeInv'
  <2>1. Blank \in Content /\ StoredDirectory \in Content /\ FileCell(1) \in Content
    BY BlankType, StoredDirectoryType, FileCellType
  <2>2. data' \in [Stored -> Content]
    <3>1. ASSUME NEW B, NEW x \in Content,
                 data' = [data EXCEPT ![cluster] = Sectors(B, x, data[cluster])]
          PROVE  data' \in [Stored -> Content]
      BY <3>1, SectorsType DEF TypeOK
    <3> QED
      BY <1>14, <2>1, <3>1 DEF PowerLoss, TypeOK
  <2>3. MemType'
    BY <1>14, <2>1, <2>2 DEF PowerLoss, TypeOK, MemType
  <2>4. NoCall \in Calls /\ Mark("end") \in Unit
    BY NoCallType, MarkType
  <2>5. 0 \in 0 .. WordSize - 1 /\ 0 \in 0 .. TotalClusters /\ crashes' \in 0 .. MaxCrashes
    BY <1>14, SizesAssumption DEF PowerLoss, TypeOK
  <2>6. RegType'
    <3>1. /\ pc' = "idle" /\ call' = NoCall /\ result' = 0 /\ todo' = <<>> /\ seek' = NoName
          /\ after' = "none" /\ cluster' = 0 /\ dir' = 0 /\ slot' = 0 /\ probe' = 0
          /\ left' = 0 /\ count' = 0
      BY <1>14 DEF PowerLoss, ClearLocals
    <3>2. todo' \in Seq(Names) /\ call' \in Calls
      BY <3>1, <2>4
    <3> QED
      BY <3>1, <3>2, <2>5, UnitsNonempty DEF RegType, CallerOK, Labels
  <2>7. HistType'
    BY <1>14, <2>4, <2>5 DEF PowerLoss, TypeOK, HistType
  <2> QED
    BY <1>p, <2>3, <2>6, <2>7
<1>15. CASE UNCHANGED vars
  BY <1>15 DEF vars, disk, locals, TypeOK, CallerOK
<1>16. ASSUME NEW p \in DirPaths, NEW n \in Names
       PROVE  Append(p, n) \in Seq(Names)
  BY NamesAssumption
<1> QED
  BY <1>1, <1>2, <1>3, <1>4, <1>5, <1>6, <1>7, <1>8, <1>9, <1>10, <1>11, <1>12, <1>13,
     <1>14, <1>15, <1>16 DEF Next, Step, Rest

(* Every variable keeps its type in every behaviour of the driver, for     *)
(* volumes, paths and bounds of any size.                                  *)
THEOREM TypeCorrect == Spec => []TypeOK
<1>1. TypeInv => TypeOK
  BY DEF TypeInv
<1> QED
  BY <1>1, TypeInit, TypeNext, PTL DEF Spec
=============================================================================
