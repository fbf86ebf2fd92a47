--------------------------- MODULE FatChainProofs ---------------------------
(* The allocation table is well formed in every reachable state.           *)
EXTENDS FatVolumeProofs

(* The inductive invariant.  What makes linking a new cluster safe is that *)
(* between its allocation and the link nothing refers to it: it is the     *)
(* target of no link because links lead to allocated clusters only, and it *)
(* is not the cluster being extended because that one is allocated too.    *)
(* The cluster being extended comes from a directory entry, hence          *)
(* ContentOK for everything on disk and in the transfer area.  An entry    *)
(* whose number is cut names a lower cluster, which is allocated as long   *)
(* as allocateFreeFAT has passed none over: NonePassed.                    *)
ContentOK(t, x) == \A i \in Units : IsEntry(x[i]) /\ x[i].n \in Clusters => t[x[i].n] # FREE
MemSafe ==
  /\ WellFormed(fat) /\ Allocated(fat, Root)
  /\ \A c \in Stored : ContentOK(fat, data[c])
  /\ \A m \in Cells : ContentOK(fat, buf[m])
Pending ==
  /\ probe \in Clusters /\ fat[probe] = END /\ probe # cluster
  /\ \A c \in Stored : fat[c] # probe
NonePassed == "passed" \notin mishaps => \A c \in Clusters : c < probe => fat[c] # FREE
Reading == {"getRead", "getNext"}
Linking == {"searchNext", "addNext", "alloc", "allocMark"} \cup Callers
RegSafe ==
  /\ pc \notin Reading /\ cluster \in Clusters => fat[cluster] # FREE
  /\ dir \in Clusters => fat[dir] # FREE
  /\ pc = "allocMark" => probe \in Clusters /\ fat[probe] = FREE
  /\ pc \in Callers => Pending
  /\ pc \in {"alloc", "allocMark"} \cup Callers => NonePassed
  /\ pc \in Linking => cluster \in Stored
ChainInv == TypeInv /\ (Orderly => MemSafe /\ RegSafe)

(* The marks are no cluster numbers, and the test on cluster numbers in    *)
(* FATRead, FATWrite and clusterRead accepts exactly the clusters.         *)
LEMMA SoundFacts ==
  ASSUME TableFits
  PROVE  /\ END \notin Clusters /\ END \in Nat /\ END # FREE
         /\ Clusters \subseteq Table /\ Clusters \subseteq Nat \ {0}
         /\ Stored \subseteq Clusters
         /\ \A c \in Nat : ValidCluster(c) <=> c \in Clusters
  BY SizesAssumption DEF TableFits, BAD, END, FREE, Clusters, Stored, Table, ValidCluster

(* FATRead returns, and FATWrite changes, the entry of the cluster it is   *)
(* asked for.                                                              *)
LEMMA SoundTable ==
  ASSUME TableFits, NEW c \in Clusters, NEW v
  PROVE  TableValue(c) = fat[c] /\ TableSet(c, v) = [fat EXCEPT ![c] = v]
  BY TableLookup DEF TableValue, TableSet

-----------------------------------------------------------------------------
(* The two ways the driver changes the table.                              *)
(* allocateFreeFAT's write: a free cluster becomes a chain of its own.     *)
LEMMA MarkKeepsChains ==
  ASSUME TableFits, NEW t \in [Table -> Nat], NEW n \in Clusters, t[n] = FREE,
         WellFormed(t)
  PROVE  WellFormed([t EXCEPT ![n] = END])
<1> DEFINE u == [t EXCEPT ![n] = END]
<1>1. u[n] = END /\ \A c \in Clusters : c # n => u[c] = t[c]
  BY SoundFacts
<1>2. NoDangling(u)
  BY <1>1, SoundFacts DEF WellFormed, NoDangling
<1>3. NoCrossLink(u)
  BY <1>1, SoundFacts DEF WellFormed, NoCrossLink
<1>4. Acyclic(u)
  <2> SUFFICES ASSUME NEW S \in SUBSET Stored, S # {}
               PROVE  \E c \in S : u[c] \notin S
    BY DEF Acyclic
  <2>1. PICK c \in S : t[c] \notin S
    BY DEF WellFormed, Acyclic
  <2> QED
    BY <2>1, <1>1, SoundFacts
<1> QED
  BY <1>2, <1>3, <1>4 DEF WellFormed

(* The write of directoryAdd and putFile: linking a fresh one-cluster      *)
(* chain to the end of another keeps the chains disjoint and finite.       *)
LEMMA LinkKeepsChains ==
  ASSUME TableFits, NEW t \in [Table -> Nat], NEW c \in Stored, NEW n \in Clusters, c # n,
         t[n] = END, \A d \in Stored : t[d] # n, t[c] # FREE, WellFormed(t)
  PROVE  WellFormed([t EXCEPT ![c] = n])
<1> DEFINE u == [t EXCEPT ![c] = n]
<1>1. u[c] = n /\ u[n] = END /\ \A d \in Clusters : d # c => u[d] = t[d]
  BY SoundFacts
<1>2. NoDangling(u)
  BY <1>1, SoundFacts DEF WellFormed, NoDangling, FREE
<1>3. NoCrossLink(u)
  BY <1>1, SoundFacts DEF WellFormed, NoCrossLink
<1>4. Acyclic(u)
  <2> SUFFICES ASSUME NEW S \in SUBSET Stored, S # {}
               PROVE  \E d \in S : u[d] \notin S
    BY DEF Acyclic
  <2>1. PICK d \in S : t[d] \notin S
    BY DEF WellFormed, Acyclic
  <2>2. CASE d # c
    BY <2>1, <2>2, <1>1
  <2>3. CASE n \in S
    BY <2>3, <1>1, SoundFacts
  <2>4. CASE d = c /\ n \notin S
    BY <2>4, <1>1
  <2> QED
    BY <2>2, <2>3, <2>4
<1> QED
  BY <1>2, <1>3, <1>4 DEF WellFormed

(* A unit that names an allocated cluster still does so in a table that    *)
(* frees nothing.                                                          *)
LEMMA AllocationKeepsContent ==
  ASSUME NEW t, NEW u, \A c \in Clusters : t[c] # FREE => u[c] # FREE, NEW x, ContentOK(t, x)
  PROVE  ContentOK(u, x)
  BY DEF ContentOK

(* A table sector seen as directory slots holds no entry.                  *)
LEMMA ImageSafe ==
  ASSUME NEW t, NEW table, NEW c, NEW x, ContentOK(t, x)
  PROVE  ContentOK(t, WithTableSector(x, table, c))
<1>1. ASSUME NEW v PROVE ~IsEntry(LowByteUnit(v))
  BY DEF IsEntry, LowByteUnit, Mark
<1>2. ASSUME NEW i \in Units, i < SlotsPerSector PROVE ~IsEntry(SectorImage(table, c)[i])
  <2>1. i \in 0 .. SlotsPerSector - 1
    BY <1>2, SizesAssumption, UnitsNonempty DEF Units
  <2> QED
    BY <1>1, <2>1 DEF SectorImage
<1> QED
  BY <1>2 DEF ContentOK, WithTableSector

(* A transfer that stops half-way brings in no entry of its own.           *)
LEMMA SectorsSafe ==
  ASSUME NEW t, NEW B, NEW x, NEW y, ContentOK(t, x), ContentOK(t, y)
  PROVE  ContentOK(t, Sectors(B, x, y))
  BY DEF ContentOK, Sectors

-----------------------------------------------------------------------------
(* Memory: each transfer keeps MemSafe.                                    *)
(* While the table stays as it is, only the contents matter.               *)
LEMMA ContentsSafe ==
  ASSUME MemSafe, fat' = fat, \A c \in Stored : ContentOK(fat, data'[c]),
         \A m \in Cells : ContentOK(fat, buf'[m])
  PROVE  MemSafe'
<1>1. WellFormed(fat)' /\ Allocated(fat, Root)'
  BY DEF MemSafe
<1>2. (\A c \in Stored : ContentOK(fat, data[c]))'
  BY DEF ContentOK
<1>3. (\A m \in Cells : ContentOK(fat, buf[m]))'
  BY DEF ContentOK
<1> QED
  BY <1>1, <1>2, <1>3 DEF MemSafe

(* FATRead changes only cell 0, to something without new entries.          *)
LEMMA FATReadSafe ==
  ASSUME TypeInv, MemSafe, NEW c, FATReadOk(c) \/ FATReadFails(c), UNCHANGED disk
  PROVE  MemSafe'
<1>1. ContentOK(fat, WithTableSector(buf[0], fat, c))
  BY ImageSafe, UnitsNonempty DEF MemSafe
<1>2. \A m \in Cells : buf'[m] = buf[m] \/ buf'[m] = WithTableSector(buf[0], fat, c)
  BY UnitsNonempty DEF FATReadOk, FATReadFails, TypeInv, TypeOK
<1>3. \A m \in Cells : ContentOK(fat, buf'[m])
  BY <1>1, <1>2 DEF MemSafe
<1> QED
  BY <1>3 DEF MemSafe, disk

(* clusterRead copies entries that are on disk already.                    *)
LEMMA clusterReadSafe ==
  ASSUME TypeInv, MemSafe, NEW c \in Nat, NEW k,
         clusterReadOk(c, k) \/ clusterReadFails(c, k), UNCHANGED disk
  PROVE  MemSafe'
<1>1. OnDisk(c) => c \in Stored
  BY OnDiskStored
<1>2. ASSUME NEW m \in Cells PROVE ContentOK(fat, buf'[m])
  <2>1. CASE buf' = buf
    BY <2>1 DEF MemSafe
  <2>2. CASE OnDisk(c) /\ buf' = [buf EXCEPT ![k] = data[c]]
    <3>1. buf'[m] = buf[m] \/ buf'[m] = data[c]
      BY <2>2 DEF TypeInv, TypeOK
    <3> QED
      BY <3>1, <2>2, <1>1 DEF MemSafe
  <2>3. ASSUME NEW B, OnDisk(c), buf' = [buf EXCEPT ![k] = Sectors(B, data[c], buf[k])]
        PROVE  ContentOK(fat, buf'[m])
    <3>1. buf'[m] = buf[m] \/ buf'[m] = Sectors(B, data[c], buf[m])
      BY <2>3 DEF TypeInv, TypeOK
    <3> QED
      BY <3>1, <2>3, <1>1, SectorsSafe DEF MemSafe
  <2> QED
    BY <2>1, <2>2, <2>3 DEF clusterReadOk, clusterReadFails
<1> QED
  BY <1>2 DEF MemSafe, disk

(* FATWrite keeps it when the new table is well formed and frees nothing.  *)
LEMMA FATWriteSafe ==
  ASSUME TypeInv, MemSafe, NEW c, NEW v, FATWriteOk(c, v), WellFormed(fat'),
         \A d \in Clusters : fat[d] # FREE => fat'[d] # FREE
  PROVE  MemSafe'
<1>1. \A d \in Stored : ContentOK(fat', data[d])
  BY AllocationKeepsContent DEF MemSafe
<1>2. \A m \in Cells : ContentOK(fat', buf[m])
  BY AllocationKeepsContent DEF MemSafe
<1>3. ContentOK(fat', WithTableSector(buf[0], TableSet(c, v), c))
  BY <1>2, ImageSafe, UnitsNonempty
<1>4. \A m \in Cells : buf'[m] = buf[m] \/ buf'[m] = WithTableSector(buf[0], TableSet(c, v), c)
  BY UnitsNonempty DEF FATWriteOk, TypeInv, TypeOK
<1>5. \A m \in Cells : ContentOK(fat', buf'[m])
  BY <1>2, <1>3, <1>4
<1>6. data' = data
  BY DEF FATWriteOk
<1>7. Allocated(fat', Root)
  BY DEF MemSafe, Allocated
<1> QED
  BY <1>1, <1>5, <1>6, <1>7 DEF MemSafe

(* What a new directory cluster or a new file cluster may contain.         *)
(* The directory cluster directoryAdd writes names only allocated          *)
(* clusters: the new entry's is marked, or cut to a lower number.          *)
LEMMA StoredDirectorySafe ==
  ASSUME TableFits, TypeInv, MemSafe, RegSafe, pc = "addStore", EntryStored, Orderly'
  PROVE  ContentOK(fat, StoredDirectory)
<1>1. probe \in Clusters /\ fat[probe] = END /\ NonePassed
  BY DEF RegSafe, Callers, Pending
<1>2. EntryCluster(probe) \in Clusters => fat[EntryCluster(probe)] # FREE
  <2>1. CASE EntryCluster(probe) = probe
    BY <1>1, <2>1, SoundFacts
  <2>2. CASE EntryCluster(probe) # probe
    <3>1. "cut" \in mishaps' /\ mishaps \subseteq mishaps'
      BY <2>2 DEF EntryStored, When
    <3>2. "passed" \notin mishaps
      BY <3>1 DEF Orderly
    <3>3. EntryCluster(probe) < probe
      BY <1>1, <2>2, EntryClusterBelow, SoundFacts
    <3> QED
      BY <1>1, <3>2, <3>3 DEF NonePassed
  <2> QED
    BY <2>1, <2>2
<1>3. NewEntry.n = EntryCluster(probe)
  BY DEF NewEntry
<1>4. ContentOK(fat, buf[0])
  BY UnitsNonempty DEF MemSafe
<1>5. \A i \in Units : StoredDirectory[i] = NewEntry \/ StoredDirectory[i] = buf[0][i]
  BY UnitsNonempty DEF StoredDirectory, TypeInv, TypeOK, Content
<1> QED
  BY <1>2, <1>3, <1>4, <1>5 DEF ContentOK

(* The data putFile writes contains no entry.                              *)
LEMMA FileCellSafe ==
  ASSUME MemSafe, NEW k \in {1, 2}
  PROVE  ContentOK(fat, FileCell(k))
<1>1. \A n : ~IsEntry(Byte(call.name, n))
  BY DEF IsEntry, Byte
<1>2. ContentOK(fat, buf[k])
  BY UnitsNonempty DEF MemSafe
<1> QED
  BY <1>1, <1>2 DEF ContentOK, FileCell

-----------------------------------------------------------------------------
(* Registers: each way to continue keeps RegSafe when the table is as      *)
(* before.                                                                 *)
(* A call that returns holds no cluster.                                   *)
LEMMA ReturnSafe ==
  ASSUME NEW r, Return(r)
  PROVE  RegSafe'
<1>1. 0 \notin Clusters
  BY SizesAssumption DEF Clusters
<1> QED
  BY <1>1 DEF Return, ClearLocals, RegSafe, Callers, Linking

(* Going on with an allocated cluster keeps RegSafe; what getFile reads    *)
(* does not matter.                                                        *)
LEMMA GotoSafe ==
  ASSUME RegSafe, NEW label, label \notin {"alloc", "allocMark"} \cup Callers,
         NEW c, Goto(label, c), fat' = fat,
         label \in Reading \/ (c \in Clusters => fat[c] # FREE),
         label \in Linking => c \in Stored
  PROVE  RegSafe'
  BY DEF Goto, RegSafe

(* directorySearch starts at an allocated cluster.                         *)
LEMMA SearchSafe ==
  ASSUME RegSafe, NEW name, NEW c, NEW caller, Search(name, c, caller),
         c \in Clusters => fat[c] # FREE, dir' \in Clusters => fat[dir'] # FREE, fat' = fat
  PROVE  RegSafe'
  BY DEF Search, RegSafe, Callers, Linking

(* allocateFreeFAT starts with no cluster passed over.                     *)
LEMMA AllocateSafe ==
  ASSUME RegSafe, NEW caller, Allocate(caller), UNCHANGED <<cluster, fat>>,
         pc \notin Reading, cluster \in Stored
  PROVE  RegSafe'
<1>1. \A c \in Clusters : ~(c < 2)
  BY SizesAssumption DEF Clusters
<1> QED
  BY <1>1 DEF Allocate, RegSafe, Callers, NonePassed

(* Each caller of directorySearch goes on with the cluster an entry names, *)
(* which is allocated.                                                     *)
LEMMA FoundSafe ==
  ASSUME RegSafe, NEW u, Found(u), u.n \in Clusters => fat[u.n] # FREE, fat' = fat
  PROVE  RegSafe'
<1>1. CASE Search(Head(todo), u.n, "path") /\ UNCHANGED dir
  BY <1>1, SearchSafe DEF RegSafe
<1>2. ASSUME NEW sought, Search(sought, u.n, "exists"), dir' = u.n
      PROVE  RegSafe'
  BY <1>2, SearchSafe
<1>3. CASE Goto("getRead", u.n) \/ Goto("putWrite", u.n)
  BY <1>3, GotoSafe DEF Callers, Linking
<1>4. CASE Return(-3) \/ Return(0)
  BY <1>4, ReturnSafe
<1> QED
  BY <1>1, <1>2, <1>3, <1>4 DEF Found, ReadFile

(* putFile goes on with the directory, the others return.                  *)
LEMMA NotFoundSafe ==
  ASSUME RegSafe, NotFound, fat' = fat
  PROVE  RegSafe'
<1>1. CASE Return(-2)
  BY <1>1, ReturnSafe
<1>2. CASE Goto("addRead", dir)
  BY <1>2, GotoSafe DEF RegSafe, Callers, Linking
<1> QED
  BY <1>1, <1>2 DEF NotFound

(* A link of a stored cluster leads to an allocated cluster.               *)
LEMMA LinkAllocated ==
  ASSUME TableFits, TypeInv, MemSafe, NEW c \in Nat, ValidCluster(c)
  PROVE  /\ c \in Clusters /\ TableValue(c) = fat[c]
         /\ c \in Stored /\ TableValue(c) \in Clusters => fat[TableValue(c)] # FREE
  BY SoundFacts, SoundTable DEF MemSafe, WellFormed, NoDangling

-----------------------------------------------------------------------------
(* A well-formed volume and an idle driver satisfy the inductive           *)
(* invariant.                                                              *)
LEMMA ChainInit ==
  ASSUME Init
  PROVE  MemSafe /\ RegSafe
<1>1. PICK v \in Volumes : fat = v.fat /\ data = v.data
  BY DEF Init
<1>2. VolumeOK([fat |-> fat, data |-> data])
  BY <1>1, VolumesAssumption DEF VolumeOK
<1>3. WellFormed(fat) /\ Allocated(fat, Root)
  BY <1>2 DEF VolumeOK
<1>4. ASSUME NEW c \in Stored PROVE ContentOK(fat, data[c])
  <2>1. ASSUME NEW i \in Units, IsEntry(data[c][i]) PROVE fat[data[c][i].n] # FREE
    <3>1. <<c, i>> \in EntriesIn(data) /\ EntryAt(data, <<c, i>>) = data[c][i]
      BY <2>1 DEF EntriesIn, EntryAt, Places
    <3> QED
      BY <3>1, <1>2 DEF VolumeOK, StartsOwned, Allocated
  <2> QED
    BY <2>1 DEF ContentOK
<1>5. ContentOK(fat, Blank)
  BY DEF ContentOK, Blank, Mark, IsEntry
<1>6. MemSafe
  BY <1>3, <1>4, <1>5 DEF MemSafe, Init
<1>7. 0 \notin Clusters
  BY SizesAssumption DEF Clusters
<1> QED
  BY <1>6, <1>7 DEF Init, RegSafe, Callers, Linking

(* Every step keeps the inductive invariant: one case per action.          *)
LEMMA ChainNext == ASSUME TableFits PROVE ChainInv /\ [Next]_vars => ChainInv'
<1>o. [Next]_vars /\ Orderly' => Orderly
  BY MishapsGrow DEF Orderly
<1> SUFFICES ASSUME TypeInv, MemSafe, RegSafe, [Next]_vars, Orderly' PROVE MemSafe' /\ RegSafe'
  BY <1>o, TypeNext DEF ChainInv
<1>t. TableFits /\ cluster \in Nat /\ dir \in Nat /\ probe \in Nat
  BY SizesAssumption DEF TypeInv, TypeOK
<1>s. OnDisk(cluster) => cluster \in Stored /\ cluster \in Clusters
  BY <1>t, OnDiskStored
<1>g. mishaps \subseteq mishaps'
  BY MishapsGrow
<1>d. UNCHANGED <<disk, buf>> => MemSafe'
  BY DEF MemSafe, disk
<1>r. Root \in Clusters => fat[Root] # FREE
  BY DEF MemSafe, Allocated
<1>1. ASSUME NEW path, NEW name, NEW size, BeginPut(path, name, size)
      PROVE  MemSafe' /\ RegSafe'
  <2>1. MemSafe' /\ fat' = fat
    BY <1>1, <1>d DEF BeginPut, disk
  <2>2. RegSafe'
    BY <1>1, <2>1, <1>r DEF BeginPut, Begin, RegSafe, Callers, Linking, locals
  <2> QED
    BY <2>1, <2>2
<1>2. ASSUME NEW path, NEW off, BeginGet(path, off)
      PROVE  MemSafe' /\ RegSafe'
  <2>1. MemSafe' /\ fat' = fat
    BY <1>2, <1>d DEF BeginGet, disk
  <2>2. RegSafe'
    BY <1>2, <2>1, <1>r DEF BeginGet, RegSafe, Callers, Linking
  <2> QED
    BY <2>1, <2>2
<1>3. CASE directorySearch
  <2>1. MemSafe' /\ fat' = fat
    BY <1>3, <1>t, clusterReadSafe DEF directorySearch, disk
  <2>2. CASE Abort \/ NotFound
    BY <2>1, <2>2, ReturnSafe, NotFoundSafe DEF Abort
  <2>3. CASE OnDisk(cluster) /\ Goto("searchNext", cluster)
    <3>1. pc \notin Reading
      BY <1>3 DEF directorySearch, Reading
    <3> QED
      BY <2>1, <2>3, <3>1, <1>s, GotoSafe DEF RegSafe, Callers
  <2>4. ASSUME NEW i \in Units, OnDisk(cluster), IsEntry(data[cluster][i]),
               Found(data[cluster][i])
        PROVE  MemSafe' /\ RegSafe'
    <3>1. cluster \in Stored
      BY <2>4, <1>s
    <3>2. data[cluster][i].n \in Clusters => fat[data[cluster][i].n] # FREE
      BY <2>4, <3>1 DEF MemSafe, ContentOK
    <3> QED
      BY <2>1, <2>4, <3>2, FoundSafe
  <2> QED
    BY <1>3, <2>2, <2>3, <2>4 DEF directorySearch, clusterReadOk
<1>4. CASE directorySearchNext
  <2>1. MemSafe' /\ fat' = fat
    BY <1>4, FATReadSafe DEF directorySearchNext, disk
  <2>2. CASE Abort \/ NotFound
    BY <2>1, <2>2, ReturnSafe, NotFoundSafe DEF Abort
  <2>3. CASE ValidCluster(cluster) /\ Goto("search", TableValue(cluster))
    <3>1. cluster \in Stored
      BY <1>4 DEF directorySearchNext, RegSafe, Linking
    <3> QED
      BY <2>1, <2>3, <3>1, <1>t, LinkAllocated, GotoSafe DEF Callers, Linking
  <2> QED
    BY <1>4, <2>2, <2>3 DEF directorySearchNext, FATReadOk
<1>5. CASE allocateFreeFAT
  <2>1. CASE Return(-1) /\ UNCHANGED <<buf, faults>>
    BY <1>5, <2>1, <1>d, ReturnSafe DEF allocateFreeFAT
  <2>2. CASE MoreClusters /\ UNCHANGED <<cluster, dir>>
    <3>1. MemSafe' /\ fat' = fat /\ pc = "alloc"
      BY <1>5, <2>2, FATReadSafe DEF allocateFreeFAT, disk
    <3>2. CASE FATReadOk(probe) /\ TableValue(probe) = FREE /\ pc' = "allocMark" /\ UNCHANGED probe
      <4>1. probe \in Clusters /\ fat[probe] = FREE
        BY <3>2, <1>t, LinkAllocated DEF FATReadOk
      <4> QED
        BY <2>2, <3>1, <3>2, <4>1, <1>g DEF RegSafe, Callers, NonePassed, Linking, Reading
    <3>3. CASE /\ pc' = pc /\ probe' = probe + 1
               /\ "passed" \notin mishaps' => ~(probe \in Clusters /\ fat[probe] = FREE)
      <4>1. NonePassed'
        BY <3>1, <3>3, <1>t, <1>g, SoundFacts DEF RegSafe, NonePassed
      <4> QED
        BY <2>2, <3>1, <3>3, <4>1 DEF RegSafe, Callers, Linking, Reading
    <3>4. CASE FATReadOk(probe) /\ TableValue(probe) # FREE /\ Passed
      BY <3>3, <3>4, <1>t, LinkAllocated DEF FATReadOk, Passed
    <3>5. CASE Passed /\ mishaps' = mishaps \cup {"passed"}
      BY <3>3, <3>5 DEF Passed
    <3> QED
      BY <1>5, <2>2, <3>2, <3>4, <3>5 DEF allocateFreeFAT
  <2> QED
    BY <1>5, <2>1, <2>2 DEF allocateFreeFAT
<1>6. CASE allocateFreeFATMark
  <2>1. /\ probe \in Clusters /\ fat[probe] = FREE /\ NonePassed /\ after \in Callers
        /\ cluster \in Stored /\ fat[cluster] # FREE /\ UNCHANGED mishaps
    BY <1>6, <1>t, SoundFacts
       DEF allocateFreeFATMark, RegSafe, TypeInv, CallerOK, Linking, Reading
  <2>2. CASE Abort /\ FATWriteFails(probe)
    BY <2>2, FATReadSafe, ReturnSafe DEF Abort, FATWriteFails
  <2>3. CASE FATWriteOk(probe, END) /\ pc' = after /\ UNCHANGED locals
    <3>1. fat' = [fat EXCEPT ![probe] = END] /\ fat \in [Table -> Nat]
      BY <2>1, <2>3, <1>t, SoundTable DEF FATWriteOk, TypeInv, TypeOK
    <3>2. fat'[probe] = END /\ \A c \in Clusters : c # probe => fat'[c] = fat[c]
      BY <3>1, <2>1, <1>t, SoundFacts
    <3>3. WellFormed(fat')
      BY <3>1, <2>1, <1>t, MarkKeepsChains DEF MemSafe
    <3>4. MemSafe'
      BY <3>2, <3>3, <2>1, <2>3, FATWriteSafe
    <3>5. \A c \in Stored : fat'[c] # probe
      BY <3>2, <2>1, <1>t, SoundFacts DEF MemSafe, WellFormed, NoDangling
    <3>6. UNCHANGED <<cluster, dir, probe>> /\ pc' \in Callers
      BY <2>1, <2>3 DEF locals
    <3>7. END # FREE
      BY DEF END, FREE
    <3>8. Pending'
      BY <3>2, <3>5, <3>6, <2>1 DEF Pending
    <3>9. NonePassed'
      BY <3>2, <3>6, <3>7, <2>1 DEF NonePassed
    <3>10. RegSafe'
      BY <3>2, <3>6, <3>7, <3>8, <3>9, <2>1 DEF RegSafe, Callers, Linking
    <3> QED
      BY <3>4, <3>10
  <2> QED
    BY <1>6, <2>2, <2>3 DEF allocateFreeFATMark, AllocatedMark
<1>7. CASE directoryAdd
  <2>1. MemSafe' /\ fat' = fat
    BY <1>7, <1>t, clusterReadSafe DEF directoryAdd, disk
  <2>2. CASE Abort
    BY <2>1, <2>2, ReturnSafe DEF Abort
  <2>0. pc \notin Reading
    BY <1>7 DEF directoryAdd, Reading
  <2>3. CASE OnDisk(cluster) /\ Goto("addNext", cluster)
    BY <2>0, <2>1, <2>3, <1>s, GotoSafe DEF RegSafe, Callers
  <2>4. CASE OnDisk(cluster) /\ Allocate("addStore") /\ UNCHANGED cluster
    BY <2>0, <2>1, <2>4, <1>s, AllocateSafe
  <2> QED
    BY <1>7, <2>2, <2>3, <2>4 DEF directoryAdd, clusterReadOk
<1>8. CASE directoryAddNext
  <2>1. MemSafe' /\ fat' = fat
    BY <1>8, FATReadSafe DEF directoryAddNext, disk
  <2>0. cluster \in Stored /\ pc \notin Reading
    BY <1>8 DEF directoryAddNext, RegSafe, Linking, Reading
  <2>2. CASE ValidCluster(cluster) /\ Goto("addRead", TableValue(cluster))
    BY <2>0, <2>1, <2>2, <1>t, LinkAllocated, GotoSafe DEF Callers, Linking
  <2>3. CASE Allocate("addLink") /\ UNCHANGED cluster
    BY <2>0, <2>1, <2>3, AllocateSafe
  <2> QED
    BY <1>8, <2>2, <2>3 DEF directoryAddNext, FATReadOk
<1>9. CASE directoryAddLink \/ putFileLink
  <2>1. Pending /\ cluster \in Stored /\ fat[cluster] # FREE
    BY <1>9, <1>t, SoundFacts
       DEF directoryAddLink, putFileLink, RegSafe, Callers, Linking, Reading
  <2>2. CASE Abort /\ FATWriteFails(cluster)
    BY <2>2, FATReadSafe, ReturnSafe DEF Abort, FATWriteFails
  <2>3. CASE FATWriteOk(cluster, probe) /\ (Goto("addRead", probe) \/ Goto("putWrite", probe))
    <3>0. cluster \in Clusters
      BY <2>1, <1>t, SoundFacts
    <3>1. fat' = [fat EXCEPT ![cluster] = probe] /\ fat \in [Table -> Nat]
      BY <3>0, <2>3, <1>t, SoundTable DEF FATWriteOk, TypeInv, TypeOK
    <3>2. fat'[cluster] = probe /\ \A c \in Clusters : c # cluster => fat'[c] = fat[c]
      BY <3>0, <3>1, <1>t, SoundFacts
    <3>3. WellFormed(fat')
      BY <3>1, <2>1, <1>t, LinkKeepsChains DEF MemSafe, Pending
    <3>4. \A c \in Clusters : fat[c] # FREE => fat'[c] # FREE
      BY <3>2, <2>1, <1>t, SoundFacts DEF Pending, FREE
    <3>5. MemSafe'
      BY <3>3, <3>4, <2>3, FATWriteSafe
    <3>6. fat'[probe] # FREE
      BY <3>2, <2>1, <1>t, SoundFacts DEF Pending
    <3>7. RegSafe'
      BY <3>4, <3>6, <2>3 DEF Goto, RegSafe, Callers, Linking
    <3> QED
      BY <3>5, <3>7
  <2> QED
    BY <1>9, <2>2, <2>3 DEF directoryAddLink, putFileLink
<1>10. CASE directoryAddStore
  <2>1. ContentOK(fat, StoredDirectory)
    BY <1>10, <1>t, StoredDirectorySafe DEF directoryAddStore
  <2>2. /\ \A m \in Cells : buf'[m] = buf[m] \/ buf'[m] = StoredDirectory
        /\ \A c \in Stored : data'[c] = data[c] \/ data'[c] = StoredDirectory
        /\ fat' = fat
    BY <1>10, UnitsNonempty DEF directoryAddStore, TypeInv, TypeOK
  <2>3. /\ \A m \in Cells : ContentOK(fat, buf'[m])
        /\ \A c \in Stored : ContentOK(fat, data'[c])
    BY <2>1, <2>2 DEF MemSafe
  <2>4. MemSafe'
    BY <2>2, <2>3, ContentsSafe
  <2>5. RegSafe'
    <3>1. PICK sought \in SearchNames(call.name) : Search(sought, dir, "verify")
      BY <1>10 DEF directoryAddStore, SearchAgain
    <3> QED
      BY <2>2, <1>10, <3>1, SearchSafe DEF directoryAddStore, RegSafe
  <2> QED
    BY <2>4, <2>5
<1>11. CASE putFileWrite
  <2>1. ContentOK(fat, FileCell(1)) /\ ContentOK(fat, FileCell(2)) /\ fat' = fat
    BY <1>11, FileCellSafe DEF putFileWrite
  <2>2. /\ \A m \in Cells : buf'[m] = buf[m] \/ buf'[m] = FileCell(1) \/ buf'[m] = FileCell(2)
        /\ \A c \in Stored : data'[c] = data[c] \/ data'[c] = FileCell(1)
    BY <1>11, UnitsNonempty DEF putFileWrite, FileCopied, TypeInv, TypeOK
  <2>3. /\ \A m \in Cells : ContentOK(fat, buf'[m])
        /\ \A c \in Stored : ContentOK(fat, data'[c])
    BY <2>1, <2>2 DEF MemSafe
  <2>4. MemSafe'
    BY <2>1, <2>3, ContentsSafe
  <2>5. CASE Return(-1) \/ Return(0)
    BY <2>4, <2>5, ReturnSafe
  <2>6. CASE OnDisk(cluster) /\ Allocate("putLink") /\ UNCHANGED cluster
    <3>1. pc \notin Reading
      BY <1>11 DEF putFileWrite, Reading
    <3> QED
      BY <2>1, <2>4, <2>6, <3>1, <1>s, AllocateSafe
  <2> QED
    BY <1>11, <2>5, <2>6 DEF putFileWrite
<1>12. CASE getFileRead
  <2>1. MemSafe' /\ fat' = fat
    BY <1>12, <1>t, clusterReadSafe DEF getFileRead, disk
  <2> QED
    BY <1>12, <2>1, GotoSafe DEF getFileRead, Callers, Linking, Reading
<1>13. CASE getFileNext
  <2>1. MemSafe' /\ fat' = fat
    BY <1>13, FATReadSafe DEF getFileNext, disk
  <2>2. CASE Abort \/ Return(-1) \/ Return(0)
    BY <2>1, <2>2, ReturnSafe DEF Abort
  <2>3. CASE Goto("getRead", TableValue(cluster))
    BY <2>1, <2>3, GotoSafe DEF Callers, Linking, Reading
  <2> QED
    BY <1>13, <2>2, <2>3 DEF getFileNext, FATReadOk
<1>14. CASE PowerLoss
  <2>1. fat' = fat /\ \A m \in Cells : buf'[m] = Blank
    BY <1>14 DEF PowerLoss
  <2>2. ContentOK(fat, Blank)
    BY DEF ContentOK, Blank, Mark, IsEntry
  <2>3. ASSUME NEW c \in Stored PROVE ContentOK(fat, data'[c])
    <3>1. ASSUME NEW B, NEW x, ContentOK(fat, x),
                 data' = [data EXCEPT ![cluster] = Sectors(B, x, data[cluster])]
          PROVE  ContentOK(fat, data'[c])
      <4>1. data'[c] = data[c] \/ data'[c] = Sectors(B, x, data[c])
        BY <3>1 DEF TypeInv, TypeOK
      <4> QED
        BY <3>1, <4>1, SectorsSafe DEF MemSafe
    <3>2. CASE UNCHANGED data
      BY <3>2 DEF MemSafe
    <3>3. pc = "addStore" /\ EntryStored => ContentOK(fat, StoredDirectory)
      BY <1>t, StoredDirectorySafe
    <3> QED
      BY <1>14, <3>1, <3>2, <3>3, FileCellSafe DEF PowerLoss
  <2>4. MemSafe'
    BY <2>1, <2>2, <2>3, ContentsSafe
  <2>5. 0 \notin Clusters
    BY SizesAssumption DEF Clusters
  <2> QED
    BY <1>14, <2>4, <2>5 DEF PowerLoss, ClearLocals, RegSafe, Callers, Linking
<1>15. CASE UNCHANGED vars
  <2>1. UNCHANGED <<disk, buf, fat, cluster, dir, pc, probe, mishaps>>
    BY <1>15 DEF vars, disk, locals
  <2> QED
    BY <2>1, <1>d DEF RegSafe, Pending, NonePassed
<1> QED
  BY <1>1, <1>2, <1>3, <1>4, <1>5, <1>6, <1>7, <1>8, <1>9, <1>10, <1>11, <1>12, <1>13,
     <1>14, <1>15 DEF Next, Step, Rest

(* The links of the table stay disjoint finite chains on every volume of   *)
(* any size the table look-up fits, which every volume of one-sector       *)
(* clusters is: through every interleaving of the calls' transfers with    *)
(* read time-outs and power losses, on full volumes, and also after        *)
(* numbers have been cut, as long as the driver stays Orderly.             *)
THEOREM ChainsSafe == ASSUME TableFits PROVE Spec => []ChainsWellFormed
<1>1. Init => ChainInv
  BY TypeInit, ChainInit DEF ChainInv
<1>2. ChainInv => ChainsWellFormed
  BY DEF ChainInv, MemSafe, ChainsWellFormed
<1> QED
  BY <1>1, <1>2, ChainNext, PTL DEF Spec
=============================================================================
