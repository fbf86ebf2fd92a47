------------------------------ MODULE FileStore ------------------------------
(***************************************************************************)
(* The file store of kernel/arch/i386/tty.c: mount_drive, write_file,      *)
(* read_file, read_root_directory and what they call.  Its directory is in *)
(* memory only, its clusters and allocation table are on the disk, and all *)
(* drive numbers share one disk, since read_block ignores the drive.       *)
(*                                                                         *)
(* A file name is a model value; a content is a text with its length.      *)
(* Code that writes past an object, divides by zero or waits for a sector  *)
(* the disk does not have ends the behaviour (`dead').  Where the one byte *)
(* in question may be padding or hold a zero already, the kernel may also  *)
(* go on as if nothing had happened.                                       *)
(***************************************************************************)
EXTENDS Integers, FiniteSets

CONSTANTS
  MaxFiles,       \* MAX_FILES
  MaxDrives,      \* MAX_MOUNTED_DRIVES
  BLOCK_SIZE,
  TableLen,       \* BLOCK_SIZE / FAT_ENTRY_SIZE
  Volumes,        \* boot sectors, each with the size of the disk it is on
  Names, Contents,
  Unset,          \* what a directory entry holds that nobody has filled in
  MaxCrashes

NoName == "no name"
EOF == 1
Blank == [text |-> "blank", size |-> 0]
Empty == [name |-> NoName, size |-> 0, start |-> 0]
NoJob == [drive |-> -1, entry |-> Empty]
NothingShown == [drive |-> -1, name |-> NoName, start |-> 0, block |-> Blank]

VARIABLES
  vol,            \* the boot sector
  table,          \* the block of the allocation table
  blocks,         \* the other blocks
  drives,         \* mounted_drives
  job,            \* a write_file between its content and its table entry
  shown,          \* what the last call, a read_file, has printed
  first,          \* history: what was first written under each name
  dead,           \* why the kernel cannot go on
  crashes

disk == <<vol, table, blocks>>
vars == <<disk, drives, job, shown, first, dead, crashes>>

DriveNos == 0 .. MaxDrives - 1
NotMounted ==
  [is_mounted |-> FALSE, fat_start |-> 0, data_start |-> 0, file_count |-> 0,
   files |-> [i \in 0 .. MaxFiles - 1 |-> Empty]]

Dies(why) == dead' = why /\ shown' = NothingShown /\ UNCHANGED <<disk, drives, job, first, crashes>>
Alive == dead = "no" /\ job = NoJob

-----------------------------------------------------------------------------
(* mount_drive.  The boot sector is read over the directory behind it as   *)
(* well: the count of files becomes what bytes 99 to 102 say, and the      *)
(* first ten entries become zero on a volume without boot code.            *)
initialize_fat32(d) ==
  [d EXCEPT !.fat_start = vol.reserved, !.data_start = vol.reserved + vol.num_fats * vol.fat_size]
read_boot_sector(d) == [NotMounted EXCEPT !.file_count = vol.tail]
mount_drive(n) ==
  /\ Alive /\ n < MaxDrives /\ ~drives[n].is_mounted
  /\ drives' = [drives EXCEPT ![n] =
       [initialize_fat32(read_boot_sector(@)) EXCEPT !.is_mounted = TRUE]]
  /\ shown' = NothingShown
  /\ UNCHANGED <<disk, job, first, dead, crashes>>

-----------------------------------------------------------------------------
(* Clusters.  0 is what find_free_cluster returns on a full volume.        *)
get_cluster_address(c, d) == d.data_start + (c - 2) * vol.spc
OnDisk(b) == b \in 0 .. vol.disk - 1

(* read_fat_table fills an array of one block with every block of every    *)
(* copy of the table; a cluster buffer is one block as well.               *)
TableFits == vol.num_fats * vol.fat_size = 1
ClusterFits == vol.spc = 1

is_cluster_free(c) == table[c] = 0
FreeClusters == {c \in 2 .. (vol.total \div vol.spc) - 1 : is_cluster_free(c)}
find_free_cluster_Last ==
  IF FreeClusters = {} THEN 2 ELSE CHOOSE c \in FreeClusters : \A x \in FreeClusters : c >= x
find_free_cluster ==
  IF FreeClusters = {} THEN 0 ELSE CHOOSE c \in FreeClusters : \A x \in FreeClusters : c <= x

-----------------------------------------------------------------------------
(* write_file looks for an entry of size 0, but stores at file_count.      *)
HasFreeEntry(d) == \E i \in 0 .. MaxFiles - 1 : d.files[i].size = 0

write_cluster(c, text, d) ==
  LET b == get_cluster_address(c, d)
  IN /\ OnDisk(b)
     /\ blocks' = [blocks EXCEPT ![b] = text]
     /\ UNCHANGED <<vol, table>>

(* strncpy copies at most a block of the content into the block's buffer;  *)
(* behind a shorter one it writes one zero more than there is room for.    *)
strncpy(content) == IF content.size > BLOCK_SIZE THEN [content EXCEPT !.size = BLOCK_SIZE] ELSE content
Spills(content) == content.size < BLOCK_SIZE

write_file(n, name, content) ==
  LET d == drives[n]
      c == find_free_cluster
  IN /\ Alive /\ HasFreeEntry(d) /\ d.is_mounted /\ TableFits /\ ClusterFits
     /\ write_cluster(c, strncpy(content), d)
     /\ job' = [drive |-> n, entry |-> [name |-> name, size |-> content.size, start |-> c]]
     /\ shown' = NothingShown
     /\ UNCHANGED <<drives, first, dead, crashes>>

update_fat_entry_Itself(c) == table' = [table EXCEPT ![c] = c]
update_fat_entry_Skipped(c) == UNCHANGED table
update_fat_entry(c) == table' = [table EXCEPT ![c] = EOF]
FileSlot_Found(d) == CHOOSE i \in 0 .. MaxFiles - 1 : d.files[i].size = 0
FileSlot(d) == d.file_count
write_file_entry ==
  LET n == job.drive
      d == drives[n]
  IN /\ dead = "no" /\ job # NoJob
     /\ update_fat_entry(job.entry.start)
     /\ IF d.file_count < MaxFiles
          THEN /\ drives' = [drives EXCEPT ![n].files[FileSlot(d)] = job.entry,
                                           ![n].file_count = @ + 1]
               /\ first' = IF first[n][job.entry.name] # Blank THEN first
                           ELSE [first EXCEPT ![n][job.entry.name] =
                                   blocks[get_cluster_address(job.entry.start, d)]]
               /\ UNCHANGED dead
          ELSE dead' = "files" /\ UNCHANGED <<drives, first>>
     /\ job' = NoJob
     /\ UNCHANGED <<vol, blocks, shown, crashes>>

write_file_dies(n, content) ==
  LET d == drives[n]
  IN /\ Alive /\ HasFreeEntry(d)
     /\ \/ ~d.is_mounted /\ Dies("fault")      \* no sectors per cluster: 0 / 0
        \/ d.is_mounted /\ (~(TableFits /\ ClusterFits) \/ Spills(content)) /\ Dies("overrun")
        \/ /\ d.is_mounted /\ TableFits /\ ClusterFits
           /\ ~OnDisk(get_cluster_address(find_free_cluster, d)) /\ Dies("hung")

(* The first entry with the name, and one block of its cluster; nothing of *)
(* a drive that is not mounted, which has no sectors per cluster.  A block *)
(* that is full has no end mark: printing goes on behind it until it meets *)
(* a zero, which may be at once.                                           *)
Match_Last(d, name) ==
  {i \in 0 .. d.file_count - 1 : i < MaxFiles /\ d.files[i].name = name
     /\ \A j \in i + 1 .. d.file_count - 1 : d.files[j].name # name}
Match(d, name) ==
  {i \in 0 .. d.file_count - 1 : i < MaxFiles /\ d.files[i].name = name
     /\ \A j \in 0 .. i - 1 : d.files[j].name # name}
read_file(n, name) ==
  /\ Alive
  /\ \E i \in Match(drives[n], name) :
       LET d == drives[n]
           c == d.files[i].start
           b == get_cluster_address(c, d)
       IN \/ /\ ~d.is_mounted /\ shown' = NothingShown
             /\ UNCHANGED <<disk, drives, job, first, dead, crashes>>
          \/ /\ d.is_mounted /\ ClusterFits /\ OnDisk(b)
             /\ shown' = [drive |-> n, name |-> name, start |-> c, block |-> blocks[b]]
             /\ UNCHANGED <<disk, drives, job, first, dead, crashes>>
          \/ /\ d.is_mounted /\ ClusterFits /\ OnDisk(b)
             /\ blocks[b].size = BLOCK_SIZE /\ Dies("overread")

(* read_root_directory adds an entry of which it has set one character,    *)
(* and then reads whole clusters over a local variable of 40 bytes, unless *)
(* the drive is not mounted and its clusters have no sectors.              *)
read_root_directory(n) ==
  LET d == drives[n]
  IN /\ Alive
     /\ \/ d.file_count = MaxFiles /\ Dies("files")
        \/ d.file_count < MaxFiles /\ d.is_mounted /\ Dies("overrun")
        \/ /\ d.file_count < MaxFiles /\ ~d.is_mounted
           /\ \E test \in Unset :
                drives' = [drives EXCEPT ![n].files[d.file_count] = test, ![n].file_count = @ + 1]
           /\ shown' = NothingShown
           /\ UNCHANGED <<disk, job, first, dead, crashes>>

-----------------------------------------------------------------------------
Forgotten == [n \in DriveNos |-> [x \in Names |-> Blank]]
Init ==
  /\ vol \in Volumes
  /\ table = [c \in 0 .. TableLen - 1 |-> IF c < 3 THEN EOF ELSE 0]
  /\ blocks = [b \in 0 .. vol.disk - 1 |-> Blank]
  /\ drives = [n \in DriveNos |-> NotMounted] /\ job = NoJob
  /\ shown = NothingShown /\ first = Forgotten
  /\ dead = "no" /\ crashes = 0

(* The machine restarts, by itself or because somebody pulls the plug.     *)
Restart ==
  /\ crashes < MaxCrashes /\ crashes' = crashes + 1
  /\ drives' = [n \in DriveNos |-> NotMounted] /\ job' = NoJob
  /\ shown' = NothingShown /\ first' = Forgotten /\ dead' = "no"
  /\ UNCHANGED disk

Next ==
  \/ \E n \in 0 .. MaxDrives : mount_drive(n)
  \/ \E n \in DriveNos, x \in Names, c \in Contents : write_file(n, x, c)
  \/ write_file_entry
  \/ \E n \in DriveNos, c \in Contents : write_file_dies(n, c)
  \/ \E n \in DriveNos, x \in Names : read_file(n, x)
  \/ \E n \in DriveNos : read_root_directory(n)
  \/ Restart
Spec == Init /\ [][Next]_vars
-----------------------------------------------------------------------------
(* Counts and clusters stay in the ranges of the arrays they index.        *)
TypeOK ==
  /\ \A n \in DriveNos : drives[n].file_count \in 0 .. MaxFiles
  /\ table \in [0 .. TableLen - 1 -> {0, EOF}]
  /\ blocks \in [0 .. vol.disk - 1 -> {strncpy(c) : c \in Contents} \cup {Blank}]
  /\ dead \in {"no", "fault", "hung", "overrun", "overread", "files"}

(* read_file prints what the first write_file under the name was given,    *)
(* whatever was written since, through either drive number; unless the     *)
(* volume was full, when find_free_cluster's 0 is used as a cluster.       *)
ReadsFirstWritten ==
  shown # NothingShown /\ shown.start # 0 => shown.block = first[shown.drive][shown.name]

(* No two entries, of one mounted drive or of two, have the same cluster,  *)
(* and the table marks every cluster of an entry.                          *)
Start(e) == drives[e[1]].files[e[2]].start
Held == {e \in DriveNos \X (0 .. MaxFiles - 1) :
           drives[e[1]].is_mounted /\ e[2] < drives[e[1]].file_count /\ Start(e) # 0}
ClustersOwned ==
  /\ \A e, f \in Held : e # f => Start(e) # Start(f)
  /\ \A e \in Held : table[Start(e)] = EOF

(* The entry of a file stays where it is as long as its drive is mounted:  *)
(* write_file looks for an entry of size 0 ("Assuming size 0 means free"), *)
(* which is also what an empty file has, but stores at file_count.         *)
EntryKept ==
  \A n \in DriveNos : drives[n].is_mounted /\ drives'[n].is_mounted =>
    \A i \in 0 .. drives[n].file_count - 1 : drives'[n].files[i] = drives[n].files[i]
EntriesStay == [][EntryKept]_vars

(* A cluster the table marks is never written again, not even after a      *)
(* restart that has lost the directory; and nothing in front of the data   *)
(* area is, while there is a free cluster.                                 *)
MarkedKept ==
  \A n \in DriveNos : drives[n].is_mounted =>
    /\ \A c \in 2 .. vol.total - 1 :
         LET b == get_cluster_address(c, drives[n])
         IN table[c] = EOF /\ OnDisk(b) => blocks'[b] = blocks[b]
    /\ FreeClusters # {} => \A b \in 0 .. vol.disk - 1 :
         b < drives[n].data_start => blocks'[b] = blocks[b]
MarkedDataKept == [][MarkedKept]_vars
=============================================================================
