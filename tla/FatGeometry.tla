----------------------------- MODULE FatGeometry -----------------------------
(***************************************************************************)
(* How kernel/arch/i386/FAT.c finds its way on a volume: the structures of *)
(* FAT.h that its sectors are read through, what FATInitialize computes    *)
(* from a boot sector, and where FATRead and FATWrite look for the table   *)
(* entry of a cluster on FAT32 and FAT16.                                  *)
(***************************************************************************)
EXTENDS Integers, Sequences, FiniteSets, FiniteSetsExt, SequencesExt

(* A packed structure is the sequence of its fields and their sizes.       *)
fat_extBS_32 ==
  << <<"table_size_32", 4>>, <<"extended_flags", 2>>, <<"fat_version", 2>>,
     <<"root_cluster", 4>>, <<"fat_info", 2>>, <<"backup_BS_sector", 2>>,
     <<"reserved_0", 12>>, <<"drive_number", 1>>, <<"reserved_1", 1>>,
     <<"boot_signature", 1>>, <<"volume_id", 4>>, <<"volume_label", 11>>,
     <<"fat_type_label", 8>> >>
fat_extBS_16 ==
  << <<"bios_drive_num", 1>>, <<"reserved1", 1>>, <<"boot_signature", 1>>,
     <<"volume_id", 4>>, <<"volume_label", 11>>, <<"fat_type_label", 8>> >>
fat_BS ==
  << <<"bootjmp", 3>>, <<"oem_name", 8>>, <<"bytes_per_sector", 2>>,
     <<"sectors_per_cluster", 1>>, <<"reserved_sector_count", 2>>, <<"table_count", 1>>,
     <<"root_entry_count", 2>>, <<"total_sectors_16", 2>>, <<"media_type", 1>>,
     <<"table_size_16", 2>>, <<"sectors_per_track", 2>>, <<"head_side_count", 2>>,
     <<"hidden_sector_count", 4>>, <<"total_sectors_32", 4>>, <<"extended_section", 54>> >>
directory_entry ==
  << <<"file_name", 11>>, <<"attributes", 1>>, <<"reserved0", 1>>,
     <<"creation_time_tenths", 1>>, <<"creation_time", 2>>, <<"creation_date", 2>>,
     <<"last_accessed", 2>>, <<"high_bits", 2>>, <<"last_modification_time", 2>>,
     <<"last_modification_date", 2>>, <<"low_bits", 2>>, <<"file_size", 4>> >>
fsInfo ==
  << <<"lead_signature", 4>>, <<"reserved1", 480>>, <<"structure_signature", 4>>,
     <<"free_space", 4>>, <<"last_written", 4>>, <<"reserved2", 12>>,
     <<"trail_signature", 4>> >>
long_entry ==
  << <<"order", 1>>, <<"first_five", 10>>, <<"attributes", 1>>, <<"type", 1>>,
     <<"checksum", 1>>, <<"next_six", 12>>, <<"zero", 2>>, <<"last_two", 4>> >>

SizeOf(struct) == FoldLeft(LAMBDA n, f : n + f[2], 0, struct)
OffsetOf(struct, field) ==
  LET k == CHOOSE k \in 1 .. Len(struct) : struct[k][1] = field
  IN SizeOf(SubSeq(struct, 1, k - 1))
WidthOf(struct, field) ==
  (CHOOSE f \in Range(struct) : f[1] = field)[2]

(* A little-endian number in a sector; bytes the sector's function leaves  *)
(* out are zero.                                                           *)
ByteAt(sector, i) == IF i \in DOMAIN sector THEN sector[i] ELSE 0
Number(sector, at, width) ==
  LET n[k \in 0 .. width] ==
        IF k = 0 THEN 0 ELSE n[k - 1] + ByteAt(sector, at + k - 1) * 256 ^ (k - 1)
  IN n[width]
BS(sector, field) == Number(sector, OffsetOf(fat_BS, field), WidthOf(fat_BS, field))
ExtBS32(sector, field) ==
  Number(sector, OffsetOf(fat_BS, "extended_section") + OffsetOf(fat_extBS_32, field),
         WidthOf(fat_extBS_32, field))

-----------------------------------------------------------------------------
(* FATInitialize: the globals it leaves, for a boot sector with sectors    *)
(* and clusters of some size; -1 when the drive does not read it (`ok').   *)
(* total_clusters counts the sectors in front of the data area as well.    *)
TotalClusters(sector) ==
  LET short == BS(sector, "total_sectors_16") \div BS(sector, "sectors_per_cluster")
  IN IF short # 0 THEN short
     ELSE BS(sector, "total_sectors_32") \div BS(sector, "sectors_per_cluster")

FatType(total) == CASE total < 4085 -> 12 [] total \in 4085 .. 65524 -> 16 [] OTHER -> 32

FirstDataSector(sector, type) ==
  LET bps == BS(sector, "bytes_per_sector")
      rootSectors == (BS(sector, "root_entry_count") * 32 + bps - 1) \div bps
  IN IF type = 32
     THEN BS(sector, "reserved_sector_count")
          + BS(sector, "table_count") * ExtBS32(sector, "table_size_32")
     ELSE BS(sector, "reserved_sector_count")
          + BS(sector, "table_count") * BS(sector, "table_size_16") + rootSectors

FATInitialize(sector, ok) ==
  LET total == TotalClusters(sector)
  IN IF ~ok THEN [code |-> -1]
     ELSE
     [code |-> 0, total_clusters |-> total,
      fat_type |-> FatType(total),
      first_data_sector |-> FirstDataSector(sector, FatType(total)),
      first_fat_sector |-> BS(sector, "reserved_sector_count"),
      bytes_per_sector |-> BS(sector, "bytes_per_sector"),
      sectors_per_cluster |-> BS(sector, "sectors_per_cluster"),
      root_cluster |-> ExtBS32(sector, "root_cluster")]

(* The first sector clusterRead and clusterWrite transfer.                 *)
SectorOf(fs, cluster) == (cluster - 2) * fs.sectors_per_cluster + fs.first_data_sector

-----------------------------------------------------------------------------
(* FATRead and FATWrite on either type.  `table' maps the places <<sector, *)
(* offset>> to the entries stored there, zero elsewhere; one sector is     *)
(* transferred, and `ok' tells whether the drive does it.  An offset past  *)
(* that sector indexes the rest of FAT_table, zero for FAT32 and whatever  *)
(* the stack held (`junk') for FAT16, and a write there stays in memory.   *)
(* With clusters of 64 kB an offset may pass FAT_table itself: FATRead     *)
(* returns what lies there, and a write there changes the caller's stack,  *)
(* after which nothing is known of the call: UNDEFINED.                    *)
FatTableBytes == 32 * 1024
UNDEFINED == -2
EntryWidth(fs) == IF fs.fat_type = 32 THEN 4 ELSE 2
InTable(fs, place) == place[2] + EntryWidth(fs) <= FatTableBytes
EntryPlace_Narrow(fs, cluster) ==
  LET offset == cluster * 2
      size == fs.bytes_per_sector * fs.sectors_per_cluster
  IN <<fs.first_fat_sector + offset \div size, offset % size>>
EntryPlace(fs, cluster) ==
  LET offset == cluster * EntryWidth(fs)
      size == fs.bytes_per_sector * fs.sectors_per_cluster
  IN <<fs.first_fat_sector + offset \div size, offset % size>>
Transferred(fs, place) == place[2] < fs.bytes_per_sector
Stored(table, place) == IF place \in DOMAIN table THEN table[place] ELSE 0
Refused(fs, cluster, ok) ==
  cluster < 2 \/ cluster >= fs.total_clusters \/ fs.fat_type \notin {16, 32} \/ ~ok

FATRead(fs, table, cluster, ok, junk) ==
  LET place == EntryPlace(fs, cluster)
  IN CASE Refused(fs, cluster, ok) -> -1
       [] ~Refused(fs, cluster, ok) /\ ~Transferred(fs, place) ->
            IF fs.fat_type = 32 /\ InTable(fs, place) THEN 0 ELSE junk
       [] OTHER -> Stored(table, place) % (IF fs.fat_type = 32 THEN 2 ^ 28 ELSE 2 ^ 16)

FATWrite(fs, table, cluster, value, ok) ==
  LET place == EntryPlace(fs, cluster)
      entry == IF fs.fat_type = 32 THEN value ELSE value % 2 ^ 16
  IN IF Refused(fs, cluster, ok) THEN [code |-> -1, table |-> table]
     ELSE [code |-> IF InTable(fs, place) THEN 0 ELSE UNDEFINED,
           table |-> IF Transferred(fs, place)
                     THEN [p \in DOMAIN table \cup {place} |->
                             IF p = place THEN entry ELSE table[p]]
                     ELSE table]
=============================================================================
