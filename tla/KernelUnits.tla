----------------------------- MODULE KernelUnits -----------------------------
(***************************************************************************)
(* The units of the kernel that keep no state between calls, each asked    *)
(* with inputs of its own and compared with what its callers rely on,      *)
(* beside six small machines: the serial console, the task switch, the     *)
(* cursor and speaker ports, the entry code, the clock and the file store. *)
(* A behaviour is about one unit; `in' is the call that is made.           *)
(***************************************************************************)
EXTENDS FatNames, FatListing, FatGeometry, CLibrary, Display, KernelNet,
        HeaderMacros, SerialConsole, TaskSwitch, VideoPorts, KernelEntry

CONSTANTS
  NameInputs, ListInputs, VolumeInputs, MoveInputs, StringInputs, FormatInputs,
  NumberInputs, PageInputs, DrawInputs, PacketInputs, CardInputs, WordInputs,
  StatusInputs, UnitInputs

(* The constants and variables of Rtc and of FileStore.                    *)
CONSTANTS
  First, Count, Times, Formats, QuietReads, CURRENT_YEAR,
  MaxFiles, MaxDrives, BLOCK_SIZE, TableLen, Volumes, Names, Contents, Unset, MaxCrashes

VARIABLES
  clock, phase, quiet, format, rtcPc, pass, field, cur, last, shownNow, shownBefore,
  boot, table, blocks, drives, job, printed, first, dead, crashes

clockVars == <<clock, phase, quiet, format, rtcPc, pass, field, cur, last, shownNow, shownBefore>>
storeVars == <<boot, table, blocks, drives, job, printed, first, dead, crashes>>

Clock == INSTANCE Rtc
  WITH pc <- rtcPc, i <- field, seen <- shownNow, before <- shownBefore
Store == INSTANCE FileStore WITH vol <- boot, shown <- printed

VARIABLES unit, in

vars == <<unit, in, serialVars, taskVars, portVars, entryVars, clockVars, storeVars>>

Idle == <<>>
Units == {"names", "listing", "volume", "move", "strings", "format", "number", "page",
          "draw", "packet", "card", "word", "status", "units", "serial", "tasks", "ports",
          "entry", "clock", "store"}

(* The machines a behaviour is not about stay as they are.                 *)
ClockOff ==
  /\ clock = 0 /\ phase = "off" /\ quiet = 0 /\ format = "off" /\ rtcPc = "off" /\ pass = 0
  /\ field = 0 /\ cur = 0 /\ last = 0 /\ shownNow = {} /\ shownBefore = {}
StoreOff ==
  /\ boot = 0 /\ table = 0 /\ blocks = 0 /\ drives = 0 /\ job = 0
  /\ printed = 0 /\ first = 0 /\ dead = "off" /\ crashes = 0

Init ==
  /\ unit \in Units
  /\ in = Idle
  /\ SerialInit /\ (unit # "serial" => dev = "8250" /\ ~echo)
  /\ TaskInit
  /\ PortInit /\ (unit # "ports" => crt = CHOOSE r \in Firmware : TRUE)
  /\ EntryInit /\ (unit # "entry" => stack = 0)
  /\ IF unit = "clock" THEN Clock!Init ELSE ClockOff
  /\ IF unit = "store" THEN Store!Init ELSE StoreOff

Ask(u, inputs) ==
  /\ unit = u /\ in = Idle
  /\ in' \in inputs
  /\ UNCHANGED <<unit, serialVars, taskVars, portVars, entryVars, clockVars, storeVars>>

Console(A) ==
  unit = "serial" /\ A /\ UNCHANGED <<unit, in, taskVars, portVars, entryVars, clockVars, storeVars>>
ReadClock(A) ==
  unit = "clock" /\ A /\ UNCHANGED <<unit, in, serialVars, taskVars, portVars, entryVars, storeVars>>

Next ==
  \/ Ask("names", NameInputs)
  \/ Ask("listing", ListInputs)
  \/ Ask("volume", VolumeInputs)
  \/ Ask("move", MoveInputs)
  \/ Ask("strings", StringInputs)
  \/ Ask("format", FormatInputs)
  \/ Ask("number", NumberInputs)
  \/ Ask("page", PageInputs)
  \/ Ask("draw", DrawInputs)
  \/ Ask("packet", PacketInputs)
  \/ Ask("card", CardInputs)
  \/ Ask("word", WordInputs)
  \/ Ask("status", StatusInputs)
  \/ Ask("units", UnitInputs)
  \/ Console(SerialNext)
  \/ ReadClock(Clock!Next)
  \/ unit = "tasks" /\ TaskNext
     /\ UNCHANGED <<unit, in, serialVars, portVars, entryVars, clockVars, storeVars>>
  \/ unit = "ports" /\ PortNext
     /\ UNCHANGED <<unit, in, serialVars, taskVars, entryVars, clockVars, storeVars>>
  \/ unit = "entry" /\ EntryNext
     /\ UNCHANGED <<unit, in, serialVars, taskVars, portVars, clockVars, storeVars>>
  \/ unit = "store" /\ Store!Next
     /\ UNCHANGED <<unit, in, serialVars, taskVars, portVars, entryVars, clockVars>>

(* The processor goes on polling, the serial device sends what it holds,   *)
(* and the clock ends an update it began.                                  *)
Fairness ==
  /\ WF_vars(Console(SerialStep)) /\ WF_vars(Console(Transmit))
  /\ WF_vars(ReadClock(Clock!Kernel))
  /\ WF_vars(ReadClock(Clock!StartUpdate)) /\ WF_vars(ReadClock(Clock!EndUpdate))
Spec == Init /\ [][Next]_vars /\ Fairness

Asked(u) == unit = u /\ in # Idle

-----------------------------------------------------------------------------
(* 8.3 names.  An input has a base, an extension, whether a dot was typed, *)
(* and the byte the stack held where an output buffer lies.                *)
Buffer(s) == [i \in 0 .. Len(s) - 1 |-> s[i + 1]]
Capital(c) == IF c \in Lower THEN c - 32 ELSE c
Fcb(base, ext) ==
  [i \in 0 .. FcbLen - 1 |->
     CASE i < Len(base) -> Capital(base[i + 1])
       [] i \in 8 .. 7 + Len(ext) -> Capital(ext[i - 7])
       [] OTHER -> SPACE]

(* directorySearch looks for the padded capital form of every name typed   *)
(* with at most eight characters, a dot and at most three more, in letters *)
(* of either size.                                                         *)
TypedNameMatches ==
  Asked("names") =>
    LET given == Buffer(in.base \o (IF in.dot THEN <<DOT>> ELSE <<>>) \o in.ext)
    IN \A name \in {given, lowercase_str(given)} :
         SameName(searchName(name), Fcb(in.base, in.ext))

(* putFile searches for the file it has just added under the name          *)
(* convertFromFATFormat makes of the entry's: it finds that entry, with an *)
(* extension of no or three characters or when the byte left unwritten     *)
(* holds NUL or a blank.                                                   *)
StoredNameFound ==
  Asked("names") =>
    LET f == Fcb(in.base, in.ext)
        old == [i \in 0 .. BufferLen - 1 |-> in.old]
    IN testIfFATFormat(f) = {} /\ (Len(in.ext) \in {0, 3} \/ in.old \in {NUL, SPACE})
         => SameName(searchName(convertFromFATFormat(f, old)), f)

(* ChkSum differs for two names that differ in one byte, so that a long    *)
(* entry is never taken for that of the other.                             *)
ChkSumTellsApart ==
  Asked("names") =>
    LET f == Fcb(in.base, in.ext)
    IN \A i \in 0 .. FcbLen - 1, d \in {1, 32, 128} :
         ChkSum([f EXCEPT ![i] = (@ + d) % 256]) # ChkSum(f)

-----------------------------------------------------------------------------
(* Directory listings.  An input has the kinds of the entries of clusters  *)
(* 2 and 3 and of what lies behind them in memory, what follows cluster 2, *)
(* and the caller's arguments.                                             *)
EntryOf(kind, id) ==
  [kind |-> IF kind \in {"end", "free", "dots"} THEN kind ELSE "name",
   attributes |-> CASE kind = "long" -> FILE_LONG_NAME [] kind = "hidden" -> {"HIDDEN"}
                    [] kind = "dir" -> {"DIRECTORY"} [] kind = "file" -> {"ARCHIVE"}
                    [] OTHER -> {},
   id |-> id]
EntriesOf(c, kinds) == [i \in DOMAIN kinds |-> EntryOf(kinds[i], <<c, i>>)]
VolumeOf(inp) ==
  [entries |-> [c \in 2 .. 3 |-> EntriesOf(c, inp.kinds[c - 1])],
   next |-> [c \in 2 .. 3 |-> IF c = 2 THEN inp.next ELSE END_CLUSTER],
   readable |-> [c \in 2 .. 3 |-> c = 2 \/ inp.readable],
   behind |-> EntriesOf(0, <<"file", "hidden", "end">>)]

(* directoryList prints the entries in front of the end marker that the    *)
(* caller asked for, each once and in the order of the directory, over all *)
(* its clusters, provided that no cluster is filled up to its last place   *)
(* by an entry that is printed; with a cluster or table it cannot read, it *)
(* prints a beginning of that.                                             *)
ListsTheDirectory ==
  Asked("listing") =>
    LET vol == VolumeOf(in)
        wanted == IF in.exclusive THEN in.add
                  ELSE {"READ_ONLY", "VOLUME_ID", "DIRECTORY", "ARCHIVE"} \cup in.add
        chain == vol.entries[2] \o (IF in.next = 3 THEN vol.entries[3] ELSE <<>>)
        ends == {i \in DOMAIN chain : chain[i].kind = "end"}
        shown(e) == \/ e.kind = "dots"
                    \/ /\ e.kind = "name" /\ e.attributes # FILE_LONG_NAME
                       /\ e.attributes \subseteq wanted
        ahead == SubSeq(chain, 1, IF ends = {} THEN Len(chain) ELSE Min(ends) - 1)
        seen == SelectSeq(ahead, shown)
        full == {i \in DOMAIN ahead : i % Len(vol.entries[2]) = 0 /\ shown(ahead[i])}
        ids == [i \in DOMAIN seen |-> seen[i].id]
        r == directoryList(vol, 2, in.add, in.exclusive)
    IN full = {} => /\ IsPrefix(r.listed, ids)
                    /\ in.next \in {3, END_CLUSTER} /\ in.readable =>
                         r = [code |-> 0, listed |-> ids]

-----------------------------------------------------------------------------
(* Volumes.  An input is a formatted volume: its type, the number n of its *)
(* data clusters, and the numbers its boot sector holds.                   *)
CeilDiv(a, b) == (a + b - 1) \div b
TableSize(v) == CeilDiv((v.n + 2) * (IF v.type = 32 THEN 4 ELSE 2), 512)
RootSectors(v) == IF v.type = 32 THEN 0 ELSE CeilDiv(v.roots * 32, 512)
Ahead(v) == v.reserved + v.tables * TableSize(v) + RootSectors(v)
Sectors(v) == Ahead(v) + v.n * v.spc

(* The boot sector of such a volume, by the offsets of the FAT format.     *)
LittleEndian(start, width, value) ==
  [k \in start .. start + width - 1 |-> (value \div 256 ^ (k - start)) % 256]
BootSector(v) ==
  LET short == v.type = 16 /\ Sectors(v) < 65536
  IN LittleEndian(11, 2, 512) @@ LittleEndian(13, 1, v.spc) @@ LittleEndian(14, 2, v.reserved)
     @@ LittleEndian(16, 1, v.tables) @@ LittleEndian(17, 2, IF v.type = 32 THEN 0 ELSE v.roots)
     @@ LittleEndian(19, 2, IF short THEN Sectors(v) ELSE 0)
     @@ LittleEndian(22, 2, IF v.type = 32 THEN 0 ELSE TableSize(v))
     @@ LittleEndian(32, 4, IF short THEN 0 ELSE Sectors(v))
     @@ (IF v.type = 32 THEN LittleEndian(36, 4, TableSize(v)) @@ LittleEndian(44, 4, 2) ELSE <<>>)

(* FATInitialize recognises the type of the volume and puts the data area  *)
(* right behind tables and root directory; on FAT32 every data cluster is  *)
(* a valid cluster number and lies inside the volume.  The sectors in      *)
(* front count as clusters: a FAT16 volume within that distance of the     *)
(* FAT32 limit is taken for FAT32.                                         *)
VolumeRecognised ==
  Asked("volume") =>
    LET fs == FATInitialize(BootSector(in), TRUE)
        final == in.n + 1
    IN /\ in.type = 16 /\ in.n + Ahead(in) \div in.spc < 65525 =>
            fs.fat_type = 16 /\ fs.first_data_sector = Ahead(in)
       /\ in.type = 32 =>
            /\ fs.fat_type = 32 /\ fs.first_data_sector = Ahead(in) /\ fs.root_cluster = 2
            /\ final < fs.total_clusters
            /\ SectorOf(fs, final) + in.spc = Sectors(in)

(* What FATWrite stored for a cluster FATRead returns, and no other        *)
(* cluster's entry changes, wherever one sector of the table holds the     *)
(* entry; with one sector per cluster the entry lies where the format puts *)
(* it, inside the first table.                                             *)
EntriesKeptApart ==
  Asked("volume") /\ FATInitialize(BootSector(in), TRUE).fat_type = in.type =>
    LET fs == FATInitialize(BootSector(in), TRUE)
        width == IF in.type = 32 THEN 4 ELSE 2
        some == {2, 3, 127, 128, 129, 256, 257, 511, 512, 1024, in.n, in.n + 1}
        empty == <<>>
    IN \A c \in some, d \in some :
         c < fs.total_clusters /\ d < fs.total_clusters
           /\ Transferred(fs, EntryPlace(fs, c)) /\ Transferred(fs, EntryPlace(fs, d)) =>
           LET w == FATWrite(fs, FATWrite(fs, empty, d, 7, TRUE).table, c, 65528, TRUE)
           IN /\ w.code = 0
              /\ FATRead(fs, w.table, c, TRUE, 0) = 65528
              /\ c # d => FATRead(fs, w.table, d, TRUE, 0) = 7
              /\ in.spc = 1 =>
                   /\ EntryPlace(fs, c) =
                        <<in.reserved + (c * width) \div 512, (c * width) % 512>>
                   /\ EntryPlace(fs, c)[1] < in.reserved + TableSize(in)

(* The packed structures of FAT.h have the sizes of what they are read     *)
(* from: a boot sector's head with either extension, entries of 32 bytes,  *)
(* an information sector.                                                  *)
StructsAsOnDisk ==
  Asked("volume") =>
    /\ SizeOf(fat_BS) = 36 + SizeOf(fat_extBS_32)
    /\ SizeOf(fat_extBS_16) = 62 - 36
    /\ SizeOf(directory_entry) = 32 /\ SizeOf(long_entry) = 32
    /\ OffsetOf(directory_entry, "attributes") = OffsetOf(long_entry, "attributes")
    /\ SizeOf(fsInfo) = 512

-----------------------------------------------------------------------------
(* memmove copies as if the source were read before anything is written,   *)
(* for every overlap, and touches nothing else; memcpy does where the      *)
(* areas do not overlap.                                                   *)
MovesWhole ==
  Asked("move") =>
    LET area == [a \in 0 .. 9 |-> a + 1]
        whole == [a \in 0 .. 9 |-> IF a \in in.dst .. in.dst + in.size - 1
                                    THEN area[in.src + a - in.dst] ELSE area[a]]
    IN /\ memmove(area, in.dst, in.src, in.size) = whole
       /\ in.dst + in.size <= in.src \/ in.src + in.size <= in.dst =>
            memcpy(area, in.dst, in.src, in.size) = whole

(* Two strings in memory, one at 0 and one at 10, each with other bytes    *)
(* behind its NUL, and a third area at 20 full of 9s.                      *)
Memory(a, b) ==
  [i \in 0 .. 29 |-> CASE i < Len(a) -> a[i + 1]
                       [] i - 10 \in 0 .. Len(b) - 1 -> b[i - 9]
                       [] i \in {Len(a), 10 + Len(b)} -> 0
                       [] i > Len(a) /\ i < 10 -> 7
                       [] i > 10 + Len(b) /\ i < 20 -> 8
                       [] OTHER -> 9]
Sign(n) == IF n < 0 THEN -1 ELSE IF n > 0 THEN 1 ELSE 0
Common(a, b) ==
  Max({k \in 0 .. Min({Len(a), Len(b)}) : SubSeq(a, 1, k) = SubSeq(b, 1, k)})
Order(a, b) ==
  LET k == Common(a, b)
  IN CASE k = Len(a) /\ k = Len(b) -> 0 [] k = Len(a) /\ k < Len(b) -> -1
       [] k < Len(a) /\ k = Len(b) -> 1 [] OTHER -> Sign(a[k + 1] - b[k + 1])
Cut(s, n) == SubSeq(s, 1, Min({n, Len(s)}))

(* strcmp, the two strncmp and memcmp all order strings as dictionaries    *)
(* do, the bounded ones by their first n characters: the shell, the driver *)
(* and libc agree on which names are equal although each has its own.      *)
(* strchr finds the first place of a character.                            *)
ComparisonsAgree ==
  Asked("strings") =>
    LET area == Memory(in.a, in.b)
    IN /\ Sign(strcmp(area, 0, 10)) = Order(in.a, in.b)
       /\ Sign(tty_strncmp(area, 0, 10, in.n)) = Order(Cut(in.a, in.n), Cut(in.b, in.n))
       /\ strncmp(area, 0, 10, in.n) = Order(Cut(in.a, in.n), Cut(in.b, in.n))
       /\ memcmp(area, 0, 10, Min({Len(in.a), Len(in.b)}) + 1) = Order(in.a, in.b)
       /\ \A c \in {97, 98} :
            strchr(area, 0, c) = IF c \in Range(in.a) THEN Min({i \in DOMAIN in.a : in.a[i] = c}) - 1
                                 ELSE -1

(* strcpy and strncpy leave the string, cut to n characters by strncpy and *)
(* filled up with NULs, at the destination, and nothing behind changes but *)
(* for the one byte more that strncpy clears when it has met the NUL.      *)
CopiesTheString ==
  Asked("strings") =>
    LET area == Memory(in.a, in.b)
        copy == strcpy(area, 20, 0)
        cut == strncpy(area, 20, 0, in.n)
        more == IF Len(in.a) < in.n THEN 1 ELSE 0
    IN /\ strlen(copy, 20) = Len(in.a) /\ strcmp(copy, 20, 0) = 0
       /\ \A i \in 0 .. 29 : i \notin 20 .. 20 + Len(in.a) => copy[i] = area[i]
       /\ \A k \in 0 .. in.n - 1 : cut[20 + k] = IF k < Len(in.a) THEN area[k] ELSE 0
       /\ \A i \in 0 .. 29 : i \notin 20 .. 20 + in.n + more - 1 => cut[i] = area[i]

-----------------------------------------------------------------------------
(* What a format stands for, character by character.                       *)
RECURSIVE Expand(_, _)
Expand(f, args) ==
  IF f = <<>> THEN <<>>
  ELSE IF f[1] # PERCENT THEN <<f[1]>> \o Expand(Tail(f), args)
  ELSE IF Len(f) = 1 \/ f[2] \notin {PERCENT, 99, 110, 115} THEN f
  ELSE CASE f[2] = PERCENT -> <<PERCENT>> \o Expand(From(f, 3), args)
         [] f[2] = 110 -> <<LF>> \o Expand(From(f, 3), args)
         [] f[2] = 99 -> <<args[1][1]>> \o Expand(From(f, 3), Tail(args))
         [] OTHER -> args[1] \o Expand(From(f, 3), Tail(args))

(* printf prints what the format stands for and returns its length,        *)
(* whenever that fits an int; when it refuses, the output did not fit and  *)
(* what it has printed is a beginning of it.  puts prints a string as it   *)
(* is, percent signs included.                                             *)
PrintfWhole ==
  Asked("format") =>
    LET p == printf(in.fmt, in.args, in.max)
        text == Expand(in.fmt, in.args)
    IN /\ Len(text) <= in.max => p.code = Len(text) /\ p.out = text
       /\ p.code = -1 => Len(text) > in.max /\ IsPrefix(p.out, text)
       /\ puts(in.fmt, 1000).out = Append(in.fmt, LF)

(* The serial _printf and the terminal's printf print the same text for a  *)
(* format of plain characters and %s, the only ones both know.             *)
PrintfsAgree ==
  Asked("format") =>
    LET marks == {i \in DOMAIN in.fmt : in.fmt[i] = PERCENT}
    IN (\A i \in marks : i < Len(in.fmt) /\ in.fmt[i + 1] = 115)
         => lib_printf(in.fmt, in.args) = printf(in.fmt, in.args, 1000).out

(* The digits _printInt sends for a positive number are that number, most  *)
(* significant first, without a leading zero.                              *)
PrintIntReadsBack ==
  Asked("number") =>
    LET text == printInt(in.val, in.base)
        digit(c) == IF c < 65 THEN c - 48 ELSE c - 55
    IN in.val > 0 => /\ text[1] # 48
                     /\ FoldLeft(LAMBDA v, c : v * in.base + digit(c), 0, text) = in.val

-----------------------------------------------------------------------------
(* Once enable_paging has run, the first 4 MB lie where they lay before,   *)
(* the frame buffer among them, and every other address faults: the kernel *)
(* that switches paging on goes on at the address it was at.               *)
PagingKeepsAddresses ==
  Asked("page") =>
    /\ Translate(setup_paging(1069056), 1069056, in.page, in.offset)
      = IF in.page < 1024 THEN in.page * PAGE_SIZE + in.offset ELSE -1
    /\ \A p \in {(FRAMEBUFFER_ADDRESS + o) \div PAGE_SIZE : o \in setup_framebuffer} : p < 1024

(* draw_box colours exactly the pixels of the box's outline, on a screen   *)
(* 800 wide, and a text cell keeps its character and both its colours      *)
(* apart.  Of draw_string only this is claimed: it writes nowhere but in   *)
(* the bytes setup_framebuffer has cleared, wherever on the screen it      *)
(* starts.  Where in there is not: draw_char (tty.c, behind "Draw the      *)
(* character on the screen") adds x and y without the width of a line, so  *)
(* that the eight rows of a character fall on one line of the screen.      *)
DrawsInPlace ==
  Asked("draw") =>
    /\ draw_box(in.x1, in.y1, in.x2, in.y2) =
         {y * 800 + x : <<x, y>> \in
            {<<x, y>> \in (in.x1 .. in.x2) \X (in.y1 .. in.y2) :
               x \in {in.x1, in.x2} \/ y \in {in.y1, in.y2}}}
    /\ \A x \in {in.x1, in.x2}, y \in {in.y1, in.y2, 599} :
         draw_string(x, y, in.str) \subseteq setup_framebuffer
    /\ \A c \in Range(in.str), fg \in 0 .. 15, bg \in {0, 4, 15} :
         LET cell == vga_entry(c, vga_entry_color(fg, bg))
         IN <<cell % 256, (cell \div 256) % 16, cell \div 4096>> = <<c, fg, bg>>

-----------------------------------------------------------------------------
(* A receiver that adds up a packet with its checksum in place gets no     *)
(* remainder, whatever the carries: checksum over checksum and data is 0,  *)
(* with a last odd byte as well.                                           *)
ChecksumVerifies ==
  Asked("packet") => checksum(Bytes16(checksum(in.data)) \o in.data) = 0

(* The echo request of send_ping: both headers verify, the length field    *)
(* counts the bytes network_send writes, and the destination is the one    *)
(* asked for, most significant byte first.  All that holds only with       *)
(* paging off: once setup_paging has run, the printf in front of the       *)
(* sending faults and nothing is sent.                                     *)
PingVerifies ==
  Asked("packet") =>
    LET dest == SubSeq(in.data, 1, 4)
        sent(readable) == [i \in DOMAIN send_ping(dest, readable) |-> send_ping(dest, readable)[i][2]]
        packet == Front(sent(TRUE))
        paged == Translate(setup_paging(1069056), 1069056,
                           PrintfAddress \div PAGE_SIZE, PrintfAddress % PAGE_SIZE)
    IN /\ checksum(SubSeq(packet, 1, ip_header_size)) = 0
       /\ checksum(SubSeq(packet, ip_header_size + 1, Len(packet))) = 0
       /\ packet[3] * 256 + packet[4] = Len(packet)
       /\ SubSeq(packet, 17, 20) = <<dest[4], dest[3], dest[2], dest[1]>>
       /\ sent(paged # -1) = <<>>

(* network_receive fills at most the buffer and leaves what lies behind    *)
(* the packet; a reply long enough to hold its type and code decides       *)
(* receive_ping whatever the buffer held.                                  *)
ReceivesWithinBuffer ==
  Asked("card") =>
    LET stale == [i \in 1 .. 24 |-> in.stale]
        r == network_receive(in.card, stale)
    IN /\ r.len <= 24 /\ Len(r.buffer) = 24
       /\ \A i \in r.len + 1 .. 24 : r.buffer[i] = in.stale
       /\ r.len >= 22 =>
            (receive_ping(in.card, stale) <=> in.card.data[21] = 0 /\ in.card.data[22] = 0)

-----------------------------------------------------------------------------
(* Decoding what was encoded gives the word back in both byte orders and   *)
(* for all three widths, and one order is the other read backwards.        *)
StreamsRoundTrip ==
  Asked("word") =>
    LET u2 == SubSeq(in.bytes, 1, 2)
        u4 == SubSeq(in.bytes, 1, 4)
        u8 == in.bytes
    IN /\ be16dec(be16enc(u2)) = u2 /\ le16dec(le16enc(u2)) = u2
       /\ be32dec(be32enc(u4)) = u4 /\ le32dec(le32enc(u4)) = u4
       /\ be64dec(be64enc(u8)) = u8 /\ le64dec(le64enc(u8)) = u8
       /\ be16enc(u2) = Reverse(le16enc(u2)) /\ be32enc(u4) = Reverse(le32enc(u4))
       /\ be64enc(u8) = Reverse(le64enc(u8))

(* The population counts are the number of one bits: no lane of the adding *)
(* in parallel runs over into the next.                                    *)
BitCountsBits ==
  Asked("word") =>
    LET ones == {i \in 0 .. 63 : (in.bytes[(i \div 8) + 1] \div 2 ^ (i % 8)) % 2 = 1}
    IN /\ bitcount16(ones \cap Bits(16)) = Cardinality(ones \cap Bits(16))
       /\ bitcount32(ones \cap Bits(32)) = Cardinality(ones \cap Bits(32))
       /\ bitcount64(ones) = Cardinality(ones)

(* major and minor give back both parts of a device number made with       *)
(* makedev, and a minor number below 256 stays in its old place.           *)
DeviceNumbersKept ==
  Asked("word") =>
    LET M == SubSeq(in.bytes, 1, 4)
        m == SubSeq(in.bytes, 5, 8)
    IN /\ major(makedev(M, m)) = M /\ minor(makedev(M, m)) = m
       /\ makedev(<<M[1], 0, 0, 0>>, <<m[1], 0, 0, 0>>) = <<m[1], M[1], 0, 0, 0, 0, 0, 0>>

(* Bytes, blocks and pages convert into each other without losing any:     *)
(* going through blocks or straight to pages gives the same count, that    *)
(* count holds the bytes and no page more, and the two ways to round (by   *)
(* mask, by division) agree.                                               *)
UnitsAgree ==
  Asked("units") =>
    LET x == in.bytes
    IN /\ ctob(btoc(x)) = round_page(x) /\ round_page(x) = roundup(x, 4096)
       /\ x <= ctob(btoc(x)) /\ ctob(btoc(x)) < x + 4096
       /\ dbtoc(howmany(x, 512)) = btoc(x) /\ ctodb(btoc(x)) = btodb(round_page(x))
       /\ dbtob(btodb(x)) = rounddown(x, 512) /\ trunc_page(x) = rounddown(x, 4096)

(* setbit and clrbit change what isset says of their bit and of no other,  *)
(* in a map of any content; every signal has a bit of the four words to    *)
(* itself.                                                                 *)
BitsKeptApart ==
  Asked("units") =>
    LET map == [k \in 0 .. 1 |-> in.map]
    IN /\ \A i, j \in 0 .. 15 :
            /\ isset(setbit(map, i), j) <=> (i = j \/ isset(map, j))
            /\ isset(clrbit(map, i), j) <=> (i # j /\ isset(map, j))
       /\ LET valid == {g \in -1 .. 130 : SIG_VALID(g)}
          IN {<<SIG_WORD(g), SIG_BIT(g)>> : g \in valid} = (0 .. 3) \X (0 .. 31)
             /\ Cardinality(valid) = 128

(* A status made with KW_EXITCODE or W_STOPCODE has one kind and gives its *)
(* number back; the one exception, a process ended by signal 19 without a  *)
(* core file, has the status of a continued one.                           *)
StatusHasOneKind ==
  Asked("status") =>
    LET x == IF in.how = "stop" THEN W_STOPCODE(in.sig)
             ELSE KW_EXITCODE(IF in.how = "exit" THEN in.ret ELSE 0,
                              IF in.how = "exit" THEN 0
                              ELSE in.sig + (IF in.how = "core" THEN 128 ELSE 0))
    IN /\ Cardinality({k \in 1 .. 4 : <<WIFEXITED(x), WIFSTOPPED(x), WIFSIGNALED(x),
                                         WIFCONTINUED(x)>>[k]}) = 1
       /\ in.how = "exit" => WIFEXITED(x) /\ WEXITSTATUS(x) = in.ret % 256
       /\ in.how = "stop" => WIFSTOPPED(x) /\ WSTOPSIG(x) = in.sig
       /\ in.how \in {"kill", "core"} /\ x # 19 =>
            WIFSIGNALED(x) /\ WTERMSIG(x) = in.sig /\ (WCOREDUMP(x) <=> in.how = "core")
-----------------------------------------------------------------------------
(* What each unit promises.  8.3 names: a typed name meets its entry, a    *)
(* stored name is found again, and ChkSum tells names apart.               *)
NamesKept == TypedNameMatches /\ StoredNameFound /\ ChkSumTellsApart

(* FATInitialize, FATRead and FATWrite use a volume as it was formatted:   *)
(* type and places, table entries, structures.                             *)
VolumeAsFormatted == VolumeRecognised /\ EntriesKeptApart /\ StructsAsOnDisk

(* The memory and string functions of libc and of tty.c move, compare and  *)
(* copy whole strings; but for strncpy's one byte, no other byte changes.  *)
StringsWhole == MovesWhole /\ ComparisonsAgree /\ CopiesTheString

(* printf, _printf, puts and _printInt print what they are given, all of   *)
(* it or a beginning with an error.                                        *)
PrintsWhole == PrintfWhole /\ PrintfsAgree /\ PrintIntReadsBack

(* setup_paging and the drawing functions: every address stays where it    *)
(* was, boxes and text cells are what the caller means, and characters     *)
(* drawn pixel by pixel stay in the frame buffer.                          *)
PixelsInPlace == PagingKeepsAddresses /\ DrawsInPlace

(* Packets that are sent verify, and packets that are received fit.        *)
PacketsVerify == ChecksumVerifies /\ PingVerifies /\ ReceivesWithinBuffer

(* The coding macros of libc/include lose nothing: byte orders, bit        *)
(* counts, device numbers, sizes, bit maps and wait statuses.              *)
CodesInvert ==
  /\ StreamsRoundTrip /\ BitCountsBits /\ DeviceNumbersKept
  /\ UnitsAgree /\ BitsKeptApart /\ StatusHasOneKind

(* The serial line: the other end receives what was meant for it, with     *)
(* every line ended by CR and LF.                                          *)
SerialLineWhole == LineShowsTheNumber /\ LinesEndWithCR

(* switchTask: every task has its registers back, and kept while it waits. *)
TasksKept == ResumesWhereItLeft /\ SavedWhileWaiting

(* boot.S: kernel_main is entered on its own stack and never left.         *)
EntrySafe == EnteredOnOwnStack /\ HaltedForGood

(* The cursor's registers, shared by five functions through one index      *)
(* register, hold between calls what the callers left there.               *)
PortsKept == unit = "ports" => CursorAsLeft

(* read_rtc: "read registers until you get the same values twice in a      *)
(* row".  However passes and updates interleave, it returns one time the   *)
(* clock showed, never parts of two.                                       *)
TimeDelivered == unit = "clock" => Clock!TimeDelivered

(* read_rtc returns although the clock never stops.                        *)
ReadEnds == unit = "clock" ~> rtcPc = "done"

(* The file store: counts and clusters stay in the ranges of the arrays    *)
(* they index.                                                             *)
StoreTypeOK == unit = "store" => Store!TypeOK

(* read_file prints what the first write_file under the name was given,    *)
(* whatever was written since, through either drive number; unless the     *)
(* volume was full, when find_free_cluster's 0 is used as a cluster.       *)
ReadsFirstWritten == unit = "store" => Store!ReadsFirstWritten

(* No two entries, of one mounted drive or of two, have the same cluster,  *)
(* and the table marks every cluster of an entry.                          *)
ClustersOwned == unit = "store" => Store!ClustersOwned

(* The entry write_file has filled in stays as it is as long as its drive  *)
(* is mounted, although an empty file's looks free to write_file.          *)
EntriesStay == [][unit = "store" => Store!EntryKept]_vars

(* A cluster the table marks is never written again, not even after a      *)
(* restart that has lost the directory; and nothing in front of the data   *)
(* area is, while there is a free cluster.                                 *)
MarkedDataKept == [][unit = "store" => Store!MarkedKept]_vars
=============================================================================
