# PotatoOS: TLA+ models and proofs

PotatoOS is a small i386 kernel. It boots into a text console and a recovery
shell, and it carries a FAT32 driver. These files model the parts of it that have
state worth checking, check them with TLC on small instances and prove the
central invariants with TLAPS for every value of the constants.

Everything is translated from the code. File names are relative to
`src/kernel/arch/i386/`. `PROJECT.json` gives, for every definition, the lines it
models.

| Module | Models | Proofs |
|---|---|---|
| `FatVolume` | `FAT.c`: `putFile`, `getFile` and all they call | `FatVolumeProofs`, `FatChainProofs` |
| `BlockDevice` | what the FAT driver expects of a disk transfer | |
| `AtaPio` | `FAT.c`: the polling loops of `int13h_read_o` and `int13h_write_o`, with the drive; implements `BlockDevice` | |
| `FileStore` | `tty.c`: the second file store (`mount_drive`, `write_file`, ...) | |
| `Shell` | `tty.c`: boot, console, line editor, recovery shell, panic | `ShellProofs` |
| `Rtc` | `tty.c`: `read_rtc` and the clock chip | |
| `SerialConsole` | `lib_c.c` and `uart_*` of `tty.c`, with both serial devices | |
| `TaskSwitch` | `switch.S`: `switchTask` | |
| `VideoPorts` | `tty.c`: hardware cursor and speaker | |
| `KernelEntry` | `boot.S` | |
| `FatGeometry`, `FatNames`, `FatListing` | `FAT.c`, `FAT.h`: `FATInitialize`, the places of table entries, 8.3 names, `directoryList` | |
| `CLibrary` | libc's string functions, `printf`, `puts`, and the string functions of `tty.c` | |
| `Display`, `KernelNet` | `tty.c`, `vga.h`: paging, drawing, packets and the network card | |
| `HeaderMacros` | inline functions and macros of `libc/include` | |
| `KernelUnits` | composes `FileStore`, `Rtc` and the modules from `SerialConsole` down to `HeaderMacros` | |
| `MC...` | instances for TLC | |

## The system and its parts

The kernel is single-threaded and polls: it has no interrupts enabled and no
scheduler. What makes it hard is not threads but four other things: devices that
change on their own (the clock) or answer late or never (the disk, the serial
line, the reset line), power that may go away between two disk transfers, one
memory area shared by all transfers of the FAT driver, and pieces of state that
must move together and are moved by hand (line index and screen column, entry and
allocation table, saved registers and stack).

| Part | State | Operations | Model |
|---|---|---|---|
| FAT32 driver (`FAT.c`) | allocation table and data area on disk, the transfer area at `DISK_READ_LOCATION`, `file_info`, locals of the call in progress | `putFile`, `getFile`, `directorySearch`, `directoryAdd`, `allocateFreeFAT`, `clusterRead/Write`, `FATRead/Write` | `FatVolume` |
| ATA PIO | the drive's status, command, cache; the call's iterator and time-out | `int13h_read_o`, `int13h_write_o` | `AtaPio`, `BlockDevice` |
| FAT geometry, names, listing | none between calls | `FATInitialize`, `convertToFATFormat`, `convertFromFATFormat`, `testIfFATFormat`, `ChkSum`, `directoryList` | operators in `FatGeometry`, `FatNames`, `FatListing` |
| File store of `tty.c` | `mounted_drives`, a table and clusters on disk | `mount_drive`, `write_file`, `read_file`, `read_root_directory` | `FileStore` |
| Console (`tty.c`) | `terminal_row`, `terminal_column`, event log | `terminal_putchar`, `_newline`, `_initialize`, `_write`, `task`, `addevent` | `Shell` (cursor and log) |
| Line editor and shell | `input_buffer`, `input_buffer_index`, `username`, `fsinit`, `exitHKIloop` | one key of `handle_keyboard_input`, 16 commands | `Shell` |
| Boot, panic, reboot, shutdown | the calls still to be made | `kernel_main`, `setup`, `panic`, `reboot`, `shutdown` | `Shell` |
| Real-time clock | `second` ... `year`, the chip's registers | `read_rtc` | `Rtc` |
| Serial consoles | the devices' registers | `putcc`, `getcc`, `gethex`, `printhex`, `_printf`, `uart_init`, `uart_putc` | `SerialConsole` |
| Task switching | the processor, the stacks, the saved registers | `switchTask` | `TaskSwitch` |
| Cursor and speaker | CRT controller, port 0x61, timer | `update_cursor`, `get_cursor_position`, `enable_cursor`, `beep`, ... | `VideoPorts` |
| Entry code | stack pointer, interrupt flag | `_start` | `KernelEntry` |
| libc, paging, drawing, network, headers | none between calls | `memmove`, `printf`, `setup_paging`, `draw_box`, `checksum`, `send_ping`, `makedev`, ... | operators in `CLibrary`, `Display`, `KernelNet`, `HeaderMacros` |

How the parts interact: `boot.S` calls `kernel_main`, which drives the console
through `task`, reads the clock once, asks `mainfat` for a file system (which
always answers that there is none) and enters the shell. The shell writes to the
console for every key and every command and ends in `panic`, which ends in
`reboot`. The FAT driver is not linked into the kernel yet; its callers are
`putFile` and `getFile`, one call at a time. It reaches the disk through the ATA
loops, and `AtaPio` shows that those behave like the transfers `FatVolume` is
built on. The file store, the network and the task switch are compiled in, but
no path of `kernel_main` calls them.

## FatVolume: the FAT32 driver

**State.** `fat` and `data` are the disk. `buf` is the transfer area, one cell per
cluster; directory clusters and table sectors both go through cell 0, as in the
code, where `DISK_READ_LOCATION` and `DISK_WRITE_LOCATION` are the same address.
`pc` names the transfer that comes next; the other variables are the locals of
the call (`cluster`, `slot`, `probe`, `left`, `count`, ...). Two variables are
history. `files` is what `putFile` reported as written. `mishaps` records what the
driver does not notice: `passed`, a failed table read taken for a cluster in use;
`cut`, an entry stored with another number than that of the cluster allocated for
it; `confused`, bytes of a file read as a directory; `missed`, a search for
another name than the file's (`convertFromFATFormat` leaves a byte unwritten).

**Actions.** One step is one disk transfer together with the memory-only code up
to the next transfer. `directorySearch`/`directorySearchNext`,
`allocateFreeFAT`/`allocateFreeFATMark`, `directoryAdd`/`directoryAddNext`/
`directoryAddLink`/`directoryAddStore`, `putFileWrite`/`putFileLink` and
`getFileRead`/`getFileNext` are the transfers of the functions of those names. A
sector read may time out (`MaxFaults`), in the middle of a cluster too. Power may
be lost between any two sectors (`PowerLoss`, `MaxCrashes`): memory goes, the
disk stays.

**Data.** A cluster is a few units; a unit is a directory slot or a byte of a
file. A table sector read over a directory is the `junk` it would look like. The
arithmetic that matters is kept: the offset arithmetic of `FATRead` and
`FATWrite`, the bits `GET_ENTRY_LOW_BITS` keeps, the unsigned counter of bytes
left, the limit test of `getFile`. Names are model values; some may be ones
`testIfFATFormat` refuses, and some have the short extension that leaves a byte of
the searched name to chance (`ShortNames`). The last cluster numbers have no sectors
(`DataEnd`), because `total_clusters` counts the sectors in front of the data area.

**Runs that pass.**

| Run | Instance | Shows |
|---|---|---|
| `fat_writes` | two volumes with 13 cluster numbers, 11 of them with sectors; entries keep 8 of them apart (`LowKept`), so that cluster 10 is cut to 2; 2 calls of `putFile`, sizes of nothing, half a cluster, a whole one and two; one refused name, one with a short extension; 1 time-out, 1 power loss, weak fairness of the driver | `ChainsWellFormed`, `EntriesOwnUntilCut`, `ShortFilesKept`, `ChainsOnlyGrow`, `WrittenFilesStay`, `CallsReturn`, `TypeOK` |
| `fat_wide` | clusters of two sectors, so that transfers stop half-way; 3 calls of `putFile` and `getFile`, a file of two clusters, offsets 0 to 4 of a transfer area of 4 clusters, 1 time-out, 1 power loss | `GetFileDelivers`, `StaysInBuffer`, `LaterSectorsKept` |

Two calls are enough for a file and a second one, in the same directory or another,
after a failure or without; the volumes have free clusters before and behind the
ones in use, a number that is cut, one without sectors, and few enough to fill up;
three sectors of table make every look-up replace the sector in memory. Fairness
(`FairSpec`) is weak fairness of the driver's own steps: it polls and never waits for
another process. `CallsReturn` is checked of `putFile` only, in `fat_writes`.

**Runs that show a disagreement.** Each checks one property that a comment of the
code states; `findings` in `PROJECT.json` quotes it.

| Run | What TLC shows |
|---|---|
| `fat_lost` | `allocateFreeFAT` reads table sectors over the directory cluster that `directoryAdd` then writes back: the second file added makes the first one disappear. |
| `fat_truncate` | A failed `FATRead` is taken for the end of a directory's chain, and the rest of the directory is cut off. |
| `fat_low` | `GET_ENTRY_LOW_BITS` keeps 4 of 16 bits (here 3 of 6): the entry of a new file names the root directory. |
| `fat_bytes` | `putFile` counts one byte more per full cluster than it stores: a file one byte longer than a cluster returns 0 and its last byte is nowhere. |

**Where the passing properties stop.** Limits of the code appear in the properties
as conditions, in the volumes of the runs and in the assumption of the proof; TLC
finds the property violated without them.

* `GET_ENTRY_LOW_BITS` keeps 4 bits of a cluster number. `EntriesOwnUntilCut`,
  `ShortFilesKept`, `WrittenFilesStay` and `ChainsOnlyGrow` hold until an entry was cut
  (`Undisturbed`); the cut itself happens in the runs. `ChainsWellFormed` survives a
  cut, unless a failed read has also made `allocateFreeFAT` pass a free cluster over
  (`Orderly`): the cut number may then be that cluster's.
* Bytes of a file that are read as a directory may look like entries. The model notes
  it (`confused`) and goes on as if they did not; the properties say nothing
  after it. A free cluster may hold bytes of a deleted file at the start, but no
  old entries (`VolumeOK`).
* `FATRead` divides by the cluster size to find a table sector. With two sectors to
  a cluster and a table of two sectors it looks in the wrong one, and a cluster in
  use is handed out: `EntriesOwnUntilCut` fails. The runs, and the proof, have a table
  the look-up fits (`TableFits`).
* `putFile` counts one byte too many per full cluster. `ShortFilesKept` speaks of
  files shorter than a cluster; `WrittenFilesStay` says of all others that what is on
  the disk when `putFile` returns, right or wrong, stays as it is.
* With exactly one cluster left to write, the count of bytes left wraps. `putFile` goes
  on until the volume is full and then fails; `CallsReturn` in `fat_writes` follows
  it to that end.
* `getFile` goes on after a cluster it could not read and returns 0.
  `GetFileDelivers` speaks of calls without a failed read and of clusters with sectors.
* The limit test of `getFile` looks at the size. An empty file has one cluster more
  than its size says, and the file of exactly one cluster just described many more.
  `StaysInBuffer` speaks of the others (`ChainAsLongAsSize`). The offsets of the run
  are a few clusters, so the sum does not reach 2^32.
* The volumes of the runs have two copies of the table. On one with a single copy
  the entries behind the first table are other sectors, and are left out.

**Proofs.** `FatVolumeProofs!TypeCorrect` proves `Spec => []TypeOK` for all
constants. `FatChainProofs!ChainsSafe` proves, of every volume with `TableFits`, that
`Spec => []ChainsWellFormed`, for any number of clusters, calls, failures and power
losses, and whatever bits an entry keeps: no
link to a free cluster, no cluster with two predecessors, no cycle, at every
moment and after every power loss, as long as the driver is `Orderly`.

`ChainsWellFormed` is not inductive: linking a new cluster is only safe because
nothing refers to it yet. The inductive invariant `ChainInv` adds what the driver
knows between its transfers:

* `MemSafe`: every directory entry, on disk *and in the transfer area* (which is
  about to be written back), names an allocated cluster;
* `RegSafe`: the cluster being searched or extended is allocated; a cluster about
  to be marked is free; a cluster marked and not yet linked is the last of its own
  chain, the target of no link, and not the one being extended (`Pending`);
  every cluster below the one being probed is in use unless a failed read was
  passed over (`NonePassed`), which is why an entry whose number is cut to a lower
  one still names an allocated cluster.

`MarkKeepsChains` and `LinkKeepsChains` are the two ways the table changes;
`ChainNext` has one step per action. `SizesAssumption`, `NamesAssumption` and
`VolumesAssumption` say that the constants are sizes and names and that the volume
is well formed when it is mounted; TLC evaluates them in every run.

## AtaPio: the disk transfers, and what they implement

`BlockDevice` states what `FAT.c` expects of `int13h_read_o` and
`int13h_write_o`: sectors move one at a time between the transfer area and the
partition, a call outside the partition is refused before the disk is asked, a
call that returns 0 has moved every sector, a read may fail half-way, and what a
finished write has stored survives a power loss. `FatVolume`'s disk steps are of
this kind: one sector or cluster each, reads that may fail, writes that last.

`AtaPio` models the two loops against a drive that is a process of its own. The
kernel's variables are the locals (`i` is `iterator`, `timeout`) and the transfer
area `mem`. The drive has a command with its position, the bits BSY, DRQ and ERR, a
cache of written sectors (`cache`) and what is saved (`media`). `Poll` and
`ReadSector` are the loop of `int13h_read_o`, with its limit; `NoError`, `IsReady`,
`NotBusy`, `HasRoom` are the four status tests of `int13h_write_o`, each of which may
start them again while the drive goes on changing the status; `WriteSector`, `Flush`
and `Finished` are the rest. The drive is external code, modelled from the
registers the loops use. The 256 words of a sector move in one step, because the
drive does nothing between them.

| Run | Instance | Shows |
|---|---|---|
| `ata_pio` | 4 calls at, across and behind the end of a partition of 2 sectors in a disk of 4, time-out after 3 polls, 1 failed read, 1 power loss | `ImplementsDevice` (`AtaPio` implements `BlockDevice`), `ZeroMeansDone`, `StaysInPartition`, `CallsEnd` |
| `ata_error` | the drive fails to store a sector | violation: the last sector of a write fails, the flush command covers the error, and 0 is returned |

The refinement mapping hides the drive's protocol: the abstract disk is what a
read would find (the sector on its way, then the cache, then the media), the
abstract stable storage is the media. Four calls are enough for a time-out, a call
that meets the late answer, and one after it. Fairness is weak fairness of the
kernel's polling and of a busy drive getting on with its command; that a drive
saves its cache without being told is not assumed. `CallsEnd` excepts a write to a
drive that has reported an error: `int13h_write_o` then loops for ever.

`Drops` says whether the drive ignores a command that comes while it is busy. The
ATA standard leaves such a command to the drive. The runs set it to FALSE: the
drive takes the command up when it can. With TRUE, TLC finds `ZeroMeansDone`
violated (after a time-out the next read returns the late sector of the abandoned
call) and `ImplementsDevice` violated (the flush is lost, and a finished write does
not survive).

## FileStore: the file store of tty.c

`drives` is `mounted_drives`, with the directory that exists in memory only; `table`
and `blocks` are the disk, which all drive numbers share because `read_block`
ignores the drive. `mount_drive`, `write_file` (content first, then
`write_file_entry` with the table entry and the directory entry), `read_file` and
`read_root_directory` are the functions of those names. `first` is a history
variable: what was first written under a name. `Restart` may come between any two
steps. Where the code reads or writes outside an object, divides by zero or waits
for a sector the disk does not have, the behaviour ends (`dead` says why), as
nothing the program says determines what follows; the run allows deadlock for that
reason. Such ends are a table of more than one block, its copies included
(`tty.c:540`), and a free cluster behind the end of the disk (`tty.c:555`). The sector
that is read over the 90-byte boot sector structure (`tty.c:418`) also covers the
directory behind it: `file_count` becomes what bytes 99 to 102 of the sector say
(`tail` of a volume, 0 in the run), and the entries become zero, as on a volume without boot code.
`strncpy` clears one byte behind the buffer of a content shorter than a block, and a
full block is printed without an end mark; either ends the behaviour or, when the
byte is padding or zero already, changes nothing. An entry `read_root_directory`
adds holds what the stack held (`Unset`).

| Run | Instance | Shows |
|---|---|---|
| `kernel_units` | 2 drive numbers, directories of 2 entries, 2 names, an empty and a non-empty content, 1 restart; four volumes: one that ends with its disk, one with disk behind it, one with two tables, one with two sectors to a cluster | `ReadsFirstWritten`, `ClustersOwned`, `MarkedDataKept`, `EntriesStay`, `StoreTypeOK` |

Two entries fill a directory, two drive numbers compete for the table, and four
clusters fill up. On a full volume `find_free_cluster` returns 0 and `write_file`
uses it as a cluster; the properties speak of files that got a cluster, and TLC
refutes `ReadsFirstWritten`, `ClustersOwned` and `MarkedDataKept` without that
condition. `write_file` looks for an entry of size 0 and stores at `file_count`:
`EntriesStay` says that it never stores over an entry in use, an empty file's
included; a store behind the array ends the behaviour.

## Shell: boot, console, line editor, recovery shell

**State.** `row` and `col` are the cursor. `out` is a script: the console calls the
kernel still has to make. `buffer` and `index` are the input buffer. `user` is the
pointer `username`: the literal, `NULL`, or an offset *in the input buffer*, which
is where `un` makes it point. `size` is the number of events in the log. `typed`,
`coloured` and `ran` are history variables: the keys the user sees behind the prompt,
whether the colour key was used in this line, and the last command.

**Actions.** A step makes one call of the script (`Newline`, `WriteString`,
`Write` for one character, `SetRow`, `SetCol`, `addevent`, ...), prints one
character of the prompt, or handles one key of `handle_keyboard_input`
(`Character`, `Backspace`, `ColorKey`, and one `Enter...` action for each kind of
command). `kernel_main`, `setup`, `panic`, `reboot`, `shutdown` and `nyan` are
scripts with the calls of the functions of those names in their order. The ports
that turn the machine off may or may not exist (`PowerPort`). `Restart` is power-on.

**Data.** A fixed text has any of the lengths `TextLens`. A command word is one
key, so a line is a short sequence of keys; the tokens of `strtok`, the length
`strlen` finds and the zero byte every key writes are kept as they are. Colours,
delays and video memory are left out. With the index behind the buffer the next
key writes its end mark to memory that is not the line's; the model stops there
(`Outside`).

| Run | Instance | Shows |
|---|---|---|
| `shell` | screen of 5x4, buffer of 4, 16 keys: letters, blank, erase, enter, the colour key and the command words; both boot questions; texts longer than a line; weak fairness of the kernel | `CursorOnScreen`, `IndexKept`, `CommandAsTyped`, `PanicReboots`, `CommandsEnd`, `TypeOK` |
| `shell_index` | the same | violation of `IndexInBuffer`: the index leaves the buffer, where the end mark of the line cannot be written |

The small screen makes lines wrap inside the prompt, inside the line and exactly at
the edge, and texts scroll. The commands `m`, `ppm`, `panic`, `reboot` and `waitwrite`
have the output of another one and are no keys of the runs; the proofs have them all.

The guard of the erase key compares the column with the length of the prompt. The
colour key moves the column without the line, and `un` makes the prompt's length
depend on the line being typed; after either, erasing can take the index below 0,
which is what `shell_index` shows. `IndexKept` is the index's range for lines without
the colour key while `username` points elsewhere. Fairness is weak fairness of `Work`, the
steps that need no key, because the kernel runs alone on the machine. Nothing is
assumed of the person at the
keyboard; `PanicReboots` and `CommandsEnd` start in states that need no key. The
command `color` never ends and has a state of its own.

**Proofs** (`ShellProofs`), for all sizes of screen, buffer, prompt and log, all
text lengths and all sets of keys:

* `ShellTypeCorrect`: `Spec => []TypeOK`; the log never outgrows `MAX_EVENTS`.
* `CursorSafe`: `Spec => []CursorOnScreen`. The invariant `ConsoleInv` says that
  every call left in the script is safe (`SafeScript`: an assignment to the cursor
  stays on the screen) and that the last byte of the buffer is always 0
  (`Buffers`), so that every `strlen` and `strtok` ends inside it. `SafeBoot`,
  `SafeEnd` and `SafeCommand` show it of each script; `StrEndType` and `TokenType`
  show it of the strings, by the least place where a string can end.
* `IndexSafe`: `Spec => []IndexKept`. The invariant `InStep` is the relation the code
  relies on and nowhere states: `col <= prompt + index` while a line is typed. A wrap
  of the line keeps it because it only takes the column back, and the Enter that ends
  a line begins the next with index 0 and the column at the prompt. Nothing is
  assumed of the keys: the conditions are in `IndexKept`, and `shell_index` shows that
  they are needed.

They rest on `ConsoleAssumption` and `LineAssumption` (the screen has at least
three rows, the boxed screens fit on it, the buffer has at least two bytes, 0 is
no key).

## Rtc: reading the clock

`clock` is the time the chip keeps, `phase` its update cycle (flag raised,
registers changing, idle). The chip is modelled from how `read_rtc` uses it and is
marked external. While it updates, a register read gives its old value, its new
one or neither. The kernel polls the flag (`WaitForUpdate`), reads six registers
(`get_RTC_register`), compares with the pass before (`Compare`) and converts
(`Convert`: BCD, 12 to 24 hours, the century).

`QuietReads` is the number of port accesses that always fit between two updates:
an access takes about a microsecond and updates are a second apart. A pass makes
7, a poll and six reads. TLC shows what the code needs: with 6 a torn time is
accepted, with 7 it is not; with 13 the loop need not end (an update in every second pass),
with 14 it does. The runs use 14.

| Run | Instance | Shows |
|---|---|---|
| `kernel_units` | a clock of 8 times that never stops, rolling over seconds, hours and the century at values where a BCD digit or the PM bit matters; all four formats | `TimeDelivered`: the result is one time the clock showed in the last two passes; `ReadEnds` |
| `rtc_noon` | a real day's clock around noon and midnight, 12-hour formats | violation: the comment says the hour is converted to 24 hours; 12 AM stays 12, 12 PM becomes 0 |

Fairness is weak fairness of the kernel, which runs alone, and of the end of an
update that has begun. That updates begin is not assumed.

## KernelUnits: the units other code calls

Functions without state between calls are operators, one per function, in modules
of their own. `KernelUnits` asks each with inputs of its own (`Ask`) and compares
the result with a reference definition written from what callers rely on, not from
the code: the FAT format's offsets, the order of a dictionary, what a format string
stands for, a set of one bits. Six units are machines: `SerialConsole`,
`TaskSwitch`, `VideoPorts`, `KernelEntry`, and `Rtc` and `FileStore`, whose sections are
above. A behaviour is about one unit, chosen
in `Init`. `MCKernelUnits` lists the inputs. The run is `kernel_units`; it allows
deadlock because a call is answered and a session ends. It checks one property per
unit without state, a conjunction of the facts named behind it, and those of the
machines.

| Unit | Inputs | Shows |
|---|---|---|
| 8.3 names | bases of every length, extensions of 0 to 3, letters of either size, a refused character, four values of the byte left on the stack | `NamesKept`: `TypedNameMatches`, `StoredNameFound`, `ChkSumTellsApart` |
| `directoryList` | two clusters of two entries of seven kinds, a table and a cluster that cannot be read, memory behind the cluster | `ListsTheDirectory` |
| geometry | FAT16 and FAT32 volumes at both ends of their ranges, as bytes of a boot sector | `VolumeAsFormatted`: `VolumeRecognised`, `EntriesKeptApart`, and that the packed structures have the sizes and places of the format (`StructsAsOnDisk`) |
| memory and strings | every overlap of areas up to 3 bytes; all strings up to 3 of three characters, one above 127 | `StringsWhole`: `MovesWhole`, `ComparisonsAgree`, `CopiesTheString` |
| `printf`, `_printf`, `_printInt` | all formats up to 4 of five characters, INT_MAX reached after 2 or 3; numbers around digit boundaries and at the largest int | `PrintsWhole`: `PrintfWhole`, `PrintfsAgree`, `PrintIntReadsBack` |
| paging, drawing | pages around the frame buffer and the end of the table; boxes and texts at the edges | `PixelsInPlace`: `PagingKeepsAddresses`, `DrawsInPlace`: a box is its outline, a text cell keeps character and colours, and a text stays inside the frame buffer. Where the pixels of a glyph go is not claimed (see below) |
| network | data of even and odd length whose sums carry once and twice; packets shorter, as long as and longer than the buffer | `PacketsVerify`: `ChecksumVerifies`, `PingVerifies`, `ReceivesWithinBuffer` |
| headers | words of 64 bits with runs of ones, statuses of every kind, sizes around blocks and pages | `CodesInvert`: `StreamsRoundTrip`, `BitCountsBits`, `DeviceNumbersKept`, `StatusHasOneKind`, `UnitsAgree`, `BitsKeptApart` |
| `SerialConsole` | a session on the 8250 that reads a number of 2 digits, with or without echo, and prints it; one on the PL011; 3 keys typed at any time | `SerialLineWhole`: `LineShowsTheNumber`, `LinesEndWithCR`; `OutputDrains`: everything is sent, by the PL011 only once `uart_init` has turned the transmitter on |
| `TaskSwitch` | 3 tasks, 4 switches between any two of them | `TasksKept`: `ResumesWhereItLeft`, `SavedWhileWaiting` |
| `VideoPorts` | 4 calls in any order, each one port access after another, from whatever the firmware left in the registers | `PortsKept` (`CursorAsLeft`): after every call the position in the controller is the last one set, a read returns it, and the cursor shows as the last call to say so left it |
| `KernelEntry` | four stack pointers left by the loader, aligned or not, `kernel_main` coming back with interrupts on or off, non-maskable interrupts | `EntrySafe`: `EnteredOnOwnStack`, `HaltedForGood` |

Strings and buffers of three bytes reach every combination of end, difference and
bound that the loops tell apart; three keys let one be overwritten before it is
read; four switches let a task wait through two others and come back;
four port calls put another user of the index port between a write and its read.
Fairness is weak fairness of the polling processor and of the serial device sending
the character it holds. That anybody types is not assumed: `OutputDrains` is about
output only.

Conditions in these properties are limits of the code:

* `convertFromFATFormat` leaves a byte unwritten for extensions of one or two
  characters (`FAT.c:1270`), and nine or ten characters before a dot blank the name
  (`FAT.c:1136`).
* `directoryList` goes on behind a cluster whose last entry it has printed
  (`FAT.c:602`), and takes a failed table read for the end (`FAT.c:573`).
* That `directoryList` lists an entry means that it reaches the print calls for it.
* `total_clusters` counts the sectors in front of the data area (`FAT.c:188`), so a
  FAT16 volume close to the limit is taken for FAT32; `VolumeRecognised` leaves those out.
* `FAT_table` has 32 kB: on a volume with clusters of 64 kB `FATRead` and `FATWrite` use
  entries outside it (`FAT.c:248`, `FAT.c:328`), with any result.
* `strncpy` clears one byte more than it was told of (`tty.c:333`); `printf` does not
  count `%n` against INT_MAX; `_printInt` prints nothing for 0 and no digits for
  negative numbers (`lib_c.c:304`).
* `receive_ping` looks at its buffer when too little was received (`tty.c:1392`);
  the font is indexed by code although its rows start at `A` (`tty.c:1626`), and
  `draw_char` adds row and column without the length of a line (`tty.c:1632`);
  `send_ping` passes a number to `printf` as a format (`tty.c:1379`), an address that
  `setup_paging` does not map, so that with paging on nothing is sent; the
  divisor of `beep` is shifted by more than its width (`tty.c:345`) and may be
  anything in the model.
* `switchTask` uses the stack and the saved registers after it has loaded `cr3`
  (`switch.S:44`). `TaskSwitch` has one memory: it takes every task's tables to map
  them to the same places. Nothing in the repository sets such tables up.
* A process ended by signal 19 without a core file has the status of a continued
  one (`wait.h`).

## What is only model-checked, and what is not modelled

Proved for all constants: `TypeOK` of `FatVolume` and `Shell`, `ChainsWellFormed`,
`CursorOnScreen`, `IndexKept`, each under the assumptions named above. Every other
property is model-checked on the instances described. Liveness (`CallsReturn`,
`CallsEnd`, `PanicReboots`, `CommandsEnd`, `ReadEnds`, `OutputDrains`) stays so: the
proof system has no support for fairness or ENABLED. It also has none for induction
over data and for RECURSIVE operators, which keeps the units of `KernelUnits` with
TLC (`CLibrary` and others define loops over strings recursively); the modules the
proofs are about use none.

Not modelled:

* the characters and colours in video memory, and delays;
* debug printing of `FAT.c` (`d_printhex` and its like), which changes no state and
  passes a character code as a format, so that what it prints depends on what the
  firmware left in low memory;
* a line typed by the user and passed to `printf` as its format, `task` logging a
  number as a string, and the uninitialised `century`: the program does not
  determine their outcome;
* what is overwritten when `FATInitialize` copies 512 bytes into a structure of 90,
  and a volume with 0 sectors per cluster;
* the FAT16 branches of `putFile` and `getFile`, which they cannot reach (geometry
  and table access of FAT16 are in `FatGeometry`); the dates `putFile` could store,
  which are constants that nothing reads;
* the rest of `kernel_main` behind the recovery shell, and `findconfig`: `mainfat`
  always returns 1 and `networkinit` is never set, so neither is reached;
* `abort`, which nothing calls; `crti.S`, `crtn.S`, `linker.ld` and the Makefiles;
  headers that only declare; functions declared and nowhere defined (`initTasking`,
  those of `lib_asm.h`).

What remains to be proved, in the order of what it would add: `EntriesOwnUntilCut`
and `ChainsOnlyGrow` from `ChainInv`; `ImplementsDevice` step by step; the safety
invariants of `FileStore` and `TaskSwitch`; `CommandAsTyped` from `InStep`;
`TimeDelivered`, in 24-hour mode, for every `QuietReads` of at least a pass.
