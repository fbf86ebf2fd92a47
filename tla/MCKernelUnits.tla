--------------------------- MODULE MCKernelUnits ---------------------------
(* Inputs for the units of the kernel, and small sizes for its machines.   *)
EXTENDS KernelUnits

Filled(front, rest, n) == [i \in 1 .. n |-> IF i = 1 THEN front ELSE rest]

(* Bases of every length, with a capital, a small letter, a digit or a     *)
(* character that is refused in front; every extension length.             *)
MCNameInputs ==
  {i \in [base : {Filled(f, r, n) : f \in {65, 98, 43}, r \in {66, 122}, n \in 1 .. 8},
          ext : {Filled(f, 84, n) : f \in {84, 120}, n \in 0 .. 3},
          dot : BOOLEAN, old : {0, 32, 65, 200}] :
     i.ext # <<>> => i.dot}

Kinds == {"end", "free", "dots", "long", "hidden", "dir", "file"}
MCListInputs ==
  {i \in [kinds : (Kinds \X Kinds) \X (Kinds \X {"end", "hidden"}),
          next : {3, 0, -1, 99}, readable : BOOLEAN,
          add : {{}, {"HIDDEN"}}, exclusive : BOOLEAN] :
     i.readable \/ i.next = 3}

MCVolumeInputs ==
  [type : {32}, n : {65525, 65526, 70000, 200000}, spc : {1, 2, 8, 64, 128},
   reserved : {1, 32}, tables : {1, 2}, roots : {0}]
  \cup [type : {16}, n : {4085, 5000, 65000, 65520}, spc : {1, 4, 32},
        reserved : {1, 4}, tables : {1, 2}, roots : {17, 512}]

MCMoveInputs == [dst : 0 .. 6, src : 0 .. 6, size : 0 .. 3]

Strings == UNION {[1 .. n -> {97, 98, 200}] : n \in 0 .. 3}
MCStringInputs == [a : Strings, b : Strings, n : {0, 1, 3, 5}]

FormatTexts == UNION {[1 .. n -> {97, 37, 115, 99, 110}] : n \in 0 .. 4}
MCFormatInputs == [fmt : FormatTexts, args : {<< <<120, 121>>, <<122>> >>, << <<255>>, <<120>> >>}, max : {2, 3, 100}]

MCNumberInputs ==
  [val : 0 .. 40 \cup {99, 100, 255, 256, 65535, 1000000, 2147483647, -1, -255},
   base : {10, 16}]

MCPageInputs == [page : 0 .. 3 \cup 158 .. 165 \cup 1020 .. 1027 \cup {4096, 262143},
                 offset : {0, 4095}]
MCDrawInputs ==
  [x1 : {0, 3}, x2 : {3, 5, 799}, y1 : {0, 2}, y2 : {2, 4}, str : {<<>>, <<48, 49>>, <<48, 65, 57>>}]

(* Packets of even and of odd length.                                      *)
MCPacketInputs ==
  [data : [1 .. 6 -> {0, 1, 255}] \cup [1 .. 5 -> {0, 1, 255}] \cup {<<69, 0, 0, 28, 192, 168>>}]
MCCardInputs ==
  [card : [ready : BOOLEAN, length : {0, 10, 21, 22, 24, 30},
           data : {[i \in 1 .. 30 |-> IF i = 21 THEN t ELSE IF i = 22 THEN c ELSE 7] :
                     t \in {0, 8}, c \in {0, 1}}],
   stale : {0, 255}]

MCWordInputs == [bytes : {[i \in 1 .. 8 |-> IF i = k THEN a ELSE IF i < k THEN b ELSE c] :
                            k \in 1 .. 8, a \in {0, 1, 85, 170, 255}, b \in {0, 127, 255}, c \in {0, 3, 255}}]
MCStatusInputs == [how : {"exit", "stop", "kill", "core"}, ret : {0, 1, 19, 255, 300}, sig : {1, 9, 19, 126}]
MCUnitInputs == [bytes : {0, 1, 511, 512, 513, 4095, 4096, 4097, 8191, 8192, 1000000, 2147475456},
                 map : SUBSET {0, 3, 7}]

MCCells == {<<0, 0>>, <<80, 24>>, <<79, 3>>}
MCShapes == {<<14, 15>>, <<0, 31>>}
MCFirmware ==
  {[r \in {10, 11, 14, 15} |-> CASE r = 10 -> a [] r = 11 -> b [] r = 14 -> 7 [] r = 15 -> 200] :
     a \in {13, 45, 224}, b \in {14, 238}}
MCText == <<80, 10, 79>>

(* A clock that runs for ever: two seconds a minute, one minute an hour,   *)
(* two hours a day, one day a year, two years.  The values are those at    *)
(* which a digit, the PM bit and the century matter.                       *)
AllFormats == [binary : BOOLEAN, h24 : BOOLEAN]
SmallFirst == <<58, 10, 21, 31, 12, 2099>>
SmallCount == <<2, 1, 2, 1, 1, 2>>
SmallTimes == {<<s, 10, h, 31, 12, y>> : s \in {58, 59}, h \in {21, 22}, y \in {2099, 2100}}

(* Volumes that fit the store's one-block table and one-block clusters, on *)
(* disks as large as they say or smaller, and volumes that do not fit.     *)
Volume(f, s, t, d) ==
  [reserved |-> 2, num_fats |-> f, fat_size |-> 1, spc |-> s, total |-> t, disk |-> d, tail |-> 0]
SmallVolumes == {Volume(1, 1, 6, 6), Volume(1, 1, 5, 8), Volume(2, 1, 6, 6), Volume(1, 2, 6, 6)}
SmallContents == {[text |-> "", size |-> 0], [text |-> "yyy", size |-> 3]}
SomeUnset ==
  {[name |-> "no name", size |-> 0, start |-> 0], [name |-> "a", size |-> 9, start |-> 3]}
=============================================================================
