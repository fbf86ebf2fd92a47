----------------------------- MODULE MCFatVolume -----------------------------
(* Small volumes for FatVolume.  In all of them cluster 2 is the root and  *)
(* the table is there twice, as on a formatted volume.                     *)
EXTENDS FatVolume, TLC

CONSTANTS a, b, s

EOC == 268435455

Copy == TableLen \div 2
TableOf(links) ==
  [i \in Table |-> LET c == i % Copy
                   IN CASE c = 0 -> END [] c = 1 -> EOC [] c \in DOMAIN links -> links[c]
                        [] OTHER -> FREE]
Row(units) ==
  [i \in Units |-> IF i + 1 \in DOMAIN units THEN units[i + 1] ELSE Mark("end")]
Area(rows) == [c \in Stored |-> IF c \in DOMAIN rows THEN Row(rows[c]) ELSE Blank]
File(n, c, z) == [kind |-> "file", name |-> n, n |-> c, size |-> z]
Dir(n, c) == [kind |-> "dir", name |-> n, n |-> c, size |-> 0]
Old == Byte(s, 0)
Bad(cs) == [c \in cs |-> BAD]

(* One-sector clusters, four table entries to a sector.  First: a root     *)
(* with one subdirectory; free are 4, 6 (with bytes of a deleted file) and *)
(* 10, which an entry cuts to the root's number.  Second: a root of two    *)
(* clusters with a deleted entry, a file of two clusters; free is only 3.  *)
(* In both, 11 is the first cluster outside the partition, marked free.    *)
SmallVolumes ==
  {[fat |-> TableOf(2 :> END @@ 3 :> END @@ Bad({5, 7, 8, 9})),
    data |-> Area(2 :> <<Dir(s, 3)>> @@ 6 :> <<Old, Old>>)],
   [fat |-> TableOf(2 :> 4 @@ 4 :> END @@ 5 :> 6 @@ 6 :> EOC @@ Bad(7 .. 10)),
    data |-> Area(2 :> <<File(a, 5, 3), Mark("junk")>> @@ 4 :> <<Mark("free")>>
                  @@ 5 :> <<Old, Old>> @@ 6 :> <<Old>>)]}

(* Two-sector clusters whose whole table is in one sector: entries in both *)
(* sectors of the root, one of them a file of two clusters.                *)
WideVolumes ==
  {[fat |-> TableOf(2 :> END @@ 3 :> 5 @@ 5 :> END @@ 4 :> END),
    data |-> Area(2 :> <<File(a, 3, 6), Mark("free"), Dir(s, 4)>>
                  @@ 3 :> <<Old, Old, Old, Old>> @@ 5 :> <<Old, Old>>)]}

RootAndSub == {<<>>, <<s>>}
=============================================================================
