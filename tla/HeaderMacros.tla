---------------------------- MODULE HeaderMacros ----------------------------
(***************************************************************************)
(* The inline functions and macros of libc/include: byte streams           *)
(* (sys/endian.h), population counts (sys/bitcount.h), wait statuses       *)
(* (sys/wait.h), device numbers (sys/types.h), units, rounding and bit     *)
(* maps (sys/param.h, machine/param.h) and signal sets (sys/_sigset.h).    *)
(* Words wider than 16 bits are sequences of bytes, least significant      *)
(* first, or sets of bit numbers.                                          *)
(***************************************************************************)
EXTENDS Integers, Sequences, SequencesExt

(* A stream p of bytes and a word u of the same width: be*enc and be*dec   *)
(* go from the most significant byte on, le*enc and le*dec from the least. *)
(* The 64-bit forms do so by halves.                                       *)
be16dec(p) == <<p[2], p[1]>>
be32dec(p) == <<p[4], p[3], p[2], p[1]>>
be64dec(p) == be32dec(SubSeq(p, 5, 8)) \o be32dec(SubSeq(p, 1, 4))
le16dec(p) == <<p[1], p[2]>>
le32dec(p) == <<p[1], p[2], p[3], p[4]>>
le64dec(p) == le32dec(SubSeq(p, 1, 4)) \o le32dec(SubSeq(p, 5, 8))
be16enc(u) == <<u[2], u[1]>>
be32enc(u) == <<u[4], u[3], u[2], u[1]>>
be64enc(u) == be32enc(SubSeq(u, 5, 8)) \o be32enc(SubSeq(u, 1, 4))
le16enc(u) == <<u[1], u[2]>>
le32enc(u) == <<u[1], u[2], u[3], u[4]>>
le64enc(u) == le32enc(SubSeq(u, 1, 4)) \o le32enc(SubSeq(u, 5, 8))

-----------------------------------------------------------------------------
(* Words as the sets of the numbers of their one bits, width w.            *)
Bits(w) == 0 .. w - 1
Shr(x, k) == {i - k : i \in {j \in x : j >= k}}
Masked(x, keep(_)) == {i \in x : keep(i)}
RECURSIVE Plus(_, _, _)
Plus(x, y, w) ==
  LET both == x \cap y
  IN IF y = {} THEN x
     ELSE Plus((x \cup y) \ both, {i + 1 : i \in both} \cap Bits(w), w)
ValueOf(x) == FoldSet(LAMBDA i, v : v + 2 ^ i, 0, x)

(* __bitcount16 and __bitcount32 add neighbouring groups of 1, 2, 4, 8 and *)
(* 16 bits; from 4 on the sum is masked after the addition, in the 32-bit  *)
(* form only at 4 and at the end.                                          *)
AddLanes(x, w, k) ==
  Plus(Masked(x, LAMBDA i : (i \div k) % 2 = 0),
       Shr(Masked(x, LAMBDA i : (i \div k) % 2 = 1), k), w)
AddShifted(x, w, k) == Plus(x, Shr(x, k), w)
bitcount16(x) ==
  LET a == AddLanes(AddLanes(x, 16, 1), 16, 2)
      b == Masked(AddShifted(a, 16, 4), LAMBDA i : i % 8 < 4)
  IN ValueOf(Masked(AddShifted(b, 16, 8), LAMBDA i : i < 8))
bitcount32(x) ==
  LET a == AddLanes(AddLanes(x, 32, 1), 32, 2)
      b == Masked(AddShifted(a, 32, 4), LAMBDA i : i % 8 < 4)
      c == AddShifted(AddShifted(b, 32, 8), 32, 16)
  IN ValueOf(Masked(c, LAMBDA i : i < 8))
bitcount64(x) == bitcount32(Shr(x, 32)) + bitcount32(x \cap Bits(32))

-----------------------------------------------------------------------------
(* Wait statuses.                                                          *)
WSTATUS(x) == x % 128
WIFSTOPPED(x) == WSTATUS(x) = 127
WSTOPSIG(x) == x \div 256
WIFSIGNALED_NoCont(x) == WSTATUS(x) # 127 /\ WSTATUS(x) # 0
WIFSIGNALED(x) == WSTATUS(x) # 127 /\ WSTATUS(x) # 0 /\ x # 19
WTERMSIG(x) == WSTATUS(x)
WIFEXITED(x) == WSTATUS(x) = 0
WEXITSTATUS(x) == x \div 256
WIFCONTINUED(x) == x = 19
WCOREDUMP(x) == (x \div 128) % 2 = 1
W_EXITCODE(ret, sig) == ret * 256 + sig
W_STOPCODE(sig) == sig * 256 + 127
KW_EXITCODE(ret, sig) == W_EXITCODE(ret % 256, sig)

(* Device numbers: major M and minor m of four bytes in eight.             *)
makedev(M, m) == <<m[1], M[1], m[3], m[4], m[2], M[2], M[3], M[4]>>
major(d) == <<d[2], d[6], d[7], d[8]>>
minor(d) == <<d[1], d[5], d[3], d[4]>>

-----------------------------------------------------------------------------
(* Bytes, disk blocks of 512 and pages of 4096 bytes.  The macros round by *)
(* adding a mask first; the numbers here stay below the wrap of a word.    *)
PAGE_SHIFT == 12
DEV_BSHIFT == 9
PAGE_MASK == 2 ^ PAGE_SHIFT - 1
ctob(x) == x * 2 ^ PAGE_SHIFT
btoc(x) == (x + PAGE_MASK) \div 2 ^ PAGE_SHIFT
btodb(bytes) == bytes \div 2 ^ DEV_BSHIFT
dbtob(db) == db * 2 ^ DEV_BSHIFT
ctodb(db) == db * 2 ^ (PAGE_SHIFT - DEV_BSHIFT)
dbtoc(db) == (db + (ctodb(1) - 1)) \div 2 ^ (PAGE_SHIFT - DEV_BSHIFT)
trunc_page(x) == x - (x % (PAGE_MASK + 1))
round_page(x) == trunc_page(x + PAGE_MASK)
howmany(x, y) == (x + (y - 1)) \div y
rounddown(x, y) == (x \div y) * y
roundup(x, y) == ((x + (y - 1)) \div y) * y

(* A bit map is a function from byte numbers to sets of bits; a signal set *)
(* has words of 32 bits, the first signal at the first bit.                *)
setbit(a, i) == [a EXCEPT ![i \div 8] = @ \cup {i % 8}]
clrbit(a, i) == [a EXCEPT ![i \div 8] = @ \ {i % 8}]
isset(a, i) == i % 8 \in a[i \div 8]
SIG_IDX(sig) == sig - 1
SIG_WORD(sig) == SIG_IDX(sig) \div 32
SIG_BIT(sig) == SIG_IDX(sig) % 32
SIG_VALID(sig) == sig <= 128 /\ sig > 0
=============================================================================
