------------------------------ MODULE CLibrary ------------------------------
(***************************************************************************)
(* The C library of the kernel: libc/string, libc/stdio and the string     *)
(* functions tty.c defines again for itself.  Memory is a function from    *)
(* addresses to bytes; a function that writes returns the changed memory.  *)
(* Loops are kept as loops: their order matters where areas overlap.       *)
(***************************************************************************)
EXTENDS Integers, Sequences, FiniteSetsExt

(* dst[i] = src[i] for i = from, from + step, ..., up to but not to `end'. *)
RECURSIVE CopyLoop(_, _, _, _, _, _)
CopyLoop(mem, dst, src, i, step, end) ==
  IF i = end THEN mem
  ELSE CopyLoop([mem EXCEPT ![dst + i] = mem[src + i]], dst, src, i + step, step, end)

memcpy(mem, dst, src, size) == CopyLoop(mem, dst, src, 0, 1, size)

memmove(mem, dst, src, size) ==
  IF dst < src THEN CopyLoop(mem, dst, src, 0, 1, size)
  ELSE CopyLoop(mem, dst, src, size - 1, -1, -1)

memset(mem, buf, value, size) ==
  [a \in DOMAIN mem |-> IF a \in buf .. buf + size - 1 THEN value % 256 ELSE mem[a]]

memcmp(mem, a, b, size) ==
  LET differ == {i \in 0 .. size - 1 : mem[a + i] # mem[b + i]}
      first == Min(differ)
  IN IF differ = {} THEN 0 ELSE IF mem[a + first] < mem[b + first] THEN -1 ELSE 1

strlen(mem, s) == Min({k \in DOMAIN mem : k >= s /\ mem[k] = 0}) - s

(* strchr: the address of the first c before the NUL, or -1 for NULL.      *)
strchr(mem, s, c) ==
  LET hits == {a \in s .. s + strlen(mem, s) - 1 : mem[a] = c}
  IN IF hits = {} THEN -1 ELSE Min(hits)

(* strcpy copies byte by byte until it has copied a NUL.                   *)
RECURSIVE strcpy(_, _, _)
strcpy(mem, dst, src) ==
  LET copied == [mem EXCEPT ![dst] = mem[src]]
  IN IF mem[src] = 0 THEN copied ELSE strcpy(copied, dst + 1, src + 1)

(* strncpy: the first loop leaves n as it is when it copies the NUL, so    *)
(* that the second one clears n bytes more: n + 1 bytes are written.       *)
RECURSIVE strncpy(_, _, _, _)
strncpy(mem, dst, src, n) ==
  IF n = 0 THEN mem
  ELSE LET copied == [mem EXCEPT ![dst] = mem[src]]
       IN IF mem[src] = 0 THEN memset(copied, dst + 1, 0, n)
          ELSE strncpy(copied, dst + 1, src + 1, n - 1)

(* strcmp and tty.c's strncmp return a difference of bytes, libc's strncmp *)
(* -1, 0 or 1.                                                             *)
RECURSIVE strcmp(_, _, _)
strcmp(mem, a, b) ==
  IF mem[a] # 0 /\ mem[a] = mem[b] THEN strcmp(mem, a + 1, b + 1) ELSE mem[a] - mem[b]

RECURSIVE tty_strncmp_NoEnd(_, _, _, _)
tty_strncmp_NoEnd(mem, a, b, n) ==
  IF n = 0 \/ a + 1 \notin DOMAIN mem \/ b + 1 \notin DOMAIN mem THEN 0
  ELSE IF mem[a] # mem[b] THEN mem[a] - mem[b]
  ELSE tty_strncmp_NoEnd(mem, a + 1, b + 1, n - 1)
RECURSIVE tty_strncmp(_, _, _, _)
tty_strncmp(mem, a, b, n) ==
  IF n = 0 THEN 0
  ELSE IF mem[a] = 0 \/ mem[b] = 0 \/ mem[a] # mem[b] THEN mem[a] - mem[b]
  ELSE tty_strncmp(mem, a + 1, b + 1, n - 1)

RECURSIVE strncmp(_, _, _, _)
strncmp(mem, a, b, n) ==
  IF n = 0 THEN 0
  ELSE IF mem[a] # mem[b] THEN (IF mem[a] < mem[b] THEN -1 ELSE 1)
  ELSE IF mem[a] = 0 THEN 0 ELSE strncmp(mem, a + 1, b + 1, n - 1)

-----------------------------------------------------------------------------
(* printf.  A format is a sequence of character codes, an argument another *)
(* one: the string of %s, or with its head the character of %c.  The       *)
(* output is what reaches the terminal; %n is a line feed.  `max' stands   *)
(* for INT_MAX.  Every part is printed whole or, when the count would pass *)
(* max, not at all.                                                        *)
PERCENT == 37
RECURSIVE TextLen(_, _)
TextLen(format, n) ==
  IF n < Len(format) /\ format[n + 1] # PERCENT THEN TextLen(format, n + 1) ELSE n

(* maxrem is unsigned: past max it wraps to a number nothing exceeds.      *)
Exceeds_OffByOne(written, amount, max) == written <= max /\ max - written <= amount
Exceeds(written, amount, max) == written <= max /\ max - written < amount

(* putchar returns what it was given, a byte as unsigned char; print goes  *)
(* on until that is EOF.                                                   *)
EOF == -1
putchar(ic) == ic
RECURSIVE print(_, _)
print(out, data) ==
  IF data = <<>> THEN [ok |-> TRUE, out |-> out]
  ELSE IF putchar(Head(data)) = EOF THEN [ok |-> FALSE, out |-> Append(out, Head(data))]
  ELSE print(Append(out, Head(data)), Tail(data))

From(s, i) == SubSeq(s, i, Len(s))
Failed(out) == [code |-> -1, out |-> out]

RECURSIVE Scan(_, _, _, _)
Scan(format, args, out, max) ==
  LET text == IF format[1] = PERCENT THEN From(format, 2) ELSE format
      amount == TextLen(text, 1)
      directive == IF Len(format) > 1 THEN format[2] ELSE 0
      arg == IF args = <<>> THEN <<>> ELSE Head(args)
      shown == IF directive = 99 THEN SubSeq(arg, 1, 1) ELSE arg
      plain == format[1] # PERCENT \/ directive = PERCENT
      part == IF plain THEN SubSeq(text, 1, amount)
              ELSE IF directive \in {99, 115} THEN shown ELSE format
      printed == print(out, part)
  IN CASE format = <<>> -> [code |-> Len(out), out |-> out]
       [] format # <<>> /\ ~plain /\ directive = 110 ->
            Scan(From(format, 3), args, Append(out, 10), max)
       [] OTHER ->
            IF Exceeds(Len(out), Len(part), max) THEN Failed(out)
            ELSE IF ~printed.ok THEN Failed(printed.out)
            ELSE IF plain THEN Scan(From(text, amount + 1), args, printed.out, max)
            ELSE IF directive \in {99, 115} THEN Scan(From(format, 3), Tail(args), printed.out, max)
            ELSE [code |-> Len(printed.out), out |-> printed.out]

printf(format, args, max) == Scan(format, args, <<>>, max)
puts(string, max) == printf(<<PERCENT, 115, 10>>, <<string>>, max)
=============================================================================
