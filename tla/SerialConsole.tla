---------------------------- MODULE SerialConsole ----------------------------
(***************************************************************************)
(* The serial consoles of the kernel: lib_c.c drives an 8250 through its   *)
(* ports, uart_init and uart_putc of tty.c a PL011 through its registers.  *)
(* Both wait for the device by polling.  The processor, the device and the *)
(* person at the other end take steps of their own.                        *)
(*                                                                         *)
(* The processor runs one session.  On the 8250 it reads a number with     *)
(* gethex, prints it and ends the line; on the PL011 it sets              *)
(* the device up and sends a text with uart_puts.  A character is its      *)
(* code.  `due' is the text the running print call has still to send.      *)
(***************************************************************************)
EXTENDS Integers, Sequences

CONSTANTS
  Digits,      \* digits the session asks gethex for
  Keys,        \* codes the person may type
  MaxTyped,    \* bound: keys typed
  Text         \* what uart_puts sends

LF == 10
CR == 13
NoChar == -1

VARIABLES
  dev,     \* "8250" or "PL011"
  reg,     \* the PL011 control registers
  pc,      \* uart_init's steps, "read", "digit", "print", "done", "failed"
  echo,    \* gethex's echo argument
  due,     \* characters still to be handed to the device
  num,     \* the number gethex builds
  got,     \* digits it has taken
  crSent,  \* putcc has sent the CR of the LF in front of `due'
  thr,     \* transmit holding register
  rhr,     \* receive register
  line,    \* what the other end has received
  taken,   \* history: the characters getcc returned
  typed    \* keys typed so far

serialVars == <<dev, reg, pc, echo, due, num, got, crSent, thr, rhr, line, taken, typed>>

-----------------------------------------------------------------------------
lowercase(c) == IF c \in 65 .. 90 THEN c + 32 ELSE c
uppercase(c) == IF c \in 97 .. 122 THEN c - 32 ELSE c

(* gethex: the value of a digit, or -1.                                    *)
HexValue_NoTen(c) ==
  LET b == lowercase(c)
  IN IF b < 48 \/ b > 102 \/ (b > 57 /\ b < 97) THEN -1 ELSE IF b > 57 THEN b - 97 ELSE b - 48
HexValue(c) ==
  LET b == lowercase(c)
  IN IF b < 48 \/ b > 102 \/ (b > 57 /\ b < 97) THEN -1
     ELSE IF b > 57 THEN b - 97 + 10 ELSE b - 48

(* printhex: the text of num in so many digits.                            *)
printhex(n, digits) ==
  [i \in 1 .. digits |->
     LET d == (n \div 16 ^ (digits - i)) % 16 IN IF d < 10 THEN d + 48 ELSE d + 55]

(* printsss: n characters, a full stop for what is not above a blank; char *)
(* is signed.                                                              *)
printsss(s, n) == [i \in 1 .. n |-> IF s[i] \in 33 .. 127 THEN s[i] ELSE 46]

(* _printInt: digits are made from the last one on.  C division truncates, *)
(* so the digits of a negative number are negative, and 0 has no digit.    *)
CDiv(a, b) == IF a >= 0 THEN a \div b ELSE -((-a) \div b)
CMod(a, b) == a - CDiv(a, b) * b
DigitChar(n) == IF n < 10 THEN n + 48 ELSE n - 10 + 65
RECURSIVE printInt(_, _)
printInt(val, base) ==
  IF val = 0 THEN <<>> ELSE Append(printInt(CDiv(val, base), base), DigitChar(CMod(val, base)))

(* _printf: %d and %x take a number, %s a string; another character after  *)
(* the percent sign is left to be printed in its turn.                     *)
RECURSIVE lib_printf(_, _)
lib_printf(fmt, args) ==
  LET directive == IF Len(fmt) > 1 THEN fmt[2] ELSE 0
      rest(n) == SubSeq(fmt, n, Len(fmt))
  IN CASE fmt = <<>> -> <<>>
       [] fmt # <<>> /\ fmt[1] = 37 /\ directive = 100 ->
            printInt(Head(args), 10) \o lib_printf(rest(3), Tail(args))
       [] fmt # <<>> /\ fmt[1] = 37 /\ directive = 120 ->
            printInt(Head(args), 16) \o lib_printf(rest(3), Tail(args))
       [] fmt # <<>> /\ fmt[1] = 37 /\ directive = 115 ->
            Head(args) \o lib_printf(rest(3), Tail(args))
       [] OTHER -> <<fmt[1]>> \o lib_printf(rest(2), args)

-----------------------------------------------------------------------------
Off == [CR |-> 0, IBRD |-> 0, FBRD |-> 0, LCRH |-> 0]
On == {Off, [CR |-> 1, IBRD |-> 1, FBRD |-> 0, LCRH |-> 0]}   \* as the firmware left it

SerialInit ==
  /\ dev \in {"8250", "PL011"}
  /\ reg \in IF dev = "PL011" THEN On ELSE {Off}
  /\ pc = IF dev = "PL011" THEN "CR0" ELSE "read"
  /\ echo \in IF dev = "8250" THEN BOOLEAN ELSE {FALSE}
  /\ due = IF dev = "PL011" THEN Text ELSE IF echo THEN <<32>> ELSE <<>>
  /\ num = 0 /\ got = 0 /\ crSent = FALSE
  /\ thr = NoChar /\ rhr = NoChar
  /\ line = <<>> /\ taken = <<>> /\ typed = 0

(* uart_init, one register per step.                                       *)
NextOf == [CR0 |-> "IBRD", IBRD |-> "FBRD", FBRD |-> "LCRH", LCRH |-> "CR", CR |-> "print"]
InitValue == [CR0 |-> 0, IBRD |-> 1, FBRD |-> 40, LCRH |-> 96, CR |-> 769]
uart_init ==
  /\ pc \in DOMAIN NextOf
  /\ reg' = [reg EXCEPT ![IF pc = "CR0" THEN "CR" ELSE pc] = InitValue[pc]]
  /\ pc' = NextOf[pc]
  /\ UNCHANGED <<dev, echo, due, num, got, crSent, thr, rhr, line, taken, typed>>

(* putcc: wait until the 8250 can take a character, give it one; in front  *)
(* of an LF it sends a CR first.                                           *)
NeedsCR == Head(due) = LF /\ ~crSent
Sending == dev = "8250" /\ due # <<>>
putcc_WrongBit ==
  /\ Sending
  /\ rhr # NoChar /\ thr = NoChar
  /\ thr' = IF NeedsCR THEN CR ELSE Head(due)
  /\ due' = IF NeedsCR THEN due ELSE Tail(due)
  /\ crSent' = NeedsCR
  /\ UNCHANGED <<dev, reg, pc, echo, num, got, rhr, line, taken, typed>>
putcc ==
  /\ Sending
  /\ thr = NoChar
  /\ thr' = IF NeedsCR THEN CR ELSE Head(due)
  /\ due' = IF NeedsCR THEN due ELSE Tail(due)
  /\ crSent' = NeedsCR
  /\ UNCHANGED <<dev, reg, pc, echo, num, got, rhr, line, taken, typed>>

(* uart_putc, the same on the PL011 and without the CR; uart_puts calls it *)
(* for one character after the other.                                      *)
uart_putc ==
  /\ dev = "PL011" /\ pc = "print" /\ due # <<>>
  /\ thr = NoChar
  /\ thr' = Head(due) /\ due' = Tail(due)
  /\ UNCHANGED <<dev, reg, pc, echo, num, got, crSent, rhr, line, taken, typed>>

(* getcc: wait for a character, take it, echo it if asked to.              *)
getcc ==
  /\ pc = "read" /\ due = <<>>
  /\ rhr # NoChar
  /\ rhr' = NoChar
  /\ taken' = Append(taken, rhr)
  /\ due' = IF echo THEN <<rhr>> ELSE <<>>
  /\ pc' = "digit"
  /\ UNCHANGED <<dev, reg, echo, num, got, crSent, thr, line, typed>>

(* gethex, once getcc has returned: refuse the character or add its value; *)
(* after the last digit the session prints the number, and with printsss   *)
(* the characters it was read from.                                        *)
Shown(n, read) == printhex(n, Digits) \o printsss(read, Digits) \o <<LF>>
gethex ==
  /\ pc = "digit" /\ due = <<>>
  /\ LET v == HexValue(taken[Len(taken)])
         n == num * 16 + v
     IN IF v = -1 THEN pc' = "failed" /\ UNCHANGED <<num, got, due>>
        ELSE /\ num' = n /\ got' = got + 1
             /\ pc' = IF got + 1 = Digits THEN "print" ELSE "read"
             /\ due' = IF got + 1 = Digits THEN Shown(n, taken) ELSE <<>>
  /\ UNCHANGED <<dev, reg, echo, crSent, thr, rhr, line, taken, typed>>

Return ==
  /\ pc = "print" /\ due = <<>>
  /\ pc' = "done"
  /\ UNCHANGED <<dev, reg, echo, due, num, got, crSent, thr, rhr, line, taken, typed>>

(* The device moves the held character to the line; the PL011 does so only *)
(* with itself and its transmitter on (bits 0 and 8 of CR).                *)
Sends == dev = "PL011" => reg.CR % 2 = 1 /\ (reg.CR \div 256) % 2 = 1
Transmit ==
  /\ thr # NoChar /\ Sends
  /\ line' = Append(line, thr) /\ thr' = NoChar
  /\ UNCHANGED <<dev, reg, pc, echo, due, num, got, crSent, rhr, taken, typed>>

(* A key arrives; one that was not read yet is overwritten.                *)
Type ==
  /\ dev = "8250" /\ typed < MaxTyped
  /\ \E k \in Keys : rhr' = k
  /\ typed' = typed + 1
  /\ UNCHANGED <<dev, reg, pc, echo, due, num, got, crSent, thr, line, taken>>

SerialStep == putcc \/ uart_putc \/ getcc \/ gethex \/ Return \/ uart_init
SerialNext == SerialStep \/ Transmit \/ Type

-----------------------------------------------------------------------------
(* When the session is over, the other end has received, in this order and *)
(* nothing else: the blank and the echo of the characters getcc took, the  *)
(* same digits in capitals as printhex shows them, the characters as they  *)
(* are (printsss), and the end of the line; on the PL011 the text as it    *)
(* is.  Typing over an unread key loses keys, never the agreement of echo  *)
(* and number.                                                             *)
LineShowsTheNumber ==
  (pc = "done" /\ thr = NoChar) =>
     line = IF dev = "PL011" THEN Text
            ELSE (IF echo THEN <<32>> \o taken ELSE <<>>)
                 \o [i \in 1 .. Digits |-> uppercase(taken[i])] \o taken \o <<CR, LF>>

(* On the 8250 every line feed that has reached the other end was sent     *)
(* right behind a carriage return (putcc).                                 *)
LinesEndWithCR ==
  dev = "8250" => \A i \in 1 .. Len(line) : line[i] = LF => i > 1 /\ line[i - 1] = CR

(* Whatever is handed to putcc or uart_puts is sent in the end: the        *)
(* polling loops end although the device decides when.                     *)
OutputDrains == due # <<>> ~> due = <<>>
=============================================================================
