-------------------------------- MODULE Shell --------------------------------
(***************************************************************************)
(* The console, the line editor and the recovery shell of                  *)
(* kernel/arch/i386/tty.c, from kernel_main to the reset that ends every   *)
(* session.                                                                *)
(*                                                                         *)
(* What the kernel prints is a script: the calls that are still to be made *)
(* (`out').  Only terminal_putchar, terminal_newline, terminal_initialize  *)
(* and direct assignments move the cursor; a step makes one of these.      *)
(* Colours and delays are left out, and so are the texts: each may have    *)
(* any of the lengths TextLens.  A command word is one key.                *)
(***************************************************************************)
EXTENDS Integers, Sequences

CONSTANTS
  VGA_WIDTH, VGA_HEIGHT,
  BufLen,      \* sizeof(input_buffer)
  WordSize,    \* modulus of size_t
  UserLen,     \* strlen("potato")
  HostLen,     \* strlen(hostname)
  Deco,        \* the "@" and " /> " of the prompt: 5
  NullLen,     \* strlen of what is at address 0
  Margin,      \* 6: row and column at which the boxed screens start
  UnOffset,    \* where `un' looks for the name: 8 bytes into the line
  TextLens,    \* lengths a fixed text may have
  MaxEvents,   \* MAX_EVENTS
  Keys         \* what read_keyboard may return

NUL == "NUL"
FIXED == -1    \* username = "potato"
NULL == -2     \* username = NULL

VARIABLES
  row, col,     \* terminal_row, terminal_column
  buffer,       \* input_buffer
  index,        \* input_buffer_index
  user,         \* username: FIXED, NULL, or an offset in the input buffer
  fsinit, exitHKIloop,
  size,         \* events in the log
  pc,           \* what the kernel is doing
  out,          \* calls still to be made
  left,         \* characters of the prompt still to be written
  typed,        \* history: the characters put in the line since the prompt
  coloured,     \* history: the colour key was used in this line
  ran           \* history: the last command, until the next key

cursor == <<row, col>>
line == <<buffer, index, user, typed, coloured, ran>>
flags == <<fsinit, exitHKIloop>>
vars == <<cursor, line, flags, size, pc, out, left>>

-----------------------------------------------------------------------------
(* The cursor.  terminal_scroll clears the screen and keeps the column.    *)
NextRow_Unwrapped(r) == r + 1
NextRow(r) == IF r + 1 = VGA_HEIGHT THEN 0 ELSE r + 1
terminal_scroll(r) == IF r = VGA_HEIGHT - 1 THEN 1 ELSE r
terminal_putchar ==
  IF col + 1 = VGA_WIDTH
    THEN col' = 0 /\ row' = NextRow(terminal_scroll(row))
    ELSE col' = col + 1 /\ row' = terminal_scroll(row)
terminal_newline == row' = NextRow(row) /\ col' = 0

-----------------------------------------------------------------------------
(* Scripts: sequences of calls.                                            *)
Op(o) == [op |-> o, n |-> 0]
Nl == Op("newline")
Text == Op("text")
Chars(n) == [op |-> "chars", n |-> n]
Row(r) == [op |-> "row", n |-> r]
Col(c) == [op |-> "col", n |-> c]
terminal_initialize == Row(1)

task == <<Nl, Op("event"), Op("event"), Text>>
tasks(k) == [i \in 1 .. 4 * k |-> task[((i - 1) % 4) + 1]]

m == <<terminal_initialize, terminal_initialize>>
Boxed == <<Row(Margin), Nl, Col(Margin), Text>>
fixflash == Boxed \o <<Op("key"), Col(Margin), Chars(1)>>
displayscreen == Boxed \o <<Col(Margin), Op("key"), Op("ask")>>
setup == <<terminal_initialize>> \o task \o fixflash \o displayscreen \o <<Nl>> \o task

(* The FAT is never initialised, so the kernel always enters the shell of  *)
(* the recovery path.                                                      *)
mainfat == 1
setup_paging == task \o <<Text>> \o tasks(2) \o <<Text>> \o tasks(5)
set_vga_mode == tasks(9)
read_rtc == tasks(2)
shell == task \o <<Op("prompt")>>   \* up to its loop
kernel_main ==
  setup \o <<terminal_initialize, Row(1), Nl, Text, Nl>> \o task \o setup_paging \o tasks(4)
  \o set_vga_mode \o read_rtc \o tasks(3) \o shell

reboot == task \o <<Op("reset")>> \o tasks(2) \o <<Op("halt")>>
panic ==
  <<Text, Row(Margin), Nl, Col(Margin), Text, Nl, Col(Margin), Text, Nl, Col(Margin), Text,
    Nl, Nl, Col(Margin), Text, Nl, Col(Margin), Text, Nl, Nl, Nl, Col(Margin), Text, Nl,
    Row(VGA_HEIGHT - 3), Col(0), Text, Col(0), Row(VGA_HEIGHT - 2), Chars(VGA_WIDTH)>>
  \o reboot
shutdown ==
  tasks(2) \o <<Op("off")>> \o task \o <<Op("off")>> \o task \o <<Op("off")>>
  \o tasks(2) \o panic
nyan == [i \in 1 .. 28 |-> IF i % 2 = 1 THEN Text ELSE Nl]

-----------------------------------------------------------------------------
(* One call of the script.                                                 *)
Doing(o) == pc \in {"boot", "run", "pick", "panic", "color"} /\ out # <<>> /\ Head(out).op = o
Done == out' = Tail(out) /\ UNCHANGED pc

Newline == Doing("newline") /\ terminal_newline /\ Done /\ UNCHANGED <<line, flags, size, left>>
WriteString ==
  /\ Doing("text")
  /\ \E n \in TextLens : out' = <<Chars(n)>> \o Tail(out)
  /\ UNCHANGED <<cursor, line, flags, size, pc, left>>
CharsLeft == Head(out).n - 1
Write ==
  /\ Doing("chars")
  /\ IF Head(out).n = 0
       THEN Done /\ UNCHANGED cursor
       ELSE /\ terminal_putchar
            /\ out' = <<Chars(CharsLeft)>> \o Tail(out) /\ UNCHANGED pc
  /\ UNCHANGED <<line, flags, size, left>>
SetRow == Doing("row") /\ row' = Head(out).n /\ Done /\ UNCHANGED <<col, line, flags, size, left>>
SetCol == Doing("col") /\ col' = Head(out).n /\ Done /\ UNCHANGED <<row, line, flags, size, left>>

LogSize_OneTooMany == IF size <= MaxEvents THEN size + 1 ELSE size
LogSize == IF size < MaxEvents THEN size + 1 ELSE size
addevent == Doing("event") /\ size' = LogSize /\ Done /\ UNCHANGED <<cursor, line, flags, left>>

(* The keys fixflash and displayscreen wait for; `y' to the second screen  *)
(* runs three more.                                                        *)
Key == Doing("key") /\ Done /\ UNCHANGED <<cursor, line, flags, size, left>>
Answer(k) ==
  /\ Doing("ask") /\ terminal_putchar /\ UNCHANGED pc
  /\ out' = IF k = "y" THEN m \o fixflash \o fixflash \o Tail(out) ELSE Tail(out)
  /\ UNCHANGED <<line, flags, size, left>>

(* The `color' command never ends: a key, the column moved on without a    *)
(* test, then nyan, which sets the row and starts with a newline.          *)
Spin ==
  /\ Doing("spin")
  /\ col' = col + 1 /\ row' = 1
  /\ out' = <<Nl>> \o nyan \o out
  /\ UNCHANGED <<line, flags, size, pc, left>>

(* Ports that turn the machine off or reset it, if it has them.            *)
PowerPort_Waits == (Doing("off") \/ Doing("reset")) /\ UNCHANGED vars
PowerPort ==
  /\ Doing("off") \/ Doing("reset")
  /\ \/ Done
     \/ pc' = "off" /\ out' = <<>>
  /\ UNCHANGED <<cursor, line, flags, size, left>>
Halt == Doing("halt") /\ pc' = "halted" /\ out' = <<>> /\ UNCHANGED <<cursor, line, flags, size, left>>

Back == pc = "pick" /\ out = <<>> /\ pc' = "shell" /\ UNCHANGED <<cursor, line, flags, size, out, left>>

-----------------------------------------------------------------------------
(* Strings in the input buffer.                                            *)
StrEnd(b, k) == CHOOSE e \in k .. BufLen - 1 : b[e] = NUL /\ \A j \in k .. e - 1 : b[j] # NUL
CStr(b, k) == [i \in 1 .. StrEnd(b, k) - k |-> b[k + i - 1]]
UserLength(b, u) ==
  CASE u = FIXED -> UserLen [] u = NULL -> NullLen [] OTHER -> StrEnd(b, u) - u
PromptLength(b, u) == UserLength(b, u) + HostLen + Deco

(* strtok(input_buffer + k, " "): the token, and the buffer it leaves.     *)
TokenStart(b, k) ==
  CHOOSE s \in k .. BufLen - 1 : b[s] # "space" /\ \A j \in k .. s - 1 : b[j] = "space"
Delimiter(k) == k \in {"space", NUL}
TokenEnd(b, s) ==
  CHOOSE e \in s .. BufLen - 1 : Delimiter(b[e]) /\ \A j \in s .. e - 1 : ~Delimiter(b[j])
Token(b, k) == IF b[TokenStart(b, k)] = NUL THEN NULL ELSE TokenStart(b, k)
Cut(b, k) == IF Token(b, k) = NULL THEN b ELSE [b EXCEPT ![TokenEnd(b, Token(b, k))] = NUL]

-----------------------------------------------------------------------------
(* The prompt, and the line editor of handle_keyboard_input.               *)
Prompt ==
  /\ Doing("prompt")
  /\ terminal_newline
  /\ pc' = "prompt" /\ out' = <<>> /\ left' = PromptLength(buffer, user)
  /\ UNCHANGED <<line, flags, size>>
PromptLeft_Narrow == IF left > PromptLength(buffer, FIXED) THEN left ELSE left - 1
PromptLeft == left - 1
PromptChar ==
  /\ pc = "prompt"
  /\ IF left = 0
       THEN pc' = "shell" /\ UNCHANGED <<cursor, left>>
       ELSE terminal_putchar /\ left' = PromptLeft /\ UNCHANGED pc
  /\ UNCHANGED <<line, flags, size, out>>

NoRun == [line |-> <<>>, typed |-> <<>>]
Waiting == pc = "shell" /\ ~exitHKIloop /\ index < BufLen

(* Each key first ends the line at the index.                              *)
Ended_Not == buffer
Ended == [buffer EXCEPT ![index] = NUL]

CanErase_Prompt == col >= PromptLength(Ended, user)
CanErase == col > PromptLength(Ended, user)
Backspace ==
  /\ Waiting /\ "bs" \in Keys
  /\ buffer' = Ended
  /\ IF CanErase
       THEN /\ col' = col - 1 /\ index' = (index - 1) % WordSize
            /\ typed' = IF typed = <<>> THEN <<>> ELSE SubSeq(typed, 1, Len(typed) - 1)
       ELSE UNCHANGED <<col, index, typed>>
  /\ ran' = NoRun
  /\ UNCHANGED <<row, user, coloured, flags, size, pc, out, left>>

HasRoom == index < BufLen - 1
Store(k) ==
  IF HasRoom
    THEN buffer' = [Ended EXCEPT ![index] = k] /\ index' = index + 1 /\ typed' = Append(typed, k)
    ELSE buffer' = Ended /\ UNCHANGED <<index, typed>>
Character(k) ==
  /\ Waiting /\ k \in Keys \ {"bs", "enter", "up"}
  /\ Store(k)
  /\ IF HasRoom THEN terminal_putchar ELSE UNCHANGED cursor
  /\ ran' = NoRun
  /\ UNCHANGED <<user, coloured, flags, size, pc, out, left>>

(* Scan code 0x48 is 'U' in the layout: the screen is cleared, the cursor  *)
(* moved to a new place, and the key goes on as the character 0.           *)
ColorKey ==
  /\ Waiting /\ "up" \in Keys
  /\ Store(NUL)
  /\ pc' = "pick"
  /\ out' = <<Row(Margin), Col(Margin), Text, Chars(IF HasRoom THEN 1 ELSE 0)>>
  /\ coloured' = TRUE /\ ran' = NoRun
  /\ UNCHANGED <<cursor, user, flags, size, left>>

-----------------------------------------------------------------------------
(* Enter.                                                                  *)
Script(c) ==
  CASE c = "le" -> <<Nl>> \o [i \in 1 .. size |-> Text]
    [] c = "m" -> m
    [] c = "clear" -> <<terminal_initialize>>
    [] c = "ppm" -> <<Nl, Text, Nl, Text, Nl, Text>>
    [] c = "help" -> <<Nl, Text, Nl>> \o [i \in 1 .. 16 |-> IF i % 2 = 1 THEN Nl ELSE Text]
    [] c = "fatinit" -> <<Nl, Text>> \o task
    [] c = "ls" -> <<Nl, Text>>
    [] OTHER -> <<>>
Quiet == {"g", "waitwrite", "panic", "exit"}
Printing == {"le", "m", "clear", "ppm", "help", "fatinit"} \cup (IF fsinit THEN {"ls"} ELSE {})
Fatal == {"reboot", "shutdown"} \cup (IF fsinit THEN {} ELSE {"ls"})
Prefixes == {"echo", "un"}

Line == CStr(Ended, 0)
Single(C) == Len(Line) = 1 /\ Line[1] \in C
Prefix(c) == Len(Line) > 0 /\ Line[1] = c
Enter == Waiting /\ "enter" \in Keys /\ index' = 0 /\ typed' = <<>> /\ coloured' = FALSE
Ran == ran' = [line |-> Line, typed |-> typed]
Reply(script) == pc' = "run" /\ out' = script \o <<Op("prompt")>>

EnterCommand ==
  /\ Enter /\ Single(Printing \cup Quiet)
  /\ buffer' = Ended
  /\ Reply(Script(Line[1])) /\ Ran
  /\ exitHKIloop' = (Line[1] = "exit")
  /\ fsinit' = IF Line[1] = "fatinit" THEN mainfat = 0 ELSE Line[1] # "panic" /\ fsinit
  /\ UNCHANGED <<cursor, user, size, left>>

EnterFatal ==
  /\ Enter /\ Single(Fatal)
  /\ buffer' = Ended
  /\ pc' = "panic"
  /\ out' = CASE Line[1] = "ls" -> <<Nl>> \o panic
              [] Line[1] = "reboot" -> reboot
              [] OTHER -> shutdown
  /\ Ran
  /\ UNCHANGED <<cursor, user, flags, size, left>>

EnterColor ==
  /\ Enter /\ Single({"color"})
  /\ buffer' = Ended
  /\ pc' = "color" /\ out' = <<Op("spin")>> /\ Ran
  /\ UNCHANGED <<cursor, user, flags, size, left>>

EnterEcho ==
  /\ Enter /\ Prefix("echo")
  /\ LET t == Token(Ended, 1)
     IN /\ buffer' = Cut(Ended, 1)
        /\ Reply(<<Nl, Chars(IF t = NULL THEN NullLen ELSE StrEnd(buffer', t) - t)>>)
  /\ Ran
  /\ UNCHANGED <<cursor, user, flags, size, left>>

EnterUn ==
  /\ Enter /\ Prefix("un")
  /\ user' = Token(Ended, UnOffset) /\ buffer' = Cut(Ended, UnOffset)
  /\ Reply(<<Nl, Text, Chars(UserLength(buffer', user'))>>) /\ Ran
  /\ UNCHANGED <<cursor, flags, size, left>>

EnterOther ==
  /\ Enter
  /\ ~Single(Printing \cup Quiet \cup Fatal \cup {"color"}) /\ \A c \in Prefixes : ~Prefix(c)
  /\ buffer' = Ended
  /\ IF index = 0
       THEN Reply(<<>>)
       ELSE Reply(<<Nl, Chars(1), Chars(Len(Line)), Chars(1), Text>>)
  /\ Ran
  /\ UNCHANGED <<cursor, user, flags, size, left>>

(* shell() returns to kernel_main, which panics.                           *)
LeaveShell ==
  /\ pc = "shell" /\ exitHKIloop
  /\ pc' = "panic" /\ out' = panic /\ index' = 0
  /\ UNCHANGED <<cursor, buffer, user, typed, coloured, ran, flags, size, left>>

-----------------------------------------------------------------------------
Init ==
  /\ row = 0 /\ col = 0
  /\ buffer = [i \in 0 .. BufLen - 1 |-> NUL] /\ index = 0 /\ user = FIXED
  /\ fsinit = FALSE /\ exitHKIloop = FALSE
  /\ size = 1
  /\ pc = "boot" /\ out = kernel_main /\ left = 0
  /\ typed = <<>> /\ coloured = FALSE /\ ran = NoRun

(* The machine is switched on again, or comes out of its reset.            *)
Restart ==
  /\ pc = "off"
  /\ row' = 0 /\ col' = 0
  /\ buffer' = [i \in 0 .. BufLen - 1 |-> NUL] /\ index' = 0 /\ user' = FIXED
  /\ fsinit' = FALSE /\ exitHKIloop' = FALSE
  /\ size' = 1
  /\ pc' = "boot" /\ out' = kernel_main /\ left' = 0
  /\ typed' = <<>> /\ coloured' = FALSE /\ ran' = NoRun

Halted == pc = "halted" /\ UNCHANGED vars

(* With the index behind the buffer the next key's end mark is written to  *)
(* memory that is not the line's: nothing is said from there on.           *)
Outside == pc = "shell" /\ ~exitHKIloop /\ index >= BufLen /\ UNCHANGED vars

Work ==
  \/ Newline \/ WriteString \/ Write \/ SetRow \/ SetCol \/ addevent
  \/ PowerPort \/ Halt \/ Back \/ Prompt \/ PromptChar \/ LeaveShell

Keyboard ==
  \/ Key \/ Spin \/ \E k \in Keys : Answer(k)
  \/ Backspace \/ ColorKey \/ \E k \in Keys : Character(k)
  \/ EnterCommand \/ EnterFatal \/ EnterColor \/ EnterEcho \/ EnterUn \/ EnterOther

Next == Work \/ Keyboard \/ Restart \/ Halted \/ Outside
Spec == Init /\ [][Next]_vars

(* The kernel runs alone on the machine: what needs no key is done.        *)
FairSpec == Spec /\ WF_vars(Work)
-----------------------------------------------------------------------------
ASSUME ConsoleAssumption ==
  /\ VGA_WIDTH \in Nat /\ VGA_HEIGHT \in Nat /\ VGA_HEIGHT > 2
  /\ Margin \in Nat /\ Margin < VGA_WIDTH /\ Margin < VGA_HEIGHT
  /\ TextLens \subseteq Nat
ASSUME LineAssumption ==
  /\ BufLen \in Nat /\ WordSize \in Nat /\ 1 < BufLen /\ BufLen < WordSize
  /\ UnOffset \in 0 .. BufLen - 1
  /\ UserLen \in Nat /\ HostLen \in Nat /\ Deco \in Nat /\ NullLen \in Nat
  /\ MaxEvents \in Nat /\ 0 < MaxEvents
  /\ NUL \notin Keys

(* The calls of a script, and the bytes of the input buffer.               *)
Ops == {"newline", "text", "chars", "row", "col", "event", "key", "ask", "spin", "off", "reset",
        "halt", "prompt"}
Chars0 == Keys \cup {NUL}

(* Every variable has the type the code gives it; the log does not grow    *)
(* past MAX_EVENTS.                                                        *)
TypeOK ==
  /\ row \in Nat /\ col \in Nat
  /\ buffer \in [0 .. BufLen - 1 -> Chars0] /\ index \in 0 .. WordSize - 1
  /\ user \in {FIXED, NULL} \cup 0 .. BufLen - 1
  /\ fsinit \in BOOLEAN /\ exitHKIloop \in BOOLEAN
  /\ size \in 1 .. MaxEvents
  /\ pc \in {"boot", "shell", "run", "pick", "prompt", "panic", "color", "off", "halted"}
  /\ out \in Seq([op : Ops, n : Nat]) /\ left \in Nat
  /\ typed \in Seq(Chars0) /\ coloured \in BOOLEAN
  /\ ran \in [line : Seq(Chars0), typed : Seq(Chars0)]

(* terminal_putentryat computes an address from the cursor and checks      *)
(* nothing: through all the texts, wraps, scrolls, cleared screens and     *)
(* assignments to the cursor it must be on the screen whenever a character *)
(* may be written.  The one moment it may be past the edge is in `color',  *)
(* which moves the column and then starts a new line.                      *)
OnScreen == row \in 0 .. VGA_HEIGHT - 1 /\ col \in 0 .. VGA_WIDTH - 1
CursorOnScreen ==
  OnScreen \/ (Doing("newline") /\ row \in 0 .. VGA_HEIGHT - 1 /\ col = VGA_WIDTH)

(* handle_keyboard_input ends the line at the index with every key ("Null- *)
(* terminate the input"): the index must be in the buffer.  It is guarded  *)
(* from above ("input_buffer_index < sizeof(input_buffer) - 1") and from   *)
(* below only by the COLUMN.  The colour key moves the column alone, and a *)
(* name inside the buffer changes the length the column is compared with,  *)
(* so this does not hold of every line.                                    *)
IndexInBuffer == index \in 0 .. BufLen - 1

(* Nothing else brings the two out of step: in a line without the colour   *)
(* key, under a name that does not lie in the buffer, the index stays in   *)
(* it, whatever wraps at the edge of the screen, whatever ran before and   *)
(* whatever earlier lines did.                                             *)
IndexKept == ~coloured /\ user \in {FIXED, NULL} => IndexInBuffer

(* The command handle_keyboard_input looks up is what was typed since the  *)
(* prompt and not erased, up to the 0 the colour key leaves: no key lost,  *)
(* none left over from an earlier, longer line.                            *)
CommandAsTyped ==
  LET n == Len(ran.line)
  IN /\ n <= Len(ran.typed) /\ ran.line = SubSeq(ran.typed, 1, n)
     /\ n < Len(ran.typed) => ran.typed[n + 1] = NUL

(* After panic "the system will automatically reboot": it is reset, or     *)
(* halts if it cannot be.                                                  *)
PanicReboots == pc = "panic" ~> pc \in {"off", "halted"}

(* Every command but `color' ends: with the prompt, a reset or a halt.     *)
CommandsEnd == pc \in {"run", "pick", "prompt"} ~> pc \in {"shell", "off", "halted"}
=============================================================================
