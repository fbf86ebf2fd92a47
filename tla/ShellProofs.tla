----------------------------- MODULE ShellProofs -----------------------------
(* Proofs about Shell: the cursor and the line index stay in range.        *)
EXTENDS Shell, SequenceTheorems, WellFoundedInduction, TLAPS

(* The calls a script may hold: those that set the cursor keep it on the   *)
(* screen.                                                                 *)
Call == [op : Ops, n : Nat]
SafeCall ==
  {o \in Call : /\ o.op = "row" => o.n < VGA_HEIGHT
                /\ o.op = "col" => o.n < VGA_WIDTH}
SafeScript == Seq(SafeCall)

-----------------------------------------------------------------------------
(* The single calls the scripts are made of.                               *)
LEMMA SafeCalls ==
  /\ Nl \in SafeCall /\ Text \in SafeCall
  /\ \A n \in Nat : Chars(n) \in SafeCall
  /\ \A r \in 0 .. VGA_HEIGHT - 1 : Row(r) \in SafeCall
  /\ \A c \in 0 .. VGA_WIDTH - 1 : Col(c) \in SafeCall
  /\ \A o \in {"event", "key", "ask", "prompt", "reset", "halt", "off", "spin"} : Op(o) \in SafeCall
  /\ terminal_initialize \in SafeCall /\ Row(Margin) \in SafeCall /\ Col(Margin) \in SafeCall
<1>1. \A o \in Ops, n \in Nat :
        o # "row" /\ o # "col" => [op |-> o, n |-> n] \in SafeCall
  BY DEF SafeCall, Call
<1>2. ASSUME NEW r \in 0 .. VGA_HEIGHT - 1 PROVE Row(r) \in SafeCall
  BY <1>2, ConsoleAssumption DEF SafeCall, Call, Row, Ops
<1>3. ASSUME NEW c \in 0 .. VGA_WIDTH - 1 PROVE Col(c) \in SafeCall
  BY <1>3, ConsoleAssumption DEF SafeCall, Call, Col, Ops
<1>4. ASSUME NEW o \in {"newline", "text", "event", "key", "ask", "prompt", "reset", "halt",
                        "off", "spin"}
      PROVE  Op(o) \in SafeCall
  <2>1. o \in Ops /\ o # "row" /\ o # "col"
    BY <1>4 DEF Ops
  <2> QED
    BY <1>1, <2>1 DEF Op
<1>5. ASSUME NEW n \in Nat PROVE Chars(n) \in SafeCall
  BY <1>1 DEF Chars, Ops
<1>6. 1 \in 0 .. VGA_HEIGHT - 1 /\ Margin \in 0 .. VGA_HEIGHT - 1 /\ Margin \in 0 .. VGA_WIDTH - 1
  BY ConsoleAssumption
<1> QED
  BY <1>2, <1>3, <1>4, <1>5, <1>6 DEF Nl, Text, terminal_initialize

(* Scripts are put together from scripts.                                  *)
LEMMA Joined ==
  ASSUME NEW s \in SafeScript, NEW t \in SafeScript
  PROVE  s \o t \in SafeScript
  BY ConcatProperties DEF SafeScript

(* task, alone and repeated.                                               *)
LEMMA SafeTask == task \in SafeScript /\ \A k \in Nat : tasks(k) \in SafeScript
<1>1. task \in SafeScript /\ \A i \in 1 .. 4 : task[i] \in SafeCall
  BY SafeCalls DEF task, SafeScript
<1>2. ASSUME NEW k \in Nat PROVE tasks(k) \in SafeScript
  <2>1. \A i \in 1 .. 4 * k : ((i - 1) % 4) + 1 \in 1 .. 4
    OBVIOUS
  <2>2. 4 * k \in Nat
    OBVIOUS
  <2> QED
    BY <1>1, <2>1, <2>2 DEF tasks, SafeScript
<1> QED
  BY <1>1, <1>2
(* The screens of setup and everything kernel_main prints before the       *)
(* first prompt.                                                           *)
LEMMA SafeBoot ==
  /\ m \in SafeScript /\ fixflash \in SafeScript /\ kernel_main \in SafeScript
<1>1. m \in SafeScript /\ Boxed \in SafeScript
  BY SafeCalls DEF m, Boxed, SafeScript
<1>2. /\ <<Op("key"), Col(Margin), Chars(1)>> \in SafeScript
      /\ <<Col(Margin), Op("key"), Op("ask")>> \in SafeScript
      /\ <<Nl>> \in SafeScript /\ <<Text>> \in SafeScript /\ <<terminal_initialize>> \in SafeScript
      /\ <<Op("prompt")>> \in SafeScript
  BY SafeCalls DEF SafeScript
<1>3. fixflash \in SafeScript /\ displayscreen \in SafeScript
  BY <1>1, <1>2, Joined DEF fixflash, displayscreen
<1>4. setup \in SafeScript
  <2>1. <<terminal_initialize>> \o task \in SafeScript
    BY <1>2, SafeTask, Joined
  <2>2. <<terminal_initialize>> \o task \o fixflash \in SafeScript
    BY <2>1, <1>3, Joined
  <2>3. <<terminal_initialize>> \o task \o fixflash \o displayscreen \in SafeScript
    BY <2>2, <1>3, Joined
  <2>4. <<terminal_initialize>> \o task \o fixflash \o displayscreen \o <<Nl>> \in SafeScript
    BY <2>3, <1>2, Joined
  <2> QED
    BY <2>4, SafeTask, Joined DEF setup
<1>5. <<terminal_initialize, Row(1), Nl, Text, Nl>> \in SafeScript
  BY SafeCalls DEF SafeScript, terminal_initialize
<1>6. setup \o <<terminal_initialize, Row(1), Nl, Text, Nl>> \in SafeScript
  BY <1>4, <1>5, Joined
<1>7. \A s \in SafeScript : s \o task \in SafeScript /\ s \o <<Text>> \in SafeScript
  BY <1>2, SafeTask, Joined
<1>8. \A s \in SafeScript, k \in Nat : s \o tasks(k) \in SafeScript
  BY SafeTask, Joined
<1>9. setup_paging \in SafeScript
  <2>1. task \o <<Text>> \in SafeScript
    BY <1>7, SafeTask
  <2>2. task \o <<Text>> \o tasks(2) \in SafeScript
    BY <2>1, <1>8
  <2>3. task \o <<Text>> \o tasks(2) \o <<Text>> \in SafeScript
    BY <2>2, <1>7
  <2> QED
    BY <2>3, <1>8 DEF setup_paging
<1>10. kernel_main \in SafeScript
  <2> DEFINE A == setup \o <<terminal_initialize, Row(1), Nl, Text, Nl>> \o task
             B == A \o setup_paging \o tasks(4)
             C == B \o set_vga_mode \o read_rtc \o tasks(3)
  <2>1. A \in SafeScript
    BY <1>6, <1>7
  <2>2. A \o setup_paging \in SafeScript
    BY <2>1, <1>9, Joined
  <2>3. B \in SafeScript
    BY <2>2, <1>8
  <2>4. B \o set_vga_mode \in SafeScript
    BY <2>3, <1>8 DEF set_vga_mode
  <2>5. B \o set_vga_mode \o read_rtc \in SafeScript
    BY <2>4, <1>8 DEF read_rtc
  <2>6. C \in SafeScript
    BY <2>5, <1>8
  <2>7. shell \in SafeScript
    BY <1>2, SafeTask, Joined DEF shell
  <2>8. kernel_main = C \o shell
    BY DEF kernel_main
  <2> HIDE DEF C
  <2> QED
    BY <2>6, <2>7, <2>8, Joined
<1> QED
  BY <1>1, <1>3, <1>10

(* The last screens: panic, reboot, shutdown.                              *)
LEMMA SafeEnd ==
  /\ reboot \in SafeScript /\ panic \in SafeScript /\ shutdown \in SafeScript
<1>1. <<Op("reset")>> \in SafeScript /\ <<Op("halt")>> \in SafeScript /\ <<Op("off")>> \in SafeScript
  BY SafeCalls DEF SafeScript
<1>2. tasks(2) \in SafeScript
  BY SafeTask
<1>3. reboot \in SafeScript
  <2>1. task \o <<Op("reset")>> \in SafeScript
    BY <1>1, SafeTask, Joined
  <2>2. task \o <<Op("reset")>> \o tasks(2) \in SafeScript
    BY <2>1, <1>2, Joined
  <2> QED
    BY <2>2, <1>1, Joined DEF reboot
<1>4. panic \in SafeScript
  <2> DEFINE Screen ==
        <<Text, Row(Margin), Nl, Col(Margin), Text, Nl, Col(Margin), Text, Nl, Col(Margin), Text,
          Nl, Nl, Col(Margin), Text, Nl, Col(Margin), Text, Nl, Nl, Nl, Col(Margin), Text, Nl,
          Row(VGA_HEIGHT - 3), Col(0), Text, Col(0), Row(VGA_HEIGHT - 2), Chars(VGA_WIDTH)>>
  <2>1. VGA_HEIGHT - 3 \in 0 .. VGA_HEIGHT - 1 /\ VGA_HEIGHT - 2 \in 0 .. VGA_HEIGHT - 1
        /\ 0 \in 0 .. VGA_WIDTH - 1 /\ VGA_WIDTH \in Nat
    BY ConsoleAssumption
  <2>2. /\ Row(VGA_HEIGHT - 3) \in SafeCall /\ Row(VGA_HEIGHT - 2) \in SafeCall
        /\ Col(0) \in SafeCall /\ Chars(VGA_WIDTH) \in SafeCall
    BY <2>1, SafeCalls
  <2>3. Screen \in SafeScript
    BY <2>2, SafeCalls DEF SafeScript
  <2> QED
    BY <2>3, <1>3, Joined DEF panic
<1>5. shutdown \in SafeScript
  <2>1. tasks(2) \o <<Op("off")>> \in SafeScript
    BY <1>1, <1>2, Joined
  <2>2. tasks(2) \o <<Op("off")>> \o task \in SafeScript
    BY <2>1, SafeTask, Joined
  <2>3. tasks(2) \o <<Op("off")>> \o task \o <<Op("off")>> \in SafeScript
    BY <2>2, <1>1, Joined
  <2>4. tasks(2) \o <<Op("off")>> \o task \o <<Op("off")>> \o task \in SafeScript
    BY <2>3, SafeTask, Joined
  <2>5. tasks(2) \o <<Op("off")>> \o task \o <<Op("off")>> \o task \o <<Op("off")>> \in SafeScript
    BY <2>4, <1>1, Joined
  <2>6. tasks(2) \o <<Op("off")>> \o task \o <<Op("off")>> \o task \o <<Op("off")>> \o tasks(2)
        \in SafeScript
    BY <2>5, <1>2, Joined
  <2> QED
    BY <2>6, <1>4, Joined DEF shutdown
<1> QED
  BY <1>3, <1>4, <1>5

(* What the commands print.                                                *)
LEMMA SafeCommand ==
  ASSUME size \in Nat, NEW c
  PROVE  Script(c) \in SafeScript /\ nyan \in SafeScript
<1>1. nyan \in SafeScript
  BY SafeCalls DEF nyan, SafeScript
<1>2. <<Nl>> \o [i \in 1 .. size |-> Text] \in SafeScript
  <2>1. [i \in 1 .. size |-> Text] \in SafeScript /\ <<Nl>> \in SafeScript
    BY SafeCalls DEF SafeScript
  <2> QED
    BY <2>1, Joined
<1>3. <<Nl, Text, Nl>> \o [i \in 1 .. 16 |-> IF i % 2 = 1 THEN Nl ELSE Text] \in SafeScript
  <2>1. [i \in 1 .. 16 |-> IF i % 2 = 1 THEN Nl ELSE Text] \in SafeScript /\ <<Nl, Text, Nl>> \in SafeScript
    BY SafeCalls DEF SafeScript
  <2> QED
    BY <2>1, Joined
<1>4. <<Nl, Text>> \o task \in SafeScript
  <2>1. <<Nl, Text>> \in SafeScript
    BY SafeCalls DEF SafeScript
  <2> QED
    BY <2>1, SafeTask, Joined
<1>5. /\ <<terminal_initialize>> \in SafeScript /\ <<Nl, Text, Nl, Text, Nl, Text>> \in SafeScript
      /\ <<Nl, Text>> \in SafeScript /\ <<>> \in SafeScript
  BY SafeCalls DEF SafeScript
<1> QED
  BY <1>1, <1>2, <1>3, <1>4, <1>5, SafeBoot DEF Script
-----------------------------------------------------------------------------
(* Strings in the input buffer.                                            *)
Buffers == {b \in [0 .. BufLen - 1 -> Chars0] : b[BufLen - 1] = NUL}

(* A nonempty set of naturals has a least element.                         *)
LEMMA LeastNat ==
  ASSUME NEW T, T \subseteq Nat, T # {}
  PROVE  \E x \in T : \A y \in T : x <= y
<1>1. IsWellFoundedOn(OpToRel(<, Nat), Nat)
  BY NatLessThanWellFounded, Zenon
<1>2. PICK x \in T : \A y \in T : ~ (<<y, x>> \in OpToRel(<, Nat))
  BY <1>1, WFMin
<1>3. \A y \in T : ~(y < x)
  BY <1>2 DEF OpToRel
<1> QED
  BY <1>3

(* The last byte of the input buffer is never anything but 0, so strlen    *)
(* ends inside it.                                                         *)
LEMMA StrEndType ==
  ASSUME NEW b \in Buffers, NEW k \in 0 .. BufLen - 1
  PROVE  StrEnd(b, k) \in k .. BufLen - 1 /\ \A j \in k .. StrEnd(b, k) - 1 : b[j] # NUL
<1> DEFINE T == {e \in k .. BufLen - 1 : b[e] = NUL}
<1>1. T \subseteq Nat /\ BufLen - 1 \in T
  BY LineAssumption DEF Buffers
<1>2. PICK e \in T : \A y \in T : e <= y
  BY <1>1, LeastNat
<1>3. b[e] = NUL /\ \A j \in k .. e - 1 : b[j] # NUL
  BY <1>2, LineAssumption
<1>4. e \in k .. BufLen - 1
  BY <1>2
<1> HIDE DEF T
<1> QED
  BY <1>3, <1>4 DEF StrEnd

(* A string of the buffer is a sequence of its characters.                 *)
LEMMA CStrType ==
  ASSUME NEW b \in Buffers, NEW k \in 0 .. BufLen - 1
  PROVE  CStr(b, k) \in Seq(Chars0) /\ Len(CStr(b, k)) = StrEnd(b, k) - k
<1>1. StrEnd(b, k) - k \in Nat /\ StrEnd(b, k) \in 0 .. BufLen - 1
  BY StrEndType, LineAssumption
<1>2. \A i \in 1 .. StrEnd(b, k) - k : b[k + i - 1] \in Chars0
  BY <1>1, LineAssumption DEF Buffers
<1> QED
  BY <1>1, <1>2 DEF CStr

(* strtok returns NULL or a place in the buffer, and only ever stores 0.   *)
LEMMA TokenType ==
  ASSUME NEW b \in Buffers, NEW k \in 0 .. BufLen - 1
  PROVE  /\ Token(b, k) \in {NULL} \cup 0 .. BufLen - 1
         /\ Cut(b, k) \in Buffers
<1> DEFINE T == {s \in k .. BufLen - 1 : b[s] # "space"}
<1>1. T \subseteq Nat /\ BufLen - 1 \in T
  BY LineAssumption DEF Buffers, NUL
<1>2. PICK s \in T : \A y \in T : s <= y
  BY <1>1, LeastNat
<1>3. s \in k .. BufLen - 1 /\ b[s] # "space" /\ \A j \in k .. s - 1 : b[j] = "space"
  BY <1>2, LineAssumption
<1>4. TokenStart(b, k) \in 0 .. BufLen - 1
  BY <1>3, LineAssumption DEF TokenStart
<1>5. NUL \in Chars0
  BY DEF Chars0
<1>6. ASSUME NEW e PROVE [b EXCEPT ![e] = NUL] \in Buffers
  <2> DEFINE c == [b EXCEPT ![e] = NUL]
  <2>1. b \in [0 .. BufLen - 1 -> Chars0] /\ b[BufLen - 1] = NUL
    BY DEF Buffers
  <2>2. c \in [0 .. BufLen - 1 -> Chars0]
    BY <2>1, <1>5
  <2>3. c[BufLen - 1] = NUL
    BY <2>1, LineAssumption
  <2> QED
    BY <2>2, <2>3 DEF Buffers
<1>7. Cut(b, k) \in Buffers
  BY <1>6 DEF Cut
<1> QED
  BY <1>4, <1>7 DEF Token

(* strlen(username) is a number, wherever the name is.                     *)
LEMMA UserLengthType ==
  ASSUME NEW b \in Buffers, NEW u \in {FIXED, NULL} \cup 0 .. BufLen - 1
  PROVE  UserLength(b, u) \in Nat /\ PromptLength(b, u) \in Nat
<1>1. CASE u \in 0 .. BufLen - 1
  <2>1. u # FIXED /\ u # NULL
    BY <1>1, LineAssumption DEF FIXED, NULL
  <2>2. StrEnd(b, u) - u \in Nat
    BY <1>1, StrEndType, LineAssumption
  <2> QED
    BY <2>1, <2>2, LineAssumption DEF UserLength, PromptLength
<1>2. CASE u = FIXED \/ u = NULL
  BY <1>2, LineAssumption DEF UserLength, PromptLength, FIXED, NULL
<1> QED
  BY <1>1, <1>2

-----------------------------------------------------------------------------
(* terminal_putchar wraps and scrolls back onto the screen.                *)
LEMMA PutcharOnScreen == OnScreen /\ terminal_putchar => OnScreen'
  BY ConsoleAssumption DEF OnScreen, terminal_putchar, terminal_scroll, NextRow

(* terminal_newline does too.                                              *)
LEMMA NewlineOnScreen == CursorOnScreen /\ terminal_newline => OnScreen'
  BY ConsoleAssumption DEF CursorOnScreen, OnScreen, terminal_newline, NextRow

(* Only a newline may find the cursor past the edge.                       *)
LEMMA CursorFacts ==
  /\ CursorOnScreen /\ ~Doing("newline") => OnScreen
  /\ CursorOnScreen => row \in Nat /\ col \in Nat
  /\ CursorOnScreen => row \in 0 .. VGA_HEIGHT - 1 /\ col \in 0 .. VGA_WIDTH
  /\ OnScreen => CursorOnScreen
  /\ OnScreen' => CursorOnScreen'
  /\ OnScreen /\ UNCHANGED cursor => OnScreen'
  BY ConsoleAssumption DEF CursorOnScreen, OnScreen, cursor
-----------------------------------------------------------------------------
(* The inductive invariant for types and cursor: every script is safe and  *)
(* every string in the input buffer ends in it.                            *)
ConsoleInv == TypeOK /\ CursorOnScreen /\ out \in SafeScript /\ buffer \in Buffers

(* The first call of a script is safe, and so is what remains.             *)
LEMMA HeadSafe ==
  ASSUME out \in SafeScript, out # <<>>
  PROVE  /\ Head(out) \in SafeCall /\ Tail(out) \in SafeScript
         /\ Head(out).n \in Nat
         /\ \A n \in Nat : <<Chars(n)>> \o Tail(out) \in SafeScript
<1>1. Head(out) \in SafeCall /\ Tail(out) \in SafeScript
  BY DEF SafeScript
<1>2. Head(out).n \in Nat
  BY <1>1 DEF SafeCall, Call
<1>3. ASSUME NEW n \in Nat PROVE <<Chars(n)>> \in SafeScript
  BY SafeCalls DEF SafeScript
<1> QED
  BY <1>1, <1>2, <1>3, Joined

(* The script of an idle kernel.                                           *)
LEMMA EmptySafe == <<>> \in SafeScript /\ \A s \in SafeScript : s \in Seq(Call)
<1>1. SafeCall \subseteq Call
  BY DEF SafeCall
<1>2. ASSUME NEW s \in SafeScript PROVE s \in Seq(Call)
  <2>1. Len(s) \in Nat /\ s \in [1 .. Len(s) -> SafeCall]
    BY DEF SafeScript
  <2> QED
    BY <1>1, <2>1
<1> QED
  BY <1>2 DEF SafeScript

(* The kernel starts with its boot script and a zeroed buffer.             *)
LEMMA ConsoleInit == Init => ConsoleInv
<1> SUFFICES ASSUME Init PROVE ConsoleInv
  OBVIOUS
<1>1. buffer \in Buffers
  BY LineAssumption DEF Init, Buffers, Chars0
<1>2. CursorOnScreen
  BY ConsoleAssumption DEF Init, CursorOnScreen, OnScreen
<1>3. out \in SafeScript /\ out \in Seq(Call)
  BY SafeBoot, EmptySafe DEF Init
<1>4. NoRun \in [line : Seq(Chars0), typed : Seq(Chars0)]
  BY DEF NoRun
<1>5. size \in 1 .. MaxEvents /\ index \in 0 .. WordSize - 1 /\ row \in Nat /\ col \in Nat
      /\ left \in Nat /\ typed \in Seq(Chars0)
  BY LineAssumption DEF Init
<1>6. TypeOK
  BY <1>1, <1>3, <1>4, <1>5 DEF Init, TypeOK, Buffers, Call
<1> QED
  BY <1>1, <1>2, <1>3, <1>6 DEF ConsoleInv

(* The invariant in parts: what a step of a script touches, what a key     *)
(* touches, and the flags.                                                 *)
Runs == [line : Seq(Chars0), typed : Seq(Chars0)]
ScriptSafe == CursorOnScreen /\ out \in SafeScript
LineType ==
  /\ buffer \in Buffers /\ index \in 0 .. WordSize - 1
  /\ user \in {FIXED, NULL} \cup 0 .. BufLen - 1
  /\ typed \in Seq(Chars0) /\ coloured \in BOOLEAN /\ ran \in Runs
FlagType == fsinit \in BOOLEAN /\ exitHKIloop \in BOOLEAN
CountType ==
  /\ size \in 1 .. MaxEvents /\ left \in Nat
  /\ pc \in {"boot", "shell", "run", "pick", "prompt", "panic", "color", "off", "halted"}

(* Together they are the invariant.                                        *)
LEMMA ConsoleParts == ConsoleInv <=> ScriptSafe /\ LineType /\ FlagType /\ CountType
<1>1. CursorOnScreen => row \in Nat /\ col \in Nat
  BY CursorFacts
<1>2. out \in SafeScript => out \in Seq([op : Ops, n : Nat])
  BY EmptySafe DEF Call
<1>3. buffer \in Buffers => buffer \in [0 .. BufLen - 1 -> Chars0]
  BY DEF Buffers
<1> QED
  BY <1>1, <1>2, <1>3 DEF ConsoleInv, TypeOK, ScriptSafe, LineType, FlagType, CountType, Runs

(* A step of a script.                                                     *)
LEMMA WorkSafe == ConsoleInv /\ Work => ConsoleInv'
<1> SUFFICES ASSUME ConsoleInv, Work PROVE ConsoleInv'
  OBVIOUS
<1>0. ScriptSafe /\ LineType /\ FlagType /\ CountType
  BY ConsoleParts
<1>p. ScriptSafe' /\ LineType' /\ FlagType' /\ CountType' => ConsoleInv'
  BY ConsoleParts, PTL
<1>l. UNCHANGED <<line, flags>> => LineType' /\ FlagType'
  BY <1>0 DEF line, flags, LineType, FlagType
<1>h. \A o : Doing(o) => Head(out) \in SafeCall /\ Tail(out) \in SafeScript /\ Head(out).n \in Nat
                        /\ \A n \in Nat : <<Chars(n)>> \o Tail(out) \in SafeScript
  BY <1>0, HeadSafe DEF Doing, ScriptSafe
<1>s. OnScreen' /\ out' \in SafeScript => ScriptSafe'
  BY CursorFacts DEF ScriptSafe
<1>w. \/ WriteString \/ Write \/ SetRow \/ SetCol \/ addevent \/ PowerPort \/ Halt \/ Back
      \/ Prompt \/ PromptChar \/ LeaveShell
      => OnScreen
  <2>1. (\E o : o # "newline" /\ Doing(o)) \/ pc \in {"prompt", "shell"} \/ out = <<>>
        => ~Doing("newline")
    BY DEF Doing
  <2> QED
    BY <2>1, <1>0, CursorFacts
       DEF ScriptSafe, WriteString, Write, SetRow, SetCol, addevent, PowerPort, Halt, Back, Prompt,
           PromptChar, LeaveShell
<1>k. OnScreen /\ UNCHANGED cursor => OnScreen'
  BY CursorFacts
<1>1. CASE Newline
  <2>1. ScriptSafe'
    BY <1>1, <1>0, <1>h, <1>s, NewlineOnScreen DEF Newline, Done, ScriptSafe
  <2> QED
    BY <1>1, <1>0, <1>p, <1>l, <2>1 DEF Newline, Done, CountType
<1>2. CASE WriteString
  <2>1. ScriptSafe'
    BY <1>2, <1>h, <1>k, <1>s, <1>w, ConsoleAssumption DEF WriteString
  <2> QED
    BY <1>2, <1>0, <1>p, <1>l, <2>1 DEF WriteString, CountType
<1>3. CASE Write
  <2>1. ScriptSafe'
    <3>1. CASE Head(out).n = 0
      BY <1>3, <3>1, <1>h, <1>k, <1>s, <1>w DEF Write, Done
    <3>2. CASE Head(out).n # 0
      <4>1. CharsLeft \in Nat
        BY <1>3, <3>2, <1>h DEF Write, CharsLeft
      <4>2. OnScreen'
        BY <1>3, <3>2, <1>w, PutcharOnScreen DEF Write
      <4>3. out' \in SafeScript
        BY <1>3, <3>2, <4>1, <1>h DEF Write
      <4> QED
        BY <4>2, <4>3, <1>s
    <3> QED
      BY <3>1, <3>2
  <2> QED
    BY <1>3, <1>0, <1>p, <1>l, <2>1 DEF Write, Done, CountType
<1>4. CASE SetRow
  <2>1. Head(out).n \in 0 .. VGA_HEIGHT - 1
    BY <1>4, <1>h, ConsoleAssumption DEF SetRow, Doing, SafeCall
  <2>2. ScriptSafe'
    BY <1>4, <1>h, <1>s, <1>w, <2>1 DEF SetRow, Done, OnScreen
  <2> QED
    BY <1>4, <1>0, <1>p, <1>l, <2>2 DEF SetRow, Done, CountType
<1>5. CASE SetCol
  <2>1. Head(out).n \in 0 .. VGA_WIDTH - 1
    BY <1>5, <1>h, ConsoleAssumption DEF SetCol, Doing, SafeCall
  <2>2. ScriptSafe'
    BY <1>5, <1>h, <1>s, <1>w, <2>1 DEF SetCol, Done, OnScreen
  <2> QED
    BY <1>5, <1>0, <1>p, <1>l, <2>2 DEF SetCol, Done, CountType
<1>6. CASE addevent
  <2>1. ScriptSafe'
    BY <1>6, <1>h, <1>k, <1>s, <1>w DEF addevent, Done
  <2>2. size' \in 1 .. MaxEvents
    BY <1>6, <1>0, LineAssumption DEF addevent, LogSize, CountType
  <2> QED
    BY <1>6, <1>0, <1>p, <1>l, <2>1, <2>2 DEF addevent, Done, CountType
<1>7. CASE PowerPort
  <2>1. ScriptSafe'
    BY <1>7, <1>h, <1>k, <1>s, <1>w, EmptySafe DEF PowerPort, Done
  <2> QED
    BY <1>7, <1>0, <1>p, <1>l, <2>1 DEF PowerPort, Done, CountType
<1>8. CASE Halt \/ Back
  <2>1. ScriptSafe'
    BY <1>8, <1>k, <1>s, <1>w, EmptySafe DEF Halt, Back
  <2> QED
    BY <1>8, <1>0, <1>p, <1>l, <2>1 DEF Halt, Back, CountType
<1>9. CASE Prompt
  <2>1. ScriptSafe'
    BY <1>9, <1>0, <1>s, EmptySafe, NewlineOnScreen DEF Prompt, ScriptSafe
  <2>2. PromptLength(buffer, user) \in Nat
    BY <1>0, UserLengthType DEF LineType
  <2> QED
    BY <1>9, <1>0, <1>p, <1>l, <2>1, <2>2 DEF Prompt, CountType
<1>10. CASE PromptChar
  <2>1. ScriptSafe'
    BY <1>10, <1>0, <1>k, <1>s, <1>w, PutcharOnScreen DEF PromptChar, PromptLeft, ScriptSafe
  <2> QED
    BY <1>10, <1>0, <1>p, <1>l, <2>1 DEF PromptChar, PromptLeft, CountType
<1>11. CASE LeaveShell
  <2>1. ScriptSafe'
    BY <1>11, <1>k, <1>s, <1>w, SafeEnd DEF LeaveShell
  <2>2. LineType'
    BY <1>11, <1>0, LineAssumption DEF LeaveShell, LineType
  <2> QED
    BY <1>11, <1>0, <1>p, <2>1, <2>2 DEF LeaveShell, CountType, FlagType, flags
<1> QED
  BY <1>1, <1>2, <1>3, <1>4, <1>5, <1>6, <1>7, <1>8, <1>9, <1>10, <1>11 DEF Work

(* The end marker every key writes, and a key stored before it.            *)
LEMMA StoredSafe ==
  ASSUME LineType, Waiting
  PROVE  /\ Ended \in Buffers /\ Line \in Seq(Chars0)
         /\ \A k \in Chars0 : Store(k) => buffer' \in Buffers /\ index' \in 0 .. WordSize - 1
                                        /\ typed' \in Seq(Chars0)
<1>1. NUL \in Chars0
  BY DEF Chars0
<1>2. index \in 0 .. BufLen - 1 /\ buffer \in [0 .. BufLen - 1 -> Chars0] /\ buffer[BufLen - 1] = NUL
  BY LineAssumption DEF LineType, Waiting, Buffers
<1>3. Ended \in [0 .. BufLen - 1 -> Chars0] /\ Ended[BufLen - 1] = NUL
  <2>1. Ended \in [0 .. BufLen - 1 -> Chars0]
    BY <1>1, <1>2 DEF Ended
  <2>2. Ended[BufLen - 1] = NUL
    BY <1>2, LineAssumption DEF Ended
  <2> QED
    BY <2>1, <2>2
<1>4. Ended \in Buffers
  BY <1>3 DEF Buffers
<1>5. 0 \in 0 .. BufLen - 1
  BY LineAssumption
<1>6. Line \in Seq(Chars0)
  BY <1>4, <1>5, CStrType DEF Line
<1>7. ASSUME NEW k \in Chars0, Store(k)
      PROVE  buffer' \in Buffers /\ index' \in 0 .. WordSize - 1 /\ typed' \in Seq(Chars0)
  <2>1. CASE HasRoom
    <3> DEFINE b == [Ended EXCEPT ![index] = k]
    <3>1. b \in [0 .. BufLen - 1 -> Chars0]
      BY <1>3, <1>7
    <3>2. b[BufLen - 1] = NUL
      BY <1>2, <1>3, <2>1, LineAssumption DEF HasRoom
    <3>3. b \in Buffers
      BY <3>1, <3>2 DEF Buffers
    <3>4. typed \in Seq(Chars0)
      BY DEF LineType
    <3>5. buffer' = b /\ index' = index + 1 /\ typed' = Append(typed, k)
      BY <2>1, <1>7 DEF Store
    <3>6. Append(typed, k) \in Seq(Chars0)
      BY <3>4, <1>7
    <3>7. index + 1 \in 0 .. WordSize - 1
      BY <1>2, LineAssumption
    <3> HIDE DEF b
    <3> QED
      BY <3>3, <3>5, <3>6, <3>7
  <2>2. CASE ~HasRoom
    BY <2>2, <1>4, <1>7 DEF Store, LineType
  <2> QED
    BY <2>1, <2>2
<1> QED
  BY <1>4, <1>6, <1>7

(* The command record is well typed, whatever is entered.                  *)
LEMMA RanType ==
  ASSUME LineType, Waiting, Ran
  PROVE  ran' \in Runs
  BY StoredSafe DEF Ran, Runs, LineType

(* A script that ends with the prompt.                                     *)
LEMMA ReplySafe ==
  ASSUME NEW s \in SafeScript, Reply(s)
  PROVE  out' \in SafeScript /\ pc' = "run"
<1>1. <<Op("prompt")>> \in SafeScript
  BY SafeCalls DEF SafeScript
<1> QED
  BY <1>1, Joined DEF Reply

(* A key.                                                                  *)
LEMMA KeyboardSafe == ConsoleInv /\ Keyboard => ConsoleInv'
<1> SUFFICES ASSUME ConsoleInv, Keyboard PROVE ConsoleInv'
  OBVIOUS
<1>0. ScriptSafe /\ LineType /\ FlagType /\ CountType
  BY ConsoleParts
<1>p. ScriptSafe' /\ LineType' /\ FlagType' /\ CountType' => ConsoleInv'
  BY ConsoleParts, PTL
<1>l. UNCHANGED <<line, flags>> => LineType' /\ FlagType'
  BY <1>0 DEF line, flags, LineType, FlagType
<1>f. UNCHANGED flags => FlagType'
  BY <1>0 DEF flags, FlagType
<1>h. \A o : Doing(o) => Head(out) \in SafeCall /\ Tail(out) \in SafeScript
  BY <1>0, HeadSafe DEF Doing, ScriptSafe
<1>s. OnScreen' /\ out' \in SafeScript => ScriptSafe'
  BY CursorFacts DEF ScriptSafe
<1>w. OnScreen
  <2>1. (\E o : o # "newline" /\ Doing(o)) \/ pc = "shell" => ~Doing("newline")
    BY DEF Doing
  <2>2. (\E o : o # "newline" /\ Doing(o)) \/ pc = "shell"
    BY DEF Keyboard, Key, Spin, Answer, Backspace, ColorKey, Character, EnterCommand, EnterFatal,
           EnterColor, EnterEcho, EnterUn, EnterOther, Enter, Waiting
  <2> QED
    BY <2>1, <2>2, <1>0, CursorFacts DEF ScriptSafe
<1>k. UNCHANGED cursor => OnScreen'
  BY <1>w, CursorFacts
<1>n. NoRun \in Runs /\ <<>> \in Seq(Chars0)
  BY DEF NoRun, Runs
<1>z. 0 \in 0 .. BufLen - 1 /\ 1 \in 0 .. BufLen - 1 /\ UnOffset \in 0 .. BufLen - 1
      /\ 0 \in 0 .. WordSize - 1
  BY LineAssumption
<1>1. CASE Key
  <2>1. ScriptSafe'
    BY <1>1, <1>h, <1>k, <1>s DEF Key, Done
  <2> QED
    BY <1>1, <1>0, <1>p, <1>l, <2>1 DEF Key, Done, CountType
<1>2. CASE Spin
  <2>1. out' \in SafeScript
    <3>1. nyan \in SafeScript /\ <<Nl>> \in SafeScript
      BY <1>0, SafeCommand, SafeCalls DEF CountType, SafeScript
    <3>2. <<Nl>> \o nyan \in SafeScript
      BY <3>1, Joined
    <3> QED
      BY <1>2, <1>0, <3>2, Joined DEF Spin, ScriptSafe
  <2>2. CursorOnScreen'
    <3>1. nyan \o out \in Seq(Call) /\ <<Nl>> \o nyan \o out = <<Nl>> \o (nyan \o out)
      <4>1. nyan \in SafeScript /\ out \in SafeScript
        BY <1>0, SafeCommand DEF CountType, ScriptSafe
      <4>2. nyan \in Seq(Call) /\ out \in Seq(Call) /\ <<Nl>> \in Seq(Call)
        BY <4>1, EmptySafe, SafeCalls DEF SafeCall
      <4> QED
        BY <4>2
    <3>2. out' # <<>> /\ Head(out') = Nl
      BY <1>2, <3>1 DEF Spin
    <3>3. Doing("newline")'
      BY <1>2, <3>2 DEF Spin, Doing, Nl, Op
    <3>4. row' \in 0 .. VGA_HEIGHT - 1 /\ col' \in 1 .. VGA_WIDTH
      BY <1>2, <1>w, ConsoleAssumption DEF Spin, OnScreen
    <3> QED
      BY <3>3, <3>4, ConsoleAssumption DEF CursorOnScreen, OnScreen
  <2> QED
    BY <1>2, <1>0, <1>p, <1>l, <2>1, <2>2 DEF Spin, CountType, ScriptSafe
<1>3. ASSUME NEW k \in Keys, Answer(k) PROVE ConsoleInv'
  <2>1. Tail(out) \in SafeScript
    BY <1>3, <1>h DEF Answer
  <2>2. m \o fixflash \in SafeScript
    BY SafeBoot, Joined
  <2>3. m \o fixflash \o fixflash \in SafeScript
    BY <2>2, SafeBoot, Joined
  <2>4. m \o fixflash \o fixflash \o Tail(out) \in SafeScript
    BY <2>1, <2>3, Joined
  <2>5. ScriptSafe'
    BY <1>3, <1>s, <1>w, <2>1, <2>4, PutcharOnScreen DEF Answer
  <2> QED
    BY <1>3, <1>0, <1>p, <1>l, <2>5 DEF Answer, CountType
<1>4. CASE Backspace
  <2>1. Ended \in Buffers
    BY <1>4, <1>0, StoredSafe DEF Backspace
  <2>2. PromptLength(Ended, user) \in Nat
    BY <2>1, <1>0, UserLengthType DEF LineType
  <2>3. ScriptSafe'
    <3>1. row' = row /\ out' = out
      BY <1>4 DEF Backspace
    <3>2. col' \in 0 .. VGA_WIDTH - 1
      BY <1>4, <1>w, <2>2, ConsoleAssumption DEF Backspace, OnScreen, CanErase
    <3> QED
      BY <1>0, <1>s, <1>w, <3>1, <3>2 DEF ScriptSafe, OnScreen
  <2>4. typed' \in Seq(Chars0)
    <3>1. typed \in Seq(Chars0)
      BY <1>0 DEF LineType
    <3>2. typed # <<>> => SubSeq(typed, 1, Len(typed) - 1) \in Seq(Chars0)
      BY <3>1
    <3> QED
      BY <1>4, <3>1, <3>2 DEF Backspace
  <2>5. index' \in 0 .. WordSize - 1
    BY <1>4, <1>0, LineAssumption DEF Backspace, LineType
  <2>6. LineType'
    BY <1>4, <1>0, <1>n, <2>1, <2>4, <2>5 DEF Backspace, LineType
  <2> QED
    BY <1>4, <1>0, <1>p, <1>f, <2>3, <2>6 DEF Backspace, CountType
<1>5. CASE ColorKey
  <2>1. LineType'
    BY <1>5, <1>0, <1>n, StoredSafe DEF ColorKey, LineType, Chars0
  <2>3. out' \in SafeScript
    BY <1>5, SafeCalls DEF ColorKey, SafeScript
  <2>4. ScriptSafe'
    BY <1>5, <1>k, <1>s, <2>3 DEF ColorKey
  <2> QED
    BY <1>5, <1>0, <1>p, <1>f, <2>1, <2>4 DEF ColorKey, CountType
<1>6. ASSUME NEW k \in Keys, Character(k) PROVE ConsoleInv'
  <2>1. LineType'
    BY <1>6, <1>0, <1>n, StoredSafe DEF Character, LineType, Chars0
  <2>2. ScriptSafe'
    BY <1>6, <1>0, <1>k, <1>s, <1>w, PutcharOnScreen DEF Character, ScriptSafe
  <2> QED
    BY <1>6, <1>0, <1>p, <1>f, <2>1, <2>2 DEF Character, CountType
<1>7. ASSUME Enter PROVE Ended \in Buffers /\ Line \in Seq(Chars0) /\ Len(Line) \in Nat /\ Waiting
  BY <1>7, <1>0, StoredSafe DEF Enter
<1>c. UNCHANGED cursor /\ out' \in SafeScript => ScriptSafe'
  BY <1>k, <1>s
<1>u. Enter /\ buffer' \in Buffers /\ ran' \in Runs /\ UNCHANGED user => LineType'
  BY <1>0, <1>n, <1>z DEF Enter, LineType
<1>8. CASE EnterCommand
  <2>1. out' \in SafeScript /\ pc' = "run"
    BY <1>8, <1>0, SafeCommand, ReplySafe DEF EnterCommand, CountType
  <2>2. ran' \in Runs
    BY <1>8, <1>0, <1>7, <1>n, RanType DEF EnterCommand
  <2>3. exitHKIloop' \in BOOLEAN
    BY <1>8 DEF EnterCommand
  <2>4. fsinit' \in BOOLEAN
    BY <1>8, <1>0 DEF EnterCommand, FlagType
  <2> QED
    BY <1>8, <1>0, <1>p, <1>c, <1>u, <1>7, <2>1, <2>2, <2>3, <2>4 DEF EnterCommand, CountType, FlagType
<1>9. CASE EnterFatal
  <2>1. <<Nl>> \in SafeScript
    BY SafeCalls DEF SafeScript
  <2>2. out' \in SafeScript
    BY <1>9, <2>1, SafeEnd, Joined DEF EnterFatal
  <2>3. ran' \in Runs
    BY <1>9, <1>0, <1>7, <1>n, RanType DEF EnterFatal
  <2> QED
    BY <1>9, <1>0, <1>p, <1>c, <1>u, <1>f, <1>7, <2>2, <2>3 DEF EnterFatal, CountType
<1>10. CASE EnterColor
  <2>1. out' \in SafeScript
    BY <1>10, SafeCalls DEF EnterColor, SafeScript
  <2>2. ran' \in Runs
    BY <1>10, <1>0, <1>7, <1>n, RanType DEF EnterColor
  <2> QED
    BY <1>10, <1>0, <1>p, <1>c, <1>u, <1>f, <1>7, <2>1, <2>2 DEF EnterColor, CountType
<1>11. CASE EnterEcho
  <2> DEFINE t == Token(Ended, 1)
  <2>1. t \in {NULL} \cup 0 .. BufLen - 1 /\ buffer' \in Buffers
    BY <1>11, <1>7, <1>z, TokenType DEF EnterEcho
  <2>2. ASSUME NEW n \in Nat PROVE <<Nl, Chars(n)>> \in SafeScript
    BY SafeCalls DEF SafeScript
  <2>3. t # NULL => StrEnd(buffer', t) - t \in Nat
    BY <2>1, StrEndType, LineAssumption
  <2>4. (IF t = NULL THEN NullLen ELSE StrEnd(buffer', t) - t) \in Nat
    BY <2>3, LineAssumption
  <2>5. Reply(<<Nl, Chars(IF t = NULL THEN NullLen ELSE StrEnd(buffer', t) - t)>>)
    BY <1>11 DEF EnterEcho
  <2>6. out' \in SafeScript /\ pc' = "run"
    BY <2>2, <2>4, <2>5, ReplySafe
  <2>7. ran' \in Runs
    BY <1>11, <1>0, <1>7, RanType DEF EnterEcho
  <2> QED
    BY <1>11, <2>1, <2>6, <2>7, <1>0, <1>p, <1>c, <1>u, <1>f, <1>7 DEF EnterEcho, CountType
<1>12. CASE EnterUn
  <2>1. user' \in {FIXED, NULL} \cup 0 .. BufLen - 1 /\ buffer' \in Buffers
    BY <1>12, <1>7, <1>z, TokenType DEF EnterUn
  <2>2. UserLength(buffer', user') \in Nat
    BY <2>1, UserLengthType
  <2>3. <<Nl, Text, Chars(UserLength(buffer', user'))>> \in SafeScript
    BY <2>2, SafeCalls DEF SafeScript
  <2>4. out' \in SafeScript /\ pc' = "run"
    BY <1>12, <2>3, ReplySafe DEF EnterUn
  <2>5. ran' \in Runs
    BY <1>12, <1>0, <1>7, <1>n, RanType DEF EnterUn
  <2>6. LineType'
    BY <1>12, <2>1, <2>5, <1>n, <1>z DEF EnterUn, Enter, LineType
  <2> QED
    BY <1>12, <1>0, <1>p, <1>c, <1>f, <2>4, <2>6 DEF EnterUn, CountType
<1>13. CASE EnterOther
  <2>1. <<>> \in SafeScript /\ <<Nl, Chars(1), Chars(Len(Line)), Chars(1), Text>> \in SafeScript
    BY <1>13, <1>7, SafeCalls DEF EnterOther, SafeScript
  <2>2. out' \in SafeScript /\ pc' = "run"
    BY <1>13, <2>1, ReplySafe DEF EnterOther
  <2>3. ran' \in Runs
    BY <1>13, <1>0, <1>7, <1>n, RanType DEF EnterOther
  <2> QED
    BY <1>13, <1>0, <1>p, <1>c, <1>u, <1>f, <1>7, <2>2, <2>3 DEF EnterOther, CountType
<1> QED
  BY <1>1, <1>2, <1>3, <1>4, <1>5, <1>6, <1>8, <1>9, <1>10, <1>11, <1>12, <1>13 DEF Keyboard

(* Every step of the machine.                                              *)
LEMMA ConsoleNext == ConsoleInv /\ [Next]_vars => ConsoleInv'
<1> SUFFICES ASSUME ConsoleInv, [Next]_vars PROVE ConsoleInv'
  OBVIOUS
<1>1. CASE Restart
  <2>1. Init'
    BY <1>1 DEF Restart, Init
  <2> QED
    BY <2>1, ConsoleInit, PTL
<1>2. CASE UNCHANGED vars
  BY <1>2 DEF vars, cursor, line, flags, ConsoleInv, TypeOK, CursorOnScreen, OnScreen, Doing
<1> QED
  BY <1>1, <1>2, WorkSafe, KeyboardSafe DEF Next, Halted, Outside

(* The invariant holds of every behaviour of the console.                  *)
THEOREM ConsoleSafe == Spec => []ConsoleInv
<1>1. Init => ConsoleInv
  BY ConsoleInit
<1>2. ConsoleInv /\ [Next]_vars => ConsoleInv'
  BY ConsoleNext
<1> QED
  BY <1>1, <1>2, PTL DEF Spec

(* Type correctness of the shell: in particular the event log never holds  *)
(* more than MAX_EVENTS entries (addevent, and every task of the boot).    *)
THEOREM ShellTypeCorrect == Spec => []TypeOK
<1>1. ConsoleInv => TypeOK
  BY DEF ConsoleInv
<1> QED
  BY <1>1, ConsoleSafe, PTL

(* terminal_putentryat is only ever called with a cursor on the screen,    *)
(* for every screen size, text length, key and command.                    *)
THEOREM CursorSafe == Spec => []CursorOnScreen
<1>1. ConsoleInv => CursorOnScreen
  BY DEF ConsoleInv
<1> QED
  BY <1>1, ConsoleSafe, PTL

-----------------------------------------------------------------------------
(* The index of the line against the column.  Nothing compares the two:    *)
(* what keeps the index from going below 0 is that a character moves both  *)
(* and a wrap of the line only takes the column back.  The prompt of a     *)
(* name outside the buffer has the same length whatever is typed.          *)
Steady == ~coloured /\ user \in {FIXED, NULL}
Width == (IF user = FIXED THEN UserLen ELSE NullLen) + HostLen + Deco
InStep ==
  /\ pc = "pick" => coloured
  /\ pc # "shell" /\ ~coloured => index = 0
  /\ Steady => /\ IndexInBuffer
               /\ pc = "shell" => col <= Width + index
               /\ pc = "prompt" => col + left <= Width \/ VGA_WIDTH <= Width

(* The prompt of a name outside the buffer.                                *)
LEMMA SteadyPrompt ==
  /\ Width \in Nat
  /\ user \in {FIXED, NULL} => \A b : PromptLength(b, user) = Width
<1>1. FIXED # NULL
  BY DEF FIXED, NULL
<1> QED
  BY <1>1, LineAssumption DEF Width, PromptLength, UserLength

(* A script leaves index and column in step; a line that a colour key has  *)
(* interrupted is no longer steady.                                        *)
LEMMA WorkInStep ==
  ASSUME ConsoleInv, InStep, Work
  PROVE  InStep'
<1>0. ScriptSafe /\ LineType /\ CountType /\ col \in Nat /\ index \in Nat /\ left \in Nat
  BY ConsoleParts DEF ConsoleInv, TypeOK
<1>1. CASE Back
  BY <1>1 DEF Back, InStep, Steady, line
<1>2. CASE Newline \/ WriteString \/ Write \/ SetRow \/ SetCol \/ addevent \/ PowerPort \/ Halt
  <2>1. /\ UNCHANGED <<index, user, coloured>> /\ pc \notin {"shell", "prompt"}
        /\ pc' = pc \/ pc' \in {"off", "halted"}
    BY <1>2 DEF Newline, WriteString, Write, SetRow, SetCol, addevent, PowerPort, Halt, Doing, Done, line
  <2> QED
    BY <2>1 DEF InStep, Steady, IndexInBuffer
<1>3. CASE Prompt
  <2>1. UNCHANGED <<index, user, coloured>> /\ pc # "shell" /\ pc' = "prompt" /\ col' = 0
        /\ left' = PromptLength(buffer, user)
    BY <1>3 DEF Prompt, Doing, terminal_newline, line
  <2>2. Width' = Width
    BY <2>1 DEF Width
  <2> QED
    BY <2>1, <2>2, SteadyPrompt DEF InStep, Steady, IndexInBuffer
<1>4. CASE PromptChar
  <2>1. UNCHANGED <<index, user, coloured>> /\ pc = "prompt" /\ pc' \in {"shell", "prompt"}
    BY <1>4 DEF PromptChar, line
  <2>2. Width' = Width /\ (Steady' <=> Steady) /\ (~coloured => index = 0)
    BY <2>1 DEF Width, Steady, InStep
  <2>3. Steady => /\ pc' = "shell" => col' <= Width
                  /\ pc' = "prompt" => col' + left' <= Width \/ VGA_WIDTH <= Width
    <3> SUFFICES ASSUME Steady
                 PROVE  /\ pc' = "shell" => col' <= Width
                        /\ pc' = "prompt" => col' + left' <= Width \/ VGA_WIDTH <= Width
      OBVIOUS
    <3>1. col + left <= Width \/ VGA_WIDTH <= Width
      BY <2>1 DEF InStep
    <3>2. col <= VGA_WIDTH
      BY <1>0, CursorFacts, ConsoleAssumption DEF ScriptSafe
    <3>3. CASE left = 0
      BY <1>4, <3>1, <3>2, <3>3, <1>0, SteadyPrompt, ConsoleAssumption DEF PromptChar, PromptLeft, cursor
    <3>4. CASE left # 0
      BY <1>4, <2>1, <3>1, <3>4, <1>0, SteadyPrompt, ConsoleAssumption
         DEF PromptChar, PromptLeft, terminal_putchar
    <3> QED
      BY <3>3, <3>4
  <2> QED
    BY <2>1, <2>2, <2>3, <1>0, SteadyPrompt DEF InStep, Steady, IndexInBuffer
<1>5. CASE LeaveShell
  BY <1>5, LineAssumption DEF LeaveShell, InStep, Steady, IndexInBuffer
<1> QED
  BY <1>1, <1>2, <1>3, <1>4, <1>5 DEF Work

(* So does every key.  The colour key ends the steady part of the line,    *)
(* and Enter, with `un' as with every other command, starts the next line  *)
(* with the index at 0.                                                    *)
LEMMA KeyboardInStep ==
  ASSUME ConsoleInv, InStep, Keyboard
  PROVE  InStep'
<1>0. ScriptSafe /\ LineType /\ CountType /\ col \in Nat /\ index \in Nat
  BY ConsoleParts DEF ConsoleInv, TypeOK
<1>1. CASE Key \/ Spin \/ \E k \in Keys : Answer(k)
  <2>1. UNCHANGED <<index, user, coloured, pc>> /\ pc \notin {"shell", "prompt"}
    BY <1>1 DEF Key, Spin, Answer, Doing, Done, line
  <2> QED
    BY <2>1 DEF InStep, Steady, IndexInBuffer
<1>2. CASE Backspace
  <2>1. pc = "shell" /\ pc' = "shell" /\ UNCHANGED <<user, coloured>>
    BY <1>2 DEF Backspace, Waiting
  <2>2. Width' = Width /\ (Steady' <=> Steady)
    BY <2>1 DEF Width, Steady
  <2> SUFFICES ASSUME Steady PROVE IndexInBuffer' /\ col' <= Width + index'
    BY <2>1, <2>2 DEF InStep
  <2>3. PromptLength(Ended, user) = Width /\ IndexInBuffer /\ col <= Width + index
    BY <2>1, SteadyPrompt DEF InStep, Steady
  <2>4. CASE CanErase
    <3>1. 0 < index
      BY <2>3, <2>4, <1>0, SteadyPrompt DEF CanErase
    <3>2. index' = index - 1 /\ col' = col - 1
      BY <1>2, <2>3, <2>4, <3>1, <1>0, LineAssumption DEF Backspace, IndexInBuffer
    <3> QED
      BY <3>1, <3>2, <2>3, <1>0, SteadyPrompt, LineAssumption DEF IndexInBuffer
  <2>5. CASE ~CanErase
    BY <1>2, <2>3, <2>5 DEF Backspace, IndexInBuffer
  <2> QED
    BY <2>4, <2>5
<1>3. ASSUME NEW k \in Keys, Character(k) PROVE InStep'
  <2>1. pc = "shell" /\ pc' = "shell" /\ UNCHANGED <<user, coloured>>
    BY <1>3 DEF Character, Waiting
  <2>2. Width' = Width /\ (Steady' <=> Steady)
    BY <2>1 DEF Width, Steady
  <2> SUFFICES ASSUME Steady PROVE IndexInBuffer' /\ col' <= Width + index'
    BY <2>1, <2>2 DEF InStep
  <2>3. IndexInBuffer /\ col <= Width + index
    BY <2>1 DEF InStep
  <2>4. CASE HasRoom
    BY <1>3, <2>3, <2>4, <1>0, SteadyPrompt, LineAssumption
       DEF Character, Store, HasRoom, terminal_putchar, IndexInBuffer
  <2>5. CASE ~HasRoom
    BY <1>3, <2>3, <2>5 DEF Character, Store, IndexInBuffer, cursor
  <2> QED
    BY <2>4, <2>5
<1>4. CASE ColorKey
  BY <1>4 DEF ColorKey, InStep, Steady
<1>5. CASE EnterCommand \/ EnterFatal \/ EnterColor \/ EnterEcho \/ EnterUn \/ EnterOther
  <2>1. index' = 0 /\ coloured' = FALSE /\ pc' \in {"run", "panic", "color"}
    BY <1>5 DEF EnterCommand, EnterFatal, EnterColor, EnterEcho, EnterUn, EnterOther, Enter, Reply
  <2> QED
    BY <2>1, LineAssumption DEF InStep, IndexInBuffer
<1> QED
  BY <1>1, <1>2, <1>3, <1>4, <1>5 DEF Keyboard

(* The line editor: in every line without the colour key, under every name *)
(* outside the buffer, input_buffer_index stays in the buffer, whatever    *)
(* the width of the screen, the length of the prompt and of the buffer,    *)
(* and whatever colour keys and renamings earlier lines have seen.         *)
THEOREM IndexSafe == Spec => []IndexKept
<1>1. Init => InStep
  BY LineAssumption DEF Init, InStep, IndexInBuffer
<1>2. ConsoleInv /\ InStep /\ [Next]_vars => InStep'
  <2> SUFFICES ASSUME ConsoleInv, InStep, [Next]_vars PROVE InStep'
    OBVIOUS
  <2>1. CASE Restart
    BY <2>1, LineAssumption DEF Restart, InStep, IndexInBuffer
  <2>2. CASE UNCHANGED vars
    BY <2>2 DEF vars, cursor, line, InStep, Steady, Width, IndexInBuffer
  <2> QED
    BY <2>1, <2>2, WorkInStep, KeyboardInStep DEF Next, Halted, Outside
<1>3. InStep => IndexKept
  BY DEF InStep, Steady, IndexKept
<1> QED
  BY <1>1, <1>2, <1>3, ConsoleSafe, PTL DEF Spec
=============================================================================
