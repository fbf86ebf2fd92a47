----------------------------- MODULE VideoPorts -----------------------------
(***************************************************************************)
(* The cursor and speaker functions of tty.c on their ports: the CRT       *)
(* controller behind an index port (0x3D4) and a data port (0x3D5), the    *)
(* speaker gate in port 0x61 and the interval timer.  A call is the        *)
(* sequence of its port accesses, and a step is one access.  An access to  *)
(* the data port goes to whichever register the index port named last.     *)
(***************************************************************************)
EXTENDS Integers, Sequences

CONSTANTS
  Cells,         \* <<x, y>> arguments of update_cursor
  Shapes,        \* <<start, end>> arguments of enable_cursor
  Frequencies,   \* arguments of beep
  Firmware,      \* what registers 10, 11, 14 and 15 hold at the start
  MaxPortCalls   \* bound: calls

VGA_WIDTH == 80

VARIABLES
  crt,       \* the controller's registers 10, 11, 14 and 15
  index,     \* its index register
  gate,      \* port 0x61, as its two low bits and the rest
  timer,     \* the bytes sent to the interval timer
  todo,      \* the accesses the running call still has to make
  position,  \* `pos' of get_cursor_position
  cursor,    \* history: the cell the cursor was put in last
  visible,   \* history: whether the last call about it showed the cursor
  call,      \* history: the function called last
  portCalls

portVars == <<crt, index, gate, timer, todo, position, cursor, visible, call, portCalls>>

OffBit(r) == (r \div 32) % 2          \* bit 5 of register 10 hides the cursor

PortInit ==
  /\ crt \in Firmware
  /\ index = 10
  /\ gate = [low |-> 0, rest |-> 5]
  /\ timer = <<>> /\ todo = <<>> /\ position = 0
  /\ cursor = crt[15] + 256 * crt[14]
  /\ visible = (OffBit(crt[10]) = 0)
  /\ call = "none" /\ portCalls = 0

-----------------------------------------------------------------------------
(* The calls.  <<"index", r>> is outb(0x3D4, r), <<"data", v>> is          *)
(* outb(0x3D5, v), <<"merge", k, v>> is outb(0x3D5, (inb(0x3D5) & m) | v)  *)
(* with a mask m that keeps the bits from k upward, and <<"get", k>> is    *)
(* pos |= inb(0x3D5) * k.                                                  *)
Pos(x, y) == (y * VGA_WIDTH + x) % 65536
update_cursor_OneIndex(x, y) ==
  << <<"index", 15>>, <<"data", Pos(x, y) % 256>>, <<"data", Pos(x, y) \div 256>> >>
update_cursor(x, y) ==
  << <<"index", 15>>, <<"data", Pos(x, y) % 256>>,
     <<"index", 14>>, <<"data", Pos(x, y) \div 256>> >>
enable_cursor(start, end) ==
  << <<"index", 10>>, <<"merge", 64, start>>, <<"index", 11>>, <<"merge", 32, end>> >>
disable_cursor == << <<"index", 10>>, <<"data", 32>> >>
change_cursor == << <<"index", 10>>, <<"data", 2>> >>
get_cursor_position ==
  << <<"index", 15>>, <<"get", 1>>, <<"index", 14>>, <<"get", 256>> >>

(* beep: gate on, divisor to the timer, wait, stop_beep.  `divisor >> 80'  *)
(* is undefined: 0, or a shift by 80 % 32 as the processor counts.         *)
stop_beep == << <<"gate", 0>> >>
beep(frequency, high) ==
  << <<"gate", 3>>, <<"timer", 39>>, <<"timer", (1193180 \div frequency) % 256>>,
     <<"timer", high>> >> \o stop_beep
HighBytes(frequency) == {0, ((1193180 \div frequency) \div 65536) % 256}

Call(name, accesses) ==
  /\ todo = <<>> /\ portCalls < MaxPortCalls
  /\ call' = name /\ todo' = accesses /\ portCalls' = portCalls + 1
  /\ position' = 0 /\ timer' = <<>>
  /\ UNCHANGED <<crt, index, gate>>

Access ==
  /\ todo # <<>> /\ todo' = Tail(todo)
  /\ LET op == Head(todo)
     IN /\ index' = IF op[1] = "index" THEN op[2] ELSE index
        /\ crt' = CASE op[1] = "data" -> [crt EXCEPT ![index] = op[2]]
                    [] op[1] = "merge" -> [crt EXCEPT ![index] = (@ \div op[2]) * op[2] + op[3]]
                    [] OTHER -> crt
        /\ position' = IF op[1] = "get" THEN position + crt[index] * op[2] ELSE position
        /\ gate' = IF op[1] = "gate" THEN [gate EXCEPT !.low = op[2]] ELSE gate
        /\ timer' = IF op[1] = "timer" THEN Append(timer, op[2]) ELSE timer
  /\ UNCHANGED <<cursor, visible, call, portCalls>>

PortNext ==
  \/ \E c \in Cells :
       Call("update", update_cursor(c[1], c[2])) /\ cursor' = Pos(c[1], c[2]) /\ UNCHANGED visible
  \/ \E s \in Shapes :
       Call("enable", enable_cursor(s[1], s[2])) /\ visible' = TRUE /\ UNCHANGED cursor
  \/ Call("disable", disable_cursor) /\ visible' = FALSE /\ UNCHANGED cursor
  \/ Call("change", change_cursor) /\ visible' = TRUE /\ UNCHANGED cursor
  \/ Call("get", get_cursor_position) /\ UNCHANGED <<cursor, visible>>
  \/ \E f \in Frequencies : \E high \in HighBytes(f) :
       Call("beep", beep(f, high)) /\ UNCHANGED <<cursor, visible>>
  \/ Access

-----------------------------------------------------------------------------
(* Between calls, whatever was called before: the cursor is in the cell    *)
(* update_cursor put it in, get_cursor_position has read that cell, and    *)
(* the cursor can be seen exactly if the last of enable_cursor,            *)
(* disable_cursor and "Change cursor" was not disable_cursor.  All of them *)
(* share one index register, and the two bytes of a position and the       *)
(* shape's bits lie in registers that others write in part.                *)
CursorAsLeft ==
  todo = <<>> =>
    /\ crt[15] + 256 * crt[14] = cursor
    /\ call = "get" => position = cursor
    /\ visible <=> OffBit(crt[10]) = 0
=============================================================================
