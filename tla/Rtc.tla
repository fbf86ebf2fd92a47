--------------------------------- MODULE Rtc ---------------------------------
(***************************************************************************)
(* read_rtc of kernel/arch/i386/tty.c and the clock chip it reads.  The    *)
(* chip updates its registers once a second while the kernel reads them    *)
(* one by one; a step is one access to the ports, or a step of the chip.   *)
(***************************************************************************)
EXTENDS Integers, Sequences

CONSTANTS
  First, Count,   \* first value of second, minute, ..., year, and how many there are
  Times,          \* the times the chip may show
  Formats,        \* the settings of register B
  QuietReads,     \* port accesses that always fit between two updates
  CURRENT_YEAR

Fields == 1 .. 6
HOUR == 3
YEAR == 6

VARIABLES
  clock,          \* the time the chip keeps: hours from 0 to 23, full year
  phase,          \* of the chip: "idle", "uip" (flag raised) or "updating"
  quiet,          \* port accesses since the last update, up to QuietReads
  format,         \* register B: [binary, h24]
  pc, pass, i,    \* where read_rtc is, which pass it makes, which field is next
  cur, last,      \* second ... year, and last_second ... last_year
  seen, before    \* history: times the chip showed in this pass, and in the last

chip == <<clock, phase, quiet, format>>
regs == <<cur, last>>
shown == <<seen, before>>
vars == <<chip, pc, pass, i, regs, shown>>

-----------------------------------------------------------------------------
(* The chip.                                                               *)
Tick(t) ==
  LET carried(k) == \A j \in 1 .. k - 1 : t[j] = First[j] + Count[j] - 1
  IN [k \in Fields |-> IF carried(k) THEN First[k] + ((t[k] - First[k] + 1) % Count[k]) ELSE t[k]]

BCD(v) == (v \div 10) * 16 + (v % 10)
Encode(v) == IF format.binary THEN v ELSE BCD(v)
Hour12(h) == Encode(((h + 11) % 12) + 1) + (IF h >= 12 THEN 128 ELSE 0)
Register(t, k) ==
  CASE k = HOUR -> IF format.h24 THEN Encode(t[k]) ELSE Hour12(t[k])
    [] k = YEAR -> Encode(t[k] % 100)
    [] OTHER -> Encode(t[k])

(* During an update a register may hold its old value, its new one, or     *)
(* neither.                                                                *)
Readable(k) ==
  IF phase = "updating" THEN {Register(clock, k), Register(Tick(clock), k), 255}
                        ELSE {Register(clock, k)}

RaiseUip ==
  /\ phase = "idle" /\ quiet = QuietReads /\ Tick(clock) \in Times
  /\ phase' = "uip"
  /\ UNCHANGED <<clock, quiet, format, pc, pass, i, regs, shown>>
StartUpdate ==
  /\ phase = "uip" /\ phase' = "updating"
  /\ UNCHANGED <<clock, quiet, format, pc, pass, i, regs, shown>>
EndUpdate ==
  /\ phase = "updating" /\ phase' = "idle"
  /\ clock' = Tick(clock) /\ quiet' = 0 /\ seen' = seen \cup {clock'}
  /\ UNCHANGED <<format, pc, pass, i, regs, before>>
Access == quiet' = (IF quiet < QuietReads THEN quiet + 1 ELSE quiet) /\ UNCHANGED <<clock, phase, format>>

-----------------------------------------------------------------------------
(* The loop.                                                               *)
get_update_in_progress_flag == phase # "idle"
WaitForUpdate ==
  /\ pc = "wait" /\ Access
  /\ IF get_update_in_progress_flag
       THEN UNCHANGED <<pc, i, shown>>
       ELSE pc' = "read" /\ i' = 1 /\ seen' = {clock} /\ before' = seen
  /\ UNCHANGED <<pass, regs>>

NextField == IF i = YEAR THEN 1 ELSE i + 1
get_RTC_register ==
  /\ pc = "read" /\ Access
  /\ \E v \in Readable(i) : cur' = [cur EXCEPT ![i] = v]
  /\ i' = NextField
  /\ pc' = IF i = YEAR THEN "compare" ELSE pc
  /\ UNCHANGED <<pass, last, shown>>

Changed_Seconds == last[1] # cur[1]
Changed == \E k \in Fields : last[k] # cur[k]
Remember_First == IF pass = 1 THEN cur ELSE last
Remember == cur
Compare ==
  /\ pc = "compare"
  /\ IF pass = 1 \/ Changed
       THEN pc' = "wait" /\ last' = Remember
       ELSE pc' = "convert" /\ UNCHANGED last
  /\ pass' = 2
  /\ UNCHANGED <<chip, i, cur, shown>>

-----------------------------------------------------------------------------
(* What follows the loop: bytes to numbers, 12 to 24 hours, the century.   *)
FromBCD(v) == (v % 16) + (v \div 16) * 10
HourFromBCD(v) == (v % 16) + ((v \div 16) % 8) * 10 + (v \div 128) * 128
Binary(k) ==
  IF format.binary THEN cur[k] ELSE IF k = HOUR THEN HourFromBCD(cur[k]) ELSE FromBCD(cur[k])
Hour24(h) == IF ~format.h24 /\ h >= 128 THEN ((h % 128) + 12) % 24 ELSE h
FullYear(y) ==
  LET n == y + (CURRENT_YEAR \div 100) * 100 IN IF n < CURRENT_YEAR THEN n + 100 ELSE n

Convert ==
  /\ pc = "convert" /\ Access
  /\ cur' = [k \in Fields |-> CASE k = HOUR -> Hour24(Binary(k)) [] k = YEAR -> FullYear(Binary(k))
                                [] OTHER -> Binary(k)]
  /\ pc' = "done"
  /\ UNCHANGED <<pass, i, last, shown>>
Returned == pc = "done" /\ UNCHANGED vars

-----------------------------------------------------------------------------
Init ==
  /\ clock \in Times /\ quiet = QuietReads /\ format \in Formats
  /\ phase \in {"idle"} \cup (IF Tick(clock) \in Times THEN {"uip"} ELSE {})
  /\ pc = "wait" /\ pass = 1 /\ i = 1
  /\ cur = [k \in Fields |-> 0] /\ last = [k \in Fields |-> 0]
  /\ seen = {} /\ before = {}

Chip == RaiseUip \/ StartUpdate \/ EndUpdate
Kernel == WaitForUpdate \/ get_RTC_register \/ Compare \/ Convert
Next == Chip \/ Kernel \/ Returned
Spec == Init /\ [][Next]_vars

(* The kernel runs alone, and an update the chip began it ends.            *)
FairSpec == Spec /\ WF_vars(Kernel) /\ WF_vars(StartUpdate) /\ WF_vars(EndUpdate)

-----------------------------------------------------------------------------
(* "read registers until you get the same values twice in a row" (tty.c,   *)
(* in read_rtc): however the passes and the updates interleave, what the   *)
(* kernel ends with is one time the clock showed in the last two passes,   *)
(* never parts of two, and in full: year, century, 24 hours.               *)
TimeDelivered == pc = "done" => cur \in seen \cup before

(* The loop ends although the clock never stops.                           *)
ReadEnds == <>(pc = "done")
=============================================================================
