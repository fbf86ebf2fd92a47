----------------------------- MODULE TaskSwitch -----------------------------
(***************************************************************************)
(* switchTask of kernel/arch/i386/switch.S, instruction by instruction,    *)
(* between tasks whose registers are saved in the Registers structures of  *)
(* tty.c.  Memory is a function from word addresses to words; the stacks   *)
(* and the structures lie in it.  A task works on its registers, then      *)
(* calls switchTask with the structures of itself and of another task; it  *)
(* goes on when some task switches back to it.                             *)
(*                                                                         *)
(* switchTask pushes on the new task's stack before it loads cr3 and pops  *)
(* behind that, and reads the new task's structure on both sides.  The     *)
(* model's memory is one function whatever cr3 holds: every page directory *)
(* maps stacks and structures alike, as the one directory of setup_paging  *)
(* (tty.c), which maps the first 4 MB to themselves, does for all tasks.   *)
(***************************************************************************)
EXTENDS Integers, Sequences

CONSTANTS
  Tasks,        \* task numbers, from 0 on
  MaxSwitches   \* bound: calls of switchTask

Regs == {"eax", "ebx", "ecx", "edx", "esi", "edi", "esp", "ebp", "eip", "eflags", "cr3"}

(* typedef struct Registers: eleven words.                                 *)
RegisterOrder ==
  <<"eax", "ebx", "ecx", "edx", "esi", "edi", "esp", "ebp", "eip", "eflags", "cr3">>
OffsetOfReg == [r \in Regs |-> 4 * ((CHOOSE k \in 1 .. 11 : RegisterOrder[k] = r) - 1)]

StackSize == 80                                  \* bytes of a task's stack
Struct(t) == 1000 + 100 * t                      \* address of a task's registers
StackTop(t) == 100 + (t + 1) * StackSize
Entry(t) == 10 + t                               \* where a new task starts
AfterCall(t, n) == 10000 + 100 * n + t           \* the return address of its n-th call

VARIABLES
  cpu,       \* the registers of the processor
  memory,    \* memory, by word address
  ip,        \* the instruction that comes next, 0 outside switchTask
  running,   \* the task on the processor
  target,    \* the task being switched to
  switches,  \* calls so far
  expect     \* history: the registers every task goes on with

taskVars == <<cpu, memory, ip, running, target, switches, expect>>

-----------------------------------------------------------------------------
(* The code.  <<"load", d, s, r>> is mov d(%s), %r; <<"store", r, d, s>>   *)
(* is mov %r, d(%s).                                                       *)
SaveContext_KeepsEsp ==
  << <<"pusha">>, <<"push", "eflags">>, <<"mov", "cr3", "eax">>, <<"push", "eax">>,
     <<"load", 44, "esp", "eax">>,
     <<"store", "ebx", 4, "eax">>, <<"store", "ecx", 8, "eax">>, <<"store", "edx", 12, "eax">>,
     <<"store", "esi", 16, "eax">>, <<"store", "edi", 20, "eax">>,
     <<"load", 36, "esp", "ebx">>, <<"load", 40, "esp", "ecx">>, <<"load", 20, "esp", "edx">>,
     <<"load", 16, "esp", "esi">>, <<"load", 4, "esp", "edi">>,
     <<"store", "ebx", 0, "eax">>, <<"store", "edx", 24, "eax">>, <<"store", "esi", 28, "eax">>,
     <<"store", "ecx", 32, "eax">>, <<"store", "edi", 36, "eax">>,
     <<"pop", "ebx">>, <<"store", "ebx", 40, "eax">>, <<"push", "ebx">> >>
SaveContext ==
  << <<"pusha">>, <<"push", "eflags">>, <<"mov", "cr3", "eax">>, <<"push", "eax">>,
     <<"load", 44, "esp", "eax">>,
     <<"store", "ebx", 4, "eax">>, <<"store", "ecx", 8, "eax">>, <<"store", "edx", 12, "eax">>,
     <<"store", "esi", 16, "eax">>, <<"store", "edi", 20, "eax">>,
     <<"load", 36, "esp", "ebx">>, <<"load", 40, "esp", "ecx">>, <<"load", 20, "esp", "edx">>,
     <<"add", 4, "edx">>, <<"load", 16, "esp", "esi">>, <<"load", 4, "esp", "edi">>,
     <<"store", "ebx", 0, "eax">>, <<"store", "edx", 24, "eax">>, <<"store", "esi", 28, "eax">>,
     <<"store", "ecx", 32, "eax">>, <<"store", "edi", 36, "eax">>,
     <<"pop", "ebx">>, <<"store", "ebx", 40, "eax">>, <<"push", "ebx">> >>
LoadContext ==
  << <<"load", 48, "esp", "eax">>,
     <<"load", 4, "eax", "ebx">>, <<"load", 8, "eax", "ecx">>, <<"load", 12, "eax", "edx">>,
     <<"load", 16, "eax", "esi">>, <<"load", 20, "eax", "edi">>, <<"load", 28, "eax", "ebp">>,
     <<"push", "eax">>, <<"load", 36, "eax", "eax">>, <<"push", "eax">>, <<"pop", "eflags">>,
     <<"pop", "eax">>, <<"load", 24, "eax", "esp">>, <<"push", "eax">>,
     <<"load", 40, "eax", "eax">>, <<"mov", "eax", "cr3">>, <<"pop", "eax">>, <<"push", "eax">>,
     <<"load", 32, "eax", "eax">>, <<"xchg", "eax">>, <<"load", 0, "eax", "eax">>, <<"ret">> >>
Code == SaveContext \o LoadContext

PushaOrder == <<"eax", "ecx", "edx", "ebx", "esp", "ebp", "esi", "edi">>

(* What an instruction does to processor and memory.                       *)
Execute(op, c, m) ==
  CASE op[1] = "mov" -> <<[c EXCEPT ![op[3]] = c[op[2]]], m>>
    [] op[1] = "load" -> <<[c EXCEPT ![op[4]] = m[c[op[3]] + op[2]]], m>>
    [] op[1] = "store" -> <<c, [m EXCEPT ![c[op[4]] + op[3]] = c[op[2]]]>>
    [] op[1] = "add" -> <<[c EXCEPT ![op[3]] = @ + op[2]], m>>
    [] op[1] = "push" -> <<[c EXCEPT !.esp = @ - 4], [m EXCEPT ![c.esp - 4] = c[op[2]]]>>
    [] op[1] = "pop" -> <<[c EXCEPT !.esp = @ + 4, ![op[2]] = m[c.esp]], m>>
    [] op[1] = "xchg" -> <<[c EXCEPT ![op[2]] = m[c.esp]], [m EXCEPT ![c.esp] = c[op[2]]]>>
    [] op[1] = "ret" -> <<[c EXCEPT !.esp = @ + 4, !.eip = m[c.esp]], m>>
    [] op[1] = "pusha" ->
         <<[c EXCEPT !.esp = @ - 32],
           [a \in DOMAIN m |-> IF a \in c.esp - 32 .. c.esp - 4
                               THEN c[PushaOrder[(c.esp - a) \div 4]] ELSE m[a]]>>

-----------------------------------------------------------------------------
Fresh(t) ==
  [r \in Regs |-> CASE r = "esp" -> StackTop(t) [] r = "eip" -> Entry(t)
                    [] r = "cr3" -> 5000 + t [] OTHER -> 0]
Addresses ==
  UNION {{StackTop(t) - 4 * k : k \in 1 .. StackSize \div 4} : t \in Tasks}
  \cup UNION {{Struct(t) + 4 * k : k \in 0 .. 10} : t \in Tasks}

(* Task 0 runs; the structures of the others are set up so that they start *)
(* at their entry with an empty stack.                                     *)
TaskInit ==
  /\ running = 0 /\ target = 0 /\ ip = 0 /\ switches = 0
  /\ cpu = Fresh(0)
  /\ expect = [t \in Tasks |-> Fresh(t)]
  /\ memory = [a \in Addresses |->
                 IF \E t \in Tasks : a \in Struct(t) .. Struct(t) + 40
                 THEN LET t == (a - 1000) \div 100
                      IN Fresh(t)[RegisterOrder[((a - Struct(t)) \div 4) + 1]]
                 ELSE 0]

(* The running task computes: its general registers get values of its own. *)
(* Then it calls switchTask(from, to): arguments and return address go on  *)
(* its stack.  It must go on with these registers, behind the call.        *)
Value(t, r) == 100000 + 20000 * t + 1000 * switches + OffsetOfReg[r]
CallSwitch ==
  /\ ip = 0 /\ switches < MaxSwitches
  /\ \E t \in Tasks \ {running}, depth \in {0, 1} :
       LET esp == StackTop(running) - 4 * depth
           own == [r \in Regs |->
                     CASE r = "esp" -> esp - 8
                       [] r = "eip" -> AfterCall(running, switches)
                       [] r = "cr3" -> cpu.cr3
                       [] OTHER -> Value(running, r)]
       IN /\ target' = t
          /\ expect' = [expect EXCEPT ![running] = own]
          /\ memory' = [memory EXCEPT ![esp - 4] = Struct(t), ![esp - 8] = Struct(running),
                                   ![esp - 12] = AfterCall(running, switches)]
          /\ cpu' = [own EXCEPT !.esp = esp - 12, !.eip = 1]
  /\ ip' = 1 /\ switches' = switches + 1
  /\ UNCHANGED running

(* One instruction of switchTask.                                          *)
Instruction ==
  /\ ip # 0
  /\ LET next == Execute(Code[ip], cpu, memory)
     IN cpu' = next[1] /\ memory' = next[2]
  /\ ip' = IF ip = Len(Code) THEN 0 ELSE ip + 1
  /\ running' = IF ip = Len(Code) THEN target ELSE running
  /\ UNCHANGED <<target, switches, expect>>

TaskNext == CallSwitch \/ Instruction

-----------------------------------------------------------------------------
(* A task that gets the processor goes on with every register it had when  *)
(* it called switchTask, behind that call, on its own stack and with its   *)
(* own cr3, however many switches lie between.  It rests on directories    *)
(* that map stacks and structures alike (see the head of this module).     *)
ResumesWhereItLeft == ip = 0 /\ switches > 0 => cpu = expect[running]

(* While a task waits, its saved registers are those it called with.       *)
SavedWhileWaiting ==
  ip = 0 => \A t \in Tasks \ {running} :
              \A r \in Regs : memory[Struct(t) + OffsetOfReg[r]] = expect[t][r]
=============================================================================
