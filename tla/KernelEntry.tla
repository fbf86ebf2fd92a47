---------------------------- MODULE KernelEntry -----------------------------
(***************************************************************************)
(* kernel/arch/i386/boot.S, instruction by instruction: the header is in   *)
(* order, the stack set up, kernel_main called and, should it come back,   *)
(* the processor halted for good.  kernel_main may switch interrupts on    *)
(* and come back with them on; a non-maskable interrupt wakes a halted     *)
(* processor all the same.                                                 *)
(***************************************************************************)
EXTENDS Integers, Sequences

CONSTANT LoaderStacks   \* what the boot loader may leave in %esp

stack_bottom == 16 * 64                \* .align 16
stack_top == stack_bottom + 16384

(* The multiboot header: words as halves <<low, high>> of 16 bits.         *)
Plus32(x, y) ==
  LET low == x[1] + y[1]
  IN <<low % 65536, (x[2] + y[2] + (low \div 65536)) % 65536>>
Minus32(x) == Plus32(<<65535 - x[1], 65535 - x[2]>>, <<1, 0>>)
MAGIC == <<45058, 7085>>       \* 0x1BADB002
FLAGS == <<3, 0>>              \* ALIGN | MEMINFO
CHECKSUM == Minus32(Plus32(MAGIC, FLAGS))
multiboot == <<MAGIC, FLAGS, CHECKSUM>>

VARIABLES
  insn,    \* the instruction that comes next, "loader" and "kernel" outside _start
  stack,   \* %esp
  sti,     \* the interrupt flag
  over     \* history: kernel_main has come back

entryVars == <<insn, stack, sti, over>>

EntryInit ==
  /\ insn = "loader" /\ stack \in LoaderStacks /\ sti = FALSE /\ over = FALSE

(* The boot loader starts what has a header that adds up to 0.             *)
Load ==
  /\ insn = "loader"
  /\ insn' = IF Plus32(Plus32(multiboot[1], multiboot[2]), multiboot[3]) = <<0, 0>>
                /\ multiboot[1] = <<45058, 7085>>
               THEN "mov" ELSE "refused"
  /\ UNCHANGED <<stack, sti, over>>

(* The code, in its order; behind the jump nothing is known of memory.     *)
NextInstruction_NoLoop ==
  [mov |-> "call", call |-> "kernel", cli |-> "hlt", hlt |-> "asleep", jmp |-> "behind"]
NextInstruction ==
  [mov |-> "call", call |-> "kernel", cli |-> "hlt", hlt |-> "asleep", jmp |-> "hlt"]

StackAfter ==
  CASE insn = "mov" -> stack_top [] insn = "call" -> stack - 4 [] OTHER -> stack

StartStep ==
  /\ insn \in DOMAIN NextInstruction
  /\ insn' = NextInstruction[insn] /\ stack' = StackAfter
  /\ sti' = (insn # "cli" /\ sti)
  /\ UNCHANGED over

(* kernel_main, as _start sees it: it may use interrupts and may return.   *)
Enable == insn = "kernel" /\ sti' = TRUE /\ UNCHANGED <<insn, stack, over>>
ComeBack ==
  /\ insn = "kernel"
  /\ insn' = "cli" /\ stack' = stack + 4 /\ over' = TRUE
  /\ UNCHANGED sti

(* What ends a hlt with interrupts off.                                    *)
NonMaskable == insn = "asleep" /\ insn' = "jmp" /\ UNCHANGED <<stack, sti, over>>

EntryNext == Load \/ StartStep \/ Enable \/ ComeBack \/ NonMaskable

-----------------------------------------------------------------------------
(* The boot loader finds the header in order, and kernel_main is entered   *)
(* on the kernel's own stack, whatever the loader left in %esp, 16-byte    *)
(* aligned in front of the return address as the compiler takes for        *)
(* granted.                                                                *)
EnteredOnOwnStack ==
  /\ insn # "refused"
  /\ insn = "kernel" => (stack + 4) % 16 = 0 /\ stack \in stack_bottom .. stack_top - 4

(* Once kernel_main has come back, the processor never runs anything but   *)
(* the halting loop again, and never sleeps with interrupts let through,   *)
(* however often it is woken.                                              *)
HaltedForGood ==
  over => insn \in {"cli", "hlt", "asleep", "jmp"} /\ (insn = "asleep" => ~sti)
=============================================================================
