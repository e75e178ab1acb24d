---------------------------- MODULE MCSimulator ----------------------------
(***************************************************************************)
(* Small programs in the layout of Showcase/linker_script: the reset       *)
(* vector at 0, the interrupt vector at 0x18 (24), the program from 0x20   *)
(* (32).  The linker leaves the words between unset: the processor of the  *)
(* model meets there an undefined instruction under a condition (the       *)
(* filling of the address sanitizer) or one without effect (zeros).        *)
(***************************************************************************)
EXTENDS Simulator

B(address, target) ==
    [op |-> "b", cond |-> "AL", link |-> 0,
     offset |-> (target - address - 8) \div 4]
BLNE(address, target) == [B(address, target) EXCEPT !.cond = "NE", !.link = 1]
SUB(rd, rn, imm, s) ==
    [op |-> "sub", cond |-> "AL", rd |-> rd, rn |-> rn, imm |-> imm, s |-> s]
BX(rm) == [op |-> "bx", cond |-> "AL", rm |-> rm]
SWI(service) == [op |-> "swi", cond |-> "AL", service |-> service]
MRS(spsr) == [op |-> "mrs", cond |-> "AL", rd |-> 0, spsr |-> spsr]
CMP(rn, imm) == [op |-> "cmp", cond |-> "AL", rn |-> rn, imm |-> imm]
Fault == [op |-> "fault", cond |-> "AL"]

Filled == [op |-> "undefined", cond |-> "LT"]
Zeros == [SUB(0, 0, 0, 0) EXCEPT !.cond = "EQ"]

\* the vectors around a program of five instructions, from 32 to 48, and a
\* handler of two, at 52 and 56
Layout(fill, program, handler) ==
    [a \in 0 .. 59 |->
        IF a % 4 # 0 THEN Filled
        ELSE IF a = 0 THEN B(0, 32)
        ELSE IF a = 24 THEN B(24, 52)
        ELSE IF a < 32 THEN fill
        ELSE IF a < 52 THEN program[(a - 28) \div 4]
        ELSE handler[(a - 48) \div 4]]

\* acquitter_irq of Showcase/my_syscalls.s
Return == SUB(PC, LR, 4, 1)

\* a subroutine call, then the end
Call == <<SUB(0, 0, 1, 1), BLNE(36, 44), SWI("end"), BX(LR), B(48, 40)>>
\* system calls, a failed access and an undefined instruction
Calls == <<SWI("scanint"), CMP(0, 1), Fault, SWI("unknown"), SWI("end")>>

MCPrograms ==
    {Layout(Filled, Call, <<SUB(0, 0, 1, 0), Return>>),
     Layout(Zeros, Calls, <<MRS(1), Return>>)}
=============================================================================
