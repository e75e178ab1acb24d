----------------------------- MODULE Processor -----------------------------
(***************************************************************************)
(* The processor: arm_core.c, arm_instruction.c, arm_branch_other.c,       *)
(* arm_exception.c and the SUB and CMP of apply_operator.  The operations  *)
(* are operators from the state (file, cpsr) to an outcome, the new state  *)
(* with the value returned; Simulator.tla turns them into the steps of its *)
(* threads.                                                                *)
(*                                                                         *)
(* file holds the cells of RegisterBanks, in the byte order registers_read *)
(* gives them (Registers.tla is about that order).  Of the registers that  *)
(* no mode banks, r0 stands for all.  A status register is the record of   *)
(* its fields; an instruction is the record of its decoded fields.         *)
(***************************************************************************)
EXTENDS RegisterBanks

CONSTANTS
    WordSize,    \* 2^32 in the code
    MemorySize,  \* memory_get_size, 0x8000 in the code
    Programs     \* the memory contents considered, from address to instruction

CoreRegisters == {0, SP, LR, PC, SPSR}
Word == 0 .. WordSize - 1
Bit == {0, 1}
Status == [n : Bit, z : Bit, c : Bit, v : Bit, i : Bit, f : Bit, t : Bit,
           mode : 0 .. 31]
General == {0, SP, LR, PC}

\* the results of an instruction and the exceptions of arm_constants.h; 255 is
\* the -1 of a failed access, passed to arm_exception as a uint8_t
RESET == 1
DATA_ABORT == 2
INTERRUPT == 4
PREFETCH_ABORT == 6
UNDEFINED_INSTRUCTION == 7
SOFTWARE_INTERRUPT == 8
END_SIMULATION == 9
ACCESS_FAILED == 255

IRQ_vector_ADR == 24

Conditions == {"EQ", "NE", "CS", "CC", "MI", "PL", "VS", "VC", "HI", "LS",
               "GE", "LT", "GT", "LE", "AL", "NV"}
Services == {"end", "print", "scanint", "unknown"}

Instruction ==
    [op : {"b"}, cond : Conditions, link : Bit, offset : Int]
        \union [op : {"bx"}, cond : Conditions, rm : General]
        \union [op : {"mrs"}, cond : Conditions, rd : General, spsr : Bit]
        \union [op : {"sub"}, cond : Conditions, rd : General, rn : General,
                imm : Word, s : Bit]
        \union [op : {"cmp"}, cond : Conditions, rn : General, imm : Word]
        \union [op : {"swi"}, cond : Conditions, service : Services]
        \union [op : {"undefined", "fault"}, cond : Conditions]

ASSUME MemoryAssumption == MemorySize \in Nat /\ MemorySize < WordSize
ASSUME WordAssumption ==
    WordSize \in Nat /\ WordSize >= 4096 /\ WordSize % 4 = 0
ASSUME ProgramAssumption ==
    \A program \in Programs :
        /\ program = [address \in 0 .. MemorySize - 1 |-> program[address]]
        /\ \A address \in 0 .. MemorySize - 1 : program[address] \in Instruction

VARIABLES
    memory,  \* the program loaded
    file,    \* the registers
    cpsr     \* the current program status register

Outcome(newFile, newCpsr, result) ==
    [file |-> newFile, cpsr |-> newCpsr, result |-> result]

-----------------------------------------------------------------------------
(* arm_core.c *)

ModeOf(status) == status.mode + 32 * status.t
registers_get_mode == ModeOf(cpsr)

\* registers_read and registers_write under a mode
ReadAs(mode, reg) == file[Cell(reg, mode)]
WriteAs(aFile, mode, reg, value) == [aFile EXCEPT ![Cell(reg, mode)] = value]

pc == ReadAs(registers_get_mode, PC)

\* x & 0xFFFFFFFD
ClearBit1(x) == IF (x \div 2) % 2 = 1 THEN x - 2 ELSE x

\* instructions read their own address + 8: the fetch has added 4 already
arm_read_register(reg) ==
    IF reg = PC THEN ClearBit1((pc + 4) % WordSize)
    ELSE ReadAs(registers_get_mode, reg)

arm_write_register(aFile, reg, value) ==
    WriteAs(aFile, registers_get_mode, reg, value)

arm_current_mode_has_spsr == registers_mode_has_spsr(registers_get_mode)
arm_read_spsr == ReadAs(registers_get_mode, SPSR)

\* what arm_fetch returns, and the registers it leaves
FetchFails == pc >= MemorySize
MutantFetchFile == arm_write_register(file, PC, pc + 4)
FetchFile == arm_write_register(file, PC, (pc + 4) % WordSize)

-----------------------------------------------------------------------------
(* arm_execute_instruction: the condition of an instruction *)

Holds(cond) ==
    \/ cond = "EQ" /\ cpsr.z = 1
    \/ cond = "NE" /\ cpsr.z = 0
    \/ cond = "CS" /\ cpsr.c = 1
    \/ cond = "CC" /\ cpsr.c = 0
    \/ cond = "MI" /\ cpsr.n = 1
    \/ cond = "PL" /\ cpsr.n = 0
    \/ cond = "VS" /\ cpsr.v = 1
    \/ cond = "VC" /\ cpsr.v = 0
    \/ cond = "HI" /\ cpsr.c = 1 /\ cpsr.z = 0
    \/ cond = "LS" /\ cpsr.c = 1 /\ cpsr.z = 1
    \/ cond = "GE" /\ cpsr.n = cpsr.v
    \/ cond = "LT" /\ cpsr.n # cpsr.v
    \/ cond = "GT" /\ cpsr.z = 0 /\ cpsr.n = cpsr.v
    \/ cond = "LE" /\ (cpsr.z = 1 \/ cpsr.n # cpsr.v)
    \/ cond = "AL"

-----------------------------------------------------------------------------
(* arm_branch_other.c and apply_operator *)

arm_branch(inst) ==
    LET value == arm_read_register(PC)
        linked == IF inst.link = 1
                  THEN arm_write_register(file, LR, (value - 4) % WordSize)
                  ELSE file
        target == (value + 4 * inst.offset) % WordSize
    IN  Outcome(arm_write_register(linked, PC, target), cpsr, 0)

\* BX: bit 0 is cleared, the T bit of the CPSR is not touched
arm_miscellaneous_2(inst) ==
    LET value == arm_read_register(inst.rm)
    IN  Outcome(arm_write_register(file, PC, value - (value % 2)), cpsr, 0)

\* a status register as a word: the flags at the top, the control bits at the
\* bottom, the other bits left out
StatusWord(status) ==
    (WordSize \div 2) * status.n + (WordSize \div 4) * status.z
        + (WordSize \div 8) * status.c + (WordSize \div 16) * status.v
        + 128 * status.i + 64 * status.f + 32 * status.t + status.mode

\* MRS
arm_miscellaneous(inst) ==
    IF inst.spsr = 1 /\ ~arm_current_mode_has_spsr
    THEN Outcome(file, cpsr, DATA_ABORT)
    ELSE LET status == IF inst.spsr = 1 THEN arm_read_spsr ELSE cpsr
         IN  Outcome(arm_write_register(file, inst.rd, StatusWord(status)),
                     cpsr, 0)

Sign(x) == IF 2 * x >= WordSize THEN 1 ELSE 0

set_zn(status, value) ==
    [status EXCEPT !.n = Sign(value), !.z = IF value = 0 THEN 1 ELSE 0]

\* set_zn, borrowFrom and overflowFrom for a subtraction: C is the sign of the
\* result, and all four flags are overwritten
SubFlags(status, rn, imm, value) ==
    [set_zn(status, value) EXCEPT
        !.c = Sign(value),
        !.v = IF Sign(rn) # Sign(imm) /\ Sign(value) # Sign(rn) THEN 1 ELSE 0]

\* the status an instruction that sets the flags starts from: SUBS PC takes
\* the one saved by the exception
SavedStatus(inst) ==
    IF inst.rd = PC /\ arm_current_mode_has_spsr THEN arm_read_spsr ELSE cpsr

\* SUB: Rd is written in the bank of the mode that executes it, before the
\* CPSR changes
apply_sub(inst) ==
    LET rn == arm_read_register(inst.rn)
        value == (rn - inst.imm) % WordSize
    IN  Outcome(arm_write_register(file, inst.rd, value),
                IF inst.s = 1
                THEN SubFlags(SavedStatus(inst), rn, inst.imm, value)
                ELSE cpsr,
                0)

apply_cmp(inst) ==
    LET rn == arm_read_register(inst.rn)
    IN  Outcome(file,
                SubFlags(cpsr, rn, inst.imm, (rn - inst.imm) % WordSize), 0)

\* arm_fetch_code_inst
Dispatch(inst) ==
    IF inst.op = "b" THEN arm_branch(inst)
    ELSE IF inst.op = "bx" THEN arm_miscellaneous_2(inst)
    ELSE IF inst.op = "mrs" THEN arm_miscellaneous(inst)
    ELSE IF inst.op = "sub" THEN apply_sub(inst)
    ELSE IF inst.op = "cmp" THEN apply_cmp(inst)
    ELSE Outcome(file, cpsr,
                 IF inst.op = "swi" THEN SOFTWARE_INTERRUPT
                 ELSE IF inst.op = "fault" THEN ACCESS_FAILED
                 ELSE UNDEFINED_INSTRUCTION)

\* arm_execute_instruction, after the fetch
Execute(inst) ==
    IF Holds(inst.cond) THEN Dispatch(inst) ELSE Outcome(file, cpsr, 0)

-----------------------------------------------------------------------------
(* arm_exception.c *)

\* 0x153: supervisor mode, FIQ masked, IRQ not masked
reset_cpsr ==
    [n |-> 0, z |-> 0, c |-> 0, v |-> 0, i |-> 0, f |-> 1, t |-> 0,
     mode |-> SVC]

Reset(aFile) ==
    Outcome(WriteAs(aFile, SVC, PC, 0), reset_cpsr, RESET)

\* a software interrupt; scanint writes the integer the user types
Service(service, input) ==
    IF service = "end" THEN Outcome(file, cpsr, END_SIMULATION)
    ELSE IF service = "print" THEN Outcome(file, cpsr, 0)
    ELSE IF service = "scanint"
         THEN Outcome(arm_write_register(file, 0, input), cpsr, 0)
    ELSE Outcome(file, cpsr, SOFTWARE_INTERRUPT)

\* the instruction a software interrupt reads again in memory, at pc - 8
SwiAddress == (arm_read_register(PC) - 8) % WordSize
SwiInstruction == memory[SwiAddress]

\* the services of a software interrupt that no instruction has raised: the
\* low bits of whatever word is there may be any number, and the word of a
\* failed read is not initialised
SwiServices ==
    IF SwiAddress < MemorySize /\ SwiInstruction.op = "swi"
    THEN {SwiInstruction.service}
    ELSE Services

MutantInterrupted ==
    [cpsr |-> cpsr, sp |-> arm_read_register(SP), lr |-> pc]

\* what the interrupt handler will need, read before anything is written
Interrupted ==
    [cpsr |-> cpsr, sp |-> arm_read_register(SP), lr |-> arm_read_register(PC)]

\* the entry in the interrupt handler: the writes use the bank of IRQ
MutantHandlerStatus(saved) == [saved.cpsr EXCEPT !.mode = IRQ, !.t = 0]
HandlerStatus(saved) == [saved.cpsr EXCEPT !.mode = IRQ, !.t = 0, !.i = 1]

EnterInterrupt(saved) ==
    LET m == ModeOf(HandlerStatus(saved))
        f1 == WriteAs(file, m, SPSR, saved.cpsr)
        f2 == WriteAs(f1, m, PC, IRQ_vector_ADR - 4)
        f3 == WriteAs(f2, m, LR, saved.lr)
    IN  Outcome(WriteAs(f3, m, SP, saved.sp), HandlerStatus(saved), INTERRUPT)

\* an exception raised by an instruction: only the reset and the software
\* interrupt do something, the others are reported as they are
Exception(exception, input) ==
    IF exception = SOFTWARE_INTERRUPT
    THEN Service(SwiInstruction.service, input)
    ELSE IF exception = RESET THEN Reset(file)
    ELSE Outcome(file, cpsr, exception)

-----------------------------------------------------------------------------
\* registers_create and arm_create
ProcessorInit ==
    LET zero == [cell \in Cells(CoreRegisters) |->
                    IF cell[1] = SPSR
                    THEN [reset_cpsr EXCEPT !.f = 0, !.mode = 0]
                    ELSE 0]
    IN  /\ memory \in Programs
        /\ cpsr = reset_cpsr
        /\ file = WriteAs(Reset(zero).file, SVC, SP, MemorySize)

ProcessorTypeOK ==
    /\ memory \in Programs
    /\ DOMAIN file = Cells(CoreRegisters)
    /\ \A cell \in Cells(CoreRegisters) :
          IF cell[1] = SPSR THEN file[cell] \in Status ELSE file[cell] \in Word
    /\ cpsr \in Status
=============================================================================
