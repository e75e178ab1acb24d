-------------------------- MODULE SimulatorProofs --------------------------
(***************************************************************************)
(* The safety of the threads of the simulator, for every program, word     *)
(* size, memory size, breakpoint capacity and number of packets and        *)
(* interrupts.  Four inductive invariants: ControlInv (where the threads   *)
(* are, and who holds the mutex), MachineInv (what the processor contains) *)
(* and on these two ViewInv (what the reading of the registers has seen)   *)
(* and ResumeInv (where the handler goes back to).                         *)
(***************************************************************************)
EXTENDS Simulator, TLAPS

-----------------------------------------------------------------------------
(* What the operations of Processor.tla preserve, for every word size,     *)
(* memory size and program.  The processor is always in the mode and with  *)
(* the mask of a program or of the interrupt handler, and every SPSR holds *)
(* the status of a program; the other registers are words.                 *)

\* the statuses of a program: the supervisor mode of the reset, or the mode 0
\* (the bank of USR) of an SPSR that no exception has written
ProgramStatuses ==
    {s \in Status : s.mode \in {0, SVC} /\ s.i = 0 /\ s.t = 0}
HandlerStatuses == {s \in Status : s.mode = IRQ /\ s.i = 1 /\ s.t = 0}
ReachableModes == {0, SVC, IRQ}

FileOK(f) ==
    /\ DOMAIN f = Cells(CoreRegisters)
    /\ \A cell \in Cells(CoreRegisters) :
          IF cell[1] = SPSR THEN f[cell] \in ProgramStatuses ELSE f[cell] \in Word

CpsrOK(s) == s \in ProgramStatuses \union HandlerStatuses

OutcomeOK(o) == FileOK(o.file) /\ CpsrOK(o.cpsr)

MemoryOK ==
    \A address \in 0 .. MemorySize - 1 : memory[address] \in Instruction

-----------------------------------------------------------------------------
\* The modes a program or the handler runs in only use cells that
\* registers_create has allocated.
LEMMA Banks ==
    /\ \A m \in ReachableModes, reg \in General :
          Cell(reg, m) \in Cells(CoreRegisters) /\ Cell(reg, m)[1] = reg
    /\ \A m \in {SVC, IRQ} :
          Cell(SPSR, m) \in Cells(CoreRegisters) /\ Cell(SPSR, m)[1] = SPSR
    /\ \A m \in ReachableModes :
          registers_mode_has_spsr(m) <=> m \in {SVC, IRQ}
<1>1. CoreRegisters = {0, 13, 14, 15, 17}
  BY DEF CoreRegisters, SP, LR, PC, SPSR
<1>2. ASSUME NEW reg \in CoreRegisters, NEW k \in 0 .. Size(reg) - 1
      PROVE  <<reg, k>> \in Cells(CoreRegisters)
  BY <1>2 DEF Cells
<1>3. ASSUME NEW m \in ReachableModes, NEW reg \in General
      PROVE  Cell(reg, m) \in Cells(CoreRegisters) /\ Cell(reg, m)[1] = reg
  <2>1. reg \in CoreRegisters /\ reg # SPSR
    BY DEF General, CoreRegisters, SP, LR, PC, SPSR
  <2>2. Ptr(reg, get_read_write_mode(m)) \in 0 .. Size(reg) - 1
    BY DEF ReachableModes, General, Ptr, Size, get_read_write_mode,
           SP, LR, PC, SPSR, SYS, SVC, ABT, UND, IRQ, FIQ
  <2> QED BY <1>2, <2>1, <2>2 DEF Cell
<1>4. ASSUME NEW m \in {SVC, IRQ}
      PROVE  Cell(SPSR, m) \in Cells(CoreRegisters) /\ Cell(SPSR, m)[1] = SPSR
  <2>1. Ptr(SPSR, get_read_write_mode(m)) \in 0 .. Size(SPSR) - 1
    BY DEF Ptr, Size, get_read_write_mode,
           SP, LR, PC, SPSR, SYS, SVC, ABT, UND, IRQ, FIQ
  <2> QED BY <1>2, <2>1 DEF Cell, CoreRegisters
<1>5. \A m \in ReachableModes :
         registers_mode_has_spsr(m) <=> m \in {SVC, IRQ}
  BY DEF ReachableModes, registers_mode_has_spsr, get_read_write_mode,
         SYS, SVC, ABT, UND, IRQ, FIQ
<1> QED BY <1>3, <1>4, <1>5

\* A write to a general register leaves the SPSRs alone.
LEMMA WriteGeneral ==
    ASSUME NEW f, FileOK(f), NEW m \in ReachableModes, NEW reg \in General,
           NEW value \in Word
    PROVE  FileOK(WriteAs(f, m, reg, value))
<1>1. Cell(reg, m) \in Cells(CoreRegisters) /\ Cell(reg, m)[1] # SPSR
  BY Banks DEF General, SP, LR, PC, SPSR
<1> QED BY <1>1 DEF FileOK, WriteAs

\* arm_write_spsr in the handler, with the status of a program.
LEMMA WriteSaved ==
    ASSUME NEW f, FileOK(f), NEW s \in ProgramStatuses
    PROVE  FileOK(WriteAs(f, IRQ, SPSR, s))
BY Banks DEF FileOK, WriteAs

\* The mode of a status is its mode field: the T bit is never set.
LEMMA ModeReachable ==
    ASSUME NEW s, CpsrOK(s)
    PROVE  ModeOf(s) = s.mode /\ s.mode \in ReachableModes /\ s \in Status
BY DEF CpsrOK, ProgramStatuses, HandlerStatuses, ModeOf, ReachableModes, Status,
       SVC, IRQ

LEMMA Modulo ==
    ASSUME NEW x \in Int
    PROVE  x % WordSize \in Word
BY WordAssumption DEF Word

-----------------------------------------------------------------------------
LEMMA ReadGeneral ==
    ASSUME FileOK(file), CpsrOK(cpsr), NEW reg \in General
    PROVE  /\ ReadAs(registers_get_mode, reg) \in Word
           /\ arm_read_register(reg) \in Word
           /\ registers_get_mode \in ReachableModes
<1>1. registers_get_mode \in ReachableModes
  BY ModeReachable DEF registers_get_mode
<1>2. \A r \in General : ReadAs(registers_get_mode, r) \in Word
  BY <1>1, Banks DEF FileOK, ReadAs, General, SP, LR, PC, SPSR
<1>3. pc \in Word
  BY <1>2 DEF pc, General
<1>4. (pc + 4) % WordSize \in Word
  BY <1>3, Modulo DEF Word
<1>5. \A x \in Word : ClearBit1(x) \in Word
  BY WordAssumption DEF Word, ClearBit1
<1> QED BY <1>1, <1>2, <1>4, <1>5 DEF arm_read_register

\* A write of an instruction, in the bank of the current mode.
LEMMA WriteCurrent ==
    ASSUME FileOK(file), CpsrOK(cpsr), NEW f, FileOK(f), NEW reg \in General,
           NEW value \in Word
    PROVE  FileOK(arm_write_register(f, reg, value))
BY ReadGeneral, WriteGeneral DEF arm_write_register

LEMMA StatusWordType ==
    ASSUME NEW s \in Status
    PROVE  StatusWord(s) \in Word
<1>1. \A a \in Nat, b \in Bit : a * b \in Nat /\ a * b <= a
  BY DEF Bit
<1> DEFINE w2 == WordSize \div 2
           w4 == WordSize \div 4
           w8 == WordSize \div 8
           w16 == WordSize \div 16
<1>2. /\ w2 \in Nat /\ w4 \in Nat /\ w8 \in Nat /\ w16 \in Nat
      /\ w2 + w4 + w8 + w16 + 255 < WordSize
  BY WordAssumption
<1>3. /\ s.n \in Bit /\ s.z \in Bit /\ s.c \in Bit /\ s.v \in Bit
      /\ s.i \in 0 .. 1 /\ s.f \in 0 .. 1 /\ s.t \in 0 .. 1 /\ s.mode \in 0 .. 31
  BY DEF Status, Bit
<1>4. /\ w2 * s.n \in Nat /\ w2 * s.n <= w2
      /\ w4 * s.z \in Nat /\ w4 * s.z <= w4
      /\ w8 * s.c \in Nat /\ w8 * s.c <= w8
      /\ w16 * s.v \in Nat /\ w16 * s.v <= w16
  BY <1>1, <1>2, <1>3
<1>5. StatusWord(s) = w2 * s.n + w4 * s.z + w8 * s.c + w16 * s.v
                        + 128 * s.i + 64 * s.f + 32 * s.t + s.mode
  BY DEF StatusWord
<1>6. 128 * s.i + 64 * s.f + 32 * s.t + s.mode \in 0 .. 255
  BY <1>3
<1> HIDE DEF w2, w4, w8, w16
<1>7. \A a, b, c, d, e \in Nat :
        a <= w2 /\ b <= w4 /\ c <= w8 /\ d <= w16 /\ e <= 255
            => a + b + c + d + e \in Word
  BY <1>2, WordAssumption DEF Word
<1> DEFINE low == 128 * s.i + 64 * s.f + 32 * s.t + s.mode
           a1 == w2 * s.n
           a2 == w4 * s.z
           a3 == w8 * s.c
           a4 == w16 * s.v
<1>8. a1 + a2 + a3 + a4 + low \in Word
  <2>1. low \in Nat /\ low <= 255
    BY <1>6
  <2> HIDE DEF low
  <2> QED BY <1>4, <1>7, <2>1
<1>9. a1 + a2 + a3 + a4 + low
        = a1 + a2 + a3 + a4 + 128 * s.i + 64 * s.f + 32 * s.t + s.mode
  BY <1>3, <1>4
<1> QED BY <1>5, <1>8, <1>9

-----------------------------------------------------------------------------
\* Setting the flags keeps the mode and the mask.
LEMMA SubFlagsMode ==
    ASSUME NEW s \in Status, NEW rn, NEW imm, NEW value
    PROVE  LET t == SubFlags(s, rn, imm, value)
           IN  t \in Status /\ t.mode = s.mode /\ t.i = s.i /\ t.t = s.t
<1>1. \A x : Sign(x) \in Bit
  BY DEF Sign, Bit
<1> DEFINE z == set_zn(s, value)
           t == SubFlags(s, rn, imm, value)
<1>2. z \in Status /\ z.mode = s.mode /\ z.i = s.i /\ z.t = s.t
  BY <1>1 DEF set_zn, Status, Bit
<1>3. t \in Status /\ t.mode = z.mode /\ t.i = z.i /\ t.t = z.t
  <2> HIDE DEF z
  <2>1. t = [z EXCEPT !.c = Sign(value),
                      !.v = IF Sign(rn) # Sign(imm) /\ Sign(value) # Sign(rn)
                            THEN 1 ELSE 0]
    BY DEF SubFlags, z
  <2> QED BY <1>1, <1>2, <2>1 DEF Status, Bit
<1> QED BY <1>2, <1>3

LEMMA SubFlagsOK ==
    ASSUME NEW s, CpsrOK(s), NEW rn, NEW imm, NEW value
    PROVE  CpsrOK(SubFlags(s, rn, imm, value))
<1>1. s \in Status
  BY ModeReachable
<1> QED BY <1>1, SubFlagsMode DEF CpsrOK, ProgramStatuses, HandlerStatuses

\* The status that SUBS PC restores is the one of a program.
LEMMA SavedStatusOK ==
    ASSUME FileOK(file), CpsrOK(cpsr)
    PROVE  /\ arm_current_mode_has_spsr => arm_read_spsr \in ProgramStatuses
           /\ \A ins : CpsrOK(SavedStatus(ins))
<1>1. registers_get_mode \in ReachableModes
  BY ModeReachable DEF registers_get_mode
<1>2. arm_current_mode_has_spsr => registers_get_mode \in {SVC, IRQ}
  BY <1>1, Banks DEF arm_current_mode_has_spsr
<1>3. arm_current_mode_has_spsr => arm_read_spsr \in ProgramStatuses
  BY <1>2, Banks DEF arm_read_spsr, ReadAs, FileOK
<1> QED BY <1>3 DEF SavedStatus, CpsrOK

\* Every instruction keeps the registers and the status well formed; in
\* particular SUBS PC in the handler restores the status of a program.
LEMMA ExecuteOK ==
    ASSUME FileOK(file), CpsrOK(cpsr), NEW ins \in Instruction
    PROVE  OutcomeOK(Execute(ins))
<1> USE DEF Outcome
<1>1. PC \in General /\ LR \in General
  BY DEF General
<1>2. arm_read_register(PC) \in Word
  BY <1>1, ReadGeneral
<1>3. ASSUME ins.op = "b"
      PROVE  OutcomeOK(arm_branch(ins))
  <2> DEFINE value == arm_read_register(PC)
             linked == IF ins.link = 1
                       THEN arm_write_register(file, LR, (value - 4) % WordSize)
                       ELSE file
             target == (value + 4 * ins.offset) % WordSize
  <2>1. ins.offset \in Int
    BY <1>3 DEF Instruction
  <2>2. value \in Int
    BY <1>2 DEF Word
  <2>3. (value - 4) % WordSize \in Word /\ target \in Word
    BY <2>1, <2>2, Modulo
  <2>4. FileOK(linked)
    BY <1>1, <2>3, WriteCurrent
  <2>5. FileOK(arm_write_register(linked, PC, target))
    BY <1>1, <2>3, <2>4, WriteCurrent
  <2> QED BY <2>5 DEF arm_branch, OutcomeOK
<1>4. ASSUME ins.op = "bx"
      PROVE  OutcomeOK(arm_miscellaneous_2(ins))
  <2> DEFINE value == arm_read_register(ins.rm)
  <2>1. value \in Word
    BY <1>4, ReadGeneral DEF Instruction
  <2>2. value - (value % 2) \in Word
    BY <2>1, WordAssumption DEF Word
  <2>3. FileOK(arm_write_register(file, PC, value - (value % 2)))
    BY <1>1, <2>2, WriteCurrent
  <2> QED BY <2>3 DEF arm_miscellaneous_2, OutcomeOK
<1>5. arm_current_mode_has_spsr => arm_read_spsr \in ProgramStatuses
  BY SavedStatusOK
<1>6. ASSUME ins.op = "mrs"
      PROVE  OutcomeOK(arm_miscellaneous(ins))
  <2>1. ins.rd \in General
    BY <1>6 DEF Instruction
  <2>2. CASE ins.spsr = 1 /\ ~arm_current_mode_has_spsr
    BY <2>2 DEF arm_miscellaneous, OutcomeOK
  <2>3. CASE ~(ins.spsr = 1 /\ ~arm_current_mode_has_spsr)
    <3> DEFINE status == IF ins.spsr = 1 THEN arm_read_spsr ELSE cpsr
    <3>1. status \in Status
      BY <1>5, <2>3, ModeReachable DEF ProgramStatuses
    <3>2. FileOK(arm_write_register(file, ins.rd, StatusWord(status)))
      BY <2>1, <3>1, StatusWordType, WriteCurrent
    <3> QED BY <2>3, <3>2 DEF arm_miscellaneous, OutcomeOK
  <2> QED BY <2>2, <2>3
<1>7. ASSUME ins.op = "sub"
      PROVE  OutcomeOK(apply_sub(ins))
  <2> DEFINE rn == arm_read_register(ins.rn)
             value == (rn - ins.imm) % WordSize
  <2>1. ins.rd \in General /\ ins.rn \in General /\ ins.imm \in Int
    BY <1>7 DEF Instruction, Word
  <2>2. value \in Word
    BY <2>1, ReadGeneral, Modulo DEF Word
  <2>3. CpsrOK(SavedStatus(ins))
    BY SavedStatusOK
  <2>4. CpsrOK(SubFlags(SavedStatus(ins), rn, ins.imm, value))
    BY <2>3, SubFlagsOK
  <2>5. FileOK(arm_write_register(file, ins.rd, value))
    BY <2>1, <2>2, WriteCurrent
  <2> QED BY <2>4, <2>5 DEF apply_sub, OutcomeOK
<1>8. ASSUME ins.op = "cmp"
      PROVE  OutcomeOK(apply_cmp(ins))
  BY SubFlagsOK DEF apply_cmp, OutcomeOK
<1>9. \A r : OutcomeOK(Outcome(file, cpsr, r))
  BY DEF OutcomeOK
<1>10. OutcomeOK(Dispatch(ins))
  BY <1>3, <1>4, <1>6, <1>7, <1>8, <1>9 DEF Dispatch
<1> QED BY <1>9, <1>10 DEF Execute

LEMMA ResetOK ==
    ASSUME NEW f, FileOK(f)
    PROVE  OutcomeOK(Reset(f))
<1>1. 0 \in Word
  BY WordAssumption DEF Word
<1>2. FileOK(WriteAs(f, SVC, PC, 0))
  BY <1>1, WriteGeneral DEF ReachableModes, General
<1>3. CpsrOK(reset_cpsr)
  BY DEF reset_cpsr, CpsrOK, ProgramStatuses, Status, Bit, SVC
<1> QED BY <1>2, <1>3 DEF Reset, Outcome, OutcomeOK

LEMMA ExceptionOK ==
    ASSUME FileOK(file), CpsrOK(cpsr), NEW exception, NEW input \in Word
    PROVE  OutcomeOK(Exception(exception, input))
<1>1. FileOK(arm_write_register(file, 0, input))
  BY WriteCurrent DEF General
<1>2. \A service : OutcomeOK(Service(service, input))
  BY <1>1 DEF Service, Outcome, OutcomeOK
<1> QED BY <1>2, ResetOK DEF Exception, Outcome, OutcomeOK

\* The entry in the handler: interrupts are masked and the status saved is the
\* one of the program, if it was read in the program.
LEMMA EnterInterruptOK ==
    ASSUME FileOK(file), NEW s,
           s.cpsr \in ProgramStatuses, s.sp \in Word, s.lr \in Word
    PROVE  /\ FileOK(EnterInterrupt(s).file)
           /\ EnterInterrupt(s).cpsr \in HandlerStatuses
<1> DEFINE h == HandlerStatus(s)
           f1 == WriteAs(file, IRQ, SPSR, s.cpsr)
           f2 == WriteAs(f1, IRQ, PC, IRQ_vector_ADR - 4)
           f3 == WriteAs(f2, IRQ, LR, s.lr)
           f4 == WriteAs(f3, IRQ, SP, s.sp)
<1>1. h \in HandlerStatuses
  <2>1. s.cpsr \in Status /\ IRQ \in 0 .. 31 /\ {0, 1} \subseteq Bit
    BY DEF ProgramStatuses, IRQ, Bit
  <2> QED BY <2>1, Zenon DEF HandlerStatus, HandlerStatuses, Status
<1>2. ModeOf(h) = IRQ
  BY <1>1 DEF HandlerStatuses, ModeOf, IRQ
<1>3. IRQ_vector_ADR - 4 \in Word
  BY WordAssumption DEF IRQ_vector_ADR, Word
<1>4. IRQ \in ReachableModes /\ {SP, LR, PC} \subseteq General
  BY DEF ReachableModes, General
<1>5. FileOK(f1)
  BY WriteSaved
<1>6. FileOK(f2)
  BY <1>3, <1>4, <1>5, WriteGeneral
<1>7. FileOK(f3)
  BY <1>4, <1>6, WriteGeneral
<1>8. FileOK(f4)
  BY <1>4, <1>7, WriteGeneral
<1>9. EnterInterrupt(s) = Outcome(f4, h, INTERRUPT)
  BY <1>2 DEF EnterInterrupt
<1> QED BY <1>1, <1>8, <1>9 DEF Outcome

\* The fetch advances the program counter, modulo the word size.
LEMMA FetchOK ==
    ASSUME FileOK(file), CpsrOK(cpsr)
    PROVE  FileOK(FetchFile) /\ pc \in Word
<1>1. PC \in General
  BY DEF General
<1>2. pc \in Word
  BY <1>1, ReadGeneral DEF pc
<1>3. (pc + 4) % WordSize \in Word
  BY <1>2, Modulo DEF Word
<1> QED BY <1>1, <1>2, <1>3, WriteCurrent DEF FetchFile

\* registers_create and arm_create.
LEMMA InitOK ==
    ASSUME ProcessorInit
    PROVE  FileOK(file) /\ cpsr \in ProgramStatuses /\ memory \in Programs
<1> DEFINE zero == [cell \in Cells(CoreRegisters) |->
                       IF cell[1] = SPSR
                       THEN [reset_cpsr EXCEPT !.f = 0, !.mode = 0]
                       ELSE 0]
<1>1. [reset_cpsr EXCEPT !.f = 0, !.mode = 0] \in ProgramStatuses
  <2>1. 0 \in 0 .. 31 /\ 0 \in Bit
    BY DEF Bit
  <2>2. reset_cpsr \in Status /\ reset_cpsr.i = 0 /\ reset_cpsr.t = 0
    BY DEF reset_cpsr, Status, Bit, SVC
  <2> QED BY <2>1, <2>2, Zenon DEF ProgramStatuses, Status
<1>2. 0 \in Word /\ MemorySize \in Word
  BY WordAssumption, MemoryAssumption DEF Word
<1>3. FileOK(zero)
  BY <1>1, <1>2 DEF FileOK
<1>4. OutcomeOK(Reset(zero))
  BY <1>3, ResetOK
<1>5. FileOK(WriteAs(Reset(zero).file, SVC, SP, MemorySize))
  BY <1>2, <1>4, WriteGeneral DEF OutcomeOK, ReachableModes, General
<1>6. reset_cpsr \in ProgramStatuses
  BY DEF reset_cpsr, ProgramStatuses, Status, Bit, SVC
<1> QED BY <1>5, <1>6 DEF ProcessorInit

-----------------------------------------------------------------------------
(* The threads *)

Serving == {"lock", "fetch", "execute", "exception", "stepped", "handler", "cpsr"}

ControlTypeOK ==
    /\ lock \in {"free", "gdb", "irq"}
    /\ gdb \in {"read", "lock", "exited"} \union GdbHolds
    /\ irq \in {"read", "lock"} \union IrqHolds
    /\ main \in {"join", "destroyed", "returned", "aborted"}
    /\ client \in {"idle", "waiting", "closed"}
    /\ request \in Requests
    /\ breakpoints \subseteq BreakAddresses
    /\ byte \in 0 .. 255
    /\ sent \in [packets : 0 .. MaxRequests, interrupts : 0 .. MaxInterrupts]

\* the client waits while its request is being served, and the gdb thread
\* exits only when the connection is closed
Connection ==
    /\ gdb \in Serving => client = "waiting"
    /\ gdb \in {"fetch", "execute", "exception", "stepped"} =>
          request.cmd \in {"s", "c"}
    /\ gdb = "exited" => client = "closed"

ControlInv ==
    /\ ControlTypeOK
    /\ LockDiscipline
    /\ Connection
    /\ ProcessorOutlivesGdb

\* The mutex protocol of gdb_listener and irq_listener: who is inside a
\* critical section holds the mutex, and the connection follows the request.
LEMMA ControlInduction == ControlInv /\ [Next]_vars => ControlInv'
<1> SUFFICES ASSUME ControlInv, [Next]_vars
             PROVE  ControlInv'
  OBVIOUS
<1> USE DEF ControlInv, ControlTypeOK, LockDiscipline, Connection,
            ProcessorOutlivesGdb, Alive, GdbHolds, IrqHolds, Serving, vars,
            threads, processor, stepping
<1>1. CASE ClientSend
  <2>1. sent' \in [packets : 0 .. MaxRequests, interrupts : 0 .. MaxInterrupts]
    BY <1>1, BoundsAssumption DEF ClientSend
  <2> QED BY <1>1, <2>1 DEF ClientSend
<1>2. CASE ClientClose
  BY <1>2 DEF ClientClose
<1>3. CASE SendIrq
  <2>1. sent' \in [packets : 0 .. MaxRequests, interrupts : 0 .. MaxInterrupts]
    BY <1>3, BoundsAssumption DEF SendIrq
  <2>2. byte' \in 0 .. 255
    BY <1>3, IrqAssumption DEF SendIrq
  <2> QED BY <1>3, <2>1, <2>2 DEF SendIrq
<1>4. CASE gdb_packet_analysis
  BY <1>4 DEF gdb_packet_analysis
<1>5. CASE gdb_lock
  BY <1>5 DEF gdb_lock
<1>6. CASE arm_fetch
  BY <1>6 DEF arm_fetch
<1>7. CASE arm_execute_instruction
  BY <1>7 DEF arm_execute_instruction
<1>8. CASE arm_step_exception
  BY <1>8 DEF arm_step_exception
<1>9. CASE step_or_cont
  BY <1>9 DEF step_or_cont, Answer
<1>10. CASE read_general_registers
  BY <1>10 DEF read_general_registers, Answer
<1>11. CASE write_single_register
  BY <1>11 DEF write_single_register, Answer
<1>12. CASE breakpoint
  <2>1. request.arg \in BreakAddresses
    BY <1>12 DEF breakpoint, Requests
  <2>2. breakpoints' \subseteq BreakAddresses
    BY <1>12, <2>1 DEF breakpoint
  <2>3. Answer("OK") \/ Answer("E04") \/ Answer("E05")
    BY <1>12 DEF breakpoint
  <2> QED BY <1>12, <2>2, <2>3 DEF breakpoint, Answer
<1>13. CASE reason
  BY <1>13 DEF reason, Answer
<1>14. CASE kill_request
  BY <1>14 DEF kill_request
<1>15. CASE gdb_unlock
  BY <1>15 DEF gdb_unlock, Release
<1>16. CASE gdb_listener_exit
  BY <1>16 DEF gdb_listener_exit
<1>17. CASE irq_lock
  BY <1>17 DEF irq_lock, IrqLock
<1>18. CASE arm_exception
  BY <1>18 DEF arm_exception
<1>19. CASE arm_exception_enter
  BY <1>19 DEF arm_exception_enter
<1>20. CASE irq_unlock
  BY <1>20 DEF irq_unlock, Release
<1>21. CASE main_destroy
  BY <1>21 DEF main_destroy, Joined
<1>22. CASE main_return
  BY <1>22 DEF main_return
<1>23. CASE irq_use_after_free
  BY <1>23 DEF irq_use_after_free
<1>24. CASE Ended
  BY <1>24 DEF Ended
<1>25. CASE UNCHANGED vars
  BY <1>25
<1> QED
  BY <1>1, <1>2, <1>3, <1>4, <1>5, <1>6, <1>7, <1>8, <1>9, <1>10, <1>11,
     <1>12, <1>13, <1>14, <1>15, <1>16, <1>17, <1>18, <1>19, <1>20, <1>21,
     <1>22, <1>23, <1>24, <1>25 DEF Next, GdbThread, IrqThread, MainThread

LEMMA ControlInit == Init => ControlInv
<1> SUFFICES ASSUME Init
             PROVE  ControlInv
  OBVIOUS
<1>1. sent \in [packets : 0 .. MaxRequests, interrupts : 0 .. MaxInterrupts]
  <2>1. sent = [packets |-> 0, interrupts |-> 0]
    BY DEF Init
  <2> QED BY <2>1, BoundsAssumption
<1>2. request \in Requests
  BY DEF Init, Requests
<1>3. /\ lock = "free" /\ gdb = "read" /\ irq = "read" /\ main = "join"
      /\ client = "idle" /\ breakpoints = {} /\ byte = 0
  BY DEF Init
<1> QED BY <1>1, <1>2, <1>3
        DEF ControlInv, ControlTypeOK, LockDiscipline, Connection,
            ProcessorOutlivesGdb, GdbHolds, IrqHolds, Serving

\* The processor has one user at a time, whatever the interleaving of the gdb
\* and irq threads: the mutex of arm_simulator.c is held exactly inside the
\* critical sections.
THEOREM MutualExclusion == Safety => []LockDiscipline
<1>1. ControlInv => LockDiscipline
  BY DEF ControlInv
<1> QED BY <1>1, ControlInit, ControlInduction, PTL DEF Safety

\* main frees the processor only after the gdb thread has exited, and the gdb
\* thread exits only on a closed connection.
THEOREM OutlivesGdb == Safety => []ProcessorOutlivesGdb
<1>1. ControlInv => ProcessorOutlivesGdb
  BY DEF ControlInv
<1> QED BY <1>1, ControlInit, ControlInduction, PTL DEF Safety

-----------------------------------------------------------------------------
\* The status read by the irq thread between its two steps is one of a
\* program: arm_exception has seen the I bit clear.
MachineInv ==
    /\ memory \in Programs
    /\ FileOK(file)
    /\ CpsrOK(cpsr)
    /\ inst \in Instruction \union {NoInstruction}
    /\ snapshot \in [pc : Word, cpsr : Status]
    /\ saved \in [cpsr : Status, sp : Word, lr : Word]
    /\ irq = "enter" => saved.cpsr \in ProgramStatuses
    /\ expect \in Word

Machine == <<memory, file, cpsr, inst, snapshot, saved, expect>>

\* A step that leaves the processor alone, and does not enter the handler.
LEMMA MachineFrame ==
    ASSUME MachineInv, UNCHANGED Machine, irq' = irq \/ irq' # "enter"
    PROVE  MachineInv'
BY DEF MachineInv, Machine, FileOK, CpsrOK

\* The program goes on at a word.
LEMMA ContinuesOK ==
    ASSUME expect \in Word, NEW o, OutcomeOK(o), Continues(o)
    PROVE  expect' \in Word
<1>1. ModeOf(o.cpsr) \in ReachableModes
  BY ModeReachable DEF OutcomeOK
<1>2. o.file[Cell(PC, ModeOf(o.cpsr))] \in Word
  BY <1>1, Banks DEF OutcomeOK, FileOK, General, PC, SPSR
<1> QED BY <1>2 DEF Continues

\* A software interrupt leaves the registers alone or writes r0.
LEMMA ServiceFile ==
    ASSUME NEW service, NEW input \in Inputs
    PROVE  \/ Service(service, input).file = file
           \/ Service(service, input).file = arm_write_register(file, 0, input)
BY DEF Service, Outcome

LEMMA ServiceFileOK ==
    ASSUME FileOK(file), CpsrOK(cpsr), NEW service, NEW input \in Inputs
    PROVE  FileOK(Service(service, input).file)
<1>1. 0 \in General /\ input \in Word
  BY InputAssumption DEF General
<1> QED BY <1>1, ServiceFile, WriteCurrent

LEMMA InterruptedOK ==
    ASSUME FileOK(file), CpsrOK(cpsr)
    PROVE  /\ Interrupted \in [cpsr : Status, sp : Word, lr : Word]
           /\ cpsr.i = 0 => Interrupted.cpsr \in ProgramStatuses
<1>1. arm_read_register(SP) \in Word /\ arm_read_register(PC) \in Word
  BY ReadGeneral DEF General
<1>2. cpsr \in Status
  BY ModeReachable
<1>3. cpsr.i = 0 => cpsr \in ProgramStatuses
  BY DEF CpsrOK, HandlerStatuses
<1> QED BY <1>1, <1>2, <1>3 DEF Interrupted

\* Every step of every thread keeps the processor in the mode and with the
\* mask of a program or of the handler, and every SPSR a program status.
LEMMA MachineInduction == ControlInv /\ MachineInv /\ [Next]_vars => MachineInv'
<1> SUFFICES ASSUME ControlInv, MachineInv, [Next]_vars
             PROVE  MachineInv'
  OBVIOUS
<1> USE DEF processor, stepping, threads, Machine
<1>0. FileOK(file) /\ CpsrOK(cpsr) /\ expect \in Word
  BY DEF MachineInv
<1>1. CASE ClientSend
  BY <1>1, MachineFrame DEF ClientSend
<1>2. CASE ClientClose
  BY <1>2, MachineFrame DEF ClientClose
<1>3. CASE SendIrq
  BY <1>3, MachineFrame DEF SendIrq
<1>4. CASE gdb_packet_analysis
  BY <1>4, MachineFrame DEF gdb_packet_analysis
<1>5. CASE gdb_lock
  BY <1>5, MachineFrame DEF gdb_lock
<1>6. CASE arm_fetch
  <2>1. FileOK(file') /\ pc \in Word
    BY <1>0, <1>6, FetchOK DEF arm_fetch
  <2>2. ~FetchFails => memory[pc] \in Instruction
    <3>1. ~FetchFails => pc \in 0 .. MemorySize - 1
      BY <2>1, MemoryAssumption, WordAssumption DEF FetchFails, Word
    <3>2. memory \in Programs
      BY DEF MachineInv
    <3> QED BY <3>1, <3>2, ProgramAssumption
  <2>3. inst' \in Instruction \union {NoInstruction}
    BY <1>6, <2>2 DEF arm_fetch
  <2> QED BY <1>6, <2>1, <2>3 DEF arm_fetch, MachineInv, CpsrOK, FileOK
<1>7. CASE arm_execute_instruction
  <2> DEFINE o == IF inst.op = "none" THEN Outcome(file, cpsr, 1)
                  ELSE Execute(inst)
  <2>1. OutcomeOK(o)
    <3>1. inst.op # "none" => inst \in Instruction
      BY DEF MachineInv, NoInstruction
    <3>2. OutcomeOK(Outcome(file, cpsr, 1))
      BY <1>0 DEF OutcomeOK, Outcome
    <3> QED BY <1>0, <3>1, <3>2, ExecuteOK
  <2> DEFINE p == [o EXCEPT !.result = 0]
  <2>2. file' = o.file /\ cpsr' = o.cpsr /\ Continues(p)
    BY <1>7 DEF arm_execute_instruction
  <2>3. OutcomeOK(p)
    BY <2>1 DEF OutcomeOK
  <2> HIDE DEF o, p
  <2>4. expect' \in Word
    BY <1>0, <2>2, <2>3, ContinuesOK
  <2>5. FileOK(file') /\ CpsrOK(cpsr')
    BY <2>1, <2>2 DEF OutcomeOK
  <2> QED BY <1>7, <2>4, <2>5
          DEF arm_execute_instruction, MachineInv, CpsrOK, FileOK
<1>8. CASE arm_step_exception
  <2>1. PICK input \in Inputs :
          LET o == Exception(result, input)
          IN  file' = o.file /\ cpsr' = o.cpsr /\ Continues(o)
    BY <1>8 DEF arm_step_exception
  <2> DEFINE o == Exception(result, input)
  <2>2. OutcomeOK(o)
    BY <1>0, ExceptionOK, InputAssumption
  <2>3. expect' \in Word
    BY <1>0, <2>1, <2>2, ContinuesOK
  <2>4. FileOK(file') /\ CpsrOK(cpsr')
    BY <2>1, <2>2 DEF OutcomeOK
  <2> QED BY <1>8, <2>3, <2>4 DEF arm_step_exception, MachineInv, CpsrOK, FileOK
<1>9. CASE step_or_cont
  BY <1>9, MachineFrame DEF step_or_cont
<1>10. CASE read_general_registers
  <2>1. pc \in Word /\ cpsr \in Status
    BY <1>0, FetchOK, ModeReachable
  <2>2. snapshot' \in [pc : Word, cpsr : Status]
    BY <1>10, <2>1 DEF read_general_registers, read_register, pc, MachineInv
  <2> QED BY <1>10, <2>2 DEF read_general_registers, MachineInv, CpsrOK, FileOK
<1>11. CASE write_single_register
  <2>1. request.arg \in Word
    BY <1>11, PcAssumption DEF write_single_register, ControlInv, ControlTypeOK, Requests
  <2>2. FileOK(file')
    BY <1>0, <1>11, <2>1, WriteCurrent
       DEF write_single_register, write_register, arm_write_register, General
  <2>3. expect' \in Word
    BY <1>0, <1>11, <2>1 DEF write_single_register
  <2> QED BY <1>11, <2>2, <2>3 DEF write_single_register, MachineInv, CpsrOK, FileOK
<1>12. CASE breakpoint
  BY <1>12, MachineFrame DEF breakpoint
<1>13. CASE reason
  BY <1>13, MachineFrame DEF reason
<1>14. CASE kill_request
  BY <1>14, MachineFrame DEF kill_request
<1>15. CASE gdb_unlock
  BY <1>15, MachineFrame DEF gdb_unlock, Release
<1>16. CASE gdb_listener_exit
  BY <1>16, MachineFrame DEF gdb_listener_exit
<1>17. CASE irq_lock
  BY <1>17, MachineFrame DEF irq_lock, IrqLock
<1>18. CASE arm_exception
  <2>1. CASE byte = INTERRUPT /\ cpsr.i = 0 /\ saved' = Interrupted
             /\ irq' = "enter" /\ UNCHANGED <<file, cpsr, expect>>
    BY <1>0, <1>18, <2>1, InterruptedOK
       DEF arm_exception, MachineInv, CpsrOK, FileOK
  <2>2. CASE file' = Reset(file).file /\ cpsr' = Reset(file).cpsr
             /\ expect' = 0 /\ irq' = "unlock" /\ UNCHANGED saved
    <3>1. FileOK(file') /\ CpsrOK(cpsr')
      BY <1>0, <2>2, ResetOK DEF OutcomeOK
    <3>2. 0 \in Word
      BY WordAssumption DEF Word
    <3> QED BY <1>18, <2>2, <3>1, <3>2
            DEF arm_exception, MachineInv, CpsrOK, FileOK
  <2>3. CASE irq' = "unlock" /\ UNCHANGED <<file, cpsr, expect, saved>>
    BY <1>18, <2>3, MachineFrame DEF arm_exception
  <2>4. CASE /\ \E service \in SwiServices, input \in Inputs :
                   file' = Service(service, input).file
             /\ irq' = "unlock" /\ UNCHANGED <<cpsr, expect, saved>>
    <3>1. FileOK(file')
      BY <1>0, <2>4, ServiceFileOK
    <3> QED BY <1>18, <2>4, <3>1 DEF arm_exception, MachineInv, CpsrOK, FileOK
  <2> QED BY <1>18, <2>1, <2>2, <2>3, <2>4 DEF arm_exception
<1>19. CASE arm_exception_enter
  <2>1. /\ saved.cpsr \in ProgramStatuses /\ saved.sp \in Word
        /\ saved.lr \in Word
    BY <1>19 DEF arm_exception_enter, MachineInv
  <2>2. FileOK(file') /\ CpsrOK(cpsr')
    BY <1>0, <1>19, <2>1, EnterInterruptOK DEF arm_exception_enter, CpsrOK
  <2> QED BY <1>19, <2>2 DEF arm_exception_enter, MachineInv, CpsrOK, FileOK
<1>20. CASE irq_unlock
  BY <1>20, MachineFrame DEF irq_unlock, Release
<1>21. CASE main_destroy
  BY <1>21, MachineFrame DEF main_destroy
<1>22. CASE main_return
  BY <1>22, MachineFrame DEF main_return
<1>23. CASE irq_use_after_free
  BY <1>23, MachineFrame DEF irq_use_after_free
<1>24. CASE Ended
  BY <1>24, MachineFrame DEF Ended, vars
<1>25. CASE UNCHANGED vars
  BY <1>25, MachineFrame DEF vars
<1> QED
  BY <1>1, <1>2, <1>3, <1>4, <1>5, <1>6, <1>7, <1>8, <1>9, <1>10, <1>11,
     <1>12, <1>13, <1>14, <1>15, <1>16, <1>17, <1>18, <1>19, <1>20, <1>21,
     <1>22, <1>23, <1>24, <1>25 DEF Next, GdbThread, IrqThread, MainThread

LEMMA MachineInit == Init => MachineInv
<1> SUFFICES ASSUME Init
             PROVE  MachineInv
  OBVIOUS
<1>1. FileOK(file) /\ cpsr \in ProgramStatuses /\ memory \in Programs
  BY InitOK DEF Init
<1>2. CpsrOK(cpsr)
  BY <1>1 DEF CpsrOK
<1>3. Interrupted \in [cpsr : Status, sp : Word, lr : Word]
  BY <1>1, <1>2, InterruptedOK
<1>4. 0 \in Word
  BY WordAssumption DEF Word
<1>5. [pc |-> 0, cpsr |-> reset_cpsr] \in [pc : Word, cpsr : Status]
  BY <1>4 DEF reset_cpsr, Status, Bit, SVC
<1>6. /\ irq = "read" /\ inst = NoInstruction /\ saved = Interrupted
      /\ expect = 0 /\ snapshot = [pc |-> 0, cpsr |-> reset_cpsr]
  BY DEF Init
<1> QED BY <1>1, <1>2, <1>3, <1>4, <1>5, <1>6 DEF MachineInv

LEMMA MachineAlways == Safety => [](ControlInv /\ MachineInv)
BY ControlInit, ControlInduction, MachineInit, MachineInduction, PTL DEF Safety

\* Type correctness of the composed system.
THEOREM TypeCorrect == Safety => []TypeOK
<1>1. ControlInv /\ MachineInv => TypeOK
  <2> SUFFICES ASSUME ControlInv, MachineInv
               PROVE  TypeOK
    OBVIOUS
  <2>1. ProcessorTypeOK
    BY ModeReachable DEF MachineInv, ProcessorTypeOK, FileOK, ProgramStatuses
  <2> QED BY <2>1 DEF TypeOK, ControlInv, ControlTypeOK, MachineInv
<1> QED BY <1>1, MachineAlways, PTL

\* No sequence of packets, instructions and interrupts enters the handler
\* twice or leaves it without a way back: in IRQ mode interrupts are masked,
\* and the status to restore is the one of a program, with interrupts enabled.
THEOREM HandlerReturns == Safety => []HandlerCanReturn
<1>1. MachineInv => HandlerCanReturn
  <2> SUFFICES ASSUME MachineInv, cpsr.mode = IRQ
               PROVE  /\ cpsr.i = 1
                      /\ file[Cell(SPSR, IRQ)].mode # IRQ
                      /\ file[Cell(SPSR, IRQ)].i = 0
    BY DEF HandlerCanReturn
  <2>1. cpsr \in HandlerStatuses
    BY DEF MachineInv, CpsrOK, ProgramStatuses, IRQ, SVC
  <2>2. file[Cell(SPSR, IRQ)] \in ProgramStatuses
    BY Banks DEF MachineInv, FileOK
  <2> QED BY <2>1, <2>2 DEF HandlerStatuses, ProgramStatuses, IRQ, SVC
<1> QED BY <1>1, MachineAlways, PTL

-----------------------------------------------------------------------------
\* The reading of the registers under way has seen the current pc, and the
\* one that is over the current pc and CPSR.
ViewInv ==
    /\ gdb = "cpsr" => request.cmd = "g" /\ snapshot.pc = pc
    /\ CoherentView

\* A step outside the critical section of the gdb thread, or inside it before
\* the registers are read.
LEMMA ViewFrame ==
    ASSUME ViewInv, UNCHANGED <<file, cpsr, snapshot>>,
           gdb' = "cpsr" => gdb = "cpsr" /\ UNCHANGED request,
           gdb' = "unlock" /\ client' = "idle" /\ request'.cmd = "g" =>
               gdb = "unlock" /\ client = "idle" /\ UNCHANGED request
    PROVE  ViewInv'
<1>1. pc' = pc
  BY DEF pc, ReadAs, registers_get_mode
<1> QED BY <1>1 DEF ViewInv, CoherentView

\* Between the two reads, and until the gdb thread releases the mutex, no
\* thread changes the processor.
LEMMA ViewInduction ==
    ControlInv /\ MachineInv /\ ViewInv /\ [Next]_vars => ViewInv'
<1> SUFFICES ASSUME ControlInv, MachineInv, ViewInv, [Next]_vars
             PROVE  ViewInv'
  OBVIOUS
<1> USE DEF processor, stepping, threads
<1>0. gdb \in {"cpsr", "unlock"} => irq \notin {"sample", "enter", "unlock"}
  BY DEF ControlInv, LockDiscipline, GdbHolds, IrqHolds
<1>1. CASE ClientSend
  BY <1>1, ViewFrame DEF ClientSend, ControlInv, Connection, Serving
<1>2. CASE ClientClose
  BY <1>2, ViewFrame DEF ClientClose
<1>3. CASE SendIrq
  BY <1>3, ViewFrame DEF SendIrq
<1>4. CASE gdb_packet_analysis
  BY <1>4, ViewFrame DEF gdb_packet_analysis
<1>5. CASE gdb_lock
  BY <1>5, ViewFrame DEF gdb_lock
<1>6. CASE arm_fetch
  <2>1. gdb' \notin {"cpsr", "unlock"}
    BY <1>6 DEF arm_fetch
  <2> QED BY <2>1 DEF ViewInv, CoherentView
<1>7. CASE arm_execute_instruction
  <2>1. gdb' \notin {"cpsr", "unlock"}
    BY <1>7 DEF arm_execute_instruction
  <2> QED BY <2>1 DEF ViewInv, CoherentView
<1>8. CASE arm_step_exception
  <2>1. gdb' \notin {"cpsr", "unlock"}
    BY <1>8 DEF arm_step_exception
  <2> QED BY <2>1 DEF ViewInv, CoherentView
<1>9. CASE step_or_cont
  <2>1. UNCHANGED <<file, cpsr, snapshot, request>> /\ gdb' # "cpsr"
    BY <1>9 DEF step_or_cont, Answer
  <2>2. gdb' = "unlock" => request.cmd # "g"
    BY <1>9 DEF step_or_cont, ControlInv, Connection
  <2> QED BY <2>1, <2>2, ViewFrame
<1>10. CASE read_general_registers
  <2>1. UNCHANGED <<file, cpsr, request>> /\ pc' = pc /\ request.cmd = "g"
    BY <1>10 DEF read_general_registers, pc, ReadAs, registers_get_mode
  <2>2. snapshot \in [pc : Word, cpsr : Status]
    BY DEF MachineInv
  <2>3. CASE gdb = "handler" /\ snapshot' = [snapshot EXCEPT !.pc = pc]
             /\ gdb' = "cpsr"
    <3>1. snapshot'.pc = pc'
      BY <2>1, <2>2, <2>3
    <3> QED BY <2>1, <2>3, <3>1 DEF ViewInv, CoherentView
  <2>4. CASE gdb = "cpsr" /\ snapshot' = [snapshot EXCEPT !.cpsr = cpsr]
             /\ gdb' = "unlock"
    <3>1. snapshot.pc = pc
      BY <2>4 DEF ViewInv
    <3>2. snapshot' = [pc |-> pc, cpsr |-> cpsr]
      BY <2>2, <2>4, <3>1
    <3> QED BY <2>1, <2>4, <3>2 DEF ViewInv, CoherentView
  <2> QED BY <1>10, <2>3, <2>4
         DEF read_general_registers, read_register, pc, Answer
<1>11. CASE write_single_register
  <2>1. gdb' = "unlock" /\ request'.cmd = "P"
    BY <1>11 DEF write_single_register, Answer
  <2> QED BY <2>1 DEF ViewInv, CoherentView
<1>12. CASE breakpoint
  <2>1. gdb' = "unlock"
    BY <1>12 DEF breakpoint, Answer
  <2>2. request'.cmd # "g" /\ UNCHANGED <<file, cpsr, snapshot>>
    BY <1>12 DEF breakpoint
  <2> QED BY <2>1, <2>2, ViewFrame
<1>13. CASE reason
  BY <1>13, ViewFrame DEF reason, Answer
<1>14. CASE kill_request
  BY <1>14, ViewFrame DEF kill_request
<1>15. CASE gdb_unlock
  BY <1>15, ViewFrame DEF gdb_unlock, Release
<1>16. CASE gdb_listener_exit
  BY <1>16, ViewFrame DEF gdb_listener_exit
<1>17. CASE irq_lock
  BY <1>17, ViewFrame DEF irq_lock, IrqLock
<1>18. CASE arm_exception
  <2>1. gdb' \notin {"cpsr", "unlock"}
    BY <1>0, <1>18 DEF arm_exception
  <2> QED BY <2>1 DEF ViewInv, CoherentView
<1>19. CASE arm_exception_enter
  <2>1. gdb' \notin {"cpsr", "unlock"}
    BY <1>0, <1>19 DEF arm_exception_enter
  <2> QED BY <2>1 DEF ViewInv, CoherentView
<1>20. CASE irq_unlock
  BY <1>20, ViewFrame DEF irq_unlock, Release
<1>21. CASE main_destroy
  BY <1>21, ViewFrame DEF main_destroy
<1>22. CASE main_return
  BY <1>22, ViewFrame DEF main_return
<1>23. CASE irq_use_after_free
  BY <1>23, ViewFrame DEF irq_use_after_free
<1>24. CASE Ended
  BY <1>24, ViewFrame DEF Ended, vars
<1>25. CASE UNCHANGED vars
  BY <1>25, ViewFrame DEF vars
<1> QED
  BY <1>1, <1>2, <1>3, <1>4, <1>5, <1>6, <1>7, <1>8, <1>9, <1>10, <1>11,
     <1>12, <1>13, <1>14, <1>15, <1>16, <1>17, <1>18, <1>19, <1>20, <1>21,
     <1>22, <1>23, <1>24, <1>25 DEF Next, GdbThread, IrqThread, MainThread

\* read_general_registers sends one state of the processor, however the irq
\* thread is scheduled.
THEOREM ViewIsCoherent == Safety => []CoherentView
<1>1. Init => ViewInv
  <2>1. Init => gdb = "read"
    BY DEF Init
  <2> QED BY <2>1 DEF ViewInv, CoherentView
<1>2. ViewInv => CoherentView
  BY DEF ViewInv
<1> QED BY <1>1, <1>2, MachineAlways, ViewInduction, PTL DEF Safety

-----------------------------------------------------------------------------
(* The return from an interrupt.  It depends on the program: the handler   *)
(* has to keep the return address in its LR, and to return by the SUBS PC, *)
(* LR, #4 of acquitter_irq; and the bit 1 that arm_read_register clears    *)
(* must not be set.                                                        *)

\* the instruction that the handler executes next respects its own return
HandlerConvention ==
    gdb = "execute" /\ cpsr.mode = IRQ /\ inst.op # "none" /\ Holds(inst.cond) =>
        /\ inst.op = "b" => inst.link = 0
        /\ inst.op \in {"mrs", "sub"} => inst.rd # LR
        /\ inst.op = "sub" /\ inst.rd = PC /\ inst.s = 1 =>
              inst.rn = LR /\ inst.imm = 4

\* the program is interrupted at an address that is a multiple of four
Aligned == irq = "sample" /\ cpsr.mode # IRQ => pc % 4 = 0

\* the address that the return sequence computes from a link register
ReturnAddress(lr) == (lr - 4) % WordSize

\* The link of the handler leads where the program is expected, and so does
\* the one that arm_exception has read and not yet written.
ResumeInv ==
    /\ ProgramResumes
    /\ cpsr.mode = IRQ => ReturnAddress(file[Cell(LR, IRQ)]) = expect
    /\ irq = "enter" => ReturnAddress(saved.lr) = expect

\* The return sequence undoes the pc + 4 of arm_read_register, also at the end
\* of the address space.
LEMMA ReturnsToPc ==
    ASSUME pc \in Word, pc % 4 = 0
    PROVE  ReturnAddress(arm_read_register(PC)) = pc
<1>1. PICK w \in Nat : w = WordSize /\ w >= 4096 /\ w % 4 = 0
  BY WordAssumption
<1>2. PICK p \in 0 .. w - 1 : p = pc /\ p % 4 = 0
  BY <1>1 DEF Word
<1>3. p <= w - 4
  BY <1>1, <1>2
<1>4. PICK x \in Int : x = (p + 4) % w
  BY <1>1, <1>2
<1>5. x = IF p = w - 4 THEN 0 ELSE p + 4
  BY <1>1, <1>2, <1>3, <1>4
<1>6. x % 4 = 0
  BY <1>1, <1>2, <1>5
<1>7. ClearBit1(x) = x
  <2>1. x \in Nat
    BY <1>1, <1>2, <1>5
  <2>2. (x \div 2) % 2 # 1
    BY <1>6, <2>1
  <2> QED BY <2>2 DEF ClearBit1
<1>8. arm_read_register(PC) = x
  BY <1>1, <1>2, <1>4, <1>7 DEF arm_read_register
<1>9. (x - 4) % w = p
  BY <1>1, <1>2, <1>3, <1>5
<1> QED BY <1>1, <1>2, <1>8, <1>9 DEF ReturnAddress

\* The pc is shared by all modes, the link register of the handler is its own.
LEMMA LinkCell ==
    /\ \A m, n \in ReachableModes : Cell(PC, m) = Cell(PC, n)
    /\ \A m \in ReachableModes, reg \in General \ {LR} :
          Cell(reg, m) # Cell(LR, IRQ)
    /\ Cell(LR, IRQ) \in Cells(CoreRegisters)
<1>1. \A m, n \in ReachableModes : Cell(PC, m) = Cell(PC, n)
  BY DEF Cell, Ptr, PC, SP, LR, SPSR
<1>2. ASSUME NEW m \in ReachableModes, NEW reg \in General \ {LR}
      PROVE  Cell(reg, m) # Cell(LR, IRQ)
  BY Banks DEF ReachableModes, General
<1> QED BY <1>1, <1>2, Banks DEF ReachableModes, General

LEMMA WriteKeepsLink ==
    ASSUME FileOK(file), CpsrOK(cpsr), NEW reg \in General, reg # LR, NEW value
    PROVE  arm_write_register(file, reg, value)[Cell(LR, IRQ)]
              = file[Cell(LR, IRQ)]
<1>1. registers_get_mode \in ReachableModes
  BY ReadGeneral
<1>2. Cell(reg, registers_get_mode) # Cell(LR, IRQ)
  BY <1>1, LinkCell
<1> QED BY <1>2, LinkCell DEF arm_write_register, WriteAs, FileOK

\* A software interrupt keeps the link and the pc.
LEMMA ServiceKeeps ==
    ASSUME FileOK(file), CpsrOK(cpsr), NEW service, NEW input \in Inputs
    PROVE  LET newFile == Service(service, input).file
           IN  /\ newFile[Cell(LR, IRQ)] = file[Cell(LR, IRQ)]
               /\ newFile[Cell(PC, registers_get_mode)] = pc
<1>1. 0 \in General /\ 0 # LR
  BY DEF General, LR
<1>2. registers_get_mode \in ReachableModes
  BY ModeReachable DEF registers_get_mode
<1>3. /\ Cell(0, registers_get_mode) # Cell(PC, registers_get_mode)
      /\ Cell(PC, registers_get_mode) \in DOMAIN file
  BY <1>2, Banks DEF FileOK, General, PC
<1>4. arm_write_register(file, 0, input)[Cell(PC, registers_get_mode)] = pc
  BY <1>3 DEF arm_write_register, WriteAs, pc, ReadAs
<1>5. file[Cell(PC, registers_get_mode)] = pc
  BY DEF pc, ReadAs
<1> QED BY <1>1, <1>4, <1>5, ServiceFile, WriteKeepsLink

\* An instruction of the handler keeps the link, or goes back by it.
LEMMA HandlerStep ==
    ASSUME FileOK(file), CpsrOK(cpsr), cpsr.mode = IRQ,
           NEW i \in Instruction,
           Holds(i.cond) =>
               /\ i.op = "b" => i.link = 0
               /\ i.op \in {"mrs", "sub"} => i.rd # LR
               /\ i.op = "sub" /\ i.rd = PC /\ i.s = 1 => i.rn = LR /\ i.imm = 4
    PROVE  LET o == Execute(i)
               link == file[Cell(LR, IRQ)]
           IN  /\ o.cpsr.mode = IRQ => o.file[Cell(LR, IRQ)] = link
               /\ o.cpsr.mode # IRQ =>
                     /\ o.result = 0
                     /\ o.file[Cell(PC, ModeOf(o.cpsr))] = ReturnAddress(link)
<1> DEFINE link == file[Cell(LR, IRQ)]
           Good(o) == /\ o.cpsr.mode = IRQ => o.file[Cell(LR, IRQ)] = link
                      /\ o.cpsr.mode # IRQ =>
                            /\ o.result = 0
                            /\ o.file[Cell(PC, ModeOf(o.cpsr))] = ReturnAddress(link)
<1> USE DEF Outcome
<1>1. \A r : Good(Outcome(file, cpsr, r))
  OBVIOUS
<1>2. ASSUME NEW reg \in General, reg # LR, NEW value, NEW r
      PROVE  Good(Outcome(arm_write_register(file, reg, value), cpsr, r))
  BY <1>2, WriteKeepsLink
<1>3. SUFFICES ASSUME Holds(i.cond)
               PROVE  Good(Dispatch(i))
  BY <1>1 DEF Execute
<1>4. PC \in General /\ PC # LR /\ cpsr \in Status
  BY ModeReachable DEF General, PC, LR
<1>5. CASE i.op = "b"
  BY <1>2, <1>3, <1>4, <1>5 DEF Dispatch, arm_branch
<1>6. CASE i.op = "bx"
  BY <1>2, <1>4, <1>6 DEF Dispatch, arm_miscellaneous_2
<1>7. CASE i.op = "mrs"
  <2>1. i.rd \in General /\ i.rd # LR
    BY <1>3, <1>7 DEF Instruction
  <2> QED BY <1>1, <1>2, <1>7, <2>1 DEF Dispatch, arm_miscellaneous
<1>8. CASE i.op = "cmp"
  <2>1. \A rn, imm, value : SubFlags(cpsr, rn, imm, value).mode = IRQ
    BY <1>4, SubFlagsMode
  <2> QED BY <1>8, <2>1 DEF Dispatch, apply_cmp
<1>9. CASE i.op = "sub"
  <2> DEFINE rn == arm_read_register(i.rn)
             value == (rn - i.imm) % WordSize
             written == arm_write_register(file, i.rd, value)
             status == SubFlags(SavedStatus(i), rn, i.imm, value)
  <2>1. i.rd \in General /\ i.rd # LR /\ i.rn \in General
    BY <1>3, <1>9 DEF Instruction
  <2>2. Dispatch(i) = Outcome(written, IF i.s = 1 THEN status ELSE cpsr, 0)
    BY <1>9 DEF Dispatch, apply_sub
  <2>3. written[Cell(LR, IRQ)] = link
    BY <2>1, WriteKeepsLink
  <2>4. CASE i.s # 1
    BY <2>2, <2>3, <2>4
  <2>5. CASE i.s = 1 /\ i.rd # PC
    <3>1. status.mode = IRQ
      BY <1>4, <2>5, SubFlagsMode DEF SavedStatus
    <3> QED BY <2>2, <2>3, <2>5, <3>1
  <2>6. CASE i.s = 1 /\ i.rd = PC
    <3>1. i.rn = LR /\ i.imm = 4
      BY <1>3, <1>9, <2>6
    <3>2. registers_get_mode = IRQ
      BY ModeReachable DEF registers_get_mode
    <3>3. value = ReturnAddress(link)
      BY <3>1, <3>2 DEF ReturnAddress, arm_read_register, ReadAs, LR, PC
    <3>4. CpsrOK(SavedStatus(i))
      BY SavedStatusOK
    <3>5. ModeOf(status) \in ReachableModes
      BY <3>4, SubFlagsOK, ModeReachable
    <3>6. Cell(PC, ModeOf(status)) = Cell(PC, registers_get_mode)
      BY <3>2, <3>5, LinkCell DEF ReachableModes
    <3>7. Cell(PC, registers_get_mode) \in DOMAIN file
      BY <1>4, <3>2, Banks DEF FileOK, ReachableModes
    <3>8. written[Cell(PC, registers_get_mode)] = value
      BY <2>6, <3>7 DEF arm_write_register, WriteAs
    <3> QED BY <2>2, <2>3, <2>6, <3>3, <3>6, <3>8
  <2> QED BY <2>4, <2>5, <2>6
<1>10. CASE i.op \notin {"b", "bx", "mrs", "sub", "cmp"}
  BY <1>1, <1>10 DEF Dispatch
<1> QED BY <1>5, <1>6, <1>7, <1>8, <1>9, <1>10

\* An instruction of the program stays in the program.
LEMMA ProgramStays ==
    ASSUME FileOK(file), CpsrOK(cpsr), cpsr.mode # IRQ, NEW i \in Instruction
    PROVE  Execute(i).cpsr.mode # IRQ
<1>1. cpsr \in Status
  BY ModeReachable
<1>2. SavedStatus(i) \in Status /\ SavedStatus(i).mode # IRQ
  BY <1>1, SavedStatusOK DEF SavedStatus, ProgramStatuses, IRQ, SVC
<1>3. \A rn, imm, value :
         /\ SubFlags(cpsr, rn, imm, value).mode # IRQ
         /\ SubFlags(SavedStatus(i), rn, imm, value).mode # IRQ
  BY <1>1, <1>2, SubFlagsMode
<1> QED BY <1>3 DEF Execute, Dispatch, arm_branch, arm_miscellaneous_2,
               arm_miscellaneous, apply_sub, apply_cmp, Outcome

\* A step that leaves the registers and the program alone.
LEMMA ResumeFrame ==
    ASSUME ResumeInv, UNCHANGED <<file, cpsr, saved, expect>>,
           irq' = "enter" => irq = "enter",
           gdb \in {"execute", "exception"} => gdb' = gdb
    PROVE  ResumeInv'
<1>1. pc' = pc
  BY DEF pc, ReadAs, registers_get_mode
<1>2. ProgramResumes'
  BY <1>1 DEF ResumeInv, ProgramResumes
<1> QED BY <1>2 DEF ResumeInv, ReturnAddress

\* An instruction of the program, its exception or a reset: the program goes on
\* at the pc.
LEMMA ProgramGoesOn ==
    ASSUME expect' = pc', cpsr'.mode # IRQ, irq' # "enter"
    PROVE  ResumeInv'
BY DEF ResumeInv, ProgramResumes

\* A step of the handler that keeps the link.
LEMMA HandlerGoesOn ==
    ASSUME ResumeInv, cpsr.mode = IRQ, cpsr'.mode = IRQ, irq' # "enter",
           file'[Cell(LR, IRQ)] = file[Cell(LR, IRQ)], UNCHANGED expect
    PROVE  ResumeInv'
BY DEF ResumeInv, ProgramResumes, ReturnAddress

LEMMA ExecuteResumes ==
    ASSUME ControlInv, MachineInv, ResumeInv, HandlerConvention,
           arm_execute_instruction
    PROVE  ResumeInv'
<1> DEFINE o == IF inst.op = "none" THEN Outcome(file, cpsr, 1)
                ELSE Execute(inst)
           p == [o EXCEPT !.result = 0]
<1>1. FileOK(file) /\ CpsrOK(cpsr) /\ gdb = "execute"
  BY DEF MachineInv, arm_execute_instruction
<1>2. inst.op # "none" => inst \in Instruction
  BY DEF MachineInv, NoInstruction
<1>3. irq' # "enter"
  BY <1>1 DEF arm_execute_instruction, ControlInv, LockDiscipline, GdbHolds, IrqHolds
<1>4. /\ file' = o.file /\ cpsr' = o.cpsr /\ Continues(p)
      /\ IF o.result = 0 THEN gdb' = "stepped" ELSE gdb' = "exception"
  BY DEF arm_execute_instruction
<1>5. p.file = o.file /\ p.cpsr = o.cpsr /\ p.result = 0
  <2>1. \A i \in Instruction : \E f, s, r : Execute(i) = Outcome(f, s, r)
    BY DEF Execute, Dispatch, arm_branch, arm_miscellaneous_2,
           arm_miscellaneous, apply_sub, apply_cmp
  <2>2. PICK f, s, r : o = Outcome(f, s, r)
    BY <1>2, <2>1
  <2> HIDE DEF o
  <2> QED BY <2>2 DEF Outcome
<1>6. CASE cpsr.mode # IRQ
  <2>1. expect' = pc'
    BY <1>4, <1>5, <1>6 DEF Continues, pc, ReadAs, registers_get_mode
  <2>2. CpsrOK(cpsr) /\ cpsr \in ProgramStatuses
    BY <1>1, <1>6 DEF CpsrOK, HandlerStatuses
  <2>3. o.cpsr.mode # IRQ
    BY <1>1, <1>2, <1>6, <2>2, ProgramStays DEF Outcome
  <2> QED BY <1>3, <1>4, <2>1, <2>3, ProgramGoesOn
<1>7. CASE cpsr.mode = IRQ
  <2>1. UNCHANGED expect
    BY <1>4, <1>5, <1>7 DEF Continues, RESET
  <2>2. /\ o.cpsr.mode = IRQ => o.file[Cell(LR, IRQ)] = file[Cell(LR, IRQ)]
        /\ o.cpsr.mode # IRQ =>
              /\ o.result = 0
              /\ o.file[Cell(PC, ModeOf(o.cpsr))]
                    = ReturnAddress(file[Cell(LR, IRQ)])
    <3>1. CASE inst.op = "none"
      BY <1>7, <3>1 DEF Outcome
    <3>2. CASE inst.op # "none"
      BY <1>1, <1>2, <1>7, <3>2, HandlerStep DEF HandlerConvention
    <3> QED BY <3>1, <3>2
  <2> HIDE DEF o, p
  <2>3. CASE cpsr'.mode = IRQ
    BY <1>3, <1>4, <1>7, <2>1, <2>2, <2>3, HandlerGoesOn
  <2>4. CASE cpsr'.mode # IRQ
    <3>1. pc' = ReturnAddress(file[Cell(LR, IRQ)])
      BY <1>4, <2>2, <2>4 DEF pc, ReadAs, registers_get_mode
    <3>2. pc' = expect'
      BY <1>7, <2>1, <3>1 DEF ResumeInv
    <3> QED BY <1>3, <2>4, <3>2, ProgramGoesOn
  <2> QED BY <2>3, <2>4
<1> QED BY <1>6, <1>7

LEMMA ExceptionResumes ==
    ASSUME ControlInv, MachineInv, ResumeInv, arm_step_exception
    PROVE  ResumeInv'
<1>1. FileOK(file) /\ CpsrOK(cpsr) /\ gdb = "exception"
  BY DEF MachineInv, arm_step_exception
<1>2. irq' # "enter"
  BY <1>1 DEF arm_step_exception, ControlInv, LockDiscipline, GdbHolds, IrqHolds
<1>3. PICK input \in Inputs :
         LET o == Exception(result, input)
         IN  file' = o.file /\ cpsr' = o.cpsr /\ Continues(o)
  BY DEF arm_step_exception
<1> DEFINE o == Exception(result, input)
<1>4. \/ o.result = RESET /\ o.cpsr = reset_cpsr
      \/ /\ o.result # RESET /\ o.cpsr = cpsr
         /\ o.file = file \/ o.file = arm_write_register(file, 0, input)
  BY DEF Exception, Service, Reset, Outcome, RESET, SOFTWARE_INTERRUPT,
         END_SIMULATION
<1>5. o.file[Cell(PC, ModeOf(o.cpsr))] = pc'
  BY <1>3 DEF pc, ReadAs, registers_get_mode
<1>6. CASE o.result = RESET \/ cpsr.mode # IRQ
  <2>1. expect' = pc'
    BY <1>3, <1>5, <1>6 DEF Continues
  <2>2. cpsr'.mode # IRQ
    BY <1>3, <1>4, <1>6 DEF reset_cpsr, SVC, IRQ
  <2> QED BY <1>2, <2>1, <2>2, ProgramGoesOn
<1>7. CASE o.result # RESET /\ cpsr.mode = IRQ
  <2>1. UNCHANGED expect /\ cpsr'.mode = IRQ
    BY <1>3, <1>4, <1>7 DEF Continues
  <2>2. 0 \in General /\ 0 # LR
    BY DEF General, LR
  <2>3. file'[Cell(LR, IRQ)] = file[Cell(LR, IRQ)]
    BY <1>1, <1>3, <1>4, <1>7, <2>2, WriteKeepsLink
  <2> QED BY <1>2, <1>7, <2>1, <2>3, HandlerGoesOn
<1> QED BY <1>6, <1>7

\* The entry in the handler sets its link register.
LEMMA EnterInterruptLink ==
    ASSUME FileOK(file), NEW s,
           s.cpsr \in ProgramStatuses, s.sp \in Word, s.lr \in Word
    PROVE  EnterInterrupt(s).file[Cell(LR, IRQ)] = s.lr
<1> DEFINE m == ModeOf(HandlerStatus(s))
           f1 == WriteAs(file, m, SPSR, s.cpsr)
           f2 == WriteAs(f1, m, PC, IRQ_vector_ADR - 4)
           f3 == WriteAs(f2, m, LR, s.lr)
           f4 == WriteAs(f3, m, SP, s.sp)
<1>1. HandlerStatus(s) \in HandlerStatuses
  BY EnterInterruptOK DEF EnterInterrupt, Outcome
<1>2. m = IRQ
  BY <1>1 DEF HandlerStatuses, ModeOf, IRQ
<1>3. Cell(LR, IRQ) \in DOMAIN f2
  BY LinkCell DEF WriteAs, FileOK
<1>4. Cell(SP, IRQ) # Cell(LR, IRQ)
  BY LinkCell DEF ReachableModes, General, SP, LR
<1>5. EnterInterrupt(s).file = f4
  BY DEF EnterInterrupt, Outcome
<1> HIDE DEF m, f2
<1>6. f4[Cell(LR, IRQ)] = s.lr
  BY <1>2, <1>3, <1>4 DEF WriteAs
<1> QED BY <1>5, <1>6

\* Every step of every thread keeps the way back to the program.
LEMMA ResumeInduction ==
    ASSUME ControlInv, MachineInv, ResumeInv, HandlerConvention, Aligned,
           [Next]_vars
    PROVE  ResumeInv'
<1> USE DEF processor, stepping, threads
<1>0. /\ FileOK(file) /\ CpsrOK(cpsr) /\ pc \in Word
      /\ gdb \in GdbHolds => irq \notin IrqHolds
  BY FetchOK DEF MachineInv, ControlInv, LockDiscipline
<1>1. CASE ClientSend
  BY <1>1, ResumeFrame DEF ClientSend
<1>2. CASE ClientClose
  BY <1>2, ResumeFrame DEF ClientClose
<1>3. CASE SendIrq
  BY <1>3, ResumeFrame DEF SendIrq
<1>4. CASE gdb_packet_analysis
  BY <1>4, ResumeFrame DEF gdb_packet_analysis
<1>5. CASE gdb_lock
  BY <1>5, ResumeFrame DEF gdb_lock
<1>6. CASE arm_fetch
  <2>1. gdb' = "execute" /\ irq' # "enter" /\ UNCHANGED <<cpsr, expect>>
    BY <1>0, <1>6 DEF arm_fetch, GdbHolds, IrqHolds
  <2>2. file'[Cell(LR, IRQ)] = file[Cell(LR, IRQ)]
    BY <1>0, <1>6, WriteKeepsLink DEF arm_fetch, FetchFile, General, PC, LR
  <2> QED BY <2>1, <2>2 DEF ResumeInv, ProgramResumes, ReturnAddress
<1>7. CASE arm_execute_instruction
  BY <1>7, ExecuteResumes
<1>8. CASE arm_step_exception
  BY <1>8, ExceptionResumes
<1>9. CASE step_or_cont
  BY <1>9, ResumeFrame DEF step_or_cont
<1>10. CASE read_general_registers
  BY <1>10, ResumeFrame DEF read_general_registers
<1>11. CASE write_single_register
  <2>1. irq' # "enter" /\ UNCHANGED cpsr
    BY <1>0, <1>11 DEF write_single_register, GdbHolds, IrqHolds
  <2>2. PC \in General /\ PC # LR /\ registers_get_mode \in ReachableModes
    BY <1>0, ReadGeneral DEF General, PC, LR
  <2>3. file' = arm_write_register(file, PC, request.arg)
    BY <1>11 DEF write_single_register, write_register, arm_write_register
  <2>4. CASE cpsr.mode = IRQ
    <3>1. file'[Cell(LR, IRQ)] = file[Cell(LR, IRQ)]
      BY <1>0, <2>2, <2>3, WriteKeepsLink
    <3>2. UNCHANGED expect
      BY <1>11, <2>4 DEF write_single_register
    <3> QED BY <2>1, <2>4, <3>1, <3>2, HandlerGoesOn
  <2>5. CASE cpsr.mode # IRQ
    <3>1. Cell(PC, registers_get_mode) \in DOMAIN file
      BY <1>0, <2>2, Banks DEF FileOK
    <3>2. pc' = request.arg
      BY <2>1, <2>3, <3>1
         DEF arm_write_register, WriteAs, pc, ReadAs, registers_get_mode
    <3>3. expect' = request.arg
      BY <1>11, <2>5 DEF write_single_register
    <3> QED BY <2>1, <2>5, <3>2, <3>3, ProgramGoesOn
  <2> QED BY <2>4, <2>5
<1>12. CASE breakpoint
  <2>1. UNCHANGED <<file, cpsr, saved, expect, irq>> /\ gdb = "handler"
    BY <1>12 DEF breakpoint
  <2> QED BY <2>1, ResumeFrame
<1>13. CASE reason
  BY <1>13, ResumeFrame DEF reason
<1>14. CASE kill_request
  BY <1>14, ResumeFrame DEF kill_request
<1>15. CASE gdb_unlock
  BY <1>15, ResumeFrame DEF gdb_unlock
<1>16. CASE gdb_listener_exit
  BY <1>16, ResumeFrame DEF gdb_listener_exit
<1>17. CASE irq_lock
  BY <1>17, ResumeFrame DEF irq_lock
<1>18. CASE arm_exception
  <2>0. irq = "sample" /\ UNCHANGED gdb /\ gdb \notin {"execute", "exception"}
    BY <1>0, <1>18 DEF arm_exception, GdbHolds, IrqHolds
  <2>1. CASE /\ cpsr.i = 0 /\ saved' = Interrupted
             /\ irq' = "enter" /\ UNCHANGED <<file, cpsr, expect>>
    <3>1. cpsr.mode # IRQ
      BY <1>0, <2>1 DEF CpsrOK, HandlerStatuses, ProgramStatuses, IRQ, SVC
    <3>2. pc = expect /\ pc % 4 = 0
      BY <2>0, <3>1 DEF ResumeInv, ProgramResumes, Aligned
    <3>3. ReturnAddress(saved'.lr) = expect'
      BY <1>0, <2>1, <3>2, ReturnsToPc DEF Interrupted
    <3>4. pc' = pc
      BY <2>1 DEF pc, ReadAs, registers_get_mode
    <3> QED BY <2>1, <3>1, <3>2, <3>3, <3>4
            DEF ResumeInv, ProgramResumes, ReturnAddress
  <2>2. CASE /\ file' = Reset(file).file /\ cpsr' = Reset(file).cpsr
             /\ expect' = 0 /\ irq' = "unlock" /\ UNCHANGED saved
    <3>1. cpsr' = reset_cpsr /\ file' = WriteAs(file, SVC, PC, 0)
      BY <2>2 DEF Reset, Outcome
    <3>2. registers_get_mode' = SVC
      BY <3>1 DEF reset_cpsr, registers_get_mode, ModeOf, SVC
    <3>3. Cell(PC, SVC) \in DOMAIN file
      BY <1>0, Banks DEF FileOK, ReachableModes, General
    <3>4. pc' = 0 /\ cpsr'.mode # IRQ
      BY <3>1, <3>2, <3>3 DEF pc, ReadAs, WriteAs, reset_cpsr, SVC, IRQ
    <3> QED BY <2>2, <3>4, ProgramGoesOn
  <2>3. CASE irq' = "unlock" /\ UNCHANGED <<file, cpsr, expect, saved>>
    BY <2>0, <2>3, ResumeFrame
  <2>4. CASE /\ \E service \in SwiServices, input \in Inputs :
                   file' = Service(service, input).file
             /\ irq' = "unlock" /\ UNCHANGED <<cpsr, expect, saved>>
    <3>1. /\ file'[Cell(LR, IRQ)] = file[Cell(LR, IRQ)]
          /\ file'[Cell(PC, registers_get_mode)] = pc
      BY <1>0, <2>4, ServiceKeeps
    <3>2. pc' = pc
      BY <2>4, <3>1 DEF pc, ReadAs, registers_get_mode
    <3> QED BY <2>0, <2>4, <3>1, <3>2
            DEF ResumeInv, ProgramResumes, ReturnAddress
  <2> QED BY <1>18, <2>1, <2>2, <2>3, <2>4 DEF arm_exception
<1>19. CASE arm_exception_enter
  <2>0. /\ irq = "enter" /\ irq' = "unlock" /\ UNCHANGED expect
        /\ file' = EnterInterrupt(saved).file
        /\ cpsr' = EnterInterrupt(saved).cpsr
    BY <1>19 DEF arm_exception_enter
  <2>1. saved.cpsr \in ProgramStatuses /\ saved.sp \in Word /\ saved.lr \in Word
    BY <2>0 DEF MachineInv
  <2>2. cpsr'.mode = IRQ /\ file'[Cell(LR, IRQ)] = saved.lr
    BY <1>0, <2>0, <2>1, EnterInterruptLink, EnterInterruptOK DEF HandlerStatuses
  <2> QED BY <2>0, <2>2 DEF ResumeInv, ProgramResumes, ReturnAddress
<1>20. CASE irq_unlock
  BY <1>20, ResumeFrame DEF irq_unlock
<1>21. CASE main_destroy
  BY <1>21, ResumeFrame DEF main_destroy
<1>22. CASE main_return
  BY <1>22, ResumeFrame DEF main_return
<1>23. CASE irq_use_after_free
  BY <1>23, ResumeFrame DEF irq_use_after_free
<1>24. CASE Ended
  BY <1>24, ResumeFrame DEF Ended, vars
<1>25. CASE UNCHANGED vars
  BY <1>25, ResumeFrame DEF vars
<1> QED
  BY <1>1, <1>2, <1>3, <1>4, <1>5, <1>6, <1>7, <1>8, <1>9, <1>10, <1>11,
     <1>12, <1>13, <1>14, <1>15, <1>16, <1>17, <1>18, <1>19, <1>20, <1>21,
     <1>22, <1>23, <1>24, <1>25 DEF Next, GdbThread, IrqThread, MainThread

\* The interrupted program goes on at the address where it was stopped: if the
\* handler keeps its link register and returns by SUBS PC, LR, #4, and the
\* program is interrupted at aligned addresses, the pc after the handler is the
\* one the program had reached, for every program and handler, wherever gdb
\* steps, stops and writes the pc, and also at the end of the address space.
\* It says nothing of the flags, which SUBS PC overwrites.
THEOREM InterruptedProgramResumes ==
    Safety /\ [](HandlerConvention /\ Aligned) => []ProgramResumes
<1>1. Init => ResumeInv
  <2> SUFFICES ASSUME Init
               PROVE  ResumeInv
    OBVIOUS
  <2>1. /\ irq = "read" /\ expect = 0 /\ cpsr = reset_cpsr
        /\ \E zero : file = WriteAs(WriteAs(zero, SVC, PC, 0), SVC, SP, MemorySize)
    BY DEF Init, ProcessorInit, Reset, Outcome
  <2>2. FileOK(file)
    BY MachineInit DEF MachineInv
  <2>3. registers_get_mode = SVC /\ cpsr.mode # IRQ
    BY <2>1 DEF reset_cpsr, registers_get_mode, ModeOf, SVC, IRQ
  <2>4. Cell(PC, SVC) \in DOMAIN file /\ Cell(PC, SVC) # Cell(SP, SVC)
    BY <2>2, Banks DEF FileOK, ReachableModes, General, PC, SP
  <2>5. pc = 0
    BY <2>1, <2>3, <2>4 DEF pc, ReadAs, WriteAs
  <2> QED BY <2>1, <2>3, <2>5 DEF ResumeInv, ProgramResumes
<1>2. ResumeInv => ProgramResumes
  BY DEF ResumeInv
<1>3. ControlInv /\ MachineInv /\ ResumeInv /\ HandlerConvention /\ Aligned
         /\ [Next]_vars => ResumeInv'
  BY ResumeInduction
<1> QED BY <1>1, <1>2, <1>3, MachineAlways, PTL DEF Safety
=============================================================================
