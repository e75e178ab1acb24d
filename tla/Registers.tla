----------------------------- MODULE Registers -----------------------------
(***************************************************************************)
(* The register file of registers.c.  A word is the tuple of its bytes,    *)
(* most significant first; registers_read and registers_write convert the  *)
(* order of the bytes on a little-endian host, the CPSR is kept as it is.  *)
(* Dereferencing a NULL or out-of-bounds pointer ends the process: the     *)
(* build uses the address sanitizer.                                       *)
(***************************************************************************)
EXTENDS RegisterBanks, Sequences

CONSTANTS
    Reg,           \* the registers in the instance, a subset of Registers
    Values,        \* the words written to the other registers
    StatusWords,   \* the words written to the CPSR
    TraceModes,    \* the modes given to --trace-state
    HostBigEndian  \* is_big_endian()

Word == [1 .. 4 -> 0 .. 255]

ASSUME RegAssumption == {CPSR, SPSR} \subseteq Reg /\ Reg \subseteq Registers
ASSUME TraceAssumption == TraceModes \subseteq Modes
ASSUME HostAssumption == HostBigEndian \in BOOLEAN
ASSUME WordAssumption == Values \union StatusWords \subseteq Word

VARIABLES
    data,     \* the cells
    fault,    \* "none", or how the process died
    call,     \* the last call: name, register, mode and value
    result    \* what the last read returned

vars == <<data, fault, call, result>>

Zero == <<0, 0, 0, 0>>

switch_endian(x) == <<x[4], x[3], x[2], x[1]>>
Order(x) == IF HostBigEndian THEN x ELSE switch_endian(x)

\* the low six bits of the CPSR, the T bit included
MutantGetMode(cpsr) == cpsr[4]
get_mode(cpsr) == cpsr[4] % 64
registers_get_mode == get_mode(data[<<CPSR, 0>>])

Allocated(cell) == cell[2] \in 0 .. Size(cell[1]) - 1
FaultOf(cell) == IF cell[2] < 0 THEN "null" ELSE "overflow"

\* registers_create, and the CPSR that arm_create writes before anything else
reset_cpsr == <<0, 0, 1, 83>>

Init ==
    /\ data = [cell \in Cells(Reg) |->
                  IF cell = <<CPSR, 0>> THEN reset_cpsr ELSE Zero]
    /\ fault = "none"
    /\ call = [name |-> "create", reg |-> CPSR, mode |-> USR, value |-> reset_cpsr]
    /\ result = Zero

Calls(name, reg, mode, value) ==
    /\ fault = "none"
    /\ call' = [name |-> name, reg |-> reg, mode |-> mode, value |-> value]

\* *(r->reg[reg].ptrs[m]) = value, in the byte order of the host
Store(reg, mode, value) ==
    IF Allocated(Cell(reg, mode))
    THEN /\ data' = [data EXCEPT ![Cell(reg, mode)] = Order(value)]
         /\ UNCHANGED fault
    ELSE /\ fault' = FaultOf(Cell(reg, mode))
         /\ UNCHANGED data

Load(reg, mode) == Order(data[Cell(reg, mode)])

registers_write(reg, mode, value) ==
    /\ Calls("write", reg, mode, value)
    /\ Store(reg, mode, value)
    /\ UNCHANGED result

registers_read(reg, mode) ==
    /\ Calls("read", reg, mode, Zero)
    /\ IF Allocated(Cell(reg, mode))
       THEN result' = Load(reg, mode) /\ UNCHANGED fault
       ELSE fault' = FaultOf(Cell(reg, mode)) /\ UNCHANGED result
    /\ UNCHANGED data

registers_write_cpsr(value) ==
    /\ Calls("write", CPSR, USR, value)
    /\ data' = [data EXCEPT ![<<CPSR, 0>>] = value]
    /\ UNCHANGED <<fault, result>>

registers_read_cpsr ==
    /\ Calls("read", CPSR, USR, Zero)
    /\ result' = data[<<CPSR, 0>>]
    /\ UNCHANGED <<data, fault>>

\* a mode without SPSR ignores the write
registers_write_spsr(mode, value) ==
    /\ Calls("write", SPSR, mode, value)
    /\ IF registers_mode_has_spsr(mode)
       THEN Store(SPSR, mode, value)
       ELSE UNCHANGED <<data, fault>>
    /\ UNCHANGED result

registers_read_spsr(mode) == registers_read(SPSR, mode)

-----------------------------------------------------------------------------
General == Reg \ {CPSR, SPSR}

\* trace_arm_state prints r0 to r15 and the SPSR of a mode
Traced(mode) == {Cell(reg, mode) : reg \in General \union {SPSR}}

trace_arm_state(mode) ==
    /\ Calls("trace", SPSR, mode, Zero)
    /\ IF \A cell \in Traced(mode) : Allocated(cell)
       THEN UNCHANGED fault
       ELSE \E cell \in Traced(mode) :
               ~Allocated(cell) /\ fault' = FaultOf(cell)
    /\ UNCHANGED <<data, result>>

\* callers pass the current mode, or USR (arm_read_usr_register)
CallerMode == {registers_get_mode, USR}

Write ==
    \/ \E reg \in General, mode \in CallerMode, value \in Values :
          registers_write(reg, mode, value)
    \/ \E value \in StatusWords : registers_write_cpsr(value)
    \/ \E value \in Values :
          registers_write_spsr(registers_get_mode, value)

\* the callers of registers_read_spsr modelled here test the mode first
Read ==
    \/ \E reg \in General, mode \in CallerMode : registers_read(reg, mode)
    \/ registers_read_cpsr
    \/ /\ registers_mode_has_spsr(registers_get_mode)
       /\ registers_read_spsr(registers_get_mode)
    \/ \E mode \in TraceModes : trace_arm_state(mode)

Next == Write \/ Read

Spec == Init /\ [][Next]_vars

-----------------------------------------------------------------------------
\* The banks of the ARM architecture: the mode that owns the register a mode
\* sees as reg, and the registers a mode sees.  A CPSR whose low bits are not a
\* mode counts as USR.
Owner(reg, mode) ==
    IF mode \notin Modes THEN USR
    ELSE IF reg \in 8 .. 12 THEN IF mode = FIQ THEN FIQ ELSE USR
    ELSE IF reg \in {SP, LR, SPSR} THEN IF mode = SYS THEN USR ELSE mode
    ELSE USR

Visible(reg, mode) == reg = SPSR => mode \in Modes \ {USR, SYS}

\* what a caller reads
View(reg, mode) ==
    IF reg = CPSR THEN data[<<CPSR, 0>>] ELSE Load(reg, mode)

TypeOK ==
    /\ data \in [Cells(Reg) -> Word]
    /\ fault \in {"none", "null", "overflow"}
    /\ call \in [name : {"create", "read", "write", "trace"}, reg : Reg,
                 mode : 0 .. 63, value : Word]
    /\ result \in Word

\* registers_write, registers_write_cpsr and registers_write_spsr change what
\* is read back under every mode that shares the register, to the value
\* written, and nothing else; reads and traces change nothing.
WriteIsolation ==
    [][fault' = "none" =>
        \A reg \in Reg, mode \in Modes :
            Visible(reg, mode) /\ Allocated(Cell(reg, mode)) =>
                View(reg, mode)' =
                    IF /\ call'.name = "write" /\ call'.reg = reg
                       /\ Visible(reg, call'.mode)
                       /\ Owner(reg, call'.mode) = Owner(reg, mode)
                    THEN call'.value
                    ELSE View(reg, mode)]_vars

\* registers.h calls the structure "the list of 37 registers": every register
\* of every mode has a cell of its own, so no access leaves the arrays.
NoOverflow == fault # "overflow"
=============================================================================
