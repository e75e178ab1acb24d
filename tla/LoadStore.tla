----------------------------- MODULE LoadStore -----------------------------
(***************************************************************************)
(* The load and store instructions of arm_load_store.c, on the memory and  *)
(* on the registers of every mode.  A transfer of one value is one step;   *)
(* LDM and STM take one step per register.  A program is the sequence of   *)
(* the instructions executed, an instruction the record of its decoded     *)
(* fields.  Bytes are smaller than in the code, a word is four of them.    *)
(***************************************************************************)
EXTENDS RegisterBanks, FiniteSets, Sequences

CONSTANTS
    ByteSize,     \* the number of values of a byte, 256 in the code
    MemorySize,   \* memory_get_size
    BigEndian,    \* ENDIANESS of the build
    MaxShift,     \* the largest shift_imm, 31 in the code
    Regs,         \* the registers in the instance
    Programs,     \* the sequences of instructions executed
    Files,        \* the contents of the registers before the program
    Statuses,     \* the status words before the program
    Contents,     \* the contents of the memory before the program
    Garbage       \* what the local data of an LDM holds before the first read

HalfSize == ByteSize * ByteSize
WordSize == HalfSize * HalfSize
Word == 0 .. WordSize - 1
Status == [mode : Modes \ {FIQ}, c : {0, 1}]
FileCells == Cells(Regs \union {SPSR})

ASSUME SizeAssumption ==
    ByteSize \in Nat \ {0, 1} /\ MemorySize \in 1 .. WordSize - 1
\* a shift by an immediate is shorter than a word
ASSUME ShiftAssumption ==
    MaxShift \in 0 .. 31 /\ \A n \in 0 .. MaxShift : WordSize % 2^n = 0
\* LDRD and STRD move the register that follows an even one as well
ASSUME RegsAssumption ==
    /\ Regs \subseteq 0 .. 15 /\ {SP, PC} \subseteq Regs
    /\ \A reg \in Regs : reg % 2 = 0 /\ reg < LR => reg + 1 \in Regs
ASSUME StartAssumption ==
    /\ \A f \in Files :
          /\ f = [cell \in FileCells |-> f[cell]]
          /\ \A cell \in FileCells :
                f[cell] \in IF cell[1] = SPSR THEN Status ELSE Word
    /\ Statuses \subseteq Status
    /\ Contents \subseteq [0 .. MemorySize - 1 -> 0 .. ByteSize - 1]
    /\ Garbage \subseteq Word

\* the fields that the functions of arm_load_store.c decode
Bit == {0, 1}
Instruction ==
    [form : {"imm"}, l : Bit, p : Bit, u : Bit, b : Bit, w : Bit,
     rn : Regs, rd : Regs, offset : Word]
    \union [form : {"reg"}, l : Bit, p : Bit, u : Bit, b : Bit, w : Bit,
            rn : Regs, rd : Regs, rm : Regs,
            shift : {"LSL", "LSR", "ASR", "ROR"}, shift_imm : 0 .. MaxShift]
    \union [form : {"misc"}, lsh : 0 .. 7, p : Bit, u : Bit, b : Bit, w : Bit,
            rn : Regs, rd : Regs, rm : Regs, offset : Word]
    \union [form : {"multiple"}, l : Bit, p : Bit, u : Bit, s : Bit, w : Bit,
            rn : Regs, list : SUBSET Regs]
    \union [form : {"coprocessor"}]

ASSUME ProgramsAssumption == Programs \subseteq Seq(Instruction)

VARIABLES
    file,     \* the registers of every mode
    cpsr,     \* the mode and the carry
    memory,   \* the bytes
    fault,    \* "none", or how the process died
    result,   \* what the last instruction returned
    todo,     \* the instructions to come
    run,      \* the locals of arm_load_store_multiple, or Idle
    history   \* the instructions executed, each with the state it found

vars == <<file, cpsr, memory, fault, result, todo, run, history>>

ACCESS_FAILED == -1
UNDEFINED_INSTRUCTION == 7

Idle == [left |-> {}, address |-> 0, end_address |-> 0, W_adress |-> 0,
         data |-> 0, active |-> FALSE]

-----------------------------------------------------------------------------
(* arm_core.c and memory.c *)

\* x & 0xFFFFFFFD
ClearBit1(x) == IF (x \div 2) % 2 = 1 THEN x - 2 ELSE x

\* instructions read their own address + 8: the fetch has added 4 already
ReadRegister(aFile, mode, reg) ==
    LET value == aFile[Cell(reg, mode)]
    IN  IF reg = PC THEN ClearBit1((value + 4) % WordSize) ELSE value

WriteRegister(aFile, mode, reg, value) ==
    [aFile EXCEPT ![Cell(reg, mode)] = value]

OutOfBounds(address) == address >= MemorySize
Overrun(width, address) == ~OutOfBounds(address) /\ address + width > MemorySize

\* the weight of the byte at an address of a value of so many bytes
Weight(width, i) ==
    LET rank == IF BigEndian THEN width - 1 - i ELSE i
    IN  IF rank = 0 THEN 1 ELSE IF rank = 1 THEN ByteSize
        ELSE IF rank = 2 THEN HalfSize ELSE HalfSize * ByteSize

ReadAt(bytes, width, address) ==
    LET part(i) == bytes[address + i] * Weight(width, i)
    IN  IF width = 1 THEN part(0)
        ELSE IF width = 2 THEN part(0) + part(1)
        ELSE part(0) + part(1) + part(2) + part(3)

WrittenAt(bytes, width, address, value) ==
    [a \in DOMAIN bytes |->
        IF a \in address .. address + width - 1
        THEN (value \div Weight(width, a - address)) % ByteSize
        ELSE bytes[a]]

-----------------------------------------------------------------------------
(* The transfer of one value.  An instruction maps a machine to a machine. *)

Machine(aFile) ==
    [file |-> aFile, memory |-> memory, fault |-> "none", result |-> 0]

\* arm_fetch
FetchFile ==
    LET c == Cell(PC, cpsr.mode)
    IN  [file EXCEPT ![c] = (@ + 4) % WordSize]

MutantSignExtend(size, value) ==
    IF 2 * value >= size THEN value - size ELSE value
SignExtend(size, value) ==
    IF 2 * value >= size THEN WordSize - size + value ELSE value

\* what reaches the register: the value, with its sign, or an address for the pc
Converted(kind, width, value) ==
    CASE kind = "signed" ->
            SignExtend(IF width = 1 THEN ByteSize ELSE HalfSize, value)
      [] kind = "pc" -> value - (value % 4)
      [] OTHER -> value

\* a read returns its error and leaves the variable of its caller alone then
Load(m, width, address, old, rd, kind) ==
    IF Overrun(width, address) THEN [m EXCEPT !.fault = "overrun"]
    ELSE LET failed == OutOfBounds(address)
             value == IF failed THEN old ELSE ReadAt(m.memory, width, address)
             register == Converted(kind, width, value)
         IN  [m EXCEPT !.file = WriteRegister(@, cpsr.mode, rd, register),
                       !.result = IF failed THEN ACCESS_FAILED ELSE 0]

Store(m, width, address, rd) ==
    IF OutOfBounds(address) THEN [m EXCEPT !.result = ACCESS_FAILED]
    ELSE IF Overrun(width, address) THEN [m EXCEPT !.fault = "overrun"]
    ELSE [m EXCEPT !.memory = WrittenAt(@, width, address,
                                        ReadRegister(m.file, cpsr.mode, rd))]

Undefined(m) == [m EXCEPT !.result = UNDEFINED_INSTRUCTION]
Goes(m) == m.result = 0 /\ m.fault = "none"

MutantUBit(u, base, offset) == (base + offset) % WordSize
u_bit_handle(u, base, offset) ==
    (IF u = 1 THEN base + offset ELSE base - offset) % WordSize

\* LDR, STR, LDRB and STRB: a failed read does not reach the register
b_bit_handle(m, ins, address) ==
    LET width == IF ins.b = 1 THEN 1 ELSE 4
    IN  IF ins.l = 0 THEN Store(m, width, address, ins.rd)
        ELSE IF OutOfBounds(address) THEN [m EXCEPT !.result = ACCESS_FAILED]
        ELSE Load(m, width, address, 0, ins.rd, "value")

WriteBack(m, rn, value) ==
    [m EXCEPT !.file = WriteRegister(@, cpsr.mode, rn, value)]

\* arm_load_ and arm_store_immediate_offset, _preindexing and _postindexing
MutantTransfer(m, ins, base, offset) ==
    LET moved == u_bit_handle(ins.u, base, offset)
    IN  IF ins.p = 0 /\ ins.w = 1 THEN Undefined(m)
        ELSE LET before == IF ins.p = 1 /\ ins.w = 0 THEN m
                           ELSE WriteBack(m, ins.rn, moved)
             IN  b_bit_handle(before, ins, IF ins.p = 1 THEN moved ELSE base)

Transfer(m, ins, base, offset) ==
    LET moved == u_bit_handle(ins.u, base, offset)
        done == b_bit_handle(m, ins, IF ins.p = 1 THEN moved ELSE base)
    IN  IF ins.p = 0 /\ ins.w = 1 THEN Undefined(m)
        ELSE IF ~Goes(done) \/ (ins.p = 1 /\ ins.w = 0) THEN done
        ELSE WriteBack(done, ins.rn, moved)

arm_load_store_immediate_offset(m, ins) ==
    Transfer(m, ins, ReadRegister(m.file, cpsr.mode, ins.rn), ins.offset)

-----------------------------------------------------------------------------
(* The offset of the register form: a register, shifted by an immediate *)

Negative(x) == 2 * x >= WordSize
AllOnes == WordSize - 1

\* the sign bit is repeated
ShiftArithmetic(x, n) ==
    IF Negative(x) THEN (x \div 2^n) + (WordSize - WordSize \div 2^n)
    ELSE x \div 2^n
Rotate(x, n) ==
    (x \div 2^n) + (x % 2^n) * (WordSize \div 2^n)

\* with ROR #0 the number of the register is shifted, not what it holds
Scaled(ins, x) ==
    CASE ins.shift = "LSL" -> (x * 2^ins.shift_imm) % WordSize
      [] ins.shift = "LSR" ->
            IF ins.shift_imm = 0 THEN 0 ELSE x \div 2^ins.shift_imm
      [] ins.shift = "ASR" ->
            IF ins.shift_imm = 0 THEN IF Negative(x) THEN AllOnes ELSE 0
            ELSE ShiftArithmetic(x, ins.shift_imm)
      [] ins.shift = "ROR" ->
            IF ins.shift_imm = 0
            THEN (WordSize \div 2) * cpsr.c + (ins.rm \div 2)
            ELSE Rotate(x, ins.shift_imm)

arm_load_store_register_offset(m, ins) ==
    LET offset == Scaled(ins, ReadRegister(m.file, cpsr.mode, ins.rm))
    IN  Transfer(m, ins, ReadRegister(m.file, cpsr.mode, ins.rn), offset)

-----------------------------------------------------------------------------
(* Half words, signed bytes and double words: the base is written before   *)
(* the access, and a load that fails writes its local, 0, to the register. *)

\* the second read of an LDRD that fails leaves the first word in the local
LoadOf(m, address, rd) ==
    LET old == IF rd % 2 = 0 THEN 0 ELSE m.file[Cell(rd - 1, cpsr.mode)]
    IN  Load(m, 4, address, old, rd, "value")
StoreOf(m, address, rd) == Store(m, 4, address, rd)

Double(m, ins, address) ==
    LET each(state, a, rd) ==
            IF ins.lsh = 2 THEN LoadOf(state, a, rd) ELSE StoreOf(state, a, rd)
        first == each(m, address, ins.rd)
    IN  IF ins.rd % 2 = 1 \/ ins.rd = LR \/ address % 8 # 0 THEN Undefined(m)
        ELSE IF ~Goes(first) THEN first
        ELSE each(first, (address + 4) % WordSize, ins.rd + 1)

\* the instruction that the bits L, S and H select
Selected(m, ins, address) ==
    CASE ins.lsh = 1 -> Store(m, 2, address, ins.rd)
      [] ins.lsh \in {2, 3} -> Double(m, ins, address)
      [] ins.lsh = 5 -> Load(m, 2, address, 0, ins.rd, "value")
      [] ins.lsh = 6 -> Load(m, 1, address, 0, ins.rd, "signed")
      [] ins.lsh = 7 -> Load(m, 2, address, 0, ins.rd, "signed")
      [] OTHER -> m

MiscOffset(ins, aFile) ==
    IF ins.b = 1 THEN ins.offset ELSE ReadRegister(aFile, cpsr.mode, ins.rm)

arm_load_store_miscellaneous(m, ins) ==
    LET base == ReadRegister(m.file, cpsr.mode, ins.rn)
        moved == u_bit_handle(ins.u, base, MiscOffset(ins, m.file))
        updated == IF ins.p = 1 /\ ins.w = 0 THEN m
                   ELSE WriteBack(m, ins.rn, moved)
    IN  IF ins.p = 0 /\ ins.w = 1 THEN Undefined(m)
        ELSE Selected(updated, ins, IF ins.p = 1 THEN moved ELSE base)

\* the result of an instruction that transfers one value, or two words
Single(m, ins) ==
    CASE ins.form = "imm" -> arm_load_store_immediate_offset(m, ins)
      [] ins.form = "reg" -> arm_load_store_register_offset(m, ins)
      [] ins.form = "misc" -> arm_load_store_miscellaneous(m, ins)
      [] ins.form = "coprocessor" -> Undefined(m)

-----------------------------------------------------------------------------
(* arm_load_store_multiple *)

MutantFirstAddress(ins, base, n) ==
    (IF ins.u = 1 THEN base + 4 * ins.p
     ELSE base - 4 * n + 4 * ins.p) % WordSize

FirstAddress(ins, base, n) ==
    (IF ins.u = 1 THEN base + 4 * ins.p
     ELSE base - 4 * n + 4 * (1 - ins.p)) % WordSize

LastAddress(ins, base, n) ==
    (IF ins.u = 1 THEN base + 4 * n - 4 * (1 - ins.p)
     ELSE base - 4 * ins.p) % WordSize

\* W_adress
MutantBlockEnd(u, base, n) ==
    (IF u = 1 THEN base + 4 * (n - 1) ELSE base - 4 * n) % WordSize
BlockEnd(u, base, n) ==
    (IF u = 1 THEN base + 4 * n ELSE base - 4 * n) % WordSize

\* the local data is not initialised
Locals(ins, aFile, data) ==
    LET base == ReadRegister(aFile, cpsr.mode, ins.rn)
        n == Cardinality(ins.list)
    IN  [left |-> ins.list,
         address |-> FirstAddress(ins, base, n),
         end_address |-> LastAddress(ins, base, n),
         W_adress |-> BlockEnd(ins.u, base, n),
         data |-> data, active |-> TRUE]

Lowest(set) == CHOOSE i \in set : \A j \in set : i <= j

\* one register of the list; errors of the accesses are ignored, so a read
\* that fails loads what was in data
Move(m, ins, i) ==
    IF ins.l = 0 THEN Store(m, 4, run.address, i)
    ELSE Load(m, 4, run.address, run.data, i, IF i = PC THEN "pc" ELSE "value")

\* the local data after the read
DataAfter(m, ins, i) ==
    IF ins.l = 1 THEN m.file[Cell(i, cpsr.mode)] ELSE run.data

\* LDM with the S bit and the pc: the status comes back before the base is
\* written, in the bank of the mode that has come back
Restores(ins) == ins.l = 1 /\ ins.s = 1 /\ PC \in ins.list
NoSpsr(ins) == Restores(ins) /\ ~registers_mode_has_spsr(cpsr.mode)

StatusAfter(ins) ==
    IF Restores(ins) THEN file[Cell(SPSR, cpsr.mode)] ELSE cpsr

MutantFileAfter(ins, mode) == WriteRegister(file, mode, ins.rn, run.W_adress)
FileAfter(ins, mode) ==
    IF ins.w = 1 THEN WriteRegister(file, mode, ins.rn, run.W_adress) ELSE file

-----------------------------------------------------------------------------
(* The steps *)

Init ==
    /\ file \in Files /\ cpsr \in Statuses /\ memory \in Contents
    /\ fault = "none" /\ result = 0
    /\ todo \in Programs /\ run = Idle /\ history = <<>>

Ready == fault = "none" /\ ~run.active /\ todo # <<>>

Remember(ins) ==
    history' = Append(history,
                      [ins |-> ins, file |-> FetchFile, cpsr |-> cpsr,
                       memory |-> memory])

ExecuteSingle ==
    /\ Ready /\ Head(todo).form # "multiple"
    /\ LET m == Single(Machine(FetchFile), Head(todo))
       IN  /\ file' = m.file /\ memory' = m.memory
           /\ fault' = m.fault /\ result' = m.result
    /\ Remember(Head(todo))
    /\ todo' = Tail(todo)
    /\ UNCHANGED <<cpsr, run>>

StartMultiple ==
    /\ Ready /\ Head(todo).form = "multiple"
    /\ \E data \in Garbage : run' = Locals(Head(todo), FetchFile, data)
    /\ file' = FetchFile
    /\ Remember(Head(todo))
    /\ UNCHANGED <<cpsr, memory, fault, result, todo>>

MoveOne ==
    /\ fault = "none" /\ run.active /\ run.left # {}
    /\ LET i == Lowest(run.left)
           m == Move(Machine(file), Head(todo), i)
       IN  /\ file' = m.file /\ memory' = m.memory /\ fault' = m.fault
           /\ run' = [run EXCEPT !.left = @ \ {i},
                                 !.address = (@ + 4) % WordSize,
                                 !.data = DataAfter(m, Head(todo), i)]
    /\ UNCHANGED <<cpsr, result, todo, history>>

EndMultiple ==
    /\ fault = "none" /\ run.active /\ run.left = {}
    /\ \/ /\ NoSpsr(Head(todo))
          /\ fault' = "null"
          /\ UNCHANGED <<file, cpsr, run, result, todo>>
       \/ /\ ~NoSpsr(Head(todo))
          /\ cpsr' = StatusAfter(Head(todo))
          /\ file' = FileAfter(Head(todo), StatusAfter(Head(todo)).mode)
          /\ result' = 0 /\ run' = Idle /\ todo' = Tail(todo)
          /\ UNCHANGED fault
    /\ UNCHANGED <<memory, history>>

Next == ExecuteSingle \/ StartMultiple \/ MoveOne \/ EndMultiple

Spec == Init /\ [][Next]_vars
-----------------------------------------------------------------------------
TypeOK ==
    /\ DOMAIN file = FileCells
    /\ \A cell \in FileCells :
          file[cell] \in IF cell[1] = SPSR THEN Status ELSE Word
    /\ cpsr \in Status
    /\ memory \in [0 .. MemorySize - 1 -> 0 .. ByteSize - 1]
    /\ fault \in {"none", "overrun", "null"}
    /\ result \in {0, ACCESS_FAILED, UNDEFINED_INSTRUCTION}
    /\ run \in [left : SUBSET Regs, address : Word, end_address : Word,
               W_adress : Word, data : Word, active : BOOLEAN]

Last == history[Len(history)]
Executed(forms) ==
    history # <<>> /\ ~run.active /\ fault = "none" /\ Last.ins.form \in forms

\* A data abort is precise: an LDR, LDRB, STR or STRB that returns an error
\* leaves every register and the memory as it found them, its base too, so the
\* handler may execute it again.  (The other transfers do not promise it:
\* arm_load_store_miscellaneous writes the base first, and
\* arm_load_store_multiple drops the errors.)
AbortIsPrecise ==
    Executed({"imm", "reg"}) /\ result # 0 =>
        file = Last.file /\ memory = Last.memory

(* The reference: addresses and values as integers with a sign *)

Signed(size, value) == IF 2 * value >= size THEN value - size ELSE value

\* what an instruction of the history reads in a register
Was(entry, reg) == ReadRegister(entry.file, entry.cpsr.mode, reg)

\* LSR #0 and ASR #0 stand for a shift by the whole word
TrueShift(ins) ==
    IF ins.shift_imm = 0 /\ ins.shift \in {"LSR", "ASR"} THEN WordSize
    ELSE 2^ins.shift_imm

\* a rotation by n places to the right is a quotient by 2^n modulo 2^32 - 1
TrueOffset(entry) ==
    LET ins == entry.ins
        x == Was(entry, ins.rm)
        n == TrueShift(ins)
    IN  IF ins.form = "imm" \/ (ins.form = "misc" /\ ins.b = 1) THEN ins.offset
        ELSE IF ins.form = "misc" THEN x
        ELSE IF ins.shift = "LSL" THEN x * n
        ELSE IF ins.shift = "LSR" THEN x \div n
        ELSE IF ins.shift = "ASR" THEN Signed(WordSize, x) \div n
        ELSE CHOOSE y \in Word : \E k \in 0 .. n - 1 : y * n = x + k * AllOnes

TrueBase(entry) ==
    (Was(entry, entry.ins.rn) + (2 * entry.ins.u - 1) * TrueOffset(entry)) % WordSize
TrueAddress(entry) ==
    IF entry.ins.p = 1 THEN TrueBase(entry) ELSE Was(entry, entry.ins.rn)
TrueWidth(ins) ==
    IF ins.form = "misc" THEN IF ins.lsh = 6 THEN 1 ELSE 2
    ELSE IF ins.b = 1 THEN 1 ELSE 4
IsLoad(ins) == IF ins.form = "misc" THEN ins.lsh > 3 ELSE ins.l = 1

TrueValue(entry) ==
    LET width == TrueWidth(entry.ins)
        value == ReadAt(entry.memory, width, TrueAddress(entry))
        size == IF width = 1 THEN ByteSize ELSE HalfSize
    IN  IF entry.ins.form = "misc" /\ entry.ins.lsh > 5
        THEN Signed(size, value) % WordSize ELSE value

\* LDRD and STRD move two words, ROR #0 is RRX, and a base that is loaded has
\* no value that the architecture defines
Regular(ins) ==
    /\ ins.rn # ins.rd
    /\ ins.form = "misc" => ins.lsh \in {1, 5, 6, 7}
    /\ ins.form = "reg" => ins.shift # "ROR" \/ ins.shift_imm # 0

\* the registers and the memory that an instruction has to leave
TrueFile(entry) ==
    LET ins == entry.ins
        mode == entry.cpsr.mode
        based == IF ins.p = 1 /\ ins.w = 0 THEN entry.file
                 ELSE WriteRegister(entry.file, mode, ins.rn, TrueBase(entry))
    IN  IF IsLoad(ins) THEN WriteRegister(based, mode, ins.rd, TrueValue(entry))
        ELSE based
TrueMemory(entry) ==
    IF IsLoad(entry.ins) THEN entry.memory
    ELSE WrittenAt(entry.memory, TrueWidth(entry.ins), TrueAddress(entry),
                   Was(entry, entry.ins.rd))

\* A transfer of one value that returns no error is the one that the fields P,
\* U, W, B, L, S, H and the shift select, in each addressing mode: the value at
\* the effective address, with its sign where it has one, reaches the register
\* or the memory, the base is written back exactly when it has to be, and no
\* other register or byte changes.
AddressingModes ==
    Executed({"imm", "reg", "misc"}) /\ result = 0 /\ Regular(Last.ins) =>
        file = TrueFile(Last) /\ memory = TrueMemory(Last)

\* In each of the four modes of LDM and STM the loop of
\* arm_load_store_multiple goes from the address computed before it to
\* end_address, which the code computes and never compares.
BlockAddress ==
    run.active =>
        run.address = (run.end_address + 4 - 4 * Cardinality(run.left)) % WordSize

\* the first address of the block of an LDM or STM, and whether the block is in
\* the memory
First(entry) ==
    FirstAddress(entry.ins, Was(entry, entry.ins.rn), Cardinality(entry.ins.list))
InMemory(entry) == First(entry) + 4 * Cardinality(entry.ins.list) <= MemorySize

Reverses(stm, ldm) ==
    /\ stm.form = "multiple" /\ stm.l = 0 /\ stm.w = 1
    /\ ldm = [stm EXCEPT !.l = 1, !.p = 1 - stm.p, !.u = 1 - stm.u]
    /\ stm.rn # PC /\ {stm.rn, PC} \intersect stm.list = {}

\* The LDM finds the mode of the STM, and the base and the block as the STM has
\* left them to the instruction that follows it.
Intact(stm, next, ldm) ==
    LET cell == Cell(stm.ins.rn, stm.cpsr.mode)
    IN  /\ ldm.cpsr.mode = stm.cpsr.mode /\ ldm.file[cell] = next.file[cell]
        /\ \A a \in First(ldm) .. First(ldm) + 4 * Cardinality(ldm.ins.list) - 1 :
              ldm.memory[a] = next.memory[a]

\* A block saved by an STM with write-back comes back by the LDM with
\* write-back of the opposite direction, as in test_ldm_stm.s: every register
\* of the list has its value again whatever was executed in between, as long as
\* it left the block and the base alone, and the base is where it was.
StackRestores ==
    Executed({"multiple"}) /\ InMemory(Last) =>
        \A i \in 1 .. Len(history) - 1 :
            Reverses(history[i].ins, Last.ins)
                    /\ Intact(history[i], history[i + 1], Last) =>
                \A reg \in Last.ins.list \union {Last.ins.rn} :
                    LET cell == Cell(reg, cpsr.mode)
                    IN  file[cell] = history[i].file[cell]

\* An instruction changes registers of the mode it executes in only, but for
\* the base of an LDM that restores the CPSR and writes back: the base changed
\* is then the one of the mode that has come back.
BanksUndisturbed ==
    [][\A cell \in FileCells :
          file'[cell] # file[cell] =>
              \/ \E reg \in Regs : cell = Cell(reg, cpsr.mode)
              \/ /\ cpsr' # cpsr /\ Last.ins.w = 1
                 /\ cell = Cell(Last.ins.rn, cpsr'.mode)]_vars
=============================================================================
