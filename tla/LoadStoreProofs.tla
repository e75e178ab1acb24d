-------------------------- MODULE LoadStoreProofs --------------------------
(***************************************************************************)
(* The loads and stores of arm_load_store.c keep the machine well formed,  *)
(* abort precisely, compute each addressing mode, walk the block of LDM    *)
(* and STM as computed, restore by LDM what STM has saved and leave the    *)
(* banks of the other modes alone, for every size of a byte and of the     *)
(* memory, both byte orders, every set of registers and every program.     *)
(***************************************************************************)
EXTENDS LoadStore, FiniteSetTheorems, WellFoundedInduction, TLAPS

-----------------------------------------------------------------------------
(* Arithmetic *)

LEMMA ProductBounds ==
    ASSUME NEW x \in Nat, NEW y \in Nat, x >= 1, y >= 1
    PROVE  x * y \in Nat /\ x * y >= x /\ x * y >= y
OBVIOUS

LEMMA Sizes ==
    /\ ByteSize \in Nat /\ HalfSize \in Nat /\ WordSize \in Nat
    /\ ByteSize >= 2 /\ HalfSize >= ByteSize /\ WordSize >= HalfSize
    /\ HalfSize * ByteSize \in Nat /\ HalfSize * ByteSize >= 1
    /\ WordSize >= 16
<1>1. ByteSize \in Nat /\ ByteSize >= 2
  BY SizeAssumption
<1>2. HalfSize \in Nat /\ HalfSize >= ByteSize
  BY <1>1, ProductBounds DEF HalfSize
<1>3. HalfSize >= 4
  BY <1>1 DEF HalfSize
<1>4. WordSize \in Nat /\ WordSize >= HalfSize
  BY <1>1, <1>2, ProductBounds DEF WordSize
<1>5. WordSize >= 16
  <2>1. \A h \in Nat : h >= 4 => h * h >= 16
    OBVIOUS
  <2> QED BY <1>2, <1>3, <2>1 DEF WordSize
<1>6. HalfSize * ByteSize \in Nat /\ HalfSize * ByteSize >= 1
  BY <1>1, <1>2, ProductBounds
<1> QED BY <1>1, <1>2, <1>4, <1>5, <1>6

\* Two digits in base n.
LEMMA TwoDigits ==
    ASSUME NEW n \in Nat, n >= 1, NEW hi \in 0 .. n - 1, NEW lo \in 0 .. n - 1
    PROVE  hi * n + lo \in 0 .. n * n - 1
<1>1. hi * n <= (n - 1) * n
  OBVIOUS
<1>2. (n - 1) * n = n * n - n
  OBVIOUS
<1>3. hi * n \in Nat
  OBVIOUS
<1> QED BY <1>1, <1>2, <1>3

LEMMA Remainder ==
    ASSUME NEW n \in Nat, n >= 1, NEW x \in Int
    PROVE  /\ x % n \in 0 .. n - 1 /\ x \div n \in Int
           /\ x = n * (x \div n) + (x % n)
OBVIOUS

LEMMA NaturalQuotient ==
    ASSUME NEW n \in Nat, n >= 1, NEW x \in Nat
    PROVE  x \div n \in Nat
OBVIOUS

\* A remainder is the only number of its range at a multiple's distance.
LEMMA RemainderUnique ==
    ASSUME NEW n \in Nat, n >= 1, NEW x \in Int, NEW q \in Int,
           NEW r \in 0 .. n - 1, x = n * q + r
    PROVE  x % n = r
<1> DEFINE d == (x \div n) - q
<1>1. n * d = r - (x % n) /\ d \in Int /\ x % n \in 0 .. n - 1
  <2>1. x = n * (x \div n) + (x % n) /\ x \div n \in Int /\ x % n \in 0 .. n - 1
    BY Remainder
  <2>2. n * d = n * (x \div n) - n * q
    BY <2>1
  <2> QED BY <2>1, <2>2
<1> HIDE DEF d
<1>2. ~(d >= 1)
  <2>1. d >= 1 => n * d >= n
    BY <1>1
  <2> QED BY <1>1, <2>1
<1>3. ~(d <= -1)
  <2>1. d <= -1 => n * d <= -n
    BY <1>1
  <2> QED BY <1>1, <2>1
<1>4. d = 0
  BY <1>1, <1>2, <1>3
<1> QED BY <1>1, <1>4

\* Adding to a remainder and adding to the number have the same remainder.
LEMMA RemainderAdd ==
    ASSUME NEW n \in Nat, n >= 1, NEW x \in Int, NEW y \in Int
    PROVE  ((x % n) + y) % n = (x + y) % n
<1>1. PICK r \in 0 .. n - 1, a \in Int : r = x % n /\ x = n * a + r
  BY Remainder
<1>2. PICK z \in Int : z = r + y
  OBVIOUS
<1>3. PICK t \in 0 .. n - 1, b \in Int : t = z % n /\ z = n * b + t
  BY Remainder
<1>4. PICK q \in Int, total \in Int : q = a + b /\ total = x + y
  OBVIOUS
<1>5. total = n * q + t
  <2>1. n * q = n * a + n * b /\ n * a \in Int /\ n * b \in Int
    BY <1>4
  <2>2. x = n * a + r /\ z = n * b + t
    BY <1>1, <1>3
  <2> QED BY <1>2, <1>4, <2>1, <2>2
<1>6. total % n = t
  BY <1>5, RemainderUnique
<1> QED BY <1>1, <1>2, <1>3, <1>4, <1>6

LEMMA WordRemainder ==
    ASSUME NEW x \in Int
    PROVE  x % WordSize \in Word
BY Sizes, Remainder DEF Word

LEMMA WordAdd ==
    ASSUME NEW x \in Int, NEW y \in Int
    PROVE  ((x % WordSize) + y) % WordSize = (x + y) % WordSize
<1>1. PICK n \in Nat : n = WordSize /\ n >= 1
  BY Sizes
<1>2. ((x % n) + y) % n = (x + y) % n
  BY <1>1, RemainderAdd
<1> QED BY <1>1, <1>2

LEMMA PowerOfTwo ==
    ASSUME NEW n \in 0 .. 31
    PROVE  2^n \in Nat /\ 2^n >= 1
<1>1. /\ (n = 0 => 2^n = 2^0) /\ (n = 1 => 2^n = 2^1) /\ (n = 2 => 2^n = 2^2)
      /\ (n = 3 => 2^n = 2^3) /\ (n = 4 => 2^n = 2^4) /\ (n = 5 => 2^n = 2^5)
      /\ (n = 6 => 2^n = 2^6) /\ (n = 7 => 2^n = 2^7) /\ (n = 8 => 2^n = 2^8)
      /\ (n = 9 => 2^n = 2^9) /\ (n = 10 => 2^n = 2^10) /\ (n = 11 => 2^n = 2^11)
      /\ (n = 12 => 2^n = 2^12) /\ (n = 13 => 2^n = 2^13) /\ (n = 14 => 2^n = 2^14)
      /\ (n = 15 => 2^n = 2^15) /\ (n = 16 => 2^n = 2^16) /\ (n = 17 => 2^n = 2^17)
      /\ (n = 18 => 2^n = 2^18) /\ (n = 19 => 2^n = 2^19) /\ (n = 20 => 2^n = 2^20)
      /\ (n = 21 => 2^n = 2^21) /\ (n = 22 => 2^n = 2^22) /\ (n = 23 => 2^n = 2^23)
      /\ (n = 24 => 2^n = 2^24) /\ (n = 25 => 2^n = 2^25) /\ (n = 26 => 2^n = 2^26)
      /\ (n = 27 => 2^n = 2^27) /\ (n = 28 => 2^n = 2^28) /\ (n = 29 => 2^n = 2^29)
      /\ (n = 30 => 2^n = 2^30) /\ (n = 31 => 2^n = 2^31)
  BY Zenon
<1>2. /\ (n = 0 => 2^n >= 1) /\ (n = 1 => 2^n >= 1) /\ (n = 2 => 2^n >= 1)
      /\ (n = 3 => 2^n >= 1) /\ (n = 4 => 2^n >= 1) /\ (n = 5 => 2^n >= 1)
      /\ (n = 6 => 2^n >= 1) /\ (n = 7 => 2^n >= 1) /\ (n = 8 => 2^n >= 1)
      /\ (n = 9 => 2^n >= 1) /\ (n = 10 => 2^n >= 1) /\ (n = 11 => 2^n >= 1)
      /\ (n = 12 => 2^n >= 1) /\ (n = 13 => 2^n >= 1) /\ (n = 14 => 2^n >= 1)
      /\ (n = 15 => 2^n >= 1) /\ (n = 16 => 2^n >= 1) /\ (n = 17 => 2^n >= 1)
      /\ (n = 18 => 2^n >= 1) /\ (n = 19 => 2^n >= 1) /\ (n = 20 => 2^n >= 1)
      /\ (n = 21 => 2^n >= 1) /\ (n = 22 => 2^n >= 1) /\ (n = 23 => 2^n >= 1)
      /\ (n = 24 => 2^n >= 1) /\ (n = 25 => 2^n >= 1) /\ (n = 26 => 2^n >= 1)
      /\ (n = 27 => 2^n >= 1) /\ (n = 28 => 2^n >= 1) /\ (n = 29 => 2^n >= 1)
      /\ (n = 30 => 2^n >= 1) /\ (n = 31 => 2^n >= 1)
  BY <1>1
<1> QED BY <1>2

-----------------------------------------------------------------------------
(* The parts of a machine *)

FileSet ==
    {f \in [FileCells -> Word \union Status] :
        \A cell \in FileCells :
            f[cell] \in IF cell[1] = SPSR THEN Status ELSE Word}
Bytes == [0 .. MemorySize - 1 -> 0 .. ByteSize - 1]
MachineSet ==
    [file : FileSet, memory : Bytes, fault : {"none", "overrun"},
     result : {0, ACCESS_FAILED, UNDEFINED_INSTRUCTION}]

\* the modes a status can have
Banks == Modes \ {FIQ}

LEMMA CellInFile ==
    ASSUME NEW reg \in Regs, NEW mode \in Banks
    PROVE  /\ Cell(reg, mode) \in FileCells
           /\ Cell(reg, mode)[1] = reg /\ reg # SPSR
<1>1. reg \in 0 .. 15
  BY RegsAssumption
<1>2. get_read_write_mode(mode) \in 0 .. 5
  BY DEF get_read_write_mode, Banks, Modes, USR, FIQ, IRQ, SVC, ABT, UND, SYS
<1>3. Ptr(reg, get_read_write_mode(mode)) \in 0 .. Size(reg) - 1
  BY <1>1, <1>2 DEF Ptr, Size, SP, LR, SPSR
<1> QED BY <1>1, <1>3 DEF Cell, FileCells, Cells, SPSR

LEMMA SpsrInFile ==
    ASSUME NEW mode \in Banks, registers_mode_has_spsr(mode)
    PROVE  Cell(SPSR, mode) \in FileCells /\ Cell(SPSR, mode)[1] = SPSR
<1>1. get_read_write_mode(mode) \in 2 .. 5
  BY DEF registers_mode_has_spsr, get_read_write_mode, Banks, Modes,
         USR, FIQ, IRQ, SVC, ABT, UND, SYS
<1>2. Ptr(SPSR, get_read_write_mode(mode)) \in 0 .. Size(SPSR) - 1
  BY <1>1 DEF Ptr, Size, SP, LR, SPSR
<1> QED BY <1>2 DEF Cell, FileCells, Cells, SPSR

LEMMA WriteRegisterType ==
    ASSUME NEW f \in FileSet, NEW mode \in Banks, NEW reg \in Regs,
           NEW value \in Word
    PROVE  WriteRegister(f, mode, reg, value) \in FileSet
<1>1. Cell(reg, mode) \in FileCells /\ Cell(reg, mode)[1] # SPSR
  BY CellInFile
<1> QED BY <1>1 DEF WriteRegister, FileSet

LEMMA ReadRegisterType ==
    ASSUME NEW f \in FileSet, NEW mode \in Banks, NEW reg \in Regs
    PROVE  f[Cell(reg, mode)] \in Word /\ ReadRegister(f, mode, reg) \in Word
<1>1. f[Cell(reg, mode)] \in Word
  BY CellInFile DEF FileSet
<1>2. \A x \in Word : ClearBit1(x) \in Word
  BY Sizes DEF ClearBit1, Word
<1>3. \A x \in Word : (x + 4) % WordSize \in Word
  BY WordRemainder DEF Word
<1> QED BY <1>1, <1>2, <1>3 DEF ReadRegister

LEMMA WeightType ==
    ASSUME NEW width \in {1, 2, 4}, NEW i \in 0 .. width - 1
    PROVE  Weight(width, i) \in Nat /\ Weight(width, i) >= 1
BY Sizes DEF Weight

LEMMA WrittenAtType ==
    ASSUME NEW bytes \in Bytes, NEW width \in {1, 2, 4}, NEW address \in Word,
           NEW value \in Word
    PROVE  WrittenAt(bytes, width, address, value) \in Bytes
<1>1. ASSUME NEW a \in 0 .. MemorySize - 1,
             a \in address .. address + width - 1
      PROVE  (value \div Weight(width, a - address)) % ByteSize
                \in 0 .. ByteSize - 1
  <2>1. a - address \in 0 .. width - 1
    BY <1>1, SizeAssumption DEF Word
  <2>2. PICK n \in Nat : n >= 1 /\ n = Weight(width, a - address)
    BY <2>1, WeightType
  <2>3. value \div n \in Int
    BY <2>2, Remainder DEF Word
  <2> QED BY <2>2, <2>3, Remainder, Sizes
<1> QED BY <1>1 DEF WrittenAt, Bytes

\* A value of a byte, of two or of four fits in as many.
LEMMA ReadAtType ==
    ASSUME NEW bytes \in Bytes, NEW width \in {1, 2, 4}, NEW address \in Word,
           ~OutOfBounds(address), ~Overrun(width, address)
    PROVE  /\ ReadAt(bytes, width, address) \in Word
           /\ width = 1 => ReadAt(bytes, width, address) \in 0 .. ByteSize - 1
           /\ width = 2 => ReadAt(bytes, width, address) \in 0 .. HalfSize - 1
<1>1. ASSUME NEW i \in 0 .. width - 1
      PROVE  bytes[address + i] \in 0 .. ByteSize - 1
  BY SizeAssumption DEF Bytes, OutOfBounds, Overrun, Word
<1>2. CASE width = 1
  <2>1. ReadAt(bytes, width, address) = bytes[address]
    BY <1>1, <1>2, Sizes DEF ReadAt, Weight, Word
  <2> QED BY <1>1, <1>2, <2>1, Sizes DEF Word
<1>3. CASE width = 2
  <2>1. PICK b0 \in 0 .. ByteSize - 1, b1 \in 0 .. ByteSize - 1 :
            b0 = bytes[address + 0] /\ b1 = bytes[address + 1]
    BY <1>1, <1>3
  <2>2. ReadAt(bytes, width, address) =
            IF BigEndian THEN b0 * ByteSize + b1 ELSE b1 * ByteSize + b0
    BY <1>3, <2>1, Sizes DEF ReadAt, Weight
  <2>3. ReadAt(bytes, width, address) \in 0 .. HalfSize - 1
    BY <2>2, TwoDigits, Sizes DEF HalfSize
  <2> QED BY <1>3, <2>3, Sizes DEF Word
<1>4. CASE width = 4
  <2>1. PICK b0 \in 0 .. ByteSize - 1, b1 \in 0 .. ByteSize - 1,
             b2 \in 0 .. ByteSize - 1, b3 \in 0 .. ByteSize - 1 :
            /\ b0 = bytes[address + 0] /\ b1 = bytes[address + 1]
            /\ b2 = bytes[address + 2] /\ b3 = bytes[address + 3]
    BY <1>1, <1>4
  <2> DEFINE value(x, y, z, t) ==
          x * (HalfSize * ByteSize) + y * HalfSize + z * ByteSize + t
  <2>2. ReadAt(bytes, width, address) =
            IF BigEndian THEN value(b0, b1, b2, b3) ELSE value(b3, b2, b1, b0)
    BY <1>4, <2>1, Sizes DEF ReadAt, Weight
  <2>3. ASSUME NEW x \in 0 .. ByteSize - 1, NEW y \in 0 .. ByteSize - 1,
               NEW z \in 0 .. ByteSize - 1, NEW t \in 0 .. ByteSize - 1
        PROVE  value(x, y, z, t) \in Word
    <3>1. PICK hi \in 0 .. HalfSize - 1, lo \in 0 .. HalfSize - 1 :
              hi = x * ByteSize + y /\ lo = z * ByteSize + t
      BY TwoDigits, Sizes DEF HalfSize
    <3>2. hi * HalfSize + lo \in Word
      BY TwoDigits, Sizes DEF WordSize, Word
    <3>3. hi * HalfSize = x * (HalfSize * ByteSize) + y * HalfSize
      <4>1. \A h, b \in Nat : (x * b + y) * h = x * (h * b) + y * h
        BY Sizes
      <4> QED BY <3>1, <4>1, Sizes
    <3> QED BY <3>1, <3>2, <3>3, Sizes
  <2> QED BY <1>4, <2>1, <2>2, <2>3
<1> QED BY <1>2, <1>3, <1>4

-----------------------------------------------------------------------------
(* The instructions.  A machine is fine when it is well formed and differs  *)
(* from the registers before in the bank of the mode only.                  *)

OnlyBank(f, g, mode) ==
    \A cell \in FileCells :
        f[cell] # g[cell] => \E reg \in Regs : cell = Cell(reg, mode)

Fine(m) ==
    m \in MachineSet /\ cpsr \in Status /\ OnlyBank(m.file, file, cpsr.mode)

LEMMA FineWrite ==
    ASSUME NEW m, Fine(m), NEW reg \in Regs, NEW value \in Word
    PROVE  LET f == WriteRegister(m.file, cpsr.mode, reg, value)
           IN  f \in FileSet /\ OnlyBank(f, file, cpsr.mode)
<1>1. cpsr.mode \in Banks /\ m.file \in FileSet
  BY DEF Fine, Status, Banks, MachineSet
<1>2. WriteRegister(m.file, cpsr.mode, reg, value) \in FileSet
  BY <1>1, WriteRegisterType
<1>3. ASSUME NEW cell \in FileCells, cell # Cell(reg, cpsr.mode)
      PROVE  WriteRegister(m.file, cpsr.mode, reg, value)[cell] = m.file[cell]
  BY <1>1, <1>3 DEF WriteRegister, FileSet
<1> QED BY <1>2, <1>3 DEF Fine, OnlyBank

LEMMA FineRead ==
    ASSUME NEW m, Fine(m), NEW reg \in Regs
    PROVE  /\ ReadRegister(m.file, cpsr.mode, reg) \in Word
           /\ m.file[Cell(reg, cpsr.mode)] \in Word
BY ReadRegisterType DEF Fine, Status, Banks, MachineSet

LEMMA WriteBackFine ==
    ASSUME NEW m, Fine(m), NEW rn \in Regs, NEW value \in Word
    PROVE  Fine(WriteBack(m, rn, value))
BY FineWrite DEF WriteBack, Fine, MachineSet

LEMMA ConvertedType ==
    ASSUME NEW kind, NEW width \in {1, 2, 4}, NEW value \in Word,
           kind = "signed" => \/ width = 1 /\ value \in 0 .. ByteSize - 1
                              \/ width = 2 /\ value \in 0 .. HalfSize - 1
    PROVE  Converted(kind, width, value) \in Word
<1>1. CASE kind = "signed"
  BY <1>1, Sizes DEF Converted, SignExtend, Word
<1>2. CASE kind = "pc"
  BY <1>2, Sizes DEF Converted, Word
<1>3. CASE kind \notin {"signed", "pc"}
  BY <1>3 DEF Converted
<1> QED BY <1>1, <1>2, <1>3

LEMMA LoadFine ==
    ASSUME NEW m, Fine(m), NEW width \in {1, 2, 4}, NEW address \in Word,
           NEW old \in Word, NEW rd \in Regs, NEW kind,
           kind = "signed" => width \in {1, 2} /\ old = 0
    PROVE  Fine(Load(m, width, address, old, rd, kind))
<1>1. CASE Overrun(width, address)
  BY <1>1 DEF Load, Fine, MachineSet
<1>2. CASE ~Overrun(width, address)
  <2> DEFINE failed == OutOfBounds(address)
             value == IF failed THEN old ELSE ReadAt(m.memory, width, address)
             register == Converted(kind, width, value)
  <2>1. /\ value \in Word
        /\ kind = "signed" => \/ width = 1 /\ value \in 0 .. ByteSize - 1
                              \/ width = 2 /\ value \in 0 .. HalfSize - 1
    BY <1>2, ReadAtType, Sizes DEF Fine, MachineSet
  <2> HIDE DEF value
  <2>2. register \in Word
    BY <2>1, ConvertedType
  <2>3. Load(m, width, address, old, rd, kind) =
            [m EXCEPT !.file = WriteRegister(@, cpsr.mode, rd, register),
                      !.result = IF failed THEN ACCESS_FAILED ELSE 0]
    BY <1>2 DEF Load, value
  <2> HIDE DEF register, failed
  <2>4. PICK f \in FileSet : /\ f = WriteRegister(m.file, cpsr.mode, rd, register)
                             /\ OnlyBank(f, file, cpsr.mode)
    BY <2>2, FineWrite
  <2>5. PICK r \in {0, ACCESS_FAILED} :
            Load(m, width, address, old, rd, kind) =
                [m EXCEPT !.file = f, !.result = r]
    BY <2>3, <2>4
  <2> QED BY <2>4, <2>5 DEF Fine, MachineSet
<1> QED BY <1>1, <1>2

LEMMA StoreFine ==
    ASSUME NEW m, Fine(m), NEW width \in {1, 2, 4}, NEW address \in Word,
           NEW rd \in Regs
    PROVE  Fine(Store(m, width, address, rd))
<1>1. CASE OutOfBounds(address) \/ Overrun(width, address)
  BY <1>1 DEF Store, Fine, MachineSet
<1>2. CASE ~OutOfBounds(address) /\ ~Overrun(width, address)
  <2>1. ReadRegister(m.file, cpsr.mode, rd) \in Word
    BY FineRead
  <2>2. WrittenAt(m.memory, width, address,
                  ReadRegister(m.file, cpsr.mode, rd)) \in Bytes
    BY <2>1, WrittenAtType DEF Fine, MachineSet
  <2> QED BY <1>2, <2>2 DEF Store, Fine, MachineSet
<1> QED BY <1>1, <1>2

LEMMA UndefinedFine ==
    ASSUME NEW m, Fine(m)
    PROVE  Fine(Undefined(m))
BY DEF Undefined, Fine, MachineSet

LEMMA MovedType ==
    ASSUME NEW u, NEW base \in Word, NEW offset \in Int
    PROVE  u_bit_handle(u, base, offset) \in Word
BY WordRemainder DEF u_bit_handle, Word

\* The transfer of one value: a result that is no success leaves the machine as
\* it was, so does the write-back that does not take place.
LEMMA TransferFine ==
    ASSUME NEW m, Fine(m), Goes(m), NEW ins,
           ins.rd \in Regs, ins.rn \in Regs,
           NEW base \in Word, NEW offset \in Int
    PROVE  LET t == Transfer(m, ins, base, offset)
           IN  /\ Fine(t)
               /\ t.result # 0 => t.file = m.file /\ t.memory = m.memory
<1> DEFINE moved == u_bit_handle(ins.u, base, offset)
           a == IF ins.p = 1 THEN moved ELSE base
           done == b_bit_handle(m, ins, a)
           width == IF ins.b = 1 THEN 1 ELSE 4
<1>1. moved \in Word /\ a \in Word
  BY MovedType
<1> HIDE DEF moved, a
<1>2. width \in {1, 4} /\ 0 \in Word
  BY Sizes DEF Word
<1> HIDE DEF width
<1>3. done = IF ins.l = 0 THEN Store(m, width, a, ins.rd)
             ELSE IF OutOfBounds(a) THEN [m EXCEPT !.result = ACCESS_FAILED]
             ELSE Load(m, width, a, 0, ins.rd, "value")
  BY DEF b_bit_handle, width
<1>4. Fine([m EXCEPT !.result = ACCESS_FAILED])
  BY DEF Fine, MachineSet
<1>5. Fine(done)
  BY <1>1, <1>2, <1>3, <1>4, StoreFine, LoadFine
<1>6. done.result # 0 => done.file = m.file /\ done.memory = m.memory
  <2>1. m \in MachineSet /\ m.result = 0
    BY DEF Fine, Goes
  <2>2. CASE ins.l = 0
    BY <1>3, <2>1, <2>2 DEF Store, MachineSet
  <2>3. CASE ins.l # 0 /\ OutOfBounds(a)
    BY <1>3, <2>1, <2>3 DEF MachineSet
  <2>4. CASE ins.l # 0 /\ ~OutOfBounds(a)
    BY <1>3, <2>1, <2>4 DEF Load, MachineSet
  <2> QED BY <2>2, <2>3, <2>4
<1> HIDE DEF done
<1>7. Transfer(m, ins, base, offset) =
          IF ins.p = 0 /\ ins.w = 1 THEN Undefined(m)
          ELSE IF ~Goes(done) \/ (ins.p = 1 /\ ins.w = 0) THEN done
          ELSE WriteBack(done, ins.rn, moved)
  BY DEF Transfer, done, a, moved
<1>8. CASE ins.p = 0 /\ ins.w = 1
  BY <1>7, <1>8, UndefinedFine DEF Undefined, Fine, MachineSet
<1>9. CASE ~(ins.p = 0 /\ ins.w = 1) /\ (~Goes(done) \/ (ins.p = 1 /\ ins.w = 0))
  BY <1>5, <1>6, <1>7, <1>9
<1>10. CASE /\ ~(ins.p = 0 /\ ins.w = 1)
            /\ ~(~Goes(done) \/ (ins.p = 1 /\ ins.w = 0))
  <2>1. WriteBack(done, ins.rn, moved).result = 0
    BY <1>5, <1>10 DEF WriteBack, Goes, Fine, MachineSet
  <2> QED BY <1>1, <1>5, <1>7, <1>10, <2>1, WriteBackFine
<1> QED BY <1>8, <1>9, <1>10

LEMMA ScaledType ==
    ASSUME cpsr \in Status, NEW ins, NEW x \in Word, ins.rm \in Regs,
           ins.shift \in {"LSL", "LSR", "ASR", "ROR"}, ins.shift_imm \in 0 .. MaxShift
    PROVE  Scaled(ins, x) \in Int
<1>1. PICK power \in Nat : power = 2^ins.shift_imm /\ power >= 1
  <2>1. ins.shift_imm \in 0 .. 31
    BY ShiftAssumption
  <2> QED BY <2>1, PowerOfTwo
<1>2. /\ x \in Int /\ x \div power \in Int /\ x % power \in Int
      /\ WordSize \in Int /\ WordSize \div power \in Int
  <2>1. \A y \in Int : y \div power \in Int /\ y % power \in Int
    BY <1>1, Remainder
  <2>2. x \in Int /\ WordSize \in Int
    BY Sizes DEF Word
  <2> QED BY <2>1, <2>2
<1>3. CASE ins.shift = "LSL"
  BY <1>1, <1>2, <1>3, WordRemainder DEF Scaled, Word
<1>4. CASE ins.shift = "LSR"
  BY <1>1, <1>2, <1>4 DEF Scaled
<1>5. CASE ins.shift = "ASR"
  BY <1>1, <1>2, <1>5 DEF Scaled, ShiftArithmetic, AllOnes
<1>6. CASE ins.shift = "ROR"
  <2>1. WordSize \div 2 \in Int /\ ins.rm \div 2 \in Int /\ cpsr.c \in Int
    <3>1. \A y \in Int : y \div 2 \in Int
      OBVIOUS
    <3>2. ins.rm \in Int
      <4>1. Regs \subseteq Int
        BY RegsAssumption
      <4> QED BY <4>1
    <3>3. cpsr.c \in Int
      BY DEF Status
    <3> QED BY <1>2, <3>1, <3>2, <3>3
  <2>2. (WordSize \div 2) * cpsr.c + (ins.rm \div 2) \in Int
    BY <2>1
  <2>3. (x \div power) + (x % power) * (WordSize \div power) \in Int
    BY <1>2
  <2> QED BY <1>1, <1>6, <2>2, <2>3 DEF Scaled, Rotate
<1> QED BY <1>3, <1>4, <1>5, <1>6

LEMMA DoubleFine ==
    ASSUME NEW m, Fine(m), NEW ins, ins.rd \in Regs, NEW address \in Word
    PROVE  Fine(Double(m, ins, address))
<1>0. 0 \in Word /\ (address + 4) % WordSize \in Word
  BY Sizes, WordRemainder DEF Word
<1>1. ASSUME NEW state, Fine(state), NEW a \in Word, NEW rd \in Regs,
             rd % 2 = 1 => rd - 1 \in Regs
      PROVE  Fine(LoadOf(state, a, rd))
  <2>1. (IF rd % 2 = 0 THEN 0 ELSE state.file[Cell(rd - 1, cpsr.mode)]) \in Word
    BY <1>0, <1>1, FineRead, RegsAssumption
  <2> QED BY <1>1, <2>1, LoadFine DEF LoadOf
<1>2. ASSUME NEW state, Fine(state), NEW a \in Word, NEW rd \in Regs
      PROVE  Fine(StoreOf(state, a, rd))
  BY <1>2, StoreFine DEF StoreOf
<1>3. CASE ins.rd % 2 = 1 \/ ins.rd = LR \/ address % 8 # 0
  BY <1>3, UndefinedFine DEF Double
<1>4. CASE ~(ins.rd % 2 = 1 \/ ins.rd = LR \/ address % 8 # 0)
  <2>1. PICK rd \in 0 .. 15 : rd = ins.rd
    BY RegsAssumption
  <2>2. rd % 2 = 0 /\ rd < LR
    BY <1>4, <2>1 DEF LR
  <2>3. /\ rd \in Regs /\ ~(rd % 2 = 1)
        /\ rd + 1 \in Regs /\ (rd + 1) - 1 \in Regs
    BY <2>1, <2>2, RegsAssumption
  <2>4. CASE ins.lsh = 2
    <3>1. Fine(LoadOf(m, address, rd))
      BY <1>1, <2>3
    <3>2. Fine(LoadOf(LoadOf(m, address, rd), (address + 4) % WordSize, rd + 1))
      BY <1>0, <1>1, <2>3, <3>1
    <3> QED BY <1>4, <2>1, <2>4, <3>1, <3>2 DEF Double
  <2>5. CASE ins.lsh # 2
    <3>1. Fine(StoreOf(m, address, rd))
      BY <1>2, <2>3
    <3>2. Fine(StoreOf(StoreOf(m, address, rd), (address + 4) % WordSize, rd + 1))
      BY <1>0, <1>2, <2>3, <3>1
    <3> QED BY <1>4, <2>1, <2>5, <3>1, <3>2 DEF Double
  <2> QED BY <2>4, <2>5
<1> QED BY <1>3, <1>4

LEMMA SelectedFine ==
    ASSUME NEW m, Fine(m), NEW ins, ins.rd \in Regs, ins.lsh \in 0 .. 7,
           NEW address \in Word
    PROVE  Fine(Selected(m, ins, address))
<1>0. 0 \in Word
  BY Sizes DEF Word
<1>1. CASE ins.lsh = 1
  BY <1>1, StoreFine DEF Selected
<1>2. CASE ins.lsh \in {2, 3}
  BY <1>2, DoubleFine DEF Selected
<1>3. CASE ins.lsh = 5
  BY <1>0, <1>3, LoadFine DEF Selected
<1>4. CASE ins.lsh = 6
  BY <1>0, <1>4, LoadFine DEF Selected
<1>5. CASE ins.lsh = 7
  BY <1>0, <1>5, LoadFine DEF Selected
<1>6. CASE ins.lsh \in {0, 4}
  BY <1>6 DEF Selected
<1> QED BY <1>1, <1>2, <1>3, <1>4, <1>5, <1>6

LEMMA MiscellaneousFine ==
    ASSUME NEW m, Fine(m), NEW ins, ins.rd \in Regs, ins.rn \in Regs,
           ins.rm \in Regs, ins.lsh \in 0 .. 7, ins.offset \in Word
    PROVE  Fine(arm_load_store_miscellaneous(m, ins))
<1> DEFINE base == ReadRegister(m.file, cpsr.mode, ins.rn)
           moved == u_bit_handle(ins.u, base, MiscOffset(ins, m.file))
           updated == IF ins.p = 1 /\ ins.w = 0 THEN m
                      ELSE WriteBack(m, ins.rn, moved)
           address == IF ins.p = 1 THEN moved ELSE base
<1>1. base \in Word
  BY FineRead
<1>2. MiscOffset(ins, m.file) \in Int
  BY FineRead DEF MiscOffset, Word
<1> HIDE DEF base
<1>3. moved \in Word
  BY <1>1, <1>2, MovedType
<1> HIDE DEF moved
<1>4. Fine(updated) /\ address \in Word
  BY <1>1, <1>3, WriteBackFine
<1> HIDE DEF updated, address
<1>5. Fine(Selected(updated, ins, address))
  BY <1>4, SelectedFine
<1>6. arm_load_store_miscellaneous(m, ins) =
          IF ins.p = 0 /\ ins.w = 1 THEN Undefined(m)
          ELSE Selected(updated, ins, address)
  BY DEF arm_load_store_miscellaneous, updated, address, moved, base
<1> QED BY <1>5, <1>6, UndefinedFine

\* An instruction that transfers one value or two words is fine, and an LDR,
\* LDRB, STR or STRB that returns an error changes nothing.
LEMMA SingleFine ==
    ASSUME NEW m, Fine(m), Goes(m), NEW ins \in Instruction,
           ins.form # "multiple"
    PROVE  /\ Fine(Single(m, ins))
           /\ ins.form \in {"imm", "reg"} /\ Single(m, ins).result # 0 =>
                 /\ Single(m, ins).file = m.file
                 /\ Single(m, ins).memory = m.memory
<1>1. CASE ins.form = "imm"
  <2>1. ins.rn \in Regs /\ ins.rd \in Regs /\ ins.offset \in Int
    BY <1>1 DEF Instruction, Word
  <2>2. Single(m, ins) = Transfer(m, ins, ReadRegister(m.file, cpsr.mode, ins.rn),
                                  ins.offset)
    BY <1>1 DEF Single, arm_load_store_immediate_offset
  <2> QED BY <2>1, <2>2, FineRead, TransferFine
<1>2. CASE ins.form = "reg"
  <2>1. /\ ins.rn \in Regs /\ ins.rd \in Regs /\ ins.rm \in Regs
        /\ ins.shift \in {"LSL", "LSR", "ASR", "ROR"} /\ ins.shift_imm \in 0 .. MaxShift
    BY <1>2 DEF Instruction
  <2>2. PICK offset \in Int :
            offset = Scaled(ins, ReadRegister(m.file, cpsr.mode, ins.rm))
    BY <2>1, FineRead, ScaledType DEF Fine
  <2>3. Single(m, ins) = Transfer(m, ins, ReadRegister(m.file, cpsr.mode, ins.rn),
                                  offset)
    BY <1>2, <2>2 DEF Single, arm_load_store_register_offset
  <2> QED BY <2>1, <2>3, FineRead, TransferFine
<1>3. CASE ins.form = "misc"
  <2>1. /\ ins.rn \in Regs /\ ins.rd \in Regs /\ ins.rm \in Regs
        /\ ins.lsh \in 0 .. 7 /\ ins.offset \in Word
    BY <1>3 DEF Instruction
  <2>2. Single(m, ins) = arm_load_store_miscellaneous(m, ins)
    BY <1>3 DEF Single
  <2> QED BY <1>3, <2>1, <2>2, MiscellaneousFine
<1>4. CASE ins.form = "coprocessor"
  BY <1>4, UndefinedFine DEF Single
<1>5. ins.form \in {"imm", "reg", "misc", "multiple", "coprocessor"}
  BY DEF Instruction
<1> QED BY <1>1, <1>2, <1>3, <1>4, <1>5

-----------------------------------------------------------------------------
(* The invariant *)

Entry == [ins : Instruction, file : FileSet, cpsr : Status, memory : Bytes]

Types ==
    /\ TypeOK /\ file \in FileSet
    /\ todo \in Seq(Instruction) /\ history \in Seq(Entry)

\* the instruction whose registers are being moved is the last one begun
Walking ==
    run.active => /\ todo # <<>> /\ Head(todo).form = "multiple"
                  /\ history # <<>> /\ Last.ins = Head(todo)

LSInv == Types /\ Walking /\ AbortIsPrecise /\ BlockAddress

LEMMA FetchFileFine ==
    ASSUME Types
    PROVE  Fine(Machine(FetchFile)) /\ Fine(Machine(file)) /\ FetchFile \in FileSet
<1>1. cpsr \in Status /\ cpsr.mode \in Banks /\ PC \in Regs /\ memory \in Bytes
  BY RegsAssumption DEF Types, TypeOK, Status, Banks, Bytes
<1>2. Fine(Machine(file))
  BY <1>1 DEF Types, Machine, Fine, MachineSet, OnlyBank
<1>3. PICK value \in Word : value = (file[Cell(PC, cpsr.mode)] + 4) % WordSize
  <2>1. file[Cell(PC, cpsr.mode)] \in Word
    BY <1>1, ReadRegisterType DEF Types
  <2>2. file[Cell(PC, cpsr.mode)] + 4 \in Int
    BY <2>1 DEF Word
  <2> QED BY <2>2, WordRemainder
<1>4. FetchFile = WriteRegister(file, cpsr.mode, PC, value)
  BY <1>1, <1>3 DEF FetchFile, WriteRegister
<1>5. FetchFile \in FileSet /\ OnlyBank(FetchFile, file, cpsr.mode)
  BY <1>1, <1>2, <1>4, FineWrite DEF Machine
<1> QED BY <1>1, <1>2, <1>5 DEF Machine, Fine, MachineSet

LEMMA NextInstruction ==
    ASSUME Types, todo # <<>>
    PROVE  Head(todo) \in Instruction /\ Tail(todo) \in Seq(Instruction)
BY DEF Types

LEMMA RememberLast ==
    ASSUME Types, NEW ins \in Instruction, Remember(ins)
    PROVE  /\ history' \in Seq(Entry) /\ history' # <<>>
           /\ Last' = [ins |-> ins, file |-> FetchFile, cpsr |-> cpsr,
                       memory |-> memory]
<1> DEFINE entry == [ins |-> ins, file |-> FetchFile, cpsr |-> cpsr,
                     memory |-> memory]
<1>1. entry \in Entry
  BY FetchFileFine DEF Entry, Types, TypeOK, Bytes
<1> HIDE DEF entry
<1>2. history' = Append(history, entry) /\ history \in Seq(Entry)
  BY DEF Remember, entry, Types
<1>3. /\ history' \in Seq(Entry) /\ Len(history') = Len(history) + 1
      /\ history'[Len(history) + 1] = entry /\ Len(history) \in Nat
  BY <1>1, <1>2
<1>4. history' # <<>>
  BY <1>3
<1> QED BY <1>3, <1>4 DEF Last, entry

LEMMA IdleType ==
    /\ ~Idle.active
    /\ Idle \in [left : SUBSET Regs, address : Word, end_address : Word,
                 W_adress : Word, data : Word, active : BOOLEAN]
BY Sizes DEF Idle, Word

-----------------------------------------------------------------------------
(* The addressing modes *)

LEMMA QuotientUnique ==
    ASSUME NEW n \in Nat, n >= 1, NEW x \in Int, NEW q \in Int,
           NEW r \in 0 .. n - 1, x = n * q + r
    PROVE  x \div n = q
<1>1. x % n = r
  BY RemainderUnique
<1>2. PICK p \in Int : p = x \div n /\ x = n * p + (x % n)
  BY Remainder
<1>3. n * p = n * q /\ n * p \in Int
  BY <1>1, <1>2
<1>4. n * (p - q) = 0
  BY <1>3
<1>5. p - q = 0
  BY <1>4
<1> QED BY <1>2, <1>5

\* A multiple does not count in a remainder.
LEMMA RemainderOfSum ==
    ASSUME NEW n \in Nat, n >= 1, NEW x \in Int, NEW k \in Int
    PROVE  (x + n * k) % n = x % n
<1>1. PICK r \in 0 .. n - 1, q \in Int : r = x % n /\ x = n * q + r
  BY Remainder
<1>2. PICK y \in Int, p \in Int : y = x + n * k /\ p = q + k
  OBVIOUS
<1>3. y = n * p + r
  <2>1. n * p = n * q + n * k /\ n * q \in Int /\ n * k \in Int
    BY <1>2
  <2> QED BY <1>1, <1>2, <2>1
<1>4. y % n = r
  BY <1>3, RemainderUnique
<1> QED BY <1>1, <1>2, <1>4

\* The base moves by any number that is the offset modulo the word size.
LEMMA SameBase ==
    ASSUME NEW u \in Bit, NEW base \in Int, NEW s \in Int, NEW t \in Int,
           NEW k \in Int, t = s + WordSize * k
    PROVE  u_bit_handle(u, base, s) = (base + (2 * u - 1) * t) % WordSize
<1>1. PICK n \in Nat : n = WordSize /\ n >= 1
  BY Sizes
<1>2. n * k \in Int
  OBVIOUS
<1>3. CASE u = 1
  <2>1. PICK x \in Int : x = base + s
    OBVIOUS
  <2>2. base + (2 * u - 1) * t = x + n * k
    BY <1>1, <1>2, <1>3, <2>1
  <2>3. (x + n * k) % n = x % n
    BY <1>1, RemainderOfSum
  <2> QED BY <1>1, <1>3, <2>1, <2>2, <2>3 DEF u_bit_handle
<1>4. CASE u = 0
  <2>1. PICK x \in Int, j \in Int : x = base - s /\ j = -k
    OBVIOUS
  <2>2. n * j = -(n * k)
    BY <2>1
  <2>3. base + (2 * u - 1) * t = x + n * j
    BY <1>1, <1>2, <1>4, <2>1, <2>2
  <2>4. (x + n * j) % n = x % n
    BY <1>1, RemainderOfSum
  <2> QED BY <1>1, <1>4, <2>1, <2>3, <2>4 DEF u_bit_handle
<1> QED BY <1>3, <1>4 DEF Bit

\* A power that shift_imm selects divides the words.
LEMMA ShiftDivides ==
    ASSUME NEW n \in 0 .. MaxShift
    PROVE  \E d \in Nat, c \in Nat :
              d = 2^n /\ d >= 1 /\ c = WordSize \div d /\ WordSize = d * c /\ c >= 1
<1>1. n \in 0 .. 31 /\ WordSize % 2^n = 0
  BY ShiftAssumption
<1>2. PICK d \in Nat : d = 2^n /\ d >= 1
  BY <1>1, PowerOfTwo
<1>3. PICK ws \in Nat : ws = WordSize /\ ws >= 16
  BY Sizes
<1>4. PICK c \in Nat : c = ws \div d
  BY <1>2, NaturalQuotient
<1>5. ws = d * c + (ws % d)
  <2>1. ws \in Int /\ d >= 1
    BY <1>2
  <2>2. ws = d * (ws \div d) + (ws % d)
    BY <2>1, Remainder
  <2> QED BY <1>4, <2>2
<1>6. d * c \in Nat
  OBVIOUS
<1>7. ws = d * c
  BY <1>1, <1>2, <1>3, <1>5, <1>6
<1>8. c # 0
  BY <1>3, <1>7
<1> QED BY <1>2, <1>3, <1>4, <1>7, <1>8

\* ASR: the sign bits that enter are the quotient of the word with its sign.
LEMMA ArithmeticIsQuotient ==
    ASSUME NEW x \in Word, NEW n \in 0 .. MaxShift
    PROVE  \E k \in Int :
              /\ ShiftArithmetic(x, n) \in Int
              /\ Signed(WordSize, x) \div 2^n = ShiftArithmetic(x, n) + WordSize * k
<1>1. PICK d \in Nat, c \in Nat :
          d = 2^n /\ d >= 1 /\ c = WordSize \div d /\ WordSize = d * c /\ c >= 1
  BY ShiftDivides
<1>2. x \in Int /\ WordSize \in Nat
  BY Sizes DEF Word
<1>3. PICK q \in Int, r \in 0 .. d - 1 : q = x \div d /\ x = d * q + r
  BY <1>1, <1>2, Remainder
<1>4. CASE Negative(x)
  <2>1. PICK y \in Int, p \in Int : y = x - WordSize /\ p = q - c
    BY <1>2
  <2>2. y = d * p + r
    <3>1. d * p = d * q - d * c /\ d * q \in Int /\ d * c \in Int
      BY <2>1
    <3> QED BY <1>1, <1>2, <1>3, <2>1, <3>1
  <2>3. y \div d = p
    BY <1>1, <2>2, QuotientUnique
  <2>4. ShiftArithmetic(x, n) = q + (WordSize - c)
    BY <1>1, <1>3, <1>4 DEF ShiftArithmetic
  <2>5. Signed(WordSize, x) = y
    BY <1>4, <2>1 DEF Signed, Negative
  <2>6. PICK k \in Int, s \in Int :
            k = -1 /\ s = q + (WordSize - c) /\ p = s + WordSize * k
    BY <1>2, <2>1
  <2>7. ShiftArithmetic(x, n) = s /\ Signed(WordSize, x) \div 2^n = s + WordSize * k
    BY <1>1, <2>3, <2>4, <2>5, <2>6
  <2>8. ShiftArithmetic(x, n) \in Int
    BY <2>7
  <2> QED BY <2>7, <2>8
<1>5. CASE ~Negative(x)
  <2>1. Signed(WordSize, x) = x
    BY <1>5 DEF Signed, Negative
  <2>2. ShiftArithmetic(x, n) = q
    BY <1>1, <1>3, <1>5 DEF ShiftArithmetic
  <2>3. PICK k \in Int : k = 0 /\ q = q + WordSize * k
    BY <1>2
  <2>4. ShiftArithmetic(x, n) = q /\ Signed(WordSize, x) \div 2^n = q + WordSize * k
    BY <1>1, <1>3, <2>1, <2>2, <2>3
  <2>5. ShiftArithmetic(x, n) \in Int
    BY <2>4
  <2> QED BY <2>4, <2>5
<1> QED BY <1>4, <1>5

\* ROR: the rotated word is the quotient modulo AllOnes, and the only one.
LEMMA RotateIsQuotient ==
    ASSUME NEW x \in Word, NEW n \in 0 .. MaxShift
    PROVE  /\ Rotate(x, n) \in Word
           /\ Rotate(x, n) =
                CHOOSE y \in Word : \E k \in 0 .. 2^n - 1 : y * 2^n = x + k * AllOnes
<1>1. PICK d \in Nat, c \in Nat :
          d = 2^n /\ d >= 1 /\ c = WordSize \div d /\ WordSize = d * c /\ c >= 1
  BY ShiftDivides
<1>2. x \in Int /\ WordSize \in Nat /\ x >= 0 /\ x < d * c
  BY <1>1, Sizes DEF Word
<1>3. PICK q \in Int, r \in 0 .. d - 1 : q = x \div d /\ r = x % d /\ x = d * q + r
  BY <1>1, <1>2, Remainder
<1>4. PICK z \in Int : z = q + r * c
  OBVIOUS
<1>5. Rotate(x, n) = z
  BY <1>1, <1>3, <1>4 DEF Rotate
<1>6. q >= 0 /\ q <= c - 1
  <2>1. ~(q <= -1)
    <3>1. q <= -1 => d * q <= -d
      BY <1>1
    <3> QED BY <1>2, <1>3, <3>1
  <2>2. ~(q >= c)
    <3>1. q >= c => d * q >= d * c
      BY <1>1
    <3>2. d * q \in Int /\ d * c \in Int
      OBVIOUS
    <3> QED BY <1>2, <1>3, <3>1, <3>2
  <2> QED BY <2>1, <2>2
<1>7. z \in Word
  <2>1. PICK e \in Nat : d = r + 1 + e
    <3>1. d - r - 1 \in Nat /\ d = r + 1 + (d - r - 1)
      OBVIOUS
    <3> QED BY <3>1
  <2>2. d * c = r * c + c + e * c /\ e * c >= 0 /\ r * c >= 0 /\ r * c \in Int
        /\ e * c \in Int
    BY <2>1
  <2>3. 0 <= z /\ z < d * c
    BY <1>4, <1>6, <2>2
  <2> QED BY <1>1, <1>2, <2>3 DEF Word
<1>8. z * d = x + r * AllOnes
  <2>1. (q + r * c) * d = d * q + r * (d * c)
    OBVIOUS
  <2>2. r * AllOnes = r * (d * c) - r
    <3>1. r * (d * c - 1) = r * (d * c) - r
      OBVIOUS
    <3> QED BY <1>1, <3>1 DEF AllOnes
  <2>3. PICK s \in Int, t \in Int : s = d * q /\ t = r * (d * c)
    OBVIOUS
  <2>4. z * d = s + t /\ r * AllOnes = t - r /\ x = s + r
    BY <1>3, <1>4, <2>1, <2>2, <2>3
  <2>5. s + t = (s + r) + (t - r)
    OBVIOUS
  <2> QED BY <2>4, <2>5
<1>9. ASSUME NEW y \in Word, NEW k \in 0 .. d - 1, y * d = x + k * AllOnes
      PROVE  y = z
  <2>1. y \in Int
    BY Sizes DEF Word
  <2>2. PICK p \in Int : p = y - k * c
    BY <2>1
  <2>3. x = d * p + k
    <3>1. k * AllOnes = k * (d * c) - k
      <4>1. k * (d * c - 1) = k * (d * c) - k
        OBVIOUS
      <4> QED BY <1>1, <4>1 DEF AllOnes
    <3>2. d * p = y * d - k * (d * c)
      <4>1. d * (y - k * c) = y * d - k * (d * c)
        BY <2>1
      <4> QED BY <2>2, <4>1
    <3>3. y * d \in Int /\ k * (d * c) \in Int
      BY <2>1
    <3> QED BY <1>2, <1>9, <3>1, <3>2, <3>3
  <2>4. x % d = k
    BY <1>1, <1>2, <2>3, RemainderUnique
  <2>5. x \div d = p
    BY <1>1, <1>2, <2>3, QuotientUnique
  <2> QED BY <1>3, <1>4, <2>1, <2>2, <2>4, <2>5
<1>10. z = CHOOSE y \in Word : \E k \in 0 .. d - 1 : y * d = x + k * AllOnes
  BY <1>7, <1>8, <1>9
<1> QED BY <1>1, <1>5, <1>7, <1>10

\* The scaled offset of the register form is the one of the reference modulo
\* the word size.
LEMMA ScaledIsOffset ==
    ASSUME NEW e \in Entry, e.ins.form = "reg", Regular(e.ins)
    PROVE  /\ TrueOffset(e) \in Int
           /\ \E k \in Int :
                 TrueOffset(e) = Scaled(e.ins, Was(e, e.ins.rm)) + WordSize * k
<1>1. PICK ins : ins = e.ins /\ ins \in Instruction
  BY DEF Entry
<1>2. /\ ins.shift \in {"LSL", "LSR", "ASR", "ROR"} /\ ins.shift_imm \in 0 .. MaxShift
      /\ ins.rm \in Regs /\ ins.form = "reg"
  BY <1>1 DEF Instruction
<1>3. PICK n \in 0 .. MaxShift : n = ins.shift_imm
  BY <1>2
<1>4. PICK x \in Word : x = Was(e, ins.rm)
  <2>1. e.file \in FileSet /\ e.cpsr.mode \in Banks
    BY DEF Entry, Status, Banks
  <2> QED BY <1>2, <2>1, ReadRegisterType DEF Was
<1>5. PICK ws \in Nat : ws = WordSize /\ ws >= 16 /\ x \in Int /\ 0 <= x /\ x < ws
  BY Sizes DEF Word
<1>6. PICK d \in Nat : d = 2^n /\ d >= 1
  BY ShiftDivides
<1>7. SUFFICES /\ TrueOffset(e) \in Int
               /\ \E k \in Int : TrueOffset(e) = Scaled(ins, x) + ws * k
  BY <1>1, <1>4, <1>5
<1>8. CASE ins.shift = "LSL"
  <2>1. PICK y \in Int : y = x * d
    BY <1>5
  <2>2. TrueOffset(e) = y
    BY <1>1, <1>2, <1>3, <1>4, <1>6, <1>8, <2>1 DEF TrueOffset, TrueShift
  <2>3. Scaled(ins, x) = y % ws
    BY <1>3, <1>5, <1>6, <1>8, <2>1 DEF Scaled
  <2>4. PICK k \in Int, r \in Int : r = y % ws /\ y = r + ws * k
    <3>1. ws >= 1
      BY <1>5
    <3>2. /\ y % ws \in 0 .. ws - 1 /\ y \div ws \in Int
          /\ y = ws * (y \div ws) + (y % ws)
      BY <3>1, Remainder
    <3>3. y % ws \in Int
      BY <3>2
    <3>4. y = (y % ws) + ws * (y \div ws)
      BY <3>2, <3>3
    <3> QED BY <3>2, <3>3, <3>4
  <2> QED BY <2>2, <2>3, <2>4
<1>9. CASE ins.shift = "LSR"
  <2>1. PICK y \in Int : y = TrueOffset(e) /\ y = Scaled(ins, x)
    <3>1. CASE n = 0
      <4>1. x \div ws = 0
        <5>1. x = ws * 0 + x /\ x \in 0 .. ws - 1 /\ ws >= 1
          BY <1>5
        <5> QED BY <5>1, QuotientUnique
      <4>2. TrueOffset(e) = 0
        BY <1>1, <1>2, <1>3, <1>4, <1>5, <1>9, <3>1, <4>1 DEF TrueOffset, TrueShift
      <4>3. Scaled(ins, x) = 0
        BY <1>3, <1>9, <3>1 DEF Scaled
      <4> QED BY <4>2, <4>3
    <3>2. CASE n # 0
      <4>1. x \div d \in Int
        BY <1>5, <1>6, Remainder
      <4>2. TrueOffset(e) = x \div d
        BY <1>1, <1>2, <1>3, <1>4, <1>6, <1>9, <3>2 DEF TrueOffset, TrueShift
      <4>3. Scaled(ins, x) = x \div d
        BY <1>3, <1>6, <1>9, <3>2 DEF Scaled
      <4> QED BY <4>1, <4>2, <4>3
    <3> QED BY <3>1, <3>2
  <2>2. PICK k \in Int : k = 0 /\ y = y + ws * k
    OBVIOUS
  <2> QED BY <2>1, <2>2
<1>10. CASE ins.shift = "ASR"
  <2>1. CASE n = 0
    <3>1. TrueOffset(e) = Signed(ws, x) \div ws
      BY <1>1, <1>2, <1>3, <1>4, <1>5, <1>10, <2>1 DEF TrueOffset, TrueShift
    <3>2. Scaled(ins, x) = IF Negative(x) THEN ws - 1 ELSE 0
      BY <1>3, <1>5, <1>10, <2>1 DEF Scaled, AllOnes
    <3>3. CASE Negative(x)
      <4>1. PICK y \in Int, minus \in Int : y = x - ws /\ minus = -1
        BY <1>5
      <4>2. y = ws * minus + x /\ x \in 0 .. ws - 1 /\ ws >= 1
        BY <1>5, <4>1
      <4>3. y \div ws = minus
        BY <4>2, QuotientUnique
      <4>4. Signed(ws, x) = y
        BY <1>5, <3>3, <4>1 DEF Signed, Negative
      <4>5. minus = (ws - 1) + ws * minus
        BY <4>1
      <4> QED BY <3>1, <3>2, <3>3, <4>3, <4>4, <4>5
    <3>4. CASE ~Negative(x)
      <4>1. PICK zero \in Int : zero = 0 /\ zero = zero + ws * zero
        OBVIOUS
      <4>2. x = ws * zero + x /\ x \in 0 .. ws - 1 /\ ws >= 1
        BY <1>5, <4>1
      <4>3. x \div ws = zero
        BY <4>2, QuotientUnique
      <4>4. Signed(ws, x) = x
        BY <1>5, <3>4 DEF Signed, Negative
      <4>5. TrueOffset(e) = zero /\ Scaled(ins, x) = zero
        BY <3>1, <3>2, <3>4, <4>1, <4>3, <4>4
      <4> QED BY <4>1, <4>5
    <3> QED BY <3>3, <3>4
  <2>2. CASE n # 0
    <3>1. TrueOffset(e) = Signed(WordSize, x) \div 2^n
      BY <1>1, <1>2, <1>3, <1>4, <1>10, <2>2 DEF TrueOffset, TrueShift
    <3>2. Scaled(ins, x) = ShiftArithmetic(x, n)
      BY <1>3, <1>10, <2>2 DEF Scaled
    <3>3. PICK k \in Int :
              /\ ShiftArithmetic(x, n) \in Int
              /\ Signed(WordSize, x) \div 2^n = ShiftArithmetic(x, n) + WordSize * k
      BY ArithmeticIsQuotient
    <3>4. PICK y \in Int : y = ShiftArithmetic(x, n)
      BY <3>3
    <3>5. y + ws * k \in Int
      OBVIOUS
    <3> QED BY <1>5, <3>1, <3>2, <3>3, <3>4, <3>5
  <2> QED BY <2>1, <2>2
<1>11. CASE ins.shift = "ROR"
  <2>1. n # 0
    BY <1>1, <1>2, <1>3, <1>11 DEF Regular
  <2>2. TrueOffset(e) =
            CHOOSE y \in Word : \E k \in 0 .. 2^n - 1 : y * 2^n = x + k * AllOnes
    BY <1>1, <1>2, <1>3, <1>4, <1>11 DEF TrueOffset, TrueShift
  <2>3. Scaled(ins, x) = Rotate(x, n)
    BY <1>3, <1>11, <2>1 DEF Scaled
  <2>4. PICK y \in Int : y = TrueOffset(e) /\ y = Scaled(ins, x)
    <3>1. Rotate(x, n) \in Word /\ Rotate(x, n) = TrueOffset(e)
      BY <2>2, RotateIsQuotient
    <3>2. Rotate(x, n) \in Int
      BY <3>1, Sizes DEF Word
    <3> QED BY <2>3, <3>1, <3>2
  <2>5. PICK k \in Int : k = 0 /\ y = y + ws * k
    OBVIOUS
  <2> QED BY <2>4, <2>5
<1> QED BY <1>2, <1>8, <1>9, <1>10, <1>11

\* Two registers of a mode are two cells.
LEMMA WritesCommute ==
    ASSUME NEW f \in FileSet, NEW mode \in Banks, NEW r \in Regs, NEW s \in Regs,
           r # s, NEW v, NEW w
    PROVE  /\ WriteRegister(WriteRegister(f, mode, r, v), mode, s, w)
                 = WriteRegister(WriteRegister(f, mode, s, w), mode, r, v)
           /\ ReadRegister(WriteRegister(f, mode, r, v), mode, s)
                 = ReadRegister(f, mode, s)
<1>1. /\ Cell(r, mode) \in FileCells /\ Cell(s, mode) \in FileCells
      /\ Cell(r, mode) # Cell(s, mode)
  BY CellInFile
<1>2. PICK a \in FileCells, b \in FileCells :
          a = Cell(r, mode) /\ b = Cell(s, mode) /\ a # b
  BY <1>1
<1>3. [[f EXCEPT ![a] = v] EXCEPT ![b] = w] = [[f EXCEPT ![b] = w] EXCEPT ![a] = v]
  BY <1>2 DEF FileSet
<1>4. [f EXCEPT ![a] = v][b] = f[b]
  BY <1>2 DEF FileSet
<1> QED BY <1>2, <1>3, <1>4 DEF WriteRegister, ReadRegister

\* the machine that an instruction of the history has found
Finds(e, m) ==
    /\ e \in Entry /\ m = [file |-> e.file, memory |-> e.memory, fault |-> "none",
                           result |-> 0]
    /\ e.cpsr = cpsr /\ cpsr \in Status

\* LDR, LDRB, STR and STRB with the offset of the reference
LEMMA TransferIsTrue ==
    ASSUME NEW e, NEW m, Finds(e, m), e.ins.form \in {"imm", "reg"}, Regular(e.ins),
           NEW offset \in Int,
           u_bit_handle(e.ins.u, Was(e, e.ins.rn), offset) = TrueBase(e),
           NEW t, t = Transfer(m, e.ins, Was(e, e.ins.rn), offset),
           t.result = 0, t.fault = "none"
    PROVE  t.file = TrueFile(e) /\ t.memory = TrueMemory(e)
<1>1. PICK ins : ins = e.ins /\ ins \in Instruction
  BY DEF Finds, Entry
<1>2. /\ ins.rn \in Regs /\ ins.rd \in Regs /\ ins.rn # ins.rd
      /\ ins.l \in {0, 1} /\ ins.p \in {0, 1} /\ ins.w \in {0, 1} /\ ins.b \in {0, 1}
  BY <1>1 DEF Instruction, Regular, Bit
<1>3. PICK f \in FileSet, mode \in Banks :
          f = e.file /\ mode = cpsr.mode /\ mode = e.cpsr.mode
  BY DEF Finds, Entry, Status, Banks
<1>4. PICK moved, base, a, width :
          /\ moved = TrueBase(e) /\ base = Was(e, ins.rn) /\ a = TrueAddress(e)
          /\ a = (IF ins.p = 1 THEN moved ELSE base)
          /\ width = TrueWidth(ins) /\ width = (IF ins.b = 1 THEN 1 ELSE 4)
  BY <1>1 DEF TrueAddress, TrueWidth
<1>5. PICK done : done = b_bit_handle(m, ins, a)
  OBVIOUS
<1>6. t = IF ins.p = 0 /\ ins.w = 1 THEN Undefined(m)
          ELSE IF ~Goes(done) \/ (ins.p = 1 /\ ins.w = 0) THEN done
          ELSE WriteBack(done, ins.rn, moved)
  BY <1>1, <1>4, <1>5 DEF Transfer
<1>7. m = [file |-> f, memory |-> e.memory, fault |-> "none", result |-> 0]
  BY <1>3 DEF Finds
<1>8. ~(ins.p = 0 /\ ins.w = 1)
  <2>1. Undefined(m).result # 0
    BY <1>7 DEF Undefined, UNDEFINED_INSTRUCTION
  <2> QED BY <1>6, <2>1
<1>9. CASE ins.l = 0
  <2>1. done = Store(m, width, a, ins.rd)
    BY <1>4, <1>5, <1>9 DEF b_bit_handle
  <2>2. PICK bytes : bytes = WrittenAt(e.memory, width, a, Was(e, ins.rd))
    OBVIOUS
  <2>3. \/ done = [m EXCEPT !.result = ACCESS_FAILED]
        \/ done = [m EXCEPT !.fault = "overrun"]
        \/ done = [m EXCEPT !.memory = bytes]
    <3>1. m.memory = e.memory /\ m.file = f
      BY <1>7
    <3>2. ReadRegister(m.file, cpsr.mode, ins.rd) = Was(e, ins.rd)
      BY <1>3, <3>1 DEF Was
    <3>3. WrittenAt(m.memory, width, a, ReadRegister(m.file, cpsr.mode, ins.rd)) = bytes
      BY <2>2, <3>1, <3>2
    <3> QED BY <2>1, <3>3 DEF Store
  <2>4. Goes(done)
    BY <1>6, <1>8, <1>7, <2>3 DEF Goes, WriteBack
  <2>5. done = [file |-> f, memory |-> bytes, fault |-> "none", result |-> 0]
    BY <1>7, <2>3, <2>4 DEF Goes, ACCESS_FAILED
  <2>6. ~IsLoad(ins)
    BY <1>1, <1>9 DEF IsLoad
  <2>7. TrueMemory(e) = bytes
    BY <1>1, <1>4, <2>2, <2>6 DEF TrueMemory
  <2>8. TrueFile(e) = IF ins.p = 1 /\ ins.w = 0 THEN f
                      ELSE WriteRegister(f, mode, ins.rn, moved)
    BY <1>1, <1>3, <1>4, <2>6 DEF TrueFile
  <2>9. CASE ins.p = 1 /\ ins.w = 0
    BY <1>6, <1>8, <2>5, <2>7, <2>8, <2>9
  <2>10. CASE ~(ins.p = 1 /\ ins.w = 0)
    <3>1. t = WriteBack(done, ins.rn, moved)
      BY <1>6, <1>8, <2>4, <2>10
    <3> QED BY <1>3, <2>5, <2>7, <2>8, <2>10, <3>1 DEF WriteBack
  <2> QED BY <2>9, <2>10
<1>10. CASE ins.l = 1
  <2>1. PICK value : value = ReadAt(e.memory, width, a)
    OBVIOUS
  <2>2. \/ done = [m EXCEPT !.result = ACCESS_FAILED]
        \/ done = [m EXCEPT !.fault = "overrun"]
        \/ done = [m EXCEPT !.file = WriteRegister(@, cpsr.mode, ins.rd, value),
                            !.result = 0]
    <3>1. CASE OutOfBounds(a)
      BY <1>4, <1>5, <1>10, <3>1 DEF b_bit_handle
    <3>2. CASE ~OutOfBounds(a)
      <4>1. done = Load(m, width, a, 0, ins.rd, "value")
        BY <1>4, <1>5, <1>10, <3>2 DEF b_bit_handle
      <4>2. Converted("value", width, value) = value
        BY DEF Converted
      <4>3. m.memory = e.memory
        BY <1>7
      <4> QED BY <2>1, <3>2, <4>1, <4>2, <4>3 DEF Load
    <3> QED BY <3>1, <3>2
  <2>3. Goes(done)
    BY <1>6, <1>8, <1>7, <2>2 DEF Goes, WriteBack
  <2>4. done = [file |-> WriteRegister(f, mode, ins.rd, value), memory |-> e.memory,
                fault |-> "none", result |-> 0]
    <3>1. /\ [m EXCEPT !.result = ACCESS_FAILED].result # 0
          /\ [m EXCEPT !.fault = "overrun"].fault # "none"
      BY <1>7 DEF ACCESS_FAILED
    <3>2. done = [m EXCEPT !.file = WriteRegister(@, cpsr.mode, ins.rd, value),
                           !.result = 0]
      BY <2>2, <2>3, <3>1 DEF Goes
    <3>3. PICK g : g = WriteRegister(f, mode, ins.rd, value)
      OBVIOUS
    <3>4. m \in [file : {f}, memory : {e.memory}, fault : {"none"}, result : {0}]
      BY <1>7
    <3>5. done = [m EXCEPT !.file = g, !.result = 0]
      BY <1>3, <3>2, <3>3, <3>4
    <3>6. done \in [file : {g}, memory : {e.memory}, fault : {"none"}, result : {0}]
      BY <3>4, <3>5
    <3> QED BY <3>3, <3>6
  <2>5. IsLoad(ins) /\ TrueValue(e) = value
    BY <1>1, <1>4, <1>10, <2>1 DEF IsLoad, TrueValue
  <2>6. TrueMemory(e) = e.memory
    BY <1>1, <2>5 DEF TrueMemory
  <2>7. CASE ins.p = 1 /\ ins.w = 0
    <3>1. TrueFile(e) = WriteRegister(f, mode, ins.rd, value)
      BY <1>1, <1>3, <2>5, <2>7 DEF TrueFile
    <3> QED BY <1>6, <1>8, <2>4, <2>6, <2>7, <3>1
  <2>8. CASE ~(ins.p = 1 /\ ins.w = 0)
    <3>1. t = WriteBack(done, ins.rn, moved)
      BY <1>6, <1>8, <2>3, <2>8
    <3>2. TrueFile(e) =
              WriteRegister(WriteRegister(f, mode, ins.rn, moved), mode, ins.rd, value)
      BY <1>1, <1>3, <1>4, <2>5, <2>8 DEF TrueFile
    <3>3. TrueFile(e) =
              WriteRegister(WriteRegister(f, mode, ins.rd, value), mode, ins.rn, moved)
      BY <1>2, <3>2, WritesCommute
    <3> QED BY <1>3, <2>4, <2>6, <3>1, <3>3 DEF WriteBack
  <2> QED BY <2>7, <2>8
<1> QED BY <1>2, <1>9, <1>10

\* The sign of a byte or of a half word is extended as the integers have it.
LEMMA SignIsExtended ==
    ASSUME NEW size \in {ByteSize, HalfSize}, NEW value \in 0 .. size - 1
    PROVE  SignExtend(size, value) = Signed(size, value) % WordSize
<1>1. PICK ws \in Nat : ws = WordSize /\ ws >= 1 /\ size <= ws /\ size \in Nat
  BY Sizes
<1>2. CASE 2 * value >= size
  <2>1. PICK y \in Int, r \in Int, minus \in Int :
            y = value - size /\ r = ws - size + value /\ minus = -1
    BY <1>1
  <2>2. y = ws * minus + r /\ r \in 0 .. ws - 1
    BY <1>1, <1>2, <2>1
  <2>3. y % ws = r
    BY <1>1, <2>2, RemainderUnique
  <2> QED BY <1>1, <1>2, <2>1, <2>3 DEF SignExtend, Signed
<1>3. CASE ~(2 * value >= size)
  <2>1. PICK zero \in Int : zero = 0
    OBVIOUS
  <2>2. value = ws * zero + value /\ value \in 0 .. ws - 1 /\ value \in Int
    BY <1>1, <2>1
  <2>3. value % ws = value
    BY <1>1, <2>2, RemainderUnique
  <2> QED BY <1>1, <1>3, <2>3 DEF SignExtend, Signed
<1> QED BY <1>2, <1>3

LEMMA EntryReads ==
    ASSUME NEW e \in Entry, NEW reg \in Regs
    PROVE  Was(e, reg) \in Word /\ Was(e, reg) \in Int
BY ReadRegisterType, Sizes DEF Entry, Status, Banks, Was, Word

\* the base that the reference computes, when the offset is not scaled
LEMMA PlainBase ==
    ASSUME NEW e \in Entry, e.ins.u \in Bit, e.ins.rn \in Regs, TrueOffset(e) \in Int
    PROVE  u_bit_handle(e.ins.u, Was(e, e.ins.rn), TrueOffset(e)) = TrueBase(e)
<1>1. PICK u \in Bit, base \in Int, s \in Int, k \in Int :
          u = e.ins.u /\ base = Was(e, e.ins.rn) /\ s = TrueOffset(e) /\ k = 0
  BY EntryReads
<1>2. s = s + WordSize * k
  BY <1>1, Sizes
<1>3. u_bit_handle(u, base, s) = (base + (2 * u - 1) * s) % WordSize
  BY <1>2, SameBase
<1> QED BY <1>1, <1>3 DEF TrueBase

\* half words and signed bytes
LEMMA MiscellaneousIsTrue ==
    ASSUME NEW e, NEW m, Finds(e, m), e.ins.form = "misc", Regular(e.ins),
           NEW t, t = arm_load_store_miscellaneous(m, e.ins),
           t.result = 0, t.fault = "none"
    PROVE  t.file = TrueFile(e) /\ t.memory = TrueMemory(e)
<1>1. PICK ins : ins = e.ins /\ ins \in Instruction /\ e \in Entry
  BY DEF Finds, Entry
<1>2. /\ ins.rn \in Regs /\ ins.rd \in Regs /\ ins.rm \in Regs /\ ins.rn # ins.rd
      /\ ins.lsh \in {1, 5, 6, 7} /\ ins.u \in Bit /\ ins.form = "misc"
      /\ ins.offset \in Word
  BY <1>1 DEF Instruction, Regular
<1>3. PICK f \in FileSet, mode \in Banks :
          f = e.file /\ mode = cpsr.mode /\ mode = e.cpsr.mode
  BY DEF Finds, Entry, Status, Banks
<1>4. /\ m \in [file : {f}, memory : {e.memory}, fault : {"none"}, result : {0}]
      /\ e.memory \in Bytes
  BY <1>3 DEF Finds, Entry
<1>5. PICK moved \in Word, base \in Word :
          /\ moved = TrueBase(e) /\ base = Was(e, ins.rn)
          /\ moved = u_bit_handle(ins.u, base, MiscOffset(ins, f))
  <2>1. MiscOffset(ins, f) = TrueOffset(e)
    BY <1>1, <1>2, <1>3 DEF MiscOffset, TrueOffset, Was
  <2>2. TrueOffset(e) \in Int
    BY <1>1, <1>2, <2>1, EntryReads, Sizes DEF TrueOffset, Word
  <2>3. Was(e, ins.rn) \in Word
    BY <1>1, <1>2, EntryReads
  <2>4. u_bit_handle(ins.u, Was(e, ins.rn), TrueOffset(e)) = TrueBase(e)
    BY <1>1, <1>2, <2>2, PlainBase
  <2> QED BY <2>1, <2>2, <2>3, <2>4, MovedType
<1>6. PICK a \in Word, width \in {1, 2} :
          /\ a = TrueAddress(e) /\ a = (IF ins.p = 1 THEN moved ELSE base)
          /\ width = TrueWidth(ins) /\ width = (IF ins.lsh = 6 THEN 1 ELSE 2)
  BY <1>1, <1>2, <1>5 DEF TrueAddress, TrueWidth
<1>7. PICK g \in FileSet :
          /\ g = (IF ins.p = 1 /\ ins.w = 0 THEN f
                  ELSE WriteRegister(f, mode, ins.rn, moved))
          /\ ReadRegister(g, mode, ins.rd) = Was(e, ins.rd)
  <2>1. WriteRegister(f, mode, ins.rn, moved) \in FileSet
    BY <1>2, WriteRegisterType
  <2>2. ReadRegister(WriteRegister(f, mode, ins.rn, moved), mode, ins.rd)
            = ReadRegister(f, mode, ins.rd)
    BY <1>2, WritesCommute
  <2> QED BY <1>3, <2>1, <2>2 DEF Was
<1>8. PICK updated :
          /\ updated = (IF ins.p = 1 /\ ins.w = 0 THEN m ELSE WriteBack(m, ins.rn, moved))
          /\ updated \in [file : {g}, memory : {e.memory}, fault : {"none"}, result : {0}]
  <2>1. WriteBack(m, ins.rn, moved) =
            [m EXCEPT !.file = WriteRegister(f, mode, ins.rn, moved)]
    BY <1>3, <1>4 DEF WriteBack
  <2>2. CASE ins.p = 1 /\ ins.w = 0
    BY <1>4, <1>7, <2>2
  <2>3. CASE ~(ins.p = 1 /\ ins.w = 0)
    <3>1. [m EXCEPT !.file = g] \in
              [file : {g}, memory : {e.memory}, fault : {"none"}, result : {0}]
      BY <1>4
    <3> QED BY <1>7, <2>1, <2>3, <3>1
  <2> QED BY <2>2, <2>3
<1>9. t = Selected(updated, ins, a)
  <2>1. ReadRegister(m.file, cpsr.mode, ins.rn) = base /\ m.file = f
    BY <1>3, <1>4, <1>5 DEF Was
  <2>2. t = IF ins.p = 0 /\ ins.w = 1 THEN Undefined(m) ELSE Selected(updated, ins, a)
    BY <1>1, <1>5, <1>6, <1>8, <2>1 DEF arm_load_store_miscellaneous
  <2>3. Undefined(m).result # 0
    BY <1>4 DEF Undefined, UNDEFINED_INSTRUCTION
  <2> QED BY <2>2, <2>3
<1>10. CASE ins.lsh = 1
  <2>1. t = Store(updated, 2, a, ins.rd) /\ width = 2
    BY <1>6, <1>9, <1>10 DEF Selected
  <2>2. PICK bytes : bytes = WrittenAt(e.memory, width, a, Was(e, ins.rd))
    OBVIOUS
  <2>3. \/ t = [updated EXCEPT !.result = ACCESS_FAILED]
        \/ t = [updated EXCEPT !.fault = "overrun"]
        \/ t = [updated EXCEPT !.memory = bytes]
    <3>1. updated.memory = e.memory /\ updated.file = g
      BY <1>8
    <3>2. WrittenAt(updated.memory, 2, a, ReadRegister(updated.file, cpsr.mode, ins.rd))
              = bytes
      BY <1>3, <1>7, <2>1, <2>2, <3>1
    <3> QED BY <2>1, <3>2 DEF Store
  <2>4. t.file = g /\ t.memory = bytes
    BY <1>8, <2>3 DEF ACCESS_FAILED
  <2>5. ~IsLoad(ins)
    BY <1>2, <1>10 DEF IsLoad
  <2>6. TrueMemory(e) = bytes
    BY <1>1, <1>6, <2>2, <2>5 DEF TrueMemory
  <2>7. TrueFile(e) = g
    BY <1>1, <1>3, <1>5, <1>7, <2>5 DEF TrueFile
  <2> QED BY <2>4, <2>6, <2>7
<1>11. CASE ins.lsh \in {5, 6, 7}
  <2>1. PICK kind : /\ kind = (IF ins.lsh = 5 THEN "value" ELSE "signed")
                    /\ t = Load(updated, width, a, 0, ins.rd, kind)
    <3>1. CASE ins.lsh = 5
      BY <1>6, <1>9, <3>1 DEF Selected
    <3>2. CASE ins.lsh = 6
      BY <1>6, <1>9, <3>2 DEF Selected
    <3>3. CASE ins.lsh = 7
      BY <1>6, <1>9, <3>3 DEF Selected
    <3> QED BY <1>11, <3>1, <3>2, <3>3
  <2>2. ~Overrun(width, a) /\ ~OutOfBounds(a)
    <3>1. CASE Overrun(width, a)
      <4>1. t = [updated EXCEPT !.fault = "overrun"]
        BY <2>1, <3>1 DEF Load
      <4> QED BY <1>8, <4>1
    <3>2. CASE ~Overrun(width, a) /\ OutOfBounds(a)
      <4>1. PICK h : t = [updated EXCEPT !.file = h, !.result = ACCESS_FAILED]
        BY <2>1, <3>2 DEF Load
      <4>2. t.result = ACCESS_FAILED
        BY <1>8, <4>1
      <4> QED BY <4>2 DEF ACCESS_FAILED
    <3> QED BY <3>1, <3>2
  <2>3. PICK value \in Word :
            /\ value = ReadAt(e.memory, width, a) /\ value = ReadAt(updated.memory, width, a)
            /\ width = 1 => value \in 0 .. ByteSize - 1
            /\ width = 2 => value \in 0 .. HalfSize - 1
    <3>1. updated.memory = e.memory
      BY <1>8
    <3>2. /\ ReadAt(e.memory, width, a) \in Word
          /\ width = 1 => ReadAt(e.memory, width, a) \in 0 .. ByteSize - 1
          /\ width = 2 => ReadAt(e.memory, width, a) \in 0 .. HalfSize - 1
      BY <1>4, <2>2, ReadAtType
    <3> QED BY <3>1, <3>2
  <2>4. PICK register : register = Converted(kind, width, value) /\ register = TrueValue(e)
    <3>1. PICK size \in {ByteSize, HalfSize} :
              size = (IF width = 1 THEN ByteSize ELSE HalfSize) /\ value \in 0 .. size - 1
      BY <2>3
    <3>2. CASE ins.lsh = 5
      <4>1. Converted(kind, width, value) = value
        BY <2>1, <3>2 DEF Converted
      <4>2. TrueValue(e) = value
        BY <1>1, <1>6, <2>3, <3>2 DEF TrueValue
      <4> QED BY <4>1, <4>2
    <3>3. CASE ins.lsh \in {6, 7}
      <4>1. Converted(kind, width, value) = SignExtend(size, value)
        BY <2>1, <3>1, <3>3 DEF Converted
      <4>2. TrueValue(e) = Signed(size, value) % WordSize
        BY <1>1, <1>2, <1>6, <2>3, <3>1, <3>3 DEF TrueValue
      <4> QED BY <3>1, <4>1, <4>2, SignIsExtended
    <3> QED BY <1>11, <3>2, <3>3
  <2>5. PICK h : /\ h = WriteRegister(g, mode, ins.rd, register)
                 /\ t = [updated EXCEPT !.file = h, !.result = 0]
    <3>1. t = [updated EXCEPT !.file = WriteRegister(@, cpsr.mode, ins.rd, register),
                              !.result = 0]
      BY <2>1, <2>2, <2>3, <2>4 DEF Load
    <3> QED BY <1>3, <1>8, <3>1
  <2>6. t.file = h /\ t.memory = e.memory
    BY <1>8, <2>5
  <2>7. IsLoad(ins)
    BY <1>2, <1>11 DEF IsLoad
  <2>8. TrueMemory(e) = e.memory
    BY <1>1, <2>7 DEF TrueMemory
  <2>9. TrueFile(e) = h
    BY <1>1, <1>3, <1>5, <1>7, <2>4, <2>5, <2>7 DEF TrueFile
  <2> QED BY <2>6, <2>8, <2>9
<1> QED BY <1>2, <1>10, <1>11

LEMMA SingleIsTrue ==
    ASSUME NEW e, NEW m, Finds(e, m), e.ins.form \in {"imm", "reg", "misc"},
           Regular(e.ins), NEW t, t = Single(m, e.ins), t.result = 0, t.fault = "none"
    PROVE  t.file = TrueFile(e) /\ t.memory = TrueMemory(e)
<1>1. PICK ins : ins = e.ins /\ ins \in Instruction /\ e \in Entry
  BY DEF Finds, Entry
<1>2. /\ ins.form \in {"imm", "reg", "misc"} /\ ins.rn \in Regs /\ ins.u \in Bit
  BY <1>1 DEF Instruction
<1>3. ASSUME NEW reg \in Regs
      PROVE  ReadRegister(m.file, cpsr.mode, reg) = Was(e, reg)
  BY DEF Finds, Was
<1>4. CASE ins.form = "imm"
  <2>1. ins.offset \in Int /\ TrueOffset(e) = ins.offset
    BY <1>1, <1>4, Sizes DEF Instruction, TrueOffset, Word
  <2>2. u_bit_handle(ins.u, Was(e, ins.rn), ins.offset) = TrueBase(e)
    BY <1>1, <1>2, <2>1, PlainBase
  <2>3. t = Transfer(m, ins, Was(e, ins.rn), ins.offset)
    BY <1>1, <1>2, <1>3, <1>4 DEF Single, arm_load_store_immediate_offset
  <2> QED BY <1>1, <1>4, <2>1, <2>2, <2>3, TransferIsTrue
<1>5. CASE ins.form = "reg"
  <2>1. /\ ins.rm \in Regs /\ ins.shift \in {"LSL", "LSR", "ASR", "ROR"}
        /\ ins.shift_imm \in 0 .. MaxShift
    BY <1>1, <1>5 DEF Instruction
  <2>2. PICK s \in Int : s = Scaled(ins, Was(e, ins.rm))
    BY <1>1, <2>1, EntryReads, ScaledType DEF Finds
  <2>3. PICK k \in Int, y \in Int : y = TrueOffset(e) /\ y = s + WordSize * k
    BY <1>1, <1>5, <2>2, ScaledIsOffset
  <2>4. PICK u \in Bit, base \in Int : u = ins.u /\ base = Was(e, ins.rn)
    BY <1>1, <1>2, EntryReads
  <2>5. u_bit_handle(u, base, s) = (base + (2 * u - 1) * y) % WordSize
    BY <2>3, SameBase
  <2>6. u_bit_handle(ins.u, Was(e, ins.rn), s) = TrueBase(e)
    BY <1>1, <2>3, <2>4, <2>5 DEF TrueBase
  <2>7. t = Transfer(m, ins, Was(e, ins.rn), s)
    BY <1>1, <1>2, <1>3, <1>5, <2>1, <2>2 DEF Single, arm_load_store_register_offset
  <2> QED BY <1>1, <1>5, <2>6, <2>7, TransferIsTrue
<1>6. CASE ins.form = "misc"
  <2>1. t = arm_load_store_miscellaneous(m, ins)
    BY <1>1, <1>6 DEF Single
  <2> QED BY <1>1, <1>6, <2>1, MiscellaneousIsTrue
<1> QED BY <1>2, <1>4, <1>5, <1>6

-----------------------------------------------------------------------------
(* The steps *)

LEMMA SingleStep ==
    ASSUME LSInv, ExecuteSingle
    PROVE  LSInv' /\ OnlyBank(file', file, cpsr.mode)
<1> DEFINE ins == Head(todo)
           m == Single(Machine(FetchFile), ins)
<1>1. /\ fault = "none" /\ ~run.active /\ todo # <<>> /\ ins.form # "multiple"
      /\ file' = m.file /\ memory' = m.memory /\ fault' = m.fault
      /\ result' = m.result /\ Remember(ins)
      /\ todo' = Tail(todo) /\ UNCHANGED <<cpsr, run>>
  BY DEF ExecuteSingle, Ready
<1>2. ins \in Instruction /\ todo' \in Seq(Instruction)
  BY <1>1, NextInstruction DEF LSInv
<1>3. Goes(Machine(FetchFile))
  BY DEF Goes, Machine
<1>4. /\ Fine(m)
      /\ ins.form \in {"imm", "reg"} /\ m.result # 0 =>
            m.file = FetchFile /\ m.memory = memory
  BY <1>1, <1>2, <1>3, FetchFileFine, SingleFine DEF LSInv, Machine
<1> HIDE DEF m, ins
<1>5. /\ history' \in Seq(Entry) /\ history' # <<>>
      /\ Last' = [ins |-> ins, file |-> FetchFile, cpsr |-> cpsr,
                  memory |-> memory]
  BY <1>1, <1>2, RememberLast DEF LSInv
<1>6. file' \in FileSet /\ OnlyBank(file', file, cpsr.mode)
  BY <1>1, <1>4 DEF Fine, MachineSet
<1>7. TypeOK'
  BY <1>1, <1>4, <1>6 DEF LSInv, Types, TypeOK, Fine, MachineSet, FileSet, Bytes
<1>8. AbortIsPrecise'
  BY <1>1, <1>4, <1>5 DEF AbortIsPrecise, Executed
<1>9. Walking' /\ BlockAddress'
  BY <1>1 DEF Walking, BlockAddress
<1> QED BY <1>2, <1>5, <1>6, <1>7, <1>8, <1>9 DEF LSInv, Types

\* The registers of a list are finitely many, and a list that is not empty has
\* a lowest one.
LEMMA ListFinite ==
    ASSUME NEW list \in SUBSET Regs
    PROVE  IsFiniteSet(list) /\ Cardinality(list) \in Nat
<1>1. list \subseteq 0 .. 15
  BY RegsAssumption
<1>2. IsFiniteSet(0 .. 15)
  <2>1. 0 \in Int /\ 15 \in Int
    OBVIOUS
  <2> QED BY <2>1, FS_Interval, Zenon
<1> QED BY <1>1, <1>2, FS_Subset, FS_CardinalityType

LEMMA LowestInList ==
    ASSUME NEW list \in SUBSET Regs, list # {}
    PROVE  Lowest(list) \in list /\ \A j \in list : Lowest(list) <= j
<1>1. list \subseteq Nat
  BY RegsAssumption
<1>2. \E x \in list : \A y \in list : ~(<<y, x>> \in OpToRel(<, Nat))
  BY <1>1, NatLessThanWellFounded, WFMin
<1>3. \A a, b \in Nat : a < b => <<a, b>> \in OpToRel(<, Nat)
  BY DEF OpToRel
<1>4. PICK less : /\ \E x \in list : \A y \in list : ~(<<y, x>> \in less)
                  /\ \A a, b \in Nat : a < b => <<a, b>> \in less
  BY <1>2, <1>3, Zenon
<1>5. PICK x \in list : \A y \in list : ~(<<y, x>> \in less)
  BY <1>4
<1>6. ASSUME NEW y \in list
      PROVE  x <= y
  <2>1. x \in Nat /\ y \in Nat
    BY <1>1
  <2>2. ~(y < x)
    BY <1>4, <1>5, <2>1, Zenon
  <2> QED BY <2>1, <2>2
<1> QED BY <1>6 DEF Lowest

\* The addresses that arm_load_store_multiple computes before its loop.
LEMMA BlockBegins ==
    ASSUME NEW ins, ins.p \in Bit, ins.u \in Bit, NEW base \in Word, NEW n \in Nat
    PROVE  /\ FirstAddress(ins, base, n) \in Word
           /\ LastAddress(ins, base, n) \in Word
           /\ BlockEnd(ins.u, base, n) \in Word
           /\ FirstAddress(ins, base, n) =
                 (LastAddress(ins, base, n) + 4 - 4 * n) % WordSize
<1> DEFINE first == IF ins.u = 1 THEN base + 4 * ins.p
                    ELSE base - 4 * n + 4 * (1 - ins.p)
           last == IF ins.u = 1 THEN base + 4 * n - 4 * (1 - ins.p)
                   ELSE base - 4 * ins.p
           after == IF ins.u = 1 THEN base + 4 * n ELSE base - 4 * n
<1>1. ins.p \in 0 .. 1 /\ ins.u \in 0 .. 1 /\ base \in Int
  BY DEF Bit, Word
<1>2. /\ first \in Int /\ last \in Int /\ after \in Int
      /\ first = last + (4 - 4 * n)
  BY <1>1
<1>3. /\ FirstAddress(ins, base, n) = first % WordSize
      /\ LastAddress(ins, base, n) = last % WordSize
      /\ BlockEnd(ins.u, base, n) = after % WordSize
  BY DEF FirstAddress, LastAddress, BlockEnd
<1> HIDE DEF first, last, after
<1>4. PICK y \in Int : y = 4 - 4 * n
  OBVIOUS
<1>5. ((last % WordSize) + y) % WordSize = (last + y) % WordSize
  BY <1>2, WordAdd
<1>6. last % WordSize \in Int
  BY <1>2, WordRemainder DEF Word
<1>7. (last % WordSize) + y = (last % WordSize) + 4 - 4 * n
  BY <1>4, <1>6
<1> QED BY <1>2, <1>3, <1>4, <1>5, <1>7, WordRemainder

LEMMA StartStep ==
    ASSUME LSInv, StartMultiple
    PROVE  LSInv' /\ OnlyBank(file', file, cpsr.mode)
<1> DEFINE ins == Head(todo)
           base == ReadRegister(FetchFile, cpsr.mode, ins.rn)
           n == Cardinality(ins.list)
<1>1. /\ todo # <<>> /\ ins.form = "multiple" /\ file' = FetchFile
      /\ Remember(ins) /\ UNCHANGED <<cpsr, memory, fault, result, todo>>
  BY DEF StartMultiple, Ready
<1>2. PICK data \in Garbage : run' = Locals(ins, FetchFile, data)
  BY DEF StartMultiple
<1>3. /\ ins \in Instruction /\ ins.rn \in Regs /\ ins.list \in SUBSET Regs
      /\ ins.p \in Bit /\ ins.u \in Bit
  <2>1. ins \in Instruction
    BY <1>1, NextInstruction DEF LSInv
  <2> QED BY <1>1, <2>1 DEF Instruction
<1>4. base \in Word /\ n \in Nat /\ data \in Word
  BY <1>3, FetchFileFine, FineRead, ListFinite, StartAssumption
     DEF LSInv, Machine
<1>5. run' = [left |-> ins.list, address |-> FirstAddress(ins, base, n),
              end_address |-> LastAddress(ins, base, n),
              W_adress |-> BlockEnd(ins.u, base, n),
              data |-> data, active |-> TRUE]
  BY <1>2 DEF Locals
<1> HIDE DEF base, n, ins
<1>6. /\ run'.active /\ run'.left = ins.list
      /\ run'.address = FirstAddress(ins, base, n)
      /\ run'.end_address = LastAddress(ins, base, n)
      /\ run' \in [left : SUBSET Regs, address : Word, end_address : Word,
                   W_adress : Word, data : Word, active : BOOLEAN]
  BY <1>3, <1>4, <1>5, BlockBegins
<1>7. /\ history' \in Seq(Entry) /\ history' # <<>>
      /\ Last' = [ins |-> ins, file |-> FetchFile, cpsr |-> cpsr,
                  memory |-> memory]
  BY <1>1, <1>3, RememberLast DEF LSInv
<1>8. file' \in FileSet /\ OnlyBank(file', file, cpsr.mode)
  BY <1>1, FetchFileFine DEF LSInv, Machine, Fine
<1>9. TypeOK'
  BY <1>1, <1>6, <1>8 DEF LSInv, Types, TypeOK, FileSet
<1>10. BlockAddress'
  BY <1>3, <1>4, <1>6, BlockBegins DEF BlockAddress, n
<1>11. Walking' /\ AbortIsPrecise'
  BY <1>1, <1>6, <1>7 DEF Walking, AbortIsPrecise, Executed, ins
<1> QED BY <1>1, <1>7, <1>8, <1>9, <1>10, <1>11 DEF LSInv, Types

LEMMA MoveStep ==
    ASSUME LSInv, MoveOne
    PROVE  LSInv' /\ OnlyBank(file', file, cpsr.mode)
<1> DEFINE ins == Head(todo)
           i == Lowest(run.left)
           m == Move(Machine(file), ins, i)
<1>1. /\ fault = "none" /\ run.active /\ run.left # {}
      /\ file' = m.file /\ memory' = m.memory /\ fault' = m.fault
      /\ run' = [run EXCEPT !.left = @ \ {i}, !.address = (@ + 4) % WordSize,
                            !.data = DataAfter(m, ins, i)]
      /\ UNCHANGED <<cpsr, result, todo, history>>
  BY DEF MoveOne
<1>2. /\ run.left \in SUBSET Regs /\ run.address \in Word /\ run.data \in Word
      /\ run.end_address \in Word
      /\ run \in [left : SUBSET Regs, address : Word, end_address : Word,
                  W_adress : Word, data : Word, active : BOOLEAN]
  BY DEF LSInv, Types, TypeOK
<1>3. i \in run.left /\ i \in Regs
  BY <1>1, <1>2, LowestInList
<1> HIDE DEF i
<1>4. Fine(m)
  <2>1. Fine(Machine(file))
    BY FetchFileFine DEF LSInv
  <2> QED BY <1>2, <1>3, <2>1, LoadFine, StoreFine DEF Move
<1> HIDE DEF m, ins
<1>5. DataAfter(m, ins, i) \in Word /\ (run.address + 4) % WordSize \in Word
  BY <1>2, <1>3, <1>4, FineRead, WordRemainder DEF DataAfter, Word
<1>6. /\ run'.active /\ run'.left = run.left \ {i}
      /\ run'.address = (run.address + 4) % WordSize
      /\ run'.end_address = run.end_address
      /\ run' \in [left : SUBSET Regs, address : Word, end_address : Word,
                   W_adress : Word, data : Word, active : BOOLEAN]
  BY <1>1, <1>2, <1>5
<1>7. file' \in FileSet /\ OnlyBank(file', file, cpsr.mode)
  BY <1>1, <1>4 DEF Fine, MachineSet
<1>8. TypeOK'
  BY <1>1, <1>4, <1>6, <1>7 DEF LSInv, Types, TypeOK, FileSet, Fine, MachineSet,
                                Bytes
<1>9. BlockAddress'
  <2>1. PICK n \in Nat, k \in Nat :
            n = Cardinality(run.left) /\ k = Cardinality(run'.left) /\ k = n - 1
    BY <1>2, <1>3, <1>6, ListFinite, FS_RemoveElement
  <2>2. PICK x \in Int : x = run.end_address + 4 - 4 * n
    BY <1>2 DEF Word
  <2>3. run.address = x % WordSize
    BY <1>1, <2>1, <2>2 DEF LSInv, BlockAddress
  <2>4. ((x % WordSize) + 4) % WordSize = (x + 4) % WordSize
    BY WordAdd
  <2>5. x + 4 = run.end_address + 4 - 4 * k
    BY <1>2, <2>1, <2>2 DEF Word
  <2> QED BY <1>6, <2>1, <2>3, <2>4, <2>5 DEF BlockAddress
<1>10. Walking' /\ AbortIsPrecise'
  BY <1>1, <1>6 DEF LSInv, Walking, AbortIsPrecise, Executed, Last
<1> QED BY <1>1, <1>7, <1>8, <1>9, <1>10 DEF LSInv, Types

\* The end of an LDM or STM: the base that is written back is in the bank of
\* the mode that the status has then.
LEMMA EndStep ==
    ASSUME LSInv, EndMultiple
    PROVE  /\ LSInv'
           /\ \A cell \in FileCells :
                 file'[cell] # file[cell] =>
                     \/ \E reg \in Regs : cell = Cell(reg, cpsr.mode)
                     \/ /\ cpsr' # cpsr /\ Last.ins.w = 1
                        /\ cell = Cell(Last.ins.rn, cpsr'.mode)
<1> DEFINE ins == Head(todo)
<1>1. /\ fault = "none" /\ run.active /\ todo # <<>> /\ ins.form = "multiple"
      /\ history # <<>> /\ Last.ins = ins /\ UNCHANGED <<memory, history>>
  BY DEF EndMultiple, LSInv, Walking
<1>2. ins \in Instruction /\ ins.rn \in Regs /\ Tail(todo) \in Seq(Instruction)
  <2>1. ins \in Instruction /\ Tail(todo) \in Seq(Instruction)
    BY <1>1, NextInstruction DEF LSInv
  <2> QED BY <1>1, <2>1 DEF Instruction
<1>3. cpsr \in Status /\ cpsr.mode \in Banks /\ run.W_adress \in Word
  BY DEF LSInv, Types, TypeOK, Status, Banks
<1>4. CASE NoSpsr(ins)
  <2>1. fault' = "null" /\ UNCHANGED <<file, cpsr, run, result, todo>>
    BY <1>4 DEF EndMultiple
  <2>2. Types'
    BY <1>1, <2>1 DEF LSInv, Types, TypeOK
  <2>3. Walking' /\ AbortIsPrecise' /\ BlockAddress'
    BY <1>1, <2>1 DEF LSInv, Walking, AbortIsPrecise, BlockAddress, Executed, Last
  <2> QED BY <2>1, <2>2, <2>3 DEF LSInv
<1>5. CASE ~NoSpsr(ins)
  <2>1. /\ cpsr' = StatusAfter(ins) /\ file' = FileAfter(ins, cpsr'.mode)
        /\ result' = 0 /\ run' = Idle /\ todo' = Tail(todo) /\ UNCHANGED fault
    BY <1>5 DEF EndMultiple
  <2>2. cpsr' \in Status
    <3>1. CASE Restores(ins)
      <4>1. Cell(SPSR, cpsr.mode) \in FileCells /\ Cell(SPSR, cpsr.mode)[1] = SPSR
        BY <1>3, <1>5, <3>1, SpsrInFile DEF NoSpsr
      <4> QED BY <2>1, <3>1, <4>1 DEF StatusAfter, LSInv, Types, TypeOK
    <3>2. CASE ~Restores(ins)
      BY <1>3, <2>1, <3>2 DEF StatusAfter
    <3> QED BY <3>1, <3>2
  <2>3. cpsr'.mode \in Banks
    BY <2>2 DEF Status, Banks
  <2>4. file' \in FileSet
    BY <1>2, <1>3, <2>1, <2>3, WriteRegisterType DEF FileAfter, LSInv, Types
  <2>5. Types'
    BY <1>1, <1>2, <2>1, <2>2, <2>4, IdleType
       DEF LSInv, Types, TypeOK, FileSet
  <2>6. Walking' /\ BlockAddress'
    BY <2>1, IdleType DEF Walking, BlockAddress
  <2>7. AbortIsPrecise'
    BY <1>1, <2>1 DEF AbortIsPrecise
  <2>8. ASSUME NEW cell \in FileCells, file'[cell] # file[cell]
        PROVE  ins.w = 1 /\ cell = Cell(ins.rn, cpsr'.mode)
    BY <2>1, <2>8 DEF FileAfter, WriteRegister, LSInv, Types, FileSet
  <2> QED BY <1>1, <1>2, <2>5, <2>6, <2>7, <2>8 DEF LSInv
<1> QED BY <1>4, <1>5

LEMMA StutterStep ==
    ASSUME LSInv, UNCHANGED vars
    PROVE  LSInv'
BY DEF LSInv, vars, Types, TypeOK, Walking, AbortIsPrecise, BlockAddress,
       Executed, Last

LEMMA InitInvariant == Init => LSInv
<1> SUFFICES ASSUME Init
             PROVE  LSInv
  OBVIOUS
<1>1. file \in FileSet
  BY StartAssumption DEF Init, FileSet
<1>2. TypeOK
  BY <1>1, IdleType, StartAssumption DEF Init, TypeOK, FileSet
<1>3. todo \in Seq(Instruction) /\ history \in Seq(Entry)
  BY ProgramsAssumption DEF Init
<1>4. Walking /\ BlockAddress /\ AbortIsPrecise
  BY IdleType DEF Init, Walking, BlockAddress, AbortIsPrecise, Executed
<1> QED BY <1>1, <1>2, <1>3, <1>4 DEF LSInv, Types

\* What a step may change in the registers.
Disturbs ==
    \A cell \in FileCells :
        file'[cell] # file[cell] =>
            \/ \E reg \in Regs : cell = Cell(reg, cpsr.mode)
            \/ /\ cpsr' # cpsr /\ Last.ins.w = 1
               /\ cell = Cell(Last.ins.rn, cpsr'.mode)

LEMMA StepInvariant ==
    ASSUME LSInv, [Next]_vars
    PROVE  LSInv' /\ [Disturbs]_vars
BY SingleStep, StartStep, MoveStep, EndStep, StutterStep
   DEF Next, Disturbs, OnlyBank

LEMMA ModesStep ==
    ASSUME LSInv, AddressingModes, [Next]_vars
    PROVE  AddressingModes'
<1>1. CASE ExecuteSingle
  <2>1. PICK ins : /\ ins = Head(todo) /\ todo # <<>> /\ ins.form # "multiple"
                   /\ Remember(ins) /\ ins \in Instruction
    BY <1>1, NextInstruction DEF ExecuteSingle, Ready, LSInv
  <2>2. PICK m, t : /\ m = Machine(FetchFile) /\ t = Single(m, ins)
                    /\ file' = t.file /\ memory' = t.memory
                    /\ fault' = t.fault /\ result' = t.result
    BY <1>1, <2>1 DEF ExecuteSingle
  <2>3. PICK e : e = [ins |-> ins, file |-> FetchFile, cpsr |-> cpsr, memory |-> memory]
    OBVIOUS
  <2>4. Last' = e
    BY <2>1, <2>3, RememberLast DEF LSInv
  <2>5. Finds(e, m) /\ e.ins = ins
    <3>1. cpsr \in Status /\ memory \in Bytes /\ FetchFile \in FileSet
      BY FetchFileFine DEF LSInv, Types, TypeOK, Bytes
    <3> QED BY <2>1, <2>2, <2>3, <3>1 DEF Finds, Machine, Entry
  <2>6. CASE /\ ins.form \in {"imm", "reg", "misc"} /\ Regular(ins)
             /\ t.result = 0 /\ t.fault = "none"
    <3>1. file' = TrueFile(e) /\ memory' = TrueMemory(e)
      BY <2>2, <2>5, <2>6, SingleIsTrue
    <3> QED BY <2>4, <3>1 DEF AddressingModes
  <2>7. CASE ~(/\ ins.form \in {"imm", "reg", "misc"} /\ Regular(ins)
               /\ t.result = 0 /\ t.fault = "none")
    BY <2>2, <2>4, <2>5, <2>7 DEF AddressingModes, Executed
  <2> QED BY <2>6, <2>7
<1>2. CASE StartMultiple
  <2>1. run'.active
    BY <1>2 DEF StartMultiple, Locals
  <2> QED BY <2>1 DEF AddressingModes, Executed
<1>3. CASE MoveOne
  <2>1. run'.active
    BY <1>3 DEF MoveOne, LSInv, Types, TypeOK
  <2> QED BY <2>1 DEF AddressingModes, Executed
<1>4. CASE EndMultiple
  <2>1. Last.ins.form = "multiple" /\ UNCHANGED history
    BY <1>4 DEF EndMultiple, LSInv, Walking
  <2>2. Last' = Last
    BY <2>1 DEF Last
  <2> QED BY <2>1, <2>2 DEF AddressingModes, Executed
<1>5. CASE UNCHANGED vars
  <2>1. Last' = Last /\ UNCHANGED <<file, memory, run, fault, result, history>>
    BY <1>5 DEF vars, Last
  <2> QED BY <2>1 DEF AddressingModes, Executed
<1> QED BY <1>1, <1>2, <1>3, <1>4, <1>5 DEF Next

LEMMA InitModes == Init => AddressingModes
BY DEF Init, AddressingModes, Executed

-----------------------------------------------------------------------------
(* What an STM saves and an LDM restores *)

\* an LDM or STM that writes back its base, and moves neither it nor the pc
Plain(e) ==
    /\ e.ins.form = "multiple" /\ e.ins.w = 1 /\ e.ins.rn # PC
    /\ {e.ins.rn, PC} \intersect e.ins.list = {}

\* the word of a register in the block of an LDM or STM
Rank(list, reg) == Cardinality({other \in list : other < reg})
Slot(e, reg) == First(e) + 4 * Rank(e.ins.list, reg)
Saved(e, f, bytes, set) ==
    \A reg \in set : ReadAt(bytes, 4, Slot(e, reg)) = f[Cell(reg, e.cpsr.mode)]

End(e) == BlockEnd(e.ins.u, Was(e, e.ins.rn), Cardinality(e.ins.list))

\* the loop of an LDM or STM: the registers below those left are in the block,
\* with the values they had before an STM, or have after an LDM
Walk(e, r, f, bytes) ==
    /\ r.left \subseteq e.ins.list
    /\ \A low \in e.ins.list \ r.left, high \in r.left : low < high
    /\ r.W_adress = End(e)
    /\ r.address = (First(e) + 4 * (Cardinality(e.ins.list) - Cardinality(r.left)))
                      % WordSize
    /\ e.ins.l = 0 => f = e.file
    /\ e.ins.l = 1 => bytes = e.memory

\* what an LDM or STM leaves to the instruction that follows
Leaves(e, f, bytes) ==
    Plain(e) =>
        /\ f[Cell(e.ins.rn, e.cpsr.mode)] = End(e)
        /\ InMemory(e) /\ e.ins.l = 0 => Saved(e, e.file, bytes, e.ins.list)
        /\ InMemory(e) /\ e.ins.l = 1 => Saved(e, f, e.memory, e.ins.list)

WalkInv ==
    run.active =>
        /\ cpsr = Last.cpsr /\ Walk(Last, run, file, memory)
        /\ fault = "none" /\ Plain(Last) /\ InMemory(Last) =>
              Saved(Last, file, memory, Last.ins.list \ run.left)
LastInv ==
    history # <<>> /\ ~run.active /\ fault = "none" =>
        Leaves(Last, file, memory) /\ (Plain(Last) => cpsr = Last.cpsr)
PastInv ==
    \A i \in 1 .. Len(history) - 1 :
        Leaves(history[i], history[i + 1].file, history[i + 1].memory)

StackInv == WalkInv /\ LastInv /\ PastInv


\* Four digits in base b.
LEMMA FourDigits ==
    ASSUME NEW b \in Nat, b >= 1, NEW h \in Nat, h = b * b, NEW v \in 0 .. h * h - 1
    PROVE  v = (v % b) + ((v \div b) % b) * b + ((v \div h) % b) * h
                  + ((v \div (h * b)) % b) * (h * b)
<1>1. PICK q1 \in Nat, r0 \in 0 .. b - 1 :
          q1 = v \div b /\ r0 = v % b /\ v = b * q1 + r0
  BY Remainder, NaturalQuotient
<1>2. PICK q2 \in Nat, r1 \in 0 .. b - 1 :
          q2 = q1 \div b /\ r1 = q1 % b /\ q1 = b * q2 + r1
  BY Remainder, NaturalQuotient
<1>3. PICK q3 \in Nat, r2 \in 0 .. b - 1 :
          q3 = q2 \div b /\ r2 = q2 % b /\ q2 = b * q3 + r2
  BY Remainder, NaturalQuotient
<1>4. h >= 1 /\ h * b \in Nat /\ h * b >= 1
  BY ProductBounds
<1>5. PICK low \in 0 .. h - 1 : low = r1 * b + r0
  BY TwoDigits
<1>6. v = h * q2 + low
  <2>1. b * q1 = b * (b * q2) + b * r1
    BY <1>2
  <2>2. b * (b * q2) = (b * b) * q2
    OBVIOUS
  <2> QED BY <1>1, <1>5, <2>1, <2>2
<1>7. v \div h = q2
  <2>1. v \in Int /\ q2 \in Int
    OBVIOUS
  <2> QED BY <1>4, <1>6, <2>1, QuotientUnique
<1>8. PICK mid \in 0 .. h * b - 1 : mid = h * r2 + low
  <2>1. h * r2 <= h * (b - 1) /\ h * r2 >= 0 /\ h * r2 \in Int
    BY <1>4
  <2>2. h * (b - 1) = h * b - h
    OBVIOUS
  <2> QED BY <1>4, <2>1, <2>2
<1>9. PICK c \in Nat : c = h * b /\ c >= 1
  BY <1>4
<1>10. v = c * q3 + mid
  <2>1. h * q2 = h * (b * q3) + h * r2
    BY <1>3
  <2>2. h * (b * q3) = (h * b) * q3
    OBVIOUS
  <2> QED BY <1>6, <1>8, <1>9, <2>1, <2>2
<1>11. v \div c = q3
  <2>1. v \in Int /\ q3 \in Int /\ mid \in 0 .. c - 1
    BY <1>9
  <2> QED BY <1>9, <1>10, <2>1, QuotientUnique
<1>12. q3 % b = q3
  <2>1. h * h = c * b
    BY <1>9
  <2>2. c * q3 < c * b
    BY <1>8, <1>10, <2>1
  <2>3. q3 < b
    <3>1. q3 >= b => c * q3 >= c * b
      BY <1>9
    <3> QED BY <2>2, <3>1
  <2> QED BY <2>3
<1>13. v = r0 + r1 * b + r2 * h + q3 * c
  BY <1>5, <1>8, <1>9, <1>10
<1>14. /\ v % b = r0 /\ (v \div b) % b = r1 /\ (v \div h) % b = r2
       /\ (v \div (h * b)) % b = q3
  BY <1>1, <1>2, <1>3, <1>7, <1>9, <1>11, <1>12
<1> QED BY <1>9, <1>13, <1>14

\* A word written is the word read at the same address.
LEMMA ReadWritten ==
    ASSUME NEW bytes \in Bytes, NEW a \in Nat, a + 4 <= MemorySize, NEW v \in Word
    PROVE  ReadAt(WrittenAt(bytes, 4, a, v), 4, a) = v
<1>1. PICK f : f = WrittenAt(bytes, 4, a, v)
  OBVIOUS
<1>2. PICK b \in Nat, h \in Nat :
          /\ b = ByteSize /\ h = HalfSize /\ b >= 1 /\ h = b * b
          /\ h * b \in Nat /\ h * b >= 1 /\ WordSize = h * h
  BY Sizes DEF HalfSize, WordSize
<1>3. ASSUME NEW i \in 0 .. 3
      PROVE  f[a + i] = (v \div Weight(4, i)) % ByteSize
  <2>1. a + i \in DOMAIN bytes /\ a + i \in a .. a + 4 - 1 /\ (a + i) - a = i
    BY SizeAssumption DEF Bytes
  <2> QED BY <1>1, <2>1 DEF WrittenAt
<1>4. f[a + 0] = (v \div Weight(4, 0)) % b /\ f[a + 1] = (v \div Weight(4, 1)) % b
      /\ f[a + 2] = (v \div Weight(4, 2)) % b /\ f[a + 3] = (v \div Weight(4, 3)) % b
  BY <1>2, <1>3
<1>5. PICK d0 \in Int, d1 \in Int, d2 \in Int, d3 \in Int :
          /\ d0 = (v % b) /\ d1 = ((v \div b) % b) /\ d2 = ((v \div h) % b)
          /\ d3 = ((v \div (h * b)) % b)
          /\ (v \div 1) % b = d0
  <2>1. v \in Int /\ v \div 1 = v
    BY DEF Word
  <2>2. v \div b \in Int /\ v \div h \in Int /\ v \div (h * b) \in Int
    <3>1. h >= 1
      BY <1>2, ProductBounds
    <3> QED BY <1>2, <2>1, <3>1, Remainder
  <2>3. (v % b) \in Int /\ ((v \div b) % b) \in Int /\ ((v \div h) % b) \in Int
    BY <1>2, <2>1, <2>2, Remainder
  <2>4. ((v \div (h * b)) % b) \in Int
    BY <1>2, <2>2, Remainder
  <2> QED BY <2>1, <2>3, <2>4
<1>6. v = d0 + d1 * b + d2 * h + d3 * (h * b)
  <2>1. v \in 0 .. h * h - 1
    BY <1>2 DEF Word
  <2>2. v = (v % b) + ((v \div b) % b) * b + ((v \div h) % b) * h
               + ((v \div (h * b)) % b) * (h * b)
    BY <1>2, <2>1, FourDigits
  <2> QED BY <1>5, <2>2
<1>7. CASE BigEndian
  <2>1. /\ Weight(4, 0) = h * b /\ Weight(4, 1) = h /\ Weight(4, 2) = b
        /\ Weight(4, 3) = 1
    BY <1>2, <1>7 DEF Weight
  <2>2. f[a + 0] = d3 /\ f[a + 1] = d2 /\ f[a + 2] = d1 /\ f[a + 3] = d0
    BY <1>4, <1>5, <2>1
  <2>3. ReadAt(f, 4, a) = d3 * (h * b) + d2 * h + d1 * b + d0 * 1
    BY <2>1, <2>2 DEF ReadAt
  <2> QED BY <1>1, <1>2, <1>6, <2>3
<1>8. CASE ~BigEndian
  <2>1. /\ Weight(4, 3) = h * b /\ Weight(4, 2) = h /\ Weight(4, 1) = b
        /\ Weight(4, 0) = 1
    BY <1>2, <1>8 DEF Weight
  <2>2. f[a + 0] = d0 /\ f[a + 1] = d1 /\ f[a + 2] = d2 /\ f[a + 3] = d3
    BY <1>4, <1>5, <2>1
  <2>3. ReadAt(f, 4, a) = d0 * 1 + d1 * b + d2 * h + d3 * (h * b)
    BY <2>1, <2>2 DEF ReadAt
  <2> QED BY <1>1, <1>2, <1>6, <2>3
<1> QED BY <1>7, <1>8

\* A word written changes no byte but its own four.
LEMMA WrittenElsewhere ==
    ASSUME NEW bytes \in Bytes, NEW a \in Nat, NEW v, NEW x \in 0 .. MemorySize - 1,
           x \notin a .. a + 3
    PROVE  WrittenAt(bytes, 4, a, v)[x] = bytes[x]
BY DEF Bytes, WrittenAt

\* A word read depends on its own four bytes.
LEMMA SameRead ==
    ASSUME NEW f, NEW g, NEW a \in Nat, \A x \in a .. a + 3 : f[x] = g[x]
    PROVE  ReadAt(f, 4, a) = ReadAt(g, 4, a)
<1>1. /\ f[a + 0] = g[a + 0] /\ f[a + 1] = g[a + 1]
      /\ f[a + 2] = g[a + 2] /\ f[a + 3] = g[a + 3]
  OBVIOUS
<1> QED BY <1>1 DEF ReadAt

\* The words of the registers are in the block ...
LEMMA RankBounds ==
    ASSUME NEW list \in SUBSET Regs, NEW r \in list
    PROVE  Rank(list, r) \in Nat /\ Rank(list, r) + 1 <= Cardinality(list)
<1>1. PICK below : below = {other \in list : other < r}
  OBVIOUS
<1>2. r \in Int
  BY RegsAssumption
<1>3. below \subseteq list \ {r} /\ below \in SUBSET Regs /\ list \ {r} \in SUBSET Regs
  <2>1. ~(r < r)
    BY <1>2
  <2> QED BY <1>1, <2>1, Zenon
<1>4. /\ Cardinality(below) \in Nat /\ Cardinality(list) \in Nat
      /\ IsFiniteSet(list \ {r}) /\ IsFiniteSet(list)
  BY <1>3, ListFinite
<1>5. Cardinality(below) <= Cardinality(list \ {r})
  BY <1>3, <1>4, FS_Subset
<1>6. Cardinality(list \ {r}) = Cardinality(list) - 1
  BY <1>4, FS_RemoveElement
<1> QED BY <1>1, <1>4, <1>5, <1>6 DEF Rank

\* ... and the words of two registers do not overlap.
LEMMA RankGap ==
    ASSUME NEW list \in SUBSET Regs, NEW r \in list, NEW s \in list, r < s
    PROVE  Rank(list, r) + 1 <= Rank(list, s)
<1>1. PICK low, high : /\ low = {other \in list : other < r}
                       /\ high = {other \in list : other < s}
  OBVIOUS
<1>2. list \subseteq Int
  BY RegsAssumption
<1>3. /\ low \union {r} \subseteq high /\ r \notin low
      /\ low \in SUBSET Regs /\ high \in SUBSET Regs
  <2>1. ~(r < r) /\ \A x \in list : x < r => x < s
    BY <1>2
  <2> QED BY <1>1, <2>1, Zenon
<1>4. /\ Cardinality(low) \in Nat /\ Cardinality(high) \in Nat
      /\ IsFiniteSet(low) /\ IsFiniteSet(high)
  BY <1>3, ListFinite
<1>5. Cardinality(low \union {r}) <= Cardinality(high)
  BY <1>3, <1>4, FS_Subset
<1>6. Cardinality(low \union {r}) = Cardinality(low) + 1
  BY <1>3, <1>4, FS_AddElement
<1> QED BY <1>1, <1>4, <1>5, <1>6 DEF Rank

\* The next register to move is the one whose word the address has reached.
LEMMA RankOfLowest ==
    ASSUME NEW list \in SUBSET Regs, NEW left \in SUBSET list, left # {},
           \A low \in list \ left, high \in left : low < high
    PROVE  Rank(list, Lowest(left)) = Cardinality(list) - Cardinality(left)
<1>1. PICK i : i = Lowest(left)
  OBVIOUS
<1>2. i \in left /\ \A j \in left : i <= j
  BY <1>1, LowestInList
<1>3. list \subseteq Int
  BY RegsAssumption
<1>4. {other \in list : other < i} = list \ left
  <2>1. \A x \in left : ~(x < i)
    BY <1>2, <1>3
  <2> QED BY <1>2, <2>1, Zenon
<1>5. IsFiniteSet(list) /\ list \intersect left = left
  BY ListFinite
<1>6. Cardinality(list \ left) = Cardinality(list) - Cardinality(left)
  BY <1>5, FS_Difference
<1> QED BY <1>1, <1>4, <1>6 DEF Rank

\* the fields of an LDM or STM of the history
LEMMA MultipleFields ==
    ASSUME NEW e \in Entry, e.ins.form = "multiple"
    PROVE  /\ e.ins.rn \in Regs /\ e.ins.list \in SUBSET Regs
           /\ e.ins.l \in Bit /\ e.ins.p \in Bit /\ e.ins.u \in Bit /\ e.ins.w \in Bit
           /\ e.cpsr.mode \in Banks /\ e.file \in FileSet /\ e.memory \in Bytes
           /\ Was(e, e.ins.rn) \in Word /\ Cardinality(e.ins.list) \in Nat
           /\ First(e) \in Word /\ End(e) \in Word
<1>1. PICK ins \in Instruction : ins = e.ins /\ ins.form = "multiple"
  BY DEF Entry
<1>2. /\ ins.rn \in Regs /\ ins.list \in SUBSET Regs /\ ins.l \in Bit
      /\ ins.p \in Bit /\ ins.u \in Bit /\ ins.w \in Bit
  BY <1>1 DEF Instruction
<1>3. e.cpsr.mode \in Banks /\ e.file \in FileSet /\ e.memory \in Bytes
  BY DEF Entry, Status, Banks
<1>4. Was(e, ins.rn) \in Word /\ Cardinality(ins.list) \in Nat
  BY <1>2, EntryReads, ListFinite
<1>5. First(e) \in Word /\ End(e) \in Word
  BY <1>1, <1>2, <1>4, BlockBegins DEF First, End
<1> QED BY <1>1, <1>2, <1>3, <1>4, <1>5

\* When the block is in the memory, so is the word of each register.
LEMMA SlotInMemory ==
    ASSUME NEW e \in Entry, e.ins.form = "multiple", InMemory(e), NEW reg \in e.ins.list
    PROVE  /\ Slot(e, reg) \in Nat /\ First(e) <= Slot(e, reg)
           /\ Slot(e, reg) + 4 <= First(e) + 4 * Cardinality(e.ins.list)
           /\ Slot(e, reg) + 4 <= MemorySize
<1>1. PICK first \in Nat, n \in Nat, rank \in Nat :
          /\ first = First(e) /\ n = Cardinality(e.ins.list)
          /\ rank = Rank(e.ins.list, reg) /\ rank + 1 <= n
  BY MultipleFields, RankBounds DEF Word
<1> QED BY <1>1, SizeAssumption DEF Slot, InMemory

\* The cells of two registers of a mode are different.
LEMMA OtherCell ==
    ASSUME NEW f \in FileSet, NEW mode \in Banks, NEW other \in Banks, NEW r \in Regs,
           NEW s \in Regs, r # s, NEW v
    PROVE  WriteRegister(f, mode, r, v)[Cell(s, other)] = f[Cell(s, other)]
<1>1. /\ Cell(r, mode) \in FileCells /\ Cell(s, other) \in FileCells
      /\ Cell(r, mode) # Cell(s, other)
  BY CellInFile
<1> QED BY <1>1 DEF WriteRegister, FileSet

LEMMA SameCell ==
    ASSUME NEW f \in FileSet, NEW mode \in Banks, NEW r \in Regs, NEW v
    PROVE  WriteRegister(f, mode, r, v)[Cell(r, mode)] = v
BY CellInFile DEF WriteRegister, FileSet

\* The fetch of the next instruction keeps what an LDM or STM leaves.
LEMMA LeavesToNext ==
    ASSUME NEW e \in Entry, NEW f \in FileSet, NEW bytes, NEW mode \in Banks, NEW v,
           Leaves(e, f, bytes)
    PROVE  Leaves(e, WriteRegister(f, mode, PC, v), bytes)
<1> SUFFICES ASSUME Plain(e)
             PROVE  Leaves(e, WriteRegister(f, mode, PC, v), bytes)
  BY DEF Leaves
<1>1. PICK g : g = WriteRegister(f, mode, PC, v)
  OBVIOUS
<1>2. /\ e.ins.form = "multiple" /\ e.ins.rn \in Regs /\ e.ins.list \in SUBSET Regs
      /\ e.cpsr.mode \in Banks /\ PC \in Regs /\ e.ins.rn # PC
  BY MultipleFields, RegsAssumption DEF Plain
<1>3. g[Cell(e.ins.rn, e.cpsr.mode)] = f[Cell(e.ins.rn, e.cpsr.mode)]
  BY <1>1, <1>2, OtherCell
<1>4. ASSUME NEW reg \in e.ins.list
      PROVE  g[Cell(reg, e.cpsr.mode)] = f[Cell(reg, e.cpsr.mode)]
  <2>1. reg # PC /\ reg \in Regs
    BY <1>2 DEF Plain
  <2> QED BY <1>1, <1>2, <2>1, OtherCell
<1> QED BY <1>1, <1>3, <1>4 DEF Leaves, Saved

\* A new instruction finds what the one before it has left.
LEMMA PastStep ==
    ASSUME LSInv, StackInv, Ready, NEW ins \in Instruction, Remember(ins)
    PROVE  PastInv'
<1>1. PICK e : e = [ins |-> ins, file |-> FetchFile, cpsr |-> cpsr, memory |-> memory]
  OBVIOUS
<1>2. /\ history' = Append(history, e) /\ history \in Seq(Entry) /\ e \in Entry
      /\ Len(history) \in Nat
  <2>1. e \in Entry
    BY <1>1, FetchFileFine DEF Entry, LSInv, Types, TypeOK, Bytes
  <2> QED BY <1>1, <2>1 DEF Remember, LSInv, Types
<1>3. /\ Len(history') = Len(history) + 1 /\ history'[Len(history) + 1] = e
      /\ \A i \in 1 .. Len(history) : history'[i] = history[i]
  BY <1>2
<1>4. ASSUME NEW i \in 1 .. Len(history)
      PROVE  Leaves(history'[i], history'[i + 1].file, history'[i + 1].memory)
  <2>1. CASE i < Len(history)
    <3>1. i \in 1 .. Len(history) - 1 /\ i + 1 \in 1 .. Len(history)
      BY <1>2, <2>1
    <3>2. Leaves(history[i], history[i + 1].file, history[i + 1].memory)
      BY <3>1 DEF StackInv, PastInv
    <3> QED BY <1>3, <3>1, <3>2
  <2>2. CASE i = Len(history)
    <3>1. Last = history[i] /\ Last \in Entry /\ history # <<>>
      BY <1>2, <2>2 DEF Last
    <3>2. Leaves(Last, file, memory)
      BY <3>1 DEF StackInv, LastInv, Ready
    <3>3. PICK v : FetchFile = WriteRegister(file, cpsr.mode, PC, v)
      <4>1. PC \in Regs /\ cpsr.mode \in Banks /\ file \in FileSet
        BY RegsAssumption DEF LSInv, Types, TypeOK, Status, Banks
      <4> QED BY <4>1 DEF FetchFile, WriteRegister
    <3>4. cpsr.mode \in Banks /\ file \in FileSet
      BY DEF LSInv, Types, TypeOK, Status, Banks
    <3>5. Leaves(Last, FetchFile, memory)
      BY <3>1, <3>2, <3>3, <3>4, LeavesToNext
    <3>6. history'[i] = Last /\ history'[i + 1] = e
      BY <1>3, <2>2, <3>1
    <3> QED BY <1>1, <3>5, <3>6
  <2> QED BY <1>2, <2>1, <2>2
<1>5. Len(history') - 1 = Len(history)
  BY <1>2, <1>3
<1> QED BY <1>4, <1>5 DEF PastInv

LEMMA SingleStack ==
    ASSUME LSInv, StackInv, ExecuteSingle
    PROVE  StackInv'
<1>1. PICK ins : /\ ins = Head(todo) /\ todo # <<>> /\ ins.form # "multiple"
                 /\ Remember(ins) /\ ins \in Instruction
  BY NextInstruction DEF ExecuteSingle, Ready, LSInv
<1>2. PastInv'
  BY <1>1, PastStep DEF ExecuteSingle
<1>3. ~run'.active
  BY DEF ExecuteSingle, Ready
<1>4. Last'.ins.form # "multiple"
  BY <1>1, RememberLast DEF LSInv
<1>5. LastInv'
  BY <1>4 DEF LastInv, Leaves, Plain
<1> QED BY <1>2, <1>3, <1>5 DEF StackInv, WalkInv

LEMMA StartStack ==
    ASSUME LSInv, StackInv, StartMultiple
    PROVE  StackInv'
<1>1. PICK ins : /\ ins = Head(todo) /\ todo # <<>> /\ ins.form = "multiple"
                 /\ Remember(ins) /\ ins \in Instruction
  BY NextInstruction DEF StartMultiple, Ready, LSInv
<1>2. PastInv'
  BY <1>1, PastStep DEF StartMultiple
<1>3. PICK e : e = [ins |-> ins, file |-> FetchFile, cpsr |-> cpsr, memory |-> memory]
  OBVIOUS
<1>4. Last' = e /\ e \in Entry
  <2>1. e \in Entry
    BY <1>1, <1>3, FetchFileFine DEF Entry, LSInv, Types, TypeOK, Bytes
  <2> QED BY <1>1, <1>3, <2>1, RememberLast DEF LSInv
<1>5. PICK data \in Garbage : run' = Locals(ins, FetchFile, data)
  BY <1>1 DEF StartMultiple
<1>6. /\ run'.active /\ run'.left = e.ins.list /\ run'.address = First(e)
      /\ run'.W_adress = End(e)
  BY <1>3, <1>5 DEF Locals, First, End, Was
<1>7. file' = e.file /\ memory' = e.memory /\ cpsr' = e.cpsr
  BY <1>3 DEF StartMultiple
<1>8. First(e) = (First(e) + 4 * (Cardinality(e.ins.list) - Cardinality(run'.left)))
                    % WordSize
  <2>1. PICK a \in Word, n \in Nat : a = First(e) /\ n = Cardinality(e.ins.list)
    BY <1>1, <1>3, <1>4, MultipleFields
  <2>2. a + 4 * (n - n) = a /\ (a % WordSize) = a
    BY Sizes DEF Word
  <2> QED BY <1>6, <2>1, <2>2
<1>9. Walk(e, run', file', memory')
  BY <1>6, <1>7, <1>8 DEF Walk
<1>10. Saved(e, file', memory', e.ins.list \ run'.left)
  BY <1>6 DEF Saved
<1>11. WalkInv'
  BY <1>4, <1>7, <1>9, <1>10 DEF WalkInv
<1> QED BY <1>2, <1>6, <1>11 DEF StackInv, LastInv

\* One register of an STM goes to its word of the block.
LEMMA StoreSaves ==
    ASSUME NEW e \in Entry, Plain(e), InMemory(e), NEW i \in e.ins.list,
           NEW f \in FileSet, NEW bytes \in Bytes, NEW set \in SUBSET e.ins.list,
           \A low \in set : low < i, Saved(e, f, bytes, set)
    PROVE  Saved(e, f, WrittenAt(bytes, 4, Slot(e, i), f[Cell(i, e.cpsr.mode)]),
                 set \union {i})
<1>1. /\ e.ins.form = "multiple" /\ e.ins.list \in SUBSET Regs /\ e.cpsr.mode \in Banks
      /\ i \in Regs
  BY MultipleFields DEF Plain
<1>2. PICK a \in Nat : a = Slot(e, i) /\ a + 4 <= MemorySize
  BY <1>1, SlotInMemory
<1>3. PICK v \in Word : v = f[Cell(i, e.cpsr.mode)]
  BY <1>1, ReadRegisterType
<1>4. PICK g : g = WrittenAt(bytes, 4, a, v)
  OBVIOUS
<1>5. ReadAt(g, 4, Slot(e, i)) = v
  BY <1>2, <1>4, ReadWritten
<1>6. ASSUME NEW reg \in set
      PROVE  ReadAt(g, 4, Slot(e, reg)) = f[Cell(reg, e.cpsr.mode)]
  <2>1. reg \in e.ins.list /\ reg < i
    OBVIOUS
  <2>2. PICK b \in Nat : b = Slot(e, reg) /\ b + 4 <= MemorySize
    BY <1>1, <2>1, SlotInMemory
  <2>3. b + 4 <= a
    <3>1. PICK first \in Nat, low \in Nat, high \in Nat :
              /\ first = First(e) /\ low = Rank(e.ins.list, reg)
              /\ high = Rank(e.ins.list, i) /\ low + 1 <= high
      BY <1>1, <2>1, MultipleFields, RankBounds, RankGap DEF Word
    <3> QED BY <1>2, <2>2, <3>1 DEF Slot
  <2>4. \A x \in b .. b + 3 : g[x] = bytes[x]
    <3>1. ASSUME NEW x \in b .. b + 3
          PROVE  x \in 0 .. MemorySize - 1 /\ x \notin a .. a + 3
      BY <2>2, <2>3, SizeAssumption
    <3> QED BY <1>4, <3>1, WrittenElsewhere
  <2>5. ReadAt(g, 4, b) = ReadAt(bytes, 4, b)
    BY <2>4, SameRead
  <2> QED BY <2>2, <2>5 DEF Saved
<1>7. \A reg \in set \union {i} : ReadAt(g, 4, Slot(e, reg)) = f[Cell(reg, e.cpsr.mode)]
  BY <1>3, <1>5, <1>6
<1> QED BY <1>2, <1>3, <1>4, <1>7 DEF Saved

\* One register of an LDM comes from its word of the block.
LEMMA LoadRestores ==
    ASSUME NEW e \in Entry, Plain(e), NEW i \in e.ins.list,
           NEW f \in FileSet, NEW bytes, NEW set \in SUBSET e.ins.list,
           i \notin set, Saved(e, f, bytes, set)
    PROVE  Saved(e, WriteRegister(f, e.cpsr.mode, i, ReadAt(bytes, 4, Slot(e, i))),
                 bytes, set \union {i})
<1>1. /\ e.ins.list \in SUBSET Regs /\ e.cpsr.mode \in Banks /\ i \in Regs
  BY MultipleFields DEF Plain
<1>2. PICK v, g : /\ v = ReadAt(bytes, 4, Slot(e, i))
                  /\ g = WriteRegister(f, e.cpsr.mode, i, v)
  OBVIOUS
<1>3. g[Cell(i, e.cpsr.mode)] = v
  BY <1>1, <1>2, SameCell
<1>4. ASSUME NEW reg \in set
      PROVE  g[Cell(reg, e.cpsr.mode)] = f[Cell(reg, e.cpsr.mode)]
  <2>1. reg \in Regs /\ reg # i
    BY <1>1
  <2> QED BY <1>1, <1>2, <2>1, OtherCell
<1> QED BY <1>2, <1>3, <1>4 DEF Saved

\* A step of the loop moves one more register to or from its word.
LEMMA MoveStack ==
    ASSUME LSInv, StackInv, MoveOne
    PROVE  StackInv'
<1>1. PICK e, i, left, a, n : /\ e = Last /\ i = Lowest(run.left) /\ left = run.left
                              /\ a = run.address /\ n = Cardinality(e.ins.list)
  OBVIOUS
<1>2. PICK m : m = Move(Machine(file), e.ins, i)
  OBVIOUS
<1>3. /\ fault = "none" /\ run.active /\ left # {}
      /\ file' = m.file /\ memory' = m.memory /\ fault' = m.fault
      /\ run' = [run EXCEPT !.left = @ \ {i}, !.address = (@ + 4) % WordSize,
                            !.data = DataAfter(m, e.ins, i)]
      /\ UNCHANGED <<cpsr, history>>
  BY <1>1, <1>2 DEF MoveOne, LSInv, Walking
<1>4. /\ left \in SUBSET Regs /\ a \in Word /\ file \in FileSet /\ memory \in Bytes
      /\ run \in [left : SUBSET Regs, address : Word, end_address : Word,
                  W_adress : Word, data : Word, active : BOOLEAN]
  BY <1>1 DEF LSInv, Types, TypeOK, Bytes
<1>5. /\ run'.active /\ run'.left = left \ {i} /\ run'.address = (a + 4) % WordSize
      /\ run'.W_adress = run.W_adress
  BY <1>1, <1>3, <1>4
<1>6. e \in Entry /\ e.ins.form = "multiple" /\ Last' = e
  <2>1. history # <<>> /\ history \in Seq(Entry)
    BY <1>3 DEF LSInv, Walking, Types
  <2>2. history[Len(history)] \in Entry
    BY <2>1
  <2> QED BY <1>1, <1>3, <2>2 DEF Last, LSInv, Walking
<1>7. cpsr = e.cpsr /\ Walk(e, run, file, memory)
  BY <1>1, <1>3 DEF StackInv, WalkInv
<1>8. /\ left \subseteq e.ins.list /\ e.ins.list \in SUBSET Regs
      /\ \A low \in e.ins.list \ left, high \in left : low < high
      /\ i \in left /\ i \in e.ins.list /\ \A j \in left : i <= j
      /\ e.ins.list \subseteq Int
  <2>1. /\ left \subseteq e.ins.list /\ e.ins.list \in SUBSET Regs
        /\ \A low \in e.ins.list \ left, high \in left : low < high
    BY <1>1, <1>6, <1>7, MultipleFields DEF Walk
  <2>2. i \in left /\ \A j \in left : i <= j
    BY <1>1, <1>3, <1>4, LowestInList
  <2>3. e.ins.list \subseteq Int
    <3>1. \A x \in Regs : x \in Int
      BY RegsAssumption
    <3> QED BY <2>1, <3>1
  <2>4. i \in e.ins.list
    BY <2>1, <2>2
  <2> QED BY <2>1, <2>2, <2>3, <2>4
<1>9. PICK first \in Word, k \in Nat :
          /\ n \in Nat /\ first = First(e) /\ k = Cardinality(left)
          /\ k - 1 = Cardinality(run'.left)
          /\ a = (first + 4 * (n - k)) % WordSize
  <2>1. n \in Nat /\ First(e) \in Word
    BY <1>1, <1>6, MultipleFields
  <2>2. Cardinality(left) \in Nat /\ Cardinality(left \ {i}) = Cardinality(left) - 1
    BY <1>4, <1>8, ListFinite, FS_RemoveElement
  <2> QED BY <1>1, <1>5, <1>7, <2>1, <2>2 DEF Walk
<1>10. e.ins.l = 0 => m.file = file
  BY <1>2 DEF Move, Store, Machine
<1>11. e.ins.l = 1 => m.memory = memory
  BY <1>2 DEF Move, Load, Machine
<1>12. Walk(e, run', file', memory')
  <2>1. \A low \in e.ins.list \ run'.left, high \in run'.left : low < high
    <3> SUFFICES ASSUME NEW low \in e.ins.list, low \notin left \ {i},
                        NEW high \in left, high # i
                 PROVE  low < high
      BY <1>5
    <3>1. low = i \/ low \notin left
      OBVIOUS
    <3>2. i < high
      BY <1>8
    <3> QED BY <1>8, <3>1, <3>2
  <2>2. run'.address = (first + 4 * (n - (k - 1))) % WordSize
    <3>1. PICK x \in Int, y \in Int : x = first + 4 * (n - k) /\ y = 4
      BY <1>9 DEF Word
    <3>2. ((x % WordSize) + y) % WordSize = (x + y) % WordSize
      BY WordAdd
    <3>3. x + y = first + 4 * (n - (k - 1))
      BY <1>9, <3>1 DEF Word
    <3> QED BY <1>5, <1>9, <3>1, <3>2, <3>3
  <2>3. run'.left \subseteq e.ins.list /\ run'.W_adress = End(e)
    BY <1>5, <1>7, <1>8 DEF Walk
  <2> QED BY <1>1, <1>3, <1>7, <1>9, <1>10, <1>11, <2>1, <2>2, <2>3 DEF Walk
<1>13. ASSUME Plain(e), InMemory(e)
       PROVE  Saved(e, file', memory', e.ins.list \ run'.left)
  <2>1. PICK set \in SUBSET e.ins.list : set = e.ins.list \ left
    OBVIOUS
  <2>2. Saved(e, file, memory, set)
    BY <1>1, <1>3, <1>13, <2>1 DEF StackInv, WalkInv
  <2>3. e.ins.list \ run'.left = set \union {i}
    BY <1>5, <1>8, <2>1
  <2>4. a = Slot(e, i) /\ a + 4 <= MemorySize
    <3>1. Rank(e.ins.list, i) = n - k
      BY <1>1, <1>3, <1>8, <1>9, RankOfLowest
    <3>2. PICK s \in Nat : s = Slot(e, i) /\ s + 4 <= MemorySize
      BY <1>6, <1>8, <1>13, SlotInMemory
    <3>3. s = first + 4 * (n - k)
      BY <1>9, <3>1, <3>2 DEF Slot
    <3>4. s % WordSize = s
      BY <3>2, SizeAssumption, Sizes
    <3> QED BY <1>9, <3>2, <3>3, <3>4
  <2>5. ~OutOfBounds(a) /\ ~Overrun(4, a)
    BY <1>4, <2>4, SizeAssumption DEF OutOfBounds, Overrun, Word
  <2>6. i # PC
    BY <1>8, <1>13 DEF Plain
  <2>7. CASE e.ins.l = 0
    <3>1. memory' = WrittenAt(memory, 4, Slot(e, i), file[Cell(i, e.cpsr.mode)])
      BY <1>1, <1>2, <1>3, <1>7, <2>4, <2>5, <2>6, <2>7
         DEF Move, Store, Machine, ReadRegister
    <3>2. \A low \in set : low < i
      BY <1>8, <2>1
    <3>3. Saved(e, file, memory', set \union {i})
      BY <1>4, <1>6, <1>8, <1>13, <2>2, <3>1, <3>2, StoreSaves
    <3> QED BY <1>3, <1>10, <2>3, <2>7, <3>3
  <2>8. CASE e.ins.l = 1
    <3>1. file' = WriteRegister(file, e.cpsr.mode, i, ReadAt(memory, 4, Slot(e, i)))
      BY <1>1, <1>2, <1>3, <1>7, <2>4, <2>5, <2>6, <2>8
         DEF Move, Load, Machine, Converted
    <3>2. i \notin set
      BY <1>8, <2>1
    <3>3. Saved(e, file', memory, set \union {i})
      BY <1>4, <1>6, <1>8, <1>13, <2>2, <3>1, <3>2, LoadRestores
    <3> QED BY <1>3, <1>11, <2>3, <2>8, <3>3
  <2> QED BY <1>6, <2>7, <2>8, MultipleFields DEF Bit
<1>14. WalkInv'
  BY <1>3, <1>6, <1>7, <1>12, <1>13 DEF WalkInv
<1>15. PastInv'
  BY <1>3 DEF StackInv, PastInv
<1> QED BY <1>5, <1>14, <1>15 DEF StackInv, LastInv

\* After the loop the base is written back, and the status does not change
\* when the pc is not loaded.
LEMMA EndStack ==
    ASSUME LSInv, StackInv, EndMultiple
    PROVE  StackInv'
<1>1. PICK e : e = Last
  OBVIOUS
<1>2. /\ fault = "none" /\ run.active /\ run.left = {} /\ Head(todo) = e.ins
      /\ UNCHANGED <<memory, history>>
  BY <1>1 DEF EndMultiple, LSInv, Walking
<1>3. e \in Entry /\ e.ins.form = "multiple" /\ Last' = e
  <2>1. history # <<>> /\ history \in Seq(Entry)
    BY <1>2 DEF LSInv, Walking, Types
  <2>2. history[Len(history)] \in Entry
    BY <2>1
  <2> QED BY <1>1, <1>2, <2>2 DEF Last, LSInv, Walking
<1>4. /\ cpsr = e.cpsr /\ Walk(e, run, file, memory)
      /\ Plain(e) /\ InMemory(e) => Saved(e, file, memory, e.ins.list)
  <2>1. e.ins.list \ {} = e.ins.list
    OBVIOUS
  <2> QED BY <1>1, <1>2, <2>1 DEF StackInv, WalkInv
<1>5. PastInv'
  BY <1>2 DEF StackInv, PastInv
<1>6. CASE NoSpsr(e.ins)
  <2>1. fault' = "null" /\ UNCHANGED <<file, cpsr, run>>
    BY <1>2, <1>6 DEF EndMultiple
  <2>2. WalkInv'
    BY <1>2, <1>3, <1>4, <2>1 DEF WalkInv
  <2> QED BY <1>5, <2>1, <2>2 DEF StackInv, LastInv
<1>7. CASE ~NoSpsr(e.ins)
  <2>1. /\ cpsr' = StatusAfter(e.ins) /\ file' = FileAfter(e.ins, cpsr'.mode)
        /\ run' = Idle
    BY <1>2, <1>7 DEF EndMultiple
  <2>2. ASSUME Plain(e)
        PROVE  cpsr' = e.cpsr /\ Leaves(e, file', memory')
    <3>1. cpsr' = e.cpsr
      <4>1. ~Restores(e.ins)
        BY <2>2 DEF Plain, Restores
      <4> QED BY <1>4, <2>1, <4>1 DEF StatusAfter
    <3>2. file' = WriteRegister(file, e.cpsr.mode, e.ins.rn, End(e))
      BY <1>4, <2>1, <2>2, <3>1 DEF FileAfter, Plain, Walk
    <3>3. /\ e.ins.rn \in Regs /\ e.cpsr.mode \in Banks /\ file \in FileSet
          /\ e.ins.list \in SUBSET Regs
      BY <1>3, MultipleFields DEF LSInv, Types
    <3>4. file'[Cell(e.ins.rn, e.cpsr.mode)] = End(e)
      BY <3>2, <3>3, SameCell
    <3>5. \A reg \in e.ins.list :
              file'[Cell(reg, e.cpsr.mode)] = file[Cell(reg, e.cpsr.mode)]
      <4>1. ASSUME NEW reg \in e.ins.list
            PROVE  reg \in Regs /\ reg # e.ins.rn
        BY <2>2, <3>3 DEF Plain
      <4> QED BY <3>2, <3>3, <4>1, OtherCell
    <3>6. InMemory(e) /\ e.ins.l = 0 => Saved(e, e.file, memory', e.ins.list)
      BY <1>2, <1>4, <2>2 DEF Walk
    <3>7. InMemory(e) /\ e.ins.l = 1 => Saved(e, file', e.memory, e.ins.list)
      BY <1>4, <2>2, <3>5 DEF Walk, Saved
    <3> QED BY <3>1, <3>4, <3>6, <3>7 DEF Leaves
  <2>3. LastInv'
    BY <1>3, <2>2 DEF LastInv, Leaves
  <2>4. ~run'.active
    BY <2>1, IdleType
  <2> QED BY <1>5, <2>3, <2>4 DEF StackInv, WalkInv
<1> QED BY <1>6, <1>7

LEMMA StackStep ==
    ASSUME LSInv, StackInv, [Next]_vars
    PROVE  StackInv'
<1>1. ASSUME UNCHANGED vars
      PROVE  StackInv'
  BY <1>1 DEF vars, StackInv, WalkInv, LastInv, PastInv, Last
<1> QED BY <1>1, SingleStack, StartStack, MoveStack, EndStack DEF Next

LEMMA InitStack == Init => StackInv
BY IdleType DEF Init, StackInv, WalkInv, LastInv, PastInv

\* The LDM of the opposite direction begins where the STM did and ends where it
\* found its base.
LEMMA BlockReverses ==
    ASSUME NEW s \in Entry, NEW d \in Entry, Reverses(s.ins, d.ins),
           Was(d, d.ins.rn) = End(s)
    PROVE  First(d) = First(s) /\ End(d) = Was(s, s.ins.rn)
<1>1. /\ s.ins.form = "multiple" /\ d.ins.list = s.ins.list /\ s.ins.p \in Bit
      /\ s.ins.u \in Bit /\ d.ins.p = 1 - s.ins.p /\ d.ins.u = 1 - s.ins.u
  <2>1. s.ins \in Instruction /\ s.ins.form = "multiple"
    BY DEF Entry, Reverses
  <2>2. s.ins \in [form : {"multiple"}, l : Bit, p : Bit, u : Bit, s : Bit, w : Bit,
                   rn : Regs, list : SUBSET Regs]
    BY <2>1 DEF Instruction
  <2> QED BY <2>2 DEF Reverses
<1>2. PICK base \in Int, n \in Nat, p \in 0 .. 1, u \in 0 .. 1 :
          /\ base = Was(s, s.ins.rn) /\ n = Cardinality(s.ins.list)
          /\ p = s.ins.p /\ u = s.ins.u
          /\ base \in Word
  BY <1>1, MultipleFields DEF Bit, Word
<1>3. (base % WordSize) = base
  BY <1>2, Sizes DEF Word
<1>4. PICK x \in Int, y \in Int, z \in Int :
          /\ x = (IF u = 1 THEN base + 4 * n ELSE base - 4 * n)
          /\ y = (IF u = 1 THEN -(4 * n) ELSE 4 * n)
          /\ z = (IF u = 1 THEN 4 * p - 4 * n ELSE 4 * (1 - p))
  <2>1. base + 4 * n \in Int /\ base - 4 * n \in Int /\ -(4 * n) \in Int
    OBVIOUS
  <2>2. 4 * n \in Int /\ 4 * p - 4 * n \in Int /\ 4 * (1 - p) \in Int
    OBVIOUS
  <2> QED BY <2>1, <2>2
<1>5. End(s) = x % WordSize /\ (x % WordSize) \in Int
  BY <1>2, <1>4, WordRemainder DEF End, BlockEnd, Word
<1>6. PICK e \in Int : e = End(s) /\ e = x % WordSize
  BY <1>5
<1>7. (e + y) % WordSize = (x + y) % WordSize /\ (e + z) % WordSize = (x + z) % WordSize
  BY <1>6, WordAdd
<1>8. End(d) = (e + y) % WordSize
  BY <1>1, <1>2, <1>4, <1>6 DEF End, BlockEnd
<1>9. First(d) = (e + z) % WordSize
  BY <1>1, <1>2, <1>4, <1>6 DEF First, FirstAddress
<1>10. First(s) = (x + z) % WordSize
  BY <1>1, <1>2, <1>4 DEF First, FirstAddress
<1>11. x + y = base
  BY <1>4
<1> QED BY <1>2, <1>3, <1>7, <1>8, <1>9, <1>10, <1>11

\* The invariant is enough: the LDM reads in each word what the STM wrote there.
LEMMA StackIsRestored ==
    ASSUME LSInv, StackInv
    PROVE  StackRestores
<1> SUFFICES ASSUME Executed({"multiple"}), InMemory(Last),
                    NEW i \in 1 .. Len(history) - 1,
                    Reverses(history[i].ins, Last.ins),
                    Intact(history[i], history[i + 1], Last),
                    NEW reg \in Last.ins.list \union {Last.ins.rn}
             PROVE  file[Cell(reg, cpsr.mode)] = history[i].file[Cell(reg, cpsr.mode)]
  BY DEF StackRestores
<1>1. PICK s, next, d : s = history[i] /\ next = history[i + 1] /\ d = Last
  OBVIOUS
<1>2. s \in Entry /\ d \in Entry
  <2>1. history \in Seq(Entry) /\ Len(history) \in Nat
    BY DEF LSInv, Types
  <2> QED BY <1>1, <2>1 DEF Last
<1>3. /\ s.ins.form = "multiple" /\ s.ins.l = 0 /\ d.ins.l = 1 /\ Plain(s) /\ Plain(d)
      /\ d.ins.list = s.ins.list /\ d.ins.rn = s.ins.rn
  <2>1. s.ins \in Instruction /\ s.ins.form = "multiple" /\ Reverses(s.ins, d.ins)
    BY <1>1, <1>2 DEF Entry, Reverses
  <2>2. s.ins \in [form : {"multiple"}, l : Bit, p : Bit, u : Bit, s : Bit, w : Bit,
                   rn : Regs, list : SUBSET Regs]
    BY <2>1 DEF Instruction
  <2> QED BY <2>1, <2>2 DEF Reverses, Plain
<1>4. Leaves(s, next.file, next.memory)
  BY <1>1 DEF StackInv, PastInv
<1>5. Leaves(d, file, memory) /\ cpsr = d.cpsr
  BY <1>1, <1>3 DEF StackInv, LastInv, Executed
<1>6. PICK mode : mode = s.cpsr.mode /\ mode = d.cpsr.mode /\ mode = cpsr.mode
  BY <1>1, <1>5 DEF Intact
<1>7. Was(d, d.ins.rn) = End(s) /\ Was(s, s.ins.rn) = s.file[Cell(s.ins.rn, mode)]
  BY <1>1, <1>3, <1>4, <1>6 DEF Intact, Leaves, Was, ReadRegister, Plain
<1>8. First(d) = First(s) /\ End(d) = Was(s, s.ins.rn)
  BY <1>1, <1>2, <1>7, BlockReverses
<1>9. CASE reg = d.ins.rn
  BY <1>1, <1>3, <1>5, <1>6, <1>7, <1>8, <1>9 DEF Leaves
<1>10. CASE reg \in d.ins.list
  <2>1. InMemory(d) /\ InMemory(s)
    BY <1>1, <1>3, <1>8 DEF InMemory
  <2>2. PICK a \in Nat : /\ a = Slot(d, reg) /\ a = Slot(s, reg) /\ First(d) <= a
                         /\ a + 4 <= First(d) + 4 * Cardinality(d.ins.list)
    <3>1. Slot(d, reg) = Slot(s, reg)
      BY <1>3, <1>8 DEF Slot
    <3>2. d.ins.form = "multiple"
      BY <1>3 DEF Plain
    <3> QED BY <1>2, <1>10, <2>1, <3>1, <3>2, SlotInMemory
  <2>3. \A x \in a .. a + 3 : d.memory[x] = next.memory[x]
    <3>1. First(d) \in Int /\ Cardinality(d.ins.list) \in Nat
      BY <1>2, <1>3, MultipleFields DEF Plain, Word
    <3>2. ASSUME NEW x \in a .. a + 3
          PROVE  x \in First(d) .. First(d) + 4 * Cardinality(d.ins.list) - 1
      BY <2>2, <3>1
    <3> QED BY <1>1, <3>2 DEF Intact
  <2>4. ReadAt(d.memory, 4, a) = ReadAt(next.memory, 4, a)
    BY <2>3, SameRead
  <2>5. ReadAt(next.memory, 4, a) = s.file[Cell(reg, mode)]
    BY <1>3, <1>4, <1>6, <1>10, <2>1, <2>2 DEF Leaves, Saved
  <2>6. ReadAt(d.memory, 4, a) = file[Cell(reg, mode)]
    BY <1>3, <1>5, <1>6, <1>10, <2>1, <2>2 DEF Leaves, Saved
  <2> QED BY <1>1, <1>6, <2>4, <2>5, <2>6
<1> QED BY <1>1, <1>9, <1>10

-----------------------------------------------------------------------------
\* The invariant of the instructions holds for every program.
THEOREM LoadStoreInvariant == Spec => []LSInv
BY InitInvariant, StepInvariant, PTL DEF Spec

\* Every load and store leaves words in the registers, bytes in the memory and
\* a status in the CPSR, whatever its fields, addresses and byte order.
THEOREM LoadStoreTypeCorrect == Spec => []TypeOK
<1>1. LSInv => TypeOK
  BY DEF LSInv, Types
<1> QED BY <1>1, LoadStoreInvariant, PTL

\* An LDR, LDRB, STR or STRB that returns an error has changed no register,
\* its base included, and no byte.
THEOREM PreciseAbort == Spec => []AbortIsPrecise
<1>1. LSInv => AbortIsPrecise
  BY DEF LSInv
<1> QED BY <1>1, LoadStoreInvariant, PTL

\* The loop of arm_load_store_multiple walks from the first address it computes
\* to the last one, in its four modes, with addresses that wrap as well.
THEOREM BlockIsWalked == Spec => []BlockAddress
<1>1. LSInv => BlockAddress
  BY DEF LSInv
<1> QED BY <1>1, LoadStoreInvariant, PTL

\* No load or store reaches a register of another bank, but for the base of an
\* LDM that restores the status.
THEOREM OtherBanksUndisturbed == Spec => BanksUndisturbed
<1>1. LSInv /\ [Next]_vars => [Disturbs]_vars
  BY StepInvariant
<1>2. [Disturbs]_vars =>
        [\A cell \in FileCells :
            file'[cell] # file[cell] =>
                \/ \E reg \in Regs : cell = Cell(reg, cpsr.mode)
                \/ /\ cpsr' # cpsr /\ Last.ins.w = 1
                   /\ cell = Cell(Last.ins.rn, cpsr'.mode)]_vars
  BY DEF Disturbs
<1> QED BY <1>1, <1>2, LoadStoreInvariant, PTL DEF Spec, BanksUndisturbed

\* A load or store of one value that returns no error leaves the registers and
\* the memory that signed integers, quotients and rotations say, in every
\* addressing mode, with every shift and for every size of a byte.
THEOREM AddressingModesAreRight == Spec => []AddressingModes
<1>1. LSInv /\ AddressingModes /\ [Next]_vars => AddressingModes'
  BY ModesStep
<1> QED BY <1>1, InitModes, LoadStoreInvariant, PTL DEF Spec

\* A block saved by an STM with write-back comes back by the LDM of the opposite
\* direction, with its base, after any instructions that leave the block and
\* the base alone, in the four modes, for both byte orders and for every list.
THEOREM BlocksComeBack == Spec => []StackRestores
<1>1. LSInv /\ StackInv /\ [Next]_vars => StackInv'
  BY StackStep
<1>2. LSInv /\ StackInv => StackRestores
  BY StackIsRestored
<1> QED BY <1>1, <1>2, InitStack, LoadStoreInvariant, PTL DEF Spec
=============================================================================
