-------------------------- MODULE RegistersProofs --------------------------
(***************************************************************************)
(* The register file keeps the banks of the ARM architecture apart, for    *)
(* every set of registers, values and status words and both byte orders    *)
(* of the host; and the packets G and g move the registers of one bank,    *)
(* one register per step.                                                  *)
(***************************************************************************)
EXTENDS GdbRegisters, WellFoundedInduction, TLAPS

\* switch_endian is its own inverse: what is written is what is read back.
LEMMA OrderInverse ==
    ASSUME NEW x \in Word
    PROVE  Order(x) \in Word /\ Order(Order(x)) = x
<1>1. ASSUME NEW y \in Word
      PROVE  switch_endian(y) \in Word
  <2>1. /\ y[1] \in 0 .. 255 /\ y[2] \in 0 .. 255
        /\ y[3] \in 0 .. 255 /\ y[4] \in 0 .. 255
    BY DEF Word
  <2>2. ASSUME NEW a \in 0 .. 255, NEW b \in 0 .. 255,
               NEW c \in 0 .. 255, NEW d \in 0 .. 255
        PROVE  <<a, b, c, d>> \in Word
    BY ONLY a \in 0 .. 255, b \in 0 .. 255, c \in 0 .. 255, d \in 0 .. 255
       DEF Word
  <2> QED BY <2>1, <2>2 DEF switch_endian
<1>2. switch_endian(switch_endian(x)) = x
  <2> DEFINE z == switch_endian(switch_endian(x))
  <2>1. z \in Word
    BY <1>1
  <2>2. \A i \in 1 .. 4 : z[i] = x[i]
    BY DEF switch_endian, Word
  <2> HIDE DEF z
  <2>3. z = x
    BY <2>1, <2>2 DEF Word
  <2> QED BY <2>3 DEF z
<1> QED BY <1>1, <1>2 DEF Order

\* The pointers of registers_create share a cell between two modes exactly
\* when the architecture shares the register.
LEMMA Sharing ==
    ASSUME NEW reg \in Registers, NEW m \in Int, NEW n \in Modes,
           Visible(reg, m), Visible(reg, n)
    PROVE  Cell(reg, m) = Cell(reg, n) <=> Owner(reg, m) = Owner(reg, n)
<1> USE DEF Cell, Ptr, get_read_write_mode, Owner, Visible, Modes, Registers,
            USR, FIQ, IRQ, SVC, ABT, UND, SYS, SP, LR, PC, CPSR, SPSR
<1>1. CASE reg \in 8 .. 12
  BY <1>1
<1>2. CASE reg \in {SP, LR}
  BY <1>2
<1>3. CASE reg = SPSR
  BY <1>3
<1>4. CASE reg \notin (8 .. 12) \union {SP, LR, SPSR}
  BY <1>4
<1> QED BY <1>1, <1>2, <1>3, <1>4

LEMMA CellRegister ==
    ASSUME NEW reg \in Reg, NEW m, Allocated(Cell(reg, m))
    PROVE  Cell(reg, m) \in Cells(Reg) /\ Cell(reg, m)[1] = reg
BY DEF Cell, Allocated, Cells

-----------------------------------------------------------------------------
LEMMA ModeType ==
    ASSUME TypeOK
    PROVE  registers_get_mode \in 0 .. 63 /\ CallerMode \subseteq 0 .. 63
<1>1. <<CPSR, 0>> \in Cells(Reg)
  BY RegAssumption DEF Cells, Size, CPSR, SP, LR, SPSR
<1>2. data[<<CPSR, 0>>] \in Word
  BY <1>1 DEF TypeOK
<1>3. registers_get_mode \in 0 .. 63
  BY <1>2 DEF registers_get_mode, get_mode, Word
<1> QED BY <1>3 DEF CallerMode, USR

LEMMA StoreType ==
    ASSUME TypeOK, NEW reg \in Reg, NEW m, NEW value \in Word,
           Store(reg, m, value)
    PROVE  data' \in [Cells(Reg) -> Word] /\ fault' \in {"none", "null", "overflow"}
<1>1. Order(value) \in Word
  BY OrderInverse
<1> QED BY <1>1 DEF Store, TypeOK, FaultOf

LEMMA ZeroType == Zero \in Word
BY DEF Zero, Word

\* Each access keeps the types, for any register, mode and word.
LEMMA WriteType ==
    ASSUME TypeOK, NEW reg \in Reg, NEW m \in 0 .. 63, NEW value \in Word,
           registers_write(reg, m, value)
    PROVE  TypeOK'
BY StoreType DEF registers_write, Calls, TypeOK

LEMMA WriteCpsrType ==
    ASSUME TypeOK, NEW value \in Word, registers_write_cpsr(value)
    PROVE  TypeOK'
<1>1. CPSR \in Reg /\ USR \in 0 .. 63
  BY RegAssumption DEF USR
<1> QED BY <1>1 DEF registers_write_cpsr, Calls, TypeOK

LEMMA ReadType ==
    ASSUME TypeOK, NEW reg \in Reg, NEW m \in 0 .. 63, registers_read(reg, m)
    PROVE  TypeOK'
<1>1. result' \in Word
  BY CellRegister, OrderInverse DEF registers_read, Load, TypeOK
<1> QED BY <1>1, ZeroType DEF registers_read, Calls, TypeOK, FaultOf

LEMMA ReadCpsrType ==
    ASSUME TypeOK, registers_read_cpsr
    PROVE  TypeOK'
<1>1. <<CPSR, 0>> \in Cells(Reg)
  BY RegAssumption DEF Cells, Size, CPSR, SP, LR, SPSR
<1> QED BY <1>1, ZeroType, RegAssumption DEF registers_read_cpsr, Calls, TypeOK, USR

\* Type correctness of the register file.
LEMMA TypeInduction == TypeOK /\ [Next]_vars => TypeOK'
<1> SUFFICES ASSUME TypeOK, [Next]_vars
             PROVE  TypeOK'
  OBVIOUS
<1>0. /\ General \subseteq Reg /\ SPSR \in Reg /\ CPSR \in Reg
      /\ Values \subseteq Word /\ StatusWords \subseteq Word
      /\ USR \in 0 .. 63 /\ TraceModes \subseteq 0 .. 63
  BY RegAssumption, WordAssumption, TraceAssumption
     DEF General, USR, Modes, FIQ, IRQ, SVC, ABT, UND, SYS
<1>1. ASSUME NEW value \in Values,
             registers_write_spsr(registers_get_mode, value)
      PROVE  TypeOK'
  <2>1. data' \in [Cells(Reg) -> Word] /\ fault' \in {"none", "null", "overflow"}
    BY <1>0, <1>1, StoreType DEF registers_write_spsr, TypeOK
  <2> QED BY <1>0, <1>1, <2>1, ModeType DEF registers_write_spsr, Calls, TypeOK
<1>2. ASSUME NEW m \in TraceModes, trace_arm_state(m)
      PROVE  TypeOK'
  BY <1>0, <1>2, ZeroType DEF trace_arm_state, Calls, TypeOK, FaultOf
<1>3. CASE Write
  BY <1>0, <1>1, <1>3, ModeType, WriteType, WriteCpsrType DEF Write
<1>4. CASE Read
  BY <1>0, <1>2, <1>4, ModeType, ReadType, ReadCpsrType
     DEF Read, registers_read_spsr
<1>5. CASE UNCHANGED vars
  BY <1>5 DEF vars, TypeOK
<1> QED BY <1>3, <1>4, <1>5 DEF Next

LEMMA InitType == Init => TypeOK
<1>1. reset_cpsr \in Word
  BY DEF reset_cpsr, Word
<1> QED BY <1>1, ZeroType, RegAssumption DEF Init, TypeOK, USR

-----------------------------------------------------------------------------
\* what a step with the last call c may change
Isolated(c) ==
    \A reg \in Reg, mode \in Modes :
        Visible(reg, mode) /\ Allocated(Cell(reg, mode)) =>
            View(reg, mode)' =
                IF /\ c.name = "write" /\ c.reg = reg
                   /\ Visible(reg, c.mode)
                   /\ Owner(reg, c.mode) = Owner(reg, mode)
                THEN c.value
                ELSE View(reg, mode)

\* Writing a register other than the CPSR.
LEMMA StoreIsolated ==
    ASSUME TypeOK, NEW w \in Reg \ {CPSR}, NEW m \in 0 .. 63,
           NEW value \in Word, Visible(w, m),
           Store(w, m, value), fault = "none", fault' = "none"
    PROVE  Isolated([name |-> "write", reg |-> w, mode |-> m, value |-> value])
<1>1. Allocated(Cell(w, m)) /\ data' = [data EXCEPT ![Cell(w, m)] = Order(value)]
  BY DEF Store, FaultOf
<1>2. Cell(w, m) \in Cells(Reg) /\ Cell(w, m)[1] = w
  BY <1>1, CellRegister
<1> SUFFICES ASSUME NEW reg \in Reg, NEW mode \in Modes,
                    Visible(reg, mode), Allocated(Cell(reg, mode))
             PROVE  View(reg, mode)' =
                       IF w = reg /\ Visible(reg, m)
                              /\ Owner(reg, m) = Owner(reg, mode)
                       THEN value ELSE View(reg, mode)
  BY DEF Isolated
<1>3. Cell(reg, mode) \in Cells(Reg) /\ Cell(reg, mode)[1] = reg
  BY CellRegister
<1>4. CASE reg # w
  <2>1. data'[Cell(reg, mode)] = data[Cell(reg, mode)]
    BY <1>1, <1>2, <1>3, <1>4 DEF TypeOK
  <2>2. <<CPSR, 0>> # Cell(w, m)
    BY <1>2
  <2>3. data'[<<CPSR, 0>>] = data[<<CPSR, 0>>]
    BY <1>1, <1>2, <2>2, RegAssumption DEF TypeOK, Cells, Size, CPSR, SP, LR, SPSR
  <2> QED BY <1>4, <2>1, <2>3 DEF View, Load, Order, switch_endian
<1>5. CASE reg = w
  <2>1. Cell(reg, m) = Cell(reg, mode) <=> Owner(reg, m) = Owner(reg, mode)
    BY <1>5, Sharing, RegAssumption
  <2>2. CASE Cell(reg, m) = Cell(reg, mode)
    <3>1. data'[Cell(reg, mode)] = Order(value)
      BY <1>1, <1>2, <1>5, <2>2 DEF TypeOK
    <3>2. View(reg, mode)' = Order(Order(value))
      BY <1>5, <3>1 DEF View, Load, Order, switch_endian
    <3> QED BY <1>5, <2>1, <2>2, <3>2, OrderInverse
  <2>3. CASE Cell(reg, m) # Cell(reg, mode)
    <3>1. data'[Cell(reg, mode)] = data[Cell(reg, mode)]
      BY <1>1, <1>3, <1>5, <2>3 DEF TypeOK
    <3>2. View(reg, mode)' = View(reg, mode)
      BY <1>5, <3>1 DEF View, Load, Order, switch_endian
    <3> QED BY <2>1, <2>3, <3>2
  <2> QED BY <2>2, <2>3
<1> QED BY <1>4, <1>5

\* A step that writes nothing a caller can see.
LEMMA QuietIsolated ==
    ASSUME UNCHANGED data, NEW c, c.name = "write" => ~Visible(c.reg, c.mode)
    PROVE  Isolated(c)
BY DEF Isolated, View, Load, Order, switch_endian

\* Writing the CPSR.
LEMMA CpsrIsolated ==
    ASSUME TypeOK, NEW value \in Word,
           data' = [data EXCEPT ![<<CPSR, 0>>] = value]
    PROVE  Isolated([name |-> "write", reg |-> CPSR, mode |-> USR,
                     value |-> value])
<1>1. <<CPSR, 0>> \in Cells(Reg)
  BY RegAssumption DEF Cells, Size, CPSR, SP, LR, SPSR
<1> SUFFICES ASSUME NEW reg \in Reg, NEW mode \in Modes,
                    Allocated(Cell(reg, mode))
             PROVE  View(reg, mode)' =
                       IF CPSR = reg /\ Visible(reg, USR)
                              /\ Owner(reg, USR) = Owner(reg, mode)
                       THEN value ELSE View(reg, mode)
  BY DEF Isolated
<1>2. CASE reg = CPSR
  <2>1. Owner(reg, USR) = Owner(reg, mode) /\ Visible(reg, USR)
    BY <1>2 DEF Owner, Visible, CPSR, SPSR, SP, LR
  <2>2. data'[<<CPSR, 0>>] = value
    BY <1>1 DEF TypeOK
  <2> QED BY <1>2, <2>1, <2>2 DEF View
<1>3. CASE reg # CPSR
  <2>1. Cell(reg, mode) \in Cells(Reg) /\ Cell(reg, mode)[1] = reg
    BY CellRegister
  <2>2. data'[Cell(reg, mode)] = data[Cell(reg, mode)]
    BY <1>3, <2>1 DEF TypeOK
  <2> QED BY <1>3, <2>2 DEF View, Load, Order, switch_endian
<1> QED BY <1>2, <1>3

LEMMA NextIsolated ==
    ASSUME TypeOK, Next, fault' = "none"
    PROVE  Isolated(call')
<1>0. /\ General \subseteq Reg \ {CPSR} /\ SPSR \in Reg \ {CPSR}
      /\ Values \subseteq Word /\ StatusWords \subseteq Word
  BY RegAssumption, WordAssumption DEF General, CPSR, SPSR
<1>1. ASSUME NEW reg \in General, NEW m \in CallerMode, NEW value \in Values,
             registers_write(reg, m, value)
      PROVE  Isolated(call')
  <2>1. Visible(reg, m)
    BY DEF General, Visible
  <2>2. Isolated([name |-> "write", reg |-> reg, mode |-> m, value |-> value])
    BY <1>0, <1>1, <2>1, ModeType, StoreIsolated DEF registers_write, Calls
  <2> QED BY <1>1, <2>2 DEF registers_write, Calls
<1>2. ASSUME NEW value \in StatusWords, registers_write_cpsr(value)
      PROVE  Isolated(call')
  <2>1. Isolated([name |-> "write", reg |-> CPSR, mode |-> USR, value |-> value])
    BY <1>0, <1>2, CpsrIsolated DEF registers_write_cpsr
  <2> QED BY <1>2, <2>1 DEF registers_write_cpsr, Calls
<1>3. ASSUME NEW value \in Values,
             registers_write_spsr(registers_get_mode, value)
      PROVE  Isolated(call')
  <2> DEFINE m == registers_get_mode
             c == [name |-> "write", reg |-> SPSR, mode |-> m, value |-> value]
  <2>1. call' = c /\ fault = "none"
    BY <1>3 DEF registers_write_spsr, Calls
  <2>2. registers_mode_has_spsr(m) <=> Visible(SPSR, m)
    BY ModeType DEF registers_mode_has_spsr, get_read_write_mode, Visible,
       Modes, USR, FIQ, IRQ, SVC, ABT, UND, SYS
  <2>3. CASE Visible(SPSR, m)
    <3>1. Store(SPSR, m, value)
      BY <1>3, <2>2, <2>3 DEF registers_write_spsr
    <3>2. Isolated(c)
      BY <1>0, <2>1, <2>3, <3>1, ModeType, StoreIsolated
    <3> QED BY <2>1, <3>2
  <2>4. CASE ~Visible(SPSR, m)
    <3>1. UNCHANGED data
      BY <1>3, <2>2, <2>4 DEF registers_write_spsr
    <3>2. Isolated(c)
      BY <2>4, <3>1, QuietIsolated
    <3> QED BY <2>1, <3>2
  <2> QED BY <2>3, <2>4
<1>4. ASSUME Read
      PROVE  Isolated(call')
  <2>1. UNCHANGED data /\ call'.name # "write"
    BY <1>4 DEF Read, registers_read, registers_read_cpsr, registers_read_spsr,
       trace_arm_state, Calls
  <2> QED BY <2>1, QuietIsolated
<1> QED BY <1>1, <1>2, <1>3, <1>4 DEF Next, Write

\* A write through registers.c is seen under every mode that shares the
\* register, as the value written, and under no other mode or register, in
\* every sequence of calls.
THEOREM BanksIsolated == Spec => WriteIsolation
<1>1. TypeOK /\ [Next]_vars => [fault' = "none" => Isolated(call')]_vars
  BY NextIsolated
<1>2. [fault' = "none" => Isolated(call')]_vars =>
        [fault' = "none" =>
            \A reg \in Reg, mode \in Modes :
                Visible(reg, mode) /\ Allocated(Cell(reg, mode)) =>
                    View(reg, mode)' =
                        IF /\ call'.name = "write" /\ call'.reg = reg
                           /\ Visible(reg, call'.mode)
                           /\ Owner(reg, call'.mode) = Owner(reg, mode)
                        THEN call'.value
                        ELSE View(reg, mode)]_vars
  BY DEF Isolated
<1> QED BY <1>1, <1>2, InitType, TypeInduction, PTL DEF Spec, WriteIsolation

\* Type correctness of the register file, for every instance.
THEOREM RegistersTypeCorrect == Spec => []TypeOK
BY InitType, TypeInduction, PTL DEF Spec

-----------------------------------------------------------------------------
(* The packets G and g: a g after a G returns what the G wrote *)

\* the types of the packet, its answer and the history
PacketType ==
    /\ request.kind \in {"none", "G", "g", "aborted"}
    /\ request \in [kind : {"none", "G", "g", "aborted"}, left : SUBSET Dumped,
                    mode : {NoMode} \union 0 .. 63, words : [Dumped -> Word]]
    /\ answer \in [Dumped -> Word]
    /\ before \in [Cells(Reg) -> Word]

\* A G in progress: the status comes last, the mode is the one that the G has
\* found as long as the status is not written, and the registers written so
\* far are the words in the banks of that mode.
Progress ==
    request.kind = "G" /\ fault = "none" =>
        /\ request.mode \in 0 .. 63
        /\ IF CPSR \in request.left
           THEN registers_get_mode = request.mode
           ELSE request.left = {}
        /\ \A reg \in Reg, mode \in Modes :
              Visible(reg, mode) /\ Allocated(Cell(reg, mode)) =>
                  View(reg, mode) =
                      IF /\ reg \in Dumped \ request.left
                         /\ Owner(reg, request.mode) = Owner(reg, mode)
                      THEN request.words[reg]
                      ELSE SeenIn(before, reg, mode)

\* what the last G wrote is still there
Held ==
    request.kind \in {"none", "g"} /\ request.mode # NoMode /\ fault = "none" =>
        \A reg \in Dumped, mode \in Modes :
            /\ Allocated(Cell(reg, mode))
            /\ Owner(reg, request.mode) = Owner(reg, mode)
            => View(reg, mode) = request.words[reg]

\* a g in progress: the words read so far
Collected ==
    request.kind = "g" /\ request.mode # NoMode /\ fault = "none" =>
        \A reg \in Dumped \ request.left :
            Owner(reg, request.mode) = Owner(reg, registers_get_mode) =>
                answer[reg] = request.words[reg]

GdbIInv == TypeOK /\ PacketType /\ Progress /\ Held /\ Collected
-----------------------------------------------------------------------------
LEMMA DumpedType ==
    /\ Dumped \subseteq 0 .. 16 /\ Dumped \subseteq Reg /\ CPSR \in Dumped
    /\ General \subseteq Reg \ {CPSR, SPSR}
    /\ \A reg \in Reg : reg \in Dumped <=> reg # SPSR
BY RegAssumption DEF Dumped, General, Registers, CPSR, SPSR

\* A non-empty set of registers has a least one.
LEMMA LeastRegister ==
    ASSUME NEW left \in SUBSET Dumped, left # {}
    PROVE  NextOf(left) \in left /\ \A other \in left : NextOf(left) <= other
<1>1. left \subseteq Nat
  BY DumpedType
<1>2. \E x \in left : \A y \in left : ~(<<y, x>> \in OpToRel(<, Nat))
  BY <1>1, NatLessThanWellFounded, WFMin
<1>3. \A a, b \in Nat : a < b => <<a, b>> \in OpToRel(<, Nat)
  BY DEF OpToRel
<1>4. PICK less : /\ \E x \in left : \A y \in left : ~(<<y, x>> \in less)
                  /\ \A a, b \in Nat : a < b => <<a, b>> \in less
  BY <1>2, <1>3, Zenon
<1>5. PICK x \in left : \A y \in left : ~(<<y, x>> \in less)
  BY <1>4
<1>6. ASSUME NEW y \in left
      PROVE  x <= y
  <2>1. x \in Nat /\ y \in Nat
    BY <1>1
  <2>2. ~(y < x)
    BY <1>4, <1>5, <2>1, Zenon
  <2> QED BY <2>1, <2>2
<1> QED BY <1>6 DEF NextOf

\* When only the status is left it comes next, and it is the last one.
LEMMA StatusLast ==
    ASSUME NEW left \in SUBSET Dumped, left # {}, NextOf(left) = CPSR
    PROVE  left = {CPSR}
<1>1. CPSR \in left /\ \A other \in left : CPSR <= other
  BY LeastRegister
<1>2. \A other \in left : other = CPSR
  BY <1>1, DumpedType DEF CPSR
<1> QED BY <1>1, <1>2

\* A CPSR whose low bits are no mode selects the bank of USR.
LEMMA BankOfStatus ==
    ASSUME NEW reg \in Dumped, NEW m \in 0 .. 63
    PROVE  \E n \in Modes : /\ Cell(reg, m) = Cell(reg, n)
                             /\ Owner(reg, m) = Owner(reg, n)
<1>1. CASE m \in Modes
  BY <1>1
<1>2. CASE m \notin Modes
  <2>1. USR \in Modes
    BY DEF Modes
  <2>2. get_read_write_mode(m) = get_read_write_mode(USR)
    BY <1>2 DEF get_read_write_mode, Modes, USR, FIQ, IRQ, SVC, ABT, UND, SYS
  <2>3. Owner(reg, m) = Owner(reg, USR)
    BY <1>2 DEF Owner, USR, FIQ, SYS, Modes
  <2> QED BY <2>1, <2>2, <2>3 DEF Cell
<1> QED BY <1>1, <1>2

LEMMA SameView ==
    ASSUME UNCHANGED data
    PROVE  /\ registers_get_mode' = registers_get_mode
           /\ \A reg, mode : View(reg, mode)' = View(reg, mode)
BY DEF registers_get_mode, get_mode, View, Load, Order, switch_endian

\* What a caller sees is what the history of it will show.
LEMMA ViewIsSeen ==
    \A reg, mode : View(reg, mode) = SeenIn(data, reg, mode)
BY DEF View, Load, SeenIn

-----------------------------------------------------------------------------
(* The steps of the packets *)

\* One register of a G.
LEMMA WriteKeeps ==
    ASSUME GdbIInv, write_register
    PROVE  GdbIInv' /\ (fault' = "none" => Isolated(call'))
<1> DEFINE reg == NextOf(request.left)
           m == registers_get_mode
           value == request.words[reg]
<1>1. /\ request.kind = "G" /\ request.left # {} /\ fault = "none"
      /\ request' = [request EXCEPT !.left = @ \ {reg}]
      /\ UNCHANGED <<answer, before>>
      /\ IF reg = CPSR THEN registers_write_cpsr(request.words[CPSR])
         ELSE registers_write(reg, m, value)
  BY DEF write_register
<1>2. /\ request.left \in SUBSET Dumped /\ request.words \in [Dumped -> Word]
      /\ reg \in request.left /\ reg \in Dumped /\ value \in Word
      /\ m \in 0 .. 63 /\ TypeOK
  BY <1>1, LeastRegister, ModeType DEF GdbIInv, PacketType
<1>3. /\ request'.kind = "G" /\ request'.left = request.left \ {reg}
      /\ request'.mode = request.mode /\ request'.words = request.words
      /\ PacketType'
  BY <1>1, <1>2 DEF GdbIInv, PacketType
<1>4. Held' /\ Collected'
  BY <1>3 DEF Held, Collected
<1>5. /\ request.mode \in 0 .. 63
      /\ CPSR \in request.left /\ m = request.mode
  BY <1>1, <1>2 DEF GdbIInv, Progress
<1> HIDE DEF reg, m, value
<1>6. TypeOK'
  BY <1>1, <1>2, DumpedType, WriteType, WriteCpsrType DEF value
<1>7. fault' = "none" =>
        \E mode \in 0 .. 63 :
            /\ Isolated([name |-> "write", reg |-> reg, mode |-> mode,
                         value |-> value])
            /\ call' = [name |-> "write", reg |-> reg, mode |-> mode,
                        value |-> value]
            /\ reg # CPSR => mode = m
  <2>1. CASE reg = CPSR
    <3>1. Isolated([name |-> "write", reg |-> CPSR, mode |-> USR,
                    value |-> value])
      BY <1>1, <1>2, <2>1, CpsrIsolated DEF registers_write_cpsr, value
    <3> QED BY <1>1, <2>1, <3>1 DEF registers_write_cpsr, Calls, value, USR
  <2>2. CASE reg # CPSR
    <3>1. reg \in Reg \ {CPSR} /\ Visible(reg, m)
      BY <1>2, <2>2, DumpedType DEF Visible
    <3>2. Store(reg, m, value) /\ call' = [name |-> "write", reg |-> reg,
                                           mode |-> m, value |-> value]
      BY <1>1, <2>2 DEF registers_write, Calls
    <3> QED BY <1>1, <1>2, <3>1, <3>2, <2>2, StoreIsolated
  <2> QED BY <2>1, <2>2
<1>8. fault' = "none" => Isolated(call')
  BY <1>7
<1>9. ASSUME fault' = "none"
      PROVE  IF CPSR \in request'.left
             THEN registers_get_mode' = request.mode
             ELSE request'.left = {}
  <2>1. CASE reg = CPSR
    BY <1>1, <1>2, <1>3, <2>1, StatusLast DEF reg
  <2>2. CASE reg # CPSR
    <3>1. data'[<<CPSR, 0>>] = data[<<CPSR, 0>>]
      <4>1. Cell(reg, m) # <<CPSR, 0>>
        BY <2>2 DEF Cell
      <4>2. <<CPSR, 0>> \in DOMAIN data
        BY <1>2, RegAssumption DEF TypeOK, Cells, Size, CPSR, SP, LR, SPSR
      <4> QED BY <1>1, <1>2, <2>2, <4>1, <4>2 DEF registers_write, Store, TypeOK
    <3> QED BY <1>2, <1>3, <1>5, <2>2, <3>1 DEF registers_get_mode, m
  <2> QED BY <2>1, <2>2
<1>10. ASSUME fault' = "none", NEW r \in Reg, NEW mode \in Modes,
              Visible(r, mode), Allocated(Cell(r, mode))
       PROVE  View(r, mode)' =
                 IF /\ r \in Dumped \ request'.left
                    /\ Owner(r, request.mode) = Owner(r, mode)
                 THEN request.words[r]
                 ELSE SeenIn(before, r, mode)
  <2>1. PICK n \in 0 .. 63 :
            /\ reg # CPSR => n = m
            /\ View(r, mode)' =
                  IF reg = r /\ Visible(r, n) /\ Owner(r, n) = Owner(r, mode)
                  THEN value ELSE View(r, mode)
    BY <1>7, <1>10 DEF Isolated
  <2>2. View(r, mode) =
            IF /\ r \in Dumped \ request.left
               /\ Owner(r, request.mode) = Owner(r, mode)
            THEN request.words[r]
            ELSE SeenIn(before, r, mode)
    BY <1>1, <1>10 DEF GdbIInv, Progress
  <2>3. r = reg => Visible(r, n)
    BY <1>2, DumpedType DEF Visible
  <2>4. r = reg => Owner(r, n) = Owner(r, request.mode)
    <3>1. \A x : Owner(CPSR, x) = USR
      BY DEF Owner, CPSR, SP, LR, SPSR
    <3> QED BY <1>5, <2>1, <3>1
  <2> QED BY <1>2, <1>3, <2>1, <2>2, <2>3, <2>4 DEF value
<1>11. Progress'
  BY <1>1, <1>3, <1>5, <1>9, <1>10 DEF Progress, SeenIn
<1> QED BY <1>3, <1>4, <1>6, <1>8, <1>11 DEF GdbIInv

\* The other steps: one register of a g, and the steps that write no register.
LEMMA ReadKeeps ==
    ASSUME GdbIInv, read_register
    PROVE  GdbIInv' /\ Isolated(call')
<1> DEFINE reg == NextOf(request.left)
           m == registers_get_mode
<1>1. /\ request.kind = "g" /\ request.left # {} /\ fault = "none"
      /\ request' = [request EXCEPT !.left = @ \ {reg}]
      /\ answer' = [answer EXCEPT ![reg] = result']
      /\ UNCHANGED before
      /\ IF reg = CPSR THEN registers_read_cpsr ELSE registers_read(reg, m)
  BY DEF read_register, ReadMode
<1>2. /\ request.left \in SUBSET Dumped /\ reg \in request.left
      /\ reg \in Dumped /\ m \in 0 .. 63 /\ TypeOK
  BY <1>1, LeastRegister, ModeType DEF GdbIInv, PacketType
<1> HIDE DEF reg, m
<1>3. TypeOK'
  BY <1>1, <1>2, DumpedType, ReadType, ReadCpsrType
<1>4. UNCHANGED data /\ call'.name # "write"
  BY <1>1 DEF registers_read, registers_read_cpsr, Calls
<1>5. /\ request'.kind = "g" /\ request'.left = request.left \ {reg}
      /\ request'.mode = request.mode /\ request'.words = request.words
      /\ PacketType'
  <2>1. result' \in Word
    BY <1>3 DEF TypeOK
  <2> QED BY <1>1, <1>2, <2>1 DEF GdbIInv, PacketType
<1>6. Held'
  BY <1>1, <1>4, <1>5, SameView DEF GdbIInv, Held
<1>7. ASSUME request.mode # NoMode, fault' = "none",
             Owner(reg, request.mode) = Owner(reg, m)
      PROVE  result' = request.words[reg]
  <2>1. CASE reg = CPSR
    <3>1. USR \in Modes /\ Owner(CPSR, USR) = Owner(CPSR, request.mode)
      BY DEF Modes, Owner, CPSR, SP, LR, SPSR
    <3>2. Allocated(Cell(CPSR, USR))
      BY DEF Allocated, Cell, Ptr, Size, get_read_write_mode, CPSR, SP, LR, SPSR
    <3>3. View(CPSR, USR) = request.words[CPSR]
      BY <1>1, <1>2, <1>7, <2>1, <3>1, <3>2 DEF GdbIInv, Held
    <3> QED BY <1>1, <2>1, <3>3 DEF registers_read_cpsr, View
  <2>2. CASE reg # CPSR
    <3>1. PICK n \in Modes : /\ Cell(reg, m) = Cell(reg, n)
                             /\ Owner(reg, m) = Owner(reg, n)
      BY <1>2, BankOfStatus
    <3>2. Allocated(Cell(reg, m)) /\ result' = Load(reg, m)
      BY <1>1, <1>7, <2>2 DEF registers_read, FaultOf
    <3>3. View(reg, n) = request.words[reg]
      BY <1>1, <1>2, <1>7, <3>1, <3>2 DEF GdbIInv, Held
    <3> QED BY <2>2, <3>1, <3>2, <3>3 DEF View, Load
  <2> QED BY <2>1, <2>2
<1>8. Collected'
  <2> SUFFICES ASSUME request.mode # NoMode, fault' = "none",
                      NEW r \in Dumped \ (request.left \ {reg}),
                      Owner(r, request.mode) = Owner(r, m)
               PROVE  answer'[r] = request.words[r]
    BY <1>4, <1>5, SameView DEF Collected, m
  <2>1. CASE r = reg
    BY <1>1, <1>2, <1>7, <2>1 DEF GdbIInv, PacketType
  <2>2. CASE r # reg
    <3>1. r \in Dumped \ request.left
      BY <2>2
    <3>2. answer[r] = request.words[r]
      BY <1>1, <3>1 DEF GdbIInv, Collected, m
    <3>3. answer'[r] = answer[r]
      BY <1>1, <2>2 DEF GdbIInv, PacketType
    <3> QED BY <3>2, <3>3
  <2> QED BY <2>1, <2>2
<1>9. Progress'
  BY <1>5 DEF Progress
<1> QED BY <1>3, <1>4, <1>5, <1>6, <1>8, <1>9, QuietIsolated DEF GdbIInv

LEMMA BeginWriteKeeps ==
    ASSUME GdbIInv, NEW words \in [Dumped -> Word],
           write_general_registers(words)
    PROVE  GdbIInv'
<1>1. /\ request' = [kind |-> "G", left |-> Dumped, mode |-> registers_get_mode,
                     words |-> words]
      /\ before' = data /\ UNCHANGED <<data, fault, call, result, answer>>
  BY DEF write_general_registers, vars
<1>2. TypeOK' /\ PacketType'
  BY <1>1, ModeType DEF GdbIInv, PacketType, TypeOK
<1>3. Progress'
  BY <1>1, ModeType, DumpedType, SameView, ViewIsSeen DEF GdbIInv, Progress
<1>4. Held' /\ Collected'
  BY <1>1 DEF Held, Collected
<1> QED BY <1>2, <1>3, <1>4 DEF GdbIInv

LEMMA BeginReadKeeps ==
    ASSUME GdbIInv, read_general_registers
    PROVE  GdbIInv'
<1>1. /\ request.kind = "none" /\ UNCHANGED <<data, fault, call, result>>
      /\ request' = [request EXCEPT !.kind = "g", !.left = Dumped]
      /\ UNCHANGED <<answer, before>>
  BY DEF read_general_registers, vars, Work, Idle
<1>2. /\ request'.kind = "g" /\ request'.left = Dumped
      /\ request'.mode = request.mode /\ request'.words = request.words
      /\ TypeOK' /\ PacketType'
  BY <1>1 DEF GdbIInv, PacketType, TypeOK
<1>3. Progress' /\ Held' /\ Collected'
  BY <1>1, <1>2, SameView DEF GdbIInv, Progress, Held, Collected
<1> QED BY <1>2, <1>3 DEF GdbIInv

LEMMA AnsweredKeeps ==
    ASSUME GdbIInv, Answered
    PROVE  GdbIInv'
<1>1. /\ request.kind \in {"G", "g"} /\ request.left = {}
      /\ UNCHANGED <<data, fault, call, result>>
      /\ request' = [request EXCEPT !.kind = "none"]
      /\ answer' = [reg \in Dumped |-> Zero] /\ before' = data
  BY DEF Answered, vars
<1>2. /\ request'.kind = "none" /\ request'.left = {}
      /\ request'.mode = request.mode /\ request'.words = request.words
      /\ TypeOK' /\ PacketType'
  BY <1>1, ZeroType DEF GdbIInv, PacketType, TypeOK
<1>3. Held'
  <2>1. CASE request.kind = "g"
    BY <1>1, <1>2, <2>1, SameView DEF GdbIInv, Held
  <2>2. CASE request.kind = "G"
    <3>1. \A reg \in Dumped, mode \in Modes : reg \in Reg /\ Visible(reg, mode)
      BY DumpedType DEF Visible
    <3> QED BY <1>1, <1>2, <2>2, <3>1, SameView DEF GdbIInv, Progress, Held
  <2> QED BY <1>1, <2>1, <2>2
<1>4. Progress' /\ Collected'
  BY <1>2 DEF Progress, Collected
<1> QED BY <1>2, <1>3, <1>4 DEF GdbIInv

\* A step that reads between two packets.
LEMMA QuietKeeps ==
    ASSUME GdbIInv, TypeOK', request.kind = "none", fault = "none",
           UNCHANGED <<data, request, answer, before>>
    PROVE  GdbIInv'
<1>1. PacketType'
  BY DEF GdbIInv, PacketType
<1>2. Progress' /\ Collected'
  BY DEF Progress, Collected
<1>3. Held'
  BY SameView DEF GdbIInv, Held
<1> QED BY <1>1, <1>2, <1>3 DEF GdbIInv

LEMMA ProgramKeeps ==
    ASSUME GdbIInv, Program
    PROVE  GdbIInv' /\ (fault' = "none" => Isolated(call'))
<1>1. Next /\ Idle /\ TypeOK /\ UNCHANGED <<answer, before>>
  BY DEF Program, Work, Next, GdbIInv
<1>2. TypeOK' /\ (fault' = "none" => Isolated(call'))
  BY <1>1, TypeInduction, NextIsolated
<1>3. CASE Read /\ UNCHANGED request
  <2>1. UNCHANGED data
    BY <1>3 DEF Read, registers_read, registers_read_cpsr, registers_read_spsr,
       trace_arm_state, Calls
  <2> QED BY <1>1, <1>2, <1>3, <2>1, QuietKeeps DEF Idle
<1>4. CASE request' = [request EXCEPT !.mode = NoMode]
  <2>1. request'.kind = "none" /\ request'.mode = NoMode /\ PacketType'
    BY <1>1, <1>4 DEF GdbIInv, PacketType, Idle
  <2> QED BY <1>2, <2>1 DEF GdbIInv, Progress, Held, Collected
<1> QED BY <1>3, <1>4 DEF Program

LEMMA SingleKeeps ==
    ASSUME GdbIInv, NEW n \in GdbRegister, read_single_register(n)
    PROVE  GdbIInv' /\ (UNCHANGED vars \/ Isolated(call'))
<1>1. Idle /\ TypeOK /\ UNCHANGED <<answer, before>>
  BY DEF read_single_register, GdbIInv
<1>2. CASE /\ Atoi(n) \in General
           /\ registers_read(Atoi(n), registers_get_mode)
           /\ UNCHANGED request
  <2>1. TypeOK'
    BY <1>1, <1>2, DumpedType, ModeType, ReadType
  <2>2. UNCHANGED data /\ call'.name # "write"
    BY <1>2 DEF registers_read, Calls
  <2> QED BY <1>1, <1>2, <2>1, <2>2, QuietKeeps, QuietIsolated DEF Idle
<1>3. CASE request' = [request EXCEPT !.kind = "aborted"] /\ UNCHANGED vars
  <2>1. request'.kind = "aborted" /\ TypeOK' /\ PacketType'
    BY <1>1, <1>3 DEF GdbIInv, PacketType, TypeOK, vars
  <2> QED BY <1>3, <2>1 DEF GdbIInv, Progress, Held, Collected
<1> QED BY <1>2, <1>3 DEF read_single_register

LEMMA StutterKeeps ==
    ASSUME GdbIInv, UNCHANGED gdbVars
    PROVE  GdbIInv'
<1>1. UNCHANGED <<data, fault, call, result, request, answer, before>>
  BY DEF gdbVars
<1>2. TypeOK' /\ PacketType'
  BY <1>1 DEF GdbIInv, TypeOK, PacketType
<1>3. Progress' /\ Held' /\ Collected'
  BY <1>1, SameView DEF GdbIInv, Progress, Held, Collected, SeenIn
<1> QED BY <1>2, <1>3 DEF GdbIInv

\* Every step keeps the invariant, and either leaves the register file alone or
\* changes what its call says.
LEMMA GdbStep ==
    ASSUME GdbIInv, [GdbNext]_gdbVars
    PROVE  GdbIInv' /\ [fault' = "none" => Isolated(call')]_vars
<1>1. ASSUME NEW words \in Packets, write_general_registers(words)
      PROVE  GdbIInv' /\ UNCHANGED vars
  <2>1. words \in [Dumped -> Word]
    BY PacketAssumption
  <2> QED BY <1>1, <2>1, BeginWriteKeeps DEF write_general_registers
<1>2. CASE read_general_registers
  BY <1>2, BeginReadKeeps DEF read_general_registers
<1>3. CASE Answered
  BY <1>3, AnsweredKeeps DEF Answered
<1>4. CASE UNCHANGED gdbVars
  BY <1>4, StutterKeeps DEF gdbVars, vars
<1> QED BY <1>1, <1>2, <1>3, <1>4, WriteKeeps, ReadKeeps, ProgramKeeps,
           SingleKeeps DEF GdbNext

LEMMA GdbInitInvariant == GdbInit => GdbIInv
<1> SUFFICES ASSUME GdbInit
             PROVE  GdbIInv
  OBVIOUS
<1>1. TypeOK
  BY InitType DEF GdbInit
<1>2. request.kind = "none" /\ request.mode = NoMode /\ PacketType
  BY <1>1, ZeroType DEF GdbInit, PacketType, TypeOK
<1> QED BY <1>1, <1>2 DEF GdbIInv, Progress, Held, Collected

-----------------------------------------------------------------------------
\* The loops of G and g keep their invariant, with the program and p between
\* the packets.
THEOREM GdbInvariant == GdbSpec => []GdbIInv
BY GdbInitInvariant, GdbStep, PTL DEF GdbSpec

\* The register file stays well formed under gdb, whatever words and status it
\* writes.
THEOREM GdbTypeCorrect == GdbSpec => []TypeOK
<1>1. GdbIInv => TypeOK
  BY DEF GdbIInv
<1> QED BY <1>1, GdbInvariant, PTL

\* A G writes r0 to r15 in the bank of the mode that it found, the status last,
\* and no register of another bank nor an SPSR.
THEOREM GdbWritesItsMode == GdbSpec => []GWritesItsMode
<1>1. GdbIInv => GWritesItsMode
  <2> SUFFICES ASSUME GdbIInv, request.kind = "G", request.left = {},
                      fault = "none", NEW reg \in Reg, NEW mode \in Modes,
                      Visible(reg, mode), Allocated(Cell(reg, mode))
               PROVE  SeenIn(data, reg, mode) =
                         IF /\ reg # SPSR
                            /\ Owner(reg, mode) = Owner(reg, request.mode)
                         THEN request.words[reg]
                         ELSE SeenIn(before, reg, mode)
    BY DEF GWritesItsMode
  <2> QED BY DumpedType, ViewIsSeen DEF GdbIInv, Progress
<1> QED BY <1>1, GdbInvariant, PTL

\* What gdb reads with g after a G is what it wrote, as far as the mode of the
\* status it wrote shares the registers with the mode that the G found.
THEOREM GdbReadsBack == GdbSpec => []RoundTrip
<1>1. GdbIInv => RoundTrip
  BY DEF GdbIInv, Collected, RoundTrip
<1> QED BY <1>1, GdbInvariant, PTL

\* The packets G, g and p keep the banks apart as the instructions do.
THEOREM GdbBanksIsolated == GdbSpec => WriteIsolation
<1>1. GdbIInv /\ [GdbNext]_gdbVars => [fault' = "none" => Isolated(call')]_vars
  BY GdbStep
<1>2. [fault' = "none" => Isolated(call')]_vars =>
        [fault' = "none" =>
            \A reg \in Reg, mode \in Modes :
                Visible(reg, mode) /\ Allocated(Cell(reg, mode)) =>
                    View(reg, mode)' =
                        IF /\ call'.name = "write" /\ call'.reg = reg
                           /\ Visible(reg, call'.mode)
                           /\ Owner(reg, call'.mode) = Owner(reg, mode)
                        THEN call'.value
                        ELSE View(reg, mode)]_vars
  BY DEF Isolated
<1> QED BY <1>1, <1>2, GdbInvariant, PTL DEF GdbSpec, WriteIsolation
=============================================================================
