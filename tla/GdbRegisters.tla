---------------------------- MODULE GdbRegisters ----------------------------
(***************************************************************************)
(* The packets G, g and p of gdb_protocol.c on the register file: one      *)
(* register per step, through the mode that the CPSR has at that step,     *)
(* between accesses of the program.  A packet is handled with the mutex    *)
(* held, so the program does not execute in the middle of one.  The text   *)
(* of a word is its bytes in order (read_uint32, write_uint32); H and q    *)
(* answer constants and have no state.                                     *)
(***************************************************************************)
EXTENDS Registers

CONSTANTS
    Packets,  \* the words of the packets G: r0 to r15, then the CPSR
    MaxWork   \* bound on the writes of the program and the packets

Dumped == General \union {CPSR}

ASSUME PacketAssumption == Packets \subseteq [Dumped -> Word]
ASSUME WorkAssumption == MaxWork \in Nat

VARIABLES
    work,     \* how many there were
    request,  \* the packet, the registers left, and the words and the mode
              \* of the last G
    answer,   \* the words of the buffer
    before    \* history: the register file when the G began

gdbVars == <<data, fault, call, result, work, request, answer, before>>

NoMode == -1
Idle == request.kind = "none" /\ fault = "none"
Work == Idle /\ work < MaxWork /\ work' = work + 1

GdbInit ==
    /\ Init
    /\ work = 0
    /\ request = [kind |-> "none", left |-> {}, mode |-> NoMode,
                  words |-> [reg \in Dumped |-> Zero]]
    /\ answer = [reg \in Dumped |-> Zero]
    /\ before = data

\* the program; what it writes ends the validity of the last G
Program ==
    /\ \/ Idle /\ Read /\ UNCHANGED <<work, request>>
       \/ Work /\ Write /\ request' = [request EXCEPT !.mode = NoMode]
    /\ UNCHANGED <<answer, before>>

\* r0 to r15, then the status
MutantNextOf(left) ==
    IF CPSR \in left THEN CPSR
    ELSE CHOOSE reg \in left : \A other \in left : reg <= other
NextOf(left) == CHOOSE reg \in left : \A other \in left : reg <= other

write_general_registers(words) ==
    /\ Work
    /\ request' = [kind |-> "G", left |-> Dumped, mode |-> registers_get_mode,
                   words |-> words]
    /\ before' = data
    /\ UNCHANGED <<vars, answer>>

write_register ==
    /\ request.kind = "G" /\ request.left # {} /\ fault = "none"
    /\ LET reg == NextOf(request.left)
       IN  /\ IF reg = CPSR
              THEN registers_write_cpsr(request.words[CPSR])
              ELSE registers_write(reg, registers_get_mode, request.words[reg])
           /\ request' = [request EXCEPT !.left = @ \ {reg}]
    /\ UNCHANGED <<work, answer, before>>

read_general_registers ==
    /\ Work
    /\ request' = [request EXCEPT !.kind = "g", !.left = Dumped]
    /\ UNCHANGED <<vars, answer, before>>

MutantReadMode == USR
ReadMode == registers_get_mode

read_register ==
    /\ request.kind = "g" /\ request.left # {} /\ fault = "none"
    /\ LET reg == NextOf(request.left)
       IN  /\ IF reg = CPSR THEN registers_read_cpsr
              ELSE registers_read(reg, ReadMode)
           /\ answer' = [answer EXCEPT ![reg] = result']
           /\ request' = [request EXCEPT !.left = @ \ {reg}]
    /\ UNCHANGED <<work, before>>

\* the answer is sent
Answered ==
    /\ request.kind \in {"G", "g"} /\ request.left = {}
    /\ request' = [request EXCEPT !.kind = "none"]
    /\ answer' = [reg \in Dumped |-> Zero]
    /\ before' = data
    /\ UNCHANGED <<vars, work>>

\* atoi of the number of a register, which gdb writes in base 16
Atoi(n) ==
    LET digits == <<n \div 16, n % 16>>
    IN  IF digits[2] > 9 THEN digits[1] ELSE 10 * digits[1] + digits[2]

\* the assertion of read_register ends the process
read_single_register(n) ==
    /\ Idle
    /\ \/ /\ Atoi(n) \in General
          /\ registers_read(Atoi(n), registers_get_mode)
          /\ UNCHANGED request
       \/ /\ Atoi(n) > 15
          /\ request' = [request EXCEPT !.kind = "aborted"]
          /\ UNCHANGED vars
    /\ UNCHANGED <<work, answer, before>>

\* the registers of gdb: r0 to r15, f0 to f7, fps and cpsr
GdbRegister == 0 .. 25

GdbNext ==
    \/ Program
    \/ \E words \in Packets : write_general_registers(words)
    \/ write_register
    \/ read_general_registers
    \/ read_register
    \/ Answered
    \/ \E n \in GdbRegister : read_single_register(n)

GdbSpec == GdbInit /\ [][GdbNext]_gdbVars

-----------------------------------------------------------------------------
SeenIn(cells, reg, mode) ==
    IF reg = CPSR THEN cells[<<CPSR, 0>>] ELSE Order(cells[Cell(reg, mode)])

\* A G that has been executed wrote r0 to r15 in the bank of the mode that the
\* target was in when it came, although the CPSR of the same packet may select
\* another mode, and no register of another bank, nor an SPSR, has changed.
GWritesItsMode ==
    request.kind = "G" /\ request.left = {} /\ fault = "none" =>
        \A reg \in Reg, mode \in Modes :
            Visible(reg, mode) /\ Allocated(Cell(reg, mode)) =>
                SeenIn(data, reg, mode) =
                    IF reg # SPSR /\ Owner(reg, mode) = Owner(reg, request.mode)
                    THEN request.words[reg]
                    ELSE SeenIn(before, reg, mode)

\* A g that follows a G with no write in between returns the status that the G
\* wrote, and the registers that it wrote as far as the mode of that status
\* shares them with the mode that the G found.
RoundTrip ==
    request.kind = "g" /\ request.left = {} /\ fault = "none"
            /\ request.mode # NoMode =>
        \A reg \in Dumped :
            Owner(reg, request.mode) = Owner(reg, registers_get_mode) =>
                answer[reg] = request.words[reg]
=============================================================================
