----------------------------- MODULE Simulator -----------------------------
(***************************************************************************)
(* The threads of arm_simulator.c around one processor: main, the gdb      *)
(* thread (gdb_listener, gdb_packet_analysis and the handlers of           *)
(* gdb_protocol.c) and the irq thread (irq_listener).  The mutex guards    *)
(* the processor; a thread that holds it takes several steps: fetch,       *)
(* execute, exception for an instruction, two for an interrupt, two for    *)
(* the reading of the registers.  The gdb client and send_irq are the      *)
(* environment; a packet and its answer are one message each               *)
(* (Protocol.tla is about acknowledgements and retransmissions).           *)
(***************************************************************************)
EXTENDS Processor, FiniteSets

CONSTANTS
    BreakAddresses,          \* addresses the client sets breakpoints on
    PcValues,                \* addresses the client writes to the pc
    Inputs,                  \* integers the user may type
    IrqBytes,                \* exceptions the user may send with send_irq
    MAX_BREAKPOINTS_NUMBER,
    MaxRequests,             \* bound on the packets of the client
    MaxInterrupts            \* bound on the bytes of send_irq

ASSUME PcAssumption == PcValues \subseteq Word
ASSUME InputAssumption == Inputs \subseteq Word
ASSUME IrqAssumption == IrqBytes \subseteq 0 .. 255
ASSUME BoundsAssumption == MaxRequests \in Nat /\ MaxInterrupts \in Nat

VARIABLES
    lock,              \* the mutex: "free", or the thread that holds it
    gdb,               \* where the gdb thread is
    irq,               \* where the irq thread is
    main,              \* where main is; the process dies with it
    client,            \* the connection seen from gdb: "idle", "waiting", "closed"
    request,           \* the last packet of the client
    reply,             \* the last answer
    inst,              \* the instruction fetched, or NoInstruction
    result,            \* what arm_execute_instruction returned
    target_exception,  \* what arm_step returned
    breakpoints,       \* the breakpoint table (BreakpointSet.tla)
    snapshot,          \* the registers read so far by read_general_registers
    byte,              \* the byte read from send_irq
    saved,             \* the locals of arm_exception in the irq thread
    sent,              \* how many packets, and how many interrupt bytes
    expect             \* history: where the interrupted program is to go on

processor == <<memory, file, cpsr>>
threads == <<lock, gdb, irq, main>>
stepping == <<inst, result, target_exception>>
vars == <<processor, threads, stepping, client, request, reply, breakpoints,
          snapshot, byte, saved, sent, expect>>

NoInstruction == [op |-> "none", cond |-> "NV"]  \* a failed fetch

Alive == main \in {"join", "destroyed"}

Requests ==
    [cmd : {"s", "c", "g", "?", "k", "unsupported"}, arg : {0}]
        \union [cmd : {"P"}, arg : PcValues]
        \union [cmd : {"Z", "z"}, arg : BreakAddresses]

Init ==
    /\ ProcessorInit
    /\ lock = "free" /\ gdb = "read" /\ irq = "read" /\ main = "join"
    /\ client = "idle" /\ request = [cmd |-> "?", arg |-> 0] /\ reply = ""
    /\ inst = NoInstruction /\ result = 0 /\ target_exception = 0
    /\ breakpoints = {}
    /\ snapshot = [pc |-> 0, cpsr |-> reset_cpsr]
    /\ byte = 0 /\ saved = Interrupted
    /\ sent = [packets |-> 0, interrupts |-> 0]
    /\ expect = 0

-----------------------------------------------------------------------------
(* The environment: gdb sends a packet and waits for the answer, or leaves *)

ClientSend ==
    /\ Alive /\ client = "idle" /\ sent.packets < MaxRequests
    /\ client' = "waiting"
    /\ request' \in Requests
    /\ sent' = [sent EXCEPT !.packets = @ + 1]
    /\ UNCHANGED <<processor, threads, stepping, reply, breakpoints, snapshot,
                   byte, saved, expect>>

ClientClose ==
    /\ Alive /\ client = "idle"
    /\ client' = "closed"
    /\ UNCHANGED <<processor, threads, stepping, request, reply, breakpoints,
                   snapshot, byte, saved, sent, expect>>

SendIrq ==
    /\ Alive /\ irq = "read" /\ sent.interrupts < MaxInterrupts
    /\ irq' = "lock"
    /\ byte' \in IrqBytes
    /\ sent' = [sent EXCEPT !.interrupts = @ + 1]
    /\ UNCHANGED <<processor, lock, gdb, main, stepping, client, request, reply,
                   breakpoints, snapshot, saved, expect>>

-----------------------------------------------------------------------------
(* The gdb thread: gdb_packet_analysis and single_step *)

\* a request without handler is answered without the lock
gdb_packet_analysis ==
    /\ Alive /\ gdb = "read" /\ client = "waiting"
    /\ \/ /\ request.cmd = "unsupported"
          /\ client' = "idle" /\ reply' = ""
          /\ UNCHANGED gdb
       \/ /\ request.cmd # "unsupported"
          /\ gdb' = "lock"
          /\ UNCHANGED <<client, reply>>
    /\ UNCHANGED <<processor, lock, irq, main, stepping, request, breakpoints,
                   snapshot, byte, saved, sent, expect>>

gdb_lock ==
    /\ Alive /\ gdb = "lock" /\ lock = "free"
    /\ lock' = "gdb"
    /\ gdb' = IF request.cmd \in {"s", "c"} THEN "fetch" ELSE "handler"
    /\ UNCHANGED <<processor, irq, main, stepping, client, request, reply,
                   breakpoints, snapshot, byte, saved, sent, expect>>

arm_fetch ==
    /\ Alive /\ gdb = "fetch"
    /\ inst' = IF FetchFails THEN NoInstruction ELSE memory[pc]
    /\ file' = FetchFile
    /\ gdb' = "execute"
    /\ UNCHANGED <<memory, cpsr, lock, irq, main, result, target_exception,
                   client, request, reply, breakpoints, snapshot, byte, saved,
                   sent, expect>>

\* the program goes on where a step taken outside the handler leads
Continues(outcome) ==
    expect' = IF cpsr.mode = IRQ /\ outcome.result # RESET THEN expect
              ELSE outcome.file[Cell(PC, ModeOf(outcome.cpsr))]

arm_execute_instruction ==
    /\ Alive /\ gdb = "execute"
    /\ LET outcome == IF inst.op = "none" THEN Outcome(file, cpsr, 1)
                      ELSE Execute(inst)
       IN  /\ file' = outcome.file
           /\ cpsr' = outcome.cpsr
           /\ result' = outcome.result
           /\ IF outcome.result = 0
              THEN gdb' = "stepped" /\ target_exception' = 0
              ELSE gdb' = "exception" /\ UNCHANGED target_exception
           /\ Continues([outcome EXCEPT !.result = 0])
    /\ UNCHANGED <<memory, lock, irq, main, inst, client, request, reply,
                   breakpoints, snapshot, byte, saved, sent>>

arm_step_exception ==
    /\ Alive /\ gdb = "exception"
    /\ \E input \in Inputs :
          LET outcome == Exception(result, input)
          IN  /\ file' = outcome.file
              /\ cpsr' = outcome.cpsr
              /\ target_exception' = outcome.result
              /\ Continues(outcome)
    /\ gdb' = "stepped"
    /\ UNCHANGED <<memory, lock, irq, main, inst, result, client, request,
                   reply, breakpoints, snapshot, byte, saved, sent>>

-----------------------------------------------------------------------------
(* The gdb thread: the end of the handlers *)

\* gdb_send_stop_reason
StopReason ==
    IF target_exception = UNDEFINED_INSTRUCTION THEN "S04"
    ELSE IF target_exception = PREFETCH_ABORT THEN "S0A"
    ELSE IF target_exception = DATA_ABORT THEN "S0B"
    ELSE IF target_exception = END_SIMULATION THEN "X05"
    ELSE "S05"

Answer(answer) ==
    /\ gdb' = "unlock"
    /\ reply' = answer
    /\ client' = "idle"

MutantStopped == pc \in breakpoints
Stopped == pc \in breakpoints \/ target_exception # 0

\* step answers after one instruction, cont when it is stopped
step_or_cont ==
    /\ Alive /\ gdb = "stepped"
    /\ \/ /\ request.cmd = "s" \/ Stopped
          /\ Answer(StopReason)
       \/ /\ request.cmd = "c" /\ ~Stopped
          /\ gdb' = "fetch"
          /\ UNCHANGED <<client, reply>>
    /\ UNCHANGED <<processor, lock, irq, main, stepping, request, breakpoints,
                   snapshot, byte, saved, sent, expect>>

MutantReadRegister(reg) == arm_read_register(reg)

\* gdb reads the register itself, without the pc + 4 of the instructions
read_register(reg) == ReadAs(registers_get_mode, reg)

\* read_general_registers: the registers, then the CPSR
read_general_registers ==
    /\ Alive /\ request.cmd = "g"
    /\ \/ /\ gdb = "handler"
          /\ snapshot' = [snapshot EXCEPT !.pc = read_register(PC)]
          /\ gdb' = "cpsr"
          /\ UNCHANGED <<client, reply>>
       \/ /\ gdb = "cpsr"
          /\ snapshot' = [snapshot EXCEPT !.cpsr = cpsr]
          /\ Answer("registers")
    /\ UNCHANGED <<processor, lock, irq, main, stepping, request, breakpoints,
                   byte, saved, sent, expect>>

\* gdb writes the register in the bank of the current mode, and an address
\* outside the memory too
write_register(reg, value) == WriteAs(file, registers_get_mode, reg, value)

\* 'P' on the pc
write_single_register ==
    /\ Alive /\ gdb = "handler" /\ request.cmd = "P"
    /\ file' = write_register(PC, request.arg)
    /\ expect' = IF cpsr.mode = IRQ THEN expect ELSE request.arg
    /\ Answer("OK")
    /\ UNCHANGED <<memory, cpsr, lock, irq, main, stepping, request,
                   breakpoints, snapshot, byte, saved, sent>>

breakpoint ==
    /\ Alive /\ gdb = "handler" /\ request.cmd \in {"Z", "z"}
    /\ IF request.cmd = "Z"
       THEN IF Cardinality(breakpoints) < MAX_BREAKPOINTS_NUMBER
            THEN breakpoints' = breakpoints \union {request.arg} /\ Answer("OK")
            ELSE UNCHANGED breakpoints /\ Answer("E04")
       ELSE IF request.arg \in breakpoints
            THEN breakpoints' = breakpoints \ {request.arg} /\ Answer("OK")
            ELSE UNCHANGED breakpoints /\ Answer("E05")
    /\ UNCHANGED <<processor, lock, irq, main, stepping, request, snapshot,
                   byte, saved, sent, expect>>

reason ==
    /\ Alive /\ gdb = "handler" /\ request.cmd = "?"
    /\ Answer(StopReason)
    /\ UNCHANGED <<processor, lock, irq, main, stepping, request, breakpoints,
                   snapshot, byte, saved, sent, expect>>

\* kill_request sends nothing and shuts the connection, which gdb then closes
kill_request ==
    /\ Alive /\ gdb = "handler" /\ request.cmd = "k"
    /\ gdb' = "unlock"
    /\ client' = "closed"
    /\ UNCHANGED <<processor, lock, irq, main, stepping, request, reply,
                   breakpoints, snapshot, byte, saved, sent, expect>>

Release == lock' = "free"

gdb_unlock ==
    /\ Alive /\ gdb = "unlock"
    /\ Release
    /\ gdb' = "read"
    /\ UNCHANGED <<processor, irq, main, stepping, client, request, reply,
                   breakpoints, snapshot, byte, saved, sent, expect>>

\* the scanner meets the end of the stream and the thread exits
gdb_listener_exit ==
    /\ Alive /\ gdb = "read" /\ client = "closed"
    /\ gdb' = "exited"
    /\ UNCHANGED <<processor, lock, irq, main, stepping, client, request, reply,
                   breakpoints, snapshot, byte, saved, sent, expect>>

-----------------------------------------------------------------------------
(* The irq thread: irq_listener and arm_exception *)

MutantIrqLock ==
    /\ irq = "lock"
    /\ UNCHANGED lock

IrqLock ==
    /\ irq = "lock" /\ lock = "free"
    /\ lock' = "irq"

irq_lock ==
    /\ Alive
    /\ IrqLock
    /\ irq' = "sample"
    /\ UNCHANGED <<processor, gdb, main, stepping, client, request, reply,
                   breakpoints, snapshot, byte, saved, sent, expect>>

\* arm_exception up to the first write; a masked interrupt is dropped, and a
\* software interrupt runs the service of the word before the pc
arm_exception ==
    /\ main = "join" /\ irq = "sample"
    /\ \/ /\ byte = INTERRUPT /\ cpsr.i = 0
          /\ saved' = Interrupted
          /\ irq' = "enter"
          /\ UNCHANGED <<file, cpsr, expect>>
       \/ /\ byte = RESET
          /\ file' = Reset(file).file /\ cpsr' = Reset(file).cpsr
          /\ expect' = 0
          /\ irq' = "unlock"
          /\ UNCHANGED saved
       \/ /\ byte = SOFTWARE_INTERRUPT
          /\ \E service \in SwiServices, input \in Inputs :
                file' = Service(service, input).file
          /\ irq' = "unlock"
          /\ UNCHANGED <<cpsr, expect, saved>>
       \/ /\ byte \notin {RESET, SOFTWARE_INTERRUPT}
          /\ byte = INTERRUPT => cpsr.i = 1
          /\ irq' = "unlock"
          /\ UNCHANGED <<file, cpsr, expect, saved>>
    /\ UNCHANGED <<memory, lock, gdb, main, stepping, client, request, reply,
                   breakpoints, snapshot, byte, sent>>

\* the writes of arm_exception, from what it has read
arm_exception_enter ==
    /\ main = "join" /\ irq = "enter"
    /\ file' = EnterInterrupt(saved).file
    /\ cpsr' = EnterInterrupt(saved).cpsr
    /\ irq' = "unlock"
    /\ UNCHANGED <<memory, lock, gdb, main, stepping, client, request, reply,
                   breakpoints, snapshot, byte, saved, sent, expect>>

irq_unlock ==
    /\ Alive /\ irq = "unlock"
    /\ Release
    /\ irq' = "read"
    /\ UNCHANGED <<processor, gdb, main, stepping, client, request, reply,
                   breakpoints, snapshot, byte, saved, sent, expect>>

-----------------------------------------------------------------------------
(* main: joins the gdb thread only, frees the processor and returns *)

Joined == gdb = "exited"

main_destroy ==
    /\ main = "join" /\ Joined
    /\ main' = "destroyed"
    /\ UNCHANGED <<processor, lock, gdb, irq, stepping, client, request, reply,
                   breakpoints, snapshot, byte, saved, sent, expect>>

main_return ==
    /\ main = "destroyed"
    /\ main' = "returned"
    /\ UNCHANGED <<processor, lock, gdb, irq, stepping, client, request, reply,
                   breakpoints, snapshot, byte, saved, sent, expect>>

\* the irq thread uses the processor that main has freed: the address
\* sanitizer ends the process
irq_use_after_free ==
    /\ main = "destroyed" /\ irq \in {"sample", "enter"}
    /\ main' = "aborted"
    /\ UNCHANGED <<processor, lock, gdb, irq, stepping, client, request, reply,
                   breakpoints, snapshot, byte, saved, sent, expect>>

Ended == ~Alive /\ UNCHANGED vars

-----------------------------------------------------------------------------
GdbThread ==
    \/ gdb_packet_analysis \/ gdb_lock
    \/ arm_fetch \/ arm_execute_instruction \/ arm_step_exception
    \/ step_or_cont \/ read_general_registers \/ write_single_register
    \/ breakpoint \/ reason \/ kill_request \/ gdb_unlock \/ gdb_listener_exit

IrqThread ==
    \/ irq_lock \/ arm_exception \/ arm_exception_enter \/ irq_unlock
    \/ irq_use_after_free

MainThread == main_destroy \/ main_return

Next ==
    \/ ClientSend \/ ClientClose \/ SendIrq
    \/ GdbThread \/ IrqThread \/ MainThread
    \/ Ended

Safety == Init /\ [][Next]_vars

\* the system runs every thread that can run; nothing is asked of gdb and of
\* send_irq
Spec ==
    /\ Safety
    /\ WF_vars(GdbThread) /\ WF_vars(IrqThread) /\ WF_vars(MainThread)

-----------------------------------------------------------------------------
GdbHolds == {"fetch", "execute", "exception", "stepped", "handler", "cpsr",
             "unlock"}
IrqHolds == {"sample", "enter", "unlock"}

TypeOK ==
    /\ ProcessorTypeOK
    /\ inst \in Instruction \union {NoInstruction}
    /\ lock \in {"free", "gdb", "irq"}
    /\ gdb \in {"read", "lock", "exited"} \union GdbHolds
    /\ irq \in {"read", "lock"} \union IrqHolds
    /\ main \in {"join", "destroyed", "returned", "aborted"}
    /\ client \in {"idle", "waiting", "closed"}
    /\ request \in Requests
    /\ breakpoints \subseteq BreakAddresses
    /\ snapshot \in [pc : Word, cpsr : Status]
    /\ byte \in 0 .. 255
    /\ saved \in [cpsr : Status, sp : Word, lr : Word]
    /\ expect \in Word
    /\ sent \in [packets : 0 .. MaxRequests, interrupts : 0 .. MaxInterrupts]

\* The processor has one user at a time: a thread is between its
\* pthread_mutex_lock and its pthread_mutex_unlock exactly when it holds the
\* mutex, so no interrupt falls inside an instruction or a register dump.
LockDiscipline ==
    /\ gdb \in GdbHolds <=> lock = "gdb"
    /\ irq \in IrqHolds <=> lock = "irq"

\* The interrupted program goes on at the address where it was stopped:
\* whenever the processor is out of the handler and between two instructions,
\* the pc is where the last instruction outside the handler led.  This is what
\* the return address of arm_exception, the pc + 4 of
\* arm_read_register_internal, the SUBS PC of apply_operator and the mutex are
\* for.  It is about addresses only: SUBS PC overwrites the flags it has
\* restored, and a conditional branch then goes where those flags lead.
ProgramResumes ==
    cpsr.mode # IRQ /\ gdb \notin {"execute", "exception"} => pc = expect

\* An interrupt never interrupts the handler, and the handler can always go
\* back: interrupts are masked in it, and the status saved is one of the
\* program, with interrupts enabled.
HandlerCanReturn ==
    cpsr.mode = IRQ =>
        /\ cpsr.i = 1
        /\ file[Cell(SPSR, IRQ)].mode # IRQ /\ file[Cell(SPSR, IRQ)].i = 0

\* What read_general_registers sends is one state of the processor, never the
\* pc of the program with the CPSR of the handler.
CoherentView ==
    gdb = "unlock" /\ client = "idle" /\ request.cmd = "g" =>
        snapshot = [pc |-> pc, cpsr |-> cpsr]

\* main frees the processor only when the gdb thread is done with it.
ProcessorOutlivesGdb ==
    main # "join" => gdb = "exited" /\ client = "closed"

\* Every packet of the client is answered, or closes the connection.
RequestAnswered == client = "waiting" ~> client # "waiting"

\* Every interrupt byte read is handled, unless the process ends.
IrqServed == irq = "lock" ~> irq = "read" \/ ~Alive

-----------------------------------------------------------------------------
\* The interrupt handler starts at the vector, where the linker scripts put
\* .irq_vector: the next instruction fetched is the one at 0x18.
StartsAtVector ==
    [][irq = "enter" /\ irq' = "unlock" => pc' = IRQ_vector_ADR]_vars
=============================================================================
