# A TLA+ model of ARM-SIM

ARM-SIM simulates a subset of ARMv5. `arm_simulator` is a gdb server: gdb loads
a program in the memory of the simulated processor, runs it, stops it and looks
at it over a TCP connection; a second connection delivers interrupts. This
directory models the simulator in TLA+, checks the model with TLC on small
instances and proves its main properties with TLAPS for all instances.
`PROJECT.json` maps every definition to the lines it stands for.

## 1. The system

| component | state | operations | used by |
|---|---|---|---|
| threads (`arm_simulator.c`) | the mutex, three threads | `main`, `gdb_listener`, `irq_listener` | the system |
| scanner (`scanner.l`, and `scanner.c` that flex generates from it) | input buffer, automaton, place in the text | `yylex`, `yy_get_next_buffer` | gdb thread |
| protocol (`scanner.l`, `gdb_protocol.c`) | error buffer, last answer | tokens `+ - $…#cc`, checksum, acknowledgement, retransmission | scanner |
| handlers (`gdb_protocol.c`) | `target_exception`, breakpoint table | `s c g G p P m X Z z ? k H q` | protocol, under the mutex |
| breakpoint table (`gdb_protocol.c`) | sorted array and its length | find, add, remove | `Z`, `z`, `cont` |
| processor (`arm_core.c`, `arm_instruction.c`, `arm_branch_other.c`, `arm_exception.c`) | registers, memory | fetch, condition, dispatch, exception | handlers, irq thread |
| registers (`registers.c`) | 18 arrays of banked cells, pointers by mode | create, read, write, CPSR, SPSR | processor, handlers, trace |
| memory (`memory.c`) | array of bytes | read and write of 1, 2, 4 bytes in two orders | processor, handlers |
| data processing (`arm_data_processing.c`) | none | shifter operand, sixteen operators, flags, multiplication | processor |
| load and store (`arm_load_store.c`) | none | LDR, STR, LDRH, LDRD, LDM, STM | processor |
| trace, debug | flags, sorted list of names | add, print | all |

How they interact. The gdb thread scans the connection and, for each packet
with a right checksum, takes the mutex, runs the handler and releases it. `s`
and `c` step the processor: `arm_step` fetches, executes, and passes a non-zero
result to `arm_exception`; `c` goes on until a breakpoint or an exception. The
irq thread takes the mutex for each byte it reads and calls `arm_exception`
with it. `main` waits for the gdb thread only, then frees everything.

What is hard in it:

- two threads and one processor: an interrupt has to fall between two
  instructions, and the program has to go on where it was stopped;
- the banks: a write before or after a change of mode goes to another register;
- a connection on which packets come in pieces, are damaged, repeated, and mixed
  with bytes that are no packet;
- an instruction of several steps of which one fails (LDM, write back), and one
  that changes the mode half way;
- loops over arrays at their bounds (table, error and input buffers, memory);
- arithmetic at the edges of the word (carry, overflow, shifts by 0 and by 32).

What makes each component correct is stated in section 3; the hazards are
listed one by one in `PROJECT.json`, each with the properties aimed at it.

## 2. The modules

| module | models | state and actions |
|---|---|---|
| `BreakpointSet` | what the table promises: a set of addresses of bounded size | one action per answer |
| `Breakpoints` | the table and its three loops | `breakpoints`, `breakpoints_number` and the locals; one step per loop iteration |
| `RegisterBanks` | layout of `registers_create`: a pointer of `ptrs` is the cell it points to | operators |
| `Registers` | `registers.c` with the byte order of the host, and `trace_arm_state` | one action per function; a word is the tuple of its bytes |
| `Processor` | fetch, conditions, branches, MRS, SUB and CMP, exceptions | operators from `(file, cpsr)` to an outcome |
| `Simulator` | the threads, the mutex, the handlers, the end of the process | one action per step of a thread |
| `GdbRegisters` | `G`, `g` and `p` on those registers | extends `Registers`; one step per register, accesses of the program between packets |
| `Scanner` | the generated scanner: compressed tables, match loop, end of buffer, reads | one step per character matched or scanned again (`yy_get_previous_state`), per token, per enlargement of the buffer and per read; the environment chooses the fragments |
| `Protocol` | what the rules do with a token: checksum, acknowledgement, retransmission | two FIFO directions, packets numbered by request; gdb is the environment |
| `Memory` | `memory.c` | `memory_read`, `memory_write` of any width |
| `GdbMemory` | `m` and `X` on that memory, with the escapes of `X` | extends `Memory`; one step per byte |
| `DataProcessing` | shifter operand, `apply_operator`, `arm_multiply` | words of `W` bits, decode then operate |
| `LoadStore` | `arm_load_store.c` on the registers of all modes and a memory | one step for a transfer of one value; LDM and STM start, move one register per step, end |

`Simulator` extends `Processor`, which extends `RegisterBanks` (shared with
`Registers` and `LoadStore`); `GdbMemory` extends `Memory`, `GdbRegisters`
extends `Registers`; `Breakpoints` implements `BreakpointSet`, and `Simulator`
uses the table as that set. `Scanner` shows that the bytes of a connection become
the tokens of `scanner.l`; `Protocol` starts from those tokens. Each `MC…` module
gives the constants values; each `.cfg` is one question.

Abstractions worth knowing:

- An instruction is the record of its decoded fields; the word size of
  `Processor` is a constant. Of the registers that no mode banks `r0` stands for
  all. Loads and stores are not in `Processor` (they are in `LoadStore`, on one
  thread); "fault" stands there for any access that fails.
- `LoadStore` has bytes of a few bits and words of four bytes; an instruction is
  the record of its fields, a program the sequence of those executed. An
  immediate shift of an offset is at most `MaxShift`, 31 in the code. The local
  `data` of LDM starts with any value of `Garbage`, because the code does not
  initialise it and reads that fail leave it.
- The operators `& | ^` of C on the words of `DataProcessing` are the operations
  on the sets of their bits, and powers of two are a function defined by its
  recursion; both can be reasoned about for every width.
- Pointers of `Scanner` are indexes of the buffer; a byte is one of nine that the
  automaton tells apart; bytes of `malloc` and `realloc` are `Junk`, which no
  character class has. `buf_size` doubles without the limit of an `int`, which
  only a packet of 2^30 bytes would meet.
- A packet and its answer are one message in `Simulator`; `Protocol` has the
  bytes, and an answer there has the number of its request.
- A service that prints has no effect on the state. `scanint` returns any
  integer of `Inputs`; waiting for the keyboard is part of its step. A software
  interrupt of `send_irq` runs the service that the low bits of the word before
  the pc name (`SwiServices`): its own for a SWI, any for another instruction,
  whose bits the model does not have, and for a read that fails, which leaves
  the local `instruction` uninitialised. `IrqBytes` are the bytes sent; those
  that are neither reset, interrupt nor software interrupt have no effect.
- Undefined accesses (a byte past an array, a NULL register, freed memory) end
  the process, which is what the address sanitizer of `Makefile.am` does. The
  sanitizer sees the end of an allocation, not the end of a field: an answer of
  `m` that is longer than `gdb->packet` goes on over the breakpoint table,
  `breakpoints_number`, `len` and the pointer `buffer` (`spoilt` in `GdbMemory`
  counts those bytes), is sent nevertheless, and ends the process past the
  structure, or at the next use of an overwritten `buffer`. The other modules
  assume that gdb keeps to the `PacketSize` that `query` announces, so that the
  table of `Breakpoints` is its own.
- A fetch fails in `Processor` when it starts outside the memory. One that starts
  in its last three bytes runs past the array (`memory.c:107`), which is in
  `Memory` and `LoadStore` (`fault = "overrun"`) and not in `Processor`.
- gdb closes its connection in `Simulator` only when it waits for no answer, and
  closes it after the `shutdown` of `kill_request`. A gdb that dies while a
  request runs is left out: the handler would go on and write to a closed socket.
- SUBS and the other instructions with S and Rd = 15, which restore the CPSR
  (`arm_data_processing.c:213`), are not in `DataProcessing`; `Processor` has SUBS
  PC, the one that handlers return with.
- History variables (`expect` in `Simulator`, `before` in `GdbMemory` and
  `GdbRegisters`, `source` and `applied` in `DataProcessing`, `history` in
  `LoadStore`, `consumed` and `token` in `Scanner`) are read by no guard.
- Definitions named `Mutant…` are the bugs the properties are tested with; no
  specification uses them.

## 3. What the runs check

| run | properties | bounds, and why they are enough |
|---|---|---|
| `breakpoints` | `Sorted`, `SearchWindow`, `ShiftGap` (loop invariants), `ImplementsSet` (refinement), `EveryRequestAnswered` | 4 addresses, 3 entries: the table gets full and refuses, and every shift length occurs |
| `registers` | `WriteIsolation`: a write is seen in exactly the modes that share the register; `GWritesItsMode`, `RoundTrip`: the packets `G` and `g` around a change of mode | one register of each kind of bank, modes SYS, IRQ, FIQ, SVC, USR, and the T bit; packets with a word of their own for each register, so that an exchange of two would be seen; three writes or packets: a change of mode, a `G` and the `g` that reads it back |
| `memory` | `WriteReadsBack`: after a write, reads of every width in both orders that meet it, inside, around or across its ends, find its bytes | 5 bytes: words at two addresses, every overlap, accesses past the end |
| `gdb_memory` | `LoadIsExact`, `AnswerIsMemory`, `AnswerFits`: an answer with room in `gdb->packet` stays there | a memory of 5 bytes, byte values `}`, `]` and 0 (escaped, the result of an escape, and plain), packets inside, across and beyond the end; a packet of 8 characters with 1 byte of table and 2 of pointer behind it: answers of 1 byte fit, longer ones overwrite the table, then the pointer, then leave the structure |
| `data_processing` | `ShifterIsArithmetic` (amounts other than 0), `SignedComparison` | all operands, shifts and flags on 4-bit words; shifts up to 9 pass the width and twice the width |
| `load_store` | `AbortIsPrecise`, `AddressingModes` (against a reference in signed integers), `BlockAddress`, `StackRestores`, `BanksUndisturbed` | bytes of two bits, five words of memory: every field of one instruction, bases inside, at the edge and outside, addresses that wrap; STM, a load over a saved register, LDM |
| `scanner` | `TokensOfTheInput` (against the rules of `scanner.l`), `NothingLost`, `NoInternalError`, `NoTokenHeldBack`, `EverythingScanned` | all inputs up to 3 bytes, packets cut short, broken and complete with NUL bytes and tokens behind, in every fragmentation; a buffer of 2 that is moved and doubled twice, reads of at most 3 |
| `simulator` | `LockDiscipline`, `ProgramResumes`, `HandlerCanReturn`, `CoherentView`; `RequestAnswered`, `IrqServed` | 3 packets and 2 bytes of `send_irq` (reset, interrupt, software interrupt; a byte without effect does what a masked interrupt does) in every interleaving (an interrupt before, between and after packets, two in a row, one in the handler); programs with a call, services, a failed access, an undefined instruction, and a pc that wraps |
| `protocol` | `ExecutedOnce`, `AnswersMatch`, `RequestCompletes`, and the bound of the error buffer in `TypeOK` | 4 requests, 4 damaged packets in both directions, 4 bytes that are no token and a buffer of 3, which is emptied on the way |

The runs of the modules that have a type invariant check it too.
`ProgramResumes` deserves a sentence: `expect` is where the last instruction
outside the handler led; the invariant says that outside the handler and between
instructions the pc is there: the program goes on at the address where it was
stopped. It involves the return address of `arm_exception`, the pc + 4 of
`arm_read_register_internal`, the restoring SUBS PC of `apply_operator`, the banks
and the mutex. It is about addresses only: the flags of the interrupted program
are not restored (SUBS PC overwrites them, `arm_data_processing.c:224`), and a
conditional instruction after the handler may go another way than without the
interrupt; `expect` follows it.

`ShifterIsArithmetic` leaves out the amount 0 (a shift by a register of 0, and the
immediates 0 that stand for a shift by 32 or for RRX) and rotated immediates.

Runs that find a disagreement between the code and what the repository says of
it:

| run | the code | the repository |
|---|---|---|
| `registers_fiq` | SP and LR of FIQ are outside their array of six entries | "the list of 37 registers" (`registers.h:59`) |
| `simulator_vector` | the handler starts at 0x14 | `.irq_vector 0x18` (`Showcase/linker_script:10`) |
| `data_processing_carry` | ADDS never sets C | "true result, recast in 32b when writed" (`arm_data_processing.c:132`) |

More deviations are in the model without a run of their own, most of them
because the repository says nothing definite about them:

- `cont` keeps the mutex while it executes (`gdb_protocol.c:582`): with an endless
  program such as `Showcase/clock.c` the irq thread waits for ever, and so does
  gdb. `IrqServed` and `RequestAnswered` therefore speak of programs that end;
- LDM and STM drop the errors of their accesses and return 0
  (`arm_load_store.c:595`), against the comment of `arm_load_store.h`: an LDM
  outside of the memory loads an uninitialised local;
- the miscellaneous transfers write the base before an access that may fail, and
  the register after one that has failed (`arm_load_store.c:427`, `518`);
- LDM with S in USR or SYS reads a SPSR through a NULL pointer, and LDM with S
  and write back writes the base of the mode that comes back
  (`arm_load_store.c:616`): the exception of `BanksUndisturbed`;
- RRX of an offset shifts the number of the register (`arm_load_store.c:310`),
  and a multiplication always changes Z and C (`arm_branch_other.c:96`);
- `p` reads the hexadecimal number of a register with `atoi`
  (`gdb_protocol.c:327`): r10 to r15 are r0 for it, the numbers of f0 to
  f5 are r10 to r15, and those of f6 to the CPSR end the server by an assertion;
- a stray NUL byte is held back until the next byte arrives (`scanner.c:852`):
  the exception of `NoTokenHeldBack`; a connection that is reset ends the whole
  process (`scanner.c:630`);
- after a byte that is no token (the Ctrl-C of gdb) the scanner sends `-` only
  when the next token arrives (`scanner.l:60`); gdb repeats that request, it is
  executed twice, and the surplus answer counts for the next request.
  `ExecutedOnce` and `AnswersMatch` therefore speak of a quiet line;
- half word and word accesses that start in the last bytes of the memory run
  past its end (`memory.c:107`): `fault = "overrun"` in `Memory`;
- an answer to `m` of more than 2045 bytes overruns `gdb->packet`
  (`gdb_protocol.c:313`), into the breakpoint table and beyond: the limit of
  `AnswerFits`. `query` announces a `PacketSize` that keeps gdb below it, and
  nothing in `read_memory` refuses a longer request;
- tracing USR or SYS reads a SPSR through a NULL pointer (`trace.c:139`):
  `fault = "null"` in `Registers`;
- a failed data access stops gdb with S05, not with the S0B of DATA_ABORT
  (`gdb_protocol.c:188`).

Deadlock is checked except in the specifications that may stop: a process that
has died (`GdbRegisters`, `Memory`, `GdbMemory`), a program that is at its end
(`LoadStore`), a connection that is closed (`Scanner`) or on which both sides
wait (`Protocol`).

## 4. Fairness

Every liveness property assumes weak fairness of the steps of a thread that can
run, as the scheduler of the system gives it, and nothing of gdb or `send_irq`:

- `Breakpoints`: the handler, which waits for nobody;
- `Simulator`: each of the three threads. Weak fairness of the irq thread does
  not promise it the mutex; it gets it because packets are finitely many and the
  programs end;
- `Scanner`: `yylex` runs on, and a read returns when bytes have arrived or the
  connection is closed; nothing is assumed of a connection that is reset;
- `Protocol`: the gdb thread reads what has arrived, and gdb what it waits for;
  damages are finitely many (`MaxDamaged`).

## 5. What is proved

The theorems hold for every value of the constants: every program, table and
buffer size, word size, set of addresses, sequence of packets. They assume only
the named `ASSUME`s of the modules, which TLC evaluates in the runs: sizes are
positive, `WordSize` of `Processor` is a multiple of four and at least 4096, the
bytes of `GdbMemory` are among 0 to 255, `gdb->packet` has room for the frame
around an answer of three characters and of the announced `PacketSize`, the bytes
of `send_irq` are bytes, programs are sequences of instructions,
`Regs` of `LoadStore` has the odd register after each even one below LR, for
LDRD and STRD, an immediate shift there is shorter than a word (2 to the shift
divides the word size, which is any fourth power of a byte size otherwise), and
the words of `DataProcessing` have 4, 8, 16 or 32 bits.

| module | theorems | properties of the runs they state |
|---|---|---|
| `BreakpointsProofs` | `TableTypeCorrect`, `TableSorted`, `SearchFindsEntry`, `ShiftKeepsEntries`, `TableImplementsSet`, `HandlerTerminates` | `TypeOK`, `Sorted`, `SearchWindow`, `ShiftGap`, `ImplementsSet` |
| `RegistersProofs` | `RegistersTypeCorrect`, `BanksIsolated`, `GdbTypeCorrect`, `GdbWritesItsMode`, `GdbReadsBack`, `GdbBanksIsolated` | `TypeOK`, `WriteIsolation`, `GWritesItsMode`, `RoundTrip` |
| `MemoryProofs` | `MemoryTypeCorrect`, `MemoryReadsBack`, `LoadExact`, `AnswerExact`, `AnswerStaysInPacket` | `TypeOK`, `WriteReadsBack`, `LoadIsExact`, `AnswerIsMemory`, `AnswerFits` |
| `DataProcessingProofs` | `DataProcessingTypeCorrect`, `ShifterComputesArithmetic`, `ComparisonDecidesOrder` | `ShifterIsArithmetic`, `SignedComparison` |
| `LoadStoreProofs` | `LoadStoreTypeCorrect`, `PreciseAbort`, `AddressingModesAreRight`, `BlockIsWalked`, `BlocksComeBack`, `OtherBanksUndisturbed` | `TypeOK`, `AbortIsPrecise`, `AddressingModes`, `BlockAddress`, `StackRestores`, `BanksUndisturbed` |
| `ProtocolProofs` | `ProtocolTypeCorrect`, `RequestsExecutedOnce`, `AnswersAreMatched` | `TypeOK`, `ExecutedOnce`, `AnswersMatch` |
| `ScannerProofs` | `ScannerTypeCorrect`, `ScannerHasNoInternalError`, `ScannerLosesNothing`, `ScannerHoldsNoTokenBack`, `ScannerFindsTheTokens`, `ScannerEndsWithNothingLeft` | `TypeOK`, `NoInternalError`, `NothingLost`, `NoTokenHeldBack`, `TokensOfTheInput` |
| `SimulatorProofs` | `MutualExclusion`, `OutlivesGdb`, `TypeCorrect`, `HandlerReturns`, `ViewIsCoherent`, `InterruptedProgramResumes` | `LockDiscipline`, `TypeOK`, `HandlerCanReturn`, `CoherentView`, `ProgramResumes` |

The inductive invariants, and why the properties need them:

- Table: `IInv` is type correctness, `Sorted`, `SearchWindow` and `ShiftGap`.
  While entries are shifted one of them is a duplicate, so `Sorted` speaks of the
  live entries; the insertion needs to know that the search has looked
  everywhere and what lies on each side of the gap. For the refinement, the
  cardinality of the contents is the length of the table. `HandlerTerminates`
  counts what is left to do (`Work`: the window of the search, then the entries
  to shift) and shows that every step lowers it.
- Registers: two modes share a cell exactly when the architecture says they
  share the register, and the byte swap is its own inverse. `GdbIInv` adds, for a
  `G` in progress, that the mode is the one found as long as the status is not
  written, and that the registers written so far, and no others, have the words
  of the packet (`Progress`); that they stay until the next write (`Held`); and
  what a `g` has collected so far (`Collected`).
- Memory: what a step can do (`StepOK`), and which byte of the memory a read
  takes and a write changes at each place (`ReadByte`, `WrittenByte`).
  `GdbMemoryInv` follows the loops of `m` (`Reading`) and of `X` (`Writing`): after
  `count` bytes the rest of the packet starts at the place of the next byte in
  the escaped string, whose length depends on all the escapes before it, the
  bytes stored are the ones meant and the others are untouched. The bytes of an
  answer of `m` are the ones asked for that are in the memory (`CoveredBytes`);
  `AnswerExact` holds of answers that overrun the packet too, because the bytes
  overwritten are not those of the answer, and `AnswerStaysInPacket` says which
  ones do not overrun it.
- Data processing: `DPInv` is type correctness and the two properties; the work
  is in the operators. The provers have no induction and know nothing of powers
  of two: `Induction` is a statement about sets of naturals, from the
  well-foundedness of their order in the library; `PowerRecursion` shows that
  the recursion defines a function, from its prefixes; `SameBits` that a word is
  the sum of its bits, `OrIsSum` that the `|` of two words without a common bit
  is their sum, which is what makes the shifts and masks of `util.c` quotients and
  rotations, and `EverySetOfBits` that `& | ^` give words.
- Load and store: `LSInv` adds to type correctness that the block instruction
  whose registers are moved is the last one begun (`Walking`), so that the
  address in the loop can be compared with the one computed at its start. For
  `AddressingModes` each shift is compared with the product, quotient or rotation
  of the reference (`ScaledIsOffset`); the base may be any number that is the
  offset modulo the word size (`SameBase`). For `StackRestores`, `StackInv` says
  what the loop has moved so far (`WalkInv`: the registers below those left are
  in their words of the block), what LDM or STM has left when it ends
  (`LastInv`), and that the next instruction finds it (`PastInv`); an LDM then
  reads in every word what the STM wrote there (`ReadWritten`, from the four
  digits of a word), since the words do not overlap (`RankGap`), and the
  addresses of the two blocks are the same (`BlockReverses`).
- Protocol: `QuietInv` — on a quiet line the two directions hold one of six
  contents (`Positions`), each fixing how many requests have been executed and
  answers accepted; with it `executed` and `answers` count from 1. Without it,
  a repetition could not be told from a request that was executed already.
- Scanner: a state of the automaton stands for a shape of the text scanned
  (`Shape`), which is stated about the input and not about the buffer, so it
  survives the moves; `Holds` says that the buffer has the bytes left and the two
  end-of-buffer characters behind them; `Remembers` that a state inside a packet
  has its `$` to back up to. `Finding` says which of the three cases the end of
  the match loop is: one character that starts no packet, a whole packet, or an
  end-of-buffer character after a text that may go on. The theorem on the type
  also shows that the second enlargement of `yy_get_next_buffer`
  (`scanner.c:1074`), which the model leaves out, is never needed.
  `ScannerEndsWithNothingLeft` is the safety half of `EverythingScanned`.
- Simulator: the lemmas on `Processor` come first (every instruction, exception,
  reset and interrupt entry keeps the registers and the status well formed);
  then four invariants on top of each other: `ControlInv` (who is where,
  who holds the mutex, which connection state goes with it); `MachineInv`
  (registers hold words, the status is one of a program with interrupts enabled
  or one of the handler with interrupts masked, the saved SPSR is one of a
  program); `ViewInv` (what has been read so far is still true while the mutex
  is held); `ResumeInv` (the link register of the handler, and the one that
  `arm_exception` has read and not yet written, lead to where the program is
  expected).

`InterruptedProgramResumes` has two hypotheses, because it is false for other
programs: `HandlerConvention` — the handler does not overwrite its link register
and returns with `SUBS PC, LR, #4` — and `Aligned` — the program is interrupted at
a multiple of four. TLC finds both true of the programs of the run `simulator`.

Only model-checked is liveness (`EveryRequestAnswered`, `RequestAnswered`,
`IrqServed`, `RequestCompletes`, `EverythingScanned`): fairness and
ENABLED are out of the prover's reach. `HandlerTerminates` and
`ScannerEndsWithNothingLeft` are what two of them rest on besides fairness. Every
other property of a passing run is stated by a theorem.

## 6. What is not modelled

- The text of the answers of `H` and `q` and the signals of `C` and `S` (which
  the code ignores): no state depends on them.
- MSR, CLZ, BLX and the media instructions, for which the code has no handler.
- The parts of `scanner.c` that no rule of `scanner.l` uses: `input`, `unput`,
  the stack of buffers, scanning of a string, accessors.
- `debug.c` (a sorted list filled from the command line before the threads
  start), the formatted output of `trace.c`, `csapp.c` (vendored wrappers of
  system calls), `arm.c` (no state).

## 7. Status of the plan

The table, the registers and the packets on them, the processor and the threads,
the scanner and the protocol, the memory, data processing and load and store are
modelled, and every safety property of the runs is proved. What could follow:

1. The processor and `LoadStore` composed, so that a program of `Simulator` can
   load and store while the other threads run.
2. A measure for the scanner, as the one of the table, so that its liveness too
   rests on a theorem.
