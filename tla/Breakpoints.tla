---------------------------- MODULE Breakpoints ----------------------------
(***************************************************************************)
(* The breakpoint table of gdb_protocol.c: a sorted array searched by      *)
(* dichotomy (gdb_find_breakpoint), with insertion and removal that shift  *)
(* the entries one at a time.  One iteration of each loop is one step, so  *)
(* that the loop invariants, and the termination of the loops, can be      *)
(* stated.  The users of the table are the handlers of the packets 'Z' and *)
(* 'z' and the loop of cont(), which looks the program counter up.         *)
(***************************************************************************)
EXTENDS Integers, FiniteSets

CONSTANTS
    Address,                \* the addresses breakpoints can be set on
    MAX_BREAKPOINTS_NUMBER  \* 1024 in the code

ASSUME AddressAssumption == Address \subseteq Nat
ASSUME MaxAssumption == MAX_BREAKPOINTS_NUMBER \in Nat \ {0}

VARIABLES
    breakpoints,         \* the array; malloc leaves it uninitialised
    breakpoints_number,  \* how many of its first entries are in use
    loc,                 \* where the handler is
    request,             \* the packet being served: command, type, address
    begin, end,          \* locals of gdb_find_breakpoint
    position,            \* its result, -1 when the address is not there
    j,                   \* local of gdb_add_breakpoint, gdb_remove_breakpoint
    reply                \* the last answer sent

vars == <<breakpoints, breakpoints_number, loc, request, begin, end, position,
          j, reply>>

table == <<breakpoints, breakpoints_number>>
search == <<begin, end, position>>

Index == 0 .. MAX_BREAKPOINTS_NUMBER - 1
Requests == [cmd : {"Z", "z", "lookup"}, type : {0, 1}, address : Address]
Replies == {"none", "OK", "E03", "E04", "E05", "hit", "miss"}
address == request.address

\* gdb_init_data leaves the array as malloc returns it
Init ==
    /\ breakpoints \in [Index -> Address]
    /\ breakpoints_number = 0
    /\ loc = "idle"
    /\ request \in Requests
    /\ begin = 0 /\ end = 0 /\ position = -1 /\ j = 0
    /\ reply = "none"

\* a packet reaches its handler, or cont() has executed an instruction
Receive ==
    /\ loc = "idle"
    /\ loc' = "start"
    /\ request' \in Requests
    /\ UNCHANGED <<table, search, j, reply>>

Answer(answer) ==
    /\ loc' = "idle"
    /\ reply' = answer
    /\ UNCHANGED request

BeginFind ==
    /\ loc' = "find"
    /\ begin' = 0
    /\ end' = breakpoints_number
    /\ position' = -1
    /\ UNCHANGED <<table, request, j, reply>>

\* the head of set_breakpoint and gdb_add_breakpoint, up to the search
MutantRoomFor == breakpoints_number <= MAX_BREAKPOINTS_NUMBER
RoomFor == breakpoints_number < MAX_BREAKPOINTS_NUMBER

set_breakpoint ==
    /\ loc = "start" /\ request.cmd = "Z"
    /\ \/ request.type # 0 /\ Answer("E03") /\ UNCHANGED <<table, search, j>>
       \/ request.type = 0 /\ ~RoomFor /\ Answer("E04")
          /\ UNCHANGED <<table, search, j>>
       \/ request.type = 0 /\ RoomFor /\ BeginFind

\* the head of remove_breakpoint and gdb_remove_breakpoint
remove_breakpoint ==
    /\ loc = "start" /\ request.cmd = "z"
    /\ \/ request.type # 0 /\ Answer("E03") /\ UNCHANGED <<table, search, j>>
       \/ request.type = 0 /\ BeginFind

\* cont() looks the program counter up after every instruction
cont_lookup == loc = "start" /\ request.cmd = "lookup" /\ BeginFind

-----------------------------------------------------------------------------
(* gdb_find_breakpoint *)

middle == (begin + end) \div 2

MutantFound ==
    /\ loc' = "found"
    /\ position' = begin
    /\ UNCHANGED <<begin, end>>

Found ==
    /\ loc' = "found"
    /\ position' = middle
    /\ UNCHANGED <<begin, end>>

MutantSearchLeft ==
    /\ end' = middle - 1
    /\ UNCHANGED <<loc, begin, position>>

SearchLeft ==
    /\ end' = middle
    /\ UNCHANGED <<loc, begin, position>>

MutantSearchRight ==
    /\ begin' = middle
    /\ UNCHANGED <<loc, end, position>>

SearchRight ==
    /\ begin' = middle + 1
    /\ UNCHANGED <<loc, end, position>>

gdb_find_breakpoint ==
    /\ loc = "find"
    /\ \/ begin < end /\ breakpoints[middle] > address /\ SearchLeft
       \/ begin < end /\ breakpoints[middle] < address /\ SearchRight
       \/ begin < end /\ breakpoints[middle] = address /\ Found
       \/ ~(begin < end) /\ loc' = "found" /\ UNCHANGED search
    /\ UNCHANGED <<table, request, j, reply>>

-----------------------------------------------------------------------------
(* gdb_add_breakpoint, after the search *)

AddKnown ==
    /\ loc = "found" /\ request.cmd = "Z" /\ position # -1
    /\ Answer("OK")
    /\ UNCHANGED <<table, search, j>>

AddBegin ==
    /\ loc = "found" /\ request.cmd = "Z" /\ position = -1
    /\ loc' = "insert"
    /\ j' = breakpoints_number
    /\ breakpoints_number' = breakpoints_number + 1
    /\ UNCHANGED <<breakpoints, search, request, reply>>

MutantShiftUp == j > 0 /\ breakpoints[j - 1] < address

ShiftUp == j > 0 /\ breakpoints[j - 1] > address

AddShift ==
    /\ loc = "insert" /\ ShiftUp
    /\ breakpoints' = [breakpoints EXCEPT ![j] = breakpoints[j - 1]]
    /\ j' = j - 1
    /\ UNCHANGED <<breakpoints_number, loc, search, request, reply>>

AddPlace ==
    /\ loc = "insert" /\ ~ShiftUp
    /\ breakpoints' = [breakpoints EXCEPT ![j] = address]
    /\ Answer("OK")
    /\ UNCHANGED <<breakpoints_number, search, j>>

-----------------------------------------------------------------------------
(* gdb_remove_breakpoint, after the search *)

RemoveAbsent ==
    /\ loc = "found" /\ request.cmd = "z" /\ position = -1
    /\ Answer("E05")
    /\ UNCHANGED <<table, search, j>>

RemoveBegin ==
    /\ loc = "found" /\ request.cmd = "z" /\ position # -1
    /\ loc' = "remove"
    /\ j' = position
    /\ breakpoints_number' = breakpoints_number - 1
    /\ UNCHANGED <<breakpoints, search, request, reply>>

\* the bound of the loop, last, is the number just decremented
MutantShiftDown == j < breakpoints_number - 1
ShiftDown == j < breakpoints_number

RemoveShift ==
    /\ loc = "remove" /\ ShiftDown
    /\ breakpoints' = [breakpoints EXCEPT ![j] = breakpoints[j + 1]]
    /\ j' = j + 1
    /\ UNCHANGED <<breakpoints_number, loc, search, request, reply>>

RemoveDone ==
    /\ loc = "remove" /\ ~ShiftDown
    /\ Answer("OK")
    /\ UNCHANGED <<table, search, j>>

LookupDone ==
    /\ loc = "found" /\ request.cmd = "lookup"
    /\ Answer(IF position # -1 THEN "hit" ELSE "miss")
    /\ UNCHANGED <<table, search, j>>

-----------------------------------------------------------------------------
Handler ==
    \/ set_breakpoint \/ remove_breakpoint \/ cont_lookup
    \/ gdb_find_breakpoint
    \/ AddKnown \/ AddBegin \/ AddShift \/ AddPlace
    \/ RemoveAbsent \/ RemoveBegin \/ RemoveShift \/ RemoveDone
    \/ LookupDone

Next == Receive \/ Handler

Safety == Init /\ [][Next]_vars

\* the handler runs without waiting for anybody: its own steps are fair
Spec == Safety /\ WF_vars(Handler)

-----------------------------------------------------------------------------
TypeOK ==
    /\ breakpoints \in [Index -> Address]
    /\ breakpoints_number \in 0 .. MAX_BREAKPOINTS_NUMBER
    /\ loc \in {"idle", "start", "find", "found", "insert", "remove"}
    /\ request \in Requests
    /\ begin \in 0 .. MAX_BREAKPOINTS_NUMBER
    /\ end \in 0 .. MAX_BREAKPOINTS_NUMBER
    /\ position \in Index \union {-1}
    /\ j \in 0 .. MAX_BREAKPOINTS_NUMBER
    /\ reply \in Replies

\* The entries that hold a breakpoint.  While entries are being shifted the
\* table has one entry more than breakpoints, and j is the one to skip.
Shifting == loc \in {"insert", "remove"}
Last == IF loc = "remove" THEN breakpoints_number ELSE breakpoints_number - 1
Live == {i \in 0 .. Last : Shifting => i # j}

\* At every step, in the middle of an insertion or a removal too, the live
\* entries are inside the array and strictly increasing: what the dichotomy
\* of gdb_find_breakpoint relies on, and what makes an entry unique.
Sorted ==
    /\ Live \subseteq Index
    /\ \A p, q \in Live : p < q => breakpoints[p] < breakpoints[q]

\* The window of the search: the address can only be in begin .. end - 1, and
\* the result is the entry that holds the address, or -1 if there is none.
SearchWindow ==
    /\ loc = "find" =>
        /\ begin <= end /\ end <= breakpoints_number /\ position = -1
        /\ \A i \in 0 .. begin - 1 : breakpoints[i] < address
        /\ \A i \in end .. breakpoints_number - 1 : breakpoints[i] > address
    /\ loc = "found" =>
        IF position = -1
        THEN \A i \in 0 .. breakpoints_number - 1 : breakpoints[i] # address
        ELSE position < breakpoints_number /\ breakpoints[position] = address

\* The entry being vacated or filled separates smaller from larger addresses.
ShiftGap ==
    /\ loc \in {"find", "found"} /\ request.cmd = "Z"
          => breakpoints_number < MAX_BREAKPOINTS_NUMBER
    /\ loc \in {"find", "found", "insert", "remove"} /\ request.cmd # "lookup"
          => request.type = 0
    /\ loc = "insert" =>
        /\ request.cmd = "Z"
        /\ j < breakpoints_number
        /\ \A i \in 0 .. j - 1 : breakpoints[i] # address
        /\ \A i \in j + 1 .. breakpoints_number - 1 : breakpoints[i] > address
    /\ loc = "remove" =>
        /\ request.cmd = "z"
        /\ j <= breakpoints_number
        /\ breakpoints_number < MAX_BREAKPOINTS_NUMBER
        /\ \A i \in Live : breakpoints[i] # address

IInv == TypeOK /\ Sorted /\ SearchWindow /\ ShiftGap

\* The addresses the table stands for.  A removal takes effect when it ends.
Contents ==
    {breakpoints[i] : i \in Live}
        \union (IF loc = "remove" THEN {address} ELSE {})

Abstract == INSTANCE BreakpointSet WITH set <- Contents, busy <- loc # "idle"

\* The handlers and cont() see a set of addresses of bounded capacity: every
\* answer and every update of gdb_add_breakpoint, gdb_remove_breakpoint and
\* gdb_find_breakpoint is the one of the abstract set, done in one step.
ImplementsSet == Abstract!Spec

\* Every 'Z', 'z' and lookup is answered: the dichotomy and the two shifting
\* loops terminate whatever the table holds.
EveryRequestAnswered == loc = "start" ~> loc = "idle"
=============================================================================
