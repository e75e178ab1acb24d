--------------------------- MODULE BreakpointSet ---------------------------
(***************************************************************************)
(* What the breakpoint table of gdb_protocol.c promises its users, the     *)
(* handlers of the 'Z' and 'z' packets and the loop of cont(): a set of    *)
(* addresses of bounded size.  A request is accepted, and later answered   *)
(* in one step that both updates the set and chooses the answer.           *)
(***************************************************************************)
EXTENDS Naturals, FiniteSets

CONSTANTS
    Address,                \* the addresses breakpoints can be set on
    MAX_BREAKPOINTS_NUMBER  \* capacity of the table

VARIABLES
    set,      \* the addresses with a breakpoint
    busy,     \* TRUE while a request is being served
    request,  \* the request being served, or the last one
    reply     \* the last answer

vars == <<set, busy, request, reply>>

Requests == [cmd : {"Z", "z", "lookup"}, type : {0, 1}, address : Address]

Init ==
    /\ set = {}
    /\ busy = FALSE
    /\ request \in Requests
    /\ reply = "none"

Accept ==
    /\ ~busy
    /\ busy' = TRUE
    /\ request' \in Requests
    /\ UNCHANGED <<set, reply>>

Answer(newSet, answer) ==
    /\ busy
    /\ busy' = FALSE
    /\ set' = newSet
    /\ reply' = answer
    /\ UNCHANGED request

Unsupported ==
    /\ request.cmd # "lookup" /\ request.type # 0
    /\ Answer(set, "E03")

Insert ==
    /\ request.cmd = "Z" /\ request.type = 0
    /\ Cardinality(set) < MAX_BREAKPOINTS_NUMBER
    /\ Answer(set \union {request.address}, "OK")

Full ==
    /\ request.cmd = "Z" /\ request.type = 0
    /\ Cardinality(set) = MAX_BREAKPOINTS_NUMBER
    /\ Answer(set, "E04")

Delete ==
    /\ request.cmd = "z" /\ request.type = 0
    /\ request.address \in set
    /\ Answer(set \ {request.address}, "OK")

Absent ==
    /\ request.cmd = "z" /\ request.type = 0
    /\ request.address \notin set
    /\ Answer(set, "E05")

Lookup ==
    /\ request.cmd = "lookup"
    /\ Answer(set, IF request.address \in set THEN "hit" ELSE "miss")

Next == Accept \/ Unsupported \/ Insert \/ Full \/ Delete \/ Absent \/ Lookup

Spec == Init /\ [][Next]_vars
=============================================================================
