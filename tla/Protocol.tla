------------------------------ MODULE Protocol ------------------------------
(***************************************************************************)
(* The remote serial protocol between gdb and the simulator: the tokens of *)
(* scanner.l, the acknowledgement and the checksum of gdb_packet_analysis, *)
(* and the retransmission of the last answer.  Both directions of the      *)
(* connection are FIFO; the bytes of a packet may be damaged (a wrong      *)
(* checksum), and gdb sends a byte that is no token when its user asks for *)
(* an interruption.  A packet is the number of the request it carries, its *)
(* answer has the same number.  gdb is the environment, modelled by what   *)
(* the protocol asks of it.                                                *)
(***************************************************************************)
EXTENDS Naturals, Sequences

CONSTANTS
    MAX_ERROR_SIZE,  \* 1024 in the code
    MaxRequests,     \* bound on the requests of gdb
    MaxDamaged,      \* bound on the packets damaged on the way
    MaxInterrupts    \* bound on the bytes that are no token

ASSUME ErrorAssumption == MAX_ERROR_SIZE \in Nat \ {0, 1}
ASSUME BoundsAssumption ==
    MaxRequests \in Nat /\ MaxDamaged \in Nat /\ MaxInterrupts \in Nat

VARIABLES
    toServer,     \* tokens from gdb
    toClient,     \* tokens from the simulator
    len,          \* the bytes in the error buffer of the scanner
    packet,       \* the answer in gdb->packet, 0 before the first one
    executed,     \* the requests the handlers have executed, in order
    client,       \* gdb: "ready", waiting for the "ack" or for the "answer"
    sent,         \* the number of the last request
    answers,      \* the answers gdb has accepted, in order
    budget        \* damages and interruptions so far

vars == <<toServer, toClient, len, packet, executed, client, sent, answers, budget>>
connection == <<toServer, toClient>>
server == <<len, packet, executed>>
gdbState == <<client, sent, answers>>

Ack == [type |-> "+", id |-> 0]
Nak == [type |-> "-", id |-> 0]
Other == [type |-> "other", id |-> 0]
Packet(id) == [type |-> "packet", id |-> id]
Damaged(id) == [type |-> "damaged", id |-> id]

Token ==
    [type : {"+", "-", "other"}, id : {0}]
        \union [type : {"packet", "damaged"}, id : 1 .. MaxRequests]

Init ==
    /\ toServer = <<>> /\ toClient = <<>>
    /\ len = 0 /\ packet = 0 /\ executed = <<>>
    /\ client = "ready" /\ sent = 0 /\ answers = <<>>
    /\ budget = [damaged |-> 0, interrupts |-> 0]

\* a packet on its way: it may be damaged
Transmission(id, token) ==
    \/ token = Packet(id) /\ UNCHANGED budget
    \/ /\ budget.damaged < MaxDamaged
       /\ token = Damaged(id)
       /\ budget' = [budget EXCEPT !.damaged = @ + 1]

-----------------------------------------------------------------------------
(* The scanner *)

MutantErrorFull == len > MAX_ERROR_SIZE - 1
ErrorFull == len > MAX_ERROR_SIZE - 2

\* handle_error: bytes that are no token are answered when a token follows
handle_error == IF len > 0 THEN <<Nak>> ELSE <<>>

Receive(type) ==
    /\ toServer # <<>> /\ Head(toServer).type = type
    /\ toServer' = Tail(toServer)

\* "." : one more byte in the error buffer, which is emptied when it is full
add_character_to_error ==
    /\ Receive("other")
    /\ IF ErrorFull
       THEN toClient' = toClient \o handle_error /\ len' = 1
       ELSE UNCHANGED toClient /\ len' = len + 1
    /\ UNCHANGED <<packet, executed, gdbState, budget>>

\* "+"
received_ack ==
    /\ Receive("+")
    /\ toClient' = toClient \o handle_error
    /\ len' = 0
    /\ UNCHANGED <<packet, executed, gdbState, budget>>

\* "-" : the last answer again; before the first one there is nothing to send
gdb_transmit_packet ==
    /\ Receive("-")
    /\ len' = 0
    /\ IF packet = 0
       THEN toClient' = toClient \o handle_error /\ UNCHANGED budget
       ELSE \E token \in Token :
               /\ Transmission(packet, token)
               /\ toClient' = toClient \o handle_error \o <<token>>
    /\ UNCHANGED <<packet, executed, gdbState>>

-----------------------------------------------------------------------------
(* gdb_packet_analysis *)

\* the checksum is wrong: require a retransmission, execute nothing
MutantOnMismatch(id) == executed' = Append(executed, id)
OnMismatch(id) == UNCHANGED executed
MutantRequire == <<>>
gdb_require_retransmission == <<Nak>>

checksum_failed ==
    /\ Receive("damaged")
    /\ toClient' = toClient \o handle_error \o gdb_require_retransmission
    /\ len' = 0
    /\ OnMismatch(Head(toServer).id)
    /\ UNCHANGED <<packet, gdbState, budget>>

\* gdb_send_buffer keeps the answer, for a retransmission
MutantSendBuffer(id) == packet' = IF packet = 0 THEN id ELSE packet
gdb_send_buffer(id) == packet' = id

\* the checksum is right: acknowledge, execute the handler, send the answer
gdb_packet_analysis ==
    /\ Receive("packet")
    /\ LET id == Head(toServer).id
       IN  /\ executed' = Append(executed, id)
           /\ gdb_send_buffer(id)
           /\ \E token \in Token :
                 /\ Transmission(id, token)
                 /\ toClient' = toClient \o handle_error \o <<Ack, token>>
    /\ len' = 0
    /\ UNCHANGED gdbState

Server ==
    \/ add_character_to_error \/ received_ack \/ gdb_transmit_packet
    \/ checksum_failed \/ gdb_packet_analysis

-----------------------------------------------------------------------------
(* gdb *)

\* a request, or the same one again
Put(id) ==
    \E token \in Token :
        /\ Transmission(id, token)
        /\ toServer' = Append(toServer, token)

ClientSend ==
    /\ client = "ready" /\ sent < MaxRequests
    /\ client' = "ack"
    /\ sent' = sent + 1
    /\ Put(sent + 1)
    /\ UNCHANGED <<toClient, server, answers>>

\* the user presses Ctrl-C while the program runs
ClientInterrupt ==
    /\ client = "answer" /\ budget.interrupts < MaxInterrupts
    /\ toServer' = Append(toServer, Other)
    /\ budget' = [budget EXCEPT !.interrupts = @ + 1]
    /\ UNCHANGED <<toClient, server, gdbState>>

Take == toClient # <<>> /\ toClient' = Tail(toClient)

\* waiting for the acknowledgement: an answer met there is acknowledged and
\* dropped, "-" repeats the request
ClientAck ==
    /\ client = "ack" /\ Take
    /\ LET token == Head(toClient)
       IN  \/ /\ token = Ack
              /\ client' = "answer"
              /\ UNCHANGED <<toServer, budget>>
           \/ /\ token = Nak
              /\ Put(sent)
              /\ UNCHANGED client
           \/ /\ token.type \in {"packet", "damaged"}
              /\ toServer' = Append(toServer, Ack)
              /\ UNCHANGED <<client, budget>>
    /\ UNCHANGED <<server, sent, answers>>

\* waiting for the answer: everything before it is dropped
ClientAnswer ==
    /\ client = "answer" /\ Take
    /\ LET token == Head(toClient)
       IN  \/ /\ token \in {Ack, Nak}
              /\ UNCHANGED <<toServer, client, answers>>
           \/ /\ token.type = "damaged"
              /\ toServer' = Append(toServer, Nak)
              /\ UNCHANGED <<client, answers>>
           \/ /\ token.type = "packet"
              /\ toServer' = Append(toServer, Ack)
              /\ client' = "ready"
              /\ answers' = Append(answers, token.id)
    /\ UNCHANGED <<server, sent, budget>>

Client == ClientAck \/ ClientAnswer

Next == Server \/ Client \/ ClientSend \/ ClientInterrupt

Safety == Init /\ [][Next]_vars

\* the gdb thread reads what has arrived, and gdb what it waits for
Spec == Safety /\ WF_vars(Server) /\ WF_vars(Client)

-----------------------------------------------------------------------------
\* The types, among them the bound of the error buffer: the index written next
\* by add_character_to_error, and the end of string that handle_error adds,
\* stay inside it however many bytes are no token.
TypeOK ==
    /\ toServer \in Seq(Token) /\ toClient \in Seq(Token)
    /\ len \in 0 .. MAX_ERROR_SIZE - 1 /\ packet \in 0 .. MaxRequests
    /\ executed \in Seq(1 .. MaxRequests)
    /\ client \in {"ready", "ack", "answer"}
    /\ sent \in 0 .. MaxRequests
    /\ answers \in Seq(1 .. MaxRequests)
    /\ budget \in [damaged : 0 .. MaxDamaged, interrupts : 0 .. MaxInterrupts]

\* gdb has sent tokens only.  After a byte that is none, the '-' that
\* handle_error sends when the next token arrives makes gdb repeat a request
\* that is executed as well; the answer that is one too many then counts for
\* the next request.
Quiet == budget.interrupts = 0

\* On a quiet line gdb_packet_analysis executes every request once, in order,
\* however many packets are damaged and sent again.
ExecutedOnce ==
    Quiet => \A i \in 1 .. Len(executed) : executed[i] = i /\ i <= sent

\* On a quiet line an answer gdb accepts is the one to the request it waits
\* for, and only to a request that has been executed.
AnswersMatch ==
    Quiet =>
        /\ Len(answers) = IF client = "ready" THEN sent ELSE sent - 1
        /\ Len(answers) <= Len(executed)
        /\ \A i \in 1 .. Len(answers) : answers[i] = i

\* Every request is answered at last, if damages are finitely many.
RequestCompletes == client = "ack" ~> client = "ready"
=============================================================================
