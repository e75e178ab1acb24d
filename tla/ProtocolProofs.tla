--------------------------- MODULE ProtocolProofs ---------------------------
(***************************************************************************)
(* The remote serial protocol, for every size of the error buffer and      *)
(* every number of requests, damaged packets and interruptions: the types  *)
(* with the bound of the error buffer, and on a line without interruptions *)
(* that every request is executed once and gets its own answer.            *)
(***************************************************************************)
EXTENDS Protocol, SequenceTheorems, TLAPS

LEMMA TokenTypes ==
    /\ Ack \in Token /\ Nak \in Token /\ Other \in Token
    /\ \A token \in Token :
          token.type \in {"packet", "damaged"} => token.id \in 1 .. MaxRequests
BY DEF Token, Ack, Nak, Other

LEMMA ChannelTypes ==
    ASSUME NEW s \in Seq(Token), NEW x \in Token, NEW y \in Token
    PROVE  /\ s \o handle_error \in Seq(Token)
           /\ s \o handle_error \o <<x>> \in Seq(Token)
           /\ s \o handle_error \o <<x, y>> \in Seq(Token)
           /\ Append(s, x) \in Seq(Token)
           /\ s # <<>> => Head(s) \in Token /\ Tail(s) \in Seq(Token)
<1>1. <<>> \in Seq(Token) /\ <<x>> \in Seq(Token) /\ <<x, y>> \in Seq(Token)
  OBVIOUS
<1>2. handle_error \in Seq(Token)
  BY TokenTypes DEF handle_error
<1>3. \A t \in Seq(Token) : s \o t \in Seq(Token)
  OBVIOUS
<1>4. \A t, u \in Seq(Token) : s \o t \o u \in Seq(Token)
  OBVIOUS
<1> QED BY <1>1, <1>2, <1>3, <1>4

LEMMA BudgetType ==
    ASSUME TypeOK, NEW id, NEW token, Transmission(id, token)
    PROVE  budget' \in [damaged : 0 .. MaxDamaged, interrupts : 0 .. MaxInterrupts]
BY BoundsAssumption DEF TypeOK, Transmission

-----------------------------------------------------------------------------
(* Type correctness, one lemma for each side *)

LEMMA ServerType ==
    ASSUME TypeOK, Server
    PROVE  TypeOK'
<1>1. toServer' \in Seq(Token) /\ Head(toServer) \in Token /\ UNCHANGED gdbState
  <2>1. toServer # <<>> /\ toServer' = Tail(toServer) /\ UNCHANGED gdbState
    BY DEF Server, Receive, add_character_to_error, received_ack,
           gdb_transmit_packet, checksum_failed, gdb_packet_analysis
  <2> QED BY <2>1, ChannelTypes, TokenTypes DEF TypeOK
<1>2. 0 \in 0 .. MAX_ERROR_SIZE - 1
  BY ErrorAssumption
<1>3. CASE add_character_to_error
  <2>1. len' \in 0 .. MAX_ERROR_SIZE - 1
    BY <1>3, ErrorAssumption DEF add_character_to_error, ErrorFull, TypeOK
  <2>2. toClient' \in Seq(Token)
    BY <1>3, ChannelTypes, TokenTypes DEF add_character_to_error, TypeOK
  <2> QED BY <1>1, <1>3, <2>1, <2>2 DEF add_character_to_error, TypeOK, gdbState
<1>4. CASE received_ack
  <2>1. toClient' \in Seq(Token)
    BY <1>4, ChannelTypes, TokenTypes DEF received_ack, TypeOK
  <2> QED BY <1>1, <1>2, <1>4, <2>1 DEF received_ack, TypeOK, gdbState
<1>5. CASE gdb_transmit_packet
  <2>1. toClient' \in Seq(Token)
    BY <1>5, ChannelTypes, TokenTypes DEF gdb_transmit_packet, TypeOK
  <2>2. budget' \in [damaged : 0 .. MaxDamaged, interrupts : 0 .. MaxInterrupts]
    BY <1>5, BudgetType DEF gdb_transmit_packet, TypeOK
  <2> QED BY <1>1, <1>2, <1>5, <2>1, <2>2 DEF gdb_transmit_packet, TypeOK, gdbState
<1>6. CASE checksum_failed
  <2>1. toClient' \in Seq(Token)
    BY <1>6, ChannelTypes, TokenTypes
       DEF checksum_failed, gdb_require_retransmission, TypeOK
  <2> QED BY <1>1, <1>2, <1>6, <2>1
          DEF checksum_failed, OnMismatch, TypeOK, gdbState
<1>7. CASE gdb_packet_analysis
  <2> DEFINE id == Head(toServer).id
  <2>1. id \in 1 .. MaxRequests
    BY <1>1, <1>7, TokenTypes DEF gdb_packet_analysis, Receive
  <2>2. PICK token \in Token :
            /\ Transmission(id, token)
            /\ toClient' = toClient \o handle_error \o <<Ack, token>>
    BY <1>7 DEF gdb_packet_analysis
  <2>3. toClient' \in Seq(Token)
    BY <2>2, ChannelTypes, TokenTypes DEF TypeOK
  <2>4. budget' \in [damaged : 0 .. MaxDamaged, interrupts : 0 .. MaxInterrupts]
    BY <2>2, BudgetType
  <2>5. executed' = Append(executed, id) /\ packet' = id /\ len' = 0
    BY <1>7 DEF gdb_packet_analysis, gdb_send_buffer
  <2> HIDE DEF id
  <2>6. executed' \in Seq(1 .. MaxRequests) /\ packet' \in 0 .. MaxRequests
    BY <2>1, <2>5 DEF TypeOK
  <2> QED BY <1>1, <1>2, <2>3, <2>4, <2>5, <2>6 DEF TypeOK, gdbState
<1> QED BY <1>3, <1>4, <1>5, <1>6, <1>7 DEF Server

LEMMA PutType ==
    ASSUME TypeOK, NEW id, Put(id)
    PROVE  /\ toServer' \in Seq(Token)
           /\ budget' \in [damaged : 0 .. MaxDamaged, interrupts : 0 .. MaxInterrupts]
BY ChannelTypes, BudgetType DEF Put, TypeOK

LEMMA ClientType ==
    ASSUME TypeOK, Client \/ ClientSend \/ ClientInterrupt
    PROVE  TypeOK'
<1>1. CASE ClientSend
  <2>1. sent' \in 0 .. MaxRequests
    BY <1>1, BoundsAssumption DEF ClientSend, TypeOK
  <2> QED BY <1>1, <2>1, PutType DEF ClientSend, TypeOK, server
<1>2. CASE ClientInterrupt
  <2>1. toServer' \in Seq(Token)
    BY <1>2, ChannelTypes, TokenTypes DEF ClientInterrupt, TypeOK
  <2>2. budget' \in [damaged : 0 .. MaxDamaged, interrupts : 0 .. MaxInterrupts]
    <3>1. budget.interrupts \in 0 .. MaxInterrupts
      BY DEF TypeOK
    <3>2. budget.interrupts + 1 \in 0 .. MaxInterrupts
      BY <1>2, <3>1, BoundsAssumption DEF ClientInterrupt
    <3> QED BY <1>2, <3>2 DEF ClientInterrupt, TypeOK
  <2> QED BY <1>2, <2>1, <2>2 DEF ClientInterrupt, TypeOK, server, gdbState
<1>3. CASE ClientAck
  <2>1. toClient' \in Seq(Token)
    BY <1>3, ChannelTypes, TokenTypes DEF ClientAck, Take, TypeOK
  <2>2. /\ toServer' \in Seq(Token)
        /\ budget' \in [damaged : 0 .. MaxDamaged, interrupts : 0 .. MaxInterrupts]
    BY <1>3, ChannelTypes, TokenTypes, PutType DEF ClientAck, TypeOK
  <2>3. client' \in {"ready", "ack", "answer"}
    BY <1>3 DEF ClientAck, TypeOK
  <2> QED BY <1>3, <2>1, <2>2, <2>3 DEF ClientAck, TypeOK, server
<1>4. CASE ClientAnswer
  <2>1. toClient' \in Seq(Token) /\ Head(toClient) \in Token
    BY <1>4, ChannelTypes, TokenTypes DEF ClientAnswer, Take, TypeOK
  <2>2. toServer' \in Seq(Token)
    BY <1>4, ChannelTypes, TokenTypes DEF ClientAnswer, TypeOK
  <2>3. client' \in {"ready", "ack", "answer"}
    BY <1>4 DEF ClientAnswer, TypeOK
  <2>4. answers' \in Seq(1 .. MaxRequests)
    <3>1. CASE Head(toClient).type = "packet"
      <4>1. Head(toClient).id \in 1 .. MaxRequests
        BY <2>1, <3>1, TokenTypes
      <4>2. Append(answers, Head(toClient).id) \in Seq(1 .. MaxRequests)
        BY <4>1 DEF TypeOK
      <4> QED BY <1>4, <4>2 DEF ClientAnswer, TypeOK
    <3>2. CASE Head(toClient).type # "packet"
      BY <1>4, <3>2 DEF ClientAnswer, TypeOK
    <3> QED BY <3>1, <3>2
  <2> QED BY <1>4, <2>1, <2>2, <2>3, <2>4 DEF ClientAnswer, TypeOK, server
<1> QED BY <1>1, <1>2, <1>3, <1>4 DEF Client

\* Type correctness, with the bound of the error buffer: however many bytes are
\* no token, add_character_to_error and handle_error stay inside of it.
THEOREM ProtocolTypeCorrect == Safety => []TypeOK
<1>1. Init => TypeOK
  BY ErrorAssumption, BoundsAssumption DEF Init, TypeOK
<1>2. TypeOK /\ [Next]_vars => TypeOK'
  <2>1. TypeOK /\ UNCHANGED vars => TypeOK'
    BY DEF TypeOK, vars
  <2> QED BY <2>1, ServerType, ClientType DEF Next
<1> QED BY <1>1, <1>2, PTL DEF Safety

-----------------------------------------------------------------------------
(* A line without interruptions.  There is always one party whose turn it  *)
(* is: the invariant lists the six positions that the two take.            *)

\* a packet with its number, as sent or damaged
Carries(token, id) == token \in {Packet(id), Damaged(id)}

\* the requests executed and the answers accepted
Counts(done, got) ==
    /\ Len(executed) = done /\ packet = done
    /\ Len(answers) = got

\* gdb has its answer; the server may not have read the acknowledgement yet
Resting ==
    /\ client = "ready" /\ toClient = <<>>
    /\ toServer = <<>> \/ toServer = <<Ack>>
    /\ Counts(sent, sent)

\* the request is on its way
Asked ==
    /\ client = "ack" /\ toClient = <<>> /\ sent >= 1
    /\ \E token \in Token :
          /\ Carries(token, sent)
          /\ toServer = <<token>> \/ toServer = <<Ack, token>>
    /\ Counts(sent - 1, sent - 1)

\* the request was damaged, and the server has asked for it again
Refused ==
    /\ client = "ack" /\ toClient = <<Nak>> /\ toServer = <<>> /\ sent >= 1
    /\ Counts(sent - 1, sent - 1)

\* the request is executed, its acknowledgement and its answer are on their way
Accepted ==
    /\ client = "ack" /\ toServer = <<>> /\ sent >= 1
    /\ \E token \in Token : Carries(token, sent) /\ toClient = <<Ack, token>>
    /\ Counts(sent, sent - 1)

\* the answer is on its way
Answering ==
    /\ client = "answer" /\ toServer = <<>> /\ sent >= 1
    /\ \E token \in Token : Carries(token, sent) /\ toClient = <<token>>
    /\ Counts(sent, sent - 1)

\* the answer was damaged, and gdb has asked for it again
Repeating ==
    /\ client = "answer" /\ toServer = <<Nak>> /\ toClient = <<>> /\ sent >= 1
    /\ Counts(sent, sent - 1)

Positions ==
    /\ len = 0
    /\ Resting \/ Asked \/ Refused \/ Accepted \/ Answering \/ Repeating

\* what has been executed and accepted is numbered in order
Numbered(seq) == \A i \in 1 .. Len(seq) : seq[i] = i

QuietInv ==
    Quiet => Positions /\ Numbered(executed) /\ Numbered(answers)

LEMMA Tuples ==
    ASSUME NEW x \in Token, NEW y \in Token
    PROVE  /\ Head(<<x>>) = x /\ Tail(<<x>>) = <<>> /\ <<x>> # <<>>
           /\ Head(<<x, y>>) = x /\ Tail(<<x, y>>) = <<y>> /\ <<x, y>> # <<>>
           /\ Append(<<>>, x) = <<x>> /\ Append(<<x>>, y) = <<x, y>>
<1>1. <<x>> \in Seq(Token) /\ <<x, y>> \in Seq(Token) /\ <<>> \in Seq(Token)
  OBVIOUS
<1>2. Head(<<x>>) = x /\ Head(<<x, y>>) = x
  OBVIOUS
<1>3. <<x>> # <<>> /\ <<x, y>> # <<>>
  OBVIOUS
<1>4. Tail(<<x>>) = <<>>
  OBVIOUS
<1>5. Tail(<<x, y>>) = <<y>>
  OBVIOUS
<1>6. Append(<<>>, x) = <<x>>
  OBVIOUS
<1>7. Append(<<x>>, y) = <<x, y>>
  <2>1. PICK s \in Seq(Token) : s = <<x>>
    BY <1>1
  <2>2. Len(s) = 1 /\ s[1] = x
    BY <2>1
  <2>3. PICK t \in Seq(Token) : t = Append(s, y)
    BY AppendProperties
  <2>4. /\ Len(t) = Len(s) + 1 /\ t[Len(s) + 1] = y
        /\ \A i \in 1 .. Len(s) : t[i] = s[i]
    BY <2>3, AppendProperties
  <2>5. Len(t) = 2 /\ t[1] = x /\ t[2] = y
    BY <2>2, <2>4
  <2>6. t = <<x, y>>
    BY <1>1, <2>5
  <2> QED BY <2>1, <2>3, <2>6
<1> QED BY <1>2, <1>3, <1>4, <1>5, <1>6, <1>7

LEMMA EmptyError ==
    ASSUME len = 0, NEW x \in Token, NEW y \in Token
    PROVE  /\ <<>> \o handle_error = <<>>
           /\ <<>> \o handle_error \o <<x>> = <<x>>
           /\ <<>> \o handle_error \o <<x, y>> = <<x, y>>
BY DEF handle_error

LEMMA TypesDiffer ==
    /\ Ack.type = "+" /\ Nak.type = "-" /\ Ack # Nak
    /\ \A id : /\ Packet(id).type = "packet" /\ Packet(id).id = id
               /\ Damaged(id).type = "damaged" /\ Damaged(id).id = id
BY DEF Ack, Nak, Packet, Damaged

LEMMA TransmissionCarries ==
    ASSUME NEW id, NEW token, Transmission(id, token)
    PROVE  Carries(token, id)
BY DEF Transmission, Carries

\* the next position, and what has been added to the two lists
Proceeds ==
    /\ Positions'
    /\ executed' = executed \/ executed' = Append(executed, Len(executed) + 1)
    /\ answers' = answers \/ answers' = Append(answers, Len(answers) + 1)

\* no step of the server when it has nothing to read, none of gdb when it waits
LEMMA ServerWaits ==
    ASSUME toServer = <<>>
    PROVE  ~Server
BY DEF Server, Receive, add_character_to_error, received_ack,
       gdb_transmit_packet, checksum_failed, gdb_packet_analysis

LEMMA ClientWaits ==
    ASSUME toClient = <<>> \/ client = "ready"
    PROVE  ~Client
BY DEF Client, ClientAck, ClientAnswer, Take

\* the step of the server is the one that its next token selects
LEMMA ServerReads ==
    ASSUME Server
    PROVE  /\ toServer' = Tail(toServer)
           /\ Head(toServer).type = "+" => received_ack
           /\ Head(toServer).type = "-" => gdb_transmit_packet
           /\ Head(toServer).type = "damaged" => checksum_failed
           /\ Head(toServer).type = "packet" => gdb_packet_analysis
BY DEF Server, Receive, add_character_to_error, received_ack,
       gdb_transmit_packet, checksum_failed, gdb_packet_analysis

LEMMA RestingStep ==
    ASSUME TypeOK, Resting, len = 0, Server \/ Client \/ ClientSend
    PROVE  Proceeds
<1>1. client = "ready" /\ toClient = <<>> /\ Counts(sent, sent)
  BY DEF Resting
<1>2. CASE Server
  <2>1. toServer = <<Ack>>
    BY <1>2, ServerWaits DEF Resting
  <2>2. received_ack /\ toServer' = <<>>
    BY <1>2, <2>1, ServerReads, Tuples, TypesDiffer, TokenTypes
  <2>3. toClient' = <<>>
    BY <1>1, <2>2, EmptyError, TokenTypes DEF received_ack
  <2>4. /\ len' = 0 /\ UNCHANGED <<packet, executed, client, sent, answers>>
    BY <2>2 DEF received_ack, gdbState
  <2> QED BY <1>1, <2>2, <2>3, <2>4 DEF Proceeds, Positions, Resting, Counts
<1>3. CASE ClientSend
  <2>1. PICK token \in Token : /\ Transmission(sent + 1, token)
                               /\ toServer' = Append(toServer, token)
    BY <1>3 DEF ClientSend, Put
  <2>2. toServer' = <<token>> \/ toServer' = <<Ack, token>>
    BY <2>1, Tuples, TokenTypes DEF Resting
  <2>3. /\ client' = "ack" /\ sent' = sent + 1 /\ toClient' = <<>> /\ len' = 0
        /\ UNCHANGED <<packet, executed, answers>>
    BY <1>1, <1>3 DEF ClientSend, server
  <2>4. sent' >= 1 /\ sent' - 1 = sent
    BY <2>3 DEF TypeOK
  <2>5. Asked'
    BY <1>1, <2>1, <2>2, <2>3, <2>4, TransmissionCarries DEF Asked, Counts
  <2> QED BY <2>3, <2>5 DEF Proceeds, Positions
<1> QED BY <1>1, <1>2, <1>3, ClientWaits

LEMMA AskedStep ==
    ASSUME TypeOK, Asked, len = 0, Server \/ Client \/ ClientSend
    PROVE  Proceeds
<1>1. /\ client = "ack" /\ toClient = <<>> /\ sent >= 1
      /\ Counts(sent - 1, sent - 1)
  BY DEF Asked
<1>2. Server
  BY <1>1, ClientWaits DEF ClientSend
<1>3. PICK token \in Token :
          /\ Carries(token, sent)
          /\ toServer = <<token>> \/ toServer = <<Ack, token>>
  BY DEF Asked
<1>4. CASE toServer = <<Ack, token>>
  <2>1. received_ack /\ toServer' = <<token>>
    BY <1>2, <1>4, ServerReads, Tuples, TypesDiffer, TokenTypes
  <2>2. toClient' = <<>>
    BY <1>1, <2>1, EmptyError, TokenTypes DEF received_ack
  <2>3. /\ len' = 0 /\ UNCHANGED <<packet, executed, client, sent, answers>>
    BY <2>1 DEF received_ack, gdbState
  <2>4. Asked'
    BY <1>1, <1>3, <2>1, <2>2, <2>3 DEF Asked, Counts
  <2> QED BY <2>3, <2>4 DEF Proceeds, Positions
<1>5. CASE toServer = <<token>> /\ token = Damaged(sent)
  <2>1. checksum_failed /\ toServer' = <<>>
    BY <1>2, <1>5, ServerReads, Tuples, TypesDiffer
  <2>2. toClient' = <<Nak>>
    BY <1>1, <2>1, EmptyError, TokenTypes
       DEF checksum_failed, gdb_require_retransmission
  <2>3. /\ len' = 0 /\ UNCHANGED <<packet, executed, client, sent, answers>>
    BY <2>1 DEF checksum_failed, OnMismatch, gdbState
  <2>4. Refused'
    BY <1>1, <2>1, <2>2, <2>3 DEF Refused, Counts
  <2> QED BY <2>3, <2>4 DEF Proceeds, Positions
<1>6. CASE toServer = <<token>> /\ token = Packet(sent)
  <2>1. gdb_packet_analysis /\ toServer' = <<>> /\ Head(toServer).id = sent
    BY <1>2, <1>6, ServerReads, Tuples, TypesDiffer
  <2>2. PICK reply \in Token :
            /\ Transmission(sent, reply)
            /\ toClient' = toClient \o handle_error \o <<Ack, reply>>
    BY <2>1 DEF gdb_packet_analysis
  <2>3. toClient' = <<Ack, reply>>
    BY <1>1, <2>2, EmptyError, TokenTypes
  <2>4. /\ len' = 0 /\ UNCHANGED <<client, sent, answers>>
        /\ executed' = Append(executed, sent) /\ packet' = sent
    BY <2>1 DEF gdb_packet_analysis, gdb_send_buffer, gdbState
  <2>5. Len(executed) + 1 = sent /\ Len(executed') = sent
    BY <1>1, <2>4 DEF Counts, TypeOK
  <2>6. Accepted'
    BY <1>1, <2>1, <2>2, <2>3, <2>4, <2>5, TransmissionCarries
       DEF Accepted, Counts
  <2> QED BY <2>4, <2>5, <2>6 DEF Proceeds, Positions
<1> QED BY <1>3, <1>4, <1>5, <1>6 DEF Carries

LEMMA RefusedStep ==
    ASSUME TypeOK, Refused, len = 0, Server \/ Client \/ ClientSend
    PROVE  Proceeds
<1>1. /\ client = "ack" /\ toClient = <<Nak>> /\ toServer = <<>> /\ sent >= 1
      /\ Counts(sent - 1, sent - 1)
  BY DEF Refused
<1>2. Client /\ client # "answer"
  BY <1>1, ServerWaits DEF ClientSend
<1>3. ClientAck /\ toClient' = <<>> /\ Head(toClient) = Nak
  BY <1>1, <1>2, Tuples, TokenTypes DEF Client, ClientAck, ClientAnswer, Take
<1>4. Put(sent) /\ UNCHANGED client
  BY <1>3, TypesDiffer DEF ClientAck
<1>5. PICK token \in Token : /\ Transmission(sent, token)
                             /\ toServer' = Append(toServer, token)
  BY <1>4 DEF Put
<1>6. toServer' = <<token>>
  BY <1>1, <1>5, Tuples
<1>7. len' = 0 /\ UNCHANGED <<packet, executed, sent, answers>>
  BY <1>3 DEF ClientAck, server
<1>8. Asked'
  BY <1>1, <1>3, <1>4, <1>5, <1>6, <1>7, TransmissionCarries DEF Asked, Counts
<1> QED BY <1>7, <1>8 DEF Proceeds, Positions

LEMMA AcceptedStep ==
    ASSUME TypeOK, Accepted, len = 0, Server \/ Client \/ ClientSend
    PROVE  Proceeds
<1>1. /\ client = "ack" /\ toServer = <<>> /\ sent >= 1
      /\ Counts(sent, sent - 1)
  BY DEF Accepted
<1>2. PICK token \in Token : Carries(token, sent) /\ toClient = <<Ack, token>>
  BY DEF Accepted
<1>3. Client /\ client # "answer"
  BY <1>1, ServerWaits DEF ClientSend
<1>4. ClientAck /\ toClient' = <<token>> /\ Head(toClient) = Ack
  BY <1>2, <1>3, Tuples, TokenTypes DEF Client, ClientAck, ClientAnswer, Take
<1>5. client' = "answer" /\ UNCHANGED toServer
  BY <1>4, TypesDiffer DEF ClientAck
<1>6. len' = 0 /\ UNCHANGED <<packet, executed, sent, answers>>
  BY <1>4 DEF ClientAck, server
<1>7. Answering'
  BY <1>1, <1>2, <1>4, <1>5, <1>6 DEF Answering, Counts
<1> QED BY <1>6, <1>7 DEF Proceeds, Positions

LEMMA AnsweringStep ==
    ASSUME TypeOK, Answering, len = 0, Server \/ Client \/ ClientSend
    PROVE  Proceeds
<1>1. /\ client = "answer" /\ toServer = <<>> /\ sent >= 1
      /\ Counts(sent, sent - 1)
  BY DEF Answering
<1>2. PICK token \in Token : Carries(token, sent) /\ toClient = <<token>>
  BY DEF Answering
<1>3. Client /\ client # "ack"
  BY <1>1, ServerWaits DEF ClientSend
<1>4. ClientAnswer /\ toClient' = <<>> /\ Head(toClient) = token
  BY <1>2, <1>3, Tuples DEF Client, ClientAck, ClientAnswer, Take
<1>5. len' = 0 /\ UNCHANGED <<packet, executed, sent>>
  BY <1>4 DEF ClientAnswer, server
<1>6. CASE token = Damaged(sent)
  <2>1. toServer' = Append(toServer, Nak) /\ UNCHANGED <<client, answers>>
    BY <1>4, <1>6, TypesDiffer DEF ClientAnswer
  <2>2. toServer' = <<Nak>>
    BY <1>1, <2>1, Tuples, TokenTypes
  <2>3. Repeating'
    BY <1>1, <1>4, <1>5, <2>1, <2>2 DEF Repeating, Counts
  <2> QED BY <1>5, <2>1, <2>3 DEF Proceeds, Positions
<1>7. CASE token = Packet(sent)
  <2>1. /\ toServer' = Append(toServer, Ack) /\ client' = "ready"
        /\ answers' = Append(answers, sent)
    BY <1>4, <1>7, TypesDiffer DEF ClientAnswer
  <2>2. toServer' = <<Ack>>
    BY <1>1, <2>1, Tuples, TokenTypes
  <2>3. Len(answers) + 1 = sent /\ Len(answers') = sent
    BY <1>1, <2>1 DEF Counts, TypeOK
  <2>4. Resting'
    BY <1>1, <1>4, <1>5, <2>1, <2>2, <2>3 DEF Resting, Counts
  <2> QED BY <1>5, <2>1, <2>3, <2>4 DEF Proceeds, Positions
<1> QED BY <1>2, <1>6, <1>7 DEF Carries

LEMMA RepeatingStep ==
    ASSUME TypeOK, Repeating, len = 0, Server \/ Client \/ ClientSend
    PROVE  Proceeds
<1>1. /\ client = "answer" /\ toServer = <<Nak>> /\ toClient = <<>> /\ sent >= 1
      /\ Counts(sent, sent - 1)
  BY DEF Repeating
<1>2. Server
  BY <1>1, ClientWaits DEF ClientSend
<1>3. gdb_transmit_packet /\ toServer' = <<>>
  BY <1>1, <1>2, ServerReads, Tuples, TypesDiffer, TokenTypes
<1>4. packet = sent /\ packet # 0
  BY <1>1 DEF Counts, TypeOK
<1>5. PICK token \in Token :
          /\ Transmission(sent, token)
          /\ toClient' = toClient \o handle_error \o <<token>>
  BY <1>3, <1>4 DEF gdb_transmit_packet
<1>6. toClient' = <<token>>
  BY <1>1, <1>5, EmptyError
<1>7. len' = 0 /\ UNCHANGED <<packet, executed, client, sent, answers>>
  BY <1>3 DEF gdb_transmit_packet, gdbState
<1>8. Answering'
  BY <1>1, <1>3, <1>5, <1>6, <1>7, TransmissionCarries DEF Answering, Counts
<1> QED BY <1>7, <1>8 DEF Proceeds, Positions

-----------------------------------------------------------------------------
(* The invariant of the quiet line *)

LEMMA NumberedAppend ==
    ASSUME NEW s \in Seq(1 .. MaxRequests), Numbered(s)
    PROVE  Numbered(Append(s, Len(s) + 1))
BY DEF Numbered

LEMMA QuietBefore ==
    ASSUME TypeOK, Next
    PROVE  /\ budget.interrupts \in Nat
           /\ ClientInterrupt => ~Quiet'
           /\ Server \/ Client \/ ClientSend => (Quiet' => Quiet)
<1>1. /\ budget.interrupts \in Nat
      /\ budget \in [damaged : 0 .. MaxDamaged, interrupts : 0 .. MaxInterrupts]
  BY BoundsAssumption DEF TypeOK
<1>2. ClientInterrupt => ~Quiet'
  <2>1. ClientInterrupt => budget'.interrupts = budget.interrupts + 1
    BY <1>1 DEF ClientInterrupt
  <2> QED BY <1>1, <2>1 DEF Quiet
<1>3. ASSUME NEW id, NEW token, Transmission(id, token)
      PROVE  budget'.interrupts = budget.interrupts
  BY <1>1, <1>3 DEF Transmission
<1>4. Server => budget'.interrupts = budget.interrupts
  BY <1>3 DEF Server, add_character_to_error, received_ack,
              gdb_transmit_packet, checksum_failed, gdb_packet_analysis
<1>5. Client \/ ClientSend => budget'.interrupts = budget.interrupts
  BY <1>3 DEF Client, ClientAck, ClientAnswer, ClientSend, Put
<1> QED BY <1>1, <1>2, <1>4, <1>5 DEF Quiet

LEMMA QuietInduction ==
    ASSUME TypeOK, QuietInv, [Next]_vars
    PROVE  QuietInv'
<1>1. CASE UNCHANGED vars
  BY <1>1 DEF QuietInv, Quiet, Positions, Resting, Asked, Refused, Accepted,
              Answering, Repeating, Counts, Numbered, vars
<1>2. CASE Next
  <2>1. SUFFICES ASSUME Quiet'
                 PROVE  (Positions /\ Numbered(executed) /\ Numbered(answers))'
    BY DEF QuietInv
  <2>2. /\ Server \/ Client \/ ClientSend
        /\ Positions /\ Numbered(executed) /\ Numbered(answers)
    BY <1>2, <2>1, QuietBefore DEF Next, QuietInv
  <2>3. Proceeds
    BY <2>2, RestingStep, AskedStep, RefusedStep, AcceptedStep, AnsweringStep,
       RepeatingStep DEF Positions
  <2>4. executed \in Seq(1 .. MaxRequests) /\ answers \in Seq(1 .. MaxRequests)
    BY DEF TypeOK
  <2>5. /\ Numbered(Append(executed, Len(executed) + 1))
        /\ Numbered(Append(answers, Len(answers) + 1))
    BY <2>2, <2>4, NumberedAppend
  <2>6. Numbered(executed')
    BY <2>2, <2>3, <2>5 DEF Proceeds
  <2>7. Numbered(answers')
    BY <2>2, <2>3, <2>5 DEF Proceeds
  <2> QED BY <2>3, <2>6, <2>7 DEF Proceeds, Numbered
<1> QED BY <1>1, <1>2

\* On a quiet line the two parties take turns: the connection holds one request,
\* one answer or one demand to send it again, preceded by at most the
\* acknowledgement of the last answer, and the error buffer of the scanner
\* stays empty.
THEOREM QuietLine == Safety => [](TypeOK /\ QuietInv)
<1>1. Init => QuietInv
  BY DEF Init, QuietInv, Positions, Resting, Counts, Numbered
<1>2. TypeOK /\ QuietInv /\ [Next]_vars => QuietInv'
  BY QuietInduction
<1> QED BY <1>1, <1>2, ProtocolTypeCorrect, PTL DEF Safety

\* On a quiet line gdb_packet_analysis executes every request once, in the order
\* gdb has sent them, however many requests and answers are damaged.
THEOREM RequestsExecutedOnce == Safety => []ExecutedOnce
<1>1. TypeOK /\ QuietInv => ExecutedOnce
  <2>1. SUFFICES ASSUME TypeOK, QuietInv, Quiet,
                        NEW i \in 1 .. Len(executed)
                 PROVE  executed[i] = i /\ i <= sent
    BY DEF ExecutedOnce
  <2>2. Len(executed) = sent \/ Len(executed) = sent - 1
    BY <2>1 DEF QuietInv, Positions, Resting, Asked, Refused, Accepted,
                Answering, Repeating, Counts
  <2>3. i <= sent
    BY <2>1, <2>2 DEF TypeOK
  <2> QED BY <2>1, <2>3 DEF QuietInv, Numbered
<1> QED BY <1>1, QuietLine, PTL

\* On a quiet line the answer gdb accepts is the one to the request it waits
\* for: gdb_transmit_packet repeats the last answer and no other.
THEOREM AnswersAreMatched == Safety => []AnswersMatch
<1>1. TypeOK /\ QuietInv => AnswersMatch
  <2>1. SUFFICES ASSUME TypeOK, QuietInv, Quiet
                 PROVE  /\ Len(answers) = IF client = "ready" THEN sent ELSE sent - 1
                        /\ Len(answers) <= Len(executed)
                        /\ \A i \in 1 .. Len(answers) : answers[i] = i
    BY DEF AnswersMatch
  <2>2. /\ Len(answers) = IF client = "ready" THEN sent ELSE sent - 1
        /\ Len(executed) = sent \/ Len(executed) = Len(answers)
    BY <2>1 DEF QuietInv, Positions, Resting, Asked, Refused, Accepted,
                Answering, Repeating, Counts
  <2>3. Len(answers) <= Len(executed)
    BY <2>1, <2>2 DEF TypeOK
  <2> QED BY <2>1, <2>2, <2>3 DEF QuietInv, Numbered
<1> QED BY <1>1, QuietLine, PTL
=============================================================================
