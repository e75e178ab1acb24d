----------------------------- MODULE GdbMemory -----------------------------
(***************************************************************************)
(* The memory seen from gdb: read_memory ('m') and write_memory_binary     *)
(* ('X', the packet that loads a program), one loop iteration per step, on *)
(* the memory the instructions use between two packets.  In an 'X' packet  *)
(* the bytes '#', '$', '*' and '}' are preceded by '}' and have their bit  *)
(* 0x20 flipped.  read_memory prints two hexadecimal digits for a byte     *)
(* without looking at the size of gdb->packet: a long answer goes on over  *)
(* the fields behind it, the breakpoint table, breakpoints_number, len and *)
(* the pointer buffer, which the sanitizer does not see, and then past the *)
(* structure, where it ends the process.                                   *)
(***************************************************************************)
EXTENDS Memory, FiniteSets

CONSTANTS
    Contents,         \* the byte strings loaded
    MaxSize,          \* bound on the length asked for by 'm'
    MAX_PACKET_SIZE,  \* the size of gdb->packet, 4096 in the code
    TableSize,        \* the bytes between packet and buffer, 4104 in the code
    PointerSize,      \* the bytes of buffer, the last field
    PacketSize        \* the size announced to gdb by query, 0x400 in the code

\* what gdb_send_buffer adds to the characters of an answer: '$', '#', the two
\* digits of the checksum and a NUL
Frame == 5

ASSUME ByteAssumption == Byte \subseteq 0 .. 255
ASSUME ContentAssumption == Contents \subseteq Seq(Byte)
ASSUME MaxSizeAssumption == MaxSize \in Nat
ASSUME PacketAssumption ==
    /\ MAX_PACKET_SIZE \in Nat /\ TableSize \in Nat /\ PointerSize \in Nat
    /\ PacketSize \in Nat /\ PacketSize + Frame <= MAX_PACKET_SIZE
    /\ 3 + Frame <= MAX_PACKET_SIZE

VARIABLES
    loc,       \* "idle", or the handler at work: "m" or "X"
    request,   \* the packet: command, address, size and bytes
    cursor,    \* the local address
    count,     \* the local size of 'm', the local i of 'X'
    write_ok,  \* the local of 'X'
    content,   \* what is left of the escaped bytes of 'X'
    buffer,    \* the bytes of the answer to 'm'
    spoilt,    \* how many bytes behind gdb->packet have been overwritten
    reply,     \* the last answer
    before     \* history: the memory when the packet arrived

handler == <<loc, request, cursor, count, write_ok, content, buffer, spoilt,
             reply, before>>

ESC == 125
Flip(byte) == IF (byte \div 32) % 2 = 1 THEN byte - 32 ELSE byte + 32

\* what gdb puts in the packet: a special byte takes two places, the i-th byte
\* starts after the places of those before it
Special == {35, 36, 42, 125}
Offset(bytes, i) == i + Cardinality({j \in 1 .. i - 1 : bytes[j] \in Special})

IndexOf(bytes, p) ==
    CHOOSE i \in 1 .. Len(bytes) :
        p \in Offset(bytes, i) .. Offset(bytes, i + 1) - 1

Escape(bytes) ==
    [p \in 1 .. Offset(bytes, Len(bytes) + 1) - 1 |->
        LET i == IndexOf(bytes, p)
        IN  IF bytes[i] \notin Special THEN bytes[i]
            ELSE IF p = Offset(bytes, i) THEN ESC
            ELSE Flip(bytes[i])]

Requests ==
    [cmd : {"m"}, address : Addresses, size : 0 .. MaxSize, bytes : {<<>>}]
        \union
    {[cmd |-> "X", address |-> address, size |-> Len(bytes), bytes |-> bytes] :
        address \in Addresses, bytes \in Contents}

NoRequest == [cmd |-> "m", address |-> 0, size |-> 0, bytes |-> <<>>]

GdbInit ==
    /\ Init
    /\ loc = "idle" /\ request = NoRequest
    /\ cursor = 0 /\ count = 0 /\ write_ok = TRUE
    /\ content = <<>> /\ buffer = <<>> /\ spoilt = 0
    /\ reply = "" /\ before = data

\* the instructions, between two packets
Instructions ==
    /\ loc = "idle"
    /\ \E address \in Addresses, bytes \in Values :
          memory_write(bytes, address, TRUE)
    /\ before' = data'
    /\ UNCHANGED <<loc, request, cursor, count, write_ok, content, buffer,
                   spoilt, reply>>

-----------------------------------------------------------------------------
(* The structure of the protocol, from gdb->packet on *)

\* the first bytes of packet are written, and what is behind it when they are
\* more than it has
InStructure(bytes) == bytes <= MAX_PACKET_SIZE + TableSize + PointerSize

Spoils(bytes) ==
    spoilt' = IF bytes - MAX_PACKET_SIZE > spoilt
              THEN bytes - MAX_PACKET_SIZE ELSE spoilt

\* gdb->buffer, which points to packet[1], has been overwritten
PointerLost == spoilt > TableSize

\* a write past the structure, or through the lost pointer, ends the process
Dies ==
    /\ fault' = "overrun"
    /\ UNCHANGED <<data, value, call, handler>>

\* gdb_send_buffer for an answer of some characters; the locals of the handler
\* end with it
gdb_send_buffer(answer, characters) ==
    \/ /\ ~InStructure(characters + Frame)
       /\ Dies
    \/ /\ InStructure(characters + Frame)
       /\ Spoils(characters + Frame)
       /\ loc' = "idle" /\ request' = NoRequest
       /\ cursor' = 0 /\ count' = 0 /\ write_ok' = TRUE
       /\ content' = <<>> /\ buffer' = <<>> /\ before' = data
       /\ reply' = answer
       /\ UNCHANGED vars

\* the answers that are no bytes have three characters at most; they are
\* copied through gdb->buffer
gdb_send_data(answer) ==
    \/ PointerLost /\ Dies
    \/ ~PointerLost /\ gdb_send_buffer(answer, 3)

-----------------------------------------------------------------------------
\* position = gdb->buffer: the lost pointer is used at once
read_memory(r) ==
    /\ loc = "idle" /\ fault = "none" /\ r.cmd = "m"
    /\ \/ PointerLost /\ Dies
       \/ /\ ~PointerLost /\ r.address < Size
          /\ loc' = "m" /\ request' = r
          /\ cursor' = r.address /\ count' = r.size
          /\ reply' = ""
          /\ UNCHANGED <<vars, write_ok, content, buffer, spoilt, before>>
       \/ /\ ~PointerLost /\ r.address >= Size
          /\ gdb_send_buffer("E0E", 3)

MutantMoreToRead == count > 1 /\ ~OutOfBounds(cursor)
MutantOneMore == count >= 0 /\ ~OutOfBounds(cursor)
MoreToRead == count > 0 /\ ~OutOfBounds(cursor)

\* '$', the digits printed so far and the terminating NUL
Printed(bytes) == 1 + 2 * bytes + 1

read_memory_byte ==
    /\ loc = "m" /\ fault = "none" /\ MoreToRead
    /\ \/ /\ ~InStructure(Printed(Len(buffer) + 1))
          /\ Dies
       \/ /\ InStructure(Printed(Len(buffer) + 1))
          /\ Spoils(Printed(Len(buffer) + 1))
          /\ buffer' = Append(buffer, data[cursor])
          /\ cursor' = cursor + 1
          /\ count' = count - 1
          /\ UNCHANGED <<vars, loc, request, write_ok, content, reply, before>>

read_memory_end ==
    /\ loc = "m" /\ fault = "none" /\ ~MoreToRead
    /\ gdb_send_buffer("bytes", 2 * Len(buffer))

-----------------------------------------------------------------------------
write_memory_binary(r) ==
    /\ loc = "idle" /\ fault = "none" /\ r.cmd = "X"
    /\ loc' = "X" /\ request' = r
    /\ cursor' = r.address /\ count' = 0
    /\ content' = Escape(r.bytes)
    /\ write_ok' = (r.address < Size)
    /\ reply' = ""
    /\ UNCHANGED <<vars, buffer, spoilt, before>>

MoreToWrite == count < request.size /\ write_ok

\* the byte meant by the head of content, and how many bytes it takes there
Decoded == IF Head(content) = ESC THEN Flip(content[2]) ELSE Head(content)
MutantConsumed == 1
Consumed == IF Head(content) = ESC THEN 2 ELSE 1

write_memory_binary_byte ==
    /\ loc = "X" /\ fault = "none" /\ MoreToWrite
    /\ content' = SubSeq(content, Consumed + 1, Len(content))
    /\ cursor' = cursor + 1
    /\ count' = count + 1
    /\ write_ok' = ~OutOfBounds(cursor)
    /\ data' = IF OutOfBounds(cursor) THEN data
               ELSE WrittenAt(cursor, TRUE, <<Decoded>>)
    /\ UNCHANGED <<fault, value, call, loc, request, buffer, spoilt, reply,
                   before>>

write_memory_binary_end ==
    /\ loc = "X" /\ fault = "none" /\ ~MoreToWrite
    /\ gdb_send_data(IF write_ok THEN "OK" ELSE "E02")

Handlers ==
    \/ read_memory_byte \/ read_memory_end
    \/ write_memory_binary_byte \/ write_memory_binary_end

GdbNext ==
    \/ Instructions
    \/ \E r \in Requests : read_memory(r) \/ write_memory_binary(r)
    \/ Handlers

GdbSpec == GdbInit /\ [][GdbNext]_<<vars, handler>>

-----------------------------------------------------------------------------
\* the addresses of a packet that are in the memory
Covered == {a \in 0 .. Size - 1 : a >= request.address
                                    /\ a < request.address + request.size}

\* The byte of the packet for an address.
Meant(a) == request.bytes[a - request.address + 1]

\* write_memory_binary stores exactly the bytes gdb means, whatever is escaped
\* and wherever the packet leaves the memory, and touches no other byte; OK is
\* answered if and only if the whole packet was inside the memory (after E02
\* the part inside has been written).
LoadIsExact ==
    [][loc = "X" /\ loc' = "idle" =>
        /\ \A a \in 0 .. Size - 1 :
              data[a] = IF a \in Covered THEN Meant(a) ELSE before[a]
        /\ reply' = "OK" <=> /\ request.address < Size
                             /\ request.address + request.size <= Size
      ]_<<vars, handler>>

\* An answer to 'm' that is sent is what the memory holds, up to its end.  A
\* longer one than gdb->packet has room for is sent too, as long as it stays
\* in the structure: gdb_send_buffer looks for its NUL behind the packet.
AnswerIsMemory ==
    [][loc = "m" /\ loc' = "idle" =>
        /\ Len(buffer) = Cardinality(Covered)
        /\ \A i \in 1 .. Len(buffer) : buffer[i] = data[request.address + i - 1]
      ]_<<vars, handler>>

\* What read_memory writes, step by step, stays in gdb->packet when the bytes
\* asked for that are in the memory have room there with the frame of
\* gdb_send_buffer, and so for every length that gdb may ask for under the
\* PacketSize of query: the breakpoint table and the pointer behind the packet
\* are not overwritten, and the process does not die.
Fitting ==
    \/ 2 * Cardinality(Covered) + Frame <= MAX_PACKET_SIZE
    \/ 2 * request.size <= PacketSize

AnswerFits ==
    [][loc = "m" /\ Fitting => UNCHANGED <<spoilt, fault>>]_<<vars, handler>>
=============================================================================
