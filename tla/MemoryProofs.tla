---------------------------- MODULE MemoryProofs ----------------------------
(***************************************************************************)
(* The accesses of memory.c read back what they have written, and the      *)
(* packets of gdb load and read the memory exactly, for every size of the  *)
(* memory, every set of bytes, addresses, values and packets.              *)
(***************************************************************************)
EXTENDS GdbMemory, FiniteSetTheorems, SequenceTheorems, TLAPS

\* A value is not empty, and has one, two or four bytes.
LEMMA ValueBytes ==
    ASSUME NEW bytes \in Value
    PROVE  /\ Len(bytes) \in Width
           /\ bytes \in [1 .. Len(bytes) -> Byte]
           /\ bytes \in Seq(Byte)
<1>1. PICK width \in Width : bytes \in [1 .. width -> Byte]
  BY DEF Value
<1>2. width \in Nat
  BY DEF Width
<1>3. bytes \in Seq(Byte) /\ Len(bytes) = width
  BY <1>1, <1>2
<1> QED BY <1>1, <1>3

LEMMA WidthPositive ==
    ASSUME NEW width \in Width
    PROVE  width \in Nat /\ width >= 1
BY DEF Width

\* The bytes of an access that is inside the memory are.
LEMMA PlaceInside ==
    ASSUME NEW width \in Width, NEW address \in Nat, NEW be \in BOOLEAN,
           NEW i \in 1 .. width, Inside(width, address)
    PROVE  /\ Place(width, address, be, i) \in 0 .. Size - 1
           /\ Place(width, address, be, i) \in address .. address + width - 1
BY WidthPositive, SizeAssumption DEF Place, Inside, Overrun, OutOfBounds

LEMMA ReadOK ==
    ASSUME TypeOK, NEW width \in Width, NEW address \in Nat, NEW be \in BOOLEAN,
           Inside(width, address)
    PROVE  ReadAt(width, address, be) \in Value
<1>1. \A i \in 1 .. width : data[Place(width, address, be, i)] \in Byte
  BY PlaceInside DEF TypeOK
<1>2. ReadAt(width, address, be) \in [1 .. width -> Byte]
  BY <1>1 DEF ReadAt
<1> QED BY <1>2 DEF Value

LEMMA WrittenOK ==
    ASSUME TypeOK, NEW bytes \in Value, NEW address \in Nat, NEW be \in BOOLEAN
    PROVE  WrittenAt(address, be, bytes) \in [0 .. Size - 1 -> Byte]
<1>1. /\ Len(bytes) \in Nat
      /\ \A i \in 1 .. Len(bytes) : bytes[i] \in Byte
  BY ValueBytes, WidthPositive
<1>2. ASSUME NEW a \in 0 .. Size - 1, a \in address .. address + Len(bytes) - 1
      PROVE  /\ a - address + 1 \in 1 .. Len(bytes)
             /\ address + Len(bytes) - a \in 1 .. Len(bytes)
  BY <1>1, <1>2, SizeAssumption
<1> QED BY <1>1, <1>2 DEF WrittenAt, TypeOK

\* What a step of Next is: the facts that the two theorems use.
LEMMA StepOK ==
    ASSUME TypeOK, Next
    PROVE  /\ TypeOK'
           /\ \/ UNCHANGED data /\ ~Stored'
              \/ /\ call'.bytes \in Value /\ call'.address \in Nat
                 /\ call'.be \in BOOLEAN /\ Stored'
                 /\ Inside(Len(call'.bytes), call'.address)
                 /\ data' = WrittenAt(call'.address, call'.be, call'.bytes)
<1>1. PICK address \in Addresses, be \in BOOLEAN :
         \/ \E width \in Width : memory_read(width, address, be)
         \/ \E bytes \in Values : memory_write(bytes, address, be)
  BY DEF Next
<1>2. address \in Nat
  BY AddressAssumption
<1>3. ASSUME NEW width \in Width, memory_read(width, address, be)
      PROVE  TypeOK' /\ UNCHANGED data /\ ~Stored'
  <2>1. call' = [name |-> "read", bytes |-> <<>>, address |-> address,
                 be |-> be, result |-> IF OutOfBounds(address) THEN -1 ELSE 0]
    BY <1>3 DEF memory_read, Calls
  <2>2. call' \in Call /\ call'.name = "read"
    BY <1>2, <2>1 DEF Call
  <2>3. value' \in Value
    BY <1>2, <1>3, ReadOK DEF memory_read, Fails, Overruns, TypeOK
  <2>4. UNCHANGED data /\ fault' \in {"none", "overrun"}
    BY <1>3 DEF memory_read, Fails, Overruns, TypeOK
  <2> QED BY <2>2, <2>3, <2>4 DEF TypeOK, Stored
<1>4. ASSUME NEW bytes \in Values, memory_write(bytes, address, be)
      PROVE  /\ TypeOK'
             /\ \/ UNCHANGED data /\ ~Stored'
                \/ /\ call'.bytes \in Value /\ call'.address \in Nat
                   /\ call'.be \in BOOLEAN /\ Stored'
                   /\ Inside(Len(call'.bytes), call'.address)
                   /\ data' = WrittenAt(call'.address, call'.be, call'.bytes)
  <2>1. bytes \in Value
    BY ValueAssumption
  <2>2. call' = [name |-> "write", bytes |-> bytes, address |-> address,
                 be |-> be, result |-> IF OutOfBounds(address) THEN -1 ELSE 0]
    BY <1>4 DEF memory_write, Calls
  <2>3. /\ call'.bytes = bytes /\ call'.address = address /\ call'.be = be
        /\ call'.result = IF OutOfBounds(address) THEN -1 ELSE 0
    BY <2>2
  <2>4. call' \in Call
    BY <1>2, <2>1, <2>2 DEF Call
  <2>5. CASE Fails(address)
    BY <2>3, <2>4, <2>5 DEF Fails, TypeOK, Stored
  <2>6. CASE Overruns(Len(bytes), address)
    BY <2>4, <2>6 DEF Overruns, TypeOK, Stored
  <2>7. CASE Inside(Len(bytes), address)
             /\ data' = WrittenAt(address, be, bytes) /\ UNCHANGED <<fault, value>>
    <3>1. data' \in [0 .. Size - 1 -> Byte]
      BY <1>2, <2>1, <2>7, WrittenOK
    <3>2. Stored'
      BY <1>4, <2>2, <2>7 DEF Stored, Inside, memory_write, Calls
    <3> QED BY <1>2, <2>1, <2>3, <2>4, <2>7, <3>1, <3>2 DEF TypeOK
  <2> QED BY <1>4, <2>5, <2>6, <2>7 DEF memory_write
<1> QED BY <1>1, <1>3, <1>4

\* Type correctness of memory.c.
THEOREM MemoryTypeCorrect == Spec => []TypeOK
<1>1. Init => TypeOK
  BY ValueAssumption DEF Init, TypeOK, Call, Width
<1>2. TypeOK /\ [Next]_vars => TypeOK'
  BY StepOK DEF TypeOK, vars
<1> QED BY <1>1, <1>2, PTL DEF Spec

\* The i-th byte of an access is the one at its address.
LEMMA ReadByte ==
    ASSUME NEW width \in Width, NEW address \in Nat, NEW be \in BOOLEAN,
           NEW i \in 1 .. width, Inside(width, address)
    PROVE  /\ Home(width, address, be, i) \in 0 .. Size - 1
           /\ ReadAt(width, address, be)[i] = data[Home(width, address, be, i)]
           /\ ReadAt(width, address, be)'[i] = data'[Home(width, address, be, i)]
<1>1. Place(width, address, be, i) = Home(width, address, be, i)
  BY WidthPositive DEF Place, Home
<1>2. Place(width, address, be, i) \in 0 .. Size - 1
  BY PlaceInside
<1>3. /\ ReadAt(width, address, be)[i] = data[Place(width, address, be, i)]
      /\ ReadAt(width, address, be)'[i] = data'[Place(width, address, be, i)]
  BY DEF ReadAt, Place
<1> QED BY <1>1, <1>2, <1>3

\* The byte that a write leaves at an address is the one that belongs there, or
\* the one that was there.
LEMMA WrittenByte ==
    ASSUME NEW bytes \in Value, NEW address \in Nat, NEW be \in BOOLEAN,
           NEW at \in 0 .. Size - 1
    PROVE  /\ \A j \in 1 .. Len(bytes) :
                 Home(Len(bytes), address, be, j) = at
                     => WrittenAt(address, be, bytes)[at] = bytes[j]
           /\ ~(address <= at /\ at < address + Len(bytes))
                 => WrittenAt(address, be, bytes)[at] = data[at]
<1>1. PICK width \in Nat : width = Len(bytes)
  BY ValueBytes, WidthPositive
<1>2. at \in Int
  BY SizeAssumption
<1>3. WrittenAt(address, be, bytes)[at] =
         IF at \in address .. address + width - 1
         THEN bytes[IF be THEN at - address + 1 ELSE address + width - at]
         ELSE data[at]
  BY <1>1 DEF WrittenAt
<1>4. ASSUME NEW j \in 1 .. width, Home(width, address, be, j) = at
      PROVE  /\ at \in address .. address + width - 1
             /\ (IF be THEN at - address + 1 ELSE address + width - at) = j
  BY <1>1, <1>2, <1>4 DEF Home
<1>5. at \in address .. address + width - 1
         <=> address <= at /\ at < address + width
  BY <1>1, <1>2
<1> QED BY <1>1, <1>3, <1>4, <1>5

\* memory.c reads back what it has written, in both byte orders and for every
\* overlap of two widths, and an access never disturbs a byte it does not cover.
THEOREM MemoryReadsBack == Spec => WriteReadsBack
<1> DEFINE Reads(address, width, be, i, at) ==
        /\ Stored' /\ Covers(at)' =>
              \A j \in 1 .. Len(call'.bytes) :
                  Home(Len(call'.bytes), call'.address, call'.be, j) = at
                      => ReadAt(width, address, be)'[i] = call'.bytes[j]
        /\ ~(Stored' /\ Covers(at)') =>
              ReadAt(width, address, be)'[i] = ReadAt(width, address, be)[i]
<1> DEFINE A ==
      \A address \in 0 .. Size - 1, width \in Width, be \in BOOLEAN :
        Inside(width, address) =>
            \A i \in 1 .. width :
                Reads(address, width, be, i, Home(width, address, be, i))
<1>1. ASSUME TypeOK, Next
      PROVE  A
  <2> SUFFICES ASSUME NEW address \in 0 .. Size - 1, NEW width \in Width,
                      NEW be \in BOOLEAN, Inside(width, address),
                      NEW i \in 1 .. width
               PROVE  Reads(address, width, be, i, Home(width, address, be, i))
    OBVIOUS
  <2>1. address \in Nat
    BY SizeAssumption
  <2>2. PICK at \in 0 .. Size - 1 :
            /\ at = Home(width, address, be, i)
            /\ ReadAt(width, address, be)[i] = data[at]
            /\ ReadAt(width, address, be)'[i] = data'[at]
    BY <2>1, ReadByte
  <2>3. CASE UNCHANGED data /\ ~Stored'
    BY <2>2, <2>3
  <2>4. CASE /\ call'.bytes \in Value /\ call'.address \in Nat
             /\ call'.be \in BOOLEAN /\ Stored'
             /\ Inside(Len(call'.bytes), call'.address)
             /\ data' = WrittenAt(call'.address, call'.be, call'.bytes)
    <3>1. /\ \A j \in 1 .. Len(call'.bytes) :
                Home(Len(call'.bytes), call'.address, call'.be, j) = at
                    => data'[at] = call'.bytes[j]
          /\ ~(call'.address <= at /\ at < call'.address + Len(call'.bytes))
                => data'[at] = data[at]
      BY <2>4, WrittenByte
    <3>2. Covers(at)' <=>
             call'.address <= at /\ at < call'.address + Len(call'.bytes)
      BY DEF Covers
    <3> QED BY <2>2, <2>4, <3>1, <3>2
  <2> QED BY <1>1, <2>3, <2>4, StepOK
<1> QED BY <1>1, MemoryTypeCorrect, PTL DEF Spec, WriteReadsBack

-----------------------------------------------------------------------------
(* The escaped bytes of a packet *)

Specials(bytes, i) == {j \in 1 .. i - 1 : bytes[j] \in Special}

LEMMA OffsetType ==
    ASSUME NEW bytes, NEW i \in Nat \ {0}
    PROVE  /\ IsFiniteSet(Specials(bytes, i))
           /\ Cardinality(Specials(bytes, i)) \in Nat
           /\ Offset(bytes, i) = i + Cardinality(Specials(bytes, i))
           /\ Offset(bytes, i) \in Nat /\ Offset(bytes, i) >= i
<1>1. IsFiniteSet(1 .. i - 1)
  BY FS_Interval
<1>2. Specials(bytes, i) \subseteq 1 .. i - 1
  BY DEF Specials
<1>3. IsFiniteSet(Specials(bytes, i))
  BY <1>1, <1>2, FS_Subset
<1>4. Cardinality(Specials(bytes, i)) \in Nat
  BY <1>3, FS_CardinalityType
<1>5. Offset(bytes, i) = i + Cardinality(Specials(bytes, i))
  BY DEF Offset, Specials
<1> QED BY <1>3, <1>4, <1>5

LEMMA OffsetStep ==
    ASSUME NEW bytes, NEW i \in Nat \ {0}
    PROVE  /\ Offset(bytes, 1) = 1
           /\ Offset(bytes, i + 1) =
                 Offset(bytes, i) + IF bytes[i] \in Special THEN 2 ELSE 1
<1>1. Offset(bytes, 1) = 1
  <2>1. Specials(bytes, 1) = {}
    BY DEF Specials
  <2> QED BY <2>1, OffsetType, FS_EmptySet
<1>2. CASE bytes[i] \in Special
  <2>1. Specials(bytes, i + 1) = Specials(bytes, i) \union {i}
    BY <1>2 DEF Specials
  <2>2. i \notin Specials(bytes, i)
    BY DEF Specials
  <2>3. Cardinality(Specials(bytes, i + 1)) = Cardinality(Specials(bytes, i)) + 1
    BY <2>1, <2>2, OffsetType, FS_AddElement
  <2> QED BY <1>1, <1>2, <2>3, OffsetType
<1>3. CASE bytes[i] \notin Special
  <2>1. Specials(bytes, i + 1) = Specials(bytes, i)
    BY <1>3 DEF Specials
  <2> QED BY <1>1, <1>3, <2>1, OffsetType
<1> QED BY <1>2, <1>3

LEMMA OffsetMonotone ==
    ASSUME NEW bytes, NEW i \in Nat \ {0}, NEW k \in Nat \ {0}, i <= k
    PROVE  Offset(bytes, i) + (k - i) <= Offset(bytes, k)
<1>1. Specials(bytes, i) \subseteq Specials(bytes, k)
  BY DEF Specials
<1>2. Cardinality(Specials(bytes, i)) <= Cardinality(Specials(bytes, k))
  BY <1>1, OffsetType, FS_Subset
<1> QED BY <1>2, OffsetType

\* The places of the i-th byte: one with the byte, or two with '}' and the byte
\* flipped.
LEMMA EscapeAt ==
    ASSUME NEW bytes \in Seq(Byte), NEW i \in 1 .. Len(bytes)
    PROVE  LET place == Offset(bytes, i)
           IN  IF bytes[i] \in Special
               THEN Escape(bytes)[place] = ESC /\ Escape(bytes)[place + 1] = Flip(bytes[i])
               ELSE Escape(bytes)[place] = bytes[i]
<1>1. PICK n \in Nat : n = Len(bytes) /\ i \in 1 .. n /\ i \in Nat \ {0}
  OBVIOUS
<1>2. PICK place \in Nat : place = Offset(bytes, i) /\ place >= 1
  BY <1>1, OffsetType
<1>3. PICK next \in Nat : /\ next = Offset(bytes, i + 1)
                          /\ next = place + IF bytes[i] \in Special THEN 2 ELSE 1
  <2>1. i + 1 \in Nat \ {0}
    BY <1>1
  <2> QED BY <1>1, <1>2, <2>1, OffsetStep, OffsetType
<1>4. PICK end \in Nat : end = Offset(bytes, n + 1) /\ next <= end
  <2>1. n + 1 \in Nat \ {0} /\ i + 1 \in Nat \ {0} /\ i + 1 <= n + 1
    BY <1>1
  <2>2. Offset(bytes, i + 1) + ((n + 1) - (i + 1)) <= Offset(bytes, n + 1)
    BY <2>1, OffsetMonotone
  <2>3. Offset(bytes, n + 1) \in Nat
    BY <2>1, OffsetType
  <2> QED BY <1>1, <1>3, <2>2, <2>3
<1>5. ASSUME NEW p \in place .. next - 1
      PROVE  Escape(bytes)[p] = IF bytes[i] \notin Special THEN bytes[i]
                                ELSE IF p = Offset(bytes, i) THEN ESC
                                ELSE Flip(bytes[i])
  <2>1. p \in 1 .. Offset(bytes, n + 1) - 1
    BY <1>2, <1>3, <1>4
  <2>2. p \in Offset(bytes, i) .. Offset(bytes, i + 1) - 1
    BY <1>2, <1>3
  <2>3. ASSUME NEW k \in 1 .. n, p \in Offset(bytes, k) .. Offset(bytes, k + 1) - 1
        PROVE  k = i
    <3>1. /\ Offset(bytes, k) \in Nat /\ Offset(bytes, k + 1) \in Nat
      BY OffsetType
    <3>2. ~(k < i)
      <4>1. SUFFICES ASSUME k < i PROVE FALSE
        OBVIOUS
      <4>2. Offset(bytes, k + 1) <= Offset(bytes, i)
        <5>1. k + 1 \in Nat \ {0} /\ k + 1 <= i
          BY <1>1, <4>1
        <5>2. Offset(bytes, k + 1) + (i - (k + 1)) <= Offset(bytes, i)
          BY <1>1, <5>1, OffsetMonotone
        <5> QED BY <1>1, <1>2, <3>1, <5>1, <5>2
      <4> QED BY <1>2, <2>3, <3>1, <4>2
    <3>3. ~(k > i)
      <4>1. SUFFICES ASSUME k > i PROVE FALSE
        OBVIOUS
      <4>2. Offset(bytes, i + 1) <= Offset(bytes, k)
        <5>1. i + 1 \in Nat \ {0} /\ i + 1 <= k /\ k \in Nat \ {0}
          BY <1>1, <4>1
        <5>2. Offset(bytes, i + 1) + (k - (i + 1)) <= Offset(bytes, k)
          BY <5>1, OffsetMonotone
        <5> QED BY <1>1, <1>3, <3>1, <5>1, <5>2
      <4> QED BY <1>3, <2>3, <3>1, <4>2
    <3> QED BY <1>1, <3>2, <3>3
  <2>4. IndexOf(bytes, p) = i
    BY <1>1, <2>2, <2>3 DEF IndexOf
  <2> QED BY <1>1, <2>1, <2>4 DEF Escape
<1>6. place \in place .. next - 1
  BY <1>2, <1>3
<1>7. CASE bytes[i] \in Special
  <2>1. place + 1 \in place .. next - 1 /\ place + 1 # place
    BY <1>2, <1>3, <1>7
  <2> QED BY <1>2, <1>5, <1>6, <1>7, <2>1
<1>8. CASE bytes[i] \notin Special
  BY <1>2, <1>5, <1>6, <1>8
<1> QED BY <1>7, <1>8

-----------------------------------------------------------------------------
(* The loops of read_memory and write_memory_binary *)

\* the characters of an escaped string
Places(bytes) == {Escape(bytes)[p] : p \in 1 .. Offset(bytes, Len(bytes) + 1) - 1}

\* between two packets
Idle == before = data /\ buffer = <<>>

\* read_memory: the bytes from the address of the packet up to the cursor
Reading ==
    /\ request.address \in Nat /\ request.size \in Nat
    /\ cursor \in request.address .. Size /\ count \in Nat
    /\ cursor + count = request.address + request.size
    /\ buffer \in Seq(Byte) /\ Len(buffer) = cursor - request.address
    /\ \A i \in 1 .. Len(buffer) : buffer[i] = data[request.address + i - 1]

\* the escaped string from the places of the i-th byte on
RestOf(bytes, i, chars) ==
    /\ chars \in Seq(Places(bytes))
    /\ Len(chars) = Offset(bytes, Len(bytes) + 1) - Offset(bytes, i)
    /\ \A j \in 1 .. Len(chars) :
          chars[j] = Escape(bytes)[Offset(bytes, i) + j - 1]

\* write_memory_binary: count bytes of the packet have been stored, as far as
\* they are in the memory, and content starts at the places of the next one
Writing ==
    /\ request.address \in Nat /\ request.bytes \in Seq(Byte)
    /\ request.size = Len(request.bytes)
    /\ count \in 0 .. request.size /\ cursor = request.address + count
    /\ RestOf(request.bytes, count + 1, content)
    /\ write_ok = (request.address < Size /\ cursor <= Size)
    /\ request.address >= Size => count = 0
    /\ \A a \in 0 .. Size - 1 :
          data[a] = IF a \in request.address .. cursor - 1
                    THEN Meant(a) ELSE before[a]

GdbMemoryInv ==
    /\ TypeOK
    /\ spoilt \in Nat
    /\ loc \in {"idle", "m", "X"}
    /\ loc = "idle" => Idle
    /\ loc = "m" => Reading
    /\ loc = "X" => Writing

LEMMA FlipTwice ==
    \A byte \in Special : Flip(Flip(byte)) = byte
BY DEF Special, Flip

\* The escaped string is a sequence: content starts with all of it.
LEMMA EscapeSeq ==
    ASSUME NEW bytes \in Seq(Byte)
    PROVE  /\ Escape(bytes) \in Seq(Places(bytes))
           /\ Len(Escape(bytes)) = Offset(bytes, Len(bytes) + 1) - 1
<1>1. PICK n \in Nat : n = Offset(bytes, Len(bytes) + 1) - 1
  BY OffsetType
<1>2. Escape(bytes) = [p \in 1 .. n |-> Escape(bytes)[p]]
  BY <1>1 DEF Escape
<1>3. Escape(bytes) \in [1 .. n -> Places(bytes)]
  BY <1>1, <1>2 DEF Places
<1> QED BY <1>1, <1>2, <1>3

\* The head of content is the next byte of the packet, escaped or not.
LEMMA NextByte ==
    ASSUME Writing, count < request.size
    PROVE  /\ Decoded = request.bytes[count + 1]
           /\ Consumed = Offset(request.bytes, count + 2)
                            - Offset(request.bytes, count + 1)
           /\ Consumed \in 1 .. 2 /\ Consumed <= Len(content)
<1>1. PICK bytes \in Seq(Byte) : bytes = request.bytes
  BY DEF Writing
<1>2. PICK n \in Nat : n = Len(bytes) /\ count \in 0 .. n /\ count < n
  BY <1>1 DEF Writing
<1>3. PICK i \in 1 .. n : i = count + 1 /\ i \in Nat \ {0} /\ i + 1 = count + 2
  BY <1>2
<1>4. PICK place \in Nat : place = Offset(bytes, i) /\ place >= 1
  BY <1>3, OffsetType
<1>5. PICK next \in Nat : /\ next = Offset(bytes, i + 1)
                          /\ next = place + IF bytes[i] \in Special THEN 2 ELSE 1
  <2>1. i + 1 \in Nat \ {0}
    BY <1>3
  <2> QED BY <1>3, <1>4, <2>1, OffsetStep, OffsetType
<1>6. PICK end \in Nat : end = Offset(bytes, n + 1) /\ next <= end
  <2>1. n + 1 \in Nat \ {0} /\ i + 1 \in Nat \ {0} /\ i + 1 <= n + 1
    BY <1>3
  <2>2. Offset(bytes, i + 1) + ((n + 1) - (i + 1)) <= Offset(bytes, n + 1)
    BY <2>1, OffsetMonotone
  <2>3. Offset(bytes, n + 1) \in Nat
    BY <2>1, OffsetType
  <2> QED BY <1>3, <1>5, <2>2, <2>3
<1>7. /\ content \in Seq(Places(bytes)) /\ Len(content) = end - place
      /\ \A j \in 1 .. Len(content) : content[j] = Escape(bytes)[place + j - 1]
  BY <1>1, <1>2, <1>3, <1>4, <1>6 DEF Writing, RestOf
<1>8. /\ Len(content) >= 1 /\ Head(content) = content[1]
      /\ content[1] = Escape(bytes)[place]
  <2>1. Len(content) >= 1
    BY <1>4, <1>5, <1>6, <1>7
  <2>2. Head(content) = content[1]
    BY <1>7, <2>1
  <2>3. place + 1 - 1 = place /\ 1 \in 1 .. Len(content)
    BY <1>4, <1>7, <2>1
  <2> QED BY <1>7, <2>1, <2>2, <2>3
<1>9. CASE bytes[i] \in Special
  <2>1. Escape(bytes)[place] = ESC /\ Escape(bytes)[place + 1] = Flip(bytes[i])
    BY <1>2, <1>4, <1>9, EscapeAt
  <2>2. 2 \in 1 .. Len(content) /\ place + 2 - 1 = place + 1
    BY <1>4, <1>5, <1>6, <1>7, <1>9
  <2>3. content[2] = Flip(bytes[i])
    BY <1>7, <2>1, <2>2
  <2>4. Decoded = Flip(Flip(bytes[i])) /\ Consumed = 2
    BY <1>8, <2>1, <2>3 DEF Decoded, Consumed
  <2>5. Decoded = bytes[i]
    BY <1>9, <2>4, FlipTwice
  <2> QED BY <1>1, <1>3, <1>4, <1>5, <1>9, <2>2, <2>4, <2>5
<1>10. CASE bytes[i] \notin Special
  <2>1. Escape(bytes)[place] = bytes[i]
    BY <1>2, <1>4, <1>10, EscapeAt
  <2>2. bytes[i] # ESC
    BY <1>10 DEF Special, ESC
  <2>3. Decoded = bytes[i] /\ Consumed = 1
    BY <1>8, <2>1, <2>2 DEF Decoded, Consumed
  <2> QED BY <1>1, <1>3, <1>4, <1>5, <1>8, <1>10, <2>3
<1> QED BY <1>9, <1>10

\* What is left of content after it starts at the places of the byte after it.
LEMMA NextContent ==
    ASSUME Writing, count < request.size
    PROVE  RestOf(request.bytes, count + 2,
                  SubSeq(content, Consumed + 1, Len(content)))
<1>1. PICK bytes \in Seq(Byte) : bytes = request.bytes
  BY DEF Writing
<1>2. PICK n \in Nat : n = Len(bytes) /\ count \in 0 .. n /\ count < n
  BY <1>1 DEF Writing
<1>3. PICK c \in 1 .. 2 : c = Consumed /\ c <= Len(content)
  BY NextByte
<1>4. PICK place \in Nat : place = Offset(bytes, count + 1)
  <2>1. count + 1 \in Nat \ {0}
    BY <1>2
  <2> QED BY <2>1, OffsetType
<1>5. Offset(bytes, count + 2) = place + c
  <2>1. c = Offset(bytes, count + 2) - place
    BY <1>1, <1>3, <1>4, NextByte
  <2>2. count + 2 \in Nat \ {0}
    BY <1>2
  <2>3. Offset(bytes, count + 2) \in Nat
    BY <2>2, OffsetType
  <2> QED BY <1>4, <2>1, <2>3
<1>6. PICK end \in Nat : end = Offset(bytes, n + 1)
  BY OffsetType
<1>7. PICK s \in Seq(Places(bytes)) :
          /\ s = content /\ Len(s) = end - place
          /\ \A j \in 1 .. Len(s) : s[j] = Escape(bytes)[place + j - 1]
  BY <1>1, <1>2, <1>4, <1>6 DEF Writing, RestOf
<1>8. PICK l \in Nat : l = Len(s) /\ c <= l
  BY <1>3, <1>7
<1>9. PICK m \in 1 .. l + 1 : m = c + 1
  BY <1>3, <1>8
<1>10. PICK left \in Seq(Places(bytes)) : left = SubSeq(s, m, l)
  <2>1. \A i \in m .. l : s[i] \in Places(bytes)
    BY <1>7, <1>8, <1>9
  <2>2. m \in Int /\ l \in Int
    BY <1>8, <1>9
  <2>3. SubSeq(s, m, l) \in Seq(Places(bytes))
    BY <2>1, <2>2, SubSeqProperties
  <2> QED BY <2>3
<1>11. Len(left) = l - c
  <2>1. Len(left) = IF m <= l THEN l - m + 1 ELSE 0
    BY <1>8, <1>9, <1>10, SubSeqProperties
  <2> QED BY <1>3, <1>8, <1>9, <2>1
<1>12. ASSUME NEW j \in 1 .. l - c
       PROVE  left[j] = Escape(bytes)[(place + c) + j - 1]
  <2>1. PICK k \in 1 .. l : k = m + j - 1 /\ place + k - 1 = (place + c) + j - 1
    BY <1>3, <1>4, <1>8, <1>9
  <2>2. j \in 1 .. l - m + 1
    BY <1>3, <1>8, <1>9
  <2>3. left[j] = s[k]
    BY <1>8, <1>9, <1>10, <2>1, <2>2, SubSeqProperties
  <2> QED BY <1>7, <1>8, <2>1, <2>3
<1>13. Len(left) = end - (place + c)
  BY <1>3, <1>4, <1>6, <1>7, <1>8, <1>11
<1>14. left = SubSeq(content, Consumed + 1, Len(content))
  BY <1>3, <1>7, <1>8, <1>9, <1>10
<1>15. RestOf(bytes, count + 2, left)
  BY <1>2, <1>5, <1>6, <1>10, <1>11, <1>12, <1>13 DEF RestOf
<1> QED BY <1>1, <1>14, <1>15

-----------------------------------------------------------------------------
(* The invariant of the two loops *)

LEMMA RequestTypes ==
    ASSUME NEW r \in Requests
    PROVE  /\ r.address \in Nat
           /\ r.cmd = "m" => r.size \in Nat
           /\ r.cmd = "X" => r.bytes \in Seq(Byte) /\ r.size = Len(r.bytes)
<1>1. CASE r \in [cmd : {"m"}, address : Addresses, size : 0 .. MaxSize,
                  bytes : {<<>>}]
  <2>1. r.cmd = "m" /\ r.address \in Addresses /\ r.size \in 0 .. MaxSize
    BY <1>1
  <2>2. r.address \in Nat
    BY <2>1, AddressAssumption
  <2>3. r.size \in Nat
    BY <2>1, MaxSizeAssumption
  <2> QED BY <2>1, <2>2, <2>3
<1>2. CASE \E address \in Addresses, bytes \in Contents :
              r = [cmd |-> "X", address |-> address, size |-> Len(bytes),
                   bytes |-> bytes]
  <2>1. PICK address \in Addresses, bytes \in Contents :
            r = [cmd |-> "X", address |-> address, size |-> Len(bytes),
                 bytes |-> bytes]
    BY <1>2
  <2>2. r.address = address /\ r.size = Len(bytes) /\ r.bytes = bytes /\ r.cmd = "X"
    BY <2>1
  <2>3. address \in Nat /\ bytes \in Seq(Byte)
    BY AddressAssumption, ContentAssumption
  <2> QED BY <2>2, <2>3
<1> QED BY <1>1, <1>2 DEF Requests

\* What is written from gdb->packet on.
LEMMA SpoilsType ==
    ASSUME spoilt \in Nat, NEW bytes \in Nat, Spoils(bytes)
    PROVE  /\ spoilt' \in Nat
           /\ bytes <= MAX_PACKET_SIZE => spoilt' = spoilt
BY PacketAssumption DEF Spoils

\* A step that leaves the memory and the handler alone, the death of the process
\* among them.
LEMMA DiesKeeps ==
    ASSUME GdbMemoryInv, UNCHANGED <<data, value, call, handler>>,
           fault' \in {"none", "overrun"}
    PROVE  GdbMemoryInv'
<1>1. /\ UNCHANGED <<data, value, call>>
      /\ UNCHANGED <<loc, request, cursor, count, write_ok, content, buffer,
                     spoilt, before>>
  BY DEF handler
<1>2. /\ TypeOK' /\ spoilt' \in Nat
      /\ loc' = "idle" => Idle'
      /\ loc' = "m" => Reading'
  BY <1>1 DEF GdbMemoryInv, TypeOK, Idle, Reading
<1>3. \A a : Meant(a)' = Meant(a)
  BY <1>1 DEF Meant
<1>4. loc' = "X" => Writing'
  BY <1>1, <1>3 DEF GdbMemoryInv, Writing
<1> QED BY <1>1, <1>2, <1>4 DEF GdbMemoryInv

\* The end of a handler.
LEMMA AnswerKeeps ==
    ASSUME GdbMemoryInv, NEW answer, NEW characters \in Nat,
           gdb_send_buffer(answer, characters)
    PROVE  GdbMemoryInv'
<1>1. CASE Dies
  BY <1>1, DiesKeeps DEF Dies
<1>2. CASE ~Dies
  <2>1. /\ loc' = "idle" /\ before' = data /\ buffer' = <<>> /\ UNCHANGED vars
        /\ Spoils(characters + Frame)
    BY <1>2 DEF gdb_send_buffer
  <2>2. TypeOK'
    BY <2>1 DEF vars, GdbMemoryInv, TypeOK
  <2>3. characters + Frame \in Nat
    BY DEF Frame
  <2>4. spoilt' \in Nat
    BY <2>1, <2>3, SpoilsType DEF GdbMemoryInv
  <2>5. Idle'
    BY <2>1 DEF vars, Idle
  <2> QED BY <2>1, <2>2, <2>4, <2>5 DEF GdbMemoryInv
<1> QED BY <1>1, <1>2

LEMMA InstructionsKeep ==
    ASSUME GdbMemoryInv, Instructions
    PROVE  GdbMemoryInv'
<1>1. PICK address \in Addresses, bytes \in Values : memory_write(bytes, address, TRUE)
  BY DEF Instructions
<1>2. TypeOK'
  BY <1>1, StepOK DEF Next, GdbMemoryInv
<1>3. loc' = "idle" /\ Idle' /\ spoilt' \in Nat
  BY DEF Instructions, GdbMemoryInv, Idle
<1> QED BY <1>2, <1>3 DEF GdbMemoryInv

LEMMA ReadStartKeeps ==
    ASSUME GdbMemoryInv, NEW r \in Requests, read_memory(r)
    PROVE  GdbMemoryInv'
<1>1. CASE gdb_send_buffer("E0E", 3)
  BY <1>1, AnswerKeeps
<1>2. CASE Dies
  BY <1>2, DiesKeeps DEF Dies
<1>3. CASE ~gdb_send_buffer("E0E", 3) /\ ~Dies
  <2>1. /\ loc = "idle" /\ r.cmd = "m" /\ r.address < Size
        /\ loc' = "m" /\ request' = r /\ cursor' = r.address /\ count' = r.size
        /\ UNCHANGED <<vars, buffer, spoilt>>
    BY <1>3 DEF read_memory
  <2>2. TypeOK'
    BY <2>1 DEF vars, GdbMemoryInv, TypeOK
  <2>3. r.address \in Nat /\ r.size \in Nat
    BY <2>1, RequestTypes
  <2>4. buffer' = <<>>
    BY <2>1 DEF GdbMemoryInv, Idle
  <2>5. buffer' \in Seq(Byte) /\ Len(buffer') = 0
    BY <2>4
  <2>6. Reading'
    BY <2>1, <2>3, <2>5, SizeAssumption DEF Reading
  <2> QED BY <2>1, <2>2, <2>6 DEF GdbMemoryInv
<1> QED BY <1>1, <1>2, <1>3

LEMMA ReadByteKeeps ==
    ASSUME GdbMemoryInv, read_memory_byte, ~Dies
    PROVE  GdbMemoryInv'
<1>1. /\ loc = "m" /\ loc' = "m" /\ count > 0 /\ cursor < Size
      /\ buffer' = Append(buffer, data[cursor])
      /\ cursor' = cursor + 1 /\ count' = count - 1
      /\ Spoils(Printed(Len(buffer) + 1))
      /\ UNCHANGED <<vars, request>>
  <2>1. loc = "m" /\ Reading
    BY DEF read_memory_byte, GdbMemoryInv
  <2> QED BY <2>1, SizeAssumption
          DEF read_memory_byte, MoreToRead, OutOfBounds, Reading
<1>2. Reading /\ data \in [0 .. Size - 1 -> Byte]
  BY <1>1 DEF GdbMemoryInv, TypeOK
<1>3. data[cursor] \in Byte
  BY <1>1, <1>2, SizeAssumption DEF Reading
<1>4. PICK n \in Nat : /\ n = Len(buffer) /\ cursor = request.address + n
                       /\ request.address \in Nat /\ request.size \in Nat
                       /\ count \in Nat
                       /\ cursor + count = request.address + request.size
  BY <1>2 DEF Reading
<1>5. /\ buffer' \in Seq(Byte) /\ Len(buffer') = n + 1
      /\ buffer'[n + 1] = data[cursor]
      /\ \A i \in 1 .. n : buffer'[i] = buffer[i]
  <2>1. buffer \in Seq(Byte) /\ n = Len(buffer)
    BY <1>2, <1>4 DEF Reading
  <2>2. /\ Append(buffer, data[cursor]) \in Seq(Byte)
        /\ Len(Append(buffer, data[cursor])) = n + 1
        /\ Append(buffer, data[cursor])[n + 1] = data[cursor]
        /\ \A i \in 1 .. n : Append(buffer, data[cursor])[i] = buffer[i]
    BY <1>3, <2>1, AppendProperties
  <2> QED BY <1>1, <2>2
<1>6. \A i \in 1 .. n + 1 : buffer'[i] = data[request.address + i - 1]
  <2>1. SUFFICES ASSUME NEW i \in 1 .. n + 1
                 PROVE  buffer'[i] = data[request.address + i - 1]
    OBVIOUS
  <2>2. CASE i \in 1 .. n
    BY <1>2, <1>4, <1>5, <2>2 DEF Reading
  <2>3. CASE i = n + 1
    <3>1. request.address + i - 1 = cursor
      BY <1>4, <2>3
    <3> QED BY <1>5, <2>3, <3>1
  <2> QED BY <2>2, <2>3
<1>7. data' = data /\ request' = request
  BY <1>1 DEF vars
<1>8. /\ cursor' \in request.address .. Size /\ count' \in Nat
      /\ cursor' + count' = request.address + request.size
      /\ Len(buffer') = cursor' - request.address
  <2>1. PICK at \in Nat : at = request.address
    BY <1>4
  <2>2. cursor = at + n /\ cursor < Size /\ count > 0 /\ count \in Nat
    BY <1>1, <1>4, <2>1
  <2>3. cursor + 1 \in at .. Size /\ count - 1 \in Nat
        /\ (cursor + 1) + (count - 1) = cursor + count
        /\ (cursor + 1) - at = n + 1
    BY <2>1, <2>2, SizeAssumption
  <2> QED BY <1>1, <1>4, <1>5, <2>1, <2>3
<1>9. Reading'
  BY <1>4, <1>5, <1>6, <1>7, <1>8 DEF Reading
<1>10. TypeOK'
  BY <1>1 DEF vars, GdbMemoryInv, TypeOK
<1>11. spoilt' \in Nat
  <2>1. Printed(Len(buffer) + 1) \in Nat
    BY <1>4 DEF Printed
  <2> QED BY <1>1, <2>1, SpoilsType DEF GdbMemoryInv
<1> QED BY <1>1, <1>9, <1>10, <1>11 DEF GdbMemoryInv

LEMMA WriteStartKeeps ==
    ASSUME GdbMemoryInv, NEW r \in Requests, write_memory_binary(r)
    PROVE  GdbMemoryInv'
<1>1. /\ loc = "idle" /\ r.cmd = "X" /\ loc' = "X" /\ request' = r
      /\ cursor' = r.address /\ count' = 0 /\ content' = Escape(r.bytes)
      /\ write_ok' = (r.address < Size)
      /\ UNCHANGED <<vars, spoilt, before>>
  BY DEF write_memory_binary
<1>2. /\ r.address \in Nat /\ r.bytes \in Seq(Byte) /\ r.size = Len(r.bytes)
      /\ before = data /\ data' = data
  BY <1>1, RequestTypes DEF GdbMemoryInv, Idle, vars
<1>3. Offset(r.bytes, 1) = 1
  BY OffsetStep
<1>4. PICK s \in Seq(Places(r.bytes)) :
          s = Escape(r.bytes) /\ Len(s) = Offset(r.bytes, Len(r.bytes) + 1) - 1
  BY <1>2, EscapeSeq
<1>5. \A j \in 1 .. Len(s) : s[j] = Escape(r.bytes)[1 + j - 1]
  BY <1>4
<1>6. RestOf(r.bytes, count' + 1, content')
  <2>1. RestOf(r.bytes, 1, s)
    BY <1>3, <1>4, <1>5 DEF RestOf
  <2>2. count' + 1 = 1 /\ content' = s
    BY <1>1, <1>4
  <2> QED BY <2>1, <2>2
<1>7. /\ count' \in 0 .. Len(r.bytes) /\ cursor' = r.address + count'
      /\ write_ok' = (r.address < Size /\ cursor' <= Size)
  BY <1>1, <1>2, SizeAssumption
<1>8. \A a \in 0 .. Size - 1 : a \notin r.address .. cursor' - 1
  BY <1>1, <1>2, SizeAssumption
<1>9. Writing'
  BY <1>1, <1>2, <1>6, <1>7, <1>8 DEF Writing
<1>10. TypeOK'
  BY <1>1 DEF vars, GdbMemoryInv, TypeOK
<1> QED BY <1>1, <1>9, <1>10 DEF GdbMemoryInv

LEMMA WriteByteKeeps ==
    ASSUME GdbMemoryInv, write_memory_binary_byte
    PROVE  GdbMemoryInv'
<1>1. /\ loc = "X" /\ loc' = "X" /\ count < request.size /\ write_ok
      /\ content' = SubSeq(content, Consumed + 1, Len(content))
      /\ cursor' = cursor + 1 /\ count' = count + 1
      /\ write_ok' = ~OutOfBounds(cursor)
      /\ data' = IF OutOfBounds(cursor) THEN data
                 ELSE WrittenAt(cursor, TRUE, <<Decoded>>)
      /\ UNCHANGED <<fault, value, call, request, spoilt, before>>
  BY DEF write_memory_binary_byte, MoreToWrite
<1>2. Writing /\ TypeOK
  BY <1>1 DEF GdbMemoryInv
<1>3. PICK at \in Nat : at = request.address /\ at < Size /\ cursor <= Size
  BY <1>1, <1>2 DEF Writing
<1>4. PICK n \in Nat : n = request.size /\ n = Len(request.bytes)
  BY <1>2 DEF Writing
<1>5. /\ count \in 0 .. n /\ cursor = at + count /\ cursor <= Size /\ count < n
      /\ cursor \in Nat
  <2>1. count \in 0 .. n /\ cursor = at + count
    BY <1>2, <1>3, <1>4 DEF Writing
  <2> QED BY <1>1, <1>3, <1>4, <2>1
<1>6. RestOf(request.bytes, count' + 1, content')
  <2>1. RestOf(request.bytes, count + 2, content')
    BY <1>1, <1>2, NextContent
  <2>2. count' + 1 = count + 2
    BY <1>1, <1>5
  <2> QED BY <2>1, <2>2
<1>7. Decoded = request.bytes[count + 1] /\ Decoded \in Byte
  <2>1. Decoded = request.bytes[count + 1]
    BY <1>1, <1>2, NextByte
  <2>2. count + 1 \in 1 .. n /\ request.bytes \in Seq(Byte)
    BY <1>2, <1>5 DEF Writing
  <2> QED BY <1>4, <2>1, <2>2
<1>8. ASSUME NEW a \in 0 .. Size - 1
      PROVE  /\ data'[a] \in Byte
             /\ data'[a] = IF a \in at .. cursor THEN Meant(a) ELSE before[a]
  <2>1. /\ data[a] \in Byte
        /\ data[a] = IF a \in at .. cursor - 1 THEN Meant(a) ELSE before[a]
    BY <1>2, <1>3 DEF Writing, TypeOK
  <2>2. CASE OutOfBounds(cursor)
    <3>1. data'[a] = data[a]
      BY <1>1, <2>2
    <3>2. a \in at .. cursor <=> a \in at .. cursor - 1
      BY <1>3, <1>5, <2>2, SizeAssumption DEF OutOfBounds
    <3> QED BY <2>1, <3>1, <3>2
  <2>3. CASE ~OutOfBounds(cursor) /\ a = cursor
    <3>1. data'[a] = Decoded
      <4>1. Len(<<Decoded>>) = 1 /\ <<Decoded>>[1] = Decoded
        OBVIOUS
      <4>2. a \in cursor .. cursor + 1 - 1 /\ a - cursor + 1 = 1
        BY <1>5, <2>3
      <4> QED BY <1>1, <2>3, <4>1, <4>2 DEF WrittenAt
    <3>2. a - at + 1 = count + 1 /\ a \in at .. cursor
      BY <1>3, <1>5, <2>3
    <3> QED BY <1>3, <1>7, <3>1, <3>2 DEF Meant
  <2>4. CASE ~OutOfBounds(cursor) /\ a # cursor
    <3>1. Len(<<Decoded>>) = 1
      OBVIOUS
    <3>2. a \notin cursor .. cursor + 1 - 1
      BY <1>5, <2>4
    <3>3. data'[a] = data[a]
      BY <1>1, <2>4, <3>1, <3>2 DEF WrittenAt
    <3>4. a \in at .. cursor <=> a \in at .. cursor - 1
      BY <1>3, <1>5, <2>4, SizeAssumption
    <3> QED BY <2>1, <3>3, <3>4
  <2> QED BY <2>2, <2>3, <2>4
<1>9. TypeOK'
  <2>1. data' = [a \in 0 .. Size - 1 |-> data'[a]]
    BY <1>1, <1>2 DEF WrittenAt, TypeOK
  <2>2. data' \in [0 .. Size - 1 -> Byte]
    BY <1>8, <2>1
  <2> QED BY <1>1, <1>2, <2>2 DEF TypeOK
<1>10. /\ count' \in 0 .. n /\ cursor' = at + count' /\ cursor' - 1 = cursor
       /\ write_ok' = (at < Size /\ cursor' <= Size)
  <2>1. count' \in 0 .. n /\ cursor' = at + count' /\ cursor' - 1 = cursor
    <3>1. count' = count + 1 /\ cursor' = cursor + 1
      BY <1>1
    <3>2. count \in 0 .. n /\ count < n /\ cursor = at + count /\ cursor \in Nat
      BY <1>5
    <3> QED BY ONLY at \in Nat, n \in Nat, <3>1, <3>2
  <2>2. ~OutOfBounds(cursor) <=> at < Size /\ cursor + 1 <= Size
    <3>1. at < Size /\ cursor \in Nat
      BY <1>3, <1>5
    <3> QED BY ONLY <3>1, SizeAssumption DEF OutOfBounds
  <2>3. write_ok' = ~OutOfBounds(cursor) /\ cursor' = cursor + 1
    BY <1>1
  <2> QED BY <2>1, <2>2, <2>3
<1>11. \A a : Meant(a)' = Meant(a)
  BY <1>1 DEF Meant
<1>12. Writing'
  <2>1. /\ request' = request /\ request.address = at /\ request.size = n
        /\ at \in Nat /\ request.bytes \in Seq(Byte) /\ n = Len(request.bytes)
    BY <1>1, <1>2, <1>3, <1>4 DEF Writing
  <2>2. ~(at >= Size)
    BY <1>3, SizeAssumption
  <2>3. \A a \in 0 .. Size - 1 :
           data'[a] = IF a \in at .. cursor' - 1 THEN Meant(a)' ELSE before'[a]
    BY <1>1, <1>8, <1>10, <1>11
  <2> QED BY <1>6, <1>10, <2>1, <2>2, <2>3 DEF Writing
<1> QED BY <1>1, <1>9, <1>12 DEF GdbMemoryInv

LEMMA GdbMemoryInduction ==
    ASSUME GdbMemoryInv, [GdbNext]_<<vars, handler>>
    PROVE  GdbMemoryInv'
<1>1. CASE Instructions
  BY <1>1, InstructionsKeep
<1>2. ASSUME NEW r \in Requests, read_memory(r) \/ write_memory_binary(r)
      PROVE  GdbMemoryInv'
  BY <1>2, ReadStartKeeps, WriteStartKeeps
<1>3. CASE Dies
  BY <1>3, DiesKeeps DEF Dies
<1>4. CASE read_memory_byte /\ ~Dies
  BY <1>4, ReadByteKeeps
<1>5. CASE read_memory_end
  <2>1. 2 * Len(buffer) \in Nat
    BY <1>5 DEF read_memory_end, GdbMemoryInv, Reading
  <2> QED BY <1>5, <2>1, AnswerKeeps DEF read_memory_end
<1>6. CASE write_memory_binary_byte
  BY <1>6, WriteByteKeeps
<1>7. CASE write_memory_binary_end /\ ~Dies
  BY <1>7, AnswerKeeps DEF write_memory_binary_end, gdb_send_data
<1>8. CASE UNCHANGED <<vars, handler>>
  <2>1. UNCHANGED <<data, value, call, handler>> /\ fault' \in {"none", "overrun"}
    BY <1>8 DEF vars, GdbMemoryInv, TypeOK
  <2> QED BY <2>1, DiesKeeps
<1> QED BY <1>1, <1>2, <1>3, <1>4, <1>5, <1>6, <1>7, <1>8 DEF GdbNext, Handlers

LEMMA GdbMemoryAlways == GdbSpec => []GdbMemoryInv
<1>1. GdbInit => GdbMemoryInv
  <2>1. Init => TypeOK
    BY ValueAssumption DEF Init, TypeOK, Call, Width
  <2>2. GdbInit => /\ Init /\ loc = "idle" /\ before = data /\ buffer = <<>>
                   /\ spoilt = 0
    BY DEF GdbInit
  <2>3. spoilt = 0 => spoilt \in Nat
    OBVIOUS
  <2> QED BY <2>1, <2>2, <2>3 DEF GdbMemoryInv, Idle
<1>2. GdbMemoryInv /\ [GdbNext]_<<vars, handler>> => GdbMemoryInv'
  BY GdbMemoryInduction
<1> QED BY <1>1, <1>2, PTL DEF GdbSpec

-----------------------------------------------------------------------------
(* What the handlers have done when they answer *)

\* The only steps that leave a handler are its own ends.
LEMMA HandlerEnds ==
    ASSUME GdbNext, loc' = "idle"
    PROVE  /\ loc = "X" => /\ ~MoreToWrite
                           /\ reply' = IF write_ok THEN "OK" ELSE "E02"
           /\ loc = "m" => ~MoreToRead
BY DEF GdbNext, Handlers, Instructions, read_memory, write_memory_binary,
       read_memory_byte, read_memory_end, write_memory_binary_byte,
       write_memory_binary_end, gdb_send_data, gdb_send_buffer, Dies, handler

\* write_memory_binary leaves its loop with every byte of the packet that is in
\* the memory stored: all of them, or those before the end of the memory, or
\* none when the first is already outside.
LEMMA LoadEnds ==
    ASSUME Writing, ~MoreToWrite
    PROVE  /\ \A a \in 0 .. Size - 1 :
                 a \in Covered <=> a \in request.address .. cursor - 1
           /\ write_ok <=> /\ request.address < Size
                           /\ request.address + request.size <= Size
<1>1. PICK at \in Nat, size \in Nat, n \in Nat :
          /\ at = request.address /\ size = request.size /\ n = count
          /\ n <= size /\ cursor = at + n
  BY DEF Writing
<1>2. /\ write_ok <=> at < Size /\ at + n <= Size
      /\ at >= Size => n = 0
  BY <1>1 DEF Writing
<1>3. n = size \/ ~write_ok
  BY <1>1 DEF MoreToWrite
<1>4. \A a \in 0 .. Size - 1 : a \in Covered <=> a >= at /\ a < at + size
  BY <1>1 DEF Covered
<1>5. n = size \/ at >= Size \/ at + n > Size
  BY <1>1, <1>2, <1>3, SizeAssumption
<1>6. \A a \in 0 .. Size - 1 : a \in Covered <=> a \in at .. (at + n) - 1
  BY <1>1, <1>2, <1>4, <1>5, SizeAssumption
<1>7. (at < Size /\ at + n <= Size) <=> (at < Size /\ at + size <= Size)
  BY <1>1, <1>2, <1>3, SizeAssumption
<1> QED BY <1>1, <1>2, <1>6, <1>7

\* An 'X' packet stores exactly the bytes gdb means, through the escapes and up
\* to the end of the memory, and write_memory_binary answers OK if and only if
\* the whole packet was inside: for every memory, packet and byte string.
THEOREM LoadExact == GdbSpec => LoadIsExact
<1> DEFINE A ==
      loc = "X" /\ loc' = "idle" =>
        /\ \A a \in 0 .. Size - 1 :
              data[a] = IF a \in Covered THEN Meant(a) ELSE before[a]
        /\ reply' = "OK" <=> /\ request.address < Size
                             /\ request.address + request.size <= Size
<1>1. ASSUME GdbMemoryInv, GdbNext
      PROVE  A
  <2> SUFFICES ASSUME loc = "X", loc' = "idle"
               PROVE  /\ \A a \in 0 .. Size - 1 :
                            data[a] = IF a \in Covered THEN Meant(a) ELSE before[a]
                      /\ reply' = "OK" <=> /\ request.address < Size
                                           /\ request.address + request.size <= Size
    OBVIOUS
  <2>1. /\ Writing /\ ~MoreToWrite
        /\ reply' = IF write_ok THEN "OK" ELSE "E02"
    BY <1>1, HandlerEnds DEF GdbMemoryInv
  <2>2. \A a \in 0 .. Size - 1 :
           data[a] = IF a \in request.address .. cursor - 1
                     THEN Meant(a) ELSE before[a]
    BY <2>1 DEF Writing
  <2>3. \A a \in 0 .. Size - 1 :
           a \in Covered <=> a \in request.address .. cursor - 1
    BY <2>1, LoadEnds
  <2>4. \A a \in 0 .. Size - 1 :
           data[a] = IF a \in Covered THEN Meant(a) ELSE before[a]
    BY <2>2, <2>3
  <2>5. write_ok <=> /\ request.address < Size
                     /\ request.address + request.size <= Size
    BY <2>1, LoadEnds
  <2>6. reply' = "OK" <=> write_ok
    BY <2>1
  <2> QED BY <2>4, <2>5, <2>6
<1> QED BY <1>1, GdbMemoryAlways, PTL DEF GdbSpec, LoadIsExact

\* The bytes that read_memory has to read: those from its address up to the
\* length asked for or the end of the memory, and the cursor among them.
LEMMA CoveredBytes ==
    ASSUME Reading
    PROVE  \E total \in Nat :
              /\ Cardinality(Covered) = total /\ total <= request.size
              /\ Len(buffer) \in Nat /\ Len(buffer) <= total
              /\ MoreToRead => Len(buffer) + 1 <= total
              /\ ~MoreToRead => Len(buffer) = total
<1>1. PICK at \in Nat, size \in Nat, left \in Nat :
          at = request.address /\ size = request.size /\ left = count
  BY DEF Reading
<1>2. PICK cur \in Nat :
          /\ cur = cursor /\ at <= cur /\ cur <= Size /\ cur + left = at + size
          /\ Len(buffer) = cur - at
  <2>1. /\ cursor \in at .. Size /\ cursor + left = at + size
        /\ Len(buffer) = cursor - at
    BY <1>1 DEF Reading
  <2> QED BY <1>1, <2>1, SizeAssumption
<1> DEFINE end == IF at + size <= Size THEN at + size ELSE Size
<1>3. /\ end \in Nat /\ at <= end /\ cur <= end /\ end - at <= size
      /\ left > 0 /\ cur < Size => cur < end
      /\ ~(left > 0 /\ cur < Size) => cur = end
  <2>1. /\ Size \in Nat /\ at <= cur /\ cur <= Size
        /\ cur + left = at + size
    BY <1>2, SizeAssumption
  <2> QED BY ONLY <2>1, at \in Nat, size \in Nat, left \in Nat, cur \in Nat
<1>4. Covered = at .. end - 1
  <2>1. Covered = {a \in 0 .. Size - 1 : a >= at /\ a < at + size}
    BY <1>1 DEF Covered
  <2>2. Size \in Nat
    BY SizeAssumption
  <2> QED BY ONLY <2>1, <2>2, at \in Nat, size \in Nat
<1> HIDE DEF end
<1>5. PICK total \in Nat : total = end - at /\ total <= size
  BY ONLY <1>3, at \in Nat, size \in Nat
<1>6. Cardinality(at .. end - 1) = total
  <2>1. at \in Int /\ end - 1 \in Int
    BY <1>3
  <2>2. Cardinality(at .. end - 1) =
           IF at > end - 1 THEN 0 ELSE (end - 1) - at + 1
    BY <2>1, FS_Interval
  <2> QED BY ONLY <1>3, <1>5, <2>2, at \in Nat
<1>7. MoreToRead <=> left > 0 /\ cur < Size
  <2>1. Size \in Nat /\ count = left /\ cursor = cur
    BY <1>1, <1>2, SizeAssumption
  <2> QED BY ONLY <2>1, left \in Nat, cur \in Nat DEF MoreToRead, OutOfBounds
<1>8. /\ cur - at <= total /\ cur - at \in Nat
      /\ MoreToRead => cur - at + 1 <= total
      /\ ~MoreToRead => cur - at = total
  <2>1. at <= cur
    BY <1>2
  <2>2. cur < end => cur - at + 1 <= total
    BY ONLY <1>3, <1>5, at \in Nat, cur \in Nat
  <2>3. cur = end => cur - at = total
    BY ONLY <1>5
  <2>4. cur - at <= total /\ cur - at \in Nat
    BY ONLY <1>3, <1>5, <2>1, at \in Nat, cur \in Nat
  <2> QED BY ONLY <1>3, <1>7, <2>2, <2>3, <2>4
<1>9. Len(buffer) = cur - at /\ request.size = size
  BY <1>1, <1>2
<1>10. Cardinality(Covered) = total
  BY <1>4, <1>6
<1> QED BY <1>5, <1>8, <1>9, <1>10

\* An answer of read_memory that is sent has the bytes of the memory from the
\* address asked for, as many as were asked for or as there are up to the end
\* of the memory; the process dies before it sends one that leaves the structure
\* of the protocol.
THEOREM AnswerExact == GdbSpec => AnswerIsMemory
<1> DEFINE A ==
      loc = "m" /\ loc' = "idle" =>
        /\ Len(buffer) = Cardinality(Covered)
        /\ \A i \in 1 .. Len(buffer) : buffer[i] = data[request.address + i - 1]
<1>1. ASSUME GdbMemoryInv, GdbNext
      PROVE  A
  <2> SUFFICES ASSUME loc = "m", loc' = "idle"
               PROVE  /\ Len(buffer) = Cardinality(Covered)
                      /\ \A i \in 1 .. Len(buffer) :
                            buffer[i] = data[request.address + i - 1]
    OBVIOUS
  <2>1. Reading /\ ~MoreToRead
    BY <1>1, HandlerEnds DEF GdbMemoryInv
  <2>2. Len(buffer) = Cardinality(Covered)
    BY <2>1, CoveredBytes
  <2> QED BY <2>1, <2>2 DEF Reading
<1> QED BY <1>1, GdbMemoryAlways, PTL DEF GdbSpec, AnswerIsMemory

\* No byte behind gdb->packet is overwritten, and the process does not die, for an
\* answer that has room in the packet with its frame: for every size of the
\* packet and of the memory, and for every length below the announced size.
THEOREM AnswerStaysInPacket == GdbSpec => AnswerFits
<1> DEFINE A == loc = "m" /\ Fitting => UNCHANGED <<spoilt, fault>>
<1>1. ASSUME GdbMemoryInv, GdbNext
      PROVE  A
  <2> SUFFICES ASSUME loc = "m", Fitting
               PROVE  UNCHANGED <<spoilt, fault>>
    OBVIOUS
  <2>1. Reading /\ spoilt \in Nat
    BY <1>1 DEF GdbMemoryInv
  <2>2. PICK total \in Nat, n \in Nat, size \in Nat :
            /\ Cardinality(Covered) = total /\ n = Len(buffer)
            /\ size = request.size /\ total <= size /\ n <= total
            /\ MoreToRead => n + 1 <= total
    BY <2>1, CoveredBytes DEF Reading
  <2>3. 2 * total + Frame <= MAX_PACKET_SIZE
    BY <2>2, PacketAssumption DEF Fitting, Frame
  <2>4. CASE read_memory_byte
    <3>1. PICK bytes \in Nat :
              bytes = Printed(Len(buffer) + 1) /\ bytes <= MAX_PACKET_SIZE
      BY <2>2, <2>3, <2>4, PacketAssumption DEF read_memory_byte, Printed, Frame
    <3>2. InStructure(bytes)
      BY <3>1, PacketAssumption DEF InStructure
    <3>3. Spoils(bytes) /\ UNCHANGED vars
      BY <2>4, <3>1, <3>2 DEF read_memory_byte
    <3> QED BY <2>1, <3>1, <3>3, SpoilsType DEF vars
  <2>5. CASE read_memory_end
    <3>1. PICK bytes \in Nat :
              bytes = 2 * Len(buffer) + Frame /\ bytes <= MAX_PACKET_SIZE
      BY <2>2, <2>3, PacketAssumption DEF Frame
    <3>2. InStructure(bytes)
      BY <3>1, PacketAssumption DEF InStructure
    <3>3. Spoils(bytes) /\ UNCHANGED vars
      BY <2>5, <3>1, <3>2 DEF read_memory_end, gdb_send_buffer
    <3> QED BY <2>1, <3>1, <3>3, SpoilsType DEF vars
  <2>6. read_memory_byte \/ read_memory_end
    BY <1>1 DEF GdbNext, Handlers, Instructions, read_memory,
                write_memory_binary, write_memory_binary_byte,
                write_memory_binary_end
  <2> QED BY <2>4, <2>5, <2>6
<1> QED BY <1>1, GdbMemoryAlways, PTL DEF GdbSpec, AnswerFits
=============================================================================
