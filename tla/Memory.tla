------------------------------- MODULE Memory -------------------------------
(***************************************************************************)
(* The memory of memory.c.  A value of one, two or four bytes is the tuple *)
(* of its bytes, most significant first, so that a shift followed by the   *)
(* conversion to uint8_t selects a component.  A byte past the end of the  *)
(* array is outside its allocation: the address sanitizer of the build     *)
(* ends the process.                                                       *)
(***************************************************************************)
EXTENDS Integers, Sequences

CONSTANTS
    Size,       \* the size given to memory_create, 0x8000 in the code
    Byte,       \* the values of a byte
    Addresses,  \* the addresses used
    Values      \* the values written, of one, two or four bytes

Width == {1, 2, 4}
Value == UNION {[1 .. width -> Byte] : width \in Width}

ASSUME SizeAssumption == Size \in Nat \ {0}
ASSUME AddressAssumption == Addresses \subseteq Nat
ASSUME ValueAssumption == Values \subseteq Value

VARIABLES
    data,   \* the bytes
    fault,  \* "none", or "overrun" when the process has died
    value,  \* the variable of the caller that the reads store to
    call    \* the last call: name, bytes written, address, order and result

vars == <<data, fault, value, call>>

Call == [name : {"create", "read", "write"}, bytes : Value \union {<<>>},
         address : Nat, be : BOOLEAN, result : {0, -1}]

\* memory_create: malloc does not initialise the bytes
Init ==
    /\ data \in [0 .. Size - 1 -> Byte]
    /\ fault = "none"
    /\ value \in {v \in Values : Len(v) = 1}
    /\ call = [name |-> "create", bytes |-> <<>>, address |-> 0, be |-> TRUE,
               result |-> 0]

-----------------------------------------------------------------------------
\* the check of every access: its first byte only
OutOfBounds(address) == address >= Size
Overrun(width, address) == address + width > Size

\* where the i-th byte of a value is, for an access in big-endian order or not
MutantPlace(width, address, be, i) == address + i - 1
Place(width, address, be, i) ==
    IF be THEN address + i - 1 ELSE address + width - i

MutantReadAt(width, address, be) ==
    [i \in 1 .. width - 1 |-> data[Place(width, address, be, i)]]

ReadAt(width, address, be) ==
    [i \in 1 .. width |-> data[Place(width, address, be, i)]]

WrittenAt(address, be, bytes) ==
    LET width == Len(bytes)
    IN  [a \in 0 .. Size - 1 |->
            IF a \in address .. address + width - 1
            THEN bytes[IF be THEN a - address + 1 ELSE address + width - a]
            ELSE data[a]]

Calls(name, bytes, address, be) ==
    /\ fault = "none"
    /\ call' = [name |-> name, bytes |-> bytes, address |-> address, be |-> be,
                result |-> IF OutOfBounds(address) THEN -1 ELSE 0]

Fails(address) ==
    /\ OutOfBounds(address)
    /\ UNCHANGED <<data, fault, value>>

Overruns(width, address) ==
    /\ ~OutOfBounds(address) /\ Overrun(width, address)
    /\ fault' = "overrun"
    /\ UNCHANGED <<data, value>>

Inside(width, address) == ~OutOfBounds(address) /\ ~Overrun(width, address)

\* memory_read_byte, memory_read_half and memory_read_word; a read that fails
\* does not store to the variable of its caller
memory_read(width, address, be) ==
    /\ Calls("read", <<>>, address, be)
    /\ \/ Fails(address)
       \/ Overruns(width, address)
       \/ /\ Inside(width, address)
          /\ value' = ReadAt(width, address, be)
          /\ UNCHANGED <<data, fault>>

\* memory_write_byte, memory_write_half and memory_write_word
memory_write(bytes, address, be) ==
    /\ Calls("write", bytes, address, be)
    /\ \/ Fails(address)
       \/ Overruns(Len(bytes), address)
       \/ /\ Inside(Len(bytes), address)
          /\ data' = WrittenAt(address, be, bytes)
          /\ UNCHANGED <<fault, value>>

\* arm_read_byte to arm_write_word, with the ENDIANESS of the build
Next ==
    \E address \in Addresses, be \in BOOLEAN :
        \/ \E width \in Width : memory_read(width, address, be)
        \/ \E bytes \in Values : memory_write(bytes, address, be)

Spec == Init /\ [][Next]_vars

-----------------------------------------------------------------------------
TypeOK ==
    /\ data \in [0 .. Size - 1 -> Byte]
    /\ fault \in {"none", "overrun"}
    /\ value \in Value
    /\ call \in Call

Stored == call.name = "write" /\ call.result = 0 /\ fault = "none"

\* the address of the i-th byte of a value, the most significant first, by the
\* definition of the two orders
Home(width, address, be, i) ==
    address + IF be THEN i - 1 ELSE width - i

Covers(at) ==
    call.address <= at /\ at < call.address + Len(call.bytes)

\* After memory_write_byte, memory_write_half or memory_write_word has stored a
\* value, a read of any width and in any order that meets it, at the same
\* address, inside it, around it or across one of its ends, finds at each
\* common address the byte stored there, and at every other address what it
\* found before.  An access that fails, and a read, changes nothing that any
\* read returns.
WriteReadsBack ==
    [][\A address \in 0 .. Size - 1, width \in Width, be \in BOOLEAN :
        Inside(width, address) =>
            \A i \in 1 .. width :
                LET at == Home(width, address, be, i)
                IN  /\ Stored' /\ Covers(at)' =>
                          \A j \in 1 .. Len(call'.bytes) :
                              Home(Len(call'.bytes), call'.address, call'.be, j)
                                      = at
                                  => ReadAt(width, address, be)'[i]
                                        = call'.bytes[j]
                    /\ ~(Stored' /\ Covers(at)') =>
                          ReadAt(width, address, be)'[i]
                             = ReadAt(width, address, be)[i]
      ]_vars
=============================================================================
