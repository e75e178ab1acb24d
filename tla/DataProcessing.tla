--------------------------- MODULE DataProcessing ---------------------------
(***************************************************************************)
(* The data processing instructions of arm_data_processing.c: the shifter  *)
(* operand of the three formats (arm_data_processing_immediate,            *)
(* _immediate_shift, _register_shift), then apply_operator; and            *)
(* arm_multiply of arm_branch_other.c.  The words have W bits, 32 in the   *)
(* code, so that every operand can be tried; the fields of an instruction  *)
(* are scaled with them.  The status is its four flags and bit 0, which    *)
(* belongs to the mode: the code reads it in RRX.                          *)
(***************************************************************************)
EXTENDS Integers

CONSTANTS
    W,         \* the bits of a word, 32 in the code
    MaxAmount  \* bound on the low byte of Rs, 255 in the code

ASSUME WidthAssumption == W \in {4, 8, 16, 32} /\ MaxAmount > W

\* the powers of two, by their recursion
Power[n \in Nat] == IF n = 0 THEN 1 ELSE 2 * Power[n - 1]

WordSize == Power[W]
Word == 0 .. WordSize - 1
Bit == {0, 1}
Flags == [n : Bit, z : Bit, c : Bit, v : Bit, bit0 : Bit]
Opcodes == {"AND", "EOR", "SUB", "RSB", "ADD", "ADC", "SBC", "RSC",
            "TST", "TEQ", "CMP", "CMN", "ORR", "MOV", "BIC", "MVN"}
Codes == {"LSL", "LSR", "ASR", "ROR"}
Formats == {"immediate", "immediate_shift", "register_shift"}

VARIABLES
    loc,      \* "decode", "operate" or "done"
    source,   \* history: the format, shift code, amount and Rm of the operand
    operand,  \* shifter_operand and shifter_carry_out
    cpsr,     \* the flags before, then after
    applied   \* history: the operator, S, Rn, the operand, the flags before,
              \* and Rd_value

vars == <<loc, source, operand, cpsr, applied>>

get_bit(x, i) == (x \div Power[i]) % 2
Sign(x) == get_bit(x, W - 1)

\* the operators of C on words, which are sets of bits for them
Bits == [x \in Word |-> {i \in 0 .. W - 1 : get_bit(x, i) = 1}]
WordOf == [bits \in SUBSET (0 .. W - 1) |-> CHOOSE x \in Word : Bits[x] = bits]
BitAnd(x, y) == WordOf[Bits[x] \intersect Bits[y]]
BitOr(x, y) == WordOf[Bits[x] \union Bits[y]]
BitXor(x, y) == WordOf[(Bits[x] \ Bits[y]) \union (Bits[y] \ Bits[x])]
BitNot(x) == WordSize - 1 - x

-----------------------------------------------------------------------------
(* util.c *)

\* >> and << of unsigned words
ShiftRight(x, n) == x \div Power[n]
ShiftLeft(x, n) == (x * Power[n]) % WordSize

MutantAsr(value, shift) == ShiftRight(value, shift)
asr(value, shift) ==
    BitOr(ShiftRight(value, shift),
          IF Sign(value) = 1 THEN ShiftLeft(WordSize - 1, W - shift) ELSE 0)

\* a rotation by 0 shifts by 32, which the processors of the x86 family do as
\* a shift by 0
ror(value, rotation) ==
    BitOr(ShiftRight(value, rotation), ShiftLeft(value, (W - rotation) % W))

-----------------------------------------------------------------------------
(* The shifter operand: its value and its carry *)

Operand(newValue, carry) == [value |-> newValue, carry |-> carry]

arm_data_processing_immediate(immed, rotate_imm) ==
    LET x == ror(immed, 2 * rotate_imm)
    IN  Operand(x, IF rotate_imm = 0 THEN cpsr.c ELSE Sign(x))

\* an immediate of 0 is coded apart, except for LSL: ASR by 32, RRX, and for
\* LSR the value unchanged with the N flag for carry
get_shifter_operand_immediate_shift(code, shift_imm, rm) ==
    IF shift_imm = 0
    THEN IF code = "LSL" THEN Operand(rm, cpsr.c)
         ELSE IF code = "LSR" THEN Operand(rm, cpsr.n)
         ELSE IF code = "ASR"
              THEN Operand(IF Sign(rm) = 0 THEN 0 ELSE WordSize - 1, Sign(rm))
         ELSE Operand(BitOr(Power[W - 1] * cpsr.bit0, ShiftRight(rm, 1)),
                      get_bit(rm, 0))
    ELSE IF code = "LSL"
         THEN Operand(ShiftLeft(rm, shift_imm), get_bit(rm, W - shift_imm))
         ELSE Operand(IF code = "LSR" THEN ShiftRight(rm, shift_imm)
                      ELSE IF code = "ASR" THEN asr(rm, shift_imm)
                      ELSE ror(rm, shift_imm),
                      get_bit(rm, shift_imm - 1))

\* amount is the low byte of Rs
get_shifter_operand_register_shift(code, amount, rm) ==
    IF amount = 0 THEN Operand(rm, cpsr.c)
    ELSE IF code = "ROR"
         THEN IF amount % W = 0 THEN Operand(rm, Sign(rm))
              ELSE Operand(ror(rm, amount % W),
                           get_bit(rm, (amount % W) - 1))
    ELSE IF code = "ASR"
         THEN IF amount < W
              THEN Operand(asr(rm, amount), get_bit(rm, amount - 1))
              ELSE Operand(IF Sign(rm) = 0 THEN 0 ELSE WordSize - 1, Sign(rm))
    ELSE IF amount > W THEN Operand(0, 0)
    ELSE IF code = "LSL"
         THEN IF amount < W
              THEN Operand(ShiftLeft(rm, amount), get_bit(rm, W - amount))
              ELSE Operand(0, get_bit(rm, 0))
    ELSE IF amount < W
         THEN Operand(ShiftRight(rm, amount), get_bit(rm, amount - 1))
         ELSE Operand(0, Sign(rm))

-----------------------------------------------------------------------------
(* apply_operator *)

Borrow == 1 - cpsr.c

\* Rd_value: the operands are 32-bit words, and so is the result, although it
\* is kept in a 64-bit variable
Result(op, rn, x) ==
    IF op \in {"AND", "TST"} THEN BitAnd(rn, x)
    ELSE IF op \in {"EOR", "TEQ"} THEN BitXor(rn, x)
    ELSE IF op \in {"SUB", "CMP"} THEN (rn - x) % WordSize
    ELSE IF op = "RSB" THEN (x - rn) % WordSize
    ELSE IF op \in {"ADD", "CMN"} THEN (rn + x) % WordSize
    ELSE IF op = "ADC" THEN (rn + x + cpsr.c) % WordSize
    ELSE IF op = "SBC" THEN (rn - x - Borrow) % WordSize
    ELSE IF op = "RSC" THEN (x - rn - Borrow) % WordSize
    ELSE IF op = "ORR" THEN BitOr(rn, x)
    ELSE IF op = "MOV" THEN x
    ELSE IF op = "BIC" THEN BitAnd(rn, BitNot(x))
    ELSE BitNot(x)

set_zn(flags, result) ==
    [flags EXCEPT !.n = Sign(result), !.z = IF result = 0 THEN 1 ELSE 0]

\* the carry of a sum that has lost its carry
carryFrom(flags, result) == [flags EXCEPT !.c = IF result >= WordSize THEN 1 ELSE 0]

borrowFrom(flags, result) == [flags EXCEPT !.c = Sign(result)]

\* V; flags has the new C already.  RSB leaves V alone, SBC and RSC add the
\* borrow to Rn - operand.
MutantOverflowFrom(op, rn, x, flags) ==
    IF op = "RSB" THEN flags
    ELSE [flags EXCEPT !.v = IF Sign(x) # Sign(rn) THEN 1 ELSE 0]

overflowFrom(op, rn, x, flags) ==
    IF op \in {"ADD", "ADC", "CMN"}
    THEN [flags EXCEPT
             !.v = IF Sign(rn) = Sign(x) /\ Sign((rn + x) % WordSize) # Sign(rn)
                   THEN 1 ELSE 0]
    ELSE IF op \in {"SUB", "CMP", "SBC", "RSC"}
    THEN LET carry == IF op \in {"SBC", "RSC"} THEN 1 - flags.c ELSE 0
             difference == (carry + rn - x) % WordSize
         IN  [flags EXCEPT
                 !.v = IF Sign(rn) # Sign(x) /\ Sign(difference) # Sign(rn)
                       THEN 1 ELSE 0]
    ELSE flags

Tests == {"TST", "TEQ", "CMP", "CMN"}

\* the flags an operator leaves
NewFlags(op, rn, x, carry, result) ==
    LET zn == set_zn(cpsr, result)
    IN  IF op \in {"ADD", "ADC", "CMN"}
        THEN overflowFrom(op, rn, x, carryFrom(zn, result))
        ELSE IF op \in {"SUB", "RSB", "SBC", "RSC", "CMP"}
        THEN overflowFrom(op, rn, x, borrowFrom(zn, result))
        ELSE [zn EXCEPT !.c = carry]

NoSource == [format |-> "none", code |-> "LSL", amount |-> 0, rm |-> 0]
NothingApplied == [op |-> "none", s |-> 0, rn |-> 0, x |-> 0, c |-> 0, value |-> 0]

Init ==
    /\ loc = "decode"
    /\ source = NoSource
    /\ operand = Operand(0, 0)
    /\ cpsr \in Flags
    /\ applied = NothingApplied

\* the operand of an instruction in each of the formats
Shift(format, code, amount, rm) ==
    /\ loc = "decode"
    /\ loc' = "operate"
    /\ source' = [format |-> format, code |-> code, amount |-> amount, rm |-> rm]
    /\ operand' =
          IF format = "immediate" THEN arm_data_processing_immediate(rm, amount)
          ELSE IF format = "immediate_shift"
          THEN get_shifter_operand_immediate_shift(code, amount, rm)
          ELSE get_shifter_operand_register_shift(code, amount, rm)
    /\ UNCHANGED <<cpsr, applied>>

Decode ==
    \/ \E rotate_imm \in 0 .. W \div 2 - 1, immed \in 0 .. Power[W \div 4] - 1 :
          Shift("immediate", "ROR", rotate_imm, immed)
    \/ \E code \in Codes, shift_imm \in 0 .. W - 1, rm \in Word :
          Shift("immediate_shift", code, shift_imm, rm)
    \/ \E code \in Codes, amount \in 0 .. MaxAmount, rm \in Word :
          Shift("register_shift", code, amount, rm)

apply_operator(op, s, rn) ==
    /\ loc = "operate"
    /\ loc' = "done"
    /\ LET result == Result(op, rn, operand.value)
       IN  /\ applied' = [op |-> op, s |-> s, rn |-> rn, x |-> operand.value,
                          c |-> cpsr.c, value |-> result]
           /\ cpsr' = IF s = 1 \/ op \in Tests
                      THEN NewFlags(op, rn, operand.value, operand.carry, result)
                      ELSE cpsr
    /\ source' = NoSource
    /\ operand' = Operand(0, 0)

\* MUL, MLA and the long multiplications are one product; the bit taken for S
\* is set in all of them, and C gets the sign
arm_multiply(rm, rs) ==
    /\ loc = "decode"
    /\ loc' = "done"
    /\ LET result == (rs * rm) % WordSize
       IN  /\ applied' = [op |-> "MUL", s |-> 1, rn |-> rm, x |-> rs,
                          c |-> cpsr.c, value |-> result]
           /\ cpsr' = [cpsr EXCEPT !.c = Sign(result),
                                   !.z = IF result = 0 THEN 1 ELSE 0]
    /\ UNCHANGED <<source, operand>>

\* the next instruction
Again ==
    /\ loc = "done"
    /\ loc' = "decode"
    /\ applied' = NothingApplied
    /\ UNCHANGED <<source, operand, cpsr>>

Next ==
    \/ Decode
    \/ \E op \in Opcodes, s \in Bit, rn \in Word : apply_operator(op, s, rn)
    \/ \E rm \in Word, rs \in Word : arm_multiply(rm, rs)
    \/ Again

Spec == Init /\ [][Next]_vars

-----------------------------------------------------------------------------
(* The reference: words as integers, with and without sign *)

Signed(x) == IF Sign(x) = 1 THEN x - WordSize ELSE x

\* A shift by Rs or by an immediate, of an amount other than 0 (below, at and
\* above the width), is what its name says: a product, a quotient (rounded
\* down) of the word without or with its sign, or a rotation; the carry is the
\* last bit that leaves the word.  This is what the cases on 32 and more of
\* get_shifter_operand_register_shift are for.  The amount 0, which leaves the
\* word alone or stands for a shift by 32 or for RRX, and rotated immediates
\* are outside of it.
ShiftedOut(code, amount, rm) ==
    IF code = "LSL" THEN ((rm * Power[amount]) \div WordSize) % 2
    ELSE IF code = "ASR" THEN (Signed(rm) \div Power[amount - 1]) % 2
    ELSE IF code = "LSR" THEN (rm \div Power[amount - 1]) % 2
    ELSE get_bit(rm, (amount - 1) % W)

Shifted(code, amount, rm) ==
    IF code = "LSL" THEN (rm * Power[amount]) % WordSize
    ELSE IF code = "ASR" THEN (Signed(rm) \div Power[amount]) % WordSize
    ELSE IF code = "LSR" THEN rm \div Power[amount]
    ELSE (rm \div Power[amount % W]) + ((rm * Power[W - (amount % W)]) % WordSize)

ShifterIsArithmetic ==
    loc = "operate" /\ source.amount > 0 /\ source.format # "immediate" =>
        /\ operand.value = Shifted(source.code, source.amount, source.rm)
        /\ operand.carry = ShiftedOut(source.code, source.amount, source.rm)

\* After CMP, or SUB with S, the conditions EQ, NE, GE, LT, GT and LE decide
\* the order of the operands as signed integers, although the difference
\* overflows: what set_zn, overflowFrom and the table of
\* arm_execute_instruction achieve together.
SignedComparison ==
    loc = "done" /\ (applied.s = 1 \/ applied.op = "CMP")
                 /\ applied.op \in {"CMP", "SUB"} =>
        /\ cpsr.z = 1 <=> applied.rn = applied.x
        /\ cpsr.n # cpsr.v <=> Signed(applied.rn) < Signed(applied.x)
        /\ cpsr.z = 1 \/ cpsr.n # cpsr.v
              <=> Signed(applied.rn) <= Signed(applied.x)

\* "true result, recast in 32b when writed" (arm_data_processing.c): Rd_value
\* keeps the carry of an addition, from which carryFrom sets C.
CarryOfTrueResult ==
    loc = "done" /\ applied.op = "ADD" /\ applied.s = 1 =>
        cpsr.c = (applied.rn + applied.x) \div WordSize
=============================================================================
