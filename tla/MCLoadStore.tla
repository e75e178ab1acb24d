---------------------------- MODULE MCLoadStore ----------------------------
(***************************************************************************)
(* Bytes of two bits, words of eight, a memory of five words.  Every       *)
(* combination of the fields of one instruction, on bases inside, at the   *)
(* edge and outside of the memory, then an STM and the LDM that undoes it  *)
(* with a load over a saved register in between.                           *)
(***************************************************************************)
EXTENDS LoadStore

Immediates ==
    [form : {"imm"}, l : Bit, p : Bit, u : Bit, b : Bit, w : Bit,
     rn : {1, SP}, rd : {0, 1}, offset : {0, 3}]
PcRelative ==
    [form : {"imm"}, l : Bit, p : {1}, u : Bit, b : {0}, w : {0},
     rn : {PC}, rd : {0, PC}, offset : {4}]
Shifts ==
    [form : {"reg"}, l : Bit, p : Bit, u : Bit, b : Bit, w : Bit, rn : {1},
     rd : {SP}, rm : {0}, shift : {"LSL", "LSR", "ASR", "ROR"},
     shift_imm : {0, 1, 7}]
Halves ==
    [form : {"misc"}, lsh : {1, 2, 3, 5, 6, 7}, p : Bit, u : Bit, b : Bit,
     w : Bit, rn : {1}, rd : {0, 1, SP}, rm : {0}, offset : {3}]
Multiples ==
    [form : {"multiple"}, l : Bit, p : Bit, u : Bit, s : Bit, w : Bit,
     rn : {1, SP}, list : SUBSET {0, 1, SP, PC}]
Coprocessor == [form : {"coprocessor"}]

Opposite(stm) == [stm EXCEPT !.l = 1, !.p = 1 - stm.p, !.u = 1 - stm.u]
Overwrite ==
    [form |-> "imm", l |-> 1, p |-> 1, u |-> 0, b |-> 1, w |-> 0,
     rn |-> PC, rd |-> 0, offset |-> 4]

MCPrograms ==
    {<<ins>> : ins \in Immediates \union PcRelative \union Shifts \union Halves
                           \union Multiples \union Coprocessor}
    \union {<<stm, Overwrite, Opposite(stm)>> :
                stm \in {i \in Multiples : i.l = 0 /\ i.w = 1 /\ i.s = 0}}

File(r0, r1) ==
    [cell \in FileCells |->
        IF cell[1] = 0 THEN r0 ELSE IF cell[1] = 1 THEN r1
        ELSE IF cell[1] = SP THEN 4 * cell[2] ELSE IF cell[1] = PC THEN 4
        ELSE [mode |-> SVC, c |-> 1]]
MCFiles == {File(r0, r1) : r0 \in {2, 253, 255}, r1 \in {8, 16, 19}}
MCStatuses == {[mode |-> USR, c |-> 0], [mode |-> IRQ, c |-> 1]}
MCContents == {[a \in 0 .. MemorySize - 1 |-> (a * 3 + a \div 4 + 1) % ByteSize]}
MCGarbage == {0, 99}
=============================================================================
