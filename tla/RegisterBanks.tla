--------------------------- MODULE RegisterBanks ---------------------------
(***************************************************************************)
(* How registers.c lays the banked registers out: registers_create         *)
(* allocates, for each register, an array of cells (data) and, for each    *)
(* mode, a pointer into it (ptrs).  A pointer is modelled by the cell it   *)
(* points to, <<register, index>>; the NULL pointers of the SPSR have a    *)
(* negative index, and an index past the array is out of bounds.           *)
(***************************************************************************)
EXTENDS Integers

\* the modes and registers of arm_constants.h and registers.h
USR == 16
FIQ == 17
IRQ == 18
SVC == 19
ABT == 23
UND == 27
SYS == 31
Modes == {USR, FIQ, IRQ, SVC, ABT, UND, SYS}

SP == 13
LR == 14
PC == 15
CPSR == 16
SPSR == 17
Registers == 0 .. 17

\* the index of a mode in ptrs; anything that is not a mode is index 0
get_read_write_mode(mode) ==
    IF mode = SYS THEN 1
    ELSE IF mode = SVC THEN 2
    ELSE IF mode = ABT THEN 3
    ELSE IF mode = UND THEN 4
    ELSE IF mode = IRQ THEN 5
    ELSE IF mode = FIQ THEN 6
    ELSE 0

MutantPtr(reg, m) ==
    IF reg \in 8 .. 12 THEN IF m = 6 THEN 1 ELSE 0
    ELSE IF reg \in {SP, LR} THEN m
    ELSE IF reg = SPSR THEN m - 2
    ELSE 0

\* registers_create: the entry of data that ptrs[m] points to
Ptr(reg, m) ==
    IF reg \in 8 .. 12 THEN IF m = 6 THEN 1 ELSE 0
    ELSE IF reg \in {SP, LR} THEN IF m < 2 THEN 0 ELSE m
    ELSE IF reg = SPSR THEN m - 2
    ELSE 0

\* registers_create: the number of entries calloc gives to data
Size(reg) ==
    IF reg \in 8 .. 12 THEN 2
    ELSE IF reg \in {SP, LR} THEN 6
    ELSE IF reg = SPSR THEN 5
    ELSE 1

Cell(reg, mode) == <<reg, Ptr(reg, get_read_write_mode(mode))>>

Cells(regs) == UNION {{reg} \X (0 .. Size(reg) - 1) : reg \in regs}

registers_mode_has_spsr(mode) == get_read_write_mode(mode) >= 2
=============================================================================
