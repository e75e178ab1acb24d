---------------------------- MODULE MCRegisters ----------------------------
(***************************************************************************)
(* The register file with one register of each kind of bank: one banked    *)
(* for FIQ only, one banked in every mode, and the status registers.       *)
(***************************************************************************)
EXTENDS GdbRegisters

MCReg == {0, 8, SP, CPSR, SPSR}
MCValues == {<<1, 0, 0, 2>>}
StatusWord(mode) == <<0, 0, 1, 64 + mode>>
MCStatusWords == {StatusWord(m) : m \in {SYS, IRQ, FIQ, 32 + IRQ}}
AllStatusWords == {StatusWord(m) : m \in Modes}
\* each register of a packet has a word of its own
PacketsWith(statuses) ==
    {[reg \in Dumped |-> IF reg = CPSR THEN status ELSE <<reg, 0, 0, 3>>] :
        status \in statuses}
MCPackets == PacketsWith(MCStatusWords)
AllPackets == PacketsWith(AllStatusWords)
MCTraceModes == {SVC, IRQ, USR}
NoTrace == {}
=============================================================================
