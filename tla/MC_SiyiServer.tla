--------------------------- MODULE MC_SiyiServer ---------------------------
(* One TCP slot used by successive clients, UDP peers and the UART.  The    *)
(* routing run keeps a table of two remembered requests and fills output    *)
(* buffers of two units; the survival run fills buffers of four units with  *)
(* packets of one to three.                                                 *)
EXTENDS SiyiServer, TLC
CONSTANTS o1, o2
MCSlots == {0}
MCAddresses == {1}
MCOpcodes == {o1, o2}
OneOpcode == {o1}
TwoLengths == {1, 2}
SomeLengths == 1 .. 3
OpcodeSymmetry == Permutations(MCOpcodes)
=============================================================================
