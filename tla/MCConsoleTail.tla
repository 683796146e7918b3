--------------------------- MODULE MCConsoleTail ---------------------------
(* Two ports of debug probes and one other port.                           *)
EXTENDS ConsoleTail

CONSTANTS com3, com4, com7

MCRank == [p \in Ports |-> IF p = com3 THEN 1 ELSE IF p = com4 THEN 2 ELSE 3]
=============================================================================
