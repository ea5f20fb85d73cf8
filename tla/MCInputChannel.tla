--------------------------- MODULE MCInputChannel ---------------------------
(* Small instances of InputChannel: a one-byte event, a two-byte event and *)
(* a text in two pieces. Four bytes overflow the queue, three fill the     *)
(* window and two a packet.                                                *)
EXTENDS InputChannel

CONSTANTS key, piece, releaseAll

MCEvent == {key, piece, releaseAll}
MCSize == [e \in MCEvent |-> IF e = piece THEN 2 ELSE 1]
MCPushes == {<<key>>, <<piece, piece>>}

============================================================================
