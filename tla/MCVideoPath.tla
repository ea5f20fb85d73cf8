---------------------------- MODULE MCVideoPath ----------------------------
(* A small instance of VideoPath: chunks of two bytes; some frames fit in   *)
(* one datagram, the others have two fragments and a recovery datagram.     *)
EXTENDS VideoPath

MCPayload == [id \in 0..3 |-> IF id % 2 = 0 THEN <<1, 0, 1>> ELSE <<1>>]

============================================================================
