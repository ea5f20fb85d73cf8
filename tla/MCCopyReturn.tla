---------------------------- MODULE MCCopyReturn ----------------------------
(* A small instance of CopyReturn: a piece fills a packet, two texts fill  *)
(* the window and the queue.                                               *)
EXTENDS CopyReturn

CONSTANTS releaseAll

MCEvent == {Piece(t, i) : t \in 1..MaxText, i \in 1..2} \cup {releaseAll}
MCSize == [e \in MCEvent |-> 1]

============================================================================
