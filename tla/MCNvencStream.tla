--------------------------- MODULE MCNvencStream ---------------------------
(* A small instance of NvencStream: one address, at which viewers follow    *)
(* each other, is where a change is hardest to see.                         *)
EXTENDS NvencStream

CONSTANT viewer

============================================================================
