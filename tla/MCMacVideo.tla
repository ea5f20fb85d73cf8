----------------------------- MODULE MCMacVideo -----------------------------
(* A small instance of MacVideo: the number of frames in flight is all     *)
(* that bounds it.                                                         *)
EXTENDS MacVideo

============================================================================
