-------------------------- MODULE MCNvencSession ---------------------------
(* A small instance of NvencSession: two slots, so that one is with a stage *)
(* while the other is handed on or given back.                              *)
EXTENDS NvencSession

CONSTANTS slot1, slot2

============================================================================
