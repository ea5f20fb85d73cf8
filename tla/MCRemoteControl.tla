--------------------------- MODULE MCRemoteControl ---------------------------
(* Small instances of RemoteControl: one-byte events, all of a window in   *)
(* one packet, and three of them fill the queue.                           *)
EXTENDS RemoteControl

CONSTANTS releaseAll, key, key2, letter, command

MCEvent == {KeyEvent(k, pressed) : k \in Key, pressed \in BOOLEAN}
             \cup {Shortcut(l) : l \in Letter} \cup {releaseAll}
MCSize == [e \in MCEvent |-> 1]

============================================================================
