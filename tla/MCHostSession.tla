--------------------------- MODULE MCHostSession ---------------------------
(* Small instances of HostSession. The device `laptop` is at two ports of its *)
(* address, as after a restart or with a rebuilt socket; `phone` listens     *)
(* only, from an address of its own or from the laptop's.                   *)
EXTENDS HostSession

CONSTANTS port1, port2, port3, laptop, phone

MCEndpoint == {port1, port2, port3}
MCDevice == [e \in MCEndpoint |-> IF e = port3 THEN phone ELSE laptop]
OwnAddresses == [e \in MCEndpoint |-> IF e = port3 THEN 2 ELSE 1]
OneAddress == [e \in MCEndpoint |-> 1]
MCAudioOnly == {port3}

============================================================================
