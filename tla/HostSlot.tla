------------------------------ MODULE HostSlot ------------------------------
(***************************************************************************)
(* What a sharing host promises about its one place for a viewer, whatever *)
(* the implementation: it is a slot with a lease. An address gets it by the *)
(* user's answer or as a trusted device, takes it along to another of its   *)
(* ports, and keeps a claim to it for a while after it falls silent; a      *)
(* claim ends with its time, with a goodbye, or when the slot is given to   *)
(* somebody. The user may give it away from under a viewer, by an answer to *)
(* a request made while the slot was free.                                  *)
(***************************************************************************)
CONSTANTS
  Endpoint,  \* the addresses viewers use
  Ip,        \* the IP address of each
  Device,    \* the device behind it
  None

VARIABLES
  holder,    \* who has the slot, or None
  absent,    \* who fell silent and has a claim to it, or None
  lapsed,    \* the time of that claim is over
  asking,    \* who waits for the user's answer, or None
  trusted    \* the devices that need no answer

vars == <<holder, absent, lapsed, asking, trusted>>

Init ==
  /\ holder = None /\ absent = None /\ lapsed = FALSE
  /\ asking = None /\ trusted = {}

\* e has a claim, from this or another port of its address.
MayReturn(e) == absent # None /\ ~lapsed /\ Ip[e] = Ip[absent]

Claim(e) == absent' = e /\ lapsed' = FALSE

NoClaim == Claim(None)

----------------------------------------------------------------------------
(* Requests, the answers to them, and trust.                               *)

Ask(e) ==
  /\ holder = None /\ ~MayReturn(e)
  /\ asking' = e
  /\ UNCHANGED <<holder, absent, lapsed, trusted>>

Withdraw ==
  /\ asking # None /\ asking' = None
  /\ UNCHANGED <<holder, absent, lapsed, trusted>>

\* The slot goes to e, or to nobody when e cannot be told.
Give(e) ==
  /\ holder' \in {e, None}
  /\ NoClaim
  /\ asking' = None
  /\ UNCHANGED trusted

Admit(e) == asking = e /\ Give(e)

AdmitTrusted(e) ==
  /\ holder = None /\ ~MayReturn(e)
  /\ Device[e] \in trusted
  /\ Give(e)

Trust ==
  /\ \E e \in Endpoint : trusted' = trusted \cup {Device[e]}
  /\ UNCHANGED <<holder, absent, lapsed, asking>>

Distrust ==
  /\ \E device \in trusted : trusted' = trusted \ {device}
  /\ UNCHANGED <<holder, absent, lapsed, asking>>

----------------------------------------------------------------------------
(* The lease.                                                              *)

\* The slot follows its holder to another port; nobody else's claim is lost by
\* that, for there is none beside a holder.
Move(e) ==
  /\ holder # None /\ Ip[e] = Ip[holder]
  /\ holder' = e
  /\ UNCHANGED <<absent, lapsed, asking, trusted>>

\* A claim is taken up, once, or starts anew when its owner cannot be told.
Return(e) ==
  /\ holder = None /\ MayReturn(e)
  /\ \/ holder' = e /\ NoClaim
     \/ Claim(e) /\ UNCHANGED holder
  /\ UNCHANGED <<asking, trusted>>

FallSilent ==
  /\ holder # None /\ absent = None
  /\ holder' = None /\ Claim(holder)
  /\ UNCHANGED <<asking, trusted>>

\* Whoever says goodbye keeps no claim.
Leave ==
  /\ holder # None /\ absent = None
  /\ holder' = None
  /\ UNCHANGED <<absent, lapsed, asking, trusted>>

GiveUpClaim ==
  /\ absent # None /\ NoClaim
  /\ UNCHANGED <<holder, asking, trusted>>

Lapse ==
  /\ absent # None /\ ~lapsed /\ lapsed' = TRUE
  /\ UNCHANGED <<holder, absent, asking, trusted>>

Next ==
  \/ \E e \in Endpoint :
       Ask(e) \/ Admit(e) \/ AdmitTrusted(e) \/ Move(e) \/ Return(e)
  \/ Withdraw \/ Trust \/ Distrust \/ FallSilent \/ Leave \/ GiveUpClaim \/ Lapse

Spec == Init /\ [][Next]_vars

============================================================================
