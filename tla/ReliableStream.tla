--------------------------- MODULE ReliableStream ---------------------------
(***************************************************************************)
(* What echobind's event stream promises, whatever its implementation: the *)
(* events one end appends reach the other once each and in the order they  *)
(* were appended, and none is passed over that the appending end did not   *)
(* give up.                                                                *)
(***************************************************************************)
EXTENDS Integers, Sequences

CONSTANT Event

VARIABLES
  log,        \* the events appended so far, in order
  abandoned,  \* the positions of log the sending end has given up
  delivered   \* the positions of log the receiving end has applied, in order

vars == <<log, abandoned, delivered>>

LastDelivered == IF delivered = <<>> THEN 0 ELSE delivered[Len(delivered)]

Init ==
  /\ log = <<>>
  /\ abandoned = {}
  /\ delivered = <<>>

\* One method call appends any number of events and may give up any that were
\* appended before or with them.
Extend ==
  /\ log' \in Seq(Event)
  /\ Len(log) <= Len(log')
  /\ SubSeq(log', 1, Len(log)) = log
  /\ abandoned \subseteq abandoned'
  /\ abandoned' \subseteq 1..Len(log')
  /\ UNCHANGED delivered

\* A run of consecutive positions is applied; what it leaps over was given up.
Deliver ==
  \E n \in 1..Len(log) : \E m \in n..Len(log) :
    /\ \A j \in LastDelivered + 1..n - 1 : j \in abandoned
    /\ n > LastDelivered
    /\ delivered' = delivered \o [k \in 1..m - n + 1 |-> n + k - 1]
    /\ UNCHANGED <<log, abandoned>>

Next == Extend \/ Deliver

Spec == Init /\ [][Next]_vars

============================================================================
