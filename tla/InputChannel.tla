---------------------------- MODULE InputChannel ----------------------------
(***************************************************************************)
(* One EventSender and one EventReceiver of echobind-core/src/input.rs,    *)
(* joined by UDP: a datagram may be lost, arrive twice or out of order.    *)
(* There is one action per method call. The 40 ms of retransmit_due() are  *)
(* not counted: retransmission may happen whenever the queue is not empty. *)
(*                                                                         *)
(* log, discarded and delivered are history: the program does not have     *)
(* them. log[n] is the event that was given sequence n.                    *)
(***************************************************************************)
EXTENDS EventStream

CONSTANTS
  Pushes,       \* what is pushed in one call: <<e>>, or the pieces of a text
  MaxSequence   \* bound: sequences given out

ASSUME PushesAssumption == Pushes \subseteq Seq(Event) \ {<<>>}

VARIABLES
  sender,     \* the EventSender
  applied,    \* the EventReceiver
  packets,    \* Packet::Events in flight
  acks,       \* Packet::EventsAck in flight
  log, discarded, delivered

vars == <<sender, applied, packets, acks, log, discarded, delivered>>

Init ==
  /\ sender = NewSender
  /\ applied = 0
  /\ packets = {} /\ acks = {}
  /\ log = <<>> /\ discarded = {} /\ delivered = <<>>

Sequences(queue) == {queue[k].seq : k \in 1..Len(queue)}

\* push() and push_clipboard(), at the end of which the log has the events
\* that were queued and, after an overflow, the release-all.
PushEvents(events) ==
  /\ sender.next + Len(events) - 1 <= MaxSequence
  /\ sender' = Push(sender, events)
  /\ IF Overflows(sender, events)
     THEN LET n == Fitting(sender, events) IN
       /\ log' = log \o Append(SubSeq(events, 1, n), ReleaseAll)
       /\ discarded' = discarded \cup Sequences(sender.queue)
                         \cup sender.next..sender.next + n - 1
     ELSE /\ log' = log \o events
          /\ UNCHANGED discarded
  /\ UNCHANGED <<applied, packets, acks, delivered>>

\* discard(), called by InputLink::suspend.
DiscardQueue ==
  /\ sender.next <= MaxSequence
  /\ sender' = Discard(sender)
  /\ log' = Append(log, ReleaseAll)
  /\ discarded' = discarded \cup Sequences(sender.queue)
  /\ UNCHANGED <<applied, packets, acks, delivered>>

\* send_new(), called after every push and every acknowledgement.
SendNew ==
  /\ sender' = AfterSendNew(sender)
  /\ packets' = packets \cup NewPackets(sender)
  /\ UNCHANGED <<applied, acks, log, discarded, delivered>>

\* retransmit(), when retransmit_due().
Retransmit ==
  /\ sender.queue # <<>>
  /\ sender' = AfterRetransmit(sender)
  /\ packets' = packets \cup RetransmitPackets(sender)
  /\ UNCHANGED <<applied, acks, log, discarded, delivered>>

\* EventReceiver::receive(), and the acknowledgement that answers it. The
\* packet stays in flight: it may arrive again.
Receive(p) ==
  /\ applied' = Received(applied, p)
  /\ delivered' = delivered \o
                   Numbered(Base(applied, p) + 1, AppliedEvents(applied, p))
  /\ acks' = acks \cup {Received(applied, p)}
  /\ UNCHANGED <<sender, packets, log, discarded>>

\* EventSender::acknowledge().
ReceiveAck(n) ==
  /\ sender' = Acknowledge(sender, n)
  /\ UNCHANGED <<applied, packets, acks, log, discarded, delivered>>

Next ==
  \/ \E events \in Pushes : PushEvents(events)
  \/ DiscardQueue
  \/ SendNew
  \/ Retransmit
  \/ \E p \in packets : Receive(p)
  \/ \E n \in acks : ReceiveAck(n)

\* A lost datagram is one that is never received: Spec has every loss.
Spec == Init /\ [][Next]_vars

----------------------------------------------------------------------------
(* Liveness must not rest on a datagram that stays in flight for ever:     *)
(* here the network may drop each of them for good.                        *)
(*                                                                         *)
(* Fairness: the loops on both sides call resend_if_due (or                *)
(* retransmit_due) on every pass, and of a datagram that is sent again and *)
(* again some copy arrives. Nothing obliges anyone to push.                *)

Lose ==
  /\ \/ /\ \E p \in packets : packets' = packets \ {p}
        /\ UNCHANGED acks
     \/ /\ \E n \in acks : acks' = acks \ {n}
        /\ UNCHANGED packets
  /\ UNCHANGED <<sender, applied, log, discarded, delivered>>

PacketOfUse == \E p \in packets : Received(applied, p) > applied /\ Receive(p)
AckBack == \E p \in packets : applied \notin acks /\ Receive(p)
AckOfUse ==
  \E n \in acks : Acknowledged(sender.queue, n) > 0 /\ ReceiveAck(n)

FairSpec ==
  /\ Init /\ [][Next \/ Lose]_vars
  /\ WF_vars(Retransmit)
  /\ SF_vars(PacketOfUse)
  /\ SF_vars(AckBack)
  /\ SF_vars(AckOfUse)

----------------------------------------------------------------------------
(* Properties.                                                             *)

Queue == sender.queue
Delivered == {delivered[i].seq : i \in 1..Len(delivered)}

\* The types of the two ends, of the network and of the history.
TypeOK ==
  /\ Queue \in Seq(Entry)
  /\ sender.next \in Nat \ {0}
  /\ sender.sentThrough \in 0..sender.next - 1
  /\ applied \in Nat
  /\ packets \subseteq Packet
  /\ acks \subseteq Nat
  /\ log \in Seq(Event)
  /\ discarded \subseteq 1..Len(log)
  /\ delivered \in Seq(Entry)

\* "applies each event once, in order" (EventReceiver): sequences are applied
\* in increasing order, each with the event that was pushed under it, however
\* packets of different windows overtake and repeat each other.
AppliedOnceInOrder ==
  /\ \A i, j \in 1..Len(delivered) : i < j => delivered[i].seq < delivered[j].seq
  /\ \A i \in 1..Len(delivered) :
       /\ delivered[i].seq \in 1..Len(log)
       /\ delivered[i].event = log[delivered[i].seq]

\* The receiver trusts a packet's base to skip ahead ("they are done", the
\* comment in receive()): all it ever leaves behind was applied or given up.
NothingSkipped == \A n \in 1..applied : n \in Delivered \/ n \in discarded

\* acknowledge() lets go only of events that are settled at the other end,
\* also when the acknowledgement is old or arrives after a discard.
ForgottenOnlyWhenSettled ==
  \A n \in 1..Len(log) :
    n \in Sequences(Queue) \/ n \in Delivered \/ n \in discarded

\* discard(): wherever events are missing from what the peer applied, the next
\* one it applies is the release-all that lets go of the keys they concerned.
ReleaseAfterGap ==
  \A i \in 1..Len(delivered) :
    LET before == IF i = 1 THEN 0 ELSE delivered[i - 1].seq
    IN  delivered[i].seq > before + 1 => delivered[i].event = ReleaseAll

\* queued_bytes is counted up and down in three methods: it is the length of
\* what is queued, and a peer that stops acknowledging cannot push it past
\* MAX_QUEUED_BYTES.
ByteCountExact ==
  /\ sender.bytes = QueueLength(Queue)[Len(Queue)]
  /\ sender.bytes <= MaxQueuedBytes

\* A packet never exceeds MAX_EVENTS_PAYLOAD, and what one window has in
\* flight never exceeds WINDOW_BYTES unless it is a single event.
PacketsFit ==
  \A p \in packets :
    /\ Len(p.events) > 0
    /\ EncodedLength(p.events)[Len(p.events)] <= MaxPayload
    /\ p.first > p.base =>
         EncodedLength(SubSeq(log, p.base, PacketEnd(p)))[PacketEnd(p) - p.base + 1]
           <= WindowBytes

\* What push() and send_window() count is what there is: bytes in the queue, in
\* a window and in a packet.
AccountsExact == ByteCountExact /\ PacketsFit

\* Whatever is pushed is settled in the end, at both ends: applied or passed
\* over by the receiver, and out of the sender's queue.
EverythingSettles ==
  \A n \in 1..MaxSequence :
    n <= Len(log) ~> applied >= n /\ n \notin Sequences(Queue)

\* The two ends implement the promise of ReliableStream.
Positions == [i \in 1..Len(delivered) |-> delivered[i].seq]

Promise == INSTANCE ReliableStream WITH
  abandoned <- discarded,
  delivered <- Positions

Reliable == Promise!Spec

----------------------------------------------------------------------------
(* The inductive invariant behind the safety properties.                   *)

\* The sequence of the oldest event not yet forgotten by the sender.
Oldest == sender.next - Len(Queue)

\* The queue is the tail of the log.
QueueIsLogTail ==
  /\ sender.next = Len(log) + 1
  /\ Len(Queue) <= Len(log)
  /\ \A k \in 1..Len(Queue) :
       /\ Queue[k].seq = Oldest + k - 1
       /\ Queue[k].event = log[Oldest + k - 1]

\* What precedes the queue is settled, and nothing in it was given up.
SettledBefore(n) == \A m \in 1..n - 1 : m \in Delivered \/ m \in discarded
ForgottenIsSettled == SettledBefore(Oldest) /\ discarded \subseteq 1..Oldest - 1

\* An event whose predecessor was not applied is a release-all.
ReleasesAt(n) ==
  n > 1 /\ n - 1 \notin Delivered => n <= Len(log) /\ log[n] = ReleaseAll

\* A packet carries a piece of the log, and its base is as good as the front
\* of the queue it was cut from.
PacketIsFaithful(p) ==
  /\ Len(p.events) > 0
  /\ p.base <= p.first /\ PacketEnd(p) <= Len(log)
  /\ \A k \in 1..Len(p.events) : p.events[k] = log[p.first + k - 1]
  /\ SettledBefore(p.base)
  /\ ReleasesAt(p.base)

AcksAreApplied == \A n \in acks : n <= applied

LastDelivered == IF delivered = <<>> THEN 0 ELSE delivered[Len(delivered)].seq

\* The receiver stands at the last event it applied, or just before a
\* release-all.
ReceiverIsSettled ==
  /\ applied <= Len(log)
  /\ LastDelivered <= applied
  /\ LastDelivered < applied =>
       applied < Len(log) /\ log[applied + 1] = ReleaseAll

IInv ==
  /\ TypeOK
  /\ QueueIsLogTail
  /\ ForgottenIsSettled
  /\ ReleasesAt(Oldest)
  /\ \A p \in packets : PacketIsFaithful(p)
  /\ AcksAreApplied
  /\ ReceiverIsSettled
  /\ AppliedOnceInOrder
  /\ NothingSkipped
  /\ ReleaseAfterGap

============================================================================
