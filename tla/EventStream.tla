---------------------------- MODULE EventStream ----------------------------
(***************************************************************************)
(* The two ends of echobind's event stream as values: EventSender and      *)
(* EventReceiver of echobind-core/src/input.rs. Every operator takes the   *)
(* state an end has before a method is called and returns the state it has *)
(* afterwards, so that the modules with behaviour (InputChannel,           *)
(* RemoteControl) share one reading of the code.                           *)
(*                                                                         *)
(* An event is an opaque value; all that the stream knows of it is the     *)
(* number of bytes of its encoding, Size[e].                               *)
(***************************************************************************)
EXTENDS Integers, Sequences, FiniteSetsExt

CONSTANTS
  Event,           \* every RemoteEvent that may be queued
  ReleaseAll,      \* RemoteEvent::ReleaseAll
  Size,            \* the length of an event's encoding
  MaxQueuedBytes,  \* MAX_QUEUED_BYTES
  WindowBytes,     \* WINDOW_BYTES
  MaxPayload       \* MAX_EVENTS_PAYLOAD

ASSUME EventAssumption ==
  /\ ReleaseAll \in Event
  /\ Size \in [Event -> Nat \ {0}]

\* discard() ends in a push() that must not overflow again, and an encoded
\* event fits in one packet (clipboard text is cut in pieces for that).
ASSUME BoundAssumption ==
  /\ MaxQueuedBytes \in Nat /\ WindowBytes \in Nat /\ MaxPayload \in Nat
  /\ Size[ReleaseAll] <= MaxQueuedBytes
  /\ \A e \in Event : Size[e] <= MaxPayload

Entry == [seq : Nat \ {0}, event : Event]
Packet == [base : Nat \ {0}, first : Nat \ {0}, events : Seq(Event)]

----------------------------------------------------------------------------
(* Bytes taken by the first k events of a sequence, for every k.           *)

EncodedLength(events) ==
  LET total[k \in 0..Len(events)] ==
        IF k = 0 THEN 0 ELSE total[k - 1] + Size[events[k]]
  IN  total

QueuedEvents(queue) == [k \in 1..Len(queue) |-> queue[k].event]
QueueLength(queue) == EncodedLength(QueuedEvents(queue))

----------------------------------------------------------------------------
(* The sender.                                                             *)

NewSender == [queue |-> <<>>, bytes |-> 0, next |-> 1, sentThrough |-> 0]

\* Mutants: a discard that forgets the release-all, and one that forgets to
\* reset the byte count.
DiscardSilently(s) ==
  [queue |-> <<>>, bytes |-> 0, next |-> s.next, sentThrough |-> s.next - 1]

DiscardKeepingCount(s) ==
  [queue |-> <<[seq |-> s.next, event |-> ReleaseAll]>>,
   bytes |-> s.bytes + Size[ReleaseAll],
   next |-> s.next + 1,
   sentThrough |-> s.next - 1]

\* The queue is given up: all that is left of it is a release-all, numbered
\* after everything queued before.
Discard(s) ==
  [queue |-> <<[seq |-> s.next, event |-> ReleaseAll]>>,
   bytes |-> Size[ReleaseAll],
   next |-> s.next + 1,
   sentThrough |-> s.next - 1]

\* Events as they are queued, numbered from `first`.
Numbered(first, events) ==
  [k \in 1..Len(events) |-> [seq |-> first + k - 1, event |-> events[k]]]

\* The queue holds these events behind what it held before.
Enqueue(s, events) ==
  [queue |-> s.queue \o Numbered(s.next, events),
   bytes |-> s.bytes + EncodedLength(events)[Len(events)],
   next |-> s.next + Len(events),
   sentThrough |-> s.sentThrough]

\* The k-th of these events fits in the queue behind those ahead of it.
Fits(s, events, k) == s.bytes + EncodedLength(events)[k] <= MaxQueuedBytes

\* How many of these events are queued before one does not fit.
Fitting(s, events) ==
  CHOOSE n \in 0..Len(events) :
    /\ \A k \in 1..n : Fits(s, events, k)
    /\ n < Len(events) => ~Fits(s, events, n + 1)

Overflows(s, events) == Fitting(s, events) < Len(events)

\* push() for one event, and the loop of push_clipboard() for the pieces of a
\* text: events are queued one by one, and the first that does not fit
\* replaces the whole queue by a release-all and ends the loop.
Push(s, events) ==
  IF Overflows(s, events)
  THEN Discard(Enqueue(s, SubSeq(events, 1, Fitting(s, events))))
  ELSE Enqueue(s, events)

\* Mutant: one entry more than was acknowledged.
AcknowledgedOneMore(queue, n) ==
  CHOOSE k \in 0..Len(queue) :
    /\ \A i \in 1..k : queue[i].seq <= n + 1
    /\ k < Len(queue) => queue[k + 1].seq > n + 1

\* Entries leave from the front while they are covered by the acknowledgement.
Acknowledged(queue, n) ==
  CHOOSE k \in 0..Len(queue) :
    /\ \A i \in 1..k : queue[i].seq <= n
    /\ k < Len(queue) => queue[k + 1].seq > n

Acknowledge(s, n) ==
  LET gone == Acknowledged(s.queue, n)
  IN  [queue |-> SubSeq(s.queue, gone + 1, Len(s.queue)),
       bytes |-> s.bytes - QueueLength(s.queue)[gone],
       next |-> s.next,
       sentThrough |-> s.sentThrough]

----------------------------------------------------------------------------
(* Sending. The window is the longest prefix of the queue within           *)
(* WindowBytes, and its first entry in any case.                           *)

Window(queue) ==
  {k \in 1..Len(queue) : k = 1 \/ QueueLength(queue)[k] <= WindowBytes}

Sendable(queue, from) == {k \in Window(queue) : queue[k].seq >= from}

\* Packets are filled greedily: the entry at k opens a new one when it is the
\* first to be sent or when it no longer fits behind the opener before it.
Opener(queue, from) ==
  LET bytes == QueueLength(queue)
      opener[k \in 0..Len(queue)] ==
        IF k = 0 THEN 0
        ELSE IF /\ opener[k - 1] \in Sendable(queue, from)
                /\ bytes[k] - bytes[opener[k - 1] - 1] <= MaxPayload
             THEN opener[k - 1]
             ELSE k
  IN  opener

\* Mutant: a packet's base is its own first entry, not the queue's.
PacketOfOwnBase(queue, a, b) ==
  [base |-> queue[a].seq,
   first |-> queue[a].seq,
   events |-> QueuedEvents(SubSeq(queue, a, b))]

\* The packet of the entries from a to b.
PacketOf(queue, a, b) ==
  [base |-> queue[1].seq,
   first |-> queue[a].seq,
   events |-> QueuedEvents(SubSeq(queue, a, b))]

\* The first and the last entry of every packet.
Runs(queue, from) ==
  {ab \in Sendable(queue, from) \X Sendable(queue, from) :
     /\ ab[1] <= ab[2]
     /\ Opener(queue, from)[ab[1]] = ab[1]
     /\ Opener(queue, from)[ab[2]] = ab[1]
     /\ ab[2] + 1 \in Sendable(queue, from) =>
          Opener(queue, from)[ab[2] + 1] = ab[2] + 1}

\* send_window().
WindowPackets(queue, from) ==
  {PacketOf(queue, ab[1], ab[2]) : ab \in Runs(queue, from)}

NewPackets(s) == WindowPackets(s.queue, s.sentThrough + 1)

\* Mutant: only what was never sent is sent again.
RetransmitUnsent(s) == NewPackets(s)

RetransmitPackets(s) ==
  IF s.queue = <<>> THEN {} ELSE WindowPackets(s.queue, s.queue[1].seq)

\* The sender after send_new() or retransmit(): every sendable entry has been
\* sent at least once.
Sent(s, from) ==
  [queue |-> s.queue,
   bytes |-> s.bytes,
   next |-> s.next,
   sentThrough |->
     Max({s.sentThrough} \cup {s.queue[k].seq : k \in Sendable(s.queue, from)})]

AfterSendNew(s) == Sent(s, s.sentThrough + 1)

AfterRetransmit(s) ==
  IF s.queue = <<>> THEN s ELSE Sent(s, s.queue[1].seq)

----------------------------------------------------------------------------
(* The receiver, whose state is the last sequence applied (0 when it has   *)
(* applied nothing; the code's None is treated as 0 wherever it is read).  *)

\* Mutant: the receiver follows the base backwards.
BaseOfPacket(applied, p) == p.base - 1

\* Where the receiver stands once it has seen the packet's base: what lies
\* before the base was acknowledged, or discarded on purpose.
Base(applied, p) == IF p.base - 1 > applied THEN p.base - 1 ELSE applied

PacketEnd(p) == p.first + Len(p.events) - 1

\* The sequence the receiver stands at afterwards, which it acknowledges.
Received(applied, p) ==
  IF p.first <= Base(applied, p) + 1 /\ PacketEnd(p) > Base(applied, p)
  THEN PacketEnd(p)
  ELSE Base(applied, p)

\* The events it applies: the ones of the packet past its base, unless they
\* begin after a gap.
AppliedEvents(applied, p) ==
  SubSeq(p.events, Base(applied, p) - p.first + 2,
         Received(applied, p) - p.first + 1)

============================================================================
