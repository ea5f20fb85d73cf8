---------------------------- MODULE StreamProofs ----------------------------
(* The safety of the event stream, and of copied text on its way back over *)
(* one, for every set of events, every size of queue, window and packet,   *)
(* and every number of pushes, texts, streams and ports.                   *)
(*                                                                         *)
(* InputChannel: IInv is inductive and implies the safety properties       *)
(* InputChannel states, the two ends implement ReliableStream, and what is *)
(* queued and sent keeps within the bytes it is counted for.               *)
(*                                                                         *)
(* CopyReturn: CopyIInv is inductive and implies that copied texts arrive  *)
(* whole and that the last one arrives.                                    *)
EXTENDS InputChannel, CopyReturn, EventStreamProofs

\* The sequences in the queue are the last ones given out.
LEMMA QueuedSequences ==
  ASSUME TypeOK, QueueIsLogTail
  PROVE  /\ Len(Queue) \in Nat /\ Len(log) \in Nat
         /\ Oldest \in 1..Len(log) + 1
         /\ Sequences(Queue) = Oldest..Len(log)
<1>1. Len(Queue) \in Nat /\ Len(log) \in Nat
  BY LenProperties DEF TypeOK
<1>2. /\ Oldest = Len(log) + 1 - Len(Queue)
      /\ Len(Queue) <= Len(log)
      /\ \A k \in 1..Len(Queue) : Queue[k].seq = Oldest + k - 1
  BY DEF Oldest, QueueIsLogTail
<1>3. Oldest \in 1..Len(log) + 1
  BY <1>1, <1>2
<1>4. ASSUME NEW n \in Oldest..Len(log) PROVE n \in Sequences(Queue)
  <2>1. n - Oldest + 1 \in 1..Len(Queue) /\ Oldest + (n - Oldest + 1) - 1 = n
    BY <1>1, <1>2, <1>3
  <2> QED BY <1>2, <2>1 DEF Sequences
<1>5. ASSUME NEW k \in 1..Len(Queue)
      PROVE  Queue[k].seq \in Oldest..Len(log)
  BY <1>1, <1>2, <1>3
<1> QED BY <1>1, <1>3, <1>4, <1>5 DEF Sequences

----------------------------------------------------------------------------
(* Steps that append to the log: pushes and discards.                       *)

\* What does not concern the sender survives any step that only appends.
LEMMA AppendFrame ==
  ASSUME IInv, log' \in Seq(Event), Len(log') >= Len(log),
         \A n \in 1..Len(log) : log'[n] = log[n],
         UNCHANGED <<applied, packets, acks, delivered>>,
         discarded \subseteq discarded', discarded' \subseteq 1..Len(log')
  PROVE  /\ \A p \in packets' : PacketIsFaithful(p)'
         /\ AcksAreApplied' /\ ReceiverIsSettled'
         /\ AppliedOnceInOrder' /\ NothingSkipped' /\ ReleaseAfterGap'
         /\ applied' \in Nat /\ packets' \subseteq Packet /\ acks' \subseteq Nat
         /\ delivered' \in Seq(Entry)
<1>1. Len(log) \in Nat /\ Len(log') \in Nat
  BY LenProperties DEF IInv, TypeOK
<1>2. Delivered' = Delivered
  BY DEF Delivered
<1>3. ASSUME NEW p \in packets' PROVE PacketIsFaithful(p)'
  <2>1. p \in Packet /\ PacketIsFaithful(p)
    BY <1>3 DEF IInv, TypeOK
  <2>2. /\ p.first \in Nat \ {0} /\ p.base \in Nat \ {0} /\ Len(p.events) \in Nat
        /\ PacketEnd(p) \in Int
    BY <2>1, LenProperties DEF Packet, PacketEnd
  <2>3. PacketEnd(p) <= Len(log')
    BY <1>1, <2>1, <2>2 DEF PacketIsFaithful
  <2>4. ASSUME NEW k \in 1..Len(p.events) PROVE p.events[k] = log'[p.first + k - 1]
    <3>1. p.first + k - 1 \in 1..Len(log)
      <4> DEFINE f == p.first
                 n == Len(p.events)
                 top == Len(log)
      <4>1. /\ f \in Nat \ {0} /\ n \in Nat /\ top \in Nat /\ k \in 1..n
            /\ f + n - 1 <= top
        BY <1>1, <2>1, <2>2 DEF PacketIsFaithful, PacketEnd
      <4> HIDE DEF f, n, top
      <4>2. f + k - 1 \in 1..top
        BY <4>1
      <4> QED BY <4>2 DEF f, top
    <3> QED BY <2>1, <3>1 DEF PacketIsFaithful
  <2>5. SettledBefore(p.base)'
    BY <1>2, <2>1 DEF PacketIsFaithful, SettledBefore
  <2>6. ReleasesAt(p.base)'
    BY <1>1, <1>2, <2>1, <2>2 DEF PacketIsFaithful, ReleasesAt
  <2> QED BY <2>1, <2>3, <2>4, <2>5, <2>6 DEF PacketIsFaithful
<1>4. AcksAreApplied' /\ NothingSkipped'
  BY <1>2 DEF IInv, AcksAreApplied, NothingSkipped
<1>5. ReceiverIsSettled'
  <2>1. applied \in Nat /\ ReceiverIsSettled
    BY DEF IInv, TypeOK
  <2>2. LastDelivered' = LastDelivered
    BY DEF LastDelivered
  <2>3. applied < Len(log) => applied + 1 \in 1..Len(log)
    BY <1>1, <2>1
  <2> QED BY <1>1, <2>1, <2>2, <2>3 DEF ReceiverIsSettled
<1>6. AppliedOnceInOrder'
  BY <1>1 DEF IInv, AppliedOnceInOrder
<1>7. ReleaseAfterGap'
  BY DEF IInv, ReleaseAfterGap
<1> QED BY <1>3, <1>4, <1>5, <1>6, <1>7 DEF IInv, TypeOK

\* After a discard the queue is one release-all at the end of the log, and all
\* that came before it is settled.
LEMMA AfterDiscard ==
  ASSUME IInv, NEW s, s.next \in Nat \ {0}, sender' = Discard(s),
         log' \in Seq(Event), Len(log') = s.next, log'[s.next] = ReleaseAll,
         UNCHANGED delivered,
         \A n \in 1..s.next - 1 : n \in Delivered \/ n \in discarded',
         discarded' \subseteq 1..s.next - 1
  PROVE  /\ QueueIsLogTail' /\ ForgottenIsSettled' /\ ReleasesAt(Oldest)'
         /\ Queue' \in Seq(Entry) /\ sender'.next \in Nat \ {0}
         /\ sender'.sentThrough \in 0..sender'.next - 1
<1>1. /\ Queue' = <<[seq |-> s.next, event |-> ReleaseAll]>>
      /\ sender'.next = s.next + 1 /\ sender'.sentThrough = s.next - 1
  BY DEF Discard, Queue
<1>2. [seq |-> s.next, event |-> ReleaseAll] \in Entry
  BY EventAssumption DEF Entry
<1>3. /\ Queue' \in Seq(Entry) /\ Len(Queue') = 1
      /\ Queue'[1].seq = s.next /\ Queue'[1].event = ReleaseAll
  BY <1>1, <1>2
<1>4. Oldest' = s.next
  BY <1>1, <1>3 DEF Oldest
<1>5. QueueIsLogTail'
  BY <1>1, <1>3, <1>4 DEF QueueIsLogTail
<1>6. ForgottenIsSettled' /\ ReleasesAt(Oldest)'
  BY <1>4 DEF ForgottenIsSettled, SettledBefore, ReleasesAt, Delivered
<1> QED BY <1>1, <1>3, <1>5, <1>6

LEMMA DiscardPreserves ==
  ASSUME IInv, DiscardQueue
  PROVE  IInv'
<1>1. /\ Len(log) \in Nat /\ sender.next = Len(log) + 1 /\ Oldest \in 1..Len(log) + 1
      /\ Sequences(Queue) = Oldest..Len(log)
  BY QueuedSequences DEF IInv, QueueIsLogTail
<1>2. /\ log' \in Seq(Event) /\ Len(log') = Len(log) + 1
      /\ \A n \in 1..Len(log) : log'[n] = log[n]
      /\ log'[Len(log) + 1] = ReleaseAll
  BY EventAssumption, AppendProperties DEF IInv, TypeOK, DiscardQueue
<1>3. discarded' = discarded \cup Oldest..Len(log)
  BY <1>1 DEF DiscardQueue, Queue
<1>4. discarded' \subseteq 1..Len(log)
  <2>1. discarded \subseteq 1..Len(log)
    BY DEF IInv, TypeOK
  <2>2. Oldest..Len(log) \subseteq 1..Len(log)
    BY <1>1
  <2> QED BY <1>3, <2>1, <2>2
<1>5. \A n \in 1..Len(log) : n \in Delivered \/ n \in discarded'
  BY <1>1, <1>3 DEF IInv, ForgottenIsSettled, SettledBefore
<1>6. /\ QueueIsLogTail' /\ ForgottenIsSettled' /\ ReleasesAt(Oldest)'
      /\ Queue' \in Seq(Entry) /\ sender'.next \in Nat \ {0}
      /\ sender'.sentThrough \in 0..sender'.next - 1
  BY <1>1, <1>2, <1>4, <1>5, AfterDiscard DEF DiscardQueue
<1>7. discarded \subseteq discarded' /\ discarded' \subseteq 1..Len(log')
  BY <1>1, <1>2, <1>3, <1>4
<1>8. UNCHANGED <<applied, packets, acks, delivered>>
  BY DEF DiscardQueue
<1>9. /\ \A p \in packets' : PacketIsFaithful(p)'
      /\ AcksAreApplied' /\ ReceiverIsSettled'
      /\ AppliedOnceInOrder' /\ NothingSkipped' /\ ReleaseAfterGap'
      /\ applied' \in Nat /\ packets' \subseteq Packet /\ acks' \subseteq Nat
      /\ delivered' \in Seq(Entry)
  BY <1>1, <1>2, <1>7, <1>8, AppendFrame
<1> QED BY <1>2, <1>6, <1>7, <1>9 DEF IInv, TypeOK

\* What is queued is what is appended to the log.
LEMMA EnqueuePreserves ==
  ASSUME IInv, NEW events \in Seq(Event),
         sender' = Enqueue(sender, events), log' = log \o events,
         UNCHANGED <<applied, packets, acks, discarded, delivered>>
  PROVE  IInv'
<1>1. /\ Len(Queue) \in Nat /\ Len(log) \in Nat /\ Oldest \in 1..Len(log) + 1
      /\ sender.next = Len(log) + 1 /\ Oldest = sender.next - Len(Queue)
      /\ Queue \in Seq(Entry) /\ Len(events) \in Nat
      /\ \A k \in 1..Len(Queue) : /\ Queue[k].seq = Oldest + k - 1
                                  /\ Queue[k].event = log[Oldest + k - 1]
  BY QueuedSequences, LenProperties DEF IInv, TypeOK, QueueIsLogTail, Oldest
<1>2. /\ Queue' \in Seq(Entry) /\ Len(Queue') = Len(Queue) + Len(events)
      /\ \A k \in 1..Len(Queue) : Queue'[k] = Queue[k]
      /\ \A k \in 1..Len(events) :
           Queue'[Len(Queue) + k] = [seq |-> sender.next + k - 1, event |-> events[k]]
  <2> DEFINE more == Numbered(sender.next, events)
  <2>1. sender.next \in Nat \ {0}
    BY DEF IInv, TypeOK
  <2>2. /\ more \in Seq(Entry)
        /\ Len(more) = Len(events)
        /\ \A k \in 1..Len(events) :
             more[k] = [seq |-> sender.next + k - 1, event |-> events[k]]
    BY <2>1, NumberedEntries
  <2>3. Queue' = Queue \o more
    BY DEF Enqueue, Queue
  <2> HIDE DEF more
  <2>4. Queue \in Seq(Entry) /\ more \in Seq(Entry)
    BY <2>2 DEF IInv, TypeOK
  <2>5. /\ Queue \o more \in Seq(Entry) /\ Len(Queue \o more) = Len(Queue) + Len(more)
        /\ \A k \in 1..Len(Queue) : (Queue \o more)[k] = Queue[k]
        /\ \A k \in 1..Len(more) : (Queue \o more)[Len(Queue) + k] = more[k]
    BY <2>4, ConcatParts
  <2> QED BY <2>2, <2>3, <2>5
<1>3. /\ log' \in Seq(Event) /\ Len(log') = Len(log) + Len(events)
      /\ \A n \in 1..Len(log) : log'[n] = log[n]
      /\ \A k \in 1..Len(events) : log'[Len(log) + k] = events[k]
  BY ConcatParts DEF IInv, TypeOK
<1>4. sender'.next = sender.next + Len(events) /\ sender'.sentThrough = sender.sentThrough
  BY DEF Enqueue
<1>5. Oldest' = Oldest
  BY <1>1, <1>2, <1>4 DEF Oldest
<1>6. QueueIsLogTail'
  <2>1. ASSUME NEW k \in 1..Len(Queue')
        PROVE  Queue'[k].seq = Oldest + k - 1 /\ Queue'[k].event = log'[Oldest + k - 1]
    <3>1. CASE k <= Len(Queue)
      <4>1. Oldest + k - 1 \in 1..Len(log) /\ k \in 1..Len(Queue)
        BY <1>1, <1>2, <3>1
      <4>2. log'[Oldest + k - 1] = log[Oldest + k - 1]
        BY <1>1, <1>3, <4>1
      <4> QED BY <1>1, <1>2, <4>1, <4>2
    <3>2. CASE k > Len(Queue)
      <4> DEFINE j == k - Len(Queue)
      <4>1. j \in 1..Len(events) /\ k = Len(Queue) + j
        BY <1>1, <1>2, <3>2
      <4>2. Oldest + k - 1 = Len(log) + j /\ sender.next + j - 1 = Len(log) + j
        BY <1>1, <4>1
      <4> HIDE DEF j
      <4>3. log'[Len(log) + j] = events[j]
        BY <1>3, <4>1
      <4>4. Queue'[k] = [seq |-> Len(log) + j, event |-> events[j]]
        BY <1>2, <4>1, <4>2
      <4> QED BY <1>1, <4>1, <4>2, <4>3, <4>4
    <3>3. k <= Len(Queue) \/ k > Len(Queue)
      BY <1>1, <1>2
    <3> QED BY <3>1, <3>2, <3>3
  <2>2. sender'.next = Len(log') + 1 /\ Len(Queue') <= Len(log')
    BY <1>1, <1>2, <1>3, <1>4
  <2> QED BY <1>5, <2>1, <2>2 DEF QueueIsLogTail
<1>7. Delivered' = Delivered /\ discarded' = discarded
  BY DEF Delivered
<1>8. ForgottenIsSettled'
  BY <1>5, <1>7 DEF IInv, ForgottenIsSettled, SettledBefore
<1>9. ReleasesAt(Oldest)'
  BY <1>1, <1>3, <1>5, <1>7 DEF IInv, ReleasesAt
<1>10. /\ Len(log') >= Len(log) /\ \A n \in 1..Len(log) : log'[n] = log[n]
       /\ discarded \subseteq discarded' /\ discarded' \subseteq 1..Len(log')
  BY <1>1, <1>3 DEF IInv, TypeOK
<1>11. /\ \A p \in packets' : PacketIsFaithful(p)'
       /\ AcksAreApplied' /\ ReceiverIsSettled'
       /\ AppliedOnceInOrder' /\ NothingSkipped' /\ ReleaseAfterGap'
       /\ applied' \in Nat /\ packets' \subseteq Packet /\ acks' \subseteq Nat
       /\ delivered' \in Seq(Entry)
  BY <1>3, <1>10, AppendFrame
<1>12. /\ sender'.next \in Nat \ {0} /\ sender'.sentThrough \in 0..sender'.next - 1
  BY <1>1, <1>4 DEF IInv, TypeOK
<1> QED BY <1>2, <1>3, <1>6, <1>8, <1>9, <1>10, <1>11, <1>12 DEF IInv, TypeOK

\* An overflow gives up what was queued, the pieces just pushed included.
LEMMA OverflowPreserves ==
  ASSUME IInv, NEW events \in Seq(Event), NEW n \in 0..Len(events),
         sender' = Discard(Enqueue(sender, SubSeq(events, 1, n))),
         log' = log \o Append(SubSeq(events, 1, n), ReleaseAll),
         discarded' = discarded \cup Sequences(Queue)
                        \cup sender.next..sender.next + n - 1,
         UNCHANGED <<applied, packets, acks, delivered>>
  PROVE  IInv'
<1> DEFINE part == SubSeq(events, 1, n)
           s == Enqueue(sender, part)
           more == Append(part, ReleaseAll)
<1>1. /\ Len(log) \in Nat /\ Oldest \in 1..Len(log) + 1
      /\ Sequences(Queue) = Oldest..Len(log) /\ sender.next = Len(log) + 1
      /\ Len(events) \in Nat
  BY QueuedSequences, LenProperties DEF IInv, QueueIsLogTail
<1>2. part \in Seq(Event) /\ Len(part) = n
  <2>1. \A i \in 1..n : events[i] \in Event
    BY <1>1, ElementOfSeq
  <2> QED BY <2>1, SubSeqProperties
<1> HIDE DEF part
<1>3. more \in Seq(Event) /\ Len(more) = n + 1 /\ more[n + 1] = ReleaseAll
  BY <1>2, EventAssumption, AppendProperties
<1> HIDE DEF more
<1>4. /\ log' \in Seq(Event) /\ Len(log') = Len(log) + n + 1
      /\ \A i \in 1..Len(log) : log'[i] = log[i]
      /\ log'[Len(log) + n + 1] = ReleaseAll
  <2>1. log \in Seq(Event) /\ log' = log \o more
    BY DEF IInv, TypeOK, more, part
  <2>2. /\ log' \in Seq(Event) /\ Len(log') = Len(log) + Len(more)
        /\ \A i \in 1..Len(log) : log'[i] = log[i]
        /\ \A k \in 1..Len(more) : log'[Len(log) + k] = more[k]
    <3>1. log \in Seq(Event) /\ more \in Seq(Event)
      BY <1>3, <2>1
    <3>2. /\ log \o more \in Seq(Event) /\ Len(log \o more) = Len(log) + Len(more)
          /\ \A i \in 1..Len(log) : (log \o more)[i] = log[i]
          /\ \A k \in 1..Len(more) : (log \o more)[Len(log) + k] = more[k]
      BY <3>1, ConcatParts
    <3> QED BY <2>1, <3>2
  <2>3. n + 1 \in 1..Len(more) /\ Len(log) + (n + 1) = Len(log) + n + 1
    BY <1>1, <1>3
  <2> QED BY <1>3, <2>2, <2>3
<1>5. s.next = Len(log) + n + 1 /\ s.next \in Nat \ {0}
  <2>1. s.next = sender.next + Len(part)
    BY DEF Enqueue
  <2> QED BY <1>1, <1>2, <2>1
<1>6. discarded' = discarded \cup Oldest..Len(log) \cup Len(log) + 1..Len(log) + n
  BY <1>1
<1>7. discarded' \subseteq 1..s.next - 1
  <2>1. discarded \subseteq 1..Len(log)
    BY DEF IInv, TypeOK
  <2>2. Oldest..Len(log) \subseteq 1..Len(log) + n
    BY <1>1
  <2>3. Len(log) + 1..Len(log) + n \subseteq 1..Len(log) + n
    BY <1>1
  <2>4. s.next - 1 = Len(log) + n
    BY <1>1, <1>5
  <2>5. 1..Len(log) \subseteq 1..Len(log) + n
    BY <1>1
  <2> QED BY <1>6, <2>1, <2>2, <2>3, <2>4, <2>5
<1>8. ASSUME NEW m \in 1..s.next - 1 PROVE m \in Delivered \/ m \in discarded'
  <2>1. m < Oldest \/ m \in Oldest..Len(log) \/ m \in Len(log) + 1..Len(log) + n
    BY <1>1, <1>5
  <2> QED BY <1>1, <1>6, <2>1 DEF IInv, ForgottenIsSettled, SettledBefore
<1> HIDE DEF s
<1>9. /\ QueueIsLogTail' /\ ForgottenIsSettled' /\ ReleasesAt(Oldest)'
      /\ Queue' \in Seq(Entry) /\ sender'.next \in Nat \ {0}
      /\ sender'.sentThrough \in 0..sender'.next - 1
  <2>1. sender' = Discard(s)
    BY DEF s, part
  <2> QED BY <1>4, <1>5, <1>7, <1>8, <2>1, AfterDiscard
<1>10. /\ Len(log') >= Len(log) /\ discarded \subseteq discarded'
       /\ discarded' \subseteq 1..Len(log')
  BY <1>1, <1>4, <1>5, <1>7
<1>11. /\ \A p \in packets' : PacketIsFaithful(p)'
       /\ AcksAreApplied' /\ ReceiverIsSettled'
       /\ AppliedOnceInOrder' /\ NothingSkipped' /\ ReleaseAfterGap'
       /\ applied' \in Nat /\ packets' \subseteq Packet /\ acks' \subseteq Nat
       /\ delivered' \in Seq(Entry)
  BY <1>4, <1>10, AppendFrame
<1> QED BY <1>4, <1>9, <1>10, <1>11 DEF IInv, TypeOK

LEMMA PushPreserves ==
  ASSUME IInv, NEW events \in Pushes, PushEvents(events)
  PROVE  IInv'
<1>1. events \in Seq(Event)
  BY PushesAssumption
<1>2. CASE Overflows(sender, events)
  <2>1. Fitting(sender, events) \in 0..Len(events)
    BY <1>1, FittingType
  <2> QED BY <1>1, <1>2, <2>1, OverflowPreserves DEF PushEvents, Push, Queue
<1>3. CASE ~Overflows(sender, events)
  BY <1>1, <1>3, EnqueuePreserves DEF PushEvents, Push
<1> QED BY <1>2, <1>3

----------------------------------------------------------------------------
(* Steps that send.                                                         *)

\* A packet cut from the queue is faithful to the log.
LEMMA WindowIsFaithful ==
  ASSUME IInv, NEW from, NEW p \in WindowPackets(Queue, from)
  PROVE  p \in Packet /\ PacketIsFaithful(p)
<1>1. /\ Len(Queue) \in Nat /\ Len(log) \in Nat /\ Oldest \in 1..Len(log) + 1
      /\ Oldest + Len(Queue) = Len(log) + 1
      /\ \A k \in 1..Len(Queue) : /\ Queue[k].seq = Oldest + k - 1
                                  /\ Queue[k].event = log[Oldest + k - 1]
  <2>1. /\ Len(Queue) \in Nat /\ Len(log) \in Nat /\ Oldest \in 1..Len(log) + 1
    BY QueuedSequences DEF IInv
  <2>2. Oldest = Len(log) + 1 - Len(Queue)
    BY DEF IInv, QueueIsLogTail, Oldest
  <2> QED BY <2>1, <2>2 DEF IInv, QueueIsLogTail
<1>2. Queue \in Seq(Entry)
  BY DEF IInv, TypeOK
<1>3. PICK a \in 1..Len(Queue), b \in 1..Len(Queue) :
        /\ a <= b
        /\ p.base = Queue[1].seq /\ p.first = Queue[a].seq
        /\ p \in Packet /\ Len(p.events) = b - a + 1
        /\ \A k \in 1..b - a + 1 : p.events[k] = Queue[a + k - 1].event
  BY <1>2, WindowPacket
<1>4. p.base = Oldest /\ p.first = Oldest + a - 1
  BY <1>1, <1>3
<1>5. Len(p.events) > 0 /\ p.base <= p.first /\ PacketEnd(p) <= Len(log)
  BY <1>1, <1>3, <1>4 DEF PacketEnd
<1>6. ASSUME NEW k \in 1..Len(p.events) PROVE p.events[k] = log[p.first + k - 1]
  <2>1. a + k - 1 \in 1..Len(Queue) /\ Oldest + (a + k - 1) - 1 = p.first + k - 1
    BY <1>1, <1>3, <1>4
  <2>2. Queue[a + k - 1].event = log[p.first + k - 1]
    BY <1>1, <2>1
  <2> QED BY <1>3, <2>2
<1>7. SettledBefore(p.base) /\ ReleasesAt(p.base)
  BY <1>4 DEF IInv, ForgottenIsSettled
<1> QED BY <1>3, <1>5, <1>6, <1>7 DEF PacketIsFaithful

\* send_new() and retransmit() put packets of the queue in flight and change
\* no more of the sender than sent_through.
LEMMA SendPreserves ==
  ASSUME IInv, NEW from, sender' = Sent(sender, from),
         packets' = packets \cup WindowPackets(Queue, from),
         UNCHANGED <<applied, acks, log, discarded, delivered>>
  PROVE  IInv'
<1>1. Queue' = Queue /\ sender'.next = sender.next
  BY DEF Sent, Queue
<1>2. Oldest' = Oldest /\ Delivered' = Delivered
  BY <1>1 DEF Oldest, Delivered
<1>3. sender'.sentThrough \in 0..sender'.next - 1
  <2>1. Queue = sender.queue /\ Queue \in Seq(Entry) /\ sender.next \in Nat \ {0}
    BY DEF IInv, TypeOK, Queue
  <2>2. sender.sentThrough \in 0..sender.next - 1
    BY DEF IInv, TypeOK
  <2>3. \A k \in 1..Len(Queue) : Queue[k].seq \in 0..sender.next - 1
    <3>1. /\ Len(log) \in Nat /\ Oldest \in 1..Len(log) + 1
          /\ Sequences(Queue) = Oldest..Len(log) /\ sender.next - 1 = Len(log)
      BY QueuedSequences DEF IInv, QueueIsLogTail
    <3>2. \A k \in 1..Len(Queue) : Queue[k].seq \in Oldest..Len(log)
      BY <3>1 DEF Sequences
    <3> QED BY <3>1, <3>2
  <2>4. Sent(sender, from).sentThrough \in 0..sender.next - 1
    BY <2>1, <2>2, <2>3, SentThroughBound
  <2> QED BY <1>1, <2>4
<1>4. \A p \in packets' : p \in Packet /\ PacketIsFaithful(p)'
  <2>1. \A p \in packets' : p \in Packet /\ PacketIsFaithful(p)
    BY WindowIsFaithful DEF IInv, TypeOK
  <2> QED BY <1>2, <2>1 DEF PacketIsFaithful, SettledBefore, ReleasesAt
<1>5. TypeOK'
  BY <1>1, <1>3, <1>4 DEF IInv, TypeOK
<1>6. QueueIsLogTail'
  BY <1>1, <1>2 DEF IInv, QueueIsLogTail
<1>7. ForgottenIsSettled' /\ ReleasesAt(Oldest)' /\ AcksAreApplied' /\ NothingSkipped'
  BY <1>2 DEF IInv, ForgottenIsSettled, SettledBefore, ReleasesAt, AcksAreApplied,
              NothingSkipped
<1>8. ReceiverIsSettled' /\ AppliedOnceInOrder' /\ ReleaseAfterGap'
  BY DEF IInv, ReceiverIsSettled, LastDelivered, AppliedOnceInOrder, ReleaseAfterGap
<1> QED BY <1>4, <1>5, <1>6, <1>7, <1>8 DEF IInv

----------------------------------------------------------------------------
(* Acknowledgements.                                                        *)

\* acknowledge() lets go of a front part of the queue, all of it applied.
LEMMA AckPreserves ==
  ASSUME IInv, NEW n \in acks, ReceiveAck(n)
  PROVE  IInv'
<1> DEFINE gone == Acknowledged(Queue, n)
<1>1. /\ Len(Queue) \in Nat /\ Len(log) \in Nat /\ Oldest \in 1..Len(log) + 1
      /\ Oldest + Len(Queue) = Len(log) + 1
      /\ \A k \in 1..Len(Queue) : /\ Queue[k].seq = Oldest + k - 1
                                  /\ Queue[k].event = log[Oldest + k - 1]
  <2>1. /\ Len(Queue) \in Nat /\ Len(log) \in Nat /\ Oldest \in 1..Len(log) + 1
    BY QueuedSequences DEF IInv
  <2>2. Oldest = Len(log) + 1 - Len(Queue)
    BY DEF IInv, QueueIsLogTail, Oldest
  <2> QED BY <2>1, <2>2 DEF IInv, QueueIsLogTail
<1>2. n \in Nat /\ applied \in Nat /\ n <= applied
  BY DEF IInv, TypeOK, AcksAreApplied
<1>3. Queue \in Seq(Entry) /\ Oldest \in Nat \ {0}
  BY <1>1 DEF IInv, TypeOK
<1>4. \A k \in 1..Len(Queue) : Queue[k].seq = Oldest + k - 1
  BY <1>1
<1>5. gone \in 0..Len(Queue) /\ \A k \in 1..gone : Oldest + k - 1 <= n
  BY <1>2, <1>3, <1>4, AcknowledgedCount
<1>6. /\ Queue' = SubSeq(Queue, gone + 1, Len(Queue))
      /\ sender'.next = sender.next /\ sender'.sentThrough = sender.sentThrough
  BY DEF ReceiveAck, Acknowledge, Queue
<1> HIDE DEF gone
<1>7. /\ Queue' \in Seq(Entry) /\ Len(Queue') = Len(Queue) - gone
      /\ \A k \in 1..Len(Queue') : Queue'[k] = Queue[gone + k]
  BY <1>3, <1>5, <1>6, RestOfSeq
<1>8. Oldest' = Oldest + gone
  <2>1. Oldest = sender.next - Len(Queue) /\ Oldest' = sender'.next - Len(Queue')
    BY DEF Oldest
  <2>2. sender.next \in Nat
    BY DEF IInv, TypeOK
  <2> DEFINE next == sender.next
             len == Len(Queue)
  <2>3. /\ next \in Nat /\ len \in Nat /\ gone \in Nat
        /\ Oldest = next - len /\ Oldest' = next - (len - gone)
    BY <1>1, <1>5, <1>6, <1>7, <2>1, <2>2
  <2> HIDE DEF next, len
  <2> QED BY <2>3
<1>9. UNCHANGED <<applied, packets, acks, log, discarded, delivered>>
  BY DEF ReceiveAck
<1>10. Delivered' = Delivered
  BY <1>9 DEF Delivered
<1>11. QueueIsLogTail'
  <2>1. ASSUME NEW k \in 1..Len(Queue')
        PROVE  /\ Queue'[k].seq = Oldest' + k - 1
               /\ Queue'[k].event = log'[Oldest' + k - 1]
    <3>1. gone + k \in 1..Len(Queue) /\ Oldest + (gone + k) - 1 = Oldest' + k - 1
      BY <1>1, <1>5, <1>7, <1>8
    <3>2. /\ Queue[gone + k].seq = Oldest' + k - 1
          /\ Queue[gone + k].event = log[Oldest' + k - 1]
      BY <1>1, <3>1
    <3> QED BY <1>7, <1>9, <3>2
  <2>2. sender'.next = Len(log') + 1
    BY <1>6, <1>9 DEF IInv, QueueIsLogTail
  <2>3. Len(Queue') <= Len(log')
    BY <1>1, <1>5, <1>7, <1>9
  <2> QED BY <2>1, <2>2, <2>3 DEF QueueIsLogTail
<1>12. ASSUME NEW m \in Oldest..Oldest + gone - 1 PROVE m \in Delivered
  <2>1. m - Oldest + 1 \in 1..gone /\ Oldest + (m - Oldest + 1) - 1 = m
    BY <1>1, <1>5
  <2>2. m <= n
    BY <1>5, <2>1
  <2>3. m \in 1..applied
    BY <1>1, <1>2, <1>5, <2>2
  <2>4. m \notin discarded
    BY <1>1 DEF IInv, ForgottenIsSettled
  <2> QED BY <2>3, <2>4 DEF IInv, NothingSkipped
<1>13. ForgottenIsSettled'
  <2>1. ASSUME NEW m \in 1..Oldest' - 1 PROVE m \in Delivered \/ m \in discarded
    <3>1. m \in 1..Oldest - 1 \/ m \in Oldest..Oldest + gone - 1
      BY <1>1, <1>5, <1>8
    <3> QED BY <1>12, <3>1 DEF IInv, ForgottenIsSettled, SettledBefore
  <2>2. discarded \subseteq 1..Oldest' - 1
    <3>1. 1..Oldest - 1 \subseteq 1..Oldest' - 1
      BY <1>1, <1>5, <1>8
    <3> QED BY <3>1 DEF IInv, ForgottenIsSettled
  <2> QED BY <1>9, <1>10, <2>1, <2>2 DEF ForgottenIsSettled, SettledBefore
<1>14. ReleasesAt(Oldest)'
  <2>1. CASE gone = 0
    <3>1. Oldest' = Oldest
      BY <1>1, <1>8, <2>1
    <3> QED BY <1>9, <1>10, <3>1 DEF IInv, ReleasesAt
  <2>2. CASE gone > 0
    <3>1. Oldest' - 1 \in Oldest..Oldest + gone - 1
      BY <1>1, <1>5, <1>8, <2>2
    <3> QED BY <1>10, <1>12, <3>1 DEF ReleasesAt
  <2> QED BY <1>5, <2>1, <2>2
<1>15. \A p \in packets' : PacketIsFaithful(p)'
  BY <1>9, <1>10 DEF IInv, PacketIsFaithful, SettledBefore, ReleasesAt
<1>16. TypeOK'
  <2>1. sender'.next \in Nat \ {0} /\ sender'.sentThrough \in 0..sender'.next - 1
    BY <1>6 DEF IInv, TypeOK
  <2> QED BY <1>7, <1>9, <2>1 DEF IInv, TypeOK
<1>17. AcksAreApplied' /\ NothingSkipped'
  BY <1>9, <1>10 DEF IInv, AcksAreApplied, NothingSkipped
<1>18. ReceiverIsSettled' /\ AppliedOnceInOrder' /\ ReleaseAfterGap'
  BY <1>9 DEF IInv, ReceiverIsSettled, LastDelivered, AppliedOnceInOrder, ReleaseAfterGap
<1> QED BY <1>11, <1>13, <1>14, <1>15, <1>16, <1>17, <1>18 DEF IInv

----------------------------------------------------------------------------
(* The receiver.                                                            *)

\* What receive() does to the history: it appends the events of the log from
\* base + 1 to r, where r is what it acknowledges.
LEMMA ReceiveAppends ==
  ASSUME IInv, NEW p \in packets, Receive(p)
  PROVE  LET base == Base(applied, p)
             r == Received(applied, p)
         IN
         /\ applied \in Nat /\ applied <= Len(log) /\ Len(log) \in Nat
         /\ Len(delivered) \in Nat /\ p.base \in Nat \ {0}
         /\ base \in Nat /\ base >= applied
         /\ base = applied \/ base = p.base - 1
         /\ base >= p.base - 1
         /\ r \in Nat /\ r >= base /\ r <= Len(log)
         /\ applied' = r /\ acks' = acks \cup {r}
         /\ UNCHANGED <<sender, packets, log, discarded>>
         /\ delivered' \in Seq(Entry) /\ Len(delivered') = Len(delivered) + (r - base)
         /\ \A i \in 1..Len(delivered) : delivered'[i] = delivered[i]
         /\ \A k \in 1..r - base : /\ delivered'[Len(delivered) + k].seq = base + k
                                 /\ delivered'[Len(delivered) + k].event = log[base + k]
         /\ \A i \in 1..Len(delivered) : delivered[i].seq \in 1..applied
<1> DEFINE base == Base(applied, p)
           r == Received(applied, p)
           more == AppliedEvents(applied, p)
           fresh == Numbered(base + 1, more)
<1>1. /\ p \in Packet /\ Len(p.events) > 0 /\ applied \in Nat
      /\ p.base \in Nat \ {0} /\ p.first \in Nat \ {0} /\ Len(p.events) \in Nat
      /\ Len(log) \in Nat /\ log \in Seq(Event) /\ applied <= Len(log)
      /\ Len(delivered) \in Nat /\ delivered \in Seq(Entry)
  BY LenProperties DEF IInv, TypeOK, PacketIsFaithful, Packet, ReceiverIsSettled
<1>2. /\ p.base <= p.first /\ PacketEnd(p) <= Len(log)
      /\ PacketEnd(p) = p.first + Len(p.events) - 1
      /\ \A k \in 1..Len(p.events) : p.events[k] = log[p.first + k - 1]
      /\ SettledBefore(p.base) /\ ReleasesAt(p.base)
  BY DEF IInv, PacketIsFaithful, PacketEnd
<1>3. /\ base \in Nat /\ base >= applied /\ base >= p.base - 1
      /\ base = applied \/ base = p.base - 1
      /\ r \in Nat /\ more \in Seq(Event) /\ Len(more) = r - base
      /\ r > base => r = PacketEnd(p) /\ p.first <= base + 1
      /\ \A k \in 1..Len(more) : more[k] = p.events[base + k - p.first + 1]
  BY <1>1, ReceivedEvents
<1>4. /\ fresh \in Seq(Entry) /\ Len(fresh) = Len(more)
      /\ \A k \in 1..Len(more) : fresh[k] = [seq |-> base + 1 + k - 1, event |-> more[k]]
  <2>1. base + 1 \in Nat \ {0} /\ more \in Seq(Event)
    BY <1>3
  <2> HIDE DEF base, more
  <2> QED BY <2>1, NumberedEntries
<1>5. /\ applied' = r /\ delivered' = delivered \o fresh /\ acks' = acks \cup {r}
      /\ UNCHANGED <<sender, packets, log, discarded>>
  BY DEF Receive
<1> HIDE DEF base, r, more, fresh
<1>6. r >= base /\ Len(more) \in Nat /\ r <= Len(log)
  <2>1. Len(more) \in Nat
    BY <1>3, LenProperties
  <2>2. base <= Len(log)
    BY <1>1, <1>2, <1>3
  <2> QED BY <1>1, <1>2, <1>3, <2>1, <2>2
<1>7. \A k \in 1..Len(more) :
        fresh[k].seq = base + k /\ fresh[k].event = log[base + k]
  <2> SUFFICES ASSUME NEW k \in 1..Len(more)
      PROVE  fresh[k].seq = base + k /\ fresh[k].event = log[base + k]
    OBVIOUS
  <2> DEFINE j == base + k - p.first + 1
  <2>0. /\ k \in 1..r - base /\ base \in Nat /\ r \in Nat
        /\ r = p.first + Len(p.events) - 1 /\ p.first <= base + 1
    <3>1. k \in 1..r - base /\ base \in Nat /\ r \in Nat
      BY <1>3
    <3>2. r > base
      <4> HIDE DEF j
      <4>1. 1 <= r - base
        BY <3>1
      <4> QED BY <3>1, <4>1
    <3> QED BY <1>2, <1>3, <3>1, <3>2
  <2>1. j \in 1..Len(p.events) /\ p.first + j - 1 = base + k /\ base + 1 + k - 1 = base + k
    <3>1. p.first \in Nat /\ Len(p.events) \in Nat
      BY <1>1
    <3>2. j >= 1 /\ j <= Len(p.events) /\ j \in Int
      <4> DEFINE l == Len(p.events)
                 f == p.first
      <4>1. /\ l \in Nat /\ f \in Nat /\ base \in Nat /\ r \in Nat
            /\ k \in 1..r - base /\ r = f + l - 1 /\ f <= base + 1
            /\ j = base + k - f + 1
        BY <2>0, <3>1
      <4> HIDE DEF l, f, j
      <4>2. j >= 1 /\ j <= l /\ j \in Int
        BY <4>1
      <4> QED BY <4>2 DEF l
    <3>3. p.first + j - 1 = base + k /\ base + 1 + k - 1 = base + k
      <4> DEFINE f == p.first
      <4>1. f \in Nat /\ base \in Nat /\ k \in Nat /\ j = base + k - f + 1
        BY <2>0, <3>1
      <4> HIDE DEF f, j
      <4>2. f + j - 1 = base + k /\ base + 1 + k - 1 = base + k
        BY <4>1
      <4> QED BY <4>2 DEF f
    <3>4. j \in 1..Len(p.events)
      <4> DEFINE l == Len(p.events)
      <4> HIDE DEF l, j
      <4>1. j >= 1 /\ j <= l /\ j \in Int /\ l \in Nat
        BY <3>1, <3>2 DEF l
      <4>2. j \in 1..l
        BY <4>1
      <4> QED BY <4>2 DEF l
    <3> QED BY <3>3, <3>4
  <2>2. more[k] = p.events[j]
    BY <1>3
  <2> HIDE DEF j
  <2>3. p.events[j] = log[base + k]
    BY <1>2, <2>1
  <2>4. fresh[k] = [seq |-> base + k, event |-> log[base + k]]
    BY <1>4, <2>1, <2>2, <2>3
  <2> QED BY <2>4
<1>8. /\ delivered' \in Seq(Entry) /\ Len(delivered') = Len(delivered) + Len(more)
      /\ \A i \in 1..Len(delivered) : delivered'[i] = delivered[i]
      /\ \A k \in 1..Len(more) : /\ delivered'[Len(delivered) + k].seq = base + k
                               /\ delivered'[Len(delivered) + k].event = log[base + k]
  <2>1. delivered \in Seq(Entry) /\ fresh \in Seq(Entry)
    BY <1>1, <1>4
  <2>2. /\ delivered \o fresh \in Seq(Entry)
        /\ Len(delivered \o fresh) = Len(delivered) + Len(fresh)
        /\ \A i \in 1..Len(delivered) : (delivered \o fresh)[i] = delivered[i]
        /\ \A k \in 1..Len(fresh) : (delivered \o fresh)[Len(delivered) + k] = fresh[k]
    BY <2>1, ConcatParts
  <2> QED BY <1>4, <1>5, <1>7, <2>2
<1>9. \A i \in 1..Len(delivered) : delivered[i].seq \in 1..applied
  <2> SUFFICES ASSUME NEW i \in 1..Len(delivered) PROVE delivered[i].seq \in 1..applied
    OBVIOUS
  <2>0. delivered # <<>>
    BY <1>1
  <2>1. delivered[Len(delivered)].seq <= applied
    BY <2>0 DEF IInv, ReceiverIsSettled, LastDelivered
  <2>2. delivered[i].seq \in Nat \ {0} /\ delivered[Len(delivered)].seq \in Nat \ {0}
    <3>1. \A m \in 1..Len(delivered) : delivered[m] \in Entry
      BY <1>1, ElementOfSeq
    <3>2. Len(delivered) \in 1..Len(delivered)
      BY <1>1
    <3> QED BY <3>1, <3>2 DEF Entry
  <2>3. i < Len(delivered) => delivered[i].seq < delivered[Len(delivered)].seq
    BY <1>1 DEF IInv, AppliedOnceInOrder
  <2> QED BY <1>1, <2>1, <2>2, <2>3
<1> QED BY <1>1, <1>3, <1>5, <1>6, <1>8, <1>9 DEF base, r

\* What receive() applies continues what it applied before, or begins with a
\* release-all after events that were given up.
LEMMA ReceivePreserves ==
  ASSUME IInv, NEW p \in packets, Receive(p)
  PROVE  IInv'
<1> DEFINE base == Base(applied, p)
           r == Received(applied, p)
<1>1. /\ applied \in Nat /\ applied <= Len(log) /\ Len(log) \in Nat
      /\ Len(delivered) \in Nat /\ p.base \in Nat \ {0}
      /\ base \in Nat /\ base >= applied
      /\ base = applied \/ base = p.base - 1
      /\ base >= p.base - 1
      /\ r \in Nat /\ r >= base /\ r <= Len(log)
  BY ReceiveAppends
<1>2. SettledBefore(p.base) /\ ReleasesAt(p.base)
  BY DEF IInv, PacketIsFaithful
<1>5. /\ applied' = r /\ acks' = acks \cup {r}
      /\ UNCHANGED <<sender, packets, log, discarded>>
  BY ReceiveAppends
<1>8. /\ delivered' \in Seq(Entry) /\ Len(delivered') = Len(delivered) + (r - base)
      /\ \A i \in 1..Len(delivered) : delivered'[i] = delivered[i]
      /\ \A k \in 1..r - base : /\ delivered'[Len(delivered) + k].seq = base + k
                              /\ delivered'[Len(delivered) + k].event = log[base + k]
  BY ReceiveAppends
<1>9. \A i \in 1..Len(delivered) : delivered[i].seq \in 1..applied
  BY ReceiveAppends
<1> HIDE DEF base, r
<1>10. Delivered' = Delivered \cup (base + 1)..r
  <2>1. ASSUME NEW n \in (base + 1)..r PROVE n \in Delivered'
    <3>1. n - base \in 1..r - base /\ base + (n - base) = n
      BY <1>1
    <3>2. Len(delivered) + (n - base) \in 1..Len(delivered')
      <4> DEFINE l == Len(delivered)
                 m == Len(delivered')
                 k == n - base
      <4>1. l \in Nat /\ m = l + (r - base) /\ base \in Nat /\ r \in Nat /\ k \in 1..r - base
        BY <1>1, <1>8, <3>1
      <4> HIDE DEF l, m, k
      <4>2. l + k \in 1..m
        BY <4>1
      <4> QED BY <4>2 DEF l, m, k
    <3> QED BY <1>8, <3>1, <3>2 DEF Delivered
  <2>2. ASSUME NEW i \in 1..Len(delivered) PROVE delivered[i].seq \in Delivered'
    <3>1. i \in 1..Len(delivered')
      BY <1>1, <1>8
    <3> QED BY <1>8, <3>1 DEF Delivered
  <2>3. ASSUME NEW i \in 1..Len(delivered')
        PROVE  delivered'[i].seq \in Delivered \cup (base + 1)..r
    <3>1. CASE i <= Len(delivered)
      <4>1. i \in 1..Len(delivered)
        BY <1>1, <1>8, <3>1
      <4> QED BY <1>8, <4>1 DEF Delivered
    <3>2. CASE i > Len(delivered)
      <4>1. i - Len(delivered) \in 1..r - base /\ Len(delivered) + (i - Len(delivered)) = i
        BY <1>1, <1>8, <3>2
      <4>2. delivered'[i].seq = base + (i - Len(delivered))
        BY <1>8, <4>1
      <4> QED BY <1>1, <4>1, <4>2
    <3>3. i <= Len(delivered) \/ i > Len(delivered)
      BY <1>1, <1>8
    <3> QED BY <3>1, <3>2, <3>3
  <2> QED BY <2>1, <2>2, <2>3 DEF Delivered
<1>11. NothingSkipped'
  <2> SUFFICES ASSUME NEW n \in 1..r PROVE n \in Delivered' \/ n \in discarded
    BY <1>5 DEF NothingSkipped
  <2>1. CASE n <= applied
    <3>1. n \in 1..applied
      BY <1>1, <2>1
    <3> QED BY <1>10, <3>1 DEF IInv, NothingSkipped
  <2>2. CASE n > applied /\ n <= base
    <3>1. n \in 1..p.base - 1
      BY <1>1, <2>2
    <3> QED BY <1>2, <1>10, <3>1 DEF SettledBefore
  <2>3. CASE n > base
    <3>1. n \in (base + 1)..r
      BY <1>1, <2>3
    <3> QED BY <1>10, <3>1
  <2> QED BY <1>1, <2>1, <2>2, <2>3
<1>12. AppliedOnceInOrder'
  <2>1. ASSUME NEW i \in 1..Len(delivered')
        PROVE  /\ i <= Len(delivered) =>
                    /\ i \in 1..Len(delivered) /\ delivered'[i] = delivered[i]
                    /\ delivered'[i].seq \in 1..applied
               /\ i > Len(delivered) =>
                    /\ i - Len(delivered) \in 1..r - base
                    /\ delivered'[i].seq = base + (i - Len(delivered))
                    /\ delivered'[i].event = log[base + (i - Len(delivered))]
    <3>1. CASE i <= Len(delivered)
      <4>1. i \in 1..Len(delivered)
        BY <1>1, <1>8, <3>1
      <4> QED BY <1>1, <1>8, <1>9, <3>1, <4>1
    <3>2. CASE i > Len(delivered)
      <4> DEFINE k == i - Len(delivered)
      <4>1. k \in 1..r - base /\ i = Len(delivered) + k
        BY <1>1, <1>8, <3>2
      <4> HIDE DEF k
      <4>2. delivered'[i].seq = base + k /\ delivered'[i].event = log[base + k]
        BY <1>8, <4>1
      <4>3. ~(i <= Len(delivered))
        BY <1>1, <3>2
      <4> QED BY <4>1, <4>2, <4>3 DEF k
    <3> QED BY <1>1, <1>8, <3>1, <3>2
  <2>2. ASSUME NEW i \in 1..Len(delivered'), NEW j \in 1..Len(delivered'), i < j
        PROVE  delivered'[i].seq < delivered'[j].seq
    <3>1. CASE j <= Len(delivered)
      <4>1. i <= Len(delivered)
        BY <1>1, <1>8, <2>2, <3>1
      <4> QED BY <2>1, <2>2, <3>1, <4>1 DEF IInv, AppliedOnceInOrder
    <3>2. CASE j > Len(delivered) /\ i <= Len(delivered)
      <4>1. delivered'[i].seq \in 1..applied
        BY <2>1, <3>2
      <4>2. delivered'[j].seq = base + (j - Len(delivered)) /\ j - Len(delivered) >= 1
        BY <1>1, <1>8, <2>1, <3>2
      <4> QED BY <1>1, <4>1, <4>2
    <3>3. CASE j > Len(delivered) /\ i > Len(delivered)
      <4> DEFINE n == Len(delivered)
                 x == delivered'[i].seq
                 y == delivered'[j].seq
      <4>1. n \in Nat /\ base \in Nat /\ i \in Nat /\ j \in Nat /\ i < j
        BY <1>1, <2>2
      <4>2. x = base + (i - n) /\ y = base + (j - n)
        BY <2>1, <3>3
      <4> HIDE DEF n, x, y
      <4>3. x < y
        BY <4>1, <4>2
      <4> QED BY <4>3 DEF x, y
    <3> QED BY <1>1, <1>8, <3>1, <3>2, <3>3
  <2>3. ASSUME NEW i \in 1..Len(delivered')
        PROVE  /\ delivered'[i].seq \in 1..Len(log)
               /\ delivered'[i].event = log[delivered'[i].seq]
    <3>1. CASE i <= Len(delivered)
      BY <2>1, <3>1 DEF IInv, AppliedOnceInOrder
    <3>2. CASE i > Len(delivered)
      <4> DEFINE k == i - Len(delivered)
      <4>1. /\ k \in 1..r - base
            /\ delivered'[i].seq = base + k /\ delivered'[i].event = log[base + k]
        BY <2>1, <3>2
      <4> HIDE DEF k
      <4>2. k \in 1..r - base /\ base \in Nat /\ r \in Nat /\ r <= Len(log)
        BY <1>1, <4>1
      <4>3. base + k \in 1..Len(log)
        BY <1>1, <4>2
      <4> QED BY <4>1, <4>3
    <3> QED BY <1>1, <1>8, <3>1, <3>2
  <2> QED BY <1>5, <2>2, <2>3 DEF AppliedOnceInOrder
<1>13. base \in 1..Len(log) /\ base \notin Delivered =>
         (base < Len(log) /\ log[base + 1] = ReleaseAll) \/ base = applied
  <2> SUFFICES ASSUME base \in 1..Len(log), base \notin Delivered, base # applied
               PROVE  base < Len(log) /\ log[base + 1] = ReleaseAll
    OBVIOUS
  <2>1. p.base = base + 1 /\ p.base > 1 /\ p.base - 1 = base
    BY <1>1
  <2> QED BY <1>1, <1>2, <2>1 DEF ReleasesAt
<1>14. LastDelivered < base => base < Len(log) /\ log[base + 1] = ReleaseAll
  <2> SUFFICES ASSUME LastDelivered < base
               PROVE  base < Len(log) /\ log[base + 1] = ReleaseAll
    OBVIOUS
  <2>1. CASE base = applied
    BY <2>1 DEF IInv, ReceiverIsSettled
  <2>2. CASE base # applied
    <3>1. base \in 1..Len(log) /\ base > applied
      BY <1>1, <2>2
    <3>2. base \notin Delivered
      BY <1>1, <1>9, <3>1 DEF Delivered
    <3> QED BY <1>13, <2>2, <3>1, <3>2
  <2> QED BY <2>1, <2>2
<1>15. ReleaseAfterGap'
  <2> SUFFICES ASSUME NEW i \in 1..Len(delivered'),
                      NEW before, before = IF i = 1 THEN 0 ELSE delivered'[i - 1].seq,
                      delivered'[i].seq > before + 1
               PROVE  delivered'[i].event = ReleaseAll
    BY DEF ReleaseAfterGap
  <2>1. CASE i <= Len(delivered)
    <3>1. i \in 1..Len(delivered) /\ (i # 1 => i - 1 \in 1..Len(delivered))
      BY <1>1, <1>8, <2>1
    <3>2. delivered'[i] = delivered[i] /\ (i # 1 => delivered'[i - 1] = delivered[i - 1])
      BY <1>8, <3>1
    <3>3. delivered[i].seq > (IF i = 1 THEN 0 ELSE delivered[i - 1].seq) + 1
      BY <3>2
    <3> QED BY <3>1, <3>2, <3>3 DEF IInv, ReleaseAfterGap
  <2>2. CASE i = Len(delivered) + 1
    <3>1. before = LastDelivered
      <4>1. CASE i = 1
        <5>1. delivered = <<>>
          BY <1>1, <2>2, <4>1
        <5> QED BY <4>1, <5>1 DEF LastDelivered
      <4>2. CASE i # 1
        <5>1. i - 1 = Len(delivered) /\ Len(delivered) \in 1..Len(delivered)
          BY <1>1, <1>8, <2>2, <4>2
        <5>2. delivered'[i - 1] = delivered[Len(delivered)] /\ delivered # <<>>
          BY <1>8, <5>1
        <5> QED BY <4>2, <5>2 DEF LastDelivered
      <4> QED BY <4>1, <4>2
    <3>2. 1 \in 1..r - base
      BY <1>1, <1>8, <2>2
    <3>3. delivered'[i].seq = base + 1 /\ delivered'[i].event = log[base + 1]
      BY <1>8, <2>2, <3>2
    <3>4. LastDelivered \in Nat
      BY <1>1, <1>9 DEF LastDelivered
    <3>5. LastDelivered < base
      BY <1>1, <3>1, <3>3, <3>4
    <3> QED BY <1>14, <3>3, <3>5
  <2>3. CASE i > Len(delivered) + 1
    <3> DEFINE k == i - Len(delivered)
    <3>1. /\ k \in 1..r - base /\ k - 1 \in 1..r - base /\ i # 1
          /\ i = Len(delivered) + k /\ i - 1 = Len(delivered) + (k - 1)
      <4> DEFINE n == Len(delivered)
                 m == r - base
      <4>1. /\ n \in Nat /\ m \in Nat /\ i \in 1..n + m /\ i > n + 1 /\ k = i - n
        BY <1>1, <1>8, <2>3
      <4> HIDE DEF n, m, k
      <4>2. /\ k \in 1..m /\ k - 1 \in 1..m /\ i # 1
            /\ i = n + k /\ i - 1 = n + (k - 1)
        BY <4>1
      <4> QED BY <4>2 DEF n, m
    <3> HIDE DEF k
    <3>2. delivered'[i].seq = base + k /\ delivered'[i - 1].seq = base + (k - 1)
      BY <1>8, <3>1
    <3> QED BY <1>1, <3>1, <3>2
  <2> QED BY <1>1, <1>8, <2>1, <2>2, <2>3
<1>16. ReceiverIsSettled'
  <2>1. CASE r = base
    <3>1. r - base = 0
      BY <1>1, <2>1
    <3>2. LastDelivered' = LastDelivered
      <4>1. Len(delivered') = Len(delivered)
        BY <1>1, <1>8, <3>1
      <4>2. CASE delivered = <<>>
        <5>1. delivered' = <<>>
          BY <1>8, <4>1, <4>2
        <5> QED BY <4>2, <5>1 DEF LastDelivered
      <4>3. CASE delivered # <<>>
        <5>1. Len(delivered) \in 1..Len(delivered) /\ delivered' # <<>>
          BY <1>1, <1>8, <4>1, <4>3
        <5> QED BY <1>8, <4>1, <4>3, <5>1 DEF LastDelivered
      <4> QED BY <4>2, <4>3
    <3>3. LastDelivered \in Nat /\ LastDelivered <= applied
      BY <1>1, <1>9 DEF IInv, ReceiverIsSettled, LastDelivered
    <3> QED BY <1>1, <1>5, <1>14, <2>1, <3>2, <3>3 DEF ReceiverIsSettled
  <2>2. CASE r > base
    <3>1. /\ r - base \in 1..r - base /\ Len(delivered') = Len(delivered) + r - base
          /\ base + r - base = r /\ delivered' # <<>>
      <4>1. r \in Nat /\ base \in Nat /\ Len(delivered) \in Nat
            /\ Len(delivered') = Len(delivered) + (r - base)
        BY <1>1, <1>8
      <4> DEFINE len == Len(delivered)
                 len2 == Len(delivered')
      <4>2. len \in Nat /\ len2 = len + (r - base)
        BY <4>1
      <4> HIDE DEF len, len2
      <4>3. r - base \in 1..r - base /\ len2 = len + r - base /\ base + r - base = r /\ len2 > 0
        BY <2>2, <4>1, <4>2
      <4>4. delivered' # <<>>
        BY <4>3 DEF len2
      <4> QED BY <4>3, <4>4 DEF len, len2
    <3>2. LastDelivered' = r
      BY <1>8, <3>1 DEF LastDelivered
    <3> QED BY <1>1, <1>5, <1>1, <3>2 DEF ReceiverIsSettled
  <2> QED BY <1>1, <2>1, <2>2
<1>17. TypeOK'
  BY <1>1, <1>5, <1>8 DEF IInv, TypeOK, Queue
<1>18. Oldest' = Oldest /\ Queue' = Queue
  BY <1>5 DEF Oldest, Queue
<1>19. QueueIsLogTail'
  BY <1>5, <1>18 DEF IInv, QueueIsLogTail
<1>22. ForgottenIsSettled' /\ ReleasesAt(Oldest)'
  <2>1. SettledBefore(Oldest)' /\ ReleasesAt(Oldest)'
    BY <1>5, <1>10, <1>18 DEF IInv, ForgottenIsSettled, SettledBefore, ReleasesAt
  <2> QED BY <1>5, <1>18, <2>1 DEF IInv, ForgottenIsSettled
<1>23. \A q \in packets' : PacketIsFaithful(q)'
  <2> SUFFICES ASSUME NEW q \in packets PROVE PacketIsFaithful(q)'
    BY <1>5
  <2>1. PacketIsFaithful(q)
    BY DEF IInv
  <2>2. SettledBefore(q.base)' /\ ReleasesAt(q.base)'
    BY <1>5, <1>10, <2>1 DEF PacketIsFaithful, SettledBefore, ReleasesAt
  <2> QED BY <1>5, <2>1, <2>2 DEF PacketIsFaithful
<1>24. AcksAreApplied'
  <2>1. \A n \in acks : n \in Nat /\ n <= applied
    BY DEF IInv, TypeOK, AcksAreApplied
  <2> QED BY <1>1, <1>5, <1>1, <2>1 DEF AcksAreApplied
<1> QED BY <1>11, <1>12, <1>15, <1>16, <1>17, <1>19, <1>22, <1>23, <1>24 DEF IInv

----------------------------------------------------------------------------
(* The theorems.                                                            *)

LEMMA InitInv == Init => IInv
<1> SUFFICES ASSUME Init PROVE IInv
  OBVIOUS
<1>1. /\ Queue = <<>> /\ sender.next = 1 /\ sender.sentThrough = 0
      /\ log = <<>> /\ delivered = <<>> /\ packets = {} /\ acks = {}
      /\ applied = 0 /\ discarded = {}
  BY DEF Init, NewSender, Queue
<1>2. Oldest = 1 /\ Delivered = {} /\ LastDelivered = 0
  BY <1>1 DEF Oldest, Delivered, LastDelivered
<1>3. TypeOK
  BY <1>1 DEF TypeOK
<1>4. QueueIsLogTail
  BY <1>1 DEF QueueIsLogTail
<1>7. ForgottenIsSettled /\ ReleasesAt(Oldest)
  BY <1>1, <1>2 DEF ForgottenIsSettled, SettledBefore, ReleasesAt
<1>5. AcksAreApplied /\ ReceiverIsSettled /\ NothingSkipped
  BY <1>1, <1>2 DEF AcksAreApplied, ReceiverIsSettled, NothingSkipped
<1>6. AppliedOnceInOrder /\ ReleaseAfterGap
  BY <1>1 DEF AppliedOnceInOrder, ReleaseAfterGap
<1> QED BY <1>1, <1>3, <1>4, <1>5, <1>6, <1>7 DEF IInv

LEMMA NextInv == IInv /\ [Next]_vars => IInv'
<1> SUFFICES ASSUME IInv, [Next]_vars PROVE IInv'
  OBVIOUS
<1>1. ASSUME NEW events \in Pushes, PushEvents(events) PROVE IInv'
  BY <1>1, PushPreserves
<1>2. CASE DiscardQueue
  BY <1>2, DiscardPreserves
<1>3. CASE SendNew
  <2>1. /\ sender' = Sent(sender, sender.sentThrough + 1)
        /\ packets' = packets \cup WindowPackets(Queue, sender.sentThrough + 1)
        /\ UNCHANGED <<applied, acks, log, discarded, delivered>>
    BY <1>3 DEF SendNew, AfterSendNew, NewPackets, Queue
  <2> QED BY <2>1, SendPreserves
<1>4. CASE Retransmit
  <2>1. /\ sender' = Sent(sender, Queue[1].seq)
        /\ packets' = packets \cup WindowPackets(Queue, Queue[1].seq)
        /\ UNCHANGED <<applied, acks, log, discarded, delivered>>
    BY <1>4 DEF Retransmit, AfterRetransmit, RetransmitPackets, Queue
  <2> QED BY <2>1, SendPreserves
<1>5. ASSUME NEW p \in packets, Receive(p) PROVE IInv'
  BY <1>5, ReceivePreserves
<1>6. ASSUME NEW n \in acks, ReceiveAck(n) PROVE IInv'
  BY <1>6, AckPreserves
<1>7. CASE UNCHANGED vars
  <2>1. UNCHANGED <<sender, applied, packets, acks, log, discarded, delivered>>
    BY <1>7 DEF vars
  <2>2. Queue' = Queue /\ Oldest' = Oldest /\ Delivered' = Delivered
    BY <2>1 DEF Queue, Oldest, Delivered
  <2>3. TypeOK' /\ QueueIsLogTail' /\ AcksAreApplied'
    BY <2>1, <2>2 DEF IInv, TypeOK, QueueIsLogTail, AcksAreApplied
  <2>4. ForgottenIsSettled' /\ ReleasesAt(Oldest)' /\ NothingSkipped'
    BY <2>1, <2>2 DEF IInv, ForgottenIsSettled, SettledBefore, ReleasesAt, NothingSkipped
  <2>5. \A p \in packets' : PacketIsFaithful(p)'
    BY <2>1, <2>2 DEF IInv, PacketIsFaithful, SettledBefore, ReleasesAt
  <2>6. ReceiverIsSettled' /\ AppliedOnceInOrder' /\ ReleaseAfterGap'
    BY <2>1 DEF IInv, ReceiverIsSettled, LastDelivered, AppliedOnceInOrder, ReleaseAfterGap
  <2> QED BY <2>3, <2>4, <2>5, <2>6 DEF IInv
<1> QED BY <1>1, <1>2, <1>3, <1>4, <1>5, <1>6, <1>7 DEF Next

LEMMA InvariantHolds == Spec => []IInv
  BY InitInv, NextInv, PTL DEF Spec

\* The state of both ends, of the network and of the history is well typed.
THEOREM StreamTypeOK == Spec => []TypeOK
<1>1. IInv => TypeOK
  BY DEF IInv
<1> QED BY <1>1, InvariantHolds, PTL

\* Every event is applied at most once, in the order it was pushed and as it
\* was pushed (EventReceiver::receive).
THEOREM StreamAppliesOnceInOrder == Spec => []AppliedOnceInOrder
<1>1. IInv => AppliedOnceInOrder
  BY DEF IInv
<1> QED BY <1>1, InvariantHolds, PTL

\* The receiver never moves past an event that was neither applied nor given
\* up, though it takes the base of every packet on trust.
THEOREM StreamSkipsNothing == Spec => []NothingSkipped
<1>1. IInv => NothingSkipped
  BY DEF IInv
<1> QED BY <1>1, InvariantHolds, PTL

\* Wherever events are missing from what was applied, a release-all follows.
THEOREM StreamReleasesAfterGap == Spec => []ReleaseAfterGap
<1>1. IInv => ReleaseAfterGap
  BY DEF IInv
<1> QED BY <1>1, InvariantHolds, PTL

\* The sender forgets an event only when it is settled.
THEOREM StreamForgetsSettled == Spec => []ForgottenOnlyWhenSettled
<1>1. IInv => ForgottenOnlyWhenSettled
  <2> SUFFICES ASSUME IInv, NEW n \in 1..Len(log), n \notin Sequences(Queue)
               PROVE  n \in Delivered \/ n \in discarded
    BY DEF ForgottenOnlyWhenSettled
  <2>1. /\ Len(log) \in Nat /\ Oldest \in 1..Len(log) + 1
        /\ Sequences(Queue) = Oldest..Len(log)
    BY QueuedSequences DEF IInv
  <2>2. n \in 1..Oldest - 1
    BY <2>1
  <2> QED BY <2>2 DEF IInv, ForgottenIsSettled, SettledBefore
<1> QED BY <1>1, InvariantHolds, PTL

----------------------------------------------------------------------------
(* What is counted.                                                         *)

\* A piece of the log.
LEMMA LogPiece ==
  ASSUME NEW t \in Seq(Event), NEW a \in Nat \ {0}, NEW b \in Nat, a <= b, b <= Len(t)
  PROVE  /\ SubSeq(t, a, b) \in Seq(Event) /\ Len(SubSeq(t, a, b)) = b - a + 1
         /\ \A k \in 1..b - a + 1 : SubSeq(t, a, b)[k] = t[a + k - 1]
<1>1. Len(t) \in Nat
  BY LenProperties
<1>2. \A k \in a..b : t[k] \in Event
  BY <1>1, ElementOfSeq
<1> QED BY <1>2, SubSeqProperties

\* A queue of one event takes the bytes of that event.
LEMMA BytesOfOne ==
  ASSUME NEW e \in Event, NEW n \in Nat \ {0}
  PROVE  LET queue == <<[seq |-> n, event |-> e]>>
         IN  QueueLength(queue)[Len(queue)] = Size[e]
<1> DEFINE queue == <<[seq |-> n, event |-> e]>>
           x == QueuedEvents(queue)
<1>1. queue \in Seq(Entry) /\ Len(queue) = 1 /\ queue[1].event = e
  BY DEF Entry
<1> HIDE DEF queue
<1>2. x \in Seq(Event) /\ Len(x) = 1 /\ x[1] = e
  BY <1>1, QueuedType
<1>3. EncodedLength(x)[0] = 0 /\ EncodedLength(x)[1] = EncodedLength(x)[1 - 1] + Size[x[1]]
  <2> HIDE DEF x
  <2> QED BY <1>2, EncodedSums
<1>4. Size[e] \in Nat
  BY EventAssumption
<1>5. QueueLength(queue)[Len(queue)] = EncodedLength(x)[1]
  BY <1>1 DEF QueueLength
<1> HIDE DEF x
<1>6. EncodedLength(x)[1] = Size[e]
  BY <1>2, <1>3, <1>4
<1> QED BY <1>5, <1>6 DEF queue

\* A discard starts the count anew.
LEMMA DiscardCounts ==
  ASSUME NEW s, s.next \in Nat \ {0}, sender' = Discard(s)
  PROVE  ByteCountExact'
<1>1. /\ sender'.queue = <<[seq |-> s.next, event |-> ReleaseAll]>>
      /\ sender'.bytes = Size[ReleaseAll]
  BY DEF Discard
<1>2. QueueLength(sender'.queue)[Len(sender'.queue)] = Size[ReleaseAll]
  BY <1>1, EventAssumption, BytesOfOne
<1>3. Size[ReleaseAll] <= MaxQueuedBytes
  BY BoundAssumption
<1> QED BY <1>1, <1>2, <1>3 DEF ByteCountExact, Queue

\* Pushing adds what the events take, which fits.
LEMMA EnqueueCounts ==
  ASSUME IInv, ByteCountExact, NEW events \in Seq(Event),
         ~Overflows(sender, events), sender' = Enqueue(sender, events)
  PROVE  ByteCountExact'
<1> DEFINE more == Numbered(sender.next, events)
           q == sender.queue
           m == Len(events)
           n == Len(q)
           all == q \o more
           x == QueuedEvents(q)
           y == QueuedEvents(all)
           bytes == sender.bytes
           added == EncodedLength(events)[m]
<1>1. sender'.queue = all /\ sender'.bytes = bytes + added
  BY DEF Enqueue
<1>2. q \in Seq(Entry) /\ sender.next \in Nat \ {0} /\ m \in Nat /\ n \in Nat
  BY LenProperties DEF IInv, TypeOK, Queue
<1>3. /\ more \in Seq(Entry) /\ Len(more) = m
      /\ \A k \in 1..m : more[k] = [seq |-> sender.next + k - 1, event |-> events[k]]
  BY <1>2, NumberedEntries
<1>4. bytes = EncodedLength(x)[n] /\ bytes <= MaxQueuedBytes
  BY DEF ByteCountExact, QueueLength, Queue
<1> HIDE DEF more, q
<1>5. /\ all \in Seq(Entry) /\ Len(all) = n + m
      /\ \A k \in 1..n : all[k] = q[k]
      /\ \A k \in 1..m : all[n + k] = more[k]
  <2>1. q \in Seq(Entry) /\ more \in Seq(Entry)
    BY <1>2, <1>3
  <2>2. /\ q \o more \in Seq(Entry) /\ Len(q \o more) = Len(q) + Len(more)
        /\ \A k \in 1..Len(q) : (q \o more)[k] = q[k]
        /\ \A k \in 1..Len(more) : (q \o more)[Len(q) + k] = more[k]
    BY <2>1, ConcatParts
  <2> QED BY <1>3, <2>2
<1> HIDE DEF all
<1>6. /\ x \in Seq(Event) /\ Len(x) = n /\ \A k \in 1..n : x[k] = q[k].event
      /\ y \in Seq(Event) /\ Len(y) = n + m /\ \A k \in 1..n + m : y[k] = all[k].event
  BY <1>2, <1>5, QueuedType
<1>7. \A k \in 1..n : x[k] = y[k]
  <2>1. \A k \in 1..n : k \in 1..n + m
    BY <1>2
  <2> QED BY <1>5, <1>6, <2>1
<1>8. \A k \in 1..m : events[k] = y[n + k]
  <2> SUFFICES ASSUME NEW k \in 1..m PROVE events[k] = y[n + k]
    OBVIOUS
  <2> DEFINE j == n + k
  <2>1. j \in 1..n + m /\ all[j] = more[k]
    BY <1>2, <1>5
  <2>2. more[k].event = events[k]
    <3>1. more[k] = [seq |-> sender.next + k - 1, event |-> events[k]]
      BY <1>3
    <3> QED BY <3>1
  <2> HIDE DEF j
  <2>3. y[j] = all[j].event
    BY <1>6, <2>1
  <2> QED BY <2>1, <2>2, <2>3 DEF j
<1> HIDE DEF x, y
<1>9. EncodedLength(x)[n] = EncodedLength(y)[n]
  <2>1. n <= Len(x) /\ n <= Len(y)
    BY <1>2, <1>6
  <2> HIDE DEF n, m
  <2> QED BY <1>2, <1>6, <1>7, <2>1, SameBytes
<1>10. added = EncodedLength(y)[n + m] - EncodedLength(y)[n]
  <2>1. m \in 0..Len(events) /\ n + m <= Len(y) /\ m \in 0..m
    BY <1>2, <1>6
  <2> HIDE DEF m, n
  <2>2. \A k \in 0..m : EncodedLength(events)[k] = EncodedLength(y)[n + k] - EncodedLength(y)[n]
    BY <1>2, <1>6, <1>8, <2>1, EqualPieces
  <2> QED BY <2>1, <2>2
<1>11. EncodedLength(y)[n + m] \in Nat /\ EncodedLength(y)[n] \in Nat
  <2>1. n + m \in 0..n + m /\ n \in 0..n + m
    BY <1>2
  <2> QED BY <1>6, <2>1, EncodedSums
<1>12. bytes + added = EncodedLength(y)[n + m]
  <2> HIDE DEF bytes, added, m, n
  <2> QED BY <1>4, <1>9, <1>10, <1>11
<1>13. bytes + added <= MaxQueuedBytes
  <2>1. CASE m = 0
    <3>1. added = 0
      BY <2>1, EncodedSums
    <3>2. bytes \in Nat
      BY <1>4, <1>9, <1>11
    <3> HIDE DEF added, bytes
    <3> QED BY <1>4, <3>1, <3>2
  <2>2. CASE m # 0
    <3>1. Fitting(sender, events) \in 0..m /\ ~(Fitting(sender, events) < m)
      BY FittingType DEF Overflows
    <3>2. m \in 1..Fitting(sender, events)
      BY <1>2, <2>2, <3>1
    <3>3. Fits(sender, events, m)
      BY <3>2, FittingType
    <3> QED BY <3>3 DEF Fits
  <2> QED BY <2>1, <2>2
<1>14. Queue' = all /\ QueueLength(all)[Len(all)] = EncodedLength(y)[n + m]
  BY <1>1, <1>5 DEF Queue, QueueLength, y
<1> QED BY <1>1, <1>12, <1>13, <1>14 DEF ByteCountExact

\* An acknowledgement gives back what the events it covers take.
LEMMA AckCounts ==
  ASSUME IInv, ByteCountExact, NEW a \in acks, sender' = Acknowledge(sender, a)
  PROVE  ByteCountExact'
<1> DEFINE q == sender.queue
           n == Len(q)
           gone == Acknowledged(q, a)
           rest == SubSeq(q, gone + 1, n)
           x == QueuedEvents(rest)
           y == QueuedEvents(q)
           bytes == sender.bytes
           given == EncodedLength(y)[gone]
<1>1. sender'.queue = rest /\ sender'.bytes = bytes - given
  BY DEF Acknowledge, QueueLength
<1>2. q \in Seq(Entry) /\ n \in Nat
  BY LenProperties DEF IInv, TypeOK, Queue
<1>3. gone \in 0..n
  <2>1. a \in Nat
    BY DEF IInv, TypeOK
  <2>2. Oldest \in Nat \ {0} /\ \A k \in 1..n : q[k].seq = Oldest + k - 1
    <3>1. Oldest \in 1..Len(log) + 1 /\ Len(log) \in Nat
      BY QueuedSequences DEF IInv
    <3> QED BY <3>1 DEF IInv, QueueIsLogTail, Queue
  <2> QED BY <1>2, <2>1, <2>2, AcknowledgedCount
<1>4. bytes = EncodedLength(y)[n] /\ bytes <= MaxQueuedBytes
  BY DEF ByteCountExact, QueueLength, Queue
<1> HIDE DEF q, gone
<1>5. /\ rest \in Seq(Entry) /\ Len(rest) = n - gone
      /\ \A k \in 1..Len(rest) : rest[k] = q[gone + k]
  BY <1>2, <1>3, RestOfSeq
<1> HIDE DEF rest
<1> DEFINE c == n - gone
<1>6. c \in Nat /\ gone \in Nat /\ gone + c = n /\ \A k \in 1..c : gone + k \in 1..n
  BY <1>2, <1>3
<1>7. /\ x \in Seq(Event) /\ Len(x) = c /\ \A k \in 1..c : x[k] = rest[k].event
      /\ y \in Seq(Event) /\ Len(y) = n /\ \A k \in 1..n : y[k] = q[k].event
  BY <1>2, <1>5, QueuedType
<1>8. \A k \in 1..c : x[k] = y[gone + k]
  BY <1>5, <1>6, <1>7
<1>9. bytes \in Nat /\ given \in Nat
  <2>1. n \in 0..n
    BY <1>2
  <2> HIDE DEF y
  <2> QED BY <1>3, <1>4, <1>7, <2>1, EncodedSums
<1> HIDE DEF x, y, c, n
<1>10. EncodedLength(x)[c] = EncodedLength(y)[gone + c] - EncodedLength(y)[gone]
  <2>1. c \in 0..c /\ c \in 0..Len(x) /\ gone + c <= Len(y)
    BY <1>2, <1>6, <1>7
  <2> QED BY <1>6, <1>7, <1>8, <2>1, EqualPieces
<1>11. EncodedLength(x)[c] = bytes - given
  BY <1>4, <1>6, <1>10
<1>12. Queue' = rest /\ QueueLength(rest)[Len(rest)] = EncodedLength(x)[c]
  BY <1>1, <1>5 DEF Queue, QueueLength, x, c
<1>13. MaxQueuedBytes \in Nat
  BY BoundAssumption
<1> HIDE DEF bytes, given
<1>14. bytes - given <= MaxQueuedBytes
  BY <1>4, <1>9, <1>13
<1> QED BY <1>1, <1>11, <1>12, <1>14 DEF ByteCountExact

\* What a push or a discard appends to the log leaves packets in flight alone.
LEMMA AppendKeepsPackets ==
  ASSUME IInv, PacketsFit, log' \in Seq(Event), Len(log') >= Len(log),
         \A n \in 1..Len(log) : log'[n] = log[n], packets' = packets
  PROVE  PacketsFit'
<1> SUFFICES ASSUME NEW p \in packets
             PROVE  /\ Len(p.events) > 0
                    /\ EncodedLength(p.events)[Len(p.events)] <= MaxPayload
                    /\ p.first > p.base =>
                         EncodedLength(SubSeq(log', p.base, PacketEnd(p)))[PacketEnd(p) - p.base + 1]
                           <= WindowBytes
  BY DEF PacketsFit
<1> DEFINE b == PacketEnd(p)
           c == b - p.base + 1
           x == SubSeq(log', p.base, b)
           y == SubSeq(log, p.base, b)
<1>1. /\ p \in Packet /\ PacketIsFaithful(p) /\ log \in Seq(Event)
      /\ Len(log) \in Nat /\ Len(log') \in Nat
  BY LenProperties DEF IInv, TypeOK
<1>2. /\ Len(p.events) \in Nat \ {0} /\ p.base \in Nat \ {0} /\ p.first \in Nat \ {0}
      /\ p.base <= p.first /\ b <= Len(log) /\ b = p.first + Len(p.events) - 1
  BY <1>1, LenProperties DEF Packet, PacketIsFaithful, PacketEnd
<1>3. /\ Len(p.events) > 0
      /\ EncodedLength(p.events)[Len(p.events)] <= MaxPayload
      /\ p.first > p.base => EncodedLength(y)[c] <= WindowBytes
  BY DEF PacketsFit
<1>4. b \in Nat /\ p.base <= b /\ b <= Len(log') /\ c \in Nat
  <2> DEFINE f == p.first
             a == p.base
             n == Len(p.events)
             l == Len(log)
             m == Len(log')
  <2>1. /\ f \in Nat /\ a \in Nat /\ n \in Nat \ {0} /\ l \in Nat /\ m \in Nat
        /\ a <= f /\ b = f + n - 1 /\ b <= l /\ l <= m /\ c = b - a + 1
    BY <1>1, <1>2
  <2> HIDE DEF f, a, n, l, m, b, c
  <2>2. b \in Nat /\ a <= b /\ b <= m /\ c \in Nat
    BY <2>1
  <2> QED BY <2>2 DEF a, m
<1> HIDE DEF b
<1>5. /\ x \in Seq(Event) /\ Len(x) = c /\ \A k \in 1..c : x[k] = log'[p.base + k - 1]
      /\ y \in Seq(Event) /\ Len(y) = c /\ \A k \in 1..c : y[k] = log[p.base + k - 1]
  <2> DEFINE a == p.base
  <2>1. /\ a \in Nat \ {0} /\ a <= b /\ b <= Len(log) /\ b <= Len(log') /\ b \in Nat
        /\ log \in Seq(Event) /\ log' \in Seq(Event)
    BY <1>1, <1>2, <1>4
  <2> HIDE DEF a
  <2>2. /\ SubSeq(log, a, b) \in Seq(Event) /\ Len(SubSeq(log, a, b)) = b - a + 1
        /\ \A k \in 1..b - a + 1 : SubSeq(log, a, b)[k] = log[a + k - 1]
    BY <2>1, LogPiece
  <2>3. /\ SubSeq(log', a, b) \in Seq(Event) /\ Len(SubSeq(log', a, b)) = b - a + 1
        /\ \A k \in 1..b - a + 1 : SubSeq(log', a, b)[k] = log'[a + k - 1]
    <3> DEFINE t == log'
    <3>1. t \in Seq(Event) /\ b <= Len(t)
      BY <2>1
    <3> HIDE DEF t
    <3>2. /\ SubSeq(t, a, b) \in Seq(Event) /\ Len(SubSeq(t, a, b)) = b - a + 1
          /\ \A k \in 1..b - a + 1 : SubSeq(t, a, b)[k] = t[a + k - 1]
      BY <2>1, <3>1, LogPiece
    <3> QED BY <3>2 DEF t
  <2> QED BY <2>2, <2>3 DEF a
<1>6. \A k \in 1..c : p.base + k - 1 \in 1..Len(log)
  BY <1>1, <1>2, <1>4
<1>7. \A k \in 1..c : x[k] = y[k]
  BY <1>5, <1>6
<1> HIDE DEF x, y, c
<1>8. EncodedLength(x)[c] = EncodedLength(y)[c]
  <2>1. c <= Len(x) /\ c <= Len(y)
    <3>1. c \in Nat
      BY <1>4 DEF c
    <3> QED BY <1>5, <3>1
  <2> QED BY <1>4, <1>5, <1>7, <2>1, SameBytes
<1> QED BY <1>3, <1>8 DEF x, b, c

\* What is sent fits.
LEMMA SentFits ==
  ASSUME IInv, PacketsFit, NEW from,
         packets' = packets \cup WindowPackets(Queue, from), log' = log
  PROVE  PacketsFit'
<1>1. /\ Queue \in Seq(Entry) /\ log \in Seq(Event) /\ Len(Queue) \in Nat /\ Len(log) \in Nat
      /\ Oldest \in Nat \ {0} /\ Oldest + Len(Queue) = Len(log) + 1
      /\ \A k \in 1..Len(Queue) : /\ Queue[k].seq = Oldest + k - 1
                                  /\ Queue[k].event = log[Oldest + k - 1]
  <2>1. /\ Len(Queue) \in Nat /\ Len(log) \in Nat /\ Oldest \in 1..Len(log) + 1
    BY QueuedSequences DEF IInv
  <2>2. Oldest = Len(log) + 1 - Len(Queue)
    BY DEF IInv, QueueIsLogTail, Oldest
  <2>3. Queue \in Seq(Entry) /\ log \in Seq(Event)
    BY DEF IInv, TypeOK
  <2>4. \A k \in 1..Len(Queue) : Queue[k].seq = Oldest + k - 1 /\ Queue[k].event = log[Oldest + k - 1]
    BY DEF IInv, QueueIsLogTail
  <2>5. Oldest \in Nat \ {0} /\ Oldest + Len(Queue) = Len(log) + 1
    BY <2>1, <2>2
  <2> QED BY <2>1, <2>3, <2>4, <2>5
<1>2. ASSUME NEW p \in WindowPackets(Queue, from)
      PROVE  /\ Len(p.events) > 0
             /\ EncodedLength(p.events)[Len(p.events)] <= MaxPayload
             /\ p.first > p.base =>
                  EncodedLength(SubSeq(log, p.base, PacketEnd(p)))[PacketEnd(p) - p.base + 1]
                    <= WindowBytes
  <2> DEFINE q == Queue
             n == Len(q)
             o == Oldest
  <2>1. PICK a, d \in 1..n :
           /\ a <= d
           /\ p.base = q[1].seq /\ p.first = q[a].seq
           /\ p.events \in Seq(Event) /\ Len(p.events) = d - a + 1
           /\ EncodedLength(p.events)[Len(p.events)] <= MaxPayload
           /\ a # 1 => QueueLength(q)[d] <= WindowBytes
    BY <1>1, PacketSize
  <2> DEFINE x == SubSeq(log, p.base, PacketEnd(p))
             y == QueuedEvents(q)
  <2>2. /\ n \in Nat /\ o \in Nat \ {0} /\ o + n = Len(log) + 1 /\ q \in Seq(Entry)
        /\ \A k \in 1..n : q[k].seq = o + k - 1 /\ q[k].event = log[o + k - 1]
    BY <1>1
  <2> HIDE DEF q, n, o
  <2>3. p.base = o /\ p.first = o + a - 1
    <3>1. 1 \in 1..n
      BY <2>2
    <3>2. q[1].seq = o + 1 - 1 /\ q[a].seq = o + a - 1
      BY <2>2, <3>1
    <3> QED BY <2>1, <2>2, <3>2
  <2>4. PacketEnd(p) = o + d - 1
    BY <2>1, <2>2, <2>3 DEF PacketEnd
  <2>5. d \in Nat \ {0} /\ o + d - 1 \in Nat /\ o <= o + d - 1 /\ o + d - 1 <= Len(log)
        /\ (o + d - 1) - o + 1 = d
    BY <1>1, <2>1, <2>2
  <2>6. /\ x \in Seq(Event) /\ Len(x) = d /\ \A k \in 1..d : x[k] = log[o + k - 1]
    BY <1>1, <2>2, <2>3, <2>4, <2>5, LogPiece
  <2>7. /\ y \in Seq(Event) /\ Len(y) = n /\ \A k \in 1..n : y[k] = q[k].event
    BY <2>2, QueuedType DEF n
  <2>8. d <= n /\ \A k \in 1..d : k \in 1..n
    BY <2>1, <2>2
  <2>9. \A k \in 1..d : x[k] = y[k]
    BY <2>2, <2>6, <2>7, <2>8
  <2> HIDE DEF x, y
  <2>10. EncodedLength(x)[d] = EncodedLength(y)[d]
    <3>1. d \in Nat /\ d <= Len(x) /\ d <= Len(y)
      BY <2>5, <2>6, <2>7, <2>8
    <3> QED BY <2>6, <2>7, <2>9, <3>1, SameBytes
  <2>11. p.first > p.base => a # 1
    BY <2>1, <2>2, <2>3
  <2>12. p.first > p.base => EncodedLength(x)[d] <= WindowBytes
    BY <2>1, <2>10, <2>11 DEF QueueLength, y
  <2>13. PacketEnd(p) - p.base + 1 = d
    BY <2>3, <2>4, <2>5
  <2>14. Len(p.events) > 0
    BY <2>1
  <2> QED BY <2>1, <2>12, <2>13, <2>14 DEF x
<1> QED BY <1>2 DEF PacketsFit

\* Every step keeps the accounts.
LEMMA StepCounts == IInv /\ AccountsExact /\ [Next]_vars => AccountsExact'
<1> SUFFICES ASSUME IInv, AccountsExact, [Next]_vars
             PROVE  ByteCountExact' /\ PacketsFit'
  BY DEF AccountsExact
<1>0. /\ ByteCountExact /\ PacketsFit /\ IInv' /\ log \in Seq(Event) /\ Len(log) \in Nat
      /\ Queue = sender.queue
  BY NextInv, LenProperties DEF AccountsExact, IInv, TypeOK, Queue
<1>1. ASSUME NEW events \in Pushes, PushEvents(events)
      PROVE  ByteCountExact' /\ PacketsFit'
  <2>1. events \in Seq(Event) /\ packets' = packets
    BY <1>1, PushesAssumption DEF PushEvents
  <2>2. CASE Overflows(sender, events)
    <3> DEFINE n == Fitting(sender, events)
               some == SubSeq(events, 1, n)
               s == Enqueue(sender, some)
               more == Append(some, ReleaseAll)
    <3>1. n \in 0..Len(events) /\ Len(events) \in Nat
      BY <2>1, FittingType, LenProperties
    <3>2. sender' = Discard(s) /\ log' = log \o more
      BY <1>1, <2>2, Zenon DEF PushEvents, Push
    <3> HIDE DEF n
    <3>3. some \in Seq(Event)
      <4>1. \A k \in 1..n : events[k] \in Event
        BY <2>1, <3>1, ElementOfSeq
      <4> QED BY <3>1, <4>1, SubSeqProperties
    <3>4. s.next \in Nat \ {0}
      <4>1. s.next = sender.next + Len(some) /\ Len(some) \in Nat /\ sender.next \in Nat \ {0}
        BY <3>3, LenProperties DEF Enqueue, IInv, TypeOK
      <4> HIDE DEF s, some
      <4> QED BY <4>1
    <3> HIDE DEF some, s
    <3>5. more \in Seq(Event)
      BY <3>3, EventAssumption, AppendProperties
    <3> HIDE DEF more
    <3>6. /\ log' \in Seq(Event) /\ Len(log') >= Len(log)
          /\ \A k \in 1..Len(log) : log'[k] = log[k]
      BY <1>0, <3>2, <3>5, ConcatParts, LenProperties
    <3> QED BY <1>0, <2>1, <3>2, <3>4, <3>6, DiscardCounts, AppendKeepsPackets
  <2>3. CASE ~Overflows(sender, events)
    <3>1. sender' = Enqueue(sender, events) /\ log' = log \o events
      BY <1>1, <2>3, Zenon DEF PushEvents, Push
    <3>2. /\ log' \in Seq(Event) /\ Len(log') >= Len(log)
          /\ \A k \in 1..Len(log) : log'[k] = log[k]
      BY <1>0, <2>1, <3>1, ConcatParts, LenProperties
    <3> QED BY <1>0, <2>1, <2>3, <3>1, <3>2, EnqueueCounts, AppendKeepsPackets
  <2> QED BY <2>2, <2>3
<1>2. CASE DiscardQueue
  <2>1. sender' = Discard(sender) /\ log' = Append(log, ReleaseAll) /\ packets' = packets
    BY <1>2 DEF DiscardQueue
  <2>2. sender.next \in Nat \ {0}
    BY DEF IInv, TypeOK
  <2>3. /\ log' \in Seq(Event) /\ Len(log') >= Len(log)
        /\ \A k \in 1..Len(log) : log'[k] = log[k]
    BY <1>0, <2>1, EventAssumption, AppendProperties
  <2> QED BY <1>0, <2>1, <2>2, <2>3, DiscardCounts, AppendKeepsPackets
<1>3. CASE SendNew
  <2>1. /\ sender'.queue = sender.queue /\ sender'.bytes = sender.bytes /\ log' = log
        /\ packets' = packets \cup WindowPackets(Queue, sender.sentThrough + 1)
    BY <1>0, <1>3 DEF SendNew, AfterSendNew, Sent, NewPackets
  <2> QED BY <1>0, <2>1, SentFits DEF ByteCountExact, Queue
<1>4. CASE Retransmit
  <2>1. /\ sender'.queue = sender.queue /\ sender'.bytes = sender.bytes /\ log' = log
        /\ packets' = packets \cup WindowPackets(Queue, Queue[1].seq)
    BY <1>0, <1>4 DEF Retransmit, AfterRetransmit, Sent, RetransmitPackets
  <2> QED BY <1>0, <2>1, SentFits DEF ByteCountExact, Queue
<1>5. ASSUME NEW a \in acks, ReceiveAck(a)
      PROVE  ByteCountExact' /\ PacketsFit'
  <2>1. sender' = Acknowledge(sender, a) /\ packets' = packets /\ log' = log
    BY <1>5 DEF ReceiveAck
  <2> QED BY <1>0, <2>1, AckCounts DEF PacketsFit
<1>6. CASE UNCHANGED <<sender, packets, log>>
  BY <1>0, <1>6 DEF ByteCountExact, Queue, PacketsFit
<1>7. ASSUME NEW p \in packets, Receive(p) PROVE UNCHANGED <<sender, packets, log>>
  BY <1>7 DEF Receive
<1>8. UNCHANGED vars => UNCHANGED <<sender, packets, log>>
  BY DEF vars
<1> QED BY <1>1, <1>2, <1>3, <1>4, <1>5, <1>6, <1>7, <1>8 DEF Next

\* Nothing is queued at first, and nothing counted.
LEMMA CountsAtFirst == Init => AccountsExact
<1> SUFFICES ASSUME Init PROVE AccountsExact
  OBVIOUS
<1> DEFINE x == QueuedEvents(Queue)
<1>1. Queue = <<>> /\ sender.bytes = 0 /\ packets = {}
  BY DEF Init, NewSender, Queue
<1>2. Queue \in Seq(Entry) /\ Len(Queue) = 0
  BY <1>1
<1>3. x \in Seq(Event)
  BY <1>2, QueuedType
<1>4. EncodedLength(x)[0] = 0
  <2> HIDE DEF x
  <2> QED BY <1>3, EncodedSums
<1>5. ByteCountExact
  BY <1>1, <1>2, <1>4, BoundAssumption DEF ByteCountExact, QueueLength
<1> QED BY <1>1, <1>5 DEF AccountsExact, PacketsFit

\* push() and acknowledge() count the bytes of the queue, and send_window()
\* those of a window and a packet: they are right, whatever overflows, is
\* discarded, acknowledged late or sent again.
THEOREM StreamAccounts == Spec => []AccountsExact
BY CountsAtFirst, StepCounts, InvariantHolds, PTL DEF Spec

----------------------------------------------------------------------------
(* The two ends implement ReliableStream.                                   *)

\* A longer log begins with the shorter one.
LEMMA ExtendsLog ==
  ASSUME log \in Seq(Event), log' \in Seq(Event), Len(log) <= Len(log'),
         \A n \in 1..Len(log) : log'[n] = log[n],
         discarded \subseteq discarded', discarded' \subseteq 1..Len(log'),
         UNCHANGED delivered
  PROVE  Promise!Extend
<1>1. Len(log) \in Nat /\ Len(log') \in Nat
  BY LenProperties
<1>2. \A n \in 1..Len(log) : log'[n] \in Event
  BY <1>1, ElementOfSeq
<1>3. /\ SubSeq(log', 1, Len(log)) \in Seq(Event)
      /\ Len(SubSeq(log', 1, Len(log))) = Len(log)
      /\ \A n \in 1..Len(log) : SubSeq(log', 1, Len(log))[n] = log'[n]
  BY <1>1, <1>2, SubSeqProperties
<1>4. SubSeq(log', 1, Len(log)) = log
  <2> DEFINE part == SubSeq(log', 1, Len(log))
  <2>1. part \in Seq(Event) /\ Len(part) = Len(log) /\ \A n \in 1..Len(part) : part[n] = log[n]
    BY <1>3
  <2> HIDE DEF part
  <2>2. part = log
    BY <2>1, SeqEqual
  <2> QED BY <2>2 DEF part
<1>5. Positions' = Positions
  BY DEF Positions
<1> QED BY <1>4, <1>5 DEF Promise!Extend

\* A push or a discard extends the log.
LEMMA AppendRefines ==
  ASSUME IInv, IInv', DiscardQueue \/ \E events \in Pushes : PushEvents(events)
  PROVE  Promise!Extend
<1>1. /\ log \in Seq(Event) /\ log' \in Seq(Event) /\ discarded' \subseteq 1..Len(log')
      /\ Len(log) \in Nat
  BY LenProperties DEF IInv, TypeOK
<1>2. ASSUME NEW more \in Seq(Event), log' = log \o more
      PROVE  Len(log) <= Len(log') /\ \A n \in 1..Len(log) : log'[n] = log[n]
  <2>1. /\ Len(log \o more) = Len(log) + Len(more)
        /\ \A n \in 1..Len(log) : (log \o more)[n] = log[n]
    BY <1>1, ConcatParts
  <2>2. Len(more) \in Nat
    BY LenProperties
  <2> QED BY <1>1, <1>2, <2>1, <2>2
<1>3. CASE DiscardQueue
  <2>1. Len(log') = Len(log) + 1 /\ \A n \in 1..Len(log) : log'[n] = log[n]
    BY <1>1, <1>3, EventAssumption, AppendProperties DEF DiscardQueue
  <2>2. discarded \subseteq discarded' /\ UNCHANGED delivered
    BY <1>3 DEF DiscardQueue
  <2> QED BY <1>1, <2>1, <2>2, ExtendsLog
<1>4. ASSUME NEW events \in Pushes, PushEvents(events) PROVE Promise!Extend
  <2>1. events \in Seq(Event) /\ Len(events) \in Nat
    BY PushesAssumption, LenProperties
  <2>2. \E more \in Seq(Event) : log' = log \o more
    <3>1. CASE Overflows(sender, events)
      <4> DEFINE n == Fitting(sender, events)
                 part == SubSeq(events, 1, n)
      <4>1. n \in 0..Len(events)
        BY <2>1, FittingType
      <4> HIDE DEF n
      <4>2. \A i \in 1..n : events[i] \in Event
        BY <2>1, <4>1, ElementOfSeq
      <4>3. part \in Seq(Event)
        BY <4>1, <4>2, SubSeqProperties
      <4>4. log' = log \o Append(part, ReleaseAll)
        BY <1>4, <3>1 DEF PushEvents, n
      <4> HIDE DEF part
      <4>5. Append(part, ReleaseAll) \in Seq(Event)
        BY <4>3, EventAssumption, AppendProperties
      <4> QED BY <4>4, <4>5
    <3>2. CASE ~Overflows(sender, events)
      BY <1>4, <2>1, <3>2 DEF PushEvents
    <3> QED BY <3>1, <3>2
  <2>3. Len(log) <= Len(log') /\ \A n \in 1..Len(log) : log'[n] = log[n]
    BY <1>2, <2>2
  <2>4. discarded \subseteq discarded' /\ UNCHANGED delivered
    BY <1>4 DEF PushEvents
  <2> QED BY <1>1, <2>3, <2>4, ExtendsLog
<1> QED BY <1>3, <1>4

\* The positions of a sequence of entries.
LEMMA PositionsType ==
  ASSUME NEW d \in Seq(Entry)
  PROVE  LET positions == [i \in 1..Len(d) |-> d[i].seq] IN
         /\ positions \in Seq(Nat) /\ Len(positions) = Len(d)
         /\ \A i \in 1..Len(d) : positions[i] = d[i].seq
<1>1. Len(d) \in Nat /\ \A i \in 1..Len(d) : d[i] \in Entry
  BY LenProperties, ElementOfSeq
<1>2. \A i \in 1..Len(d) : d[i].seq \in Nat
  BY <1>1 DEF Entry
<1> QED BY <1>1, <1>2

\* A packet delivers a run of positions, or nothing.
LEMMA ReceiveRefines ==
  ASSUME IInv, NEW p \in packets, Receive(p)
  PROVE  Promise!Deliver \/ UNCHANGED Promise!vars
<1> DEFINE base == Base(applied, p)
           r == Received(applied, p)
           run == [k \in 1..r - (base + 1) + 1 |-> base + 1 + k - 1]
<1>1. /\ applied \in Nat /\ applied <= Len(log) /\ Len(log) \in Nat
      /\ Len(delivered) \in Nat /\ p.base \in Nat \ {0}
      /\ base \in Nat /\ base >= applied
      /\ base = applied \/ base = p.base - 1
      /\ r \in Nat /\ r >= base /\ r <= Len(log)
      /\ UNCHANGED <<log, discarded>>
  BY ReceiveAppends
<1>2. /\ delivered' \in Seq(Entry) /\ Len(delivered') = Len(delivered) + (r - base)
      /\ \A i \in 1..Len(delivered) : delivered'[i] = delivered[i]
      /\ \A k \in 1..r - base : delivered'[Len(delivered) + k].seq = base + k
  BY ReceiveAppends
<1>3. \A i \in 1..Len(delivered) : delivered[i].seq \in 1..applied
  BY ReceiveAppends
<1> HIDE DEF base, r
<1>4. delivered \in Seq(Entry)
  BY DEF IInv, TypeOK
<1>5. /\ Positions \in Seq(Nat) /\ Len(Positions) = Len(delivered)
      /\ \A i \in 1..Len(delivered) : Positions[i] = delivered[i].seq
  BY <1>4, PositionsType DEF Positions
<1>6. /\ Positions' \in Seq(Nat) /\ Len(Positions') = Len(delivered')
      /\ \A i \in 1..Len(delivered') : Positions'[i] = delivered'[i].seq
  <2>1. delivered' \in Seq(Entry)
    BY <1>2
  <2> QED BY <2>1, PositionsType DEF Positions
<1>7. Promise!LastDelivered = LastDelivered
  <2>1. CASE delivered = <<>>
    <3>1. Positions = <<>>
      BY <1>5, <2>1
    <3> QED BY <2>1, <3>1 DEF Promise!LastDelivered, LastDelivered
  <2>2. CASE delivered # <<>>
    <3>1. Len(delivered) \in 1..Len(delivered) /\ Positions # <<>>
      BY <1>1, <1>4, <1>5, <2>2
    <3> QED BY <1>5, <2>2, <3>1 DEF Promise!LastDelivered, LastDelivered
  <2> QED BY <2>1, <2>2
<1>8. LastDelivered \in Nat /\ LastDelivered <= applied
  BY <1>1, <1>3 DEF IInv, ReceiverIsSettled, LastDelivered
<1>9. \A i \in 1..Len(delivered) : delivered[i].seq <= LastDelivered
  <2> SUFFICES ASSUME NEW i \in 1..Len(delivered) PROVE delivered[i].seq <= LastDelivered
    OBVIOUS
  <2>1. delivered # <<>> /\ Len(delivered) \in 1..Len(delivered)
    BY <1>1
  <2>2. LastDelivered = delivered[Len(delivered)].seq
    BY <2>1 DEF LastDelivered
  <2>3. i < Len(delivered) => delivered[i].seq < delivered[Len(delivered)].seq
    BY <2>1 DEF IInv, AppliedOnceInOrder
  <2>4. delivered[i].seq \in Nat
    BY <1>3
  <2> QED BY <1>1, <1>8, <2>2, <2>3, <2>4
<1>10. ASSUME NEW j \in LastDelivered + 1..base PROVE j \in discarded
  <2>1. j \notin Delivered
    BY <1>1, <1>3, <1>8, <1>9 DEF Delivered
  <2>2. CASE j <= applied
    <3>1. j \in 1..applied
      BY <1>1, <1>8, <2>2
    <3> QED BY <2>1, <3>1 DEF IInv, NothingSkipped
  <2>3. CASE j > applied
    <3>1. j \in 1..p.base - 1
      BY <1>1, <1>8, <2>3
    <3>2. SettledBefore(p.base)
      BY DEF IInv, PacketIsFaithful
    <3> QED BY <2>1, <3>1, <3>2 DEF SettledBefore
  <2> QED BY <1>1, <1>8, <2>2, <2>3
<1>11. CASE r = base
  <2>1. Len(delivered') = Len(delivered)
    BY <1>1, <1>2, <1>11
  <2>2. Positions' = Positions
    BY <1>2, <2>1 DEF Positions
  <2> QED BY <1>1, <2>2 DEF Promise!vars
<1>12. CASE r > base
  <2>1. base + 1 \in 1..Len(log) /\ r \in base + 1..Len(log) /\ base + 1 > LastDelivered
    BY <1>1, <1>8, <1>12
  <2>2. \A j \in LastDelivered + 1..(base + 1) - 1 : j \in discarded
    BY <1>1, <1>10
  <2>3. /\ run \in Seq(Nat) /\ Len(run) = r - base
        /\ \A k \in 1..r - base : run[k] = base + k
    <3>1. r - (base + 1) + 1 = r - base /\ r - base \in Nat
      BY <1>1
    <3>2. \A k \in 1..r - base : base + 1 + k - 1 = base + k /\ base + k \in Nat
      BY <1>1
    <3> QED BY <3>1, <3>2
  <2> HIDE DEF run
  <2>4. /\ Positions \o run \in Seq(Nat) /\ Len(Positions \o run) = Len(Positions) + Len(run)
        /\ \A k \in 1..Len(Positions) : (Positions \o run)[k] = Positions[k]
        /\ \A k \in 1..Len(run) : (Positions \o run)[Len(Positions) + k] = run[k]
    <3>1. Positions \in Seq(Nat) /\ run \in Seq(Nat)
      BY <1>5, <2>3
    <3> QED BY <3>1, ConcatParts
  <2>5. Positions' = Positions \o run
    <3>1. Len(Positions') = Len(Positions \o run)
      BY <1>2, <1>5, <1>6, <2>3, <2>4
    <3>2. ASSUME NEW i \in 1..Len(Positions') PROVE Positions'[i] = (Positions \o run)[i]
      <4>1. CASE i <= Len(delivered)
        <5>1. i \in 1..Len(delivered)
          BY <1>1, <1>2, <1>6, <4>1
        <5>2. Positions'[i] = delivered[i].seq
          BY <1>2, <1>6, <5>1
        <5>3. (Positions \o run)[i] = delivered[i].seq
          BY <1>5, <2>4, <5>1
        <5> QED BY <5>2, <5>3
      <4>2. CASE i > Len(delivered)
        <5> DEFINE k == i - Len(delivered)
        <5>1. k \in 1..r - base /\ i = Len(delivered) + k
          BY <1>1, <1>2, <1>6, <4>2
        <5> HIDE DEF k
        <5>2. Positions'[i] = base + k
          BY <1>2, <1>6, <5>1
        <5>3. (Positions \o run)[i] = base + k
          BY <1>5, <2>3, <2>4, <5>1
        <5> QED BY <5>2, <5>3
      <4>3. i <= Len(delivered) \/ i > Len(delivered)
        BY <1>1, <1>2, <1>6
      <4> QED BY <4>1, <4>2, <4>3
    <3> DEFINE q == Positions \o run
    <3>3. q \in Seq(Nat) /\ Positions' \in Seq(Nat) /\ Len(Positions') = Len(q)
      BY <1>6, <2>4, <3>1
    <3>4. \A i \in 1..Len(Positions') : Positions'[i] = q[i]
      BY <3>2
    <3> HIDE DEF q
    <3>5. Positions' = q
      BY <3>3, <3>4, SeqEqual
    <3> QED BY <3>5 DEF q
  <2> QED BY <1>1, <1>7, <2>1, <2>2, <2>5 DEF Promise!Deliver, run
<1> QED BY <1>1, <1>11, <1>12

\* The two ends implement the promise of ReliableStream: each step of theirs
\* is a step of it, or changes nothing it speaks of.
THEOREM StreamIsReliable == Spec => Reliable
<1>1. Init => Promise!Init
  <2> SUFFICES ASSUME Init PROVE Promise!Init
    OBVIOUS
  <2>1. delivered = <<>> /\ log = <<>> /\ discarded = {}
    BY DEF Init
  <2>2. Positions = <<>>
    BY <2>1 DEF Positions
  <2> QED BY <2>1, <2>2 DEF Promise!Init
<1>2. IInv /\ IInv' /\ [Next]_vars => [Promise!Next]_Promise!vars
  <2> SUFFICES ASSUME IInv, IInv', [Next]_vars
               PROVE  Promise!Next \/ UNCHANGED Promise!vars
    OBVIOUS
  <2>1. CASE DiscardQueue \/ \E events \in Pushes : PushEvents(events)
    BY <2>1, AppendRefines DEF Promise!Next
  <2>2. ASSUME NEW p \in packets, Receive(p)
        PROVE  Promise!Next \/ UNCHANGED Promise!vars
    BY <2>2, ReceiveRefines DEF Promise!Next
  <2>3. ASSUME UNCHANGED <<log, discarded, delivered>>
        PROVE  UNCHANGED Promise!vars
    BY <2>3 DEF Promise!vars, Positions
  <2>4. CASE SendNew \/ Retransmit \/ (\E n \in acks : ReceiveAck(n)) \/ UNCHANGED vars
    BY <2>3, <2>4 DEF SendNew, Retransmit, ReceiveAck, vars
  <2> QED BY <2>1, <2>2, <2>4 DEF Next
<1> QED BY <1>1, <1>2, InvariantHolds, PTL DEF Spec, Reliable, Promise!Spec



----------------------------------------------------------------------------
(* CopyReturn: pieces of copied text, and how the viewer joins them.        *)

Text == 1..MaxText
One(t) == <<Piece(t, 1)>>

\* The events of a text and the release-all are told apart.
LEMMA PieceKinds ==
  /\ \A t \in Text : Piece(t, 1) \in Event /\ Piece(t, 2) \in Event
  /\ \A t \in Text : Piece(t, 1) # ReleaseAll /\ Piece(t, 2) # ReleaseAll
  /\ \A t, u \in Text : Piece(t, 1) # Piece(u, 2)
  /\ \A t, u \in Text : Piece(t, 2) = Piece(u, 2) => t = u
  /\ \A t, u \in Text : Piece(t, 1) = Piece(u, 1) => t = u
  /\ \A e \in Event : e = ReleaseAll \/ \E t \in Text : e = Piece(t, 1) \/ e = Piece(t, 2)
<1>1. /\ Event = {Piece(t, i) : t \in Text, i \in 1..2} \cup {ReleaseAll}
      /\ \A t \in Text, i \in 1..2 : ReleaseAll # Piece(t, i)
  BY CopyAssumption DEF Text
<1>2. 1 \in 1..2 /\ 2 \in 1..2 /\ \A i \in 1..2 : i = 1 \/ i = 2
  OBVIOUS
<1>3. \A t, u \in Text : /\ Piece(t, 1) # Piece(u, 2)
                         /\ (Piece(t, 2) = Piece(u, 2) => t = u)
                         /\ (Piece(t, 1) = Piece(u, 1) => t = u)
  BY DEF Piece
<1>4. \A t \in Text, i \in 1..2 : Piece(t, i) \in Event
  <2> SUFFICES ASSUME NEW t \in Text, NEW i \in 1..2 PROVE Piece(t, i) \in Event
    OBVIOUS
  <2> DEFINE pieces == {Piece(u, j) : u \in Text, j \in 1..2}
  <2>1. Piece(t, i) \in pieces
    OBVIOUS
  <2>2. Event = pieces \cup {ReleaseAll}
    BY <1>1
  <2> HIDE DEF pieces
  <2> QED BY <2>1, <2>2
<1>5. ASSUME NEW e \in Event
      PROVE  e = ReleaseAll \/ \E t \in Text : e = Piece(t, 1) \/ e = Piece(t, 2)
  <2>1. e = ReleaseAll \/ e \in {Piece(t, i) : t \in Text, i \in 1..2}
    BY <1>1
  <2>2. e = ReleaseAll \/ \E t \in Text, i \in 1..2 : e = Piece(t, i)
    BY <2>1
  <2> QED BY <1>2, <2>2
<1> QED BY <1>1, <1>2, <1>3, <1>4, <1>5, Zenon

\* A text begins with its first piece and is complete with its second.
LEMMA PartlyJoined ==
  /\ \A t \in Text : /\ One(t) \in Seq(Event) /\ One(t) # <<>>
                     /\ Append(One(t), Piece(t, 2)) = Pieces(t)
                     /\ Pieces(t) \in Seq(Event) /\ Len(Pieces(t)) = 2
                     /\ Pieces(t)[1] = Piece(t, 1) /\ Pieces(t)[2] = Piece(t, 2)
  /\ \A t, u \in Text : One(t) = One(u) => t = u
<1>1. ASSUME NEW t \in Text
      PROVE  /\ One(t) \in Seq(Event) /\ One(t) # <<>>
             /\ Append(One(t), Piece(t, 2)) = Pieces(t)
             /\ Pieces(t) \in Seq(Event) /\ Len(Pieces(t)) = 2
             /\ Pieces(t)[1] = Piece(t, 1) /\ Pieces(t)[2] = Piece(t, 2)
  <2> DEFINE one == Piece(t, 1)
             two == Piece(t, 2)
  <2>1. one \in Event /\ two \in Event
    BY PieceKinds
  <2>2. One(t) = <<one>> /\ Pieces(t) = <<one, two>> /\ two = Piece(t, 2)
    BY DEF One, Pieces
  <2>5. one = Piece(t, 1)
    OBVIOUS
  <2> HIDE DEF one, two
  <2>6. <<one>> \in Seq(Event) /\ Len(<<one>>) = 1 /\ <<one>>[1] = one /\ <<one>> # <<>>
    BY <2>1
  <2>3. Append(<<one>>, two) = <<one, two>>
    <3> DEFINE x == <<one>>
               y == Append(x, two)
               z == <<one, two>>
    <3>1. /\ y \in Seq(Event) /\ Len(y) = 2 /\ y[1] = one /\ y[2] = two
          /\ z \in Seq(Event) /\ Len(z) = 2 /\ z[1] = one /\ z[2] = two
      BY <2>1, <2>6, AppendProperties
    <3> HIDE DEF x, y, z
    <3>2. Len(y) = Len(z) /\ \A i \in 1..Len(y) : y[i] = z[i]
      BY <3>1
    <3>3. y = z
      BY <3>1, <3>2, SeqEqual
    <3> QED BY <3>3 DEF x, y, z
  <2>4. <<one, two>> \in Seq(Event) /\ Len(<<one, two>>) = 2
        /\ <<one, two>>[1] = one /\ <<one, two>>[2] = two
    BY <2>1
  <2> QED BY <2>2, <2>3, <2>4, <2>5, <2>6
<1>2. ASSUME NEW t \in Text, NEW u \in Text, One(t) = One(u) PROVE t = u
  <2>1. One(t)[1] = Piece(t, 1) /\ One(u)[1] = Piece(u, 1)
    BY DEF One
  <2> QED BY <1>2, <2>1, PieceKinds
<1> QED BY <1>1, <1>2

\* ClipboardAssembler::push() for each kind of event.
LEMMA JoinKinds ==
  ASSUME NEW state
  PROVE  /\ JoinPiece(state, ReleaseAll) = state
         /\ \A t \in Text : JoinPiece(state, Piece(t, 1)) =
                              [text |-> One(t), done |-> state.done]
         /\ \A t \in Text : JoinPiece(state, Piece(t, 2)) =
                              IF state.text = <<>> THEN state
                              ELSE [text |-> <<>>, done |-> Append(state.text, Piece(t, 2))]
<1>1. JoinPiece(state, ReleaseAll) = state
  BY DEF JoinPiece
<1>2. ASSUME NEW t \in Text
      PROVE  /\ Piece(t, 1) # ReleaseAll /\ First(Piece(t, 1)) /\ ~Last(Piece(t, 1))
             /\ Piece(t, 2) # ReleaseAll /\ ~First(Piece(t, 2)) /\ Last(Piece(t, 2))
  <2>1. Piece(t, 1) # ReleaseAll /\ Piece(t, 2) # ReleaseAll
    BY PieceKinds
  <2>2. First(Piece(t, 1)) /\ ~Last(Piece(t, 1)) /\ ~First(Piece(t, 2)) /\ Last(Piece(t, 2))
    BY DEF First, Last, Piece
  <2> QED BY <2>1, <2>2
<1>3. ASSUME NEW t \in Text
      PROVE  JoinPiece(state, Piece(t, 1)) = [text |-> One(t), done |-> state.done]
  <2> DEFINE e == Piece(t, 1)
  <2>1. e # ReleaseAll /\ First(e) /\ ~Last(e) /\ One(t) = <<e>>
    BY <1>2 DEF One
  <2> HIDE DEF e
  <2>2. JoinPiece(state, e) = [text |-> One(t), done |-> state.done]
    BY <2>1, Zenon DEF JoinPiece
  <2> QED BY <2>2 DEF e
<1>4. ASSUME NEW t \in Text
      PROVE  JoinPiece(state, Piece(t, 2)) =
               IF state.text = <<>> THEN state
               ELSE [text |-> <<>>, done |-> Append(state.text, Piece(t, 2))]
  <2> DEFINE e == Piece(t, 2)
  <2>1. e # ReleaseAll /\ ~First(e) /\ Last(e)
    BY <1>2
  <2> HIDE DEF e
  <2>2. JoinPiece(state, e) = IF state.text = <<>> THEN state
                              ELSE [text |-> <<>>, done |-> Append(state.text, e)]
    BY <2>1, Zenon DEF JoinPiece
  <2> QED BY <2>2 DEF e
<1> QED BY <1>1, <1>3, <1>4

Joint == [text : Seq(Event), done : Seq(Event)]

\* Joined() takes one piece after the other.
LEMMA JoinedSteps ==
  ASSUME NEW events \in Seq(Event), assembly \in Seq(Event), copied \in Seq(Event)
  PROVE  \E h : /\ h[0] = [text |-> assembly, done |-> copied]
                /\ \A k \in 1..Len(events) : h[k] = JoinPiece(h[k - 1], events[k])
                /\ Joined(events) = h[Len(events)]
<1> DEFINE n == Len(events)
           start == [text |-> assembly, done |-> copied]
           Joins(g) == g = [k \in 0..n |-> IF k = 0 THEN start
                                           ELSE JoinPiece(g[k - 1], events[k])]
<1>1. n \in Nat /\ \A k \in 1..n : events[k] \in Event
  BY LenProperties, ElementOfSeq
<1>2. \E g : Joins(g)
  <2> DEFINE step == [k \in 1..n |-> [x \in Joint |-> JoinPiece(x, events[k])]]
  <2>1. \A k \in 1..n, x \in Joint : step[k][x] = JoinPiece(x, events[k])
    OBVIOUS
  <2>2. start \in Joint
    BY DEF Joint
  <2>3. ASSUME NEW x \in Joint, NEW e \in Event PROVE JoinPiece(x, e) \in Joint
    <3>1. CASE e = ReleaseAll
      BY <3>1, JoinKinds
    <3>2. CASE \E t \in Text : e = Piece(t, 1)
      <4>1. PICK t \in Text : e = Piece(t, 1)
        BY <3>2
      <4>2. JoinPiece(x, e) = [text |-> One(t), done |-> x.done] /\ One(t) \in Seq(Event)
        BY <4>1, JoinKinds, PartlyJoined
      <4> QED BY <4>2 DEF Joint
    <3>3. CASE \E t \in Text : e = Piece(t, 2)
      <4>1. PICK t \in Text : e = Piece(t, 2)
        BY <3>3
      <4>2. JoinPiece(x, e) = IF x.text = <<>> THEN x
                              ELSE [text |-> <<>>, done |-> Append(x.text, e)]
        BY <4>1, JoinKinds
      <4>3. x.text \in Seq(Event) /\ Append(x.text, e) \in Seq(Event) /\ <<>> \in Seq(Event)
        BY DEF Joint
      <4> QED BY <4>2, <4>3 DEF Joint
    <3> QED BY <3>1, <3>2, <3>3, PieceKinds
  <2> HIDE DEF step, n, start
  <2>4. StepsWithin(n, Joint, start, step)
    BY <1>1, <2>1, <2>2, <2>3 DEF StepsWithin
  <2>5. PICK g : FollowsSteps(n, Joint, start, step, g)
    BY <2>4, Recursion
  <2>6. /\ g \in [0..n -> Joint] /\ g[0] = start
        /\ \A k \in 1..n : g[k] = step[k][g[k - 1]]
    BY <2>5 DEF FollowsSteps
  <2>7. \A k \in 0..n : k # 0 => k \in 1..n /\ k - 1 \in 0..n
    BY <1>1
  <2>8. \A k \in 0..n : g[k] = IF k = 0 THEN start ELSE JoinPiece(g[k - 1], events[k])
    BY <2>1, <2>6, <2>7
  <2>9. g = [k \in 0..n |-> g[k]]
    BY <2>6
  <2>10. Joins(g)
    BY <2>8, <2>9, Zenon
  <2> QED BY <2>10, Zenon
<1> DEFINE h == CHOOSE g : Joins(g)
<1>3. Joined(events) = h[Len(events)]
  BY Zenon DEF Joined
<1>4. Joins(h)
  <2> HIDE DEF Joins
  <2> QED BY <1>2, Zenon
<1> HIDE DEF h
<1>5. 0 \in 0..n /\ \A k \in 1..n : k \in 0..n /\ k # 0
  BY <1>1
<1>6. h[0] = start /\ \A k \in 1..n : h[k] = JoinPiece(h[k - 1], events[k])
  BY <1>4, <1>5, Zenon
<1> QED BY <1>3, <1>6, Zenon DEF n, start

----------------------------------------------------------------------------
(* The inductive invariant of CopyReturn. While the streams are kept apart  *)
(* and no text was cut, there is a log L of the events this stream has      *)
(* numbered: the queue is its tail, and every packet carries a part of it.  *)

\* The queue of a sender is the tail of the log.
QueueOf(L, s) ==
  /\ s.queue \in Seq(Entry) /\ s.next \in Nat \ {0} /\ Len(s.queue) < s.next
  /\ \A k \in 1..Len(s.queue) :
       /\ s.queue[k].seq = s.next - Len(s.queue) + k - 1
       /\ s.queue[k].event = L[s.queue[k].seq]

\* A packet carries a part of what was numbered before `next`.
CarriesLog(L, p, next) ==
  /\ p \in Packet /\ Len(p.events) >= 1
  /\ p.base <= p.first /\ PacketEnd(p) < next
  /\ \A i \in 1..Len(p.events) : p.events[i] = L[p.first + i - 1]

Front == outbox.next - Len(outbox.queue)
Own == {d \in datagrams : d.stream = stream}
Fronts == {d.packet.base : d \in Own} \cup {Front}
Hearing == heard = stream /\ stream # 0

\* The second piece of a text follows its first.
InPairs(L) ==
  \A n \in Nat, t \in Text :
    n < outbox.next /\ n >= 1 /\ L[n] = Piece(t, 2) => n >= 2 /\ L[n - 1] = Piece(t, 1)

Logged(L) ==
  /\ QueueOf(L, outbox) /\ InPairs(L)
  /\ \A d \in Own : CarriesLog(L, d.packet, outbox.next)
  /\ \A b \in Fronts : b \in Nat \ {0} /\ b <= Front
  /\ promised # 0 => /\ outbox.next >= 3
                     /\ L[outbox.next - 2] = Piece(promised, 1)
                     /\ L[outbox.next - 1] = Piece(promised, 2)

\* The two ends: the viewer is behind the host, and acknowledges no more than
\* it has.
Ends ==
  /\ stream \in Nat /\ heard \in 0..stream /\ hostEvents \in Nat
  /\ texts \in 0..MaxText /\ promised \in 0..MaxText
  /\ stream = 0 => outbox.queue = <<>>
  /\ \A d \in datagrams : d.stream \in 1..stream
  /\ \A a \in answers : /\ a.sequence \in Nat /\ a.stream \in 1..stream
                        /\ a.stream = stream => Hearing /\ a.sequence <= hostEvents
  /\ Hearing => hostEvents < outbox.next
  /\ heard = 0 => assembly = <<>> /\ hostEvents = 0
  /\ assembly = <<>> \/ \E t \in Text : assembly = One(t)
  /\ copied \in TextOrNone

\* A viewer that stands at k, with this text begun and that one complete: the
\* next piece fits, and what it was promised it has when it has everything.
Carried(L, k, text, done) ==
  /\ text = <<>> \/ \E t \in Text : text = One(t)
  /\ done \in TextOrNone
  /\ \A t \in Text : k + 1 < outbox.next /\ L[k + 1] = Piece(t, 2) =>
                       text = <<>> \/ text = One(t)
  /\ promised # 0 /\ k = outbox.next - 2 => done = Pieces(promised) \/ text = One(promised)
  /\ promised # 0 /\ k = outbox.next - 1 => done = Pieces(promised)

\* The sequence b is that of a release-all: what is before it was given up.
GivenUp(L, b) == b < outbox.next /\ L[b] = ReleaseAll

\* A text that was begun is not skipped to its end.
NothingTorn(L) ==
  Hearing /\ assembly # <<>> => \A b \in Fronts : b - 1 <= hostEvents \/ GivenUp(L, b)

\* A packet with a part that was acknowledged was applied by this viewer, or
\* is older than what was given up.
OldIsHeard(L) ==
  \A d \in Own, b \in Fronts :
    \/ b <= PacketEnd(d.packet)
    \/ Hearing /\ PacketEnd(d.packet) <= hostEvents
    \/ GivenUp(L, b)

\* The host lets go of the last piece of the promised text only when the viewer
\* has the text, and of its first only when the viewer has that.
LetGoWhenBrought ==
  promised # 0 =>
    /\ outbox.queue = <<>> => copied = Pieces(promised)
    /\ Len(outbox.queue) <= 1 /\ (Hearing => hostEvents < outbox.next - 2) =>
         copied = Pieces(promised)

Sound(L) ==
  /\ Logged(L) /\ Ends
  /\ Hearing => Carried(L, hostEvents, assembly, copied)
  /\ NothingTorn(L) /\ OldIsHeard(L) /\ LetGoWhenBrought

Undisturbed == mixed \/ cut \/ \E L \in [Nat -> Event] : Sound(L)

CopyIInv == mixed \in BOOLEAN /\ cut \in BOOLEAN /\ Undisturbed

----------------------------------------------------------------------------
(* CopyReturn: the viewer's end.                                            *)

\* What the invariant says of the viewer survives the next event of the log.
LEMMA CarriedOn ==
  ASSUME NEW L \in [Nat -> Event], Logged(L), promised \in 0..MaxText, NEW k \in Nat,
         NEW state, k + 1 < outbox.next, Carried(L, k, state.text, state.done)
  PROVE  LET next == JoinPiece(state, L[k + 1])
         IN  Carried(L, k + 1, next.text, next.done)
<1> DEFINE e == L[k + 1]
           next == JoinPiece(state, e)
           n == outbox.next
           text == state.text
           done == state.done
<1>0. text = state.text /\ done = state.done
  OBVIOUS
<1>1. n \in Nat /\ e \in Event /\ k + 1 \in Nat
  BY DEF Logged, QueueOf
<1>2. /\ text = <<>> \/ \E t \in Text : text = One(t)
      /\ done \in TextOrNone
      /\ \A t \in Text : e = Piece(t, 2) => text = <<>> \/ text = One(t)
      /\ promised # 0 /\ k = n - 2 => done = Pieces(promised) \/ text = One(promised)
      /\ promised # 0 /\ k = n - 1 => done = Pieces(promised)
  BY DEF Carried
<1>3. /\ promised # 0 => promised \in Text /\ n >= 3 /\ L[n - 2] = Piece(promised, 1)
                         /\ L[n - 1] = Piece(promised, 2)
  BY DEF Logged, Text
\* The next piece fits behind this event.
<1>4. ASSUME NEW t \in Text, k + 2 < n, L[k + 2] = Piece(t, 2)
      PROVE  e = Piece(t, 1)
  <2>1. k + 2 \in Nat /\ k + 2 >= 1 /\ (k + 2) - 1 = k + 1
    OBVIOUS
  <2>2. \A m \in Nat, u \in Text : m < n /\ m >= 1 /\ L[m] = Piece(u, 2) => L[m - 1] = Piece(u, 1)
    BY DEF Logged, InPairs
  <2> QED BY <1>4, <2>1, <2>2
<1>5. promised # 0 /\ k + 1 = n - 2 => e = Piece(promised, 1)
  BY <1>1, <1>3
<1>6. promised # 0 /\ k + 1 = n - 1 => e = Piece(promised, 2) /\ k = n - 2
  BY <1>1, <1>3
<1>7. (k + 1) + 1 = k + 2
  OBVIOUS
<1> HIDE DEF e, n, text, done
<1>8. CASE e = ReleaseAll
  <2>1. next = state
    BY <1>8, JoinKinds
  <2>2. next.text = text /\ next.done = done
    BY <1>0, <2>1
  <2>3. \A t \in Text : e # Piece(t, 1) /\ e # Piece(t, 2)
    BY <1>8, PieceKinds
  <2> HIDE DEF next
  <2>4. \A t \in Text : ~(k + 2 < n /\ L[k + 2] = Piece(t, 2))
    BY <1>4, <2>3
  <2>5. promised # 0 => k + 1 # n - 2 /\ k + 1 # n - 1
    BY <1>3, <1>5, <1>6, <2>3
  <2>6. Carried(L, k + 1, next.text, next.done)
    BY <1>2, <1>7, <2>2, <2>4, <2>5 DEF Carried, n
  <2> QED BY <2>6 DEF next, e
<1>9. CASE \E t \in Text : e = Piece(t, 1)
  <2>1. PICK t \in Text : e = Piece(t, 1)
    BY <1>9
  <2>2. next = [text |-> One(t), done |-> done]
    BY <1>0, <2>1, JoinKinds
  <2>3. next.text = One(t) /\ next.done = done
    BY <2>2
  <2>4. \A u \in Text : e # Piece(u, 2)
    BY <2>1, PieceKinds
  <2> HIDE DEF next
  <2>5. \A u \in Text : k + 2 < n /\ L[k + 2] = Piece(u, 2) => u = t
    BY <1>4, <2>1, PieceKinds
  <2>6. promised # 0 => k + 1 # n - 1 /\ (k + 1 = n - 2 => promised = t)
    BY <1>3, <1>5, <1>6, <2>1, <2>4, PieceKinds
  <2>7. Carried(L, k + 1, next.text, next.done)
    BY <1>2, <1>7, <2>3, <2>5, <2>6 DEF Carried, n
  <2> QED BY <2>7 DEF next, e
<1>10. CASE \E t \in Text : e = Piece(t, 2)
  <2>1. PICK t \in Text : e = Piece(t, 2)
    BY <1>10
  <2>2. next = IF text = <<>> THEN state ELSE [text |-> <<>>, done |-> Append(text, e)]
    BY <1>0, <2>1, JoinKinds
  <2>3. text = <<>> \/ text = One(t)
    BY <1>2, <2>1
  <2>4. next.text = <<>> /\ next.done = IF text = <<>> THEN done ELSE Pieces(t)
    <3>1. CASE text = <<>>
      BY <1>0, <2>2, <3>1
    <3>2. CASE text # <<>>
      <4>1. Append(text, e) = Pieces(t)
        BY <2>1, <2>3, <3>2, PartlyJoined
      <4> QED BY <2>2, <3>2, <4>1
    <3> QED BY <3>1, <3>2
  <2>5. \A u \in Text : e # Piece(u, 1)
    BY <2>1, PieceKinds
  <2> HIDE DEF next
  <2>6. \A u \in Text : ~(k + 2 < n /\ L[k + 2] = Piece(u, 2))
    BY <1>4, <2>5
  <2>7. promised # 0 => k + 1 # n - 2
    BY <1>3, <1>5, <2>5
  <2>8. promised # 0 /\ k + 1 = n - 1 => next.done = Pieces(promised)
    <3> SUFFICES ASSUME promised # 0, k + 1 = n - 1 PROVE next.done = Pieces(promised)
      OBVIOUS
    <3>1. promised = t
      BY <1>3, <1>6, <2>1, PieceKinds
    <3>2. done = Pieces(promised) \/ text = One(promised)
      BY <1>2, <1>6
    <3>3. One(promised) # <<>>
      BY <1>3, PartlyJoined
    <3> QED BY <2>4, <3>1, <3>2, <3>3
  <2>9. next.done \in TextOrNone
    BY <1>2, <2>4 DEF TextOrNone, Text
  <2>10. Carried(L, k + 1, next.text, next.done)
    BY <1>7, <2>4, <2>6, <2>7, <2>8, <2>9 DEF Carried, n
  <2> QED BY <2>10 DEF next, e
<1> QED BY <1>1, <1>8, <1>9, <1>10, PieceKinds

\* What the invariant says of the viewer holds where a packet makes it begin,
\* whether it follows the packet's base or not.
LEMMA CarriedAtBase ==
  ASSUME NEW L \in [Nat -> Event], Sound(L), NEW d \in Own, heard \in {0, stream}
  PROVE  /\ Base(hostEvents, d.packet) \in Nat /\ Base(hostEvents, d.packet) < outbox.next
         /\ Carried(L, Base(hostEvents, d.packet), assembly, copied)
<1> DEFINE n == outbox.next
           b == d.packet.base
           base == Base(hostEvents, d.packet)
           len == Len(outbox.queue)
<1>1. /\ n \in Nat \ {0} /\ len \in Nat /\ len < n /\ Front = n - len
      /\ b \in Fronts /\ b \in Nat \ {0} /\ b <= n - len
      /\ hostEvents \in Nat /\ stream \in Nat /\ stream # 0
      /\ promised \in 0..MaxText
  <2>1. outbox.queue \in Seq(Entry) /\ n \in Nat \ {0} /\ len < n
    BY DEF Sound, Logged, QueueOf
  <2>2. len \in Nat
    BY <2>1, LenProperties
  <2>3. b \in Fronts
    BY DEF Fronts
  <2>4. b \in Nat \ {0} /\ b <= Front
    BY <2>3 DEF Sound, Logged
  <2>5. d \in datagrams /\ d.stream = stream
    BY DEF Own
  <2>6. hostEvents \in Nat /\ stream \in Nat /\ stream # 0 /\ promised \in 0..MaxText
    BY <2>5 DEF Sound, Ends
  <2> QED BY <2>1, <2>2, <2>3, <2>4, <2>6 DEF Front
<1>2. base = IF b - 1 > hostEvents THEN b - 1 ELSE hostEvents
  BY DEF Base
<1>3. /\ assembly = <<>> \/ \E t \in Text : assembly = One(t)
      /\ copied \in TextOrNone
      /\ Hearing => hostEvents < n
      /\ heard = 0 => assembly = <<>> /\ hostEvents = 0
  BY DEF Sound, Ends
<1>4. Hearing \/ (heard = 0 /\ ~Hearing)
  BY <1>1 DEF Hearing
<1>5. promised # 0 => /\ len = 0 => copied = Pieces(promised)
                      /\ len <= 1 /\ (Hearing => hostEvents < n - 2) => copied = Pieces(promised)
  BY DEF Sound, LetGoWhenBrought
<1>6. promised # 0 => /\ n >= 3 /\ promised \in Text
                      /\ L[n - 1] = Piece(promised, 2)
  BY <1>1 DEF Sound, Logged, Text
<1>7. Hearing /\ assembly # <<>> => b - 1 <= hostEvents \/ GivenUp(L, b)
  BY <1>1 DEF Sound, NothingTorn
<1>8. Hearing => Carried(L, hostEvents, assembly, copied)
  BY DEF Sound
<1> HIDE DEF n, b, base, len
<1>9. base \in Nat /\ base < n
  BY <1>1, <1>2, <1>3, <1>4
<1>10. CASE base = hostEvents /\ Hearing
  BY <1>8, <1>9, <1>10 DEF n, base
\* The viewer skips to the base, or begins there.
<1>11. CASE ~(base = hostEvents /\ Hearing)
  <2>1. base >= hostEvents /\ (base # hostEvents => base = b - 1)
        /\ (Hearing => base = b - 1 /\ hostEvents < b - 1)
    BY <1>1, <1>2, <1>11
  <2>2. ~Hearing => assembly = <<>> /\ hostEvents = 0
    BY <1>3, <1>4
  <2>3. ASSUME NEW t \in Text, base + 1 < n, L[base + 1] = Piece(t, 2)
        PROVE  assembly = <<>>
    <3> SUFFICES ASSUME Hearing, assembly # <<>> PROVE FALSE
      BY <2>2
    <3>1. base = b - 1 /\ hostEvents < b - 1 /\ base + 1 = b
      BY <1>1, <2>1
    <3>2. GivenUp(L, b)
      BY <1>1, <1>7, <3>1
    <3>3. L[b] = ReleaseAll
      BY <3>2 DEF GivenUp
    <3> QED BY <2>3, <3>1, <3>3, PieceKinds
  <2>4. ASSUME promised # 0, base = n - 2 PROVE copied = Pieces(promised)
    <3>1. base # hostEvents \/ Hearing
      BY <1>1, <1>6, <2>2, <2>4
    <3>2. base = b - 1
      BY <2>1, <3>1
    <3>3. len <= 1
      BY <1>1, <2>4, <3>2
    <3>4. Hearing => hostEvents < n - 2
      BY <2>1, <2>4
    <3> QED BY <1>5, <2>4, <3>3, <3>4
  <2>5. ASSUME promised # 0, base = n - 1 PROVE copied = Pieces(promised)
    <3>1. base # hostEvents \/ Hearing
      BY <1>1, <1>6, <2>2, <2>5
    <3>2. base = b - 1
      BY <2>1, <3>1
    <3>3. len = 0
      BY <1>1, <2>5, <3>2
    <3> QED BY <1>5, <2>5, <3>3
  <2>6. Carried(L, base, assembly, copied)
    BY <1>3, <2>3, <2>4, <2>5 DEF Carried, n
  <2> QED BY <1>9, <2>6 DEF n, base
<1> QED BY <1>10, <1>11

\* The viewer takes the events of a packet, which is where it stands afterwards,
\* or nothing of it.
LEMMA ReceivedText ==
  ASSUME NEW L \in [Nat -> Event], Sound(L), NEW d \in Own, heard \in {0, stream}
  PROVE  LET base == Base(hostEvents, d.packet)
             end == Received(hostEvents, d.packet)
             joined == Joined(AppliedEvents(hostEvents, d.packet))
         IN  /\ end \in Nat /\ end < outbox.next /\ end >= base /\ base >= hostEvents
             /\ end > base => end = PacketEnd(d.packet)
             /\ end = base => joined.text = assembly /\ joined.done = copied
             /\ Carried(L, end, joined.text, joined.done)
<1> DEFINE p == d.packet
           base == Base(hostEvents, p)
           end == Received(hostEvents, p)
           more == AppliedEvents(hostEvents, p)
           joined == Joined(more)
           n == outbox.next
<1>1. CarriesLog(L, p, n)
  BY DEF Sound, Logged
<1>2. /\ p \in Packet /\ Len(p.events) \in Nat /\ Len(p.events) > 0
      /\ p.first \in Nat \ {0} /\ PacketEnd(p) < n /\ PacketEnd(p) = p.first + Len(p.events) - 1
      /\ \A i \in 1..Len(p.events) : p.events[i] = L[p.first + i - 1]
  <2>1. p \in Packet /\ p.events \in Seq(Event) /\ p.first \in Nat \ {0}
    BY <1>1 DEF CarriesLog, Packet
  <2>2. Len(p.events) \in Nat
    BY <2>1, LenProperties
  <2> QED BY <1>1, <2>1, <2>2 DEF CarriesLog, PacketEnd
<1>3. hostEvents \in Nat /\ n \in Nat /\ promised \in 0..MaxText /\ Logged(L)
      /\ assembly \in Seq(Event) /\ copied \in Seq(Event)
  <2>1. hostEvents \in Nat /\ n \in Nat /\ promised \in 0..MaxText /\ Logged(L)
        /\ (assembly = <<>> \/ \E t \in Text : assembly = One(t)) /\ copied \in TextOrNone
    BY DEF Sound, Logged, Ends, QueueOf
  <2>2. <<>> \in Seq(Event) /\ \A t \in Text : One(t) \in Seq(Event) /\ Pieces(t) \in Seq(Event)
    BY PartlyJoined
  <2> QED BY <2>1, <2>2 DEF TextOrNone, Text
<1>4. base \in Nat /\ base < n /\ Carried(L, base, assembly, copied)
  BY CarriedAtBase
<1>5. /\ base >= hostEvents /\ end \in Nat
      /\ more \in Seq(Event) /\ Len(more) = end - base /\ Len(more) \in Nat
      /\ end > base => end = PacketEnd(p) /\ p.first <= base + 1
      /\ \A k \in 1..Len(more) : more[k] = p.events[base + k - p.first + 1]
  <2>1. /\ base >= hostEvents /\ end \in Nat
        /\ more \in Seq(Event) /\ Len(more) = end - base
        /\ end > base => end = PacketEnd(p) /\ p.first <= base + 1
        /\ \A k \in 1..Len(more) : more[k] = p.events[base + k - p.first + 1]
    BY <1>2, <1>3, ReceivedEvents
  <2>2. Len(more) \in Nat
    BY <2>1, LenProperties
  <2> QED BY <2>1, <2>2
<1>6. PICK h : /\ h[0] = [text |-> assembly, done |-> copied]
               /\ \A k \in 1..Len(more) : h[k] = JoinPiece(h[k - 1], more[k])
               /\ joined = h[Len(more)]
  BY <1>3, <1>5, JoinedSteps
<1>7. end >= base /\ end < n
  BY <1>2, <1>4, <1>5
<1> HIDE DEF p, base, end, more, joined
<1>8. ASSUME NEW k \in 1..Len(more)
      PROVE  more[k] = L[base + k] /\ base + k < n
  <2>1. end > base /\ end = PacketEnd(p) /\ p.first <= base + 1
    BY <1>4, <1>5
  <2> DEFINE first == p.first
             size == Len(p.events)
             i == base + k - first + 1
  <2>5. /\ first \in Nat /\ size \in Nat /\ base \in Nat /\ end \in Nat
        /\ end = first + size - 1 /\ first <= base + 1 /\ k <= end - base /\ k >= 1
        /\ k \in Nat
    BY <1>2, <1>4, <1>5, <2>1
  <2>3. more[k] = p.events[i]
    BY <1>5
  <2> HIDE DEF first, size
  <2>2. i \in 1..size /\ first + i - 1 = base + k /\ base + k <= end
    BY <2>5
  <2> HIDE DEF i
  <2>4. p.events[i] = L[base + k]
    BY <1>2, <2>2 DEF first, size
  <2>6. base + k < n
    BY <1>3, <1>7, <2>2, <2>5
  <2> QED BY <2>3, <2>4, <2>6
<1>9. \A k \in 0..Len(more) : Carried(L, base + k, h[k].text, h[k].done)
  <2> DEFINE Good == {k \in 0..Len(more) : Carried(L, base + k, h[k].text, h[k].done)}
  <2>1. 0 \in Good
    <3>1. h[0].text = assembly /\ h[0].done = copied /\ base + 0 = base /\ 0 \in 0..Len(more)
      BY <1>4, <1>5, <1>6
    <3> QED BY <1>4, <3>1
  <2>2. ASSUME NEW k \in 1..Len(more), k - 1 \in Good PROVE k \in Good
    <3> DEFINE before == base + (k - 1)
               state == h[k - 1]
               next == JoinPiece(state, L[before + 1])
    <3>1. before \in Nat /\ before + 1 = base + k /\ before + 1 < n /\ k \in 0..Len(more)
      BY <1>4, <1>5, <1>8
    <3>2. Carried(L, before, state.text, state.done)
      BY <2>2
    <3>3. h[k] = next
      BY <1>6, <1>8, <3>1
    <3> HIDE DEF before, state
    <3>4. Carried(L, before + 1, next.text, next.done)
      BY <1>3, <3>1, <3>2, CarriedOn DEF n
    <3> QED BY <3>1, <3>3, <3>4
  <2>3. \A k \in 0..Len(more) : k \in Good
    <3> HIDE DEF Good
    <3> QED BY <1>5, <2>1, <2>2, CountingUp
  <2> QED BY <2>3
<1>10. base + Len(more) = end /\ Len(more) \in 0..Len(more)
  BY <1>4, <1>5
<1>11. Carried(L, end, joined.text, joined.done)
  BY <1>6, <1>9, <1>10
<1>12. end = base => joined.text = assembly /\ joined.done = copied
  <2> SUFFICES ASSUME end = base PROVE joined.text = assembly /\ joined.done = copied
    OBVIOUS
  <2>1. Len(more) = 0
    BY <1>4, <1>5
  <2> QED BY <1>6, <2>1
<1> QED BY <1>5, <1>7, <1>11, <1>12 DEF p, base, end, more, joined, n

----------------------------------------------------------------------------
(* CopyReturn: the steps.                                                   *)

\* Nothing the invariant speaks of changes.
LEMMA CopyUntouched ==
  ASSUME NEW L \in [Nat -> Event], Sound(L),
         UNCHANGED <<outbox, stream, promised, texts, datagrams, answers>>,
         UNCHANGED <<hostEvents, assembly, copied, heard>>
  PROVE  Sound(L)'
<1>1. Front' = Front /\ Own' = Own /\ Hearing' = Hearing
  BY DEF Front, Own, Hearing
<1>2. Fronts' = Fronts
  BY <1>1 DEF Fronts
<1>3. Logged(L)'
  BY <1>1, <1>2 DEF Sound, Logged, InPairs
<1>4. Ends'
  BY <1>1 DEF Sound, Ends
<1>5. Hearing' => Carried(L, hostEvents, assembly, copied)'
  BY <1>1 DEF Sound, Carried
<1>6. NothingTorn(L)' /\ OldIsHeard(L)'
  BY <1>1, <1>2 DEF Sound, NothingTorn, OldIsHeard, GivenUp
<1>7. LetGoWhenBrought'
  BY <1>1 DEF Sound, LetGoWhenBrought
<1> QED BY <1>3, <1>4, <1>5, <1>6, <1>7 DEF Sound

\* The packets of a queue that is the tail of the log.
LEMMA SentFromLog ==
  ASSUME NEW L, NEW s, QueueOf(L, s), NEW from, NEW p \in WindowPackets(s.queue, from)
  PROVE  /\ CarriesLog(L, p, s.next) /\ s.queue # <<>>
         /\ p.base = s.next - Len(s.queue) /\ PacketEnd(p) >= p.base
<1> DEFINE len == Len(s.queue)
           n == s.next
           size == Len(p.events)
<1>1. /\ s.queue \in Seq(Entry) /\ n \in Nat \ {0} /\ len \in Nat /\ len < n
      /\ \A k \in 1..len : /\ s.queue[k].seq = n - len + k - 1
                          /\ s.queue[k].event = L[s.queue[k].seq]
  BY LenProperties DEF QueueOf
<1>2. PICK a, b \in 1..len :
        /\ a <= b
        /\ p.base = s.queue[1].seq /\ p.first = s.queue[a].seq
        /\ p \in Packet /\ size = b - a + 1
        /\ \A k \in 1..b - a + 1 : p.events[k] = s.queue[a + k - 1].event
  <2>1. s.queue \in Seq(Entry)
    BY <1>1
  <2>2. \E a, b \in 1..Len(s.queue) :
          /\ a <= b
          /\ p.base = s.queue[1].seq /\ p.first = s.queue[a].seq
          /\ p \in Packet /\ Len(p.events) = b - a + 1
          /\ \A k \in 1..b - a + 1 : p.events[k] = s.queue[a + k - 1].event
    BY <2>1, WindowPacket
  <2> QED BY <2>2
<1>3. 1 \in 1..len /\ s.queue # <<>>
  BY <1>1, <1>2
<1>4. p.base = n - len /\ p.first = n - len + a - 1
  BY <1>1, <1>2, <1>3
<1>5. PacketEnd(p) = p.first + size - 1
  BY DEF PacketEnd
<1> DEFINE first == p.first
           base == p.base
<1>6. size \in Nat /\ size >= 1 /\ size = b - a + 1 /\ a \in 1..len /\ b \in 1..len
      /\ first = n - len + a - 1 /\ base = n - len
  BY <1>1, <1>2, <1>4
<1>7. ASSUME NEW k \in 1..size PROVE p.events[k] = L[first + k - 1]
  <2> DEFINE i == a + k - 1
  <2>1. i \in 1..len /\ n - len + i - 1 = first + k - 1
    <3>1. n \in Nat /\ len \in Nat /\ k \in 1..size
      BY <1>1
    <3> HIDE DEF len, n, size, first
    <3> QED BY <1>6, <3>1
  <2>2. p.events[k] = s.queue[i].event
    BY <1>2, <1>6
  <2> HIDE DEF i, len, n, first
  <2>3. s.queue[i].seq = first + k - 1 /\ s.queue[i].event = L[s.queue[i].seq]
    BY <1>1, <2>1
  <2> QED BY <2>2, <2>3
<1>8. base <= first /\ first + size - 1 < n /\ first + size - 1 >= base
  <2> HIDE DEF len, n, size, first, base
  <2> QED BY <1>1, <1>6
<1> QED BY <1>2, <1>3, <1>4, <1>5, <1>6, <1>7, <1>8 DEF CarriesLog

\* A sender may send: its queue is the tail of the log, of which the packets in
\* flight are parts.
MaySend(L, s) ==
  /\ QueueOf(L, s) /\ stream \in Nat /\ (stream = 0 => s.queue = <<>>)
  /\ \A d \in datagrams : d.stream \in 1..stream
  /\ \A d \in Own : CarriesLog(L, d.packet, s.next)
  /\ \A b \in Fronts : b \in Nat \ {0} /\ b <= s.next - Len(s.queue)

Sends(s, from) ==
  /\ outbox' = Sent(s, from) /\ stream' = stream
  /\ datagrams' = datagrams \cup ToViewer(WindowPackets(s.queue, from))

\* Afterwards only packets with the front of the queue as their base are new.
HasSent(L, s) ==
  /\ outbox'.queue = s.queue /\ outbox'.next = s.next /\ QueueOf(L, outbox')
  /\ Front' = s.next - Len(s.queue) /\ Front' \in Nat \ {0}
  /\ \A d \in datagrams' : d.stream \in 1..stream'
  /\ \A d \in Own' : /\ CarriesLog(L, d.packet, outbox'.next)
                     /\ d \in Own \/ PacketEnd(d.packet) >= Front'
                     /\ PacketEnd(d.packet) \in Int
  /\ \A b \in Fronts' : /\ b \in Nat \ {0} /\ b <= Front'
                        /\ b \in Fronts \/ b = Front'

LEMMA SendsOn ==
  ASSUME NEW L, NEW s, NEW from, MaySend(L, s), Sends(s, from)
  PROVE  HasSent(L, s)
<1>0. /\ QueueOf(L, s) /\ stream \in Nat /\ (stream = 0 => s.queue = <<>>)
      /\ \A d \in datagrams : d.stream \in 1..stream
      /\ \A d \in Own : CarriesLog(L, d.packet, s.next)
      /\ \A b \in Fronts : b \in Nat \ {0} /\ b <= s.next - Len(s.queue)
      /\ outbox' = Sent(s, from) /\ stream' = stream
      /\ datagrams' = datagrams \cup ToViewer(WindowPackets(s.queue, from))
  BY DEF MaySend, Sends
<1>1. outbox'.queue = s.queue /\ outbox'.next = s.next
  BY <1>0 DEF Sent
<1>2. QueueOf(L, outbox')
  BY <1>0, <1>1 DEF QueueOf
<1>3. Front' = s.next - Len(s.queue)
  BY <1>1 DEF Front
<1>4. Front' \in Nat \ {0}
  BY <1>0, <1>3, LenProperties DEF QueueOf
<1>5. ASSUME NEW d \in datagrams'
      PROVE  d \in datagrams \/ /\ d.stream = stream /\ s.queue # <<>>
                                /\ CarriesLog(L, d.packet, s.next)
                                /\ d.packet.base = Front' /\ PacketEnd(d.packet) >= Front'
  <2> SUFFICES ASSUME d \in ToViewer(WindowPackets(s.queue, from))
      PROVE  /\ d.stream = stream /\ s.queue # <<>>
             /\ CarriesLog(L, d.packet, s.next)
             /\ d.packet.base = Front' /\ PacketEnd(d.packet) >= Front'
    BY <1>0
  <2>1. PICK p \in WindowPackets(s.queue, from) :
          d = [port |-> active, stream |-> stream, packet |-> p]
    BY DEF ToViewer
  <2>2. d.stream = stream /\ d.packet = p
    BY <2>1
  <2>3. /\ CarriesLog(L, p, s.next) /\ s.queue # <<>>
        /\ p.base = s.next - Len(s.queue) /\ PacketEnd(p) >= p.base
    BY <1>0, SentFromLog
  <2> QED BY <1>3, <2>2, <2>3
<1>6. \A d \in datagrams' : d.stream \in 1..stream'
  BY <1>0, <1>5
<1>7. ASSUME NEW d \in Own'
      PROVE  /\ CarriesLog(L, d.packet, outbox'.next)
             /\ d \in Own \/ (PacketEnd(d.packet) >= Front' /\ d.packet.base = Front')
  <2>1. d \in datagrams' /\ d.stream = stream
    BY <1>0 DEF Own
  <2>2. d \in datagrams => d \in Own
    BY <2>1 DEF Own
  <2>3. CASE d \in datagrams
    BY <1>0, <1>1, <2>2, <2>3
  <2>4. CASE d \notin datagrams
    BY <1>1, <1>5, <2>1, <2>4
  <2> QED BY <2>3, <2>4
<1>8. ASSUME NEW b \in Fronts' PROVE b \in Fronts \/ b = Front'
  <2>1. b = Front' \/ \E d \in Own' : b = d.packet.base
    BY DEF Fronts
  <2>2. \A d \in Own : d.packet.base \in Fronts
    BY DEF Fronts
  <2> QED BY <1>7, <2>1, <2>2
<1>9. ASSUME NEW b \in Fronts' PROVE b \in Nat \ {0} /\ b <= Front'
  BY <1>0, <1>3, <1>4, <1>8
<1>10. ASSUME NEW d \in Own' PROVE PacketEnd(d.packet) \in Int
  <2>1. d.packet \in Packet
    BY <1>7 DEF CarriesLog
  <2>2. d.packet.first \in Nat /\ Len(d.packet.events) \in Nat
    BY <2>1, LenProperties DEF Packet
  <2> QED BY <2>2 DEF PacketEnd
<1> QED BY <1>1, <1>2, <1>3, <1>4, <1>6, <1>7, <1>8, <1>9, <1>10 DEF HasSent

\* ReceiveEvents: the viewer takes part of a packet of the stream it hears.
LEMMA ReceiveKeeps ==
  ASSUME NEW L \in [Nat -> Event], Sound(L), NEW d \in datagrams, ReceiveEvents(d),
         mixed \in BOOLEAN, ~mixed'
  PROVE  Sound(L)'
<1> DEFINE p == d.packet
           base == Base(hostEvents, p)
           end == Received(hostEvents, p)
           n == outbox.next
           len == Len(outbox.queue)
<1>1. d \in Own /\ heard \in {0, stream} /\ d.stream = stream
  BY DEF ReceiveEvents, Own
<1>2. /\ stream \in Nat /\ stream # 0 /\ hostEvents \in Nat /\ n \in Nat /\ len \in Nat /\ len < n
      /\ promised \in 0..MaxText /\ Front = n - len
  <2>1. outbox.queue \in Seq(Entry) /\ n \in Nat /\ len < n
    BY DEF Sound, Logged, QueueOf
  <2>2. len \in Nat
    BY <2>1, LenProperties
  <2> QED BY <1>1, <2>1, <2>2 DEF Sound, Ends, Front
<1>3. /\ hostEvents' = end /\ heard' = stream
      /\ UNCHANGED <<outbox, stream, promised, texts, datagrams>>
      /\ answers' = answers \cup {[port |-> port, stream |-> stream, sequence |-> end]}
  BY <1>1 DEF ReceiveEvents, host
<1>4. /\ end \in Nat /\ end < n /\ end >= base /\ base >= hostEvents /\ base \in Nat
      /\ end > base => end = PacketEnd(p)
      /\ end = base => assembly' = assembly /\ copied' = copied
      /\ Carried(L, end, assembly', copied')
  <2> DEFINE joined == Joined(AppliedEvents(hostEvents, p))
  <2>1. assembly' = joined.text /\ copied' = joined.done
    BY DEF ReceiveEvents
  <2>2. /\ end \in Nat /\ end < n /\ end >= base /\ base >= hostEvents
        /\ end > base => end = PacketEnd(p)
        /\ end = base => joined.text = assembly /\ joined.done = copied
        /\ Carried(L, end, joined.text, joined.done)
    BY <1>1, ReceivedText
  <2>3. base \in Nat
    BY <1>1, CarriedAtBase
  <2> HIDE DEF joined
  <2> QED BY <2>1, <2>2, <2>3
<1> HIDE DEF base, end
<1>5. Front' = Front /\ Own' = Own /\ Fronts' = Fronts /\ Hearing'
  <2>1. Front' = Front /\ Own' = Own /\ Hearing'
    BY <1>2, <1>3 DEF Front, Own, Hearing
  <2> QED BY <2>1 DEF Fronts
<1>6. Logged(L)'
  BY <1>3, <1>5 DEF Sound, Logged, InPairs
<1>7. Carried(L, hostEvents, assembly, copied)'
  BY <1>3, <1>4 DEF Carried
<1>8. Ends'
  <2>1. /\ stream' \in Nat /\ heard' \in 0..stream' /\ hostEvents' \in Nat
        /\ texts' \in 0..MaxText /\ promised' \in 0..MaxText
        /\ stream' = 0 => outbox'.queue = <<>>
        /\ \A e \in datagrams' : e.stream \in 1..stream'
        /\ Hearing' => hostEvents' < outbox'.next
        /\ heard' # 0
    BY <1>2, <1>3, <1>4 DEF Sound, Ends
  <2>2. /\ assembly' = <<>> \/ \E t \in Text : assembly' = One(t)
        /\ copied' \in TextOrNone
    BY <1>7 DEF Carried
  <2>3. ASSUME NEW a \in answers'
        PROVE  /\ a.sequence \in Nat /\ a.stream \in 1..stream'
               /\ a.stream = stream' => Hearing' /\ a.sequence <= hostEvents'
    <3>1. a \in answers \/ (a.stream = stream /\ a.sequence = end)
      BY <1>3
    <3>2. CASE a \in answers
      <4>1. /\ a.sequence \in Nat /\ a.stream \in 1..stream
            /\ a.stream = stream => a.sequence <= hostEvents
        BY <3>2 DEF Sound, Ends
      <4> QED BY <1>2, <1>3, <1>4, <1>5, <4>1
    <3>3. CASE a.stream = stream /\ a.sequence = end
      BY <1>2, <1>3, <1>4, <1>5, <3>3
    <3> QED BY <3>1, <3>2, <3>3
  <2> QED BY <2>1, <2>2, <2>3 DEF Ends
<1>9. \A e \in Own, b \in Fronts :
        \/ b <= PacketEnd(e.packet)
        \/ Hearing /\ PacketEnd(e.packet) <= hostEvents
        \/ GivenUp(L, b)
  BY DEF Sound, OldIsHeard
<1>10. \A e \in Own : PacketEnd(e.packet) \in Int
  <2> SUFFICES ASSUME NEW e \in Own PROVE PacketEnd(e.packet) \in Int
    OBVIOUS
  <2>1. e.packet \in Packet
    BY DEF Sound, Logged, CarriesLog
  <2>2. e.packet.first \in Nat /\ Len(e.packet.events) \in Nat
    BY <2>1, LenProperties DEF Packet
  <2> QED BY <2>2 DEF PacketEnd
<1>11. \A b \in Fronts : b \in Nat /\ b <= Front
  BY DEF Sound, Logged
<1>12. \A b : GivenUp(L, b)' <=> GivenUp(L, b)
  BY <1>3 DEF GivenUp
<1>13. OldIsHeard(L)'
  <2> SUFFICES ASSUME NEW e \in Own, NEW b \in Fronts
      PROVE  b <= PacketEnd(e.packet) \/ PacketEnd(e.packet) <= end \/ GivenUp(L, b)
    BY <1>3, <1>5, <1>12 DEF OldIsHeard
  <2>1. PacketEnd(e.packet) <= hostEvents => PacketEnd(e.packet) <= end
    BY <1>2, <1>4, <1>10
  <2> QED BY <1>9, <2>1
<1>14. NothingTorn(L)'
  <2> SUFFICES ASSUME assembly' # <<>>, NEW b \in Fronts
      PROVE  b - 1 <= end \/ GivenUp(L, b)
    BY <1>3, <1>5, <1>12 DEF NothingTorn
  <2>1. CASE end > base
    <3>1. ~(PacketEnd(p) <= hostEvents)
      BY <1>2, <1>4, <2>1
    <3>2. b <= PacketEnd(p) \/ GivenUp(L, b)
      BY <1>1, <1>9, <3>1
    <3>3. b <= end => b - 1 <= end
      BY <1>4, <1>11
    <3> QED BY <1>4, <2>1, <3>2, <3>3
  <2>2. CASE end = base
    <3>1. assembly # <<>>
      BY <1>4, <2>2
    <3>2. Hearing
      BY <1>1, <1>2, <3>1 DEF Sound, Ends, Hearing
    <3>3. b - 1 <= hostEvents \/ GivenUp(L, b)
      BY <3>1, <3>2 DEF Sound, NothingTorn
    <3>4. b - 1 <= hostEvents => b - 1 <= end
      BY <1>2, <1>4, <1>11
    <3> QED BY <3>3, <3>4
  <2> QED BY <1>4, <2>1, <2>2
<1>15. LetGoWhenBrought'
  <2> SUFFICES ASSUME promised # 0, len <= 1, len = 0 \/ end < n - 2
      PROVE  copied' = Pieces(promised)
    <3>1. outbox.queue = <<>> => len = 0
      OBVIOUS
    <3> HIDE DEF len, n
    <3> QED BY <1>2, <1>3, <1>5, <3>1 DEF LetGoWhenBrought, len, n
  <2>1. promised # 0 => n >= 3 /\ L[n - 1] = Piece(promised, 2) /\ promised \in Text
    BY <1>2 DEF Sound, Logged, Text
  <2>2. CASE end > base
    <3>1. ~(PacketEnd(p) <= hostEvents) /\ end = PacketEnd(p)
      BY <1>2, <1>4, <2>2
    <3>2. Front \in Fronts
      BY DEF Fronts
    <3>3. Front <= PacketEnd(p) \/ GivenUp(L, Front)
      BY <1>1, <1>9, <3>1, <3>2
    <3>4. ~GivenUp(L, Front)
      <4>1. len = 0 \/ len = 1
        <5>1. len \in Nat /\ len <= 1
          BY <1>2
        <5> HIDE DEF len
        <5> QED BY <5>1
      <4>2. CASE len = 0
        BY <1>2, <4>2 DEF GivenUp
      <4>3. CASE len = 1
        <5>1. Front = n - 1
          BY <1>2, <4>3
        <5> QED BY <2>1, <5>1, PieceKinds DEF GivenUp
      <4> QED BY <4>1, <4>2, <4>3
    <3>5. end >= n - len
      BY <1>2, <3>1, <3>3, <3>4
    <3> HIDE DEF n, len
    <3>6. FALSE
      BY <1>2, <1>4, <3>5
    <3> QED BY <3>6
  <2>3. CASE end = base
    <3>1. copied' = copied
      BY <1>4, <2>3
    <3>2. hostEvents <= end
      BY <1>2, <1>4
    <3>3. outbox.queue = <<>> \/ hostEvents < n - 2
      <4>1. len = 0 => outbox.queue = <<>>
        <5>1. outbox.queue \in Seq(Entry)
          BY DEF Sound, Logged, QueueOf
        <5> QED BY <5>1, EmptySeq
      <4> HIDE DEF n, len
      <4> QED BY <1>2, <1>4, <3>2, <4>1
    <3> QED BY <3>1, <3>3 DEF Sound, LetGoWhenBrought
  <2> QED BY <1>4, <2>2, <2>3
<1> QED BY <1>6, <1>7, <1>8, <1>13, <1>14, <1>15 DEF Sound

\* The numbers of the invariant.
LEMMA CopyNumbers ==
  ASSUME NEW L \in [Nat -> Event], Sound(L)
  PROVE  /\ outbox.queue \in Seq(Entry) /\ Len(outbox.queue) \in Nat
         /\ outbox.next \in Nat \ {0} /\ Len(outbox.queue) < outbox.next
         /\ Front \in Nat \ {0} /\ Front = outbox.next - Len(outbox.queue) /\ Front \in Fronts
         /\ stream \in Nat /\ hostEvents \in Nat /\ promised \in 0..MaxText
         /\ promised # 0 => /\ outbox.next >= 3 /\ promised \in Text
                            /\ L[outbox.next - 2] = Piece(promised, 1)
                            /\ L[outbox.next - 1] = Piece(promised, 2)
         /\ \A d \in Own : PacketEnd(d.packet) \in Int
         /\ outbox.queue = <<>> <=> Len(outbox.queue) = 0
<1>1. outbox.queue \in Seq(Entry) /\ outbox.next \in Nat \ {0} /\ Len(outbox.queue) < outbox.next
  BY DEF Sound, Logged, QueueOf
<1>2. Len(outbox.queue) \in Nat /\ (outbox.queue = <<>> <=> Len(outbox.queue) = 0)
  BY <1>1, LenProperties, EmptySeq
<1>3. Front \in Nat \ {0} /\ Front = outbox.next - Len(outbox.queue) /\ Front \in Fronts
  BY <1>1, <1>2 DEF Front, Fronts
<1>4. stream \in Nat /\ hostEvents \in Nat /\ promised \in 0..MaxText
  BY DEF Sound, Ends
<1>5. promised # 0 => /\ outbox.next >= 3 /\ promised \in Text
                      /\ L[outbox.next - 2] = Piece(promised, 1)
                      /\ L[outbox.next - 1] = Piece(promised, 2)
  BY <1>4 DEF Sound, Logged, Text
<1>6. ASSUME NEW e \in Own PROVE PacketEnd(e.packet) \in Int
  <2>1. e.packet \in Packet
    BY DEF Sound, Logged, CarriesLog
  <2>2. e.packet.first \in Nat /\ Len(e.packet.events) \in Nat
    BY <2>1, LenProperties DEF Packet
  <2> QED BY <2>2 DEF PacketEnd
<1> QED BY <1>1, <1>2, <1>3, <1>4, <1>5, <1>6

\* Suspend: with no text begun, the stream is read from where the host stands.
LEMMA SuspendKeeps ==
  ASSUME NEW L \in [Nat -> Event], Sound(L), Suspend, cut \in BOOLEAN, ~cut'
  PROVE  Sound(L)'
<1> DEFINE n == outbox.next
           len == Len(outbox.queue)
<1>1. /\ hostEvents' = 0 /\ heard' = 0 /\ answers' = {} /\ assembly = <<>>
      /\ UNCHANGED <<outbox, stream, promised, texts, assembly, copied>>
      /\ datagrams' = StillInFlight
  BY DEF Suspend, host
<1>2. /\ outbox.queue \in Seq(Entry) /\ len \in Nat /\ n \in Nat \ {0} /\ len < n
      /\ Front = n - len /\ Front \in Nat \ {0}
      /\ stream \in Nat /\ hostEvents \in Nat /\ promised \in 0..MaxText
      /\ \A d \in Own : PacketEnd(d.packet) \in Int
  BY CopyNumbers
<1>3. ~Hearing'
  BY <1>1 DEF Hearing
<1>4. Own' \subseteq Own /\ datagrams' \subseteq datagrams
  BY <1>1 DEF Own, StillInFlight
<1>5. Front' = Front /\ Fronts' \subseteq Fronts
  <2>1. Front' = Front
    BY <1>1 DEF Front
  <2> QED BY <1>4, <2>1 DEF Fronts
<1>6. ASSUME NEW d \in Own' PROVE PacketEnd(d.packet) >= Front
  <2>1. d \in datagrams' /\ d.stream = stream
    BY <1>1 DEF Own
  <2>2. PICK k \in DOMAIN outbox.queue : outbox.queue[k].seq = PacketEnd(d.packet)
    BY <1>1, <2>1 DEF StillInFlight
  <2>3. k \in 1..len
    BY <1>2, LenProperties
  <2>4. outbox.queue[k].seq = n - len + k - 1
    BY <2>3 DEF Sound, Logged, QueueOf
  <2> HIDE DEF n, len
  <2> QED BY <1>2, <2>2, <2>3, <2>4
<1>7. Logged(L)'
  BY <1>1, <1>4, <1>5 DEF Sound, Logged, InPairs
<1>8. Ends'
  BY <1>1, <1>3, <1>4 DEF Sound, Ends
<1>9. NothingTorn(L)'
  BY <1>3 DEF NothingTorn
<1>10. OldIsHeard(L)'
  <2> SUFFICES ASSUME NEW d \in Own', NEW b \in Fronts' PROVE b <= PacketEnd(d.packet)
    BY DEF OldIsHeard
  <2>1. b \in Nat /\ b <= Front /\ d \in Own
    BY <1>4, <1>5 DEF Sound, Logged
  <2> QED BY <1>2, <1>6, <2>1
<1>11. LetGoWhenBrought'
  <2> SUFFICES ASSUME promised # 0, outbox.queue = <<>> \/ len <= 1
      PROVE  copied = Pieces(promised)
    BY <1>1 DEF LetGoWhenBrought
  <2>1. outbox.queue = <<>> => copied = Pieces(promised)
    BY DEF Sound, LetGoWhenBrought
  <2>2. len <= 1 /\ (Hearing => hostEvents < n - 2) => copied = Pieces(promised)
    BY DEF Sound, LetGoWhenBrought
  <2>3. ASSUME Hearing, ~(hostEvents < n - 2) PROVE copied = Pieces(promised)
    <3>1. hostEvents < n
      BY <2>3 DEF Sound, Ends
    <3>2. hostEvents = n - 2 \/ hostEvents = n - 1
      <4>1. n \in Nat /\ hostEvents \in Nat /\ hostEvents < n /\ ~(hostEvents < n - 2)
        BY <1>2, <2>3, <3>1
      <4> HIDE DEF n
      <4> QED BY <4>1
    <3>3. /\ hostEvents = n - 2 => copied = Pieces(promised) \/ assembly = One(promised)
          /\ hostEvents = n - 1 => copied = Pieces(promised)
      BY <2>3 DEF Sound, Carried
    <3>4. One(promised) # <<>>
      BY CopyNumbers, PartlyJoined
    <3> QED BY <1>1, <3>2, <3>3, <3>4
  <2> QED BY <2>1, <2>2, <2>3
<1> QED BY <1>3, <1>7, <1>8, <1>9, <1>10, <1>11 DEF Sound

\* HostResend: the same log, once more.
LEMMA ResendKeeps ==
  ASSUME NEW L \in [Nat -> Event], Sound(L), HostResend
  PROVE  Sound(L)'
<1>1. /\ Sends(outbox, outbox.queue[1].seq)
      /\ UNCHANGED <<stream, promised, texts, answers>>
      /\ UNCHANGED <<hostEvents, assembly, copied, heard>>
  BY DEF HostResend, AfterRetransmit, RetransmitPackets, viewer, Sends
<1>2. MaySend(L, outbox)
  BY DEF MaySend, Sound, Logged, Ends, Front
<1>3. /\ HasSent(L, outbox) /\ Front' = Front
      /\ outbox'.queue = outbox.queue /\ outbox'.next = outbox.next
  BY <1>1, <1>2, SendsOn DEF HasSent, Front
<1>4. Front \in Fronts
  BY DEF Fronts
<1>5. Hearing' = Hearing /\ Fronts' \subseteq Fronts /\ \A b : GivenUp(L, b)' <=> GivenUp(L, b)
  BY <1>1, <1>3, <1>4 DEF HasSent, Hearing, GivenUp
<1>6. Logged(L)'
  BY <1>1, <1>3 DEF Sound, Logged, InPairs, HasSent
<1>7. Ends'
  BY <1>1, <1>3, <1>5 DEF Sound, Ends, HasSent
<1>8. Hearing' => Carried(L, hostEvents, assembly, copied)'
  BY <1>1, <1>3, <1>5 DEF Sound, Carried
<1>9. NothingTorn(L)'
  BY <1>1, <1>5 DEF Sound, NothingTorn
<1>10. OldIsHeard(L)'
  <2> SUFFICES ASSUME NEW d \in Own', NEW b \in Fronts'
      PROVE  b <= PacketEnd(d.packet) \/ (Hearing /\ PacketEnd(d.packet) <= hostEvents) \/ GivenUp(L, b)
    BY <1>1, <1>5 DEF OldIsHeard
  <2>1. CASE d \in Own
    BY <1>5, <2>1 DEF Sound, OldIsHeard
  <2>2. CASE d \notin Own
    BY <1>3, <2>2 DEF HasSent
  <2> QED BY <2>1, <2>2
<1>11. LetGoWhenBrought'
  BY <1>1, <1>3, <1>5 DEF Sound, LetGoWhenBrought
<1> QED BY <1>6, <1>7, <1>8, <1>9, <1>10, <1>11 DEF Sound

\* StartOver: a stream of which nothing was sent or heard yet.
LEMMA StartOverKeeps ==
  ASSUME NEW L \in [Nat -> Event], Sound(L), StartOver
  PROVE  Sound(L)'
<1>1. /\ outbox' = NewSender /\ stream' = stream + 1 /\ promised' = 0
      /\ UNCHANGED <<texts, datagrams, answers, hostEvents, assembly, copied, heard>>
  BY DEF StartOver, viewer, network
<1>2. /\ stream \in Nat /\ heard \in 0..stream
      /\ \A d \in datagrams : d.stream \in 1..stream
      /\ \A a \in answers : a.stream \in 1..stream
  BY DEF Sound, Ends
<1>3. outbox'.queue = <<>> /\ outbox'.next = 1 /\ Len(<<>>) = 0
  BY <1>1 DEF NewSender
<1>4. ~Hearing' /\ Own' = {} /\ Front' = 1
  <2>1. ~Hearing'
    BY <1>1, <1>2 DEF Hearing
  <2>2. Own' = {}
    BY <1>1, <1>2 DEF Own
  <2>3. Front' = 1
    BY <1>3 DEF Front
  <2> QED BY <2>1, <2>2, <2>3
<1>5. Fronts' = {1}
  BY <1>4 DEF Fronts
<1>6. QueueOf(L, outbox)'
  BY <1>3 DEF QueueOf
<1>7. Logged(L)'
  BY <1>1, <1>3, <1>4, <1>5, <1>6 DEF Logged, InPairs
<1>8. Ends'
  <2>1. /\ stream' \in Nat /\ stream' # 0 /\ heard' \in 0..stream'
        /\ \A d \in datagrams' : d.stream \in 1..stream'
        /\ \A a \in answers' : a.stream \in 1..stream' /\ a.stream # stream'
    BY <1>1, <1>2
  <2>2. promised' \in 0..MaxText
    BY <1>1, CopyAssumption
  <2> QED BY <1>1, <1>4, <2>1, <2>2 DEF Sound, Ends
<1>9. NothingTorn(L)' /\ OldIsHeard(L)' /\ LetGoWhenBrought'
  BY <1>1, <1>4 DEF NothingTorn, OldIsHeard, LetGoWhenBrought
<1> QED BY <1>4, <1>7, <1>8, <1>9 DEF Sound

\* HostReceiveAck: the queue loses no more than the viewer has.
LEMMA AckKeeps ==
  ASSUME NEW L \in [Nat -> Event], Sound(L), NEW a \in answers, HostReceiveAck(a),
         mixed \in BOOLEAN, ~mixed'
  PROVE  Sound(L)'
<1> DEFINE n == outbox.next
           len == Len(outbox.queue)
           gone == Acknowledged(outbox.queue, a.sequence)
           s == Acknowledge(outbox, a.sequence)
<1>1. /\ Sends(s, s.sentThrough + 1) /\ a.stream = stream
      /\ UNCHANGED <<stream, promised, texts, answers>>
      /\ UNCHANGED <<hostEvents, assembly, copied, heard>>
  BY DEF HostReceiveAck, AfterSendNew, NewPackets, viewer, Sends
<1>2. /\ outbox.queue \in Seq(Entry) /\ len \in Nat /\ n \in Nat \ {0} /\ len < n
      /\ Front = n - len /\ Front \in Nat \ {0} /\ Front \in Fronts
      /\ stream \in Nat /\ hostEvents \in Nat /\ promised \in 0..MaxText
      /\ \A d \in Own : PacketEnd(d.packet) \in Int
      /\ (outbox.queue = <<>> <=> len = 0)
  BY CopyNumbers
<1>3. a.sequence \in Nat /\ Hearing /\ a.sequence <= hostEvents
  BY <1>1 DEF Sound, Ends
<1>4. \A k \in 1..len : /\ outbox.queue[k].seq = Front + k - 1
                        /\ outbox.queue[k].event = L[outbox.queue[k].seq]
  BY <1>2 DEF Sound, Logged, QueueOf
<1>5. gone \in 0..len /\ (\A k \in 1..gone : Front + k - 1 <= a.sequence)
  BY <1>2, <1>3, <1>4, AcknowledgedCount
<1>6. s.queue = SubSeq(outbox.queue, gone + 1, len) /\ s.next = n
  BY DEF Acknowledge
<1>7. /\ s.queue \in Seq(Entry) /\ Len(s.queue) = len - gone
      /\ \A k \in 1..Len(s.queue) : s.queue[k] = outbox.queue[gone + k]
  <2> DEFINE q == outbox.queue
             rest == SubSeq(q, gone + 1, Len(q))
  <2>1. q \in Seq(Entry) /\ gone \in 0..Len(q) /\ s.queue = rest
    BY <1>2, <1>5, <1>6
  <2> HIDE DEF gone, q
  <2>2. /\ rest \in Seq(Entry) /\ Len(rest) = Len(q) - gone
        /\ \A k \in 1..Len(rest) : rest[k] = q[gone + k]
    BY <2>1, RestOfSeq
  <2> HIDE DEF rest
  <2> QED BY <2>1, <2>2 DEF q
<1>8. QueueOf(L, s)
  <2>1. ASSUME NEW k \in 1..Len(s.queue)
        PROVE  /\ s.queue[k].seq = s.next - Len(s.queue) + k - 1
               /\ s.queue[k].event = L[s.queue[k].seq]
    <3> DEFINE i == gone + k
    <3>1. i \in 1..len /\ Front + i - 1 = n - (len - gone) + k - 1
      <4>1. /\ k \in Nat /\ k >= 1 /\ k <= len - gone /\ gone \in Nat /\ len \in Nat
            /\ n \in Nat /\ Front = n - len
        BY <1>2, <1>5, <1>7
      <4> HIDE DEF n, len, gone
      <4> QED BY <4>1
    <3>2. s.queue[k] = outbox.queue[i]
      BY <1>7
    <3> HIDE DEF i
    <3> QED BY <1>4, <1>6, <1>7, <3>1, <3>2
  <2>2. s.queue \in Seq(Entry) /\ s.next \in Nat \ {0} /\ Len(s.queue) < s.next
    <3>1. Len(s.queue) = len - gone /\ gone \in Nat /\ len \in Nat /\ n \in Nat /\ len < n
      BY <1>2, <1>5, <1>7
    <3>2. len - gone < n
      <4> HIDE DEF n, len, gone
      <4> QED BY <3>1
    <3> QED BY <1>2, <1>6, <1>7, <3>1, <3>2
  <2> HIDE DEF s
  <2> QED BY <2>1, <2>2, Zenon DEF QueueOf
<1>9. MaySend(L, s)
  <2>1. stream = 0 => s.queue = <<>>
    <3> SUFFICES ASSUME stream = 0 PROVE s.queue = <<>>
      OBVIOUS
    <3>1. len = 0
      BY <1>2 DEF Sound, Ends
    <3>2. Len(s.queue) = 0
      BY <1>5, <1>7, <3>1
    <3> QED BY <1>7, <3>2, EmptySeq
  <2>2. \A b \in Fronts : b \in Nat \ {0} /\ b <= s.next - Len(s.queue)
    <3> SUFFICES ASSUME NEW b \in Fronts PROVE b \in Nat \ {0} /\ b <= s.next - Len(s.queue)
      OBVIOUS
    <3>1. b \in Nat \ {0} /\ b <= Front
      BY DEF Sound, Logged
    <3> QED BY <1>2, <1>5, <1>6, <1>7, <3>1
  <2> QED BY <1>2, <1>6, <1>8, <2>1, <2>2 DEF MaySend, Sound, Logged, Ends
<1>10. HasSent(L, s)
  BY <1>1, <1>9, SendsOn
<1>11. /\ Front' = Front + gone /\ outbox'.next = n /\ Len(outbox'.queue) = len - gone
       /\ outbox'.queue = s.queue
  BY <1>2, <1>5, <1>6, <1>7, <1>10 DEF HasSent
\* The front moved no further than where the viewer stands.
<1>12. gone = 0 \/ Front + gone - 1 <= hostEvents
  <2> SUFFICES ASSUME gone # 0 PROVE Front + gone - 1 <= hostEvents
    OBVIOUS
  <2>1. gone \in 1..gone /\ gone \in Nat
    BY <1>5
  <2>2. Front + gone - 1 <= a.sequence
    BY <1>5, <2>1
  <2> HIDE DEF gone
  <2> QED BY <1>2, <1>3, <2>1, <2>2
<1> HIDE DEF s, gone
<1>13. Hearing' /\ \A b : GivenUp(L, b)' <=> GivenUp(L, b)
  BY <1>1, <1>3, <1>11 DEF Hearing, GivenUp
<1>14. Logged(L)'
  BY <1>1, <1>10, <1>11 DEF Sound, Logged, InPairs, HasSent
<1>15. stream = 0 => outbox'.queue = <<>>
  BY <1>9, <1>11 DEF MaySend
<1>16. Ends'
  BY <1>1, <1>3, <1>10, <1>11, <1>13, <1>15 DEF Sound, Ends, HasSent
<1>17. Carried(L, hostEvents, assembly, copied)'
  BY <1>1, <1>3, <1>11 DEF Sound, Carried
<1>18. ASSUME NEW b \in Fronts' PROVE b \in Fronts \/ (b \in Nat /\ b - 1 <= hostEvents)
  <2> SUFFICES ASSUME b \notin Fronts PROVE b \in Nat /\ b - 1 <= hostEvents
    OBVIOUS
  <2>1. b = Front'
    BY <1>10 DEF HasSent
  <2>2. gone # 0
    <3> SUFFICES ASSUME gone = 0 PROVE FALSE
      OBVIOUS
    <3>1. Front' = Front
      BY <1>2, <1>11
    <3> QED BY <1>2, <2>1, <3>1
  <2>3. b = Front + gone /\ gone \in Nat /\ Front + gone - 1 <= hostEvents
    BY <1>5, <1>11, <1>12, <2>1, <2>2
  <2>4. Front \in Nat /\ hostEvents \in Nat
    BY <1>2
  <2>5. Front + gone \in Nat /\ (Front + gone) - 1 <= hostEvents
    BY <2>3, <2>4
  <2> QED BY <2>3, <2>5
<1>19. NothingTorn(L)'
  BY <1>1, <1>3, <1>13, <1>18 DEF Sound, NothingTorn
<1>20. OldIsHeard(L)'
  <2> SUFFICES ASSUME NEW d \in Own', NEW b \in Fronts'
      PROVE  b <= PacketEnd(d.packet) \/ PacketEnd(d.packet) <= hostEvents \/ GivenUp(L, b)
    BY <1>1, <1>13 DEF OldIsHeard
  <2>1. PacketEnd(d.packet) \in Int /\ b \in Nat
    BY <1>10 DEF HasSent
  <2>2. CASE d \in Own /\ b \in Fronts
    BY <2>2 DEF Sound, OldIsHeard
  <2>3. CASE b - 1 <= hostEvents
    BY <1>2, <2>1, <2>3
  <2>4. CASE PacketEnd(d.packet) >= Front'
    <3>1. b <= Front' /\ Front' \in Nat
      BY <1>10 DEF HasSent
    <3> QED BY <2>1, <2>4, <3>1
  <2>5. d \in Own \/ PacketEnd(d.packet) >= Front'
    BY <1>10 DEF HasSent
  <2> QED BY <1>18, <2>2, <2>3, <2>4, <2>5
<1>21. LetGoWhenBrought'
  <2> SUFFICES ASSUME promised # 0, len - gone = 0 \/ (len - gone <= 1 /\ hostEvents < n - 2)
      PROVE  copied = Pieces(promised)
    <3>1. outbox'.queue = <<>> => len - gone = 0
      BY <1>2, <1>5, <1>11
    <3> HIDE DEF n, len
    <3> QED BY <1>1, <1>11, <1>13, <3>1 DEF LetGoWhenBrought, n
  <2>1. outbox.queue = <<>> => copied = Pieces(promised)
    BY DEF Sound, LetGoWhenBrought
  <2>2. len <= 1 /\ hostEvents < n - 2 => copied = Pieces(promised)
    BY <1>3 DEF Sound, LetGoWhenBrought
  <2>3. hostEvents < n
    BY <1>3 DEF Sound, Ends
  <2>4. hostEvents = n - 1 => copied = Pieces(promised)
    BY <1>3 DEF Sound, Carried
  <2>5. CASE gone = 0
    <3>1. len - gone = len
      BY <1>2, <2>5
    <3> QED BY <1>2, <2>1, <2>2, <3>1
  <2>6. CASE gone # 0
    <3>1. n - len + gone - 1 <= hostEvents
      BY <1>2, <1>12, <2>6
    <3>2. gone \in Nat /\ n \in Nat /\ len \in Nat /\ hostEvents \in Nat
      BY <1>2, <1>5
    <3> HIDE DEF n, len
    <3>3. hostEvents = n - 1
      BY <2>3, <3>1, <3>2
    <3> QED BY <2>4, <3>3
  <2> QED BY <2>5, <2>6
<1> QED BY <1>14, <1>16, <1>17, <1>19, <1>20, <1>21 DEF Sound

\* A push makes the log L longer, to M, which the sender s then holds: with a
\* text that goes behind the queue, or with a release-all that takes its place.
Extends(L, M, s) ==
  /\ QueueOf(M, s) /\ s.next > outbox.next
  /\ \A k \in Nat : k < outbox.next => M[k] = L[k]
  /\ \A t \in Text : M[outbox.next] # Piece(t, 2)
  /\ \A k \in Nat, t \in Text : outbox.next < k /\ k < s.next /\ M[k] = Piece(t, 2) =>
                                  M[k - 1] = Piece(t, 1)

Queues(M, s, text) ==
  /\ s.next = outbox.next + 2 /\ Len(s.queue) = Len(outbox.queue) + 2
  /\ text \in Text /\ M[outbox.next] = Piece(text, 1) /\ M[outbox.next + 1] = Piece(text, 2)

Replaces(M, s, text) ==
  text = 0 /\ Len(s.queue) = 1 /\ M[s.next - 1] = ReleaseAll

IsPush(M, s) == Queues(M, s, promised') \/ Replaces(M, s, promised')

OnlyQueues ==
  /\ stream # 0 /\ texts' \in 0..MaxText
  /\ UNCHANGED <<stream, answers, hostEvents, assembly, copied, heard>>

LEMMA PushKeeps ==
  ASSUME NEW L \in [Nat -> Event], Sound(L), NEW M \in [Nat -> Event], NEW s, NEW from,
         Extends(L, M, s), Sends(s, from), IsPush(M, s), OnlyQueues
  PROVE  Sound(M)'
<1> DEFINE n == outbox.next
           len == Len(outbox.queue)
           m == s.next
           size == Len(s.queue)
<1>0. /\ stream # 0 /\ texts' \in 0..MaxText
      /\ UNCHANGED <<stream, answers, hostEvents, assembly, copied, heard>>
  BY DEF OnlyQueues
<1>1. /\ outbox.queue \in Seq(Entry) /\ len \in Nat /\ n \in Nat \ {0} /\ len < n
      /\ Front = n - len /\ Front \in Nat \ {0} /\ Front \in Fronts
      /\ stream \in Nat /\ hostEvents \in Nat /\ promised \in 0..MaxText
      /\ \A d \in Own : PacketEnd(d.packet) \in Int
      /\ (outbox.queue = <<>> <=> len = 0)
  BY CopyNumbers
<1>2. /\ QueueOf(M, s) /\ m > n /\ m \in Nat \ {0} /\ size \in Nat
      /\ \A k \in Nat : k < n => M[k] = L[k]
      /\ \A t \in Text : M[n] # Piece(t, 2)
      /\ \A k \in Nat, t \in Text : n < k /\ k < m /\ M[k] = Piece(t, 2) =>
                                      M[k - 1] = Piece(t, 1)
  BY LenProperties DEF Extends, QueueOf
<1>3. \/ /\ m = n + 2 /\ size = len + 2 /\ promised' \in Text
         /\ M[n] = Piece(promised', 1) /\ M[n + 1] = Piece(promised', 2)
      \/ promised' = 0 /\ size = 1 /\ M[m - 1] = ReleaseAll
  BY DEF IsPush, Queues, Replaces
<1>4. /\ m - size >= Front /\ m - size \in Nat \ {0}
      /\ m - size = Front \/ (m - size < m /\ M[m - size] = ReleaseAll)
  <2>1. CASE m = n + 2 /\ size = len + 2
    <3> HIDE DEF n, m, len, size
    <3> QED BY <1>1, <2>1
  <2>2. CASE size = 1 /\ M[m - 1] = ReleaseAll
    <3> HIDE DEF n, m, len, size
    <3> QED BY <1>1, <1>2, <2>2
  <2> QED BY <1>3, <2>1, <2>2
<1>5. ASSUME NEW d \in Own PROVE CarriesLog(M, d.packet, m)
  <2> DEFINE p == d.packet
             first == p.first
             last == PacketEnd(p)
  <2>1. CarriesLog(L, p, n)
    BY DEF Sound, Logged
  <2>2. /\ p \in Packet /\ Len(p.events) >= 1 /\ p.base <= first /\ last < n
        /\ \A i \in 1..Len(p.events) : p.events[i] = L[first + i - 1]
        /\ first \in Nat \ {0} /\ Len(p.events) \in Nat /\ last = first + Len(p.events) - 1
    <3>1. p \in Packet
      BY <2>1 DEF CarriesLog
    <3>2. p.first \in Nat \ {0} /\ Len(p.events) \in Nat
      BY <3>1, LenProperties DEF Packet
    <3> QED BY <2>1, <3>2 DEF CarriesLog, PacketEnd
  <2> HIDE DEF first, last, p
  <2>3. ASSUME NEW i \in 1..Len(p.events) PROVE p.events[i] = M[first + i - 1]
    <3>1. first + i - 1 \in Nat /\ first + i - 1 < n
      <4>1. /\ i \in Nat /\ i >= 1 /\ i <= Len(p.events) /\ n \in Nat
        BY <1>1, <2>2
      <4> HIDE DEF n
      <4> QED BY <2>2, <4>1
    <3> QED BY <1>2, <2>2, <3>1
  <2>4. last < m
    BY <1>1, <1>2, <2>2
  <2>5. CarriesLog(M, p, m)
    BY <2>2, <2>3, <2>4 DEF CarriesLog, first, last
  <2> QED BY <2>5 DEF p
<1>6. MaySend(M, s)
  <2>1. \A b \in Fronts : b \in Nat \ {0} /\ b <= m - size
    <3> SUFFICES ASSUME NEW b \in Fronts PROVE b \in Nat \ {0} /\ b <= m - size
      OBVIOUS
    <3>1. b \in Nat \ {0} /\ b <= Front
      BY DEF Sound, Logged
    <3> HIDE DEF m, size
    <3> QED BY <1>1, <1>4, <3>1
  <2>2. \A d \in datagrams : d.stream \in 1..stream
    BY DEF Sound, Ends
  <2> QED BY <1>0, <1>1, <1>2, <1>5, <2>1, <2>2 DEF MaySend
<1>7. HasSent(M, s)
  BY <1>6, SendsOn
<1>8. outbox'.queue = s.queue /\ outbox'.next = m /\ Front' = m - size
  BY <1>7 DEF HasSent
<1>9. Hearing' = Hearing
  BY <1>0 DEF Hearing
<1>10. Hearing => hostEvents < n
  BY DEF Sound, Ends
<1>11. \A b \in Nat : GivenUp(L, b) => GivenUp(M, b)'
  BY <1>1, <1>2, <1>8 DEF GivenUp
<1>12. ASSUME NEW b \in Fronts' PROVE b \in Nat /\ b <= Front' /\ (b \in Fronts \/ GivenUp(M, b)')
  <2>1. b \in Nat /\ b <= Front' /\ (b \in Fronts \/ b = Front')
    BY <1>7 DEF HasSent
  <2>2. CASE b = Front'
    <3>1. b = Front \/ (b < m /\ M[b] = ReleaseAll)
      BY <1>4, <1>8, <2>2
    <3>2. b < outbox'.next /\ M[b] = ReleaseAll => GivenUp(M, b)'
      BY DEF GivenUp
    <3> QED BY <1>1, <1>8, <2>1, <3>1, <3>2
  <2> QED BY <2>1, <2>2
<1> HIDE DEF n, m, len, size
<1>13. InPairs(M)'
  <2> SUFFICES ASSUME NEW k \in Nat, NEW t \in Text, k < m, k >= 1, M[k] = Piece(t, 2)
      PROVE  k >= 2 /\ M[k - 1] = Piece(t, 1)
    BY <1>8 DEF InPairs
  <2>1. CASE k < n
    <3>1. L[k] = Piece(t, 2)
      BY <1>2, <2>1
    <3>2. k >= 2 /\ L[k - 1] = Piece(t, 1)
      BY <2>1, <3>1 DEF Sound, Logged, InPairs, n
    <3>3. k - 1 \in Nat /\ k - 1 < n
      BY <1>1, <2>1
    <3> QED BY <1>2, <3>2, <3>3
  <2>2. CASE k = n
    BY <1>2, <2>2
  <2>3. CASE n < k
    BY <1>1, <1>2, <2>3
  <2> QED BY <1>1, <2>1, <2>2, <2>3
<1>14. Logged(M)'
  <2>1. promised' # 0 => m >= 3 /\ M[m - 2] = Piece(promised', 1) /\ M[m - 1] = Piece(promised', 2)
    <3> SUFFICES ASSUME m = n + 2, M[n] = Piece(promised', 1), M[n + 1] = Piece(promised', 2)
        PROVE  m >= 3 /\ M[m - 2] = Piece(promised', 1) /\ M[m - 1] = Piece(promised', 2)
      BY <1>3
    <3>1. m >= 3 /\ m - 2 = n /\ m - 1 = n + 1
      BY <1>1
    <3> QED BY <3>1
  <2> QED BY <1>7, <1>8, <1>13, <2>1 DEF Logged, HasSent
<1>15. Ends'
  <2>1. Hearing' => hostEvents' < outbox'.next
    BY <1>0, <1>1, <1>2, <1>8, <1>9, <1>10
  <2>2. promised' \in 0..MaxText
    BY <1>3, CopyAssumption DEF Text
  <2>3. \A d \in datagrams' : d.stream \in 1..stream'
    BY <1>7 DEF HasSent
  <2> QED BY <1>0, <1>9, <2>1, <2>2, <2>3 DEF Sound, Ends
<1>16. Hearing' => Carried(M, hostEvents, assembly, copied)'
  <2> SUFFICES ASSUME Hearing PROVE Carried(M, hostEvents, assembly, copied)'
    BY <1>9
  <2>1. hostEvents < n /\ Carried(L, hostEvents, assembly, copied)
    BY <1>10 DEF Sound
  <2>2. ASSUME NEW t \in Text, M[hostEvents + 1] = Piece(t, 2)
        PROVE  assembly = <<>> \/ assembly = One(t)
    <3>1. hostEvents + 1 # n
      BY <1>2, <2>2
    <3>2. hostEvents + 1 \in Nat /\ hostEvents + 1 < n
      BY <1>1, <2>1, <3>1
    <3>3. L[hostEvents + 1] = Piece(t, 2)
      BY <1>2, <2>2, <3>2
    <3> QED BY <2>1, <3>2, <3>3 DEF Carried, n
  <2>3. promised' # 0 => hostEvents # m - 2 /\ hostEvents # m - 1
    BY <1>1, <1>3, <2>1
  <2>4. (assembly = <<>> \/ \E t \in Text : assembly = One(t)) /\ copied \in TextOrNone
    BY DEF Sound, Ends
  <2> QED BY <1>0, <1>8, <2>2, <2>3, <2>4 DEF Carried
<1>17. NothingTorn(M)'
  <2> SUFFICES ASSUME Hearing, assembly # <<>>, NEW b \in Fronts'
      PROVE  b - 1 <= hostEvents \/ GivenUp(M, b)'
    BY <1>0, <1>9 DEF NothingTorn
  <2>1. CASE b \in Fronts
    <3>1. b - 1 <= hostEvents \/ GivenUp(L, b)
      BY <2>1 DEF Sound, NothingTorn
    <3> QED BY <1>11, <1>12, <3>1
  <2> QED BY <1>12, <2>1
<1>18. OldIsHeard(M)'
  <2> SUFFICES ASSUME NEW d \in Own', NEW b \in Fronts'
      PROVE  \/ b <= PacketEnd(d.packet)
             \/ Hearing /\ PacketEnd(d.packet) <= hostEvents
             \/ GivenUp(M, b)'
    BY <1>0, <1>9 DEF OldIsHeard
  <2>1. CASE d \in Own /\ b \in Fronts
    <3>1. \/ b <= PacketEnd(d.packet)
          \/ Hearing /\ PacketEnd(d.packet) <= hostEvents
          \/ GivenUp(L, b)
      BY <2>1 DEF Sound, OldIsHeard
    <3> QED BY <1>11, <1>12, <3>1
  <2>2. CASE PacketEnd(d.packet) >= Front'
    <3>1. PacketEnd(d.packet) \in Int /\ b <= Front' /\ b \in Nat /\ Front' \in Nat
      BY <1>7 DEF HasSent
    <3> QED BY <2>2, <3>1
  <2>3. d \in Own \/ PacketEnd(d.packet) >= Front'
    BY <1>7 DEF HasSent
  <2> QED BY <1>12, <2>1, <2>2, <2>3
<1>19. LetGoWhenBrought'
  <2> SUFFICES ASSUME promised' # 0, outbox'.queue = <<>> \/ Len(outbox'.queue) <= 1 PROVE FALSE
    BY DEF LetGoWhenBrought
  <2>1. size >= 2
    BY <1>1, <1>3
  <2>2. Len(<<>>) = 0 /\ outbox'.queue = s.queue
    BY <1>8
  <2>3. size <= 1
    BY <2>2 DEF size
  <2> QED BY <1>2, <2>1, <2>3
<1> QED BY <1>14, <1>15, <1>16, <1>17, <1>18, <1>19 DEF Sound

\* push_clipboard() of a text that fits in the queue.
LEMMA QueuedWhole ==
  ASSUME NEW L \in [Nat -> Event], NEW s, QueueOf(L, s), NEW t \in Text,
         ~Overflows(s, Pieces(t))
  PROVE  LET M == [L EXCEPT ![s.next] = Piece(t, 1), ![s.next + 1] = Piece(t, 2)]
             pushed == Push(s, Pieces(t))
         IN  /\ QueueOf(M, pushed) /\ pushed.next = s.next + 2
             /\ Len(pushed.queue) = Len(s.queue) + 2
<1> DEFINE n == s.next
           len == Len(s.queue)
           M == [L EXCEPT ![n] = Piece(t, 1), ![n + 1] = Piece(t, 2)]
           q == s.queue
           added == Numbered(n, Pieces(t))
           pushed == Push(s, Pieces(t))
<1>1. /\ q \in Seq(Entry) /\ n \in Nat \ {0} /\ len \in Nat /\ len < n
      /\ \A k \in 1..len : q[k].seq = n - len + k - 1 /\ q[k].event = L[q[k].seq]
  BY LenProperties DEF QueueOf
<1>2. /\ Pieces(t) \in Seq(Event) /\ Len(Pieces(t)) = 2
      /\ Pieces(t)[1] = Piece(t, 1) /\ Pieces(t)[2] = Piece(t, 2)
      /\ Piece(t, 1) \in Event /\ Piece(t, 2) \in Event
  BY PartlyJoined, PieceKinds
<1>3. /\ added \in Seq(Entry) /\ Len(added) = 2
      /\ \A k \in 1..2 : added[k] = [seq |-> n + k - 1, event |-> Pieces(t)[k]]
  BY <1>1, <1>2, NumberedEntries
<1>4. pushed.queue = q \o added /\ pushed.next = n + 2
  BY <1>2 DEF Push, Enqueue
<1> HIDE DEF added, q, pushed
<1>5. /\ pushed.queue \in Seq(Entry) /\ Len(pushed.queue) = Len(q) + Len(added)
      /\ \A k \in 1..Len(q) : pushed.queue[k] = q[k]
      /\ \A k \in 1..Len(added) : pushed.queue[Len(q) + k] = added[k]
  <2>1. q \in Seq(Entry) /\ added \in Seq(Entry)
    BY <1>1, <1>3
  <2>2. /\ q \o added \in Seq(Entry) /\ Len(q \o added) = Len(q) + Len(added)
        /\ \A k \in 1..Len(q) : (q \o added)[k] = q[k]
        /\ \A k \in 1..Len(added) : (q \o added)[Len(q) + k] = added[k]
    BY <2>1, ConcatParts
  <2> QED BY <1>4, <2>2
<1>6. len = Len(q)
  BY DEF q
<1>7. /\ M \in [Nat -> Event] /\ M[n] = Piece(t, 1) /\ M[n + 1] = Piece(t, 2)
      /\ \A k \in Nat : k < n => M[k] = L[k]
  <2>1. n \in Nat /\ n + 1 \in Nat /\ n + 1 # n /\ \A k \in Nat : k < n => k # n /\ k # n + 1
    BY <1>1
  <2> HIDE DEF n
  <2> QED BY <1>2, <2>1
<1> HIDE DEF M, n, len
<1>8. ASSUME NEW k \in 1..len + 2
      PROVE  pushed.queue[k].seq = n - len + k - 1 /\ pushed.queue[k].event = M[pushed.queue[k].seq]
  <2>1. CASE k \in 1..len
    <3>1. pushed.queue[k] = q[k]
      BY <1>5, <1>6, <2>1
    <3>2. q[k].seq = n - len + k - 1 /\ q[k].event = L[q[k].seq]
      BY <1>1, <2>1
    <3>3. n - len + k - 1 \in Nat /\ n - len + k - 1 < n
      BY <1>1, <2>1
    <3> QED BY <1>7, <3>1, <3>2, <3>3
  <2>2. CASE k = len + 1
    <3>1. pushed.queue[k] = added[1] /\ added[1] = [seq |-> n + 1 - 1, event |-> Pieces(t)[1]]
      BY <1>1, <1>3, <1>5, <1>6, <2>2
    <3>2. n + 1 - 1 = n /\ n - len + k - 1 = n
      BY <1>1, <2>2
    <3> QED BY <1>2, <1>7, <3>1, <3>2
  <2>3. CASE k = len + 2
    <3>1. pushed.queue[k] = added[2] /\ added[2] = [seq |-> n + 2 - 1, event |-> Pieces(t)[2]]
      BY <1>1, <1>3, <1>5, <1>6, <2>3
    <3>2. n + 2 - 1 = n + 1 /\ n - len + k - 1 = n + 1
      BY <1>1, <2>3
    <3> QED BY <1>2, <1>7, <3>1, <3>2
  <2> QED BY <1>1, <2>1, <2>2, <2>3
<1>9. Len(pushed.queue) = len + 2 /\ (n + 2) - (len + 2) = n - len
  BY <1>1, <1>3, <1>5, <1>6
<1>10. QueueOf(M, pushed)
  <2>1. ASSUME NEW k \in 1..Len(pushed.queue)
        PROVE  /\ pushed.queue[k].seq = pushed.next - Len(pushed.queue) + k - 1
               /\ pushed.queue[k].event = M[pushed.queue[k].seq]
    BY <1>4, <1>8, <1>9
  <2>2. n + 2 \in Nat \ {0} /\ len + 2 < n + 2
    BY <1>1
  <2> QED BY <1>4, <1>5, <1>9, <2>1, <2>2 DEF QueueOf
<1> QED BY <1>4, <1>9, <1>10 DEF M, n, len, pushed

\* push_clipboard() of a text that does not fit: f of its pieces are numbered,
\* and a release-all is the queue.
LEMMA QueueReplaced ==
  ASSUME NEW L \in [Nat -> Event], NEW s, QueueOf(L, s), NEW t \in Text,
         Overflows(s, Pieces(t))
  PROVE  \E f \in {0, 1} :
           LET M == [L EXCEPT ![s.next] = Piece(t, 1), ![s.next + f] = ReleaseAll]
               pushed == Push(s, Pieces(t))
           IN  /\ QueueOf(M, pushed) /\ pushed.next = s.next + f + 1
               /\ Len(pushed.queue) = 1
<1> DEFINE n == s.next
           f == Fitting(s, Pieces(t))
           M == [L EXCEPT ![n] = Piece(t, 1), ![n + f] = ReleaseAll]
           first == SubSeq(Pieces(t), 1, f)
           e == [seq |-> n + f, event |-> ReleaseAll]
           pushed == Push(s, Pieces(t))
<1>1. n \in Nat \ {0} /\ ReleaseAll \in Event
  BY EventAssumption DEF QueueOf
<1>2. Pieces(t) \in Seq(Event) /\ Len(Pieces(t)) = 2 /\ Piece(t, 1) \in Event
  BY PartlyJoined, PieceKinds
<1>3. f \in {0, 1}
  <2>1. f \in 0..2 /\ f < 2
    BY <1>2, FittingType DEF Overflows
  <2> HIDE DEF f
  <2> QED BY <2>1
<1>4. Len(first) = f
  <2>1. \A i \in 1..f : Pieces(t)[i] \in Event
    <3> SUFFICES ASSUME NEW i \in 1..f PROVE Pieces(t)[i] \in Event
      OBVIOUS
    <3> HIDE DEF f
    <3>1. i = 1
      BY <1>3
    <3> QED BY <1>2, <3>1, PartlyJoined
  <2> HIDE DEF f
  <2> QED BY <1>3, <2>1, SubSeqProperties
<1>5. pushed.queue = <<e>> /\ pushed.next = n + f + 1
  <2>1. pushed = Discard(Enqueue(s, first))
    BY DEF Push
  <2>2. Enqueue(s, first).next = n + f
    BY <1>4 DEF Enqueue
  <2> HIDE DEF pushed, f, first, n
  <2> QED BY <2>1, <2>2 DEF Discard
<1>6. M \in [Nat -> Event] /\ M[n + f] = ReleaseAll
  <2> HIDE DEF f, n
  <2>1. n + f \in Nat
    BY <1>1, <1>3
  <2> QED BY <1>1, <1>2, <2>1
<1> HIDE DEF pushed, M, f, n
<1>7. QueueOf(M, pushed)
  <2>1. e \in Entry /\ e.seq = n + f /\ e.event = ReleaseAll /\ n + f \in Nat
    BY <1>1, <1>3 DEF Entry
  <2> HIDE DEF e
  <2>2. <<e>> \in Seq(Entry) /\ Len(<<e>>) = 1 /\ <<e>>[1] = e
    BY <2>1
  <2>3. \A k \in 1..1 : k = 1
    OBVIOUS
  <2>4. n + f + 1 \in Nat \ {0} /\ 1 < n + f + 1 /\ (n + f + 1) - 1 + 1 - 1 = n + f
    BY <1>1, <1>3
  <2>5. \A k \in 1..Len(pushed.queue) : pushed.queue[k] = e /\ k = 1
    BY <1>5, <2>2, <2>3
  <2> QED BY <1>5, <1>6, <2>1, <2>2, <2>4, <2>5 DEF QueueOf
<1>8. Len(pushed.queue) = 1
  BY <1>5
<1> QED BY <1>3, <1>5, <1>7, <1>8, Zenon DEF M, pushed, f, n

\* CopyText: a text is queued, or what it overflows is given up.
LEMMA CopyTextKeeps ==
  ASSUME NEW L \in [Nat -> Event], Sound(L), CopyText
  PROVE  \E M \in [Nat -> Event] : Sound(M)'
<1> DEFINE n == outbox.next
           t == texts + 1
           queued == Push(outbox, Pieces(t))
<1>1. /\ stream # 0 /\ texts < MaxText /\ texts' = t
      /\ UNCHANGED <<stream, answers, hostEvents, assembly, copied, heard>>
  BY DEF CopyText, viewer
<1>2. t \in Text /\ t \in 0..MaxText
  <2>1. texts \in 0..MaxText /\ MaxText \in Nat
    BY CopyAssumption DEF Sound, Ends
  <2> QED BY <1>1, <2>1 DEF Text
<1>3. n \in Nat \ {0} /\ QueueOf(L, outbox)
  BY DEF Sound, Logged, QueueOf
<1>4. CASE active = 0
  <2>1. UNCHANGED <<outbox, stream, promised, datagrams, answers>>
    BY <1>4 DEF CopyText
  <2>2. Front' = Front /\ Own' = Own /\ Hearing' = Hearing
    BY <1>1, <2>1 DEF Front, Own, Hearing
  <2>3. Fronts' = Fronts
    BY <2>2 DEF Fronts
  <2>4. Logged(L)'
    BY <2>1, <2>2, <2>3 DEF Sound, Logged, InPairs
  <2>5. Ends'
    BY <1>1, <1>2, <2>1, <2>2 DEF Sound, Ends
  <2>6. Hearing' => Carried(L, hostEvents, assembly, copied)'
    BY <1>1, <2>1, <2>2 DEF Sound, Carried
  <2>7. NothingTorn(L)' /\ OldIsHeard(L)' /\ LetGoWhenBrought'
    BY <1>1, <2>1, <2>2, <2>3 DEF Sound, NothingTorn, OldIsHeard, GivenUp, LetGoWhenBrought
  <2> QED BY <2>4, <2>5, <2>6, <2>7 DEF Sound
<1>5. CASE active # 0
  <2>1. /\ Sends(queued, queued.sentThrough + 1)
        /\ promised' = IF Overflows(outbox, Pieces(t)) THEN 0 ELSE t
    BY <1>1, <1>5 DEF CopyText, AfterSendNew, NewPackets, Sends
  <2>5. OnlyQueues
    BY <1>1, <1>2 DEF OnlyQueues
  <2>2. Piece(t, 1) \in Event /\ Piece(t, 2) \in Event /\ ReleaseAll \in Event
    BY <1>2, PieceKinds, EventAssumption
  <2>3. CASE ~Overflows(outbox, Pieces(t))
    <3> DEFINE M == [L EXCEPT ![n] = Piece(t, 1), ![n + 1] = Piece(t, 2)]
    <3>1. /\ QueueOf(M, queued) /\ queued.next = n + 2
          /\ Len(queued.queue) = Len(outbox.queue) + 2
      BY <1>2, <1>3, <2>3, QueuedWhole
    <3>2. /\ M \in [Nat -> Event] /\ M[n] = Piece(t, 1) /\ M[n + 1] = Piece(t, 2)
          /\ \A k \in Nat : k < n => M[k] = L[k]
      <4> HIDE DEF n, t
      <4> QED BY <1>3, <2>2
    <3> HIDE DEF M, queued, t
    <3>3. \A k \in Nat : n < k /\ k < n + 2 => k = n + 1 /\ k - 1 = n
      <4> HIDE DEF n
      <4> QED BY <1>3
    <3>4. Extends(L, M, queued)
      <4>1. \A u \in Text : M[n] # Piece(u, 2)
        BY <1>2, <3>2, PieceKinds
      <4>2. ASSUME NEW k \in Nat, NEW u \in Text, n < k, k < queued.next, M[k] = Piece(u, 2)
            PROVE  M[k - 1] = Piece(u, 1)
        <5>1. k = n + 1 /\ k - 1 = n
          BY <3>1, <3>3, <4>2
        <5>2. u = t
          BY <1>2, <3>2, <4>2, <5>1, PieceKinds
        <5> QED BY <3>2, <5>1, <5>2
      <4>3. n + 2 > n
        BY <1>3
      <4> QED BY <3>1, <3>2, <4>1, <4>2, <4>3 DEF Extends
    <3>5. promised' = t
      BY <2>1, <2>3
    <3>6. IsPush(M, queued)
      BY <1>2, <3>1, <3>2, <3>5 DEF IsPush, Queues
    <3>7. PICK K \in [Nat -> Event] : Extends(L, K, queued) /\ IsPush(K, queued)
      BY <3>2, <3>4, <3>6
    <3>8. Sound(K)'
      BY <2>1, <2>5, <3>7, PushKeeps
    <3> QED BY <3>8
  <2>4. CASE Overflows(outbox, Pieces(t))
    <3>1. PICK f \in {0, 1} :
            LET M == [L EXCEPT ![n] = Piece(t, 1), ![n + f] = ReleaseAll]
            IN  QueueOf(M, queued) /\ queued.next = n + f + 1 /\ Len(queued.queue) = 1
      BY <1>2, <1>3, <2>4, QueueReplaced
    <3> DEFINE M == [L EXCEPT ![n] = Piece(t, 1), ![n + f] = ReleaseAll]
    <3>2. /\ QueueOf(M, queued) /\ queued.next = n + f + 1 /\ Len(queued.queue) = 1
      BY <3>1
    <3>3. /\ M \in [Nat -> Event] /\ M[n] \in {Piece(t, 1), ReleaseAll} /\ M[n + f] = ReleaseAll
          /\ \A k \in Nat : k < n => M[k] = L[k]
      <4> HIDE DEF n, t
      <4>1. n + f \in Nat /\ n + f >= n
        BY <1>3
      <4> QED BY <1>3, <2>2, <4>1
    <3> HIDE DEF M, queued, t
    <3>4. Extends(L, M, queued)
      <4>1. \A u \in Text : M[n] # Piece(u, 2)
        BY <1>2, <3>3, PieceKinds
      <4>2. ASSUME NEW k \in Nat, NEW u \in Text, n < k, k < queued.next, M[k] = Piece(u, 2)
            PROVE  FALSE
        <5>1. k = n + f
          <6> HIDE DEF n
          <6> QED BY <1>3, <3>2, <4>2
        <5> QED BY <3>3, <4>2, <5>1, PieceKinds
      <4>3. n + f + 1 > n
        BY <1>3
      <4> QED BY <3>2, <3>3, <4>1, <4>2, <4>3 DEF Extends
    <3>5. promised' = 0
      BY <2>1, <2>4
    <3>6. IsPush(M, queued)
      <4>1. queued.next - 1 = n + f
        <5>1. queued.next = n + f + 1 /\ n \in Nat /\ f \in Nat
          BY <1>3, <3>2
        <5> HIDE DEF n
        <5> QED BY <5>1
      <4> QED BY <3>2, <3>3, <3>5, <4>1 DEF IsPush, Replaces
    <3>7. PICK K \in [Nat -> Event] : Extends(L, K, queued) /\ IsPush(K, queued)
      BY <3>3, <3>4, <3>6
    <3>8. Sound(K)'
      BY <2>1, <2>5, <3>7, PushKeeps
    <3> QED BY <3>8
  <2> QED BY <2>3, <2>4
<1> QED BY <1>4, <1>5

----------------------------------------------------------------------------
(* CopyReturn: the theorems.                                                *)

LEMMA CopyStarts == CopyInit => CopyIInv
<1> SUFFICES ASSUME CopyInit PROVE CopyIInv
  OBVIOUS
<1>1. ReleaseAll \in Event
  BY EventAssumption
<1> DEFINE L == [k \in Nat |-> ReleaseAll]
<1>2. L \in [Nat -> Event]
  BY <1>1
<1> HIDE DEF L
<1>3. /\ outbox.queue = <<>> /\ outbox.next = 1 /\ Len(<<>>) = 0
      /\ stream = 0 /\ heard = 0 /\ datagrams = {} /\ answers = {} /\ promised = 0 /\ texts = 0
      /\ hostEvents = 0 /\ assembly = <<>> /\ copied = <<>>
  BY DEF CopyInit, NewSender
<1>4. ~Hearing /\ Own = {} /\ Front = 1
  BY <1>3 DEF Hearing, Own, Front
<1>5. Fronts = {1}
  BY <1>4 DEF Fronts
<1>6. QueueOf(L, outbox)
  BY <1>3 DEF QueueOf
<1>7. Logged(L)
  BY <1>3, <1>4, <1>5, <1>6 DEF Logged, InPairs
<1>8. Ends
  BY <1>3, <1>4, CopyAssumption DEF Ends, TextOrNone
<1>9. NothingTorn(L) /\ OldIsHeard(L) /\ LetGoWhenBrought
  BY <1>3, <1>4 DEF NothingTorn, OldIsHeard, LetGoWhenBrought
<1>10. Sound(L)
  BY <1>4, <1>7, <1>8, <1>9 DEF Sound
<1> QED BY <1>2, <1>10 DEF CopyInit, CopyIInv, Undisturbed

LEMMA CopyGoesOn == CopyIInv /\ [CopyNext]_copyVars => CopyIInv'
<1> SUFFICES ASSUME CopyIInv, [CopyNext]_copyVars PROVE CopyIInv'
  OBVIOUS
<1>1. mixed \in BOOLEAN /\ cut \in BOOLEAN
  BY DEF CopyIInv
<1>2. /\ mixed' \in BOOLEAN /\ cut' \in BOOLEAN
      /\ (mixed => mixed') /\ (cut => cut')
  <2>1. CASE UNCHANGED history
    BY <1>1, <2>1 DEF history
  <2>2. CASE \E a \in answers : HostReceiveAck(a)
    BY <1>1, <2>2 DEF HostReceiveAck
  <2>3. CASE \E d \in datagrams : ReceiveEvents(d)
    BY <1>1, <2>3 DEF ReceiveEvents
  <2>4. CASE Suspend
    BY <1>1, <2>4 DEF Suspend
  <2>5. CASE CopyText \/ HostResend \/ StartOver \/ HostDrop \/ SendHello \/ ReceiveConfig
             \/ RebuildSocket \/ UNCHANGED copyVars
    <3>1. UNCHANGED history
      BY <2>5, Zenon DEF CopyText, HostResend, StartOver, HostDrop, SendHello, ReceiveConfig,
                         RebuildSocket, copyVars
    <3> QED BY <2>1, <3>1
  <2>6. CASE \E p \in hellos : HostReceiveHello(p)
    BY <2>1, <2>6 DEF HostReceiveHello
  <2> QED BY <2>1, <2>2, <2>3, <2>4, <2>5, <2>6 DEF CopyNext
<1>3. CASE mixed' \/ cut'
  BY <1>2, <1>3 DEF CopyIInv, Undisturbed
<1>4. CASE ~mixed' /\ ~cut'
  <2>1. PICK L \in [Nat -> Event] : Sound(L)
    BY <1>2, <1>4 DEF CopyIInv, Undisturbed
  <2> SUFFICES \E M \in [Nat -> Event] : Sound(M)'
    BY <1>2 DEF CopyIInv, Undisturbed
  <2>2. CASE /\ UNCHANGED <<outbox, stream, promised, texts, datagrams, answers>>
             /\ UNCHANGED <<hostEvents, assembly, copied, heard>>
    BY <2>1, <2>2, CopyUntouched
  <2>3. CASE CopyText
    BY <2>1, <2>3, CopyTextKeeps
  <2>4. CASE HostResend
    BY <2>1, <2>4, ResendKeeps
  <2>5. CASE StartOver
    BY <2>1, <2>5, StartOverKeeps
  <2>6. CASE \E p \in hellos : HostReceiveHello(p)
    BY <2>2, <2>6 DEF HostReceiveHello, viewer
  <2>7. CASE \E a \in answers : HostReceiveAck(a)
    BY <1>1, <1>4, <2>1, <2>7, AckKeeps
  <2>8. CASE HostDrop
    BY <2>2, <2>8 DEF HostDrop, viewer
  <2>9. CASE SendHello
    BY <2>2, <2>9 DEF SendHello, host, viewer
  <2>10. CASE ReceiveConfig
    BY <2>2, <2>10 DEF ReceiveConfig, host, network
  <2>11. CASE \E d \in datagrams : ReceiveEvents(d)
    BY <1>1, <1>4, <2>1, <2>11, ReceiveKeeps
  <2>12. CASE Suspend
    BY <1>1, <1>4, <2>1, <2>12, SuspendKeeps
  <2>13. CASE RebuildSocket
    BY <2>2, <2>13 DEF RebuildSocket, host
  <2>14. CASE UNCHANGED copyVars
    BY <2>2, <2>14 DEF copyVars, host, viewer, network
  <2> QED BY <2>3, <2>4, <2>5, <2>6, <2>7, <2>8, <2>9, <2>10, <2>11, <2>12, <2>13, <2>14
        DEF CopyNext
<1> QED BY <1>3, <1>4

LEMMA CopyInvariant == CopySpec => []CopyIInv
  BY CopyStarts, CopyGoesOn, PTL DEF CopySpec

\* What the viewer's clipboard gets is a text as it was copied, whole, unless a
\* stream was taken for another or the receiver was reset inside a text.
THEOREM CopiesAreWhole == CopySpec => []TextsAreWhole
<1>1. CopyIInv => TextsAreWhole
  BY DEF CopyIInv, Undisturbed, Sound, Ends, TextsAreWhole
<1> QED BY <1>1, CopyInvariant, PTL

\* With the same exceptions, a host whose queue has drained has brought the text
\* that was copied last to the viewer.
THEOREM LastCopyIsBrought == CopySpec => []CopyArrivesInStream
<1>1. CopyIInv => CopyArrivesInStream
  BY DEF CopyIInv, Undisturbed, Sound, LetGoWhenBrought, CopyArrivesInStream, LastCopyArrived
<1> QED BY <1>1, CopyInvariant, PTL

=============================================================================
