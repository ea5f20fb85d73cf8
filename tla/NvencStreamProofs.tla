------------------------- MODULE NvencStreamProofs -------------------------
(***************************************************************************)
(* Proofs about NvencStream, for any viewers, capacity and bounds: what a  *)
(* viewer is sent can be decoded, frames come in order, and a viewer whose *)
(* frame was discarded gets a keyframe.                                    *)
(***************************************************************************)
EXTENDS NvencStream, Functions, TLAPS

USE StreamAssumption

----------------------------------------------------------------------------
(* The inductive invariant.                                                *)

\* The frames on their way to the sender, and with the one it holds.
Queued == Range(encoded) \cup Range(handoff) \cup Range(submitted)
Pipe == Queued \cup Range(sender.frame)

\* x is the number of a frame that may still be sent or that was sent last.
Known(x) == sender.last = x \/ \E f \in Pipe : f.id = x

\* A number is taken once. A frame refers to the one before it in number,
\* unless a detached submission took that number: then nobody was or will be
\* sent it.
Numbered ==
  /\ \A f \in Pipe : f.id < nextId
  /\ sender.last # None => sender.last < nextId
  /\ \A f \in Pipe : f.key \/ f.prev = f.id - 1 \/ ~Known(f.id - 1)
  /\ accepted # None => accepted = nextId - 1 \/ ~Known(nextId - 1)

\* The viewer the sender knows was sent the frame the sender sent last.
Follows ==
  /\ sender.last # None /\ shown.id = sender.last
  /\ shown.peer = sender.peer /\ shown.epoch = sender.epoch

SenderInv ==
  /\ sender.pc = "top" <=> sender.frame = <<>>
  /\ sender.pc # "top" => sender.handled = sender.frame[1].id
  /\ sender.pc # "sending" /\ ~sender.waiting => Follows
  /\ sender.pc = "sending" /\ ~sender.frame[1].key =>
       Follows /\ sender.frame[1].id = sender.last + 1

SubmissionInv ==
  /\ submission.asked => submission.pc = "asking"
  /\ submission.forced => submission.pc = "driver"
  /\ session = "none" => accepted = None /\ submission.pc = "idle" /\ submitted = <<>>

Increasing(s) == \A i, j \in DOMAIN s : i < j => s[i].id < s[j].id
Before(s, t) == \A f \in Range(s), g \in Range(t) : f.id < g.id

Ordered ==
  /\ Increasing(encoded) /\ Increasing(handoff) /\ Increasing(submitted)
  /\ Before(encoded, handoff) /\ Before(encoded, submitted) /\ Before(handoff, submitted)

\* Within a session an IDR in flight is a keyframe that was not sent yet.
IdrInv ==
  idr # None /\ session = "on" /\ ~stray =>
    \/ \E f \in Pipe : f.id = idr /\ f.key
    \/ sender.pc = "top" /\ sender.handled = idr

\* After a discarded frame the keyframe is still to come, and if an IDR is in
\* flight it is behind that frame: a request it covers is not lost.
DiscardInv ==
  outcome = "discarded" /\ sender.pc = "top" /\ session = "on" /\ ~stray =>
    /\ idr # None => \E f \in Queued : f.key
    /\ \/ accepted = None
       \/ force \/ submission.asked \/ submission.forced
       \/ \E f \in Queued : f.key

\* A change of the viewer that has begun is within the bound.
EpochBounded == replacing => epoch < MaxEpoch

IInv ==
  /\ TypeOK /\ EpochBounded /\ SubmissionInv
  /\ Numbered /\ SenderInv /\ Ordered
  /\ IdrInv /\ DiscardInv

----------------------------------------------------------------------------
(* Sequences.                                                              *)

LEMMA RangeEmpty == Range(<<>>) = {}
BY DEF Range

LEMMA RangeOne == ASSUME NEW e PROVE Range(<<e>>) = {e} /\ <<e>>[1] = e /\ <<e>> # <<>>
BY DEF Range

LEMMA RangeTail ==
  ASSUME NEW S, NEW s \in Seq(S), s # <<>>
  PROVE  /\ Tail(s) \in Seq(S) /\ s[1] \in S
         /\ Range(s) = {s[1]} \cup Range(Tail(s))
<1>1. DOMAIN s = 1..Len(s) /\ Len(s) \in Nat \ {0} /\ Tail(s) \in Seq(S)
      /\ DOMAIN Tail(s) = 1..(Len(s) - 1)
      /\ \A i \in DOMAIN Tail(s) : Tail(s)[i] = s[i + 1]
  OBVIOUS
<1>2. ASSUME NEW i \in DOMAIN s PROVE s[i] \in {s[1]} \cup Range(Tail(s))
  <2>1. CASE i = 1
    BY <2>1
  <2>2. CASE i # 1
    <3>1. i - 1 \in DOMAIN Tail(s) /\ Tail(s)[i - 1] = s[i]
      BY <1>1, <2>2
    <3> QED
      BY <3>1 DEF Range
  <2> QED
    BY <2>1, <2>2
<1>3. ASSUME NEW i \in DOMAIN Tail(s) PROVE Tail(s)[i] \in Range(s)
  <2>1. i + 1 \in DOMAIN s /\ Tail(s)[i] = s[i + 1]
    BY <1>1
  <2> QED
    BY <2>1 DEF Range
<1>4. 1 \in DOMAIN s /\ s[1] \in S
  BY <1>1
<1> QED
  BY <1>1, <1>2, <1>3, <1>4 DEF Range

LEMMA RangeAppend ==
  ASSUME NEW S, NEW s \in Seq(S), NEW e \in S
  PROVE  Append(s, e) \in Seq(S) /\ Range(Append(s, e)) = Range(s) \cup {e}
<1>1. /\ DOMAIN s = 1..Len(s) /\ Len(s) \in Nat /\ Append(s, e) \in Seq(S)
      /\ DOMAIN Append(s, e) = 1..(Len(s) + 1) /\ Append(s, e)[Len(s) + 1] = e
      /\ \A i \in DOMAIN s : Append(s, e)[i] = s[i]
  OBVIOUS
<1>2. \A i \in DOMAIN Append(s, e) : i = Len(s) + 1 \/ i \in DOMAIN s
  BY <1>1
<1>3. Len(s) + 1 \in DOMAIN Append(s, e) /\ \A i \in DOMAIN s : i \in DOMAIN Append(s, e)
  BY <1>1
<1> QED
  BY <1>1, <1>2, <1>3 DEF Range

LEMMA RangeConcat ==
  ASSUME NEW S, NEW s \in Seq(S), NEW t \in Seq(S)
  PROVE  s \o t \in Seq(S) /\ Range(s \o t) = Range(s) \cup Range(t)
<1>1. /\ DOMAIN s = 1..Len(s) /\ DOMAIN t = 1..Len(t) /\ Len(s) \in Nat /\ Len(t) \in Nat
      /\ s \o t \in Seq(S) /\ DOMAIN (s \o t) = 1..(Len(s) + Len(t))
      /\ \A i \in DOMAIN s : (s \o t)[i] = s[i]
  OBVIOUS
<1>2. ASSUME NEW i \in DOMAIN (s \o t), i \notin DOMAIN s
      PROVE  i - Len(s) \in DOMAIN t /\ (s \o t)[i] = t[i - Len(s)]
  BY <1>1, <1>2
<1>3. ASSUME NEW j \in DOMAIN t
      PROVE  j + Len(s) \in DOMAIN (s \o t) /\ (s \o t)[j + Len(s)] = t[j]
  BY <1>1, <1>3
<1>4. \A i \in DOMAIN s : i \in DOMAIN (s \o t)
  BY <1>1
<1> QED
  BY <1>1, <1>2, <1>3, <1>4 DEF Range

LEMMA IncreasingConcat ==
  ASSUME NEW s \in Seq(Encoded), NEW t \in Seq(Encoded),
         Increasing(s), Increasing(t), Before(s, t)
  PROVE  Increasing(s \o t)
<1> DEFINE u == s \o t
<1>1. /\ DOMAIN s = 1..Len(s) /\ DOMAIN t = 1..Len(t) /\ Len(s) \in Nat /\ Len(t) \in Nat
      /\ DOMAIN u = 1..(Len(s) + Len(t))
      /\ \A i \in DOMAIN s : u[i] = s[i]
  OBVIOUS
<1>2. ASSUME NEW i \in DOMAIN u, i \notin DOMAIN s
      PROVE  i - Len(s) \in DOMAIN t /\ u[i] = t[i - Len(s)]
  BY <1>1, <1>2
<1> SUFFICES ASSUME NEW i \in DOMAIN u, NEW j \in DOMAIN u, i < j
             PROVE  u[i].id < u[j].id
  BY DEF Increasing
<1>3. i \in Int /\ j \in Int
  BY <1>1
<1> HIDE DEF u
<1>4. CASE i \in DOMAIN s /\ j \in DOMAIN s
  BY <1>1, <1>3, <1>4 DEF Increasing
<1>5. CASE i \in DOMAIN s /\ j \notin DOMAIN s
  BY <1>1, <1>2, <1>5 DEF Before, Range
<1>6. CASE i \notin DOMAIN s /\ j \notin DOMAIN s
  <2>1. i - Len(s) < j - Len(s)
    BY <1>1, <1>3
  <2> QED
    BY <1>2, <1>6, <2>1 DEF Increasing
<1>7. i \notin DOMAIN s => j \notin DOMAIN s
  BY <1>1, <1>3
<1> QED
  BY <1>4, <1>5, <1>6, <1>7

LEMMA IncreasingTail ==
  ASSUME NEW s \in Seq(Encoded), s # <<>>, Increasing(s)
  PROVE  Increasing(Tail(s)) /\ Before(<<s[1]>>, Tail(s))
<1>1. /\ DOMAIN s = 1..Len(s) /\ Len(s) \in Nat \ {0} /\ DOMAIN Tail(s) = 1..(Len(s) - 1)
      /\ \A i \in DOMAIN Tail(s) : Tail(s)[i] = s[i + 1]
  OBVIOUS
<1>2. \A i \in DOMAIN Tail(s) : i + 1 \in DOMAIN s /\ i \in Int /\ 1 < i + 1
  BY <1>1
<1>3. 1 \in DOMAIN s
  BY <1>1
<1>4. Increasing(Tail(s))
  <2> SUFFICES ASSUME NEW i \in DOMAIN Tail(s), NEW j \in DOMAIN Tail(s), i < j
               PROVE  Tail(s)[i].id < Tail(s)[j].id
    BY DEF Increasing
  <2>1. i + 1 < j + 1
    BY <1>2
  <2> QED
    BY <1>1, <1>2, <2>1 DEF Increasing
<1>5. Before(<<s[1]>>, Tail(s))
  BY <1>1, <1>2, <1>3, RangeOne DEF Increasing, Before, Range
<1> QED
  BY <1>4, <1>5

LEMMA IncreasingOne == \A e : Increasing(<<e>>)
BY DEF Increasing

LEMMA IncreasingEmpty == Increasing(<<>>)
BY DEF Increasing

----------------------------------------------------------------------------
(* Types.                                                                  *)

NetworkTypes == peer \in Peer \cup {None} /\ epoch \in 0..MaxEpoch /\ replacing \in BOOLEAN
IdrTypes == force \in BOOLEAN /\ idr \in Id \cup {None}
Submission == [pc : {"idle", "asking", "driver"}, asked : BOOLEAN, forced : BOOLEAN]
EncoderTypes ==
  /\ nextId \in 0..MaxFrame
  /\ session \in {"none", "on", "retiring"} /\ accepted \in Id \cup {None}
  /\ submission \in Submission /\ submitted \in Seq(Encoded)
  /\ handoff \in {<<>>} \cup {<<frame>> : frame \in Encoded}
  /\ late \in {"none", "plain", "forced"} /\ stray \in BOOLEAN
SenderTypes ==
  /\ encoded \in Seq(Encoded) /\ sender \in Sender
  /\ outcome \in {"none", "sent", "discarded", "failed"}

LEMMA TypeParts == TypeOK <=> NetworkTypes /\ IdrTypes /\ EncoderTypes /\ SenderTypes
BY Zenon DEF TypeOK, NetworkTypes, IdrTypes, EncoderTypes, SenderTypes, Submission

LEMMA TypePartsNext == TypeOK' <=> NetworkTypes' /\ IdrTypes' /\ EncoderTypes' /\ SenderTypes'
BY Zenon DEF TypeOK, NetworkTypes, IdrTypes, EncoderTypes, SenderTypes, Submission

\* What a step leaves alone keeps its type.
LEMMA Frames ==
  ASSUME TypeOK
  PROVE  /\ UNCHANGED network => NetworkTypes'
         /\ UNCHANGED idrs => IdrTypes'
         /\ UNCHANGED encoder => EncoderTypes'
         /\ UNCHANGED toSender => SenderTypes'
<1>1. UNCHANGED network => NetworkTypes'
  BY TypeParts DEF NetworkTypes, network
<1>2. UNCHANGED idrs => IdrTypes'
  BY TypeParts DEF IdrTypes, idrs
<1>3. UNCHANGED encoder => EncoderTypes'
  BY TypeParts DEF EncoderTypes, encoder
<1>4. UNCHANGED toSender => SenderTypes'
  BY TypeParts DEF SenderTypes, toSender
<1> QED
  BY <1>1, <1>2, <1>3, <1>4

LEMMA Numbers ==
  ASSUME TypeOK
  PROVE  /\ nextId \in Nat /\ MaxFrame \in Nat /\ None \notin Int
         /\ accepted \in Int \cup {None} /\ idr \in Int \cup {None}
         /\ sender.last \in Int \cup {None} /\ sender.handled \in Int \cup {None}
         /\ nextId < MaxFrame => nextId \in Id /\ nextId + 1 \in 0..MaxFrame
         /\ \A f \in Encoded : f.id \in Int /\ f.prev \in Int \cup {None} /\ f.key \in BOOLEAN
<1>1. Id \subseteq Int
  BY DEF Id
<1> QED
  BY <1>1, TypeParts DEF IdrTypes, EncoderTypes, SenderTypes, Sender, Encoded, Id

\* The frames of the pipe, the sender's among them, are encoded frames.
LEMMA PipeTypes ==
  ASSUME TypeOK
  PROVE  /\ Pipe \subseteq Encoded
         /\ Range(encoded) \subseteq Encoded /\ Range(submitted) \subseteq Encoded
         /\ handoff # <<>> => handoff[1] \in Encoded /\ handoff = <<handoff[1]>>
         /\ sender.frame # <<>> =>
              sender.frame[1] \in Encoded /\ sender.frame = <<sender.frame[1]>>
<1>1. Range(encoded) \subseteq Encoded /\ Range(submitted) \subseteq Encoded
  BY TypeParts DEF SenderTypes, EncoderTypes, Range
<1>2. handoff \in {<<>>} \cup {<<frame>> : frame \in Encoded}
      /\ sender.frame \in {<<>>} \cup {<<frame>> : frame \in Encoded}
  BY TypeParts DEF SenderTypes, EncoderTypes, Sender
<1>3. ASSUME NEW s \in {<<>>} \cup {<<frame>> : frame \in Encoded}
      PROVE  /\ Range(s) \subseteq Encoded
             /\ s # <<>> => s[1] \in Encoded /\ s = <<s[1]>>
  BY RangeEmpty, RangeOne
<1> QED
  BY <1>1, <1>2, <1>3 DEF Pipe, Queued

\* With the frame a sender holds.
LEMMA SenderFrame ==
  ASSUME TypeOK, SenderInv, sender.pc # "top"
  PROVE  /\ sender.frame[1] \in Encoded /\ sender.frame = <<sender.frame[1]>>
         /\ Range(sender.frame) = {sender.frame[1]} /\ sender.handled = sender.frame[1].id
BY PipeTypes, RangeOne DEF SenderInv

LEMMA SessionTypes ==
  ASSUME TypeOK, StartSession \/ RetireSession \/ EndSession \/ Detach \/ LateSubmission
  PROVE  TypeOK'
<1>1. IdrTypes /\ EncoderTypes
  BY TypeParts
<1>2. NetworkTypes' /\ SenderTypes'
  BY Frames DEF StartSession, RetireSession, EndSession, Detach, LateSubmission
<1>3. <<>> \in Seq(Encoded) /\ NoSubmission \in Submission
  BY DEF NoSubmission, Submission
<1>4. CASE StartSession
  BY <1>1, <1>2, <1>4, TypePartsNext DEF StartSession, IdrTypes, EncoderTypes
<1>5. CASE RetireSession
  BY <1>1, <1>2, <1>5, TypePartsNext DEF RetireSession, IdrTypes, EncoderTypes, idrs
<1>6. CASE EndSession
  BY <1>1, <1>2, <1>6, TypePartsNext DEF EndSession, IdrTypes, EncoderTypes
<1>7. CASE Detach
  BY <1>1, <1>2, <1>3, <1>7, TypePartsNext DEF Detach, IdrTypes, EncoderTypes
<1>8. CASE LateSubmission
  <2>1. /\ idr' \in {idr, nextId} /\ nextId' \in {nextId, nextId + 1} /\ late' = "none"
        /\ (nextId < MaxFrame \/ UNCHANGED <<idr, nextId>>)
        /\ UNCHANGED <<session, accepted, submission, submitted, handoff>>
    BY <1>8 DEF LateSubmission
  <2>2. force' \in BOOLEAN /\ stray' \in BOOLEAN
    BY <1>1, <1>8 DEF LateSubmission, IdrTypes, EncoderTypes
  <2>3. nextId' \in 0..MaxFrame /\ idr' \in Id \cup {None}
    BY <1>1, <2>1, Numbers DEF IdrTypes, EncoderTypes
  <2> QED
    BY <1>1, <1>2, <2>1, <2>2, <2>3, TypePartsNext DEF IdrTypes, EncoderTypes
<1> QED
  BY <1>4, <1>5, <1>6, <1>7, <1>8

LEMMA SubmissionTypes ==
  ASSUME TypeOK, SubmissionTake \/ SubmissionAsk \/ SubmissionAccepted \/ SubmissionRefused
  PROVE  TypeOK'
<1>1. IdrTypes /\ EncoderTypes
  BY TypeParts
<1>2. NetworkTypes' /\ SenderTypes'
  BY Frames DEF SubmissionTake, SubmissionAsk, SubmissionAccepted, SubmissionRefused
<1>3. NoSubmission \in Submission
  BY DEF NoSubmission, Submission
<1>4. submission.asked \in BOOLEAN /\ submission.forced \in BOOLEAN
  BY <1>1 DEF EncoderTypes, Submission
<1>5. CASE SubmissionTake
  <2>1. submission' \in Submission
    BY <1>1, <1>5 DEF SubmissionTake, Submission, IdrTypes
  <2> QED
    BY <1>1, <1>2, <1>5, <2>1, TypePartsNext DEF SubmissionTake, IdrTypes, EncoderTypes
<1>6. CASE SubmissionAsk
  <2>1. submission' \in Submission
    BY <1>4, <1>6 DEF SubmissionAsk, Submission
  <2> QED
    BY <1>1, <1>2, <1>6, <2>1, TypePartsNext DEF SubmissionAsk, IdrTypes, EncoderTypes, idrs
<1>7. CASE SubmissionAccepted
  <2> DEFINE new == [id |-> nextId, prev |-> accepted,
                     key |-> submission.forced \/ accepted = None]
  <2>1. /\ nextId < MaxFrame /\ nextId' = nextId + 1 /\ accepted' = nextId
        /\ idr' \in {idr, nextId} /\ submitted' = Append(submitted, new)
        /\ submission' = NoSubmission
        /\ UNCHANGED <<force, session, handoff, late, stray>>
    BY <1>7 DEF SubmissionAccepted
  <2>2. new \in Encoded
    BY <1>1, <1>4, <2>1, Numbers DEF Encoded, EncoderTypes
  <2> HIDE DEF new
  <2>3. submitted' \in Seq(Encoded)
    BY <1>1, <2>1, <2>2, RangeAppend DEF EncoderTypes
  <2> QED
    BY <1>1, <1>2, <1>3, <2>1, <2>3, Numbers, TypePartsNext DEF IdrTypes, EncoderTypes
<1>8. CASE SubmissionRefused
  <2>1. force' \in BOOLEAN
    BY <1>1, <1>4, <1>8 DEF SubmissionRefused, IdrTypes
  <2> QED
    BY <1>1, <1>2, <1>3, <1>8, <2>1, TypePartsNext
       DEF SubmissionRefused, IdrTypes, EncoderTypes
<1> QED
  BY <1>5, <1>6, <1>7, <1>8

LEMMA CompletionTypes ==
  ASSUME TypeOK, CompletionCommit \/ CompletionFails \/ CompletionHandOver
  PROVE  TypeOK'
<1>1. IdrTypes /\ EncoderTypes /\ SenderTypes
  BY TypeParts
<1>2. NetworkTypes'
  BY Frames DEF CompletionCommit, CompletionFails, CompletionHandOver
<1>3. <<>> \in Seq(Encoded)
  OBVIOUS
<1>4. CASE CompletionCommit
  <2>1. submitted # <<>> /\ submitted' = Tail(submitted)
        /\ handoff' \in {<<>>, <<submitted[1]>>}
        /\ UNCHANGED <<force, idr, nextId, session, accepted, submission, late, stray, toSender>>
    BY <1>4 DEF CompletionCommit, idrs
  <2>2. submitted' \in Seq(Encoded) /\ submitted[1] \in Encoded
    BY <1>1, <2>1, RangeTail DEF EncoderTypes
  <2>3. handoff' \in {<<>>} \cup {<<frame>> : frame \in Encoded}
    BY <2>1, <2>2
  <2> QED
    BY <1>1, <1>2, <2>1, <2>2, <2>3, Frames, TypePartsNext DEF IdrTypes, EncoderTypes
<1>5. CASE CompletionFails
  BY <1>1, <1>2, <1>3, <1>5, Frames, TypePartsNext DEF CompletionFails, IdrTypes, EncoderTypes
<1>6. CASE CompletionHandOver
  <2>1. encoded' = encoded \o handoff /\ handoff' = <<>> /\ handoff # <<>>
        /\ UNCHANGED <<idrs, nextId, session, accepted, submission, submitted, late, stray,
                       sender, outcome>>
    BY <1>6 DEF CompletionHandOver
  <2>2. handoff \in Seq(Encoded)
    <3>1. \A f \in Encoded : <<f>> \in Seq(Encoded)
      OBVIOUS
    <3> QED
      BY <2>1, <3>1, PipeTypes
  <2>3. encoded' \in Seq(Encoded)
    BY <1>1, <2>1, <2>2, RangeConcat DEF SenderTypes
  <2> QED
    BY <1>1, <1>2, <2>1, <2>3, Frames, TypePartsNext DEF EncoderTypes, SenderTypes
<1> QED
  BY <1>4, <1>5, <1>6

\* Asking for an IDR or not.
LEMMA RequestedType == TypeOK => Requested \in BOOLEAN
BY TypeParts DEF Requested, IdrTypes

LEMMA SenderStepTypes ==
  ASSUME TypeOK, SenderInv,
         SenderHandled \/ SenderReceive \/ SenderDecide \/ SenderSent \/ SenderFails
  PROVE  TypeOK'
<1>1. NetworkTypes /\ IdrTypes /\ EncoderTypes /\ SenderTypes
  BY TypeParts
<1>2. NetworkTypes' /\ EncoderTypes'
  BY Frames DEF SenderHandled, SenderReceive, SenderDecide, SenderSent, SenderFails
<1>3. CASE SenderHandled
  <2>1. idr' \in {idr, None} /\ UNCHANGED <<force, encoded, outcome>>
        /\ sender' = [sender EXCEPT !.handled = None]
    BY <1>3 DEF SenderHandled
  <2>2. sender' \in Sender
    BY <1>1, <2>1 DEF SenderTypes, Sender
  <2> QED
    BY <1>1, <1>2, <2>1, <2>2, TypePartsNext DEF IdrTypes, SenderTypes
<1>4. CASE SenderReceive
  <2>1. /\ encoded # <<>> /\ encoded' = Tail(encoded) /\ UNCHANGED <<idrs, outcome>>
        /\ sender' = [sender EXCEPT !.pc = "read", !.frame = <<encoded[1]>>,
                                    !.handled = encoded[1].id, !.to = peer]
    BY <1>4 DEF SenderReceive
  <2>2. encoded' \in Seq(Encoded) /\ encoded[1] \in Encoded
    BY <1>1, <2>1, RangeTail DEF SenderTypes
  <2>3. encoded[1].id \in Id /\ <<encoded[1]>> \in {<<frame>> : frame \in Encoded}
    BY <2>2 DEF Encoded
  <2>4. sender' \in Sender
    BY <1>1, <2>1, <2>3 DEF SenderTypes, Sender, NetworkTypes
  <2> QED
    BY <1>1, <1>2, <2>1, <2>2, <2>4, Frames, TypePartsNext DEF SenderTypes
<1>5. CASE SenderDecide
  <2>1. PICK pc \in {"top", "sending"}, frame \in {<<>>, sender.frame}, waiting \in BOOLEAN,
             last \in {sender.last, None} :
          sender' = [sender EXCEPT !.pc = pc, !.frame = frame, !.to = None, !.peer = sender.to,
                                   !.epoch = epoch, !.waiting = waiting, !.last = last]
    BY <1>5, Zenon DEF SenderDecide
  <2>2. sender' \in Sender
    BY <1>1, <2>1 DEF SenderTypes, Sender, NetworkTypes
  <2>3. force' \in BOOLEAN /\ outcome' \in {"none", "discarded"} /\ UNCHANGED <<idr, encoded>>
    BY <1>1, <1>5, RequestedType DEF SenderDecide, IdrTypes
  <2> QED
    BY <1>1, <1>2, <2>2, <2>3, TypePartsNext DEF SenderTypes, IdrTypes
<1>6. CASE SenderSent
  <2>1. /\ sender.pc = "sending" /\ outcome' = "sent" /\ UNCHANGED <<idrs, encoded>>
        /\ sender' = [sender EXCEPT !.pc = "top", !.frame = <<>>, !.last = sender.frame[1].id]
    BY <1>6 DEF SenderSent
  <2>2. sender.frame[1].id \in Id
    BY <2>1, SenderFrame DEF Encoded
  <2>3. sender' \in Sender
    BY <1>1, <2>1, <2>2 DEF SenderTypes, Sender
  <2> QED
    BY <1>1, <1>2, <2>1, <2>3, Frames, TypePartsNext DEF SenderTypes
<1>7. CASE SenderFails
  <2>1. /\ outcome' = "failed" /\ UNCHANGED <<idr, encoded>> /\ force' = Requested
        /\ sender' = [sender EXCEPT !.pc = "top", !.frame = <<>>, !.waiting = TRUE, !.last = None]
    BY <1>7 DEF SenderFails
  <2>2. sender' \in Sender
    BY <1>1, <2>1 DEF SenderTypes, Sender
  <2> QED
    BY <1>1, <1>2, <2>1, <2>2, RequestedType, TypePartsNext DEF SenderTypes, IdrTypes
<1> QED
  BY <1>3, <1>4, <1>5, <1>6, <1>7

LEMMA NetworkStepTypes ==
  ASSUME TypeOK, EpochBounded, StorePeer \/ MoveEpoch \/ AskForKeyframe
  PROVE  TypeOK'
<1>1. NetworkTypes /\ IdrTypes /\ (replacing => epoch + 1 \in 0..MaxEpoch)
  BY TypeParts DEF NetworkTypes, EpochBounded
<1>2. EncoderTypes' /\ SenderTypes'
  BY Frames DEF StorePeer, MoveEpoch, AskForKeyframe
<1>3. CASE StorePeer
  BY <1>1, <1>2, <1>3, Frames, TypePartsNext DEF StorePeer, NetworkTypes
<1>4. CASE MoveEpoch
  BY <1>1, <1>2, <1>4, Frames, TypePartsNext DEF MoveEpoch, NetworkTypes
<1>5. CASE AskForKeyframe
  BY <1>1, <1>2, <1>5, Frames, TypePartsNext DEF AskForKeyframe, IdrTypes
<1> QED
  BY <1>3, <1>4, <1>5

LEMMA TypesAreKept == ASSUME IInv, Next PROVE TypeOK'
BY SessionTypes, SubmissionTypes, CompletionTypes, SenderStepTypes, NetworkStepTypes DEF IInv, Next

----------------------------------------------------------------------------
(* What a step does to the frames on their way.                            *)

Quiet ==
  \/ StartSession \/ RetireSession \/ EndSession \/ Detach \/ LateSubmission
  \/ SubmissionTake \/ SubmissionAsk \/ SubmissionRefused
  \/ StorePeer \/ MoveEpoch \/ AskForKeyframe

Completing == CompletionCommit \/ CompletionFails \/ CompletionHandOver
Sending == SenderHandled \/ SenderReceive \/ SenderDecide \/ SenderSent \/ SenderFails

LEMMA NextParts == Next <=> Quiet \/ Completing \/ Sending \/ SubmissionAccepted
BY DEF Next, Quiet, Completing, Sending

\* Sessions, requests and viewers do not touch them, but for those a detached
\* driver keeps.
LEMMA QuietFrames ==
  ASSUME IInv, Quiet
  PROVE  /\ UNCHANGED <<encoded, handoff, sender, shown, outcome>>
         /\ submitted' \in {submitted, <<>>}
         /\ session' = "on" => submitted' = submitted
         /\ accepted' \in {accepted, None} /\ nextId' \in {nextId, nextId + 1}
<1> USE DEF network, idrs, encoder, toSender
<1>1. CASE StartSession \/ RetireSession \/ EndSession \/ Detach
  BY <1>1 DEF StartSession, RetireSession, EndSession, Detach
<1>2. CASE LateSubmission
  BY <1>2 DEF LateSubmission
<1>3. CASE SubmissionTake \/ SubmissionAsk \/ SubmissionRefused
  BY <1>3 DEF SubmissionTake, SubmissionAsk, SubmissionRefused
<1>4. CASE StorePeer \/ MoveEpoch \/ AskForKeyframe
  BY <1>4 DEF StorePeer, MoveEpoch, AskForKeyframe
<1> QED
  BY <1>1, <1>2, <1>3, <1>4 DEF Quiet

LEMMA QuietQueue ==
  ASSUME IInv, Quiet
  PROVE  /\ Queued' \subseteq Queued /\ Pipe' \subseteq Pipe
         /\ session' = "on" => Queued' = Queued
<1>1. Range(submitted') \subseteq Range(submitted)
  BY QuietFrames, RangeEmpty
<1> QED
  BY <1>1, QuietFrames DEF Queued, Pipe

LEMMA CompletingFrames ==
  ASSUME IInv, Completing
  PROVE  /\ UNCHANGED <<sender, shown, outcome, accepted, nextId, idr, submission, stray>>
         /\ Queued' \subseteq Queued /\ Pipe' \subseteq Pipe
         /\ session' = "on" => session = "on" /\ Queued' = Queued /\ force' = force
<1> USE DEF network, idrs, encoder, toSender
<1>1. /\ submitted \in Seq(Encoded) /\ encoded \in Seq(Encoded)
      /\ handoff # <<>> => handoff[1] \in Encoded /\ handoff = <<handoff[1]>>
  BY PipeTypes, TypeParts DEF IInv, EncoderTypes, SenderTypes
<1>2. UNCHANGED <<sender, shown, outcome, accepted, nextId, idr, submission, stray>>
  BY DEF Completing, CompletionCommit, CompletionFails, CompletionHandOver
<1>3. Queued' \subseteq Queued
      /\ (session' = "on" => session = "on" /\ Queued' = Queued /\ force' = force)
  <2>1. CASE CompletionCommit
    <3>1. /\ submitted # <<>> /\ handoff = <<>> /\ submitted' = Tail(submitted)
          /\ handoff' = IF session = "on" THEN <<submitted[1]>> ELSE <<>>
          /\ UNCHANGED <<encoded, session, force>>
      BY <2>1 DEF CompletionCommit
    <3>2. Range(submitted) = {submitted[1]} \cup Range(submitted') /\ Range(handoff) = {}
      BY <1>1, <3>1, RangeTail, RangeEmpty
    <3>3. Range(handoff') = IF session = "on" THEN {submitted[1]} ELSE {}
      BY <3>1, RangeEmpty, RangeOne
    <3> QED
      BY <3>1, <3>2, <3>3 DEF Queued
  <2>2. CASE CompletionFails
    <3>1. submitted' = <<>> /\ session' = "retiring" /\ UNCHANGED <<encoded, handoff>>
      BY <2>2 DEF CompletionFails
    <3> QED
      BY <3>1, RangeEmpty DEF Queued
  <2>3. CASE CompletionHandOver
    <3>1. /\ handoff # <<>> /\ encoded' = encoded \o handoff /\ handoff' = <<>>
          /\ UNCHANGED <<submitted, session, force>>
      BY <2>3 DEF CompletionHandOver
    <3>2. handoff \in Seq(Encoded)
      <4>1. \A f \in Encoded : <<f>> \in Seq(Encoded)
        OBVIOUS
      <4> QED
        BY <1>1, <3>1, <4>1
    <3>3. Range(encoded') = Range(encoded) \cup Range(handoff) /\ Range(handoff') = {}
      BY <1>1, <3>1, <3>2, RangeConcat, RangeEmpty
    <3> QED
      BY <3>1, <3>3 DEF Queued
  <2> QED
    BY <2>1, <2>2, <2>3 DEF Completing
<1>4. Pipe' \subseteq Pipe
  BY <1>2, <1>3 DEF Pipe
<1> QED
  BY <1>2, <1>3, <1>4

LEMMA SendingFrames ==
  ASSUME IInv, Sending
  PROVE  /\ UNCHANGED <<encoder>>
         /\ Queued' \subseteq Queued /\ Pipe' \subseteq Pipe
         /\ ~SenderReceive => Queued' = Queued
         /\ sender'.last \in {sender.last, None} \/ \E f \in Pipe : sender'.last = f.id
<1> USE DEF network, idrs, toSender
<1>1. encoded \in Seq(Encoded) /\ sender \in Sender
  BY TypeParts DEF IInv, SenderTypes
<1>2. UNCHANGED encoder
  BY DEF Sending, SenderHandled, SenderReceive, SenderDecide, SenderSent, SenderFails
<1>3. UNCHANGED <<handoff, submitted>>
  BY <1>2 DEF encoder
<1>4. CASE SenderReceive
  <2>1. /\ encoded # <<>> /\ encoded' = Tail(encoded)
        /\ sender'.frame = <<encoded[1]>> /\ sender'.last = sender.last
    BY <1>1, <1>4 DEF SenderReceive, Sender
  <2>2. Range(encoded) = {encoded[1]} \cup Range(encoded')
        /\ Range(sender'.frame) = {encoded[1]}
    BY <1>1, <2>1, RangeTail, RangeOne
  <2> QED
    BY <1>2, <1>3, <1>4, <2>1, <2>2 DEF Queued, Pipe
<1>5. CASE SenderHandled \/ SenderDecide \/ SenderSent \/ SenderFails
  <2>1. encoded' = encoded
    BY <1>5 DEF SenderHandled, SenderDecide, SenderSent, SenderFails
  <2>2. sender'.frame \in {sender.frame, <<>>}
    <3>1. CASE SenderHandled
      BY <1>1, <3>1 DEF SenderHandled, Sender
    <3>2. CASE SenderDecide
      BY <1>1, <3>2 DEF SenderDecide, Sender
    <3>3. CASE SenderSent
      BY <1>1, <3>3 DEF SenderSent, Sender
    <3>4. CASE SenderFails
      BY <1>1, <3>4 DEF SenderFails, Sender
    <3> QED
      BY <1>5, <3>1, <3>2, <3>3, <3>4
  <2>3. sender'.last \in {sender.last, None} \/ \E f \in Pipe : sender'.last = f.id
    <3>1. CASE SenderHandled
      BY <1>1, <3>1 DEF SenderHandled, Sender
    <3>2. CASE SenderDecide
      BY <1>1, <3>2 DEF SenderDecide, Sender
    <3>3. CASE SenderSent
      <4>1. sender.pc = "sending" /\ sender'.last = sender.frame[1].id
        BY <1>1, <3>3 DEF SenderSent, Sender
      <4>2. sender.frame[1] \in Pipe
        BY <4>1, SenderFrame DEF IInv, Pipe
      <4> QED
        BY <4>1, <4>2
    <3>4. CASE SenderFails
      BY <1>1, <3>4 DEF SenderFails, Sender
    <3> QED
      BY <1>5, <3>1, <3>2, <3>3, <3>4
  <2>4. Range(sender'.frame) \subseteq Range(sender.frame)
    BY <2>2, RangeEmpty
  <2> QED
    BY <1>2, <1>3, <2>1, <2>3, <2>4 DEF Queued, Pipe
<1> QED
  BY <1>4, <1>5 DEF Sending

----------------------------------------------------------------------------
(* Numbers.                                                                *)

\* What leaves the pipe leaves it for good, whatever number is taken besides.
LEMMA NumberedShrinks ==
  ASSUME TypeOK, Numbered, Pipe' \subseteq Pipe,
         nextId' \in {nextId, nextId + 1}, accepted' \in {accepted, None},
         sender'.last \in {sender.last, None} \/ \E f \in Pipe : sender'.last = f.id
  PROVE  Numbered'
<1>1. /\ nextId \in Nat /\ None \notin Int /\ accepted \in Int \cup {None}
      /\ sender.last \in Int \cup {None}
  BY Numbers
<1>2. ASSUME NEW f \in Pipe PROVE f.id \in Int
  BY Numbers, PipeTypes
<1>3. ASSUME NEW x \in Int, Known(x)' PROVE Known(x)
  <2>1. CASE sender'.last = x
    BY <1>1, <2>1 DEF Known
  <2>2. CASE \E f \in Pipe' : f.id = x
    BY <2>2 DEF Known
  <2> QED
    BY <1>3, <2>1, <2>2 DEF Known
<1>4. ASSUME NEW x \in Int, Known(x) PROVE x < nextId
  BY <1>1, <1>4 DEF Known, Numbered
<1>5. \A f \in Pipe' : f.id < nextId'
  BY <1>1, <1>2 DEF Numbered
<1>6. sender'.last # None => sender'.last < nextId'
  <2> SUFFICES ASSUME sender'.last # None PROVE sender'.last < nextId'
    OBVIOUS
  <2>1. sender'.last \in Int /\ sender'.last < nextId
    BY <1>1, <1>2 DEF Numbered
  <2> QED
    BY <1>1, <2>1
<1>7. \A f \in Pipe' : f.key \/ f.prev = f.id - 1 \/ ~Known(f.id - 1)'
  BY <1>2, <1>3 DEF Numbered
<1>8. accepted' # None => accepted' = nextId' - 1 \/ ~Known(nextId - 1)'
  <2> SUFFICES ASSUME accepted' # None, Known(nextId - 1)'
               PROVE  accepted' = nextId' - 1
    OBVIOUS
  <2>1. sender'.last = nextId' - 1 \/ \E f \in Pipe' : f.id = nextId' - 1
    BY DEF Known
  <2>2. sender.last = nextId' - 1 \/ \E f \in Pipe : f.id = nextId' - 1
    BY <1>1, <2>1
  <2>3. nextId' - 1 < nextId
    <3>1. nextId' - 1 \in Int
      BY <1>1
    <3> QED
      BY <1>1, <2>2, <3>1 DEF Numbered
  <2>4. nextId' = nextId
    <3>1. nextId' = nextId \/ nextId' = nextId + 1
      OBVIOUS
    <3>2. nextId' = nextId + 1 => ~(nextId' - 1 < nextId)
      BY <1>1
    <3> QED
      BY <2>3, <3>1, <3>2
  <2>5. Known(nextId - 1)
    BY <2>2, <2>4 DEF Known
  <2> QED
    BY <2>4, <2>5 DEF Numbered
<1> QED
  BY <1>5, <1>6, <1>7, <1>8 DEF Numbered

\* The frame NVENC takes.
NewFrame == [id |-> nextId, prev |-> accepted, key |-> submission.forced \/ accepted = None]

LEMMA AcceptedFrames ==
  ASSUME IInv, SubmissionAccepted
  PROVE  /\ NewFrame \in Encoded /\ nextId' = nextId + 1 /\ accepted' = nextId
         /\ submitted' = Append(submitted, NewFrame)
         /\ UNCHANGED <<encoded, handoff, sender, shown, outcome, stray, session, force>>
         /\ Queued' = Queued \cup {NewFrame} /\ Pipe' = Pipe \cup {NewFrame}
         /\ idr' = IF submission.forced THEN nextId ELSE idr
         /\ submission' = NoSubmission
<1> USE DEF network, toSender
<1>1. /\ nextId < MaxFrame /\ nextId' = nextId + 1 /\ accepted' = nextId
      /\ submitted' = Append(submitted, NewFrame)
      /\ UNCHANGED <<encoded, handoff, sender, shown, outcome, stray, session, force>>
      /\ idr' = IF submission.forced THEN nextId ELSE idr
      /\ submission' = NoSubmission
  BY DEF SubmissionAccepted, NewFrame
<1>2. NewFrame \in Encoded
  <2>1. submission.forced \in BOOLEAN /\ accepted \in Id \cup {None} /\ nextId \in Id
    BY <1>1, TypeParts, Numbers DEF IInv, EncoderTypes, Submission
  <2> QED
    BY <2>1 DEF NewFrame, Encoded
<1>3. Range(submitted') = Range(submitted) \cup {NewFrame}
  BY <1>1, <1>2, TypeParts, RangeAppend DEF IInv, EncoderTypes
<1> QED
  BY <1>1, <1>2, <1>3 DEF Queued, Pipe

LEMMA NumberedAccepts ==
  ASSUME IInv, SubmissionAccepted
  PROVE  Numbered'
<1>1. /\ nextId \in Nat /\ None \notin Int /\ accepted \in Int \cup {None}
      /\ sender.last \in Int \cup {None}
  BY Numbers DEF IInv
<1>2. /\ NewFrame.id = nextId /\ NewFrame.prev = accepted
      /\ NewFrame.key \/ accepted # None
  BY DEF NewFrame
<1>3. nextId' = nextId + 1 /\ accepted' = nextId /\ sender' = sender
      /\ Pipe' = Pipe \cup {NewFrame}
  BY AcceptedFrames
<1>4. ASSUME NEW f \in Pipe PROVE f.id \in Int /\ f.id < nextId
  BY Numbers, PipeTypes DEF IInv, Numbered
<1>5. ASSUME NEW x \in Int, x < nextId, Known(x)' PROVE Known(x)
  BY <1>2, <1>3, <1>5 DEF Known
<1>6. \A f \in Pipe' : f.id < nextId'
  BY <1>1, <1>2, <1>3, <1>4
<1>7. sender'.last # None => sender'.last < nextId'
  BY <1>1, <1>3 DEF IInv, Numbered
<1>8. ASSUME NEW f \in Pipe' PROVE f.key \/ f.prev = f.id - 1 \/ ~Known(f.id - 1)'
  <2>1. CASE f \in Pipe
    <3>1. f.id - 1 \in Int /\ f.id - 1 < nextId
      BY <1>1, <1>4, <2>1
    <3> QED
      BY <1>5, <2>1, <3>1 DEF IInv, Numbered
  <2>2. CASE f = NewFrame
    <3>1. nextId - 1 \in Int /\ nextId - 1 < nextId
      BY <1>1
    <3> QED
      BY <1>2, <1>5, <2>2, <3>1 DEF IInv, Numbered
  <2> QED
    BY <1>3, <2>1, <2>2
<1>9. accepted' = nextId' - 1
  BY <1>1, <1>3
<1> QED
  BY <1>6, <1>7, <1>8, <1>9 DEF Numbered

LEMMA NumberedIsKept == ASSUME IInv, Next PROVE Numbered'
<1>1. CASE Quiet
  BY <1>1, QuietFrames, QuietQueue, NumberedShrinks DEF IInv
<1>2. CASE Completing
  BY <1>2, CompletingFrames, NumberedShrinks DEF IInv
<1>3. CASE Sending
  <2>1. nextId' = nextId /\ accepted' = accepted
    BY <1>3, SendingFrames DEF encoder
  <2> QED
    BY <1>3, <2>1, SendingFrames, NumberedShrinks DEF IInv
<1>4. CASE SubmissionAccepted
  BY <1>4, NumberedAccepts
<1> QED
  BY <1>1, <1>2, <1>3, <1>4, NextParts

----------------------------------------------------------------------------
(* The sender.                                                             *)

LEMMA SenderInvIsKept == ASSUME IInv, Next PROVE SenderInv'
<1>1. sender \in Sender /\ encoded \in Seq(Encoded) /\ SenderInv
  BY TypeParts DEF IInv, SenderTypes
<1>2. CASE UNCHANGED <<sender, shown>>
  BY <1>1, <1>2 DEF SenderInv, Follows
<1>3. CASE SenderHandled
  <2>1. sender.pc = "top" /\ sender' = [sender EXCEPT !.handled = None] /\ shown' = shown
    BY <1>3 DEF SenderHandled
  <2> QED
    BY <1>1, <2>1 DEF SenderInv, Follows, Sender
<1>4. CASE SenderReceive
  <2>1. /\ sender.pc = "top" /\ shown' = shown
        /\ sender' = [sender EXCEPT !.pc = "read", !.frame = <<encoded[1]>>,
                                    !.handled = encoded[1].id, !.to = peer]
    BY <1>4 DEF SenderReceive
  <2>2. /\ sender'.pc = "read" /\ sender'.frame = <<encoded[1]>>
        /\ sender'.handled = encoded[1].id /\ sender'.waiting = sender.waiting
        /\ sender'.last = sender.last /\ sender'.peer = sender.peer
        /\ sender'.epoch = sender.epoch
    BY <1>1, <2>1 DEF Sender
  <2>3. sender'.frame # <<>> /\ sender'.frame[1] = encoded[1]
    BY <2>2, RangeOne
  <2> QED
    BY <1>1, <2>1, <2>2, <2>3 DEF SenderInv, Follows
<1>5. CASE SenderDecide
  <2> DEFINE frame == sender.frame[1]
             changed == sender.to # sender.peer \/ epoch # sender.epoch
             gap == ~changed /\ sender.last # None /\ frame.id # sender.last + 1
             dropped == (changed \/ gap \/ sender.waiting) /\ ~frame.key
             nobody == ~dropped /\ sender.to = None
  <2>1. /\ sender.pc = "read" /\ shown' = shown
        /\ sender' = [sender EXCEPT
             !.pc = IF dropped \/ nobody THEN "top" ELSE "sending",
             !.frame = IF dropped \/ nobody THEN <<>> ELSE @,
             !.to = None, !.peer = sender.to, !.epoch = epoch,
             !.waiting = dropped \/ nobody,
             !.last = IF changed \/ nobody THEN None ELSE @]
    BY <1>5, Zenon DEF SenderDecide
  <2>2. /\ sender'.pc = IF dropped \/ nobody THEN "top" ELSE "sending"
        /\ sender'.frame = IF dropped \/ nobody THEN <<>> ELSE sender.frame
        /\ sender'.peer = sender.to /\ sender'.epoch = epoch
        /\ sender'.waiting = (dropped \/ nobody) /\ sender'.handled = sender.handled
        /\ sender'.last = IF changed \/ nobody THEN None ELSE sender.last
    BY <1>1, <2>1 DEF Sender
  <2>3. sender.frame # <<>> /\ sender.handled = frame.id
    BY <1>1, <2>1 DEF SenderInv
  <2>4. CASE dropped \/ nobody
    BY <2>2, <2>4 DEF SenderInv
  <2>5. CASE ~(dropped \/ nobody)
    <3>1. /\ sender'.pc = "sending" /\ sender'.frame = sender.frame
          /\ sender'.peer = sender.to /\ sender'.epoch = epoch
          /\ sender'.handled = sender.handled
          /\ sender'.last = IF changed THEN None ELSE sender.last
      BY <2>2, <2>5
    <3>2. ~frame.key => ~changed /\ ~gap /\ ~sender.waiting
      BY <2>5
    <3>3. ~frame.key => Follows /\ frame.id = sender.last + 1
      BY <1>1, <2>1, <3>2 DEF SenderInv, Follows
    <3>4. ~frame.key => Follows'
      BY <2>1, <3>1, <3>2, <3>3 DEF Follows
    <3>5. sender'.last = sender.last \/ frame.key
      BY <3>1, <3>2
    <3> HIDE DEF frame, changed, gap, dropped, nobody
    <3>6. sender'.frame[1] = frame
      BY <3>1 DEF frame
    <3> QED
      BY <2>3, <3>1, <3>3, <3>4, <3>5, <3>6 DEF SenderInv
  <2> QED
    BY <2>4, <2>5
<1>6. CASE SenderSent
  <2>1. /\ sender' = [sender EXCEPT !.pc = "top", !.frame = <<>>, !.last = sender.frame[1].id]
        /\ shown' = [peer |-> sender.peer, epoch |-> sender.epoch, id |-> sender.frame[1].id,
                     key |-> sender.frame[1].key, prev |-> sender.frame[1].prev]
        /\ sender.pc = "sending"
    BY <1>6 DEF SenderSent
  <2>2. sender.frame[1].id \in Int /\ None \notin Int
    BY <2>1, SenderFrame, Numbers DEF IInv
  <2>3. /\ sender'.pc = "top" /\ sender'.frame = <<>> /\ sender'.last = sender.frame[1].id
        /\ sender'.peer = sender.peer /\ sender'.epoch = sender.epoch
    BY <1>1, <2>1 DEF Sender
  <2> QED
    BY <2>1, <2>2, <2>3 DEF SenderInv, Follows
<1>7. CASE SenderFails
  <2>1. sender' = [sender EXCEPT !.pc = "top", !.frame = <<>>, !.waiting = TRUE, !.last = None]
    BY <1>7 DEF SenderFails
  <2> QED
    BY <1>1, <2>1 DEF SenderInv, Sender
<1>8. Quiet \/ Completing \/ SubmissionAccepted => UNCHANGED <<sender, shown>>
  BY QuietFrames, CompletingFrames, AcceptedFrames
<1> QED
  BY <1>2, <1>3, <1>4, <1>5, <1>6, <1>7, <1>8, NextParts DEF Sending

----------------------------------------------------------------------------
(* Requests and IDRs.                                                      *)

LEMMA EpochBoundedIsKept == ASSUME IInv, Next PROVE EpochBounded'
<1>1. CASE StorePeer
  BY <1>1 DEF StorePeer, EpochBounded
<1>2. CASE MoveEpoch
  BY <1>2 DEF MoveEpoch, EpochBounded
<1>3. CASE UNCHANGED network
  BY <1>3 DEF IInv, network, EpochBounded
<1>4. Next => StorePeer \/ MoveEpoch \/ UNCHANGED network
  BY DEF Next, StartSession, RetireSession, EndSession, Detach, LateSubmission,
         SubmissionTake, SubmissionAsk, SubmissionAccepted, SubmissionRefused,
         CompletionCommit, CompletionFails, CompletionHandOver,
         SenderHandled, SenderReceive, SenderDecide, SenderSent, SenderFails, AskForKeyframe
<1> QED
  BY <1>1, <1>2, <1>3, <1>4

LEMMA SubmissionInvIsKept == ASSUME IInv, Next PROVE SubmissionInv'
<1> USE DEF encoder
<1>1. SubmissionInv
  BY DEF IInv
<1>2. NoSubmission.pc = "idle" /\ NoSubmission.asked = FALSE /\ NoSubmission.forced = FALSE
  BY DEF NoSubmission
<1>3. CASE StartSession
  BY <1>1, <1>3 DEF StartSession, SubmissionInv
<1>4. CASE RetireSession
  BY <1>1, <1>4 DEF RetireSession, SubmissionInv
<1>5. CASE EndSession
  BY <1>1, <1>5 DEF EndSession, SubmissionInv
<1>6. CASE Detach
  BY <1>2, <1>6 DEF Detach, SubmissionInv
<1>7. CASE LateSubmission
  BY <1>1, <1>7 DEF LateSubmission, SubmissionInv
<1>8. CASE SubmissionTake
  <2>1. /\ submission'.pc = "asking" /\ submission'.forced = FALSE
        /\ session = "on" /\ session' = session
    BY <1>8 DEF SubmissionTake
  <2> QED
    BY <2>1 DEF SubmissionInv
<1>9. CASE SubmissionAsk
  <2>1. /\ submission'.pc = "driver" /\ submission'.asked = FALSE
        /\ submission.pc = "asking" /\ session' = session
    BY <1>9 DEF SubmissionAsk
  <2> QED
    BY <1>1, <2>1 DEF SubmissionInv
<1>10. CASE SubmissionAccepted
  <2>1. submission' = NoSubmission /\ submission.pc = "driver" /\ session' = session
    BY <1>10 DEF SubmissionAccepted
  <2> QED
    BY <1>1, <1>2, <2>1 DEF SubmissionInv
<1>11. CASE SubmissionRefused
  <2>1. submission' = NoSubmission /\ UNCHANGED <<session, accepted, submitted>>
    BY <1>11 DEF SubmissionRefused
  <2> QED
    BY <1>1, <1>2, <2>1 DEF SubmissionInv
<1>12. CASE Completing
  <2>1. /\ submission' = submission
        /\ \/ submitted # <<>> /\ session' \in {session, "retiring"}
           \/ UNCHANGED <<session, accepted, submitted>>
    BY <1>12 DEF Completing, CompletionCommit, CompletionFails, CompletionHandOver
  <2> QED
    BY <1>1, <2>1 DEF SubmissionInv
<1>13. CASE Sending \/ StorePeer \/ MoveEpoch \/ AskForKeyframe
  <2>1. UNCHANGED encoder
    BY <1>13, SendingFrames DEF StorePeer, MoveEpoch, AskForKeyframe
  <2> QED
    BY <1>1, <2>1 DEF SubmissionInv
<1> QED
  BY <1>3, <1>4, <1>5, <1>6, <1>7, <1>8, <1>9, <1>10, <1>11, <1>12, <1>13 DEF Next, Completing, Sending

LEMMA IdrInvIsKept == ASSUME IInv, Next PROVE IdrInv'
<1> SUFFICES ASSUME idr' # None, session' = "on", ~stray'
             PROVE  \/ \E f \in Pipe' : f.id = idr' /\ f.key
                    \/ sender'.pc = "top" /\ sender'.handled = idr'
  BY DEF IdrInv
<1> DEFINE InPipe == \E f \in Pipe : f.id = idr /\ f.key
           JustHandled == sender.pc = "top" /\ sender.handled = idr
<1>1. CASE Quiet
  <2>1. session = "on" /\ ~stray /\ idr' = idr
    <3>1. CASE StartSession
      BY <3>1 DEF StartSession
    <3>2. CASE RetireSession \/ EndSession \/ Detach
      BY <3>2 DEF RetireSession, EndSession, Detach
    <3>3. CASE LateSubmission
      <4>1. /\ session' = session
            /\ \/ /\ idr' = IF late = "forced" THEN nextId ELSE idr
                  /\ stray' = (stray \/ late = "forced")
               \/ idr' = idr /\ stray' = stray
        BY <3>3, Zenon DEF LateSubmission
      <4>2. CASE idr' = idr /\ stray' = stray
        BY <4>1, <4>2
      <4>3. CASE /\ idr' = IF late = "forced" THEN nextId ELSE idr
                 /\ stray' = (stray \/ late = "forced")
        <5>1. ~stray /\ late # "forced"
          BY <4>3, Zenon
        <5> QED
          BY <4>1, <4>3, <5>1
      <4> QED
        BY <4>1, <4>2, <4>3
    <3>4. CASE SubmissionTake \/ SubmissionAsk \/ SubmissionRefused
      BY <3>4 DEF SubmissionTake, SubmissionAsk, SubmissionRefused, idrs
    <3>5. CASE StorePeer \/ MoveEpoch \/ AskForKeyframe
      BY <3>5 DEF StorePeer, MoveEpoch, AskForKeyframe, idrs, encoder
    <3> QED
      BY <1>1, <3>1, <3>2, <3>3, <3>4, <3>5 DEF Quiet
  <2>2. Pipe' = Pipe /\ sender' = sender
    BY <1>1, QuietFrames, QuietQueue DEF Pipe
  <2> QED
    BY <2>1, <2>2 DEF IInv, IdrInv
<1>2. CASE Completing
  <2>1. session = "on" /\ ~stray /\ idr' = idr /\ sender' = sender /\ Queued' = Queued
    BY <1>2, CompletingFrames
  <2> QED
    BY <2>1 DEF IInv, IdrInv, Pipe
<1>3. CASE SubmissionAccepted
  <2>1. /\ session = "on" /\ ~stray /\ sender' = sender /\ Pipe' = Pipe \cup {NewFrame}
        /\ idr' = IF submission.forced THEN nextId ELSE idr
    BY <1>3, AcceptedFrames
  <2>2. NewFrame.id = nextId /\ (submission.forced => NewFrame.key)
    BY DEF NewFrame
  <2> QED
    BY <2>1, <2>2 DEF IInv, IdrInv
<1>4. CASE Sending
  <2>1. session = "on" /\ ~stray
    BY <1>4, SendingFrames DEF encoder
  <2>2. sender \in Sender /\ encoded \in Seq(Encoded)
    BY TypeParts DEF IInv, SenderTypes
  <2>3. CASE SenderHandled
    <3>1. /\ sender.handled # None /\ idr' = idr /\ ~(sender.handled >= idr)
          /\ sender'.frame = sender.frame
      BY <2>2, <2>3 DEF SenderHandled, Sender
    <3>2. sender.handled # idr
      BY <3>1, Numbers DEF IInv
    <3>3. Pipe' = Pipe
      BY <1>4, <2>3, <3>1, SendingFrames DEF Pipe, SenderHandled, SenderReceive
    <3> QED
      BY <2>1, <3>1, <3>2, <3>3 DEF IInv, IdrInv
  <2>4. CASE SenderReceive
    <3>1. /\ sender.pc = "top" /\ sender.handled = None /\ idr' = idr
          /\ encoded # <<>> /\ encoded' = Tail(encoded) /\ UNCHANGED <<handoff, submitted>>
          /\ sender'.frame = <<encoded[1]>>
      BY <2>2, <2>4 DEF SenderReceive, Sender, idrs, encoder
    <3>2. Range(encoded) = {encoded[1]} \cup Range(encoded')
          /\ Range(sender'.frame) = {encoded[1]} /\ Range(sender.frame) = {}
      BY <2>2, <3>1, RangeTail, RangeOne, RangeEmpty DEF IInv, SenderInv
    <3>3. Pipe' = Pipe
      BY <3>1, <3>2 DEF Pipe, Queued
    <3> QED
      BY <2>1, <3>1, <3>3 DEF IInv, IdrInv
  <2>5. CASE SenderDecide \/ SenderSent \/ SenderFails
    <3>1. /\ sender.pc # "top" /\ idr' = idr /\ sender'.handled = sender.handled
          /\ sender'.frame = sender.frame \/ sender'.pc = "top"
      <4>1. CASE SenderDecide
        BY <2>2, <4>1 DEF SenderDecide, Sender
      <4>2. CASE SenderSent
        BY <2>2, <4>2 DEF SenderSent, Sender, idrs
      <4>3. CASE SenderFails
        BY <2>2, <4>3 DEF SenderFails, Sender
      <4> QED
        BY <2>5, <4>1, <4>2, <4>3
    <3>2. Queued' = Queued
      BY <1>4, <2>5, <3>1, SendingFrames DEF SenderReceive
    <3>3. PICK f \in Pipe : f.id = idr /\ f.key
      BY <2>1, <3>1 DEF IInv, IdrInv
    <3>4. CASE f \in Queued
      BY <3>1, <3>2, <3>3, <3>4 DEF Pipe
    <3>5. CASE f \in Range(sender.frame)
      <4>1. f.id = sender.handled
        BY <3>1, <3>5, SenderFrame DEF IInv
      <4>2. CASE sender'.frame = sender.frame
        BY <3>1, <3>3, <3>5, <4>2 DEF Pipe
      <4> QED
        BY <3>1, <3>3, <4>1, <4>2
    <3> QED
      BY <3>4, <3>5 DEF Pipe
  <2> QED
    BY <1>4, <2>3, <2>4, <2>5 DEF Sending
<1> QED
  BY <1>1, <1>2, <1>3, <1>4, NextParts

KeyQueued == \E f \in Queued : f.key

LEMMA DiscardInvIsKept == ASSUME IInv, Next PROVE DiscardInv'
<1> DEFINE Coming == accepted = None \/ force \/ submission.asked \/ submission.forced \/ KeyQueued
<1> SUFFICES ASSUME outcome' = "discarded", sender'.pc = "top", session' = "on", ~stray'
             PROVE  (idr' # None => KeyQueued') /\ Coming'
  BY DEF DiscardInv, KeyQueued
<1>1. outcome = "discarded" /\ sender.pc = "top" /\ session = "on" /\ ~stray =>
        (idr # None => KeyQueued) /\ Coming
  BY DEF IInv, DiscardInv, KeyQueued
<1>2. /\ submission.pc # "asking" => ~submission.asked
      /\ submission.pc # "driver" => ~submission.forced
      /\ session = "none" => accepted = None
  BY DEF IInv, SubmissionInv
<1>3. CASE Quiet
  <2>1. outcome = "discarded" /\ sender.pc = "top" /\ KeyQueued' = KeyQueued
    BY <1>3, QuietFrames, QuietQueue DEF KeyQueued
  <2>2. CASE StartSession
    BY <1>2, <2>2 DEF StartSession
  <2>3. CASE RetireSession \/ EndSession \/ Detach
    BY <2>3 DEF RetireSession, EndSession, Detach
  <2>4. CASE LateSubmission
    <3>1. /\ UNCHANGED <<session, accepted, submission>>
          /\ \/ /\ idr' = IF late = "forced" THEN nextId ELSE idr
                /\ stray' = (stray \/ late = "forced") /\ force' = force
             \/ idr' = idr /\ stray' = stray /\ force' = (force \/ late = "forced")
      BY <2>4, Zenon DEF LateSubmission
    <3>2. ~stray /\ idr' = idr /\ (force => force')
      <4>1. CASE /\ idr' = IF late = "forced" THEN nextId ELSE idr
                 /\ stray' = (stray \/ late = "forced") /\ force' = force
        <5>1. ~stray /\ late # "forced" /\ (force => force')
          BY <4>1, Zenon
        <5> QED
          BY <4>1, <5>1
      <4>2. CASE idr' = idr /\ stray' = stray /\ force' = (force \/ late = "forced")
        BY <4>2, Zenon
      <4> QED
        BY <3>1, <4>1, <4>2
    <3>3. session = "on"
      BY <3>1
    <3> QED
      BY <1>1, <2>1, <3>1, <3>2, <3>3
  <2>5. CASE SubmissionTake
    <3>1. /\ submission.pc = "idle" /\ session = "on" /\ submission'.asked = force
          /\ UNCHANGED <<idr, accepted, stray>>
      BY <2>5 DEF SubmissionTake
    <3> QED
      BY <1>1, <1>2, <2>1, <3>1
  <2>6. CASE SubmissionAsk
    <3>1. /\ submission.pc = "asking" /\ submission'.forced = (submission.asked /\ idr = None)
          /\ UNCHANGED <<idr, force, accepted, stray, session>>
      BY <2>6 DEF SubmissionAsk, idrs
    <3>2. session = "on" /\ ~stray /\ ~submission.forced
      BY <1>2, <3>1
    <3>3. CASE idr = None
      <4>1. submission.asked => submission'.forced
        BY <3>1, <3>3
      <4> QED
        BY <1>1, <2>1, <3>1, <3>2, <3>3, <4>1
    <3>4. CASE idr # None
      BY <1>1, <2>1, <3>1, <3>2, <3>4
    <3> QED
      BY <3>3, <3>4
  <2>7. CASE SubmissionRefused
    <3>1. /\ submission.pc = "driver" /\ force' = (force \/ submission.forced)
          /\ UNCHANGED <<idr, accepted, stray, session>>
      BY <2>7 DEF SubmissionRefused
    <3>2. session = "on" /\ ~stray /\ ~submission.asked
      BY <1>2, <3>1
    <3>3. force \/ submission.forced => force'
      BY <3>1
    <3> QED
      BY <1>1, <2>1, <3>1, <3>2, <3>3
  <2>8. CASE StorePeer \/ MoveEpoch \/ AskForKeyframe
    <3>1. UNCHANGED <<idr, accepted, submission, session, stray>> /\ (force => force')
      BY <2>8 DEF StorePeer, MoveEpoch, AskForKeyframe, idrs, encoder
    <3> QED
      BY <1>1, <2>1, <3>1
  <2> QED
    BY <1>3, <2>2, <2>3, <2>4, <2>5, <2>6, <2>7, <2>8 DEF Quiet
<1>4. CASE Completing
  BY <1>1, <1>4, CompletingFrames DEF KeyQueued
<1>5. CASE SubmissionAccepted
  <2>1. /\ outcome = "discarded" /\ sender.pc = "top" /\ session = "on" /\ ~stray
        /\ force' = force /\ Queued' = Queued \cup {NewFrame}
        /\ idr' = IF submission.forced THEN nextId ELSE idr
    BY <1>5, AcceptedFrames
  <2>2. submission.forced \/ accepted = None => NewFrame.key
    BY DEF NewFrame
  <2>3. ~submission.asked
    BY <1>2, <1>5 DEF SubmissionAccepted
  <2>4. KeyQueued \/ NewFrame.key => KeyQueued'
    BY <2>1 DEF KeyQueued
  <2> QED
    BY <1>1, <2>1, <2>2, <2>3, <2>4
<1>6. CASE Sending
  <2>1. UNCHANGED <<accepted, submission, session, stray>>
    BY <1>6, SendingFrames DEF encoder
  <2>2. sender \in Sender
    BY TypeParts DEF IInv, SenderTypes
  <2>3. CASE SenderHandled
    <3>1. sender.pc = "top" /\ idr' \in {idr, None} /\ UNCHANGED <<force, outcome>>
      BY <2>3 DEF SenderHandled
    <3>2. KeyQueued' = KeyQueued
      <4>1. sender'.pc = "top"
        OBVIOUS
      <4>2. ~SenderReceive
        BY <2>2, <4>1 DEF SenderReceive, Sender
      <4> QED
        BY <1>6, <4>2, SendingFrames DEF KeyQueued
    <3> QED
      BY <1>1, <2>1, <3>1, <3>2
  <2>4. CASE SenderReceive
    BY <2>2, <2>4 DEF SenderReceive, Sender
  <2>5. CASE SenderDecide
    <3>1. /\ sender.pc = "read" /\ idr' = idr /\ force' = Requested
          /\ ~sender.frame[1].key
      BY <2>5 DEF SenderDecide
    <3>2. Queued' = Queued
      <4>1. ~SenderReceive
        BY <3>1 DEF SenderReceive
      <4> QED
        BY <1>6, <4>1, SendingFrames
    <3>3. ASSUME idr # None PROVE KeyQueued
      <4>1. PICK f \in Pipe : f.id = idr /\ f.key
        BY <2>1, <3>1, <3>3 DEF IInv, IdrInv
      <4>2. f \notin Range(sender.frame)
        BY <3>1, <4>1, SenderFrame DEF IInv
      <4> QED
        BY <4>1, <4>2 DEF Pipe, KeyQueued
    <3>4. idr = None => force'
      BY <3>1 DEF Requested
    <3>5. KeyQueued => KeyQueued'
      BY <3>2 DEF KeyQueued
    <3> QED
      BY <3>1, <3>3, <3>4, <3>5
  <2>6. CASE SenderSent \/ SenderFails
    BY <2>6 DEF SenderSent, SenderFails
  <2> QED
    BY <1>6, <2>3, <2>4, <2>5, <2>6 DEF Sending
<1> QED
  BY <1>3, <1>4, <1>5, <1>6, NextParts

----------------------------------------------------------------------------
(* The order.                                                              *)

LEMMA OrderedIsKept == ASSUME IInv, Next PROVE Ordered'
<1>1. /\ Ordered /\ submitted \in Seq(Encoded) /\ encoded \in Seq(Encoded)
      /\ handoff # <<>> => handoff[1] \in Encoded /\ handoff = <<handoff[1]>>
  BY PipeTypes, TypeParts DEF IInv, EncoderTypes, SenderTypes
<1>2. Increasing(<<>>) /\ \A s : Before(s, <<>>) /\ Before(<<>>, s)
  BY RangeEmpty, IncreasingEmpty DEF Before
<1>3. \A e : <<e>> # <<>> /\ Increasing(<<e>>) /\ Range(<<e>>) = {e}
  BY RangeOne, IncreasingOne
<1>4. CASE Quiet
  BY <1>1, <1>2, <1>4, QuietFrames DEF Ordered
<1>5. CASE CompletionCommit
  <2>1. /\ submitted # <<>> /\ handoff = <<>> /\ submitted' = Tail(submitted)
        /\ handoff' \in {<<>>, <<submitted[1]>>} /\ encoded' = encoded
    BY <1>5 DEF CompletionCommit, toSender
  <2>2. /\ Range(submitted) = {submitted[1]} \cup Range(submitted')
        /\ Increasing(submitted') /\ Before(<<submitted[1]>>, submitted')
    BY <1>1, <2>1, RangeTail, IncreasingTail DEF Ordered
  <2>3. Before(encoded, submitted') /\ Before(encoded, <<submitted[1]>>)
    BY <1>1, <1>3, <2>2 DEF Ordered, Before
  <2> QED
    BY <1>1, <1>2, <1>3, <2>1, <2>2, <2>3 DEF Ordered
<1>6. CASE CompletionFails
  <2>1. submitted' = <<>> /\ UNCHANGED <<handoff, encoded>>
    BY <1>6 DEF CompletionFails, toSender
  <2> QED
    BY <1>1, <1>2, <2>1 DEF Ordered
<1>7. CASE CompletionHandOver
  <2>1. /\ handoff # <<>> /\ encoded' = encoded \o handoff /\ handoff' = <<>>
        /\ submitted' = submitted
    BY <1>7 DEF CompletionHandOver
  <2>2. handoff \in Seq(Encoded)
    <3>1. \A f \in Encoded : <<f>> \in Seq(Encoded)
      OBVIOUS
    <3> QED
      BY <1>1, <2>1, <3>1
  <2>3. Increasing(encoded') /\ Range(encoded') = Range(encoded) \cup Range(handoff)
    BY <1>1, <2>1, <2>2, IncreasingConcat, RangeConcat DEF Ordered
  <2>4. Before(encoded', submitted)
    BY <1>1, <2>3 DEF Ordered, Before
  <2> QED
    BY <1>1, <1>2, <2>1, <2>3, <2>4 DEF Ordered
<1>8. CASE SubmissionAccepted
  <2>1. /\ submitted' = Append(submitted, NewFrame) /\ NewFrame \in Encoded
        /\ UNCHANGED <<encoded, handoff>> /\ NewFrame.id = nextId
    BY <1>8, AcceptedFrames DEF NewFrame
  <2>2. /\ \A f \in Range(encoded) : f.id < nextId
        /\ \A f \in Range(handoff) : f.id < nextId
        /\ \A f \in Range(submitted) : f.id < nextId
    BY DEF IInv, Numbered, Pipe, Queued
  <2>3. Append(submitted, NewFrame) = submitted \o <<NewFrame>> /\ <<NewFrame>> \in Seq(Encoded)
    BY <1>1, <2>1
  <2>4. Before(submitted, <<NewFrame>>)
    BY <1>3, <2>1, <2>2 DEF Before
  <2>5. Increasing(submitted')
    <3>1. Increasing(submitted) /\ Increasing(<<NewFrame>>)
      BY <1>1, <1>3 DEF Ordered
    <3>2. Increasing(submitted \o <<NewFrame>>)
      BY <1>1, <2>3, <2>4, <3>1, IncreasingConcat
    <3> QED
      BY <2>1, <2>3, <3>2
  <2>6. Range(submitted') = Range(submitted) \cup {NewFrame}
    BY <1>1, <2>1, RangeAppend
  <2>7. Before(encoded, submitted') /\ Before(handoff, submitted')
    BY <1>1, <2>1, <2>2, <2>6 DEF Ordered, Before
  <2> QED
    BY <1>1, <2>1, <2>5, <2>7 DEF Ordered
<1>9. CASE Sending
  <2>1. UNCHANGED <<handoff, submitted>>
    BY <1>9, SendingFrames DEF encoder
  <2>2. encoded' = encoded \/ (encoded # <<>> /\ encoded' = Tail(encoded))
    BY <1>9 DEF Sending, SenderHandled, SenderReceive, SenderDecide, SenderSent, SenderFails
  <2>3. CASE encoded' = encoded
    BY <1>1, <2>1, <2>3 DEF Ordered
  <2>4. CASE encoded # <<>> /\ encoded' = Tail(encoded)
    <3>1. Increasing(encoded') /\ Range(encoded') \subseteq Range(encoded)
      BY <1>1, <2>4, RangeTail, IncreasingTail DEF Ordered
    <3>2. Before(encoded', handoff) /\ Before(encoded', submitted)
      BY <1>1, <3>1 DEF Ordered, Before
    <3> QED
      BY <1>1, <2>1, <3>1, <3>2 DEF Ordered
  <2> QED
    BY <2>2, <2>3, <2>4
<1> QED
  BY <1>4, <1>5, <1>6, <1>7, <1>8, <1>9, NextParts DEF Completing

----------------------------------------------------------------------------
(* The theorems.                                                           *)

LEMMA InitIsIInv == Init => IInv
<1> SUFFICES ASSUME Init PROVE IInv
  OBVIOUS
<1>1. /\ Range(encoded) = {} /\ Range(handoff) = {} /\ Range(submitted) = {}
      /\ Range(sender.frame) = {}
  BY RangeEmpty DEF Init, NewSender
<1>2. Pipe = {}
  BY <1>1 DEF Pipe, Queued
<1>3. TypeOK
  <2>1. <<>> \in Seq(Encoded)
    OBVIOUS
  <2>2. NetworkTypes /\ IdrTypes
    <3>1. NetworkTypes
      <4>1. epoch \in 0..MaxEpoch
        BY DEF Init
      <4>2. peer \in Peer \cup {None} /\ replacing \in BOOLEAN
        BY DEF Init
      <4> QED
        BY <4>1, <4>2 DEF NetworkTypes
    <3>2. IdrTypes
      BY DEF Init, IdrTypes
    <3> QED
      BY <3>1, <3>2
  <2>3. EncoderTypes
    <3>1. NoSubmission \in Submission
      BY DEF NoSubmission, Submission
    <3>2. stray \in BOOLEAN
      BY DEF Init
    <3> QED
      BY <2>1, <3>1, <3>2 DEF Init, EncoderTypes
  <2>4. SenderTypes
    BY <2>1 DEF Init, SenderTypes, NewSender, Sender
  <2> QED
    BY <2>2, <2>3, <2>4, TypeParts
<1>4. Numbered
  BY <1>2 DEF Init, NewSender, Numbered
<1>5. SenderInv
  BY DEF Init, NewSender, SenderInv
<1>6. EpochBounded /\ SubmissionInv /\ IdrInv /\ DiscardInv
  BY DEF Init, NoSubmission, EpochBounded, SubmissionInv, IdrInv, DiscardInv
<1>7. Ordered
  BY <1>1, IncreasingEmpty DEF Init, Ordered, Before
<1> QED
  BY <1>3, <1>4, <1>5, <1>6, <1>7 DEF IInv

LEMMA NextKeepsIInv == IInv /\ [Next]_vars => IInv'
<1> SUFFICES ASSUME IInv, [Next]_vars PROVE IInv'
  OBVIOUS
<1>1. CASE Next
  BY <1>1, TypesAreKept, NumberedIsKept, SenderInvIsKept, EpochBoundedIsKept,
     SubmissionInvIsKept, OrderedIsKept, IdrInvIsKept, DiscardInvIsKept DEF IInv
<1>2. CASE UNCHANGED vars
  <2>1. UNCHANGED <<peer, epoch, replacing, force, idr, nextId, session, accepted, submission,
                    submitted, handoff, late, stray, encoded, sender, shown, outcome>>
    BY <1>2 DEF vars, network, idrs, encoder, toSender
  <2>2. TypeOK'
    BY <2>1, Frames, TypePartsNext DEF IInv, network, idrs, encoder, toSender
  <2>3. Pipe' = Pipe /\ Queued' = Queued
    BY <2>1 DEF Pipe, Queued
  <2>4. Numbered'
    BY <2>1, <2>3, NumberedShrinks DEF IInv
  <2>5. EpochBounded' /\ SubmissionInv' /\ SenderInv'
    BY <2>1 DEF IInv, EpochBounded, SubmissionInv, SenderInv, Follows
  <2>6. Ordered'
    BY <2>1 DEF IInv, Ordered
  <2>7. IdrInv' /\ DiscardInv'
    BY <2>1, <2>3 DEF IInv, IdrInv, DiscardInv
  <2> QED
    BY <2>2, <2>4, <2>5, <2>6, <2>7 DEF IInv
<1> QED
  BY <1>1, <1>2

LEMMA InvariantHolds == Spec => []IInv
BY InitIsIInv, NextKeepsIInv, PTL DEF Spec

\* The variables keep their types.
THEOREM StreamTypes == Spec => []TypeOK
<1>1. IInv => TypeOK
  BY DEF IInv
<1> QED
  BY <1>1, InvariantHolds, PTL

\* The frames between NVENC and the sender are in the order NVENC took them,
\* whatever ends a session and whatever a detached call takes for itself.
THEOREM FramesAreInOrder == Spec => []InOrder
<1>1. ASSUME IInv PROVE InOrder
  <2> DEFINE queue == encoded \o handoff \o submitted
  <2>1. /\ Ordered /\ submitted \in Seq(Encoded) /\ encoded \in Seq(Encoded)
        /\ handoff # <<>> => handoff[1] \in Encoded /\ handoff = <<handoff[1]>>
    BY <1>1, PipeTypes, TypeParts DEF IInv, EncoderTypes, SenderTypes
  <2>2. handoff \in Seq(Encoded)
    <3>1. <<>> \in Seq(Encoded) /\ \A f \in Encoded : <<f>> \in Seq(Encoded)
      OBVIOUS
    <3> QED
      BY <2>1, <3>1
  <2>3. Increasing(encoded \o handoff) /\ encoded \o handoff \in Seq(Encoded)
        /\ Range(encoded \o handoff) = Range(encoded) \cup Range(handoff)
    BY <2>1, <2>2, IncreasingConcat, RangeConcat DEF Ordered
  <2>4. Before(encoded \o handoff, submitted)
    BY <2>1, <2>3 DEF Ordered, Before
  <2>5. Increasing(queue)
    BY <2>1, <2>3, <2>4, IncreasingConcat DEF Ordered
  <2> HIDE DEF queue
  <2>6. InOrder = LET ids == [i \in DOMAIN queue |-> queue[i].id]
                  IN  \A i, j \in DOMAIN ids : i < j => ids[i] < ids[j]
    BY Zenon DEF InOrder, queue
  <2> QED
    BY <2>5, <2>6 DEF Increasing
<1> QED
  BY <1>1, InvariantHolds, PTL

\* Each frame sent in full is a keyframe or was encoded from the frame sent to
\* the same viewer just before: sessions, viewers, failures to send and
\* detached calls notwithstanding.
THEOREM WhatIsSentCanBeDecoded == Spec => Decodable
<1>1. ASSUME IInv, [Next]_vars
      PROVE  shown' # shown =>
               \/ shown'.key
               \/ /\ shown'.peer = shown.peer /\ shown'.epoch = shown.epoch
                  /\ shown'.prev = shown.id
  <2> SUFFICES ASSUME shown' # shown, ~shown'.key
               PROVE  /\ shown'.peer = shown.peer /\ shown'.epoch = shown.epoch
                      /\ shown'.prev = shown.id
    OBVIOUS
  <2>1. SenderSent
    <3>1. Next
      BY <1>1 DEF vars, toSender
    <3>2. ~Quiet /\ ~Completing /\ ~SubmissionAccepted
      BY <1>1, QuietFrames, CompletingFrames, AcceptedFrames
    <3>3. ~SenderHandled /\ ~SenderReceive /\ ~SenderDecide /\ ~SenderFails
      BY DEF SenderHandled, SenderReceive, SenderDecide, SenderFails
    <3> QED
      BY <3>1, <3>2, <3>3, NextParts DEF Sending
  <2> DEFINE f == sender.frame[1]
  <2>2. /\ sender.pc = "sending" /\ shown'.peer = sender.peer /\ shown'.epoch = sender.epoch
        /\ shown'.prev = f.prev /\ shown'.key = f.key
    BY <2>1 DEF SenderSent
  <2>3. f \in Encoded /\ Range(sender.frame) = {f}
    BY <1>1, <2>2, SenderFrame DEF IInv
  <2> HIDE DEF f
  <2>4. Follows /\ f.id = sender.last + 1
    BY <1>1, <2>2 DEF IInv, SenderInv, f
  <2>5. f.id - 1 = sender.last
    BY <1>1, <2>3, <2>4, Numbers DEF IInv, Follows
  <2>6. Known(f.id - 1)
    BY <2>5 DEF Known
  <2>7. f.prev = f.id - 1
    BY <1>1, <2>2, <2>3, <2>6 DEF IInv, Numbered, Pipe
  <2> QED
    BY <2>2, <2>4, <2>5, <2>7 DEF Follows
<1> QED
  BY <1>1, InvariantHolds, PTL DEF Spec, Decodable

\* A viewer whose frame was discarded for want of a keyframe has one coming,
\* although requests are dropped while an IDR is in flight: unless a detached
\* submission recorded one that nobody is sent (stray).
THEOREM DiscardsAreRepaired == Spec => []DiscardIsRepaired
<1>1. ASSUME IInv PROVE DiscardIsRepaired
  <2> SUFFICES ASSUME outcome = "discarded", sender.pc = "top", ~stray
               PROVE  KeyframeComing
    BY DEF DiscardIsRepaired
  <2>1. CASE session # "on" \/ accepted = None \/ force \/ submission.asked \/ submission.forced
    BY <2>1 DEF KeyframeComing
  <2>2. CASE \E f \in Queued : f.key
    <3> DEFINE queue == encoded \o handoff \o submitted
    <3>1. /\ submitted \in Seq(Encoded) /\ encoded \in Seq(Encoded)
          /\ handoff # <<>> => handoff[1] \in Encoded /\ handoff = <<handoff[1]>>
      BY <1>1, PipeTypes, TypeParts DEF IInv, EncoderTypes, SenderTypes
    <3>2. handoff \in Seq(Encoded)
      <4>1. <<>> \in Seq(Encoded) /\ \A f \in Encoded : <<f>> \in Seq(Encoded)
        OBVIOUS
      <4> QED
        BY <3>1, <4>1
    <3>3. encoded \o handoff \in Seq(Encoded)
          /\ Range(encoded \o handoff) = Range(encoded) \cup Range(handoff)
      BY <3>1, <3>2, RangeConcat
    <3> HIDE DEF queue
    <3>4. Range(queue) = Queued
      <4> DEFINE front == encoded \o handoff
      <4>1. front \in Seq(Encoded) /\ queue = front \o submitted
        BY <3>3 DEF queue
      <4> HIDE DEF front
      <4>2. Range(queue) = Range(front) \cup Range(submitted)
        BY <3>1, <4>1, RangeConcat
      <4> QED
        BY <3>3, <4>2 DEF Queued, front
    <3>5. \E i \in DOMAIN queue : queue[i].key
      BY <2>2, <3>4 DEF Range
    <3> QED
      BY <3>5 DEF KeyframeComing, queue
  <2> QED
    BY <1>1, <2>1, <2>2 DEF IInv, DiscardInv
<1> QED
  BY <1>1, InvariantHolds, PTL

=============================================================================
