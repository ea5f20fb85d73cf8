----------------------------- MODULE VideoPath -----------------------------
(***************************************************************************)
(* From the host's sender to the viewer's decoder: the video part of the   *)
(* viewer's network thread (spawn_client_network), the DecodeQueue and the *)
(* decoder thread. Fragments are lost, late and out of order; clocks       *)
(* (staleness, expiry, the retry interval, silence) may strike whenever    *)
(* the rest of their guard holds. The host sends what NvencStream shows it *)
(* to send: a keyframe, or the successor of the frame before. It may send  *)
(* a keyframe at any time, so the requests for one are left out here.      *)
(***************************************************************************)
EXTENDS VideoReassembly

CONSTANTS
  None,
  Payload,           \* what each frame holds, by id
  ReorderWindow,     \* VIDEO_REORDER_WINDOW
  QueueCapacity,     \* VIDEO_DECODE_QUEUE_CAPACITY
  MaxFlight,         \* bound: datagrams that are under way together
  MaxSilence         \* bound: outages and datagrams that are no fragments

Id == DOMAIN Payload

ASSUME PathAssumption ==
  /\ \A id \in Id : id \in Nat /\ Payload[id] \in Seq({0, 1}) \ {<<>>}
  /\ None \notin Int
  /\ ReorderWindow \in Nat \ {0} /\ QueueCapacity \in Nat \ {0} /\ MaxFlight \in Nat /\ MaxSilence \in Nat

VARIABLES
  sent,              \* external: the host's next frame id
  flight,            \* external: fragments on their way
  network,           \* the network thread: "top" of its loop, "recv" or "drain"
  accepted,          \* accepted and video_enabled
  silences,          \* bound: outages so far
  pending, done,     \* the reassembler: incomplete frames, completed ids
  next, waiting,     \* next_frame_id, waiting_for_keyframe
  held,              \* completed_frames
  queue, queueWaiting, generation,  \* DecodeQueueState
  needs,             \* decoder_needs_keyframe
  decoder,           \* the decoder thread; "refs" is the frame its pictures stem from
  popped             \* history: the last frame taken from the queue, and its generation

host == <<sent, flight>>
reassembler == <<pending, done>>
order == <<next, waiting, held>>
decodeQueue == <<queue, queueWaiting, generation>>
session == <<accepted, silences>>
decoding == <<needs, decoder, popped>>
vars == <<host, network, session, reassembler, order, decodeQueue, decoding>>

NoFrame == [id |-> None, key |-> TRUE, payload |-> <<>>]

Init ==
  /\ sent = 0 /\ flight = {}
  /\ network = "top" /\ accepted = FALSE /\ silences = 0
  /\ pending = <<>> /\ done = <<>>
  /\ next = None /\ waiting = TRUE /\ held = {}
  /\ queue = <<>> /\ queueWaiting = FALSE /\ generation = 0
  /\ needs = TRUE
  /\ decoder = [pc |-> "idle", hardware |-> TRUE, gen |-> 0, refs |-> None, frame |-> NoFrame]
  /\ popped = [frame |-> NoFrame, gen |-> 0]

----------------------------------------------------------------------------
(* The host and the network: some of the fragments will arrive, or none;   *)
(* a frame that the host's sender dropped is as good as lost.              *)

SendFrame ==
  /\ sent \in Id
  /\ \E key \in {sent = 0, TRUE} :
       \E arriving \in SUBSET Fragments(sent, key, Payload[sent]) :
         flight' = flight \cup arriving
  /\ Cardinality(flight') <= MaxFlight
  /\ sent' = sent + 1
  /\ UNCHANGED <<network, session, reassembler, order, decodeQueue, decoding>>

----------------------------------------------------------------------------
(* The network thread *)

\* Mutant: the frames that wait for the decoder stay.
RequireKeyframeKeepingFrames(times) ==
  queueWaiting' = TRUE /\ generation' = generation + times /\ UNCHANGED queue

(* DecodeQueue::require_keyframe, with the resets that go with it *)
RequireKeyframe(times) ==
  queue' = <<>> /\ queueWaiting' = TRUE /\ generation' = generation + times
\* Mutant: the frames held back stay.
WaitForKeyframeHolding == next' = None /\ waiting' = TRUE /\ UNCHANGED held

WaitForKeyframe == next' = None /\ waiting' = TRUE /\ held' = {}

(* The top of the loop: expire_stale, then the decoder's request. *)
Top ==
  /\ network = "top" /\ network' = "recv"
  /\ \E expired \in 0..Len(pending) :
       LET resets == (IF expired > 0 THEN 1 ELSE 0) + (IF needs THEN 1 ELSE 0)
       IN /\ pending' = SubSeq(pending, expired + 1, Len(pending))
          /\ IF resets > 0
             THEN RequireKeyframe(resets) /\ WaitForKeyframe
             ELSE UNCHANGED <<decodeQueue, order>>
  /\ needs' = FALSE
  /\ UNCHANGED <<host, session, done, decoder, popped>>

(* Nothing, or nothing of interest, was received. *)
ReceiveNothing ==
  /\ network = "recv" /\ network' = "top"
  /\ UNCHANGED <<host, session, reassembler, order, decodeQueue, decoding>>

(* Packet::Config *)
ReceiveConfig ==
  /\ network = "recv" /\ ~accepted
  /\ network' = "top" /\ accepted' = TRUE
  /\ UNCHANGED <<host, silences, reassembler, order, decodeQueue, decoding>>

(* HOST_SILENCE_TIMEOUT *)
Suspend ==
  /\ network = "recv" /\ accepted /\ silences < MaxSilence
  /\ network' = "top" /\ accepted' = FALSE /\ silences' = silences + 1
  /\ pending' = <<>> /\ done' = <<>>
  /\ RequireKeyframe(1) /\ WaitForKeyframe
  /\ UNCHANGED <<host, decoding>>

(* A datagram that is no fragment of the frame it names takes that frame   *)
(* with it.                                                                *)
ReceiveInvalid ==
  /\ network = "recv" /\ accepted /\ silences < MaxSilence
  /\ network' = "top" /\ silences' = silences + 1
  /\ \/ UNCHANGED pending
     \/ \E i \in DOMAIN pending : pending' = Without(pending, pending[i].id)
  /\ RequireKeyframe(1) /\ WaitForKeyframe
  /\ UNCHANGED <<host, accepted, done, decoding>>

(* Packet::Video. A fragment that completes no frame is kept or ignored. *)
ReceiveFragment ==
  /\ network = "recv"
  /\ \E f \in flight :
       /\ flight' = flight \ {f}
       /\ ~accepted \/ ~Completes(pending, done, f)
       /\ pending' = IF accepted THEN FramesAfter(pending, done, f) ELSE pending
  /\ network' = "top"
  /\ UNCHANGED <<sent, session, done, order, decodeQueue, decoding>>

Ids(frames) == {frame.id : frame \in frames}

(* A frame is complete. A keyframe that is not the expected frame starts a *)
(* new timeline; the others are held until their turn, for a few frames.   *)
Order(frame) ==
  LET restart == frame.key /\ next # frame.id
      expected == IF restart THEN frame.id ELSE next
      kept == IF restart THEN {} ELSE held
      all == IF frame.id \in Ids(kept) THEN kept ELSE kept \cup {frame}
      lost == expected \notin Ids(all) /\ Cardinality(all) >= ReorderWindow
  IN IF frame.id < expected
     THEN /\ network' = "top"
          /\ UNCHANGED <<order, decodeQueue>>
     ELSE /\ network' = "drain"
          /\ IF lost THEN WaitForKeyframe
             ELSE next' = expected /\ waiting' = FALSE /\ held' = all
          /\ IF restart \/ lost THEN RequireKeyframe(1) ELSE UNCHANGED decodeQueue

ReceiveLastFragment ==
  /\ network = "recv" /\ accepted
  /\ \E f \in flight :
       /\ Completes(pending, done, f)
       /\ flight' = flight \ {f}
       /\ pending' = FramesAfter(pending, done, f) /\ done' = DoneAfter(done, f.id)
       /\ LET frame == Finished(Updated(pending, f))
          IN IF waiting /\ ~frame.key
             THEN /\ network' = "top"
                  /\ UNCHANGED <<order, decodeQueue>>
             ELSE Order(frame)
  /\ UNCHANGED <<sent, session, decoding>>

(* DecodeQueue::push of the expected frame: it is taken ... *)
Full == Len(queue) >= QueueCapacity
Refused(frame) == (queueWaiting \/ Full) /\ ~frame.key

DrainFrame ==
  /\ network = "drain"
  /\ \E frame \in held :
       /\ frame.id = next /\ ~Refused(frame)
       /\ queue' = Append(IF Full THEN <<>> ELSE queue, frame)
       /\ queueWaiting' = (queueWaiting /\ ~frame.key)
       /\ next' = next + 1 /\ held' = held \ {frame}
  /\ UNCHANGED <<host, network, session, reassembler, waiting, generation, decoding>>

(* ... or refused, as stale, or for want of a keyframe or of room. *)
DrainRefused ==
  /\ network = "drain"
  /\ \E frame \in held :
       /\ frame.id = next
       /\ \/ UNCHANGED decodeQueue
          \/ /\ Refused(frame) /\ ~queueWaiting
             /\ queue' = <<>> /\ queueWaiting' = TRUE /\ UNCHANGED generation
  /\ WaitForKeyframe
  /\ UNCHANGED <<host, network, session, reassembler, decoding>>

DrainEnd ==
  /\ network = "drain" /\ next \notin Ids(held)
  /\ network' = "top"
  /\ UNCHANGED <<host, session, reassembler, order, decodeQueue, decoding>>

----------------------------------------------------------------------------
(* The decoder thread (decoder_windows.rs, decoder_macos.rs and            *)
(* run_software_video_decoder)                                             *)

(* pop_timeout. A new generation flushes the decoder, or replaces it; a    *)
(* frame that is stale by now is skipped, and a keyframe asked for.        *)
DecoderPop ==
  /\ decoder.pc = "idle" /\ queue # <<>>
  /\ queue' = Tail(queue)
  /\ popped' = [frame |-> queue[1], gen |-> generation]
  /\ LET fresh == [decoder EXCEPT !.gen = generation,
                                  !.refs = IF generation = decoder.gen THEN @ ELSE None]
     IN \/ decoder' = fresh /\ needs' = TRUE
        \/ decoder' = [fresh EXCEPT !.pc = "decoding", !.frame = queue[1]] /\ UNCHANGED needs
  /\ UNCHANGED <<host, network, session, reassembler, order, queueWaiting, generation>>

DecoderDecodes ==
  /\ decoder.pc = "decoding"
  /\ decoder' = [decoder EXCEPT !.pc = "idle", !.frame = NoFrame, !.refs = decoder.frame.id]
  /\ UNCHANGED <<host, network, session, reassembler, order, decodeQueue, needs, popped>>

(* Windows flushes, macOS drops its session unless the error came with the *)
(* callback; OpenH264 goes on with what it has.                            *)
DecoderFails ==
  /\ decoder.pc = "decoding" /\ needs' = TRUE
  /\ \E refs \in {None, decoder.refs} :
       decoder' = [decoder EXCEPT !.pc = "idle", !.frame = NoFrame, !.refs = refs]
  /\ UNCHANGED <<host, network, session, reassembler, order, decodeQueue, popped>>

(* MAX_FAILED_KEYFRAMES: OpenH264 takes over. *)
DecoderFallsBack ==
  /\ decoder.pc = "decoding" /\ decoder.hardware /\ decoder.frame.key
  /\ needs' = TRUE
  /\ decoder' = [pc |-> "idle", hardware |-> FALSE, gen |-> generation, refs |-> None,
                 frame |-> NoFrame]
  /\ UNCHANGED <<host, network, session, reassembler, order, decodeQueue, popped>>

Next ==
  \/ SendFrame
  \/ Top \/ ReceiveNothing \/ ReceiveConfig \/ Suspend \/ ReceiveInvalid
  \/ ReceiveFragment \/ ReceiveLastFragment
  \/ DrainFrame \/ DrainRefused \/ DrainEnd
  \/ DecoderPop \/ DecoderDecodes \/ DecoderFails \/ DecoderFallsBack

Spec == Init /\ [][Next]_vars

----------------------------------------------------------------------------
(* Properties *)

Frame == [id : Id, key : BOOLEAN, payload : Seq({0, 1})]

(* Every variable has its type. *)
TypeOK ==
  /\ sent \in Nat
  /\ network \in {"top", "recv", "drain"} /\ accepted \in BOOLEAN /\ silences \in 0..MaxSilence
  /\ Len(pending) <= PendingLimit /\ Len(done) <= CompletedMemory
  /\ next \in Nat \cup {None} /\ waiting \in BOOLEAN
  /\ held \subseteq Frame /\ queue \in Seq(Frame) /\ queueWaiting \in BOOLEAN
  /\ Len(queue) <= QueueCapacity
  /\ generation \in Nat /\ needs \in BOOLEAN
  /\ decoder.pc \in {"idle", "decoding"} /\ decoder.refs \in Id \cup {None}

(* A frame that is complete is the frame the host encoded, whichever       *)
(* fragments made it up: with one recovered by XOR, with others of the     *)
(* same frame evicted, expired or late.                                    *)
WholeFrames ==
  \A frame \in held \cup {queue[i] : i \in DOMAIN queue} : frame.payload = Payload[frame.id]

(* The viewer holds back only frames that wait for an earlier one, fewer   *)
(* than the window; what it hands over next follows the end of the queue.  *)
HeldAreAhead ==
  /\ waiting => next = None /\ held = {}
  /\ ~waiting /\ network # "drain" =>
       Cardinality(held) < ReorderWindow /\ \A frame \in held : frame.id > next
  /\ ~waiting /\ queue # <<>> => next = queue[Len(queue)].id + 1

(* Frames leave the queue in a chain: each is a keyframe or the successor  *)
(* of the one before, under the same generation. Neither a reset between   *)
(* two pops nor an overflow breaks it.                                     *)
PoppedChain ==
  [][popped' # popped =>
       \/ popped'.frame.key
       \/ popped'.gen = popped.gen /\ popped'.frame.id = popped.frame.id + 1]_vars

(* What is decoded is a keyframe, or its reference was decoded just before *)
(* it: "A missing H.264 reference frame invalidates every dependent frame  *)
(* after it. Do not let VideoToolbox conceal that damage" (session.rs).    *)
FedIsDecodable ==
  decoder.pc = "decoding" => decoder.frame.key \/ decoder.refs = decoder.frame.id - 1
============================================================================
