------------------------------ MODULE MacVideo ------------------------------
(***************************************************************************)
(* The host's video on macOS (hardware_macos.rs): the ScreenCaptureKit     *)
(* callback that keeps the newest sample, the pipeline thread that feeds   *)
(* VideoToolbox and sends what it returns, VideoToolbox itself (external:  *)
(* it answers in order, from a thread of its own, with a frame, nothing or *)
(* an error), and the OpenH264 pipeline of session.rs the host falls back  *)
(* to. Clocks (a frame's age, a wait) may strike at any time. A frame is   *)
(* whether it is a keyframe and whether what it refers to was sent.        *)
(***************************************************************************)
EXTENDS Integers, Sequences

CONSTANT InFlight   \* HARDWARE_ENCODER_IN_FLIGHT

ASSUME InFlightAssumption == InFlight \in Nat \ {0}

VARIABLES
  running,       \* the session's flag
  watched,       \* video_peer is Some
  force,         \* force_keyframe
  asking,        \* the network thread is between video_peer and force_keyframe
  slot,          \* a sample waits in the slot
  stage,         \* "hardware", "software" or "ended": what the video thread runs
  pc, progress,  \* the pipeline thread or the fallback's encoder, and made_progress
  outstanding,   \* frames submitted and not received
  submittedAny,  \* submitted_any; encoded_any in the fallback
  vt,            \* external: frames inside VideoToolbox, whether an IDR is forced
  out,           \* the channel from its callback
  chain,         \* external: what the encoder's next frame refers to: "none", "whole" or "broken"
  capture,       \* the fallback's capture thread: "none", "build", "top", "grab" or "ended"
  intra,         \* external: OpenH264 was told to code the next frame as an IDR
  receiver,      \* history: what the viewer was sent: "whole", "gap", "old", "uncertain"
  slip           \* history: a frame of the fallback was lost and nobody was told

control == <<running, watched, asking>>
encoder == <<vt, chain, intra>>
history == <<receiver, slip>>
macVars == <<control, force, slot, stage, pc, progress, outstanding, submittedAny,
          encoder, out, capture, history>>

MacInit ==
  /\ running = TRUE /\ watched = FALSE /\ force = TRUE /\ asking = FALSE
  /\ slot = FALSE /\ stage = "hardware" /\ pc = "open" /\ progress = FALSE
  /\ outstanding = 0 /\ submittedAny = FALSE
  /\ vt = <<>> /\ out = <<>> /\ chain = "none"
  /\ capture = "none" /\ intra = FALSE
  /\ receiver = "gap" /\ slip = FALSE

----------------------------------------------------------------------------
(* The network thread and the capture callback.                            *)

\* replace_active_peer for a viewer that wants video; its keyframe is asked
\* for once the peer is stored. The frame that the fallback is coding goes to
\* the peer of before, unless that is the same.
Connect ==
  /\ running /\ ~asking
  /\ watched' = TRUE /\ asking' = TRUE
  /\ receiver' = "gap"
  /\ pc' \in IF pc = "encode" THEN {pc, "stray"} ELSE {pc}
  /\ UNCHANGED <<running, force, slot, stage, progress, outstanding, submittedAny,
                 encoder, out, capture, slip>>

\* A viewer asks for a keyframe, or the one that just connected needs one.
AskKeyframe ==
  /\ running /\ watched
  /\ force' = TRUE /\ asking' = FALSE
  /\ UNCHANGED <<running, watched, slot, stage, pc, progress, outstanding, submittedAny,
                 encoder, out, capture, history>>

Disconnect ==
  /\ running /\ watched /\ ~asking
  /\ watched' = FALSE
  /\ UNCHANGED <<running, asking, force, slot, stage, pc, progress, outstanding,
                 submittedAny, encoder, out, capture, history>>

\* DesktopSession::stop() as far as it concerns this thread.
Stop ==
  /\ running /\ running' = FALSE
  /\ UNCHANGED <<watched, asking, force, slot, stage, pc, progress, outstanding,
                 submittedAny, encoder, out, capture, history>>

\* The callback of ScreenCaptureKit: only the newest sample stays.
Sample ==
  /\ stage = "hardware" /\ pc # "open"
  /\ slot' = TRUE
  /\ UNCHANGED <<control, force, stage, pc, progress, outstanding, submittedAny,
                 encoder, out, capture, history>>

----------------------------------------------------------------------------
(* Frames.                                                                 *)

\* A frame of the encoder does not reach the viewer: what was coded after it
\* and before the next keyframe refers to it in the end.
Lose(rest) ==
  LET keys == {i \in DOMAIN rest : rest[i].kind = "key"}
  IN  /\ out' = [i \in DOMAIN rest |->
                   IF rest[i].kind = "delta" /\ ~\E k \in keys : k < i
                   THEN [rest[i] EXCEPT !.broken = TRUE] ELSE rest[i]]
      /\ chain' = IF keys = {} THEN "broken" ELSE chain

\* Every fragment of it is sent.
Sent(frame) ==
  receiver' = IF frame.kind = "key" THEN "whole"
              ELSE IF frame.broken /\ receiver = "whole" THEN "uncertain" ELSE receiver

\* A frame id is used up and its frame is not whole: the viewer sees the gap,
\* unless it still expects the ids of the encoder before.
Gap == IF receiver = "old" THEN "old" ELSE "gap"

\* Mutant: a frame that is too old is dropped and no keyframe asked for.
ProcessOldForgotten(frame, rest) ==
  IF frame.kind = "empty"
  THEN force' = TRUE /\ out' = rest /\ UNCHANGED <<chain, receiver>>
  ELSE \/ Lose(rest) /\ UNCHANGED <<force, receiver>>
       \/ watched /\ out' = rest /\ Sent(frame) /\ UNCHANGED <<force, chain>>

\* HardwareOutputState::process(): nothing was coded, the frame is too old or
\* nobody watches; a fragment that cannot be sent ends the frame but not its
\* id; in each case the next frame is to be an IDR.
Process(frame, rest) ==
  IF frame.kind = "empty"
  THEN force' = TRUE /\ out' = rest /\ UNCHANGED <<chain, receiver>>
  ELSE \/ force' = TRUE /\ Lose(rest) /\ UNCHANGED receiver
       \/ watched /\ force' = TRUE /\ Lose(rest) /\ receiver' = Gap
       \/ watched /\ out' = rest /\ Sent(frame) /\ UNCHANGED <<force, chain>>

----------------------------------------------------------------------------
(* VideoToolbox (external) and hardware_encode_callback.                   *)

\* It answers for the oldest frame it has: with a frame, with nothing when it
\* dropped it, or with an error. The first frame it codes is an IDR.
Answer(answer) ==
  /\ out' = Append(out, [kind |-> answer, broken |-> answer = "delta" /\ chain = "broken"])
  /\ chain' = IF answer = "key" THEN "whole" ELSE chain

Callback ==
  /\ vt # <<>> /\ vt' = Tail(vt)
  /\ \/ Answer("empty")
     \/ Answer("error")
     \/ Answer(IF Head(vt) \/ chain = "none" THEN "key" ELSE "delta")
  /\ UNCHANGED <<control, force, slot, stage, pc, progress, outstanding, submittedAny,
                 intra, capture, history>>

----------------------------------------------------------------------------
(* run_hardware_pipeline.                                                  *)

\* The pipeline returns: the encoder goes and what is inside it with it. An
\* error while the session goes on starts the fallback, whose encoder and
\* frame ids start over.
Close ==
  /\ vt' = <<>> /\ out' = <<>> /\ outstanding' = 0 /\ progress' = FALSE
  /\ slot' = FALSE /\ submittedAny' = FALSE /\ chain' = "none"

PipelineEnds ==
  /\ Close /\ stage' = "ended" /\ pc' = "ended"
  /\ UNCHANGED <<control, force, capture, intra, history>>

\* start_software_fallback, or no capture for it either.
Failed ==
  /\ Close /\ UNCHANGED <<control, force, intra, slip>>
  /\ \/ running /\ stage' = "software" /\ pc' = "start" /\ capture' = "build" /\ receiver' = "old"
     \/ stage' = "ended" /\ pc' = "ended" /\ UNCHANGED <<capture, receiver>>

hardwareOnly == <<control, stage, vt, intra, capture, slip>>

\* Displays, the encoder and the capture are opened, or one of them is not.
Open ==
  /\ stage = "hardware" /\ pc = "open"
  /\ \/ Failed
     \/ /\ pc' = "top"
        /\ UNCHANGED <<hardwareOnly, force, slot, progress, outstanding, submittedAny,
                       chain, out, receiver>>

\* The condition of the loop; after it VideoToolbox completes every frame.
LoopTop ==
  /\ stage = "hardware" /\ pc = "top"
  /\ IF running THEN pc' = "receive" ELSE pc' = "complete"
  /\ progress' = FALSE
  /\ UNCHANGED <<hardwareOnly, force, slot, outstanding, submittedAny, chain, out, receiver>>

\* try_receive() while there is something, or the wait for one frame at the
\* bottom of the loop.
Receive ==
  /\ stage = "hardware" /\ pc \in {"receive", "bottom"}
  /\ outstanding > 0 /\ out # <<>>
  /\ \/ /\ Head(out).kind # "error"
        /\ outstanding' = outstanding - 1
        /\ Process(Head(out), Tail(out))
        /\ pc' = IF pc = "receive" THEN "receive" ELSE "top"
        /\ progress' = (pc = "receive")
        /\ UNCHANGED <<hardwareOnly, slot, submittedAny>>
     \/ Head(out).kind = "error" /\ Failed

\* A frame that is no valid AVCC or too large for the protocol ends it.
Unpackable ==
  /\ stage = "hardware" /\ pc \in {"receive", "bottom"}
  /\ outstanding > 0 /\ out # <<>> /\ Head(out).kind \in {"key", "delta"}
  /\ Failed

ReceivedAll ==
  /\ stage = "hardware" /\ pc = "receive" /\ (outstanding = 0 \/ out = <<>>)
  /\ pc' = "take"
  /\ UNCHANGED <<hardwareOnly, force, slot, progress, outstanding, submittedAny, chain,
                 out, receiver>>

\* No room or no sample, a sample that is too old, or nobody to send it to.
TakeNothing ==
  /\ stage = "hardware" /\ pc = "take"
  /\ \/ (outstanding >= InFlight \/ ~slot) /\ UNCHANGED <<slot, progress, force>>
     \/ /\ outstanding < InFlight /\ slot /\ slot' = FALSE /\ progress' = TRUE
        /\ \/ force' = TRUE
           \/ ~watched /\ UNCHANGED force
  /\ pc' = "loop"
  /\ UNCHANGED <<hardwareOnly, outstanding, submittedAny, chain, out, receiver>>

\* The request is taken with the frame that will be its keyframe. The surface
\* or the encoder may refuse.
Submit ==
  /\ stage = "hardware" /\ pc = "take" /\ outstanding < InFlight /\ slot /\ watched
  /\ \/ /\ vt' = Append(vt, force \/ ~submittedAny) /\ force' = FALSE
        /\ slot' = FALSE /\ progress' = TRUE /\ submittedAny' = TRUE
        /\ outstanding' = outstanding + 1 /\ pc' = "loop"
        /\ UNCHANGED <<control, stage, intra, capture, history, chain, out>>
     \/ Failed

\* made_progress starts over at once; otherwise the thread waits, for a frame
\* of the encoder or for a sample, and not for ever.
Loop ==
  /\ stage = "hardware" /\ pc = "loop"
  /\ pc' = IF progress THEN "top" ELSE "bottom"
  /\ UNCHANGED <<hardwareOnly, force, slot, progress, outstanding, submittedAny, chain,
                 out, receiver>>

\* Mutant: the wait for a sample has no limit, and stop() does not end it.
WaitForSample ==
  /\ stage = "hardware" /\ pc = "bottom" /\ (slot \/ outstanding > 0) /\ pc' = "top"
  /\ UNCHANGED <<hardwareOnly, force, slot, progress, outstanding, submittedAny, chain,
                 out, receiver>>

WaitOver ==
  /\ stage = "hardware" /\ pc = "bottom" /\ pc' = "top"
  /\ UNCHANGED <<hardwareOnly, force, slot, progress, outstanding, submittedAny, chain,
                 out, receiver>>

\* complete_frames() returns once every callback has run; what they brought
\* is received and not sent. A wait that finds nothing ends it too.
Complete ==
  /\ stage = "hardware" /\ pc = "complete"
  /\ \/ Failed
     \/ vt = <<>> /\ pc' = "last"
        /\ UNCHANGED <<hardwareOnly, force, slot, progress, outstanding, submittedAny,
                       chain, out, receiver>>

LastReceived ==
  /\ stage = "hardware" /\ pc = "last"
  /\ \/ outstanding = 0 /\ PipelineEnds
     \/ outstanding > 0 /\ out = <<>> /\ PipelineEnds
     \/ outstanding > 0 /\ out # <<>> /\ Head(out).kind = "error" /\ Failed
     \/ /\ outstanding > 0 /\ out # <<>> /\ Head(out).kind # "error"
        /\ outstanding' = outstanding - 1 /\ out' = Tail(out)
        /\ UNCHANGED <<hardwareOnly, force, slot, pc, progress, submittedAny, chain, receiver>>

Hardware ==
  Open \/ LoopTop \/ Receive \/ Unpackable \/ ReceivedAll \/ TakeNothing \/ Submit \/ Loop
    \/ WaitOver \/ Complete \/ LastReceived

----------------------------------------------------------------------------
(* The fallback: spawn_capture and spawn_encoder.                          *)

softwareIdle == <<control, stage, progress, outstanding, vt, out>>

\* The capturer starts or does not; then the condition of the loop.
CaptureTop ==
  /\ stage = "software"
  /\ \/ capture = "build" /\ capture' \in {"top", "ended"}
     \/ capture = "top" /\ capture' = IF running THEN "grab" ELSE "ended"
  /\ UNCHANGED <<softwareIdle, force, slot, pc, submittedAny, chain, intra, history>>

\* get_next_frame() returns, if it does: with a frame, with one of no use, or
\* with an error.
Grab ==
  /\ stage = "software" /\ capture = "grab"
  /\ \/ slot' = TRUE /\ capture' = "top"
     \/ UNCHANGED slot /\ capture' \in {"top", "ended"}
  /\ UNCHANGED <<softwareIdle, force, pc, submittedAny, chain, intra, history>>

\* The encoder is made or is not; then the condition of its loop.
EncoderTop ==
  /\ stage = "software"
  /\ \/ pc = "start" /\ pc' \in {"idle", "done"}
     \/ pc = "idle" /\ pc' = IF running THEN "wait" ELSE "done"
  /\ UNCHANGED <<softwareIdle, force, slot, submittedAny, chain, intra, capture, history>>

\* The wait is over without a sample.
NoSample ==
  /\ stage = "software" /\ pc = "wait" /\ ~slot /\ pc' = "idle"
  /\ UNCHANGED <<softwareIdle, force, slot, submittedAny, chain, intra, capture, history>>

\* A sample that is too old, that nobody watches or that cannot be converted.
SkipSample ==
  /\ stage = "software" /\ pc = "wait" /\ slot /\ slot' = FALSE /\ pc' = "idle"
  /\ \/ force' = TRUE
     \/ UNCHANGED force
  /\ UNCHANGED <<softwareIdle, submittedAny, chain, intra, capture, history>>

\* The request is passed on, unless nothing was coded yet: the first frame of
\* an encoder is an IDR.
StartEncode ==
  /\ stage = "software" /\ pc = "wait" /\ slot /\ watched
  /\ slot' = FALSE /\ pc' = "encode"
  /\ IF submittedAny THEN force' = FALSE /\ intra' = (intra \/ force)
     ELSE UNCHANGED <<force, intra>>
  /\ UNCHANGED <<softwareIdle, submittedAny, chain, capture, history>>

Coding == stage = "software" /\ pc \in {"encode", "stray"}

\* Nothing comes of it: an error, a skip of the rate control, an empty frame.
EncodeNothing ==
  /\ Coding /\ pc' = "idle"
  /\ UNCHANGED <<softwareIdle, force, slot, submittedAny, chain, intra, capture, history>>

\* The frame took too long to code.
EncodeLate ==
  /\ Coding /\ pc' = "idle"
  /\ force' = TRUE /\ chain' = "broken" /\ intra' = FALSE
  /\ UNCHANGED <<softwareIdle, slot, submittedAny, capture, history>>

\* It is sent, or a fragment of it is not; or it is too large for the
\* protocol. With the first one a request is dropped, whatever it asked for.
EncodeFrame ==
  /\ Coding /\ pc' = "idle"
  /\ LET key == intra \/ chain = "none"
     IN  /\ intra' = FALSE
         /\ force' = (submittedAny /\ force) /\ submittedAny' = TRUE
         /\ \/ /\ chain' = IF key THEN "whole" ELSE chain
               /\ IF pc = "stray" THEN UNCHANGED receiver
                  ELSE Sent([kind |-> IF key THEN "key" ELSE "delta",
                             broken |-> chain = "broken"])
               /\ slip' = (~key /\ (slip \/ (chain = "broken" /\ ~submittedAny)))
            \/ chain' = "broken" /\ slip' = (slip \/ receiver = "old")
               /\ receiver' = IF pc = "stray" THEN receiver ELSE Gap
            \/ chain' = "broken" /\ slip' = TRUE /\ UNCHANGED receiver
  /\ UNCHANGED <<softwareIdle, slot, capture>>

\* start_software_fallback() joins both threads.
SoftwareEnds ==
  /\ stage = "software" /\ pc = "done" /\ capture = "ended"
  /\ stage' = "ended" /\ pc' = "ended"
  /\ UNCHANGED <<control, force, slot, progress, outstanding, submittedAny, encoder, out,
                 capture, history>>

SoftwareEncoder ==
  EncoderTop \/ NoSample \/ SkipSample \/ StartEncode \/ EncodeNothing \/ EncodeLate
    \/ EncodeFrame

Software == CaptureTop \/ Grab \/ SoftwareEncoder \/ SoftwareEnds

MacNext ==
  \/ Connect \/ AskKeyframe \/ Disconnect \/ Stop
  \/ Sample \/ Callback
  \/ Hardware \/ Software

MacSpec == MacInit /\ [][MacNext]_macVars

\* Every thread goes on, and VideoToolbox and OpenH264 answer. Nothing is
\* assumed of get_next_frame(), which has no limit.
MacFairSpec ==
  /\ MacSpec
  /\ WF_macVars(Callback)
  /\ WF_macVars(Hardware)
  /\ WF_macVars(CaptureTop)
  /\ WF_macVars(SoftwareEncoder)
  /\ WF_macVars(SoftwareEnds)

----------------------------------------------------------------------------
(* Properties.                                                             *)

Output == [kind : {"key", "delta", "empty", "error"}, broken : BOOLEAN]

MacTypeOK ==
  /\ running \in BOOLEAN /\ watched \in BOOLEAN /\ asking \in BOOLEAN
  /\ force \in BOOLEAN /\ slot \in BOOLEAN /\ progress \in BOOLEAN
  /\ submittedAny \in BOOLEAN /\ intra \in BOOLEAN /\ slip \in BOOLEAN
  /\ stage \in {"hardware", "software", "ended"}
  /\ pc \in {"open", "top", "receive", "take", "loop", "bottom", "complete", "last", "start",
             "idle", "wait", "encode", "stray", "done", "ended"}
  /\ outstanding \in 0..InFlight
  /\ vt \in Seq(BOOLEAN)
  /\ out \in Seq(Output)
  /\ chain \in {"none", "whole", "broken"} /\ receiver \in {"whole", "gap", "old", "uncertain"}
  /\ capture \in {"none", "build", "top", "grab", "ended"}

\* outstanding counts what VideoToolbox and its channel hold, no more and no
\* less, so that it never gets more than HARDWARE_ENCODER_IN_FLIGHT frames and
\* the pipeline never waits for a frame that will not come.
OutstandingExact == outstanding = Len(vt) + Len(out) /\ outstanding <= InFlight

\* An IDR is on its way: asked for, or inside an encoder; or an answer that
\* will ask for one has not been received yet.
RepairUnderWay ==
  \/ force \/ intra
  \/ \E i \in DOMAIN vt : vt[i]
  \/ \E i \in DOMAIN out : out[i].kind \in {"empty", "error"}

\* "the next submitted frame must be an IDR so the receiver cannot inherit an
\* uncertain reference chain" (process()): whenever what the encoder would
\* refer to next did not reach the viewer, an IDR is under way, however the
\* request, the frames in flight and the viewers come and go; or the viewer
\* can tell from the frame ids. What the fallback loses without a word is the
\* deviation slip.
DropIsRepaired ==
  chain = "broken" /\ pc # "last" => RepairUnderWay \/ receiver = "gap" \/ slip

\* The same comment, of the receiver: no frame is sent that refers to one that
\* was not, with an id that hides it.
ReceiverIsCertain == stage = "hardware" => receiver # "uncertain"

\* stop() joins this thread: once the session is told to stop the pipeline
\* comes to an end, whatever is in flight; and so does the fallback, unless
\* its capturer never returns from the frame it waits for, which no flag ends.
StopEnds ==
  ~running ~> (stage = "ended" \/ (pc = "done" /\ [](capture = "grab")))

============================================================================
