---------------------------- MODULE NvencSession ----------------------------
(***************************************************************************)
(* One D3D11/NVENC session after another on the Windows host               *)
(* (hardware_windows.rs): desktop capture, the conversion, submission and  *)
(* completion threads, and run_dxgi_pipeline, which retires a session that *)
(* failed and starts another.                                              *)
(*                                                                         *)
(* A texture slot goes round capture -> prepared -> conversion ->          *)
(* converted -> submission -> submitted -> completion -> free. What is in  *)
(* the encoded frames, and the sender, is NvencStream; here the sender     *)
(* takes frames out of its channel until the host stops. Time is not       *)
(* modelled: whatever a clock decides (pacing, staleness, BUSY, a stall)   *)
(* may happen whenever the rest of its guard holds. The driver is          *)
(* external: it accepts, refuses, fails or hangs.                          *)
(***************************************************************************)
EXTENDS Integers, Sequences, FiniteSets

CONSTANTS
  Slot,              \* the texture ring, nvenc_buffer_count slots
  MaxPreprocess,     \* MAX_PRE_NVENC_IN_FLIGHT
  EncodedCapacity,   \* the channel between completion and sender
  MaxStall,          \* MAX_ENCODER_STALL_REBUILDS
  MaxLoss,           \* MAX_DEVICE_LOSS_REBUILDS
  MaxGeneration      \* bound: desktop updates of a session

ASSUME SessionAssumption ==
  /\ IsFiniteSet(Slot) /\ Slot # {}
  /\ MaxPreprocess \in Nat \ {0} /\ EncodedCapacity \in Nat \ {0}
  /\ MaxStall \in Nat /\ MaxLoss \in Nat /\ MaxGeneration \in Nat

VARIABLES
  running,           \* the host runs
  watched,           \* active_peer, seen from a session: "session" (the viewer it was
                     \* started for), "other" (or a new epoch), "nobody"
  force,             \* force_keyframe
  phase,             \* where run_dxgi_pipeline and its capture session are
  cause,             \* how the session ended; "rebuild" stands for the causes that have
                     \* no budget: PeerInactive, AccessLost, SourceUndelivered and
                     \* EncoderOverloaded
  progressed,        \* hardware_progress > progress_before
  stalls, losses,    \* encoder_stall_rebuilds, device_loss_rebuilds
  on,                \* workers_running
  failure,           \* worker_failure, "none" when empty
  latest, completed, \* source generations, captured and encoded
  preprocess,        \* preprocess_in_flight
  pending,           \* nvenc_pending
  busy,              \* NvencActivityState.last_busy_activity is set
  poisoned,          \* NvencEncoder.poisoned
  free, prepared, permit, conversion, converted,
  submission, submitted, completion,
  encoded,           \* how many frames the channel to the sender holds
  senderDone,        \* the sender has ended
  fruitless          \* history: stalled sessions since a frame was completed

host == <<running, watched, force>>
supervisor == <<phase, cause, stalls, losses>>
ring == <<free, prepared, permit, conversion, converted, submission, submitted, completion>>
counters == <<preprocess, pending>>
source == <<latest, completed, progressed, busy>>
workers == <<on, failure>>
toSender == <<encoded, senderDone>>
vars == <<host, supervisor, ring, counters, source, poisoned, workers, toSender, fruitless>>

Active == running /\ on
Idle == [pc |-> "idle", frame |-> <<>>]
Done == [pc |-> "done", frame |-> <<>>]
Holding(pc, frame) == [pc |-> pc, frame |-> <<frame>>]
Slots(queue) == {queue[i].slot : i \in DOMAIN queue}
Last(queue) == queue[Len(queue)]
\* Mutant: the newest frame is recycled together with those it replaces.
FrontAll(queue) == queue

Front(queue) == SubSeq(queue, 1, Len(queue) - 1)

----------------------------------------------------------------------------
(* run_dxgi_pipeline and the capture thread *)

FreshRing ==
  /\ failure' = "none"
  /\ latest' = 0 /\ completed' = 0 /\ progressed' = FALSE /\ busy' = FALSE
  /\ preprocess' = 0 /\ pending' = 0 /\ poisoned' = FALSE
  /\ free' = Slot /\ prepared' = <<>> /\ permit' = TRUE /\ converted' = <<>> /\ submitted' = <<>>

Init ==
  /\ running = TRUE /\ watched = "nobody" /\ force = TRUE
  /\ phase = "waiting" /\ cause = "none" /\ stalls = 0 /\ losses = 0
  /\ on = FALSE /\ failure = "none"
  /\ latest = 0 /\ completed = 0 /\ progressed = FALSE /\ busy = FALSE
  /\ preprocess = 0 /\ pending = 0 /\ poisoned = FALSE
  /\ free = Slot /\ prepared = <<>> /\ permit = TRUE /\ converted = <<>> /\ submitted = <<>>
  /\ conversion = Done /\ submission = Done /\ completion = Done
  /\ encoded = 0 /\ senderDone = FALSE /\ fruitless = 0

StartSession ==
  /\ phase = "waiting" /\ running /\ watched # "nobody"
  /\ phase' = "looking" /\ watched' = "session"
  /\ FreshRing /\ on' = TRUE
  /\ conversion' = Idle /\ submission' = Idle /\ completion' = Idle
  /\ UNCHANGED <<running, force, cause, stalls, losses, toSender, fruitless>>

(* The device, the duplication or the encoder cannot be had. *)
StartFails ==
  /\ phase = "waiting" /\ running /\ watched # "nobody"
  /\ phase' = "retired" /\ cause' \in {"rebuild", "device", "fatal"}
  /\ UNCHANGED <<host, stalls, losses, ring, counters, source, poisoned, workers, toSender,
                 fruitless>>

(* classify_worker_failure: the device may be seen to be lost as well. *)
WorkerCause == IF failure = "device" THEN {"device"} ELSE {"stall", "device"}

(* Dropping HardwareCapture: the workers are told under the activity lock, *)
(* and RetireDone waits for them.                                          *)
Retire(causes) ==
  /\ phase' = "retiring" /\ cause' \in causes /\ on' = FALSE
  /\ UNCHANGED <<host, stalls, losses, ring, counters, source, poisoned, toSender, fruitless>>

StopCapture ==
  phase = "looking" /\ ~running /\ Retire({"stopped"}) /\ UNCHANGED failure

PeerGone ==
  phase = "looking" /\ running /\ watched # "session" /\ Retire({"rebuild"}) /\ UNCHANGED failure

MoveTo(next) ==
  /\ phase' = next
  /\ UNCHANGED <<host, cause, stalls, losses, ring, counters, source, poisoned, workers, toSender,
                 fruitless>>

Look == phase = "looking" /\ running /\ watched = "session" /\ MoveTo("acquiring")
AcquireNothing == phase = "acquiring" /\ failure = "none" /\ MoveTo("looking")

(* A worker reported its failure before the frame was asked for. *)
AcquireFailure ==
  phase = "acquiring" /\ failure # "none" /\ Retire(WorkerCause) /\ failure' = "none"

(* The duplication fails. A worker that has reported meanwhile is          *)
(* preferred, unless the duplication itself says that the device is lost.  *)
AcquireError ==
  /\ phase = "acquiring"
  /\ \E seen \in {"rebuild", "device", "fatal"} :
       Retire(IF failure = "none" THEN {seen}
              ELSE IF seen = "device" THEN {"device"} ELSE WorkerCause)
  /\ failure' = "none"

(* process_texture finds that the workers stopped. Their failure is there: *)
(* whoever stopped them held its lock.                                     *)
AcquireStopped ==
  /\ phase = "acquiring" /\ ~on
  /\ Retire(IF failure = "none" THEN {"fatal"} ELSE WorkerCause)
  /\ failure' = "none"

(* A frame is skipped (nobody watches, pacing), finds no admission or no   *)
(* slot, or is copied into a slot and handed to the conversion.            *)
AcquireFrame ==
  /\ phase = "acquiring" /\ failure = "none" /\ on /\ latest < MaxGeneration
  /\ phase' = "looking" /\ latest' = latest + 1
  /\ \/ UNCHANGED <<free, prepared, preprocess>>
     \/ /\ watched # "nobody" /\ preprocess < MaxPreprocess
        /\ \E slot \in free :
             /\ free' = free \ {slot}
             /\ prepared' = Append(prepared, [slot |-> slot, gen |-> latest'])
             /\ preprocess' = preprocess + 1
  /\ UNCHANGED <<host, cause, stalls, losses, permit, conversion, converted, submission,
                 submitted, completion, pending, completed, progressed, busy, poisoned, workers,
                 toSender, fruitless>>

(* The watchdog. An active source all of whose frames are delivered needs  *)
(* no watching: its window is shorter than the stall timeout.              *)
SourcePending == latest > completed
ProgressRequired ==
  ~progressed \/ SourcePending \/ force \/ preprocess > 0 \/ pending > 0

NoDesktopFrame ==
  phase = "looking" /\ running /\ latest = 0 /\ Retire({"rebuild"}) /\ UNCHANGED failure

StallWarning ==
  /\ phase = "looking" /\ running
  /\ SourcePending \/ preprocess > 0 \/ pending > 0
  /\ force' = TRUE
  /\ UNCHANGED <<running, watched, supervisor, ring, counters, source, poisoned, workers, toSender,
                 fruitless>>

(* EncoderOverloaded, SourceUndelivered or EncoderStalled *)
RecoveryCause ==
  IF busy \/ ((SourcePending \/ force) /\ preprocess = 0 /\ pending = 0)
  THEN "rebuild" ELSE "stall"

Watchdog ==
  /\ phase = "looking" /\ running /\ ProgressRequired
  /\ Retire(IF failure = "none" THEN {RecoveryCause} ELSE WorkerCause)
  /\ failure' = "none"

\* Mutant: the encoder is dropped without waiting for the completion thread.
RetireDoneEarly ==
  /\ phase = "retiring"
  /\ conversion.pc = "done" /\ submission.pc = "done"
  /\ MoveTo("retired")

(* Every worker has ended, and with them the encoder and its driver session. *)
RetireDone ==
  /\ phase = "retiring"
  /\ conversion.pc = "done" /\ submission.pc = "done" /\ completion.pc = "done"
  /\ MoveTo("retired")

(* WORKER_SHUTDOWN_TIMEOUT: a worker hangs in the driver. The encoder is   *)
(* poisoned and the workers are detached; what they do later does not      *)
(* reach the counters of the next session (NvencStream has what does).     *)
RetireTimeout ==
  /\ phase = "retiring" /\ completion.pc # "handoff"
  /\ "driver" \in {conversion.pc, submission.pc, completion.pc}
  /\ phase' = "retired" /\ poisoned' = TRUE
  /\ conversion' = Done /\ submission' = Done /\ completion' = Done
  /\ UNCHANGED <<host, cause, stalls, losses, free, prepared, permit, converted, submitted,
                 counters, source, workers, toSender, fruitless>>

\* Mutant: a session that made progress does not renew the budget.
CountedForever(counter, ofCause) == counter + (IF cause = ofCause THEN 1 ELSE 0)

(* run_dxgi_pipeline after a session; nothing is left of that session. *)
Counted(counter, ofCause) ==
  (IF progressed THEN 0 ELSE counter) + (IF cause = ofCause THEN 1 ELSE 0)

Recover ==
  /\ phase = "retired"
  /\ fruitless' = fruitless + (IF cause = "stall" THEN 1 ELSE 0)
  /\ IF ~running \/ cause = "stopped"
     THEN phase' = "ended" /\ UNCHANGED <<force, stalls, losses>>
     ELSE /\ force' = TRUE
          /\ stalls' = Counted(stalls, "stall") /\ losses' = Counted(losses, "device")
          /\ phase' = IF cause = "fatal" \/ stalls' > MaxStall \/ losses' > MaxLoss
                      THEN "ended" ELSE "waiting"
  /\ FreshRing /\ on' = FALSE
  /\ conversion' = Done /\ submission' = Done /\ completion' = Done
  /\ cause' = IF phase' = "ended" THEN cause ELSE "none"
  /\ UNCHANGED <<running, watched, toSender>>

\* Mutant: a pipeline that waits for a viewer looks at nothing else.
EndWaitingWatched == phase = "waiting" /\ ~running /\ watched # "nobody" /\ MoveTo("ended")

EndWaiting == phase = "waiting" /\ ~running /\ MoveTo("ended")

----------------------------------------------------------------------------
(* The workers *)

\* Mutant: the workers are stopped before their failure is recorded.
PublishSilently(kind) ==
  IF Active
  THEN on' = FALSE /\ force' = TRUE /\ UNCHANGED failure
  ELSE UNCHANGED <<on, failure, force>>

(* publish_first_worker_failure, and the keyframe asked for when it reports. *)
Publish(kind) ==
  IF Active
  THEN on' = FALSE /\ failure' = kind /\ force' = TRUE
  ELSE UNCHANGED <<on, failure, force>>

Recycle(slots) == free' = free \cup slots

outside == <<running, watched, supervisor, latest>>

(* spawn_d3d_conversion *)
ConversionPermit ==
  /\ conversion.pc = "idle" /\ Active /\ permit
  /\ permit' = FALSE /\ conversion' = [Idle EXCEPT !.pc = "permit"]
  /\ UNCHANGED <<outside, force, free, prepared, converted, submission, submitted, completion,
                 counters, completed, progressed, busy, poisoned, workers, toSender, fruitless>>

ConversionStop ==
  /\ conversion.pc \in {"idle", "permit"} /\ ~Active
  /\ conversion' = Done
  /\ UNCHANGED <<outside, force, free, prepared, permit, converted, submission, submitted,
                 completion, counters, completed, progressed, busy, poisoned, workers, toSender,
                 fruitless>>

(* retain_newest_queued: only the newest copy is converted, unless it is   *)
(* stale or the session ends.                                              *)
ConversionTake ==
  /\ conversion.pc = "permit" /\ prepared # <<>>
  /\ prepared' = <<>>
  /\ \/ /\ Active
        /\ conversion' = Holding("driver", Last(prepared))
        /\ Recycle(Slots(Front(prepared)))
        /\ preprocess' = preprocess - (Len(prepared) - 1)
     \/ /\ conversion' = IF Active THEN conversion ELSE Done
        /\ Recycle(Slots(prepared))
        /\ preprocess' = preprocess - Len(prepared)
  /\ UNCHANGED <<outside, force, permit, converted, submission, submitted, completion, pending,
                 completed, progressed, busy, poisoned, workers, toSender, fruitless>>

ConversionHandOver ==
  /\ conversion.pc = "driver" /\ submission.pc # "done" /\ converted = <<>>
  /\ converted' = conversion.frame /\ conversion' = Idle
  /\ UNCHANGED <<outside, force, free, prepared, permit, submission, submitted, completion,
                 counters, completed, progressed, busy, poisoned, workers, toSender, fruitless>>

(* The conversion failed, or the next queue is full or closed. *)
ConversionFails ==
  /\ conversion.pc = "driver"
  /\ conversion' = Done
  /\ \E kind \in {"stall", "device"} : Publish(kind)
  /\ Recycle(Slots(conversion.frame)) /\ preprocess' = preprocess - 1
  /\ UNCHANGED <<outside, prepared, permit, converted, submission, submitted, completion, pending,
                 completed, progressed, busy, poisoned, toSender, fruitless>>

(* spawn_nvenc_submission *)
SubmissionStop ==
  /\ submission.pc = "idle" /\ ~Active
  /\ submission' = Done
  /\ UNCHANGED <<outside, force, free, prepared, permit, conversion, converted, submitted,
                 completion, counters, completed, progressed, busy, poisoned, workers, toSender,
                 fruitless>>

(* The permit goes back before the driver is asked for anything; a frame   *)
(* that is stale, or of a session that ends, is dropped. A frame that is   *)
(* submitted takes the keyframe request with it.                           *)
SubmissionTake ==
  /\ submission.pc = "idle" /\ converted # <<>> /\ ~permit /\ conversion.pc # "done"
  /\ converted' = <<>> /\ permit' = TRUE
  /\ \/ /\ Active
        /\ submission' = [pc |-> "driver", frame |-> converted, asked |-> force]
        /\ force' = FALSE
        /\ UNCHANGED <<free, preprocess>>
     \/ /\ submission' = IF Active THEN Idle ELSE Done
        /\ Recycle(Slots(converted)) /\ preprocess' = preprocess - 1
        /\ UNCHANGED force
  /\ UNCHANGED <<outside, prepared, conversion, submitted, completion, pending, completed,
                 progressed, busy, poisoned, workers, toSender, fruitless>>

(* The conversion is gone, or the permit was never taken. *)
SubmissionTakeFails ==
  /\ submission.pc = "idle" /\ converted # <<>>
  /\ permit \/ conversion.pc = "done"
  /\ converted' = <<>> /\ submission' = Done
  /\ Publish("stall")
  /\ Recycle(Slots(converted)) /\ preprocess' = preprocess - 1
  /\ UNCHANGED <<outside, prepared, permit, conversion, submitted, completion, pending, completed,
                 progressed, busy, poisoned, toSender, fruitless>>

(* NVENC takes the frame; the completion thread may be gone by then. *)
SubmissionAccepted ==
  /\ submission.pc = "driver"
  /\ busy' = FALSE /\ preprocess' = preprocess - 1
  /\ IF completion.pc = "done"
     THEN /\ submission' = Done /\ poisoned' = TRUE /\ Publish("stall")
          /\ UNCHANGED <<submitted, pending>>
     ELSE /\ submission' = Idle /\ pending' = pending + 1
          /\ submitted' = submitted \o submission.frame
          /\ UNCHANGED <<poisoned, workers, force>>
  /\ UNCHANGED <<outside, free, prepared, permit, conversion, converted, completion, completed,
                 progressed, toSender, fruitless>>

(* NV_ENC_ERR_ENCODER_BUSY until the retry budget is spent. A request that *)
(* an IDR in flight covered is not restored: NvencStream tells them apart. *)
Restored == {force, force \/ submission.asked}

SubmissionBusy ==
  /\ submission.pc = "driver"
  /\ submission' = Idle /\ busy' = TRUE /\ force' \in Restored
  /\ Recycle(Slots(submission.frame)) /\ preprocess' = preprocess - 1
  /\ UNCHANGED <<outside, prepared, permit, conversion, converted, submitted, completion, pending,
                 completed, progressed, poisoned, workers, toSender, fruitless>>

(* Mapping or encoding failed: the slot is not used again. *)
SubmissionFails ==
  /\ submission.pc = "driver"
  /\ submission' = Done
  /\ preprocess' = preprocess - 1
  /\ poisoned' \in {poisoned, TRUE}
  /\ IF Active
     THEN on' = FALSE /\ failure' \in {"stall", "device"} /\ force' = TRUE
     ELSE force' \in Restored /\ UNCHANGED workers
  /\ UNCHANGED <<outside, free, prepared, permit, conversion, converted, submitted, completion,
                 pending, completed, progressed, busy, toSender, fruitless>>

(* spawn_nvenc_completion: it drains what was submitted, whatever happens. *)
CompletionTake ==
  /\ completion.pc = "idle" /\ submitted # <<>>
  /\ completion' = Holding("driver", submitted[1]) /\ submitted' = Tail(submitted)
  /\ UNCHANGED <<outside, force, free, prepared, permit, conversion, converted, submission,
                 counters, completed, progressed, busy, poisoned, workers, toSender, fruitless>>

(* The frame is counted and kept if its session is still on, under the     *)
(* lock that retires the session; its slot is free either way.             *)
CompletionCommit ==
  /\ completion.pc = "driver"
  /\ IF Active
     THEN /\ completed' = IF completion.frame[1].gen > completed THEN completion.frame[1].gen
                          ELSE completed
          /\ progressed' = TRUE /\ busy' = FALSE /\ fruitless' = 0
          /\ completion' = [Idle EXCEPT !.pc = "handoff"]
     ELSE completion' = Idle /\ UNCHANGED <<completed, progressed, busy, fruitless>>
  /\ pending' = pending - 1 /\ Recycle(Slots(completion.frame))
  /\ UNCHANGED <<outside, force, prepared, permit, conversion, converted, submission, submitted,
                 preprocess, poisoned, workers, toSender>>

(* NVENC_COMPLETION_STALL_TIMEOUT, which asks for a keyframe even of a     *)
(* session that ends, or the bitstream cannot be had.                      *)
CompletionFails ==
  /\ completion.pc = "driver"
  /\ completion' = Done /\ poisoned' = TRUE
  /\ \/ \E kind \in {"stall", "device"} : Publish(kind)
     \/ ~Active /\ force' = TRUE /\ UNCHANGED workers
  /\ UNCHANGED <<outside, free, prepared, permit, conversion, converted, submission, submitted,
                 counters, completed, progressed, busy, toSender, fruitless>>

(* A blocking send; a sender that is gone is a failure of the worker. *)
CompletionHandOver ==
  /\ completion.pc = "handoff"
  /\ completion' = Idle
  /\ IF senderDone
     THEN Publish("stall") /\ UNCHANGED encoded
     ELSE encoded < EncodedCapacity /\ encoded' = encoded + 1 /\ UNCHANGED <<workers, force>>
  /\ UNCHANGED <<outside, free, prepared, permit, conversion, converted, submission, submitted,
                 counters, completed, progressed, busy, poisoned, senderDone, fruitless>>

\* Mutant: the completion thread waits for the stop flag, not for its channel.
CompletionEndOnStop ==
  /\ completion.pc = "idle" /\ submitted = <<>> /\ ~running
  /\ completion' = Done
  /\ UNCHANGED <<outside, force, free, prepared, permit, conversion, converted, submission,
                 submitted, counters, completed, progressed, busy, poisoned, workers, toSender,
                 fruitless>>

CompletionEnd ==
  /\ completion.pc = "idle" /\ submitted = <<>> /\ submission.pc = "done"
  /\ completion' = Done
  /\ UNCHANGED <<outside, force, free, prepared, permit, conversion, converted, submission,
                 submitted, counters, completed, progressed, busy, poisoned, workers, toSender,
                 fruitless>>

----------------------------------------------------------------------------
(* The sender, the network thread and the user *)

SenderTake ==
  /\ ~senderDone /\ encoded > 0
  /\ encoded' = encoded - 1
  /\ force' \in {force, TRUE}
  /\ UNCHANGED <<running, watched, supervisor, ring, counters, source, poisoned, workers,
                 senderDone, fruitless>>

SenderStop ==
  /\ ~senderDone
  /\ ~running \/ phase = "ended"
  /\ senderDone' = TRUE /\ encoded' = 0
  /\ UNCHANGED <<host, supervisor, ring, counters, source, poisoned, workers, fruitless>>

(* The viewer leaves, or another is accepted (its address may be the same). *)
ChangeViewer ==
  /\ running /\ watched' \in {"nobody", "other"}
  /\ force' \in {force, TRUE}
  /\ UNCHANGED <<running, supervisor, ring, counters, source, poisoned, workers, toSender,
                 fruitless>>

Stop ==
  /\ running /\ running' = FALSE
  /\ UNCHANGED <<watched, force, supervisor, ring, counters, source, poisoned, workers, toSender,
                 fruitless>>

Conversion ==
  ConversionPermit \/ ConversionStop \/ ConversionTake \/ ConversionHandOver \/ ConversionFails
Submission ==
  \/ SubmissionStop \/ SubmissionTake \/ SubmissionTakeFails
  \/ SubmissionAccepted \/ SubmissionBusy \/ SubmissionFails
Completion ==
  CompletionTake \/ CompletionCommit \/ CompletionFails \/ CompletionHandOver \/ CompletionEnd
Supervisor ==
  \/ StartSession \/ StartFails \/ Recover \/ EndWaiting
  \/ StopCapture \/ PeerGone \/ Look \/ AcquireNothing \/ AcquireFailure \/ AcquireError
  \/ AcquireFrame \/ AcquireStopped \/ NoDesktopFrame \/ StallWarning \/ Watchdog
  \/ RetireDone \/ RetireTimeout

Next ==
  \/ Supervisor \/ Conversion \/ Submission \/ Completion
  \/ SenderTake \/ SenderStop \/ ChangeViewer \/ Stop

Spec == Init /\ [][Next]_vars

(* The threads run. Capture polls and looks again; nothing is assumed of   *)
(* the desktop, the viewer or the clocks, and of the driver only that its  *)
(* calls return, in one way or another.                                    *)
FairSpec ==
  /\ Spec
  /\ WF_vars(StopCapture \/ PeerGone \/ Look \/ AcquireNothing \/ AcquireFailure \/ RetireDone)
  /\ WF_vars(Recover \/ EndWaiting)
  /\ WF_vars(ConversionStop \/ ConversionHandOver \/ ConversionFails)
  /\ WF_vars(Submission) /\ WF_vars(Completion)
  /\ WF_vars(SenderTake) /\ WF_vars(SenderStop)

----------------------------------------------------------------------------
(* Properties *)

Frame == [slot : Slot, gen : 1..MaxGeneration]
OneFrame == {<<frame>> : frame \in Frame}
InSession == phase \in {"looking", "acquiring", "retiring"}
One(condition) == IF condition THEN 1 ELSE 0
OneEach(queue) == \A i, j \in DOMAIN queue : queue[i].slot = queue[j].slot => i = j
Apart(S, T) == S \cap T = {}

(* Every variable has its type: threads are where the code can leave them, *)
(* channels hold what their senders put there.                             *)
TypeOK ==
  /\ running \in BOOLEAN /\ watched \in {"session", "other", "nobody"} /\ force \in BOOLEAN
  /\ phase \in {"waiting", "looking", "acquiring", "retiring", "retired", "ended"}
  /\ cause \in {"none", "stopped", "rebuild", "device", "fatal", "stall"}
  /\ progressed \in BOOLEAN /\ on \in BOOLEAN /\ failure \in {"none", "stall", "device"}
  /\ stalls \in Nat /\ losses \in Nat /\ fruitless \in Nat
  /\ latest \in 0..MaxGeneration /\ completed \in Nat
  /\ busy \in BOOLEAN /\ poisoned \in BOOLEAN /\ permit \in BOOLEAN
  /\ preprocess \in Int /\ pending \in Int
  /\ free \subseteq Slot
  /\ prepared \in Seq(Frame) /\ converted \in {<<>>} \cup OneFrame /\ submitted \in Seq(Frame)
  /\ conversion \in [pc : {"idle", "permit", "done"}, frame : {<<>>}]
                    \cup [pc : {"driver"}, frame : OneFrame]
  /\ submission \in [pc : {"idle", "done"}, frame : {<<>>}]
                    \cup [pc : {"driver"}, frame : OneFrame, asked : BOOLEAN]
  /\ completion \in [pc : {"idle", "handoff", "done"}, frame : {<<>>}]
                    \cup [pc : {"driver"}, frame : OneFrame]
  /\ encoded \in 0..EncodedCapacity /\ senderDone \in BOOLEAN

(* No two stages hold the same slot (hardware_windows.rs:1812: "no stage   *)
(* clones or independently recycles its ownership token"): a slot that was *)
(* given back is not still being copied into, converted or encoded.        *)
SlotsExclusive ==
  LET queue == <<prepared, conversion.frame, converted, submission.frame, submitted,
                 completion.frame>>
  IN InSession => \A m \in 1..6 :
       /\ OneEach(queue[m]) /\ Apart(Slots(queue[m]), free)
       /\ \A n \in (m + 1)..6 : Apart(Slots(queue[m]), Slots(queue[n]))

(* preprocess_in_flight is the frames between admission and NVENC, at most *)
(* MaxPreprocess: two frames wait for the GPU, however deep the ring is.   *)
PreprocessExact ==
  InSession =>
    /\ preprocess = Len(prepared) + One(conversion.pc = "driver") + Len(converted)
                      + One(submission.pc = "driver")
    /\ preprocess <= MaxPreprocess

(* nvenc_pending is the frames the driver holds, so the watchdog does not  *)
(* take an encoder that works for one with nothing to do.                  *)
PendingExact ==
  InSession /\ ~poisoned => pending = Len(submitted) + One(completion.pc = "driver")

(* Both counts are exact, through failures, stale frames, retirements and  *)
(* detached workers.                                                       *)
CountersExact == PreprocessExact /\ PendingExact

(* There is one permit to convert ahead: in its channel, with the          *)
(* conversion, or with the converted frame. What the code reports as a     *)
(* violated invariant, a queue of one place that is full, cannot happen.   *)
PermitConserved ==
  LET permits == One(permit) + One(conversion.pc \in {"permit", "driver"}) + Len(converted)
  IN InSession => permits <= 1 /\ (permits = 0 => conversion.pc = "done")

(* What the stages share is neither lost nor used twice, through failures, *)
(* stale frames, retirements and detached workers: the slots of the ring,  *)
(* the two counts admission goes by, and the permit.                       *)
ResourcesExact == SlotsExclusive /\ CountersExact /\ PermitConserved

(* A session whose workers stopped says why: capture never takes a worker  *)
(* failure for a fatal error, so the pipeline is rebuilt.                  *)
WorkerStopIsExplained ==
  phase \in {"looking", "acquiring"} => (on <=> failure = "none")

(* An encoder that is destroyed and not poisoned has given back every      *)
(* resource it mapped: nothing submitted is left with the driver.          *)
CleanTeardown ==
  phase = "retired" /\ ~poisoned => submitted = <<>> /\ completion.pc = "done"

(* The pipeline gives up on a stalled encoder only after MaxStall rebuilds *)
(* with no frame completed since. What happens in a session that is being  *)
(* retired does not count.                                                 *)
GivesUpFruitless ==
  phase = "ended" /\ running /\ cause = "stall" => fruitless > MaxStall

(* A session that is retired comes down, whatever its threads wait for,    *)
(* and a host that stops ends the pipeline and its sender.                 *)
TeardownEnds == phase = "retiring" ~> phase = "retired"
StopEnds == ~running ~> phase = "ended" /\ senderDone
============================================================================
