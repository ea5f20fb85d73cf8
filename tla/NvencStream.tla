---------------------------- MODULE NvencStream ----------------------------
(***************************************************************************)
(* The encoded stream of the Windows host (hardware_windows.rs): frame     *)
(* numbers and references from NVENC to the viewer, keyframe requests and  *)
(* IdrInFlight, across sessions of the encoder, changes of the viewer and  *)
(* failures to send. NvencSession has what happens inside a session; here  *)
(* a frame is whatever its submission thread takes next, as long as the    *)
(* session is on. The host runs throughout.                                *)
(***************************************************************************)
EXTENDS Integers, Sequences

CONSTANTS
  Peer,              \* addresses of viewers
  None,
  EncodedCapacity,   \* the channel between completion and sender
  MaxEpoch,          \* bound: changes of the viewer
  MaxFrame           \* bound: frames NVENC accepts

ASSUME StreamAssumption ==
  /\ None \notin Peer \cup Int
  /\ EncodedCapacity \in Nat \ {0} /\ MaxEpoch \in Nat /\ MaxFrame \in Nat

VARIABLES
  peer, epoch,       \* active_peer and peer_epoch
  replacing,         \* the network thread is inside replace_active_peer
  force,             \* force_keyframe
  idr,               \* IdrInFlight.frame_id, or None
  nextId,            \* next_frame_id, for all sessions
  session,           \* "none", "on" or "retiring"
  accepted,          \* external: the last frame this encoder took, or None
  submission,        \* the submission thread: its request, and whether it forces an IDR
  submitted,         \* frames with the driver and in the channel to the completion
  handoff,           \* the frame the completion thread sends, <<>> or <<frame>>
  encoded,           \* the channel to the sender
  sender,            \* the sender thread
  late,              \* a detached submission: "none", "plain", or "forced" with an IDR
  shown,             \* history: the last frame sent in full, and to whom
  outcome,           \* history: what became of the sender's last frame
  stray              \* history: a detached submission recorded its IDR

network == <<peer, epoch, replacing>>
idrs == <<force, idr>>
encoder == <<nextId, session, accepted, submission, submitted, handoff, late,
             stray>>
toSender == <<encoded, sender, shown, outcome>>
vars == <<network, idrs, encoder, toSender>>

NoSubmission == [pc |-> "idle", asked |-> FALSE, forced |-> FALSE]
NewSender == [pc |-> "top", frame |-> <<>>, to |-> None, peer |-> None, epoch |-> None,
              waiting |-> TRUE, last |-> None, handled |-> None]

Init ==
  /\ peer = None /\ epoch = 0 /\ replacing = FALSE
  /\ force = TRUE /\ idr = None /\ nextId = 0
  /\ session = "none" /\ accepted = None
  /\ submission = NoSubmission /\ submitted = <<>> /\ handoff = <<>> /\ late = "none"
  /\ encoded = <<>> /\ sender = NewSender
  /\ shown = [peer |-> None, epoch |-> None, id |-> None, key |-> TRUE, prev |-> None]
  /\ outcome = "none" /\ stray = FALSE

----------------------------------------------------------------------------
(* Sessions *)

\* Mutant: a new session numbers its frames from zero.
StartSessionAtZero ==
  /\ session = "none" /\ peer # None
  /\ session' = "on" /\ idr' = None /\ nextId' = 0
  /\ UNCHANGED <<network, force, accepted, submission, submitted, handoff, late, stray, toSender>>

StartSession ==
  /\ session = "none" /\ peer # None
  /\ session' = "on" /\ idr' = None
  /\ UNCHANGED <<network, force, nextId, accepted, submission, submitted, handoff, late, stray, toSender>>

(* A worker failed, the watchdog expired, the display or the viewer changed. *)
RetireSession ==
  /\ session = "on" /\ session' = "retiring"
  /\ UNCHANGED <<network, idrs, nextId, accepted, submission, submitted, handoff, late, stray, toSender>>

(* The workers have drained. Whatever ended the session, the next one is   *)
(* asked for a keyframe.                                                   *)
EndSession ==
  /\ session = "retiring"
  /\ submission.pc = "idle" /\ submitted = <<>> /\ handoff = <<>>
  /\ session' = "none" /\ accepted' = None /\ force' = TRUE
  /\ UNCHANGED <<network, idr, nextId, submission, submitted, handoff, late, stray, toSender>>

(* WORKER_SHUTDOWN_TIMEOUT: the driver does not return; the workers are    *)
(* detached with what they hold.                                           *)
Detach ==
  /\ session = "retiring" /\ late = "none" /\ handoff = <<>>
  /\ submission.pc = "driver" \/ submitted # <<>>
  /\ submission.pc # "asking"
  /\ late' = IF submission.pc # "driver" THEN "none"
             ELSE IF submission.forced THEN "forced" ELSE "plain"
  /\ session' = "none" /\ accepted' = None /\ force' = TRUE
  /\ submission' = NoSubmission /\ submitted' = <<>>
  /\ UNCHANGED <<network, idr, nextId, handoff, stray, toSender>>

(* The detached call comes back: it takes a frame number, and may record   *)
(* an IDR that nobody will be sent.                                        *)
LateSubmission ==
  /\ late # "none" /\ late' = "none"
  /\ \/ /\ nextId < MaxFrame /\ nextId' = nextId + 1
        /\ idr' = IF late = "forced" THEN nextId ELSE idr
        /\ stray' = (stray \/ late = "forced")
        /\ UNCHANGED force
     \/ /\ force' = (force \/ late = "forced")
        /\ UNCHANGED <<nextId, idr, stray>>
  /\ UNCHANGED <<network, session, accepted, submission, submitted, handoff, toSender>>

----------------------------------------------------------------------------
(* spawn_nvenc_submission and spawn_nvenc_completion *)

(* take_idr_request: the request is taken first ... *)
SubmissionTake ==
  /\ session = "on" /\ submission.pc = "idle"
  /\ submission' = [pc |-> "asking", asked |-> force, forced |-> FALSE]
  /\ force' = FALSE
  /\ UNCHANGED <<network, idr, nextId, session, accepted, submitted, handoff, late, stray, toSender>>

(* ... and then found to be covered by an IDR in flight, or not. *)
SubmissionAsk ==
  /\ submission.pc = "asking"
  /\ submission' = [pc |-> "driver", asked |-> FALSE,
                    forced |-> submission.asked /\ idr = None]
  /\ UNCHANGED <<network, idrs, nextId, session, accepted, submitted, handoff, late, stray, toSender>>

\* Mutant: whatever frame is accepted counts as an IDR in flight.
SubmissionAcceptedAnyIdr ==
  /\ submission.pc = "driver" /\ nextId < MaxFrame
  /\ nextId' = nextId + 1
  /\ idr' = nextId
  /\ accepted' = nextId
  /\ submitted' = Append(submitted, [id |-> nextId, prev |-> accepted,
                                     key |-> submission.forced \/ accepted = None])
  /\ submission' = NoSubmission
  /\ UNCHANGED <<network, force, session, handoff, late, stray, toSender>>

(* NVENC takes the frame; the first of an encoder is an IDR by itself. *)
SubmissionAccepted ==
  /\ submission.pc = "driver" /\ nextId < MaxFrame
  /\ nextId' = nextId + 1
  /\ idr' = IF submission.forced THEN nextId ELSE idr
  /\ accepted' = nextId
  /\ submitted' = Append(submitted, [id |-> nextId, prev |-> accepted,
                                     key |-> submission.forced \/ accepted = None])
  /\ submission' = NoSubmission
  /\ UNCHANGED <<network, force, session, handoff, late, stray, toSender>>

(* restore_force_keyframe_request: BUSY, or the driver failed. *)
SubmissionRefused ==
  /\ submission.pc = "driver"
  /\ submission' = NoSubmission
  /\ force' = (force \/ submission.forced)
  /\ UNCHANGED <<network, idr, nextId, session, accepted, submitted, handoff, late, stray, toSender>>

(* The frame is kept if its session is still on. *)
CompletionCommit ==
  /\ submitted # <<>> /\ handoff = <<>>
  /\ submitted' = Tail(submitted)
  /\ handoff' = IF session = "on" THEN <<submitted[1]>> ELSE <<>>
  /\ UNCHANGED <<network, idrs, nextId, session, accepted, submission, late, stray, toSender>>

(* The driver does not complete it: what was submitted behind it is lost. *)
CompletionFails ==
  /\ submitted # <<>> /\ handoff = <<>>
  /\ submitted' = <<>> /\ force' = TRUE
  /\ session' = "retiring"
  /\ UNCHANGED <<network, idr, nextId, accepted, submission, handoff, late, stray, toSender>>

CompletionHandOver ==
  /\ handoff # <<>> /\ Len(encoded) < EncodedCapacity
  /\ encoded' = encoded \o handoff /\ handoff' = <<>>
  /\ UNCHANGED <<network, idrs, nextId, session, accepted, submission, submitted, late, stray,
                 sender, shown, outcome>>

----------------------------------------------------------------------------
(* spawn_hardware_sender *)

(* request_recovery_idr *)
Requested == force \/ idr = None

(* record_handled: the last frame's iteration is over. *)
SenderHandled ==
  /\ sender.pc = "top" /\ sender.handled # None
  /\ sender' = [sender EXCEPT !.handled = None]
  /\ idr' = IF idr # None /\ sender.handled >= idr THEN None ELSE idr
  /\ UNCHANGED <<network, force, encoder, encoded, shown, outcome>>

SenderReceive ==
  /\ sender.pc = "top" /\ sender.handled = None /\ encoded # <<>>
  /\ sender' = [sender EXCEPT !.pc = "read", !.frame = <<encoded[1]>>,
                              !.handled = encoded[1].id, !.to = peer]
  /\ encoded' = Tail(encoded)
  /\ UNCHANGED <<network, idrs, encoder, shown, outcome>>

(* The peer was read, now the epoch is. A frame that does not follow what  *)
(* this viewer was sent waits for a keyframe.                              *)
SenderDecide ==
  /\ sender.pc = "read"
  /\ LET frame == sender.frame[1]
         changed == sender.to # sender.peer \/ epoch # sender.epoch
         gap == ~changed /\ sender.last # None /\ frame.id # sender.last + 1
         dropped == (changed \/ gap \/ sender.waiting) /\ ~frame.key
         nobody == ~dropped /\ sender.to = None
     IN /\ sender' = [sender EXCEPT
             !.pc = IF dropped \/ nobody THEN "top" ELSE "sending",
             !.frame = IF dropped \/ nobody THEN <<>> ELSE @,
             !.to = None, !.peer = sender.to, !.epoch = epoch,
             !.waiting = dropped \/ nobody,
             !.last = IF changed \/ nobody THEN None ELSE @]
        /\ force' = IF dropped THEN Requested ELSE force
        /\ outcome' = IF dropped /\ sender.to # None THEN "discarded" ELSE "none"
  /\ UNCHANGED <<network, idr, encoder, encoded, shown>>

SenderSent ==
  /\ sender.pc = "sending"
  /\ sender' = [sender EXCEPT !.pc = "top", !.frame = <<>>, !.last = sender.frame[1].id]
  /\ shown' = [peer |-> sender.peer, epoch |-> sender.epoch, id |-> sender.frame[1].id,
               key |-> sender.frame[1].key, prev |-> sender.frame[1].prev]
  /\ outcome' = "sent"
  /\ UNCHANGED <<network, idrs, encoder, encoded>>

\* Mutant: a frame that failed to be sent counts as sent.
SenderFailsUnnoticed ==
  /\ sender.pc = "sending"
  /\ sender' = [sender EXCEPT !.pc = "top", !.frame = <<>>, !.last = sender.frame[1].id]
  /\ force' = Requested
  /\ outcome' = "failed"
  /\ UNCHANGED <<network, idr, encoder, encoded, shown>>

(* The frame has too many fragments, or the socket refuses one. *)
SenderFails ==
  /\ sender.pc = "sending"
  /\ sender' = [sender EXCEPT !.pc = "top", !.frame = <<>>, !.waiting = TRUE, !.last = None]
  /\ force' = Requested
  /\ outcome' = "failed"
  /\ UNCHANGED <<network, idr, encoder, encoded, shown>>

----------------------------------------------------------------------------
(* The network thread. replace_active_peer stores the viewer and then      *)
(* moves the epoch; whoever is accepted is owed a keyframe.                *)
StorePeer ==
  /\ ~replacing /\ epoch < MaxEpoch
  /\ \E viewer \in Peer \cup {None} : peer' = viewer
  /\ replacing' = TRUE
  /\ UNCHANGED <<epoch, idrs, encoder, toSender>>

MoveEpoch ==
  /\ replacing /\ replacing' = FALSE
  /\ epoch' = epoch + 1
  /\ UNCHANGED <<peer, idrs, encoder, toSender>>

(* A KeyframeRequest of the viewer, or the request behind its acceptance. *)
AskForKeyframe ==
  /\ ~force /\ force' = TRUE
  /\ UNCHANGED <<network, idr, encoder, toSender>>

Next ==
  \/ StartSession \/ RetireSession \/ EndSession \/ Detach \/ LateSubmission
  \/ SubmissionTake \/ SubmissionAsk \/ SubmissionAccepted \/ SubmissionRefused
  \/ CompletionCommit \/ CompletionFails \/ CompletionHandOver
  \/ SenderHandled \/ SenderReceive \/ SenderDecide \/ SenderSent \/ SenderFails
  \/ StorePeer \/ MoveEpoch \/ AskForKeyframe

Spec == Init /\ [][Next]_vars

----------------------------------------------------------------------------
(* Properties *)

Id == 0..MaxFrame - 1
Encoded == [id : Id, prev : Id \cup {None}, key : BOOLEAN]

Sender ==
  [pc : {"top", "read", "sending"}, frame : {<<>>} \cup {<<frame>> : frame \in Encoded},
   to : Peer \cup {None}, peer : Peer \cup {None}, epoch : 0..MaxEpoch \cup {None},
   waiting : BOOLEAN, last : Id \cup {None}, handled : Id \cup {None}]

(* Every variable has its type. *)
TypeOK ==
  /\ peer \in Peer \cup {None} /\ epoch \in 0..MaxEpoch /\ replacing \in BOOLEAN
  /\ force \in BOOLEAN /\ idr \in Id \cup {None} /\ nextId \in 0..MaxFrame
  /\ session \in {"none", "on", "retiring"} /\ accepted \in Id \cup {None}
  /\ submission \in [pc : {"idle", "asking", "driver"}, asked : BOOLEAN, forced : BOOLEAN]
  /\ submitted \in Seq(Encoded) /\ encoded \in Seq(Encoded)
  /\ handoff \in {<<>>} \cup {<<frame>> : frame \in Encoded}
  /\ late \in {"none", "plain", "forced"} /\ stray \in BOOLEAN
  /\ sender \in Sender /\ outcome \in {"none", "sent", "discarded", "failed"}

(* What a viewer is sent can be decoded: each frame sent in full is a      *)
(* keyframe, or was encoded from the frame sent to it just before. Sessions *)
(* end, viewers come and go between two reads, frames are lost on the way. *)
Decodable ==
  [][shown' # shown =>
       \/ shown'.key
       \/ /\ shown'.peer = shown.peer /\ shown'.epoch = shown.epoch
          /\ shown'.prev = shown.id]_vars

(* Frames reach the sender in the order NVENC took them, within a session  *)
(* and across sessions, so "handled" can be told from the number alone.    *)
InOrder ==
  LET queue == [i \in DOMAIN (encoded \o handoff \o submitted) |->
                  (encoded \o handoff \o submitted)[i].id]
  IN \A i, j \in DOMAIN queue : i < j => queue[i] < queue[j]

(* A keyframe is on its way, or the next frame will be one. *)
KeyframeComing ==
  \/ force \/ submission.asked \/ submission.forced
  \/ \E i \in DOMAIN (encoded \o handoff \o submitted) : (encoded \o handoff \o submitted)[i].key
  \/ session # "on" \/ accepted = None

(* A viewer whose frame was discarded for want of a keyframe gets one with *)
(* the next frames, although requests are dropped while an IDR is in       *)
(* flight. Only the IDR of a detached submission may drop one in vain,     *)
(* until a later frame clears it.                                          *)
DiscardIsRepaired ==
  outcome = "discarded" /\ sender.pc = "top" => KeyframeComing \/ stray

(* A frame that could not be sent is asked for again, unless an IDR behind *)
(* it repairs the loss ("Frames reach the sender in submission order, so   *)
(* every IDR request raised before that frame is handled ... concerns an   *)
(* earlier frame and is resolved by it", hardware_windows.rs:274).         *)
FailedSendIsRepaired ==
  [][sender.pc = "sending" /\ outcome' = "failed" =>
       force' \/ (idr # None /\ idr # sender.frame[1].id)]_vars
============================================================================
