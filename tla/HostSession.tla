----------------------------- MODULE HostSession -----------------------------
(***************************************************************************)
(* Who watches a host: the network thread of a sharing host                *)
(* (spawn_host_network in echobind-desktop/src/session.rs), the screen on  *)
(* which its user answers requests (app.rs), and viewers that come, move   *)
(* to another port, fall silent and leave.                                 *)
(*                                                                         *)
(* The thread runs one loop, and pc is its place in it:                    *)
(*   commands  take what the user decided                                  *)
(*   receive   handle one datagram, or none                                *)
(*   clipboard serve copied text to the viewer                             *)
(*   timeouts  drop a silent viewer, end the grace of an absent one        *)
(* A datagram may be lost, repeated or delayed for as long as one likes, so *)
(* what a viewer sent once may arrive in any later iteration: whatever     *)
(* viewers can send may arrive in any iteration, and the network has no    *)
(* state of its own.                                                       *)
(* The 10 s of CONNECTION_TIMEOUT may have passed in any iteration; the    *)
(* 30 s of RECONNECT_GRACE pass in GraceElapses.                           *)
(*                                                                         *)
(* The datagram size is one bit, jumbo or standard. The epoch is compared  *)
(* with the thread's copy for equality only: epochMoved says they differ.  *)
(***************************************************************************)
EXTENDS Naturals, Sequences

CONSTANTS
  Endpoint,        \* the socket addresses viewers use; each is used once
  Ip,              \* the IP address of an endpoint
  Device,          \* the ViewerId of the device behind it
  AudioOnly,       \* the endpoints of viewers that asked to skip video
  HostVideo,       \* configs.video: the host shares its screen
  JumboRequested,  \* jumbo_requested
  RemoteControl,   \* control.is_some()
  None,            \* Option::None
  MaxEvents,       \* bound: events the user's screen may lag behind
  MaxCommands      \* bound: answers not yet taken by the thread

ASSUME HostAssumption ==
  /\ AudioOnly \subseteq Endpoint
  /\ {HostVideo, JumboRequested, RemoteControl} \subseteq BOOLEAN
  /\ None \notin Endpoint
  /\ \A e \in Endpoint : Device[e] # None
  /\ MaxEvents \in Nat /\ MaxCommands \in Nat

VARIABLES
  pc, running,
  commands,      \* HostCommands on their way to the thread
  events,        \* SessionEvents on their way to the screen
  shown,         \* the request on the screen (pending_peer and what goes with it)
  trusted,       \* the identities that are always allowed
  active,        \* HostPeers.active
  video,         \* HostPeers.video
  epochMoved,    \* HostPeers.epoch # control_epoch
  activeVideo, activeViewer,
  jumbo,         \* active_datagram_size
  pending, lastSeen, reconnect,
  graceOver,     \* RECONNECT_GRACE has passed for reconnect
  clipboard,     \* text is queued in clipboard_events
  copyWatch,     \* the injector waits for the text of a copy: whose copy
  held,          \* history: whose input was injected since the last ReleaseAll
  config,        \* history: the last Config sent for a session
  goodbyeFrom,   \* history: whose Goodbye this iteration has received
  approved       \* history: the addresses that need no (further) approval

screen == <<commands, shown, trusted>>
peers == <<active, video, epochMoved, held>>
session == <<activeVideo, activeViewer, jumbo, config>>
copying == <<clipboard, copyWatch>>
grace == <<reconnect, graceOver, approved>>

vars == <<pc, running, events, screen, peers, session, grace, pending,
          lastSeen, copying, goodbyeFrom>>

Init ==
  /\ pc = "commands" /\ running = TRUE
  /\ commands = <<>> /\ events = <<>> /\ shown = None /\ trusted = {}
  /\ active = None /\ video = None /\ epochMoved = FALSE
  /\ activeVideo = FALSE /\ activeViewer = None /\ jumbo = FALSE
  /\ pending = None /\ lastSeen = FALSE
  /\ reconnect = None /\ graceOver = FALSE
  /\ clipboard = FALSE /\ copyWatch = None /\ held = "nobody"
  /\ config = None /\ goodbyeFrom = None /\ approved = {}

----------------------------------------------------------------------------
(* What the handlers share.                                                *)

\* The three Hellos of send_hellos(): the one with the identity, the legacy
\* one and the one with the capabilities.
Hellos(e) ==
  {[jumbo |-> TRUE, audioOnly |-> e \in AudioOnly, viewer |-> Device[e]],
   [jumbo |-> FALSE, audioOnly |-> FALSE, viewer |-> None],
   [jumbo |-> TRUE, audioOnly |-> e \in AudioOnly, viewer |-> None]}

SameIp(e, other) == other # None /\ Ip[e] = Ip[other]

\* negotiated_datagram_size().
Negotiated(clientJumbo, wantsVideo) == wantsVideo /\ JumboRequested /\ clientJumbo

\* viewer_id.or(..)
OrElse(viewer, other) == IF viewer # None THEN viewer ELSE other

\* merge_pending_hello(), and the identity that is kept with its result.
Merged(e, h) ==
  LET previous == pending # None /\ pending.peer = e IN
  [peer |-> e,
   jumbo |-> h.jumbo \/ (previous /\ pending.jumbo),
   video |-> HostVideo /\ ~h.audioOnly /\ (previous => pending.video),
   viewer |-> OrElse(h.viewer, IF previous THEN pending.viewer ELSE None)]

\* Mutants: an audio-only replacement leaves the video peer, and a replacement
\* does not advance the epoch.
ReplacePeerNotVideo(e, wantsVideo) ==
  /\ active' = e
  /\ video' = IF wantsVideo THEN e ELSE video
  /\ epochMoved' = TRUE
  /\ held' = IF held = "current" THEN "former" ELSE held

ReplacePeerInEpoch(e, wantsVideo) ==
  /\ active' = e
  /\ video' = IF wantsVideo THEN e ELSE None
  /\ held' = IF held = "current" THEN "former" ELSE held
  /\ UNCHANGED epochMoved

\* replace_active_peer().
ReplacePeer(e, wantsVideo) ==
  /\ active' = e
  /\ video' = IF wantsVideo THEN e ELSE None
  /\ epochMoved' = TRUE
  /\ held' = IF held = "current" THEN "former" ELSE held

\* A viewer gets the slot and its Config. When the Config cannot be sent, the
\* slot is taken back (kept = FALSE).
Activate(e, wantsVideo, useJumbo, viewer, kept) ==
  /\ jumbo' = useJumbo
  /\ ReplacePeer(IF kept THEN e ELSE None, wantsVideo)
  /\ activeVideo' = wantsVideo
  /\ activeViewer' = viewer
  /\ config' = [to |-> e, jumbo |-> useJumbo, video |-> wantsVideo]

\* Mutant: the grace is forgotten, not ended.
KeepGrace == UNCHANGED <<reconnect, graceOver>>

EndGrace == reconnect' = None /\ graceOver' = FALSE

Tell(event) == events' = Append(events, event)
TellIf(condition, event) ==
  IF condition THEN Tell(event) ELSE UNCHANGED events

\* The bound on events; the code's channel has none.
ScreenKeepsUp == running => Len(events) < MaxEvents

Connected == [kind |-> "Connected"]
Disconnected == [kind |-> "Disconnected"]

----------------------------------------------------------------------------
(* Commands.                                                               *)

\* Accept for the request that is pending now; any other answer is dropped.
TakeAccept(e) ==
  /\ commands # <<>> /\ Head(commands) = [answer |-> "accept", peer |-> e]
  /\ commands' = Tail(commands)
  /\ IF pending # None /\ pending.peer = e
     THEN \E sent \in BOOLEAN :
            /\ Activate(e, pending.video, Negotiated(pending.jumbo, pending.video),
                        pending.viewer, sent)
            /\ pending' = None
            /\ lastSeen' = TRUE
            /\ EndGrace
            /\ approved' = approved \cup {Ip[e]}
            /\ TellIf(sent, Connected)
     ELSE UNCHANGED <<peers, session, grace, pending, lastSeen, events>>
  /\ UNCHANGED <<pc, running, shown, trusted, copying, goodbyeFrom>>

TakeReject(e) ==
  /\ commands # <<>> /\ Head(commands) = [answer |-> "reject", peer |-> e]
  /\ commands' = Tail(commands)
  /\ pending' = IF pending # None /\ pending.peer = e THEN None ELSE pending
  /\ UNCHANGED <<pc, running, shown, trusted, peers, session, grace,
                 lastSeen, copying, events, goodbyeFrom>>

TakeCommand ==
  /\ pc = "commands" /\ ScreenKeepsUp
  /\ \E e \in Endpoint : TakeAccept(e) \/ TakeReject(e)

\* The streams start over, and the injector lets go, when the epoch moved.
StartOver ==
  /\ pc = "commands" /\ commands = <<>> /\ ScreenKeepsUp
  /\ pc' = "receive"
  /\ epochMoved' = FALSE
  /\ IF epochMoved
     THEN held' = "nobody" /\ clipboard' = FALSE
     ELSE UNCHANGED <<held, clipboard>>
  /\ UNCHANGED <<running, screen, events, active, video, copyWatch, session,
                 grace, pending, lastSeen, goodbyeFrom>>

----------------------------------------------------------------------------
(* One datagram. The alternatives for a Hello are the arms of the match, in *)
(* its order.                                                               *)

\* Mutant: the returning address is not compared.
CanRestoreAnyone(e) == reconnect # None /\ ~graceOver

\* Mutant: the end of the grace is not compared.
CanRestoreLate(e) == reconnect # None /\ SameIp(e, reconnect.peer)

CanRestore(e) ==
  reconnect # None /\ SameIp(e, reconnect.peer) /\ ~graceOver

\* From the viewer that is connected: its audio-only request sticks.
HelloAgain(e, h) ==
  /\ active = e
  /\ lastSeen' = TRUE
  /\ activeViewer' = OrElse(activeViewer, h.viewer)
  /\ LET downgrade == h.audioOnly /\ activeVideo IN
     /\ IF downgrade
        THEN ReplacePeer(e, FALSE) /\ activeVideo' = FALSE /\ jumbo' = FALSE
        ELSE UNCHANGED <<peers, activeVideo, jumbo>>
     /\ config' = [to |-> e, jumbo |-> jumbo', video |-> activeVideo']
  /\ UNCHANGED <<grace, pending, events>>

\* From another port of the connected viewer's address.
HelloMigrates(e, h) ==
  /\ active # e /\ SameIp(e, active)
  /\ LET wantsVideo == HostVideo /\ ~h.audioOnly IN
     Activate(e, wantsVideo, Negotiated(h.jumbo, wantsVideo), h.viewer, TRUE)
  /\ lastSeen' = TRUE
  /\ EndGrace
  /\ \E sent \in BOOLEAN : TellIf(sent, Connected)
  /\ UNCHANGED <<pending, approved>>

\* Mutants: the grace is not used up by a restore, and the restored viewer's
\* clock does not start.
TakeGraceAndKeep(e, viewer, sent) ==
  /\ lastSeen' = sent
  /\ IF sent THEN UNCHANGED <<reconnect, graceOver>>
     ELSE /\ reconnect' = [reconnect EXCEPT !.peer = e, !.viewer = viewer]
          /\ graceOver' = FALSE

TakeGraceUntimed(e, viewer, sent) ==
  /\ lastSeen' = FALSE
  /\ IF sent THEN EndGrace
     ELSE /\ reconnect' = [reconnect EXCEPT !.peer = e, !.viewer = viewer]
          /\ graceOver' = FALSE

\* The grace is used up, or begins again when the viewer got no answer.
TakeGrace(e, viewer, sent) ==
  /\ lastSeen' = sent
  /\ IF sent THEN EndGrace
     ELSE /\ reconnect' = [reconnect EXCEPT !.peer = e, !.viewer = viewer]
          /\ graceOver' = FALSE

\* From the address of a viewer that fell silent, within the grace.
HelloRestores(e, h) ==
  /\ active = None /\ CanRestore(e)
  /\ \E sent \in BOOLEAN :
       LET viewer == OrElse(h.viewer, reconnect.viewer) IN
       /\ Activate(e, reconnect.video, reconnect.jumbo, viewer, sent)
       /\ TakeGrace(e, viewer, sent)
       /\ TellIf(sent, Connected)
  /\ UNCHANGED <<pending, approved>>

\* From a device that is always allowed.
HelloTrusted(e, h) ==
  /\ active = None /\ ~CanRestore(e) /\ h.viewer \in trusted
  /\ LET asked == Merged(e, h) IN
     \E sent \in BOOLEAN :
       /\ Activate(e, asked.video, Negotiated(asked.jumbo, asked.video),
                   h.viewer, sent)
       /\ TellIf(sent, Connected)
  /\ pending' = None
  /\ lastSeen' = TRUE
  /\ EndGrace
  /\ approved' = approved \cup {Ip[e]}

\* From anyone else while nobody is connected: the user is asked, unless the
\* request is the one that is pending already.
HelloAsks(e, h) ==
  /\ active = None /\ ~CanRestore(e) /\ h.viewer \notin trusted
  /\ LET asked == Merged(e, h)
         repeated == /\ pending # None /\ pending.peer = e
                     /\ pending.video = asked.video
                     /\ pending.viewer = asked.viewer
     IN  /\ pending' = asked
         /\ TellIf(~repeated,
                   [kind |-> "PendingConnection", peer |-> e,
                    video |-> asked.video, viewer |-> asked.viewer])
  /\ UNCHANGED <<peers, session, grace, lastSeen>>

\* From anyone else while a viewer is connected: ConnectionRejected.
HelloRefused(e) ==
  /\ active # None /\ active # e /\ ~SameIp(e, active)
  /\ UNCHANGED <<peers, session, grace, pending, lastSeen, events>>

ReceiveHello(e) ==
  /\ \/ \E h \in Hellos(e) :
          \/ HelloAgain(e, h) \/ HelloMigrates(e, h) \/ HelloRestores(e, h)
          \/ HelloTrusted(e, h) \/ HelloAsks(e, h)
     \/ HelloRefused(e)
  /\ UNCHANGED <<copying, goodbyeFrom>>

\* Ping and VideoKeyframeRequest.
ReceiveHeartbeat(e) ==
  /\ active = e
  /\ lastSeen' = TRUE
  /\ UNCHANGED <<peers, session, grace, pending, copying, events, goodbyeFrom>>

\* Events: forwarded to the injector unless the session is audio only. There may
\* be a copy among them, whose text the injector waits for from then on.
ReceiveEvents(e) ==
  /\ active = e
  /\ lastSeen' = TRUE
  /\ IF RemoteControl /\ activeVideo
     THEN /\ held' = IF held \in {"former", "mixed"} THEN "mixed" ELSE "current"
          /\ copyWatch' \in {copyWatch, e}
     ELSE UNCHANGED <<held, copyWatch>>
  /\ UNCHANGED <<active, video, epochMoved, session, grace, pending, clipboard,
                 events, goodbyeFrom>>

\* EventsAck: the clipboard text may have arrived.
ReceiveEventsAck(e) ==
  /\ active = e
  /\ lastSeen' = TRUE
  /\ clipboard' \in {FALSE, clipboard}
  /\ UNCHANGED <<copyWatch, peers, session, grace, pending, events, goodbyeFrom>>

\* A Goodbye counts for the session, the request or the grace of its sender.
ReceiveGoodbye(e) ==
  /\ goodbyeFrom' = e
  /\ \/ /\ active = e
        /\ ReplacePeer(None, FALSE)
        /\ jumbo' = FALSE /\ activeViewer' = None
        /\ lastSeen' = FALSE
        /\ EndGrace
        /\ approved' = approved \ {Ip[e]}
        /\ Tell([kind |-> "ViewerLeft"])
        /\ UNCHANGED <<activeVideo, config, pending>>
     \/ /\ active # e /\ pending # None /\ pending.peer = e
        /\ pending' = None
        /\ Tell([kind |-> "RequestWithdrawn", peer |-> e])
        /\ UNCHANGED <<peers, session, grace, lastSeen>>
     \/ /\ active # e /\ ~(pending # None /\ pending.peer = e)
        /\ reconnect # None /\ reconnect.peer = e
        /\ EndGrace
        /\ approved' = approved \ {Ip[e]}
        /\ UNCHANGED <<peers, session, pending, lastSeen, events>>
     \/ /\ active # e /\ ~(pending # None /\ pending.peer = e)
        /\ ~(reconnect # None /\ reconnect.peer = e)
        /\ UNCHANGED <<peers, session, grace, pending, lastSeen, events>>
  /\ UNCHANGED copying

\* Nothing arrived, or nothing that any arm takes.
ReceiveNothing ==
  UNCHANGED <<peers, session, grace, pending, lastSeen, copying, events,
              goodbyeFrom>>

Receive ==
  /\ pc = "receive" /\ pc' = "clipboard"
  /\ \/ \E e \in Endpoint :
          \/ ReceiveHello(e) \/ ReceiveHeartbeat(e) \/ ReceiveEvents(e)
          \/ ReceiveEventsAck(e) \/ ReceiveGoodbye(e)
     \/ ReceiveNothing
  /\ UNCHANGED <<running, screen>>

\* A malformed datagram: the rest of the iteration is skipped.
ReceiveInvalid ==
  /\ pc = "receive"
  /\ pc' = IF running THEN "commands" ELSE "farewell"
  /\ UNCHANGED <<running, screen, peers, session, grace, pending, lastSeen,
                 copying, events, goodbyeFrom>>

----------------------------------------------------------------------------
(* The end of an iteration, and of the thread.                             *)

\* Text copied at a viewer's request goes to the viewer, with what is still
\* queued; without a viewer it is dropped. The injector waits for it up to
\* COPY_WATCH, and a change of viewer does not end the wait.
ServeClipboard ==
  /\ pc = "clipboard" /\ pc' = "timeouts"
  /\ \/ /\ copyWatch # None /\ copyWatch' = None
        /\ clipboard' \in {clipboard, clipboard \/ active # None}
     \/ UNCHANGED copying
  /\ UNCHANGED <<running, screen, events, peers, session, grace, pending, lastSeen,
                 goodbyeFrom>>

\* What the grace keeps of the connected viewer.
GraceOfViewer ==
  [peer |-> active, jumbo |-> jumbo, video |-> activeVideo, viewer |-> activeViewer]

\* last_seen is CONNECTION_TIMEOUT ago: the viewer loses the slot and may come
\* back without asking.
DropSilentViewer ==
  /\ lastSeen
  /\ lastSeen' = FALSE
  /\ ReplacePeer(None, FALSE)
  /\ IF active # None
     THEN /\ reconnect' = GraceOfViewer
          /\ graceOver' = FALSE
          /\ activeViewer' = None
          /\ Tell(Disconnected)
     ELSE UNCHANGED <<reconnect, graceOver, activeViewer, events>>
  /\ UNCHANGED <<activeVideo, jumbo, config, approved>>

\* The grace is over: the address has to ask again.
ExpireGrace ==
  /\ reconnect # None /\ graceOver
  /\ EndGrace
  /\ jumbo' = FALSE
  /\ approved' = approved \ {Ip[reconnect.peer]}
  /\ UNCHANGED <<peers, activeVideo, activeViewer, config, lastSeen, events>>

\* Both timeouts, in this order. No clock runs for a viewer during a grace, so
\* a drop never falls in the iteration in which an older grace ends.
CheckTimeouts ==
  /\ pc = "timeouts"
  /\ pc' = IF running THEN "commands" ELSE "farewell"
  /\ goodbyeFrom' = None
  /\ \/ DropSilentViewer
     \/ ExpireGrace
     \/ /\ ~(reconnect # None /\ graceOver)
        /\ UNCHANGED <<peers, session, grace, lastSeen, events>>
  /\ UNCHANGED <<running, screen, pending, copying>>

\* Sharing stopped: the viewer or the pending one is told, and the injector,
\* whose channel closes, lets go.
Farewell ==
  /\ pc = "farewell" /\ pc' = "ended"
  /\ held' = "nobody"
  /\ UNCHANGED <<running, screen, active, video, epochMoved, session, grace,
                 pending, lastSeen, copying, events, goodbyeFrom>>

----------------------------------------------------------------------------
(* The user, who sees events some time after they were sent.               *)

ShowEvent ==
  /\ running /\ events # <<>>
  /\ events' = Tail(events)
  /\ LET event == Head(events) IN
     shown' =
       CASE event.kind = "PendingConnection" ->
              [peer |-> event.peer, video |-> event.video, viewer |-> event.viewer]
         [] event.kind \in {"Connected", "Disconnected"} -> None
         [] event.kind = "RequestWithdrawn" /\ shown # None ->
              IF shown.peer = event.peer THEN None ELSE shown
         [] OTHER -> shown
  /\ UNCHANGED <<pc, running, commands, trusted, peers, session, grace,
                 pending, lastSeen, copying, goodbyeFrom>>

Answer(answer) ==
  commands' = Append(commands, [answer |-> answer, peer |-> shown.peer])

\* accept_pending(): the request stays on the screen until it is connected.
AcceptPending ==
  /\ running /\ shown # None /\ Len(commands) < MaxCommands
  /\ Answer("accept")
  /\ trusted' \in {trusted, trusted \cup ({shown.viewer} \ {None})}
  /\ UNCHANGED <<pc, running, shown, events, peers, session, grace,
                 pending, lastSeen, copying, goodbyeFrom>>

\* reject_pending().
RejectPending ==
  /\ running /\ shown # None /\ Len(commands) < MaxCommands
  /\ Answer("reject")
  /\ shown' = None
  /\ UNCHANGED <<pc, running, trusted, events, peers, session, grace,
                 pending, lastSeen, copying, goodbyeFrom>>

\* forget_viewer().
ForgetViewer ==
  /\ running
  /\ \E viewer \in trusted : trusted' = trusted \ {viewer}
  /\ UNCHANGED <<pc, running, commands, shown, events, peers, session,
                 grace, pending, lastSeen, copying, goodbyeFrom>>

StopSharing ==
  /\ running
  /\ running' = FALSE /\ shown' = None
  /\ UNCHANGED <<pc, commands, trusted, events, peers, session, grace,
                 pending, lastSeen, copying, goodbyeFrom>>

----------------------------------------------------------------------------
(* Time.                                                                   *)

GraceElapses ==
  /\ reconnect # None /\ ~graceOver
  /\ graceOver' = TRUE
  /\ UNCHANGED <<pc, running, screen, events, peers, session, reconnect,
                 approved, pending, lastSeen, copying, goodbyeFrom>>

Thread ==
  TakeCommand \/ StartOver \/ Receive \/ ReceiveInvalid \/ ServeClipboard
  \/ CheckTimeouts \/ Farewell

User == ShowEvent \/ AcceptPending \/ RejectPending \/ ForgetViewer \/ StopSharing

Next == Thread \/ User \/ GraceElapses

Spec == Init /\ [][Next]_vars

----------------------------------------------------------------------------
(* Properties.                                                             *)

Viewer == {Device[e] : e \in Endpoint}
Request == [peer : Endpoint, jumbo : BOOLEAN, video : BOOLEAN,
            viewer : Viewer \cup {None}]
\* Option::None is no request.
ASSUME NoneIsNoRequest == None \notin Request

Shown == [peer : Endpoint, video : BOOLEAN, viewer : Viewer \cup {None}]
Config == [to : Endpoint, jumbo : BOOLEAN, video : BOOLEAN]
Event ==
  [kind : {"Connected", "Disconnected", "ViewerLeft"}]
    \cup [kind : {"PendingConnection"}, peer : Endpoint, video : BOOLEAN,
          viewer : Viewer \cup {None}]
    \cup [kind : {"RequestWithdrawn"}, peer : Endpoint]
Command == [answer : {"accept", "reject"}, peer : Endpoint]

TypeOK ==
  /\ pc \in {"commands", "receive", "clipboard", "timeouts", "farewell", "ended"}
  /\ running \in BOOLEAN
  /\ commands \in Seq(Command)
  /\ events \in Seq(Event)
  /\ shown \in Shown \cup {None}
  /\ trusted \subseteq Viewer
  /\ {active, video} \subseteq Endpoint \cup {None}
  /\ {epochMoved, activeVideo, jumbo, lastSeen, graceOver, clipboard} \subseteq BOOLEAN
  /\ activeViewer \in Viewer \cup {None}
  /\ pending \in Request \cup {None}
  /\ reconnect \in Request \cup {None}
  /\ held \in {"nobody", "current", "former", "mixed"}
  /\ copyWatch \in Endpoint \cup {None}
  /\ goodbyeFrom \in Endpoint \cup {None}
  /\ config \in Config \cup {None}

\* The pipelines get video for the connected viewer exactly when its session
\* has video, through every migration, downgrade, restore and failed send.
VideoFollowsActive == video = IF activeVideo THEN active ELSE None

\* Five handlers fill or free the slot and the grace between them: the grace is
\* for a free host only, or its end would let a stranger's datagram size and
\* address count for the viewer that came in meanwhile.
GraceOnlyWhenFree == reconnect # None => active = None

\* A connected viewer is on the clock: whatever filled the slot, silence
\* empties it, and no handler takes the clock away from it.
SlotIsTimed == active # None => lastSeen

\* The host sends what the viewer was last told to expect: the datagram size
\* and the media of the Config are the ones in force, after any sequence of
\* expired graces, restores and downgrades.
ConfigInForce ==
  active # None => config = [to |-> active, jumbo |-> jumbo, video |-> activeVideo]

\* A viewer is connected, or restored, only from an address that was let in (by
\* the user or a trusted identity) and has neither left nor run out of grace.
ConnectedIsApproved ==
  /\ active # None => Ip[active] \in approved
  /\ reconnect # None => Ip[reconnect.peer] \in approved

\* "the host releases everything the viewer held when it disconnects" (README):
\* no input is injected on top of what another session left pressed, and a
\* host without a viewer, or that has ended, holds nothing in the next
\* iteration.
InputIsReleased ==
  /\ held # "mixed"
  /\ pc = "receive" => held # "former" /\ (active = None => held = "nobody")
  /\ pc = "ended" => held = "nobody"

\* The address in a request, or in a grace, that may be none.
PeerOf(request) == IF request = None THEN None ELSE request.peer

Slot == INSTANCE HostSlot WITH
  holder <- active,
  absent <- PeerOf(reconnect),
  lapsed <- graceOver,
  asking <- PeerOf(pending)

\* The host implements a slot with a lease (HostSlot): a viewer gets in only by
\* an answer to its own request or as a trusted device, comes back without one
\* only within its one grace, and no step of the thread takes the slot or the
\* grace in another way.
SlotIsLeased == Slot!Spec

\* The identity the host ascribes to its viewer, for which it keeps or forgets
\* trust, is that of the device behind the address: it outlives the viewer in
\* pending and reconnect. (Where two devices share an IP address it fails.)
IdentityIsOwn == activeViewer # None /\ active # None => activeViewer = Device[active]

----------------------------------------------------------------------------
(* The inductive invariant behind the properties above, IdentityIsOwn aside. *)

\* No clock runs for the host during a grace.
GraceIsQuiet == lastSeen => reconnect = None

\* Only a grace that runs can be over.
OnlyGraceEnds == graceOver => reconnect # None

\* Input of a former viewer is held only until the next check of the epoch,
\* and that of the present viewer only while there is one.
HeldByEpoch ==
  /\ held = "former" => epochMoved
  /\ held = "current" => active # None
  /\ pc = "receive" => ~epochMoved

IInv ==
  /\ TypeOK
  /\ VideoFollowsActive
  /\ GraceOnlyWhenFree
  /\ SlotIsTimed
  /\ ConfigInForce
  /\ ConnectedIsApproved
  /\ InputIsReleased
  /\ GraceIsQuiet
  /\ OnlyGraceEnds
  /\ HeldByEpoch

----------------------------------------------------------------------------
(* What the repository says and the code does not do.                      *)

\* protocol.rs, HostPresence.busy: "A viewer is connected, so the host would
\* refuse another request." So a viewer is never replaced by another's.
ViewerNotDisplaced ==
  [][active # None /\ active' # None => Ip[active'] = Ip[active]]_vars

\* session.rs, start_host: "an audio-only viewer never starts screen capture or
\* the encoder".
AudioOnlyGetsNoVideo == video \notin AudioOnly

\* session.rs, spawn_host_network: "The viewer's input, and clipboard text going
\* back to it. Both streams start over whenever the viewer changes." So none of
\* the old stream is sent to the new viewer.
ClipboardStartsOver ==
  [][pc = "clipboard" /\ active # None /\ clipboard' => ~epochMoved]_vars

\* session.rs, on Goodbye: "A viewer that left on purpose gets no reconnect
\* grace; a later request needs approval again."
GoodbyeEndsGrace ==
  goodbyeFrom # None /\ reconnect # None => ~SameIp(goodbyeFrom, reconnect.peer)

\* README.md: "The host's clipboard is only sent after a copy or cut the viewer
\* made." So a copy made by a former viewer is not sent to the next.
CopyIsForItsViewer ==
  [][pc = "clipboard" /\ clipboard' /\ ~clipboard => SameIp(copyWatch, active)]_vars

\* session.rs, on Hello: "Ask again whenever the request changes, so the host
\* answers what the viewer asks for now." So a request that waits for an answer
\* is on the screen, once the screen is up to date.
RequestIsShown ==
  running /\ pending # None /\ active = None /\ events = <<>> /\ commands = <<>> =>
    shown = [peer |-> pending.peer, video |-> pending.video, viewer |-> pending.viewer]

============================================================================
