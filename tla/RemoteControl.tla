---------------------------- MODULE RemoteControl ----------------------------
(***************************************************************************)
(* Remote control end to end: which keys are down on the host for a viewer *)
(* whose connection comes and goes. Four threads take part:                *)
(*   the viewer's screen      turns key presses into events                *)
(*                            (forward_input, app/control.rs) and queues   *)
(*                            them itself (InputLink::send, session.rs)    *)
(*   the viewer's network     greets, resends, suspends, changes sockets   *)
(*   the host's network       resets the stream whenever the peer changes  *)
(*   the host's injector      presses the keys (remote_input.rs)           *)
(* The stream between them is EventStream. A mouse button is a key here;   *)
(* pointer moves, scrolling and clipboard text leave the keys alone and    *)
(* are left out; a frame has one event of the user. There is one viewer,   *)
(* which has video and is allowed control; HostSession has the others, and *)
(* the approval: an answer of the host's user that comes late is a Hello   *)
(* that arrives late.                                                      *)
(*                                                                         *)
(* Datagrams in flight may be received again, late or never; they carry    *)
(* the viewer's port. A socket that keeps failing is replaced by one with  *)
(* the next port.                                                          *)
(***************************************************************************)
EXTENDS EventStream, SequencesExt

CONSTANTS
  Key,          \* keys the user presses
  Letter,       \* the keys of the clipboard shortcuts
  Modifier,     \* is_modifier()
  CommandKey,   \* command_key() of the host
  MaxSequence,  \* bound: sequences given out
  MaxPort,      \* bound: sockets of the viewer
  MaxInjector   \* bound: commands waiting for the injector

KeyEvent(k, pressed) == [key |-> k, pressed |-> pressed]
Shortcut(letter) == [shortcut |-> letter]

ASSUME RemoteAssumption ==
  /\ Event = {KeyEvent(k, pressed) : k \in Key, pressed \in BOOLEAN}
               \cup {Shortcut(l) : l \in Letter} \cup {ReleaseAll}
  /\ IsFiniteSet(Key)
  /\ \A k \in Key, pressed \in BOOLEAN : ReleaseAll # KeyEvent(k, pressed)
  /\ MaxSequence \in Nat /\ MaxPort \in Nat \ {0} /\ MaxInjector \in Nat

VARIABLES
  uiPc,          \* where the screen is: "frame", "send" or "push"
  uiKeys,        \* RemoteControl.keys: what the user holds for the host
  inputs,        \* what this frame sends
  uiState,       \* what the screen knows: "watching", "reconnecting", "ended"
  enabled,       \* InputLink.enabled
  sender,        \* InputLink.sender
  port,          \* InputLink.socket
  alive,         \* the viewer's network thread runs
  accepted, wasConnected,
  active,        \* HostPeers.active: a port, or 0
  applied,       \* input_events
  injector,      \* on its way to the injector: batches, or ReleaseAll
  hostKeys,      \* Injector.keys
  hellos, goodbyes, packets, configs, acks,  \* datagrams in flight
  late,          \* history: keys pressed by a push that came after suspend()
  highest,       \* history: the last sequence the host ever applied
  replayed       \* history: keys pressed again by an event applied before

ui == <<uiPc, uiKeys, inputs, uiState>>
link == <<enabled, sender, port, late>>
viewer == <<alive, accepted, wasConnected>>
host == <<active, applied, injector, hostKeys, highest, replayed>>
toHost == <<hellos, goodbyes, packets>>
toViewer == <<configs, acks>>
vars == <<ui, link, viewer, host, toHost, toViewer>>

Init ==
  /\ uiPc = "frame" /\ uiKeys = {} /\ inputs = <<>> /\ uiState = "watching"
  /\ enabled = FALSE /\ sender = NewSender /\ port = 1
  /\ alive = TRUE /\ accepted = FALSE /\ wasConnected = FALSE
  /\ active = 0 /\ applied = 0
  /\ injector = <<>> /\ hostKeys = {}
  /\ hellos = {} /\ goodbyes = {} /\ packets = {} /\ configs = {} /\ acks = {}
  /\ late = {} /\ highest = 0 /\ replayed = {}

----------------------------------------------------------------------------
(* The viewer's screen. A frame decides what to send, then send() looks    *)
(* whether forwarding is enabled, then it waits for the lock and queues.   *)

Releases(keys) == SetToSeq({KeyEvent(k, FALSE) : k \in keys})

\* controlling().
Controlling == uiState = "watching" /\ enabled

Frame(keys, events) ==
  /\ uiPc = "frame"
  /\ uiKeys' = keys
  /\ inputs' = events
  /\ uiPc' = IF events = <<>> THEN "frame" ELSE "send"
  /\ UNCHANGED <<uiState, link, viewer, host, toHost, toViewer>>

PressKey(k) == Controlling /\ Frame(uiKeys \cup {k}, <<KeyEvent(k, TRUE)>>)

ReleaseKey(k) ==
  /\ Controlling /\ k \in uiKeys
  /\ Frame(uiKeys \ {k}, <<KeyEvent(k, FALSE)>>)

UseShortcut(l) == Controlling /\ Frame(uiKeys, <<Shortcut(l)>>)

\* release_keyboard(): a click elsewhere, or the window loses the focus.
ReleaseKeyboard == Controlling /\ uiKeys # {} /\ Frame({}, Releases(uiKeys))

\* release_control(): the viewer does not control the host, or the video went
\* away.
ReleaseControl == uiKeys # {} /\ Frame({}, <<ReleaseAll>>)

\* send(): nothing is sent while forwarding is off.
LoadEnabled ==
  /\ uiPc = "send"
  /\ uiPc' = IF enabled /\ uiState # "ended" THEN "push" ELSE "frame"
  /\ inputs' = IF uiPc' = "push" THEN inputs ELSE <<>>
  /\ UNCHANGED <<uiKeys, uiState, link, viewer, host, toHost, toViewer>>

\* Each event is pushed by itself, and an overflow does not end the loop.
PushAll(s, events) == FoldLeft(LAMBDA t, e : Push(t, <<e>>), s, events)

From(p, datagrams) == {[port |-> p, packet |-> d] : d \in datagrams}

Presses(events) ==
  {k \in Key : \E i \in DOMAIN events : events[i] = KeyEvent(k, TRUE)}

\* The keys a later event lets go of again.
LetGo(events) ==
  IF Contains(events, ReleaseAll) THEN Key
  ELSE {k \in Key : Contains(events, KeyEvent(k, FALSE))}

\* send(), with the lock of the sender: the events are queued and sent,
\* although forwarding may have been suspended since it was looked at.
PushInputs ==
  /\ uiPc = "push"
  /\ LET queued == PushAll(sender, inputs) IN
     /\ queued.next - 1 <= MaxSequence
     /\ sender' = AfterSendNew(queued)
     /\ packets' = packets \cup From(port, NewPackets(queued))
  /\ late' = (late \ LetGo(inputs))
               \cup (IF enabled THEN {} ELSE Presses(inputs))
  /\ uiPc' = "frame" /\ inputs' = <<>>
  /\ UNCHANGED <<uiKeys, uiState, enabled, port, viewer, host, hellos,
                 goodbyes, toViewer>>

\* The screen drains the session's events: Connected, Disconnected, ViewerEnded.
DrainEvents ==
  /\ uiPc = "frame"
  /\ uiState' = IF ~alive THEN "ended"
                ELSE IF accepted \/ ~wasConnected THEN "watching"
                ELSE "reconnecting"
  /\ uiState' # uiState
  /\ UNCHANGED <<uiPc, uiKeys, inputs, link, viewer, host, toHost, toViewer>>

Screen ==
  \/ \E k \in Key : PressKey(k) \/ ReleaseKey(k)
  \/ \E l \in Letter : UseShortcut(l)
  \/ ReleaseKeyboard
  \/ ReleaseControl
  \/ LoadEnabled
  \/ PushInputs
  \/ DrainEvents

----------------------------------------------------------------------------
(* The viewer's network thread.                                            *)

SendHello ==
  /\ alive /\ ~accepted
  /\ hellos' = hellos \cup {port}
  /\ UNCHANGED <<ui, link, viewer, host, goodbyes, packets, toViewer>>

ReceiveConfig ==
  /\ alive /\ port \in configs
  /\ enabled' = TRUE
  /\ accepted' = TRUE /\ wasConnected' = TRUE
  /\ UNCHANGED <<ui, sender, port, late, alive, host, toHost, toViewer>>

\* Mutant: an acknowledgement counts although the viewer is suspended.
ReceiveAckAlways(a) ==
  /\ alive /\ a.port = port
  /\ LET acknowledged == Acknowledge(sender, a.sequence) IN
     /\ sender' = AfterSendNew(acknowledged)
     /\ packets' = packets \cup From(port, NewPackets(acknowledged))
  /\ UNCHANGED <<ui, enabled, port, late, viewer, host, hellos, goodbyes,
                 toViewer>>

\* InputLink::acknowledge().
ReceiveAck(a) ==
  /\ alive /\ accepted /\ a.port = port
  /\ LET acknowledged == Acknowledge(sender, a.sequence) IN
     /\ sender' = AfterSendNew(acknowledged)
     /\ packets' = packets \cup From(port, NewPackets(acknowledged))
  /\ UNCHANGED <<ui, enabled, port, late, viewer, host, hellos, goodbyes,
                 toViewer>>

\* InputLink::resend_if_due().
Resend ==
  /\ alive /\ accepted /\ sender.queue # <<>>
  /\ sender' = AfterRetransmit(sender)
  /\ packets' = packets \cup From(port, RetransmitPackets(sender))
  /\ UNCHANGED <<ui, enabled, port, late, viewer, host, hellos, goodbyes,
                 toViewer>>

\* Mutant: the queue survives a suspension.
SuspendKeepingQueue ==
  /\ alive /\ accepted
  /\ accepted' = FALSE /\ enabled' = FALSE
  /\ UNCHANGED <<ui, sender, port, late, alive, wasConnected, host, toHost,
                 toViewer>>

\* Nothing came from the host for HOST_SILENCE_TIMEOUT: InputLink::suspend().
\* Between its two statements the screen can only queue what is discarded, so
\* they are one step.
Suspend ==
  /\ alive /\ accepted /\ sender.next <= MaxSequence
  /\ accepted' = FALSE /\ enabled' = FALSE
  /\ sender' = Discard(sender)
  /\ late' = {}
  /\ UNCHANGED <<ui, port, alive, wasConnected, host, toHost, toViewer>>

\* The socket failed for SOCKET_REBUILD_AFTER. The stream goes on.
RebuildSocket ==
  /\ alive /\ port < MaxPort
  /\ port' = port + 1
  /\ hellos' = IF wasConnected THEN hellos \cup {port'} ELSE hellos
  /\ UNCHANGED <<ui, enabled, sender, late, viewer, host, goodbyes, packets,
                 toViewer>>

\* The user stopped watching: forwarding ends and Goodbye is sent.
Stop ==
  /\ alive
  /\ alive' = FALSE /\ enabled' = FALSE
  /\ goodbyes' = goodbyes \cup {port}
  /\ UNCHANGED <<ui, sender, port, late, accepted, wasConnected, host, hellos,
                 packets, toViewer>>

\* The thread returns at an error, or the process dies: nothing is sent, and
\* until it drains ViewerEnded the screen goes on forwarding.
Fail ==
  /\ alive /\ alive' = FALSE
  /\ UNCHANGED <<ui, link, accepted, wasConnected, host, toHost, toViewer>>

Network ==
  \/ SendHello
  \/ ReceiveConfig
  \/ \E a \in acks : ReceiveAck(a)
  \/ Resend
  \/ Suspend
  \/ RebuildSocket
  \/ Stop
  \/ Fail

----------------------------------------------------------------------------
(* The host's network thread.                                              *)

\* Mutant: the injector is not told.
ReplacePeerSilently(p) ==
  /\ active' = p
  /\ applied' = 0
  /\ UNCHANGED <<injector, replayed>>

\* replace_active_peer(), and what the loop does about the new epoch before it
\* receives again: the stream starts over and the injector lets go of
\* everything.
ReplacePeer(p) ==
  /\ Len(injector) < MaxInjector
  /\ active' = p
  /\ applied' = 0
  /\ injector' = Append(injector, ReleaseAll)
  /\ replayed' = {}

\* A Hello of the active port is answered again. Any other is the viewer
\* migrating or coming back; when it is not connected the Config may fail to be
\* sent, and the slot stays free.
HostReceiveHello(p) ==
  /\ \/ /\ active = p
        /\ configs' = configs \cup {p}
        /\ UNCHANGED <<active, applied, injector, replayed>>
     \/ /\ active # p
        /\ ReplacePeer(p)
        /\ configs' = configs \cup {p}
     \/ /\ active = 0
        /\ ReplacePeer(0)
        /\ UNCHANGED configs
  /\ UNCHANGED <<ui, link, viewer, hostKeys, highest, toHost, acks>>

\* Events of the active port: what is new goes to the injector as one batch.
HostReceiveEvents(d) ==
  /\ active = d.port
  /\ LET batch == AppliedEvents(applied, d.packet)
         old == {i \in DOMAIN batch : Base(applied, d.packet) + i <= highest}
     IN  /\ batch # <<>> => Len(injector) < MaxInjector
         /\ injector' = IF batch = <<>> THEN injector ELSE Append(injector, batch)
         /\ replayed' = replayed \cup Presses([i \in old |-> batch[i]])
  /\ applied' = Received(applied, d.packet)
  /\ highest' = Max({highest, applied'})
  /\ acks' = acks \cup {[port |-> d.port, sequence |-> applied']}
  /\ UNCHANGED <<ui, link, viewer, active, hostKeys, toHost, configs>>

HostReceiveGoodbye(p) ==
  /\ active = p
  /\ ReplacePeer(0)
  /\ UNCHANGED <<ui, link, viewer, hostKeys, highest, toHost, toViewer>>

\* Mutant: the slot is emptied without advancing the epoch.
HostDropInEpoch ==
  /\ active # 0
  /\ active' = 0
  /\ UNCHANGED <<ui, link, viewer, applied, injector, hostKeys, highest,
                 replayed, toHost, toViewer>>

\* Nothing came from the active port for CONNECTION_TIMEOUT.
HostDrop ==
  /\ active # 0
  /\ ReplacePeer(0)
  /\ UNCHANGED <<ui, link, viewer, hostKeys, highest, toHost, toViewer>>

HostNetwork ==
  \/ \E p \in hellos : HostReceiveHello(p)
  \/ \E d \in packets : HostReceiveEvents(d)
  \/ \E p \in goodbyes : HostReceiveGoodbye(p)
  \/ HostDrop

----------------------------------------------------------------------------
(* The host's injector.                                                    *)

\* shortcut(): the command key is down while the letter is typed; the other
\* modifiers are let go of and stay up.
AfterShortcut(keys, letter) ==
  keys \ ((Modifier \ {CommandKey}) \cup {letter})

\* apply(). A press the platform refuses does not count as held.
Apply(keys, event, refused) ==
  CASE event = ReleaseAll -> {}
    [] event \in {KeyEvent(k, TRUE) : k \in Key} -> keys \cup ({event.key} \ refused)
    [] event \in {KeyEvent(k, FALSE) : k \in Key} -> keys \ {event.key}
    [] OTHER -> AfterShortcut(keys, event.shortcut)

ApplyAll(keys, events, refused) ==
  FoldLeft(LAMBDA held, e : Apply(held, e, refused), keys, events)

\* One command: a batch of events, or the release-all of a new epoch.
Inject ==
  /\ injector # <<>>
  /\ injector' = Tail(injector)
  /\ \E refused \in SUBSET Key :
       hostKeys' = IF Head(injector) = ReleaseAll THEN {}
                   ELSE ApplyAll(hostKeys, Head(injector), refused)
  /\ UNCHANGED <<ui, link, viewer, active, applied, highest, replayed, toHost,
                 toViewer>>

Next == Screen \/ Network \/ HostNetwork \/ Inject

Spec == Init /\ [][Next]_vars

----------------------------------------------------------------------------
(* Liveness. Once the viewer is gone its datagrams do not stay in flight   *)
(* for ever, and the injector goes on; an active port from which nothing   *)
(* comes is dropped after CONNECTION_TIMEOUT.                              *)

Lapse ==
  /\ ~alive /\ hellos \cup goodbyes # {}
  /\ hellos' = {} /\ goodbyes' = {}
  /\ UNCHANGED <<ui, link, viewer, host, packets, toViewer>>

FairSpec ==
  /\ Init /\ [][Next \/ Lapse]_vars
  /\ WF_vars(Lapse)
  /\ WF_vars(~alive /\ HostDrop)
  /\ WF_vars(Inject)

----------------------------------------------------------------------------
(* Properties.                                                             *)

Ports == 1..MaxPort

\* The types of the four threads' state and of the network.
TypeOK ==
  /\ uiPc \in {"frame", "send", "push"} /\ uiKeys \subseteq Key
  /\ inputs \in Seq(Event) /\ uiState \in {"watching", "reconnecting", "ended"}
  /\ {enabled, alive, accepted, wasConnected} \subseteq BOOLEAN
  /\ sender.queue \in Seq(Entry) /\ sender.sentThrough < sender.next
  /\ port \in Ports /\ active \in Ports \cup {0}
  /\ applied \in 0..MaxSequence /\ highest \in 0..MaxSequence
  /\ injector \in Seq(Seq(Event) \cup {ReleaseAll}) /\ hostKeys \subseteq Key
  /\ hellos \cup goodbyes \cup configs \subseteq Ports
  /\ \A d \in packets : d.port \in Ports /\ d.packet \in Packet
  /\ \A a \in acks : a.port \in Ports /\ a.sequence \in 0..MaxSequence
  /\ late \cup replayed \subseteq Key

\* The viewer runs, and nothing is on its way between its screen and the
\* host's keyboard.
Settled ==
  /\ alive /\ uiPc = "frame" /\ sender.queue = <<>>
  /\ active = port /\ injector = <<>>

\* However the connection came and went, once all is settled the keys down on
\* the host are keys the user holds; what else is down was pressed by input
\* queued after a suspension, or by input applied twice, which are the two
\* deviations below.
OnlyHeldKeysAreDown == Settled => hostKeys \subseteq uiKeys \cup late \cup replayed

\* "the host releases everything the viewer held when it disconnects"
\* (README): while nobody is connected no key is down, once the injector has
\* done what it was told; input that overtakes a Goodbye or comes after a
\* timeout changes nothing.
ReleasedWhenFree ==
  active = 0 /\ injector = <<>> => hostKeys = {}

\* suspend(): from the moment the viewer is suspended until the host has it
\* again, the first thing it would send is a release-all, whatever the screen
\* still queues and whichever old acknowledgement arrives.
ReleaseGoesFirst ==
  wasConnected /\ ~accepted =>
    sender.queue # <<>> /\ sender.queue[1].event = ReleaseAll

\* A viewer that is gone, with or without a Goodbye that arrives, leaves no
\* key down for ever.
GoneViewerLetsGo == <>[](alive \/ hostKeys = {})

\* suspend(): "a release-all goes out first thing once the host accepts this
\* viewer again" is to let go of whatever was held (session.rs:607); README:75
\* promises that nothing is stuck down. Not so: send() may have looked at
\* enabled before the suspension and queue a press behind the release-all.
NoneStuckBySuspension == Settled => hostKeys \subseteq uiKeys \cup replayed

\* The receiver "applies each event once" (input.rs:393). Not so when the
\* viewer's socket was replaced: its stream goes on, the host's starts over.
AppliedOnce ==
  [][applied' > applied /\ Len(injector') > Len(injector) =>
       applied' - Len(injector'[Len(injector')]) >= highest]_vars

============================================================================
