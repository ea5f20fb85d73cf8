----------------------------- MODULE CopyReturn -----------------------------
(***************************************************************************)
(* The way back: text copied on the host at the viewer's request goes to   *)
(* the viewer in pieces over a second EventStream, from clipboard_events   *)
(* of spawn_host_network to host_events of spawn_client_network            *)
(* (session.rs), and is joined by ClipboardAssembler (input.rs). The host  *)
(* makes a new sender whenever the epoch moved; the viewer resets its      *)
(* receiver when the host falls silent, and at no other time.              *)
(*                                                                         *)
(* A text has two pieces, so that MAX_CLIPBOARD_TEXT is never reached. As  *)
(* in RemoteControl there is one viewer and a datagram in flight may be    *)
(* received again, late or never. Events and their acknowledgements are    *)
(* marked with the stream they belong to, which is history: on the wire    *)
(* they have no such mark.                                                 *)
(***************************************************************************)
EXTENDS EventStream

CONSTANTS
  MaxText,    \* bound: texts copied on the host
  MaxStream,  \* bound: senders the host makes
  MaxPort     \* bound: sockets of the viewer

Piece(text, index) == [text |-> text, index |-> index]
First(event) == event.index = 1
Last(event) == event.index = 2
Pieces(text) == <<Piece(text, 1), Piece(text, 2)>>

ASSUME CopyAssumption ==
  /\ Event = {Piece(t, i) : t \in 1..MaxText, i \in 1..2} \cup {ReleaseAll}
  /\ \A t \in 1..MaxText, i \in 1..2 : ReleaseAll # Piece(t, i)
  /\ MaxText \in Nat /\ MaxStream \in Nat \ {0} /\ MaxPort \in Nat \ {0}

VARIABLES
  outbox,      \* clipboard_events, the sender
  active,      \* HostPeers.active: a port, or 0
  epochMoved,  \* HostPeers.epoch # control_epoch
  accepted, wasConnected,
  port,        \* the viewer's socket
  hostEvents,  \* host_events
  assembly,    \* host_clipboard, <<>> when it holds no text
  copied,      \* the last text given to the viewer's clipboard, or <<>>
  hellos, configs, datagrams, answers,  \* datagrams in flight
  texts,       \* history: how many texts were copied
  promised,    \* history: the text this stream is to bring, 0 for none
  stream,      \* history: the number of the host's sender
  heard,       \* history: the stream the receiver hears since its reset, or 0
  mixed,       \* history: an end took something of another stream for its own
  cut          \* history: the receiver was reset in the middle of a text

host == <<outbox, active, epochMoved, texts, promised, stream>>
viewer == <<accepted, wasConnected, port, hostEvents, assembly, copied, heard>>
network == <<hellos, configs, datagrams, answers>>
history == <<mixed, cut>>
copyVars == <<host, viewer, network, history>>

CopyInit ==
  /\ outbox = NewSender /\ active = 0 /\ epochMoved = FALSE
  /\ accepted = FALSE /\ wasConnected = FALSE /\ port = 1
  /\ hostEvents = 0 /\ assembly = <<>> /\ copied = <<>>
  /\ hellos = {} /\ configs = {} /\ datagrams = {} /\ answers = {}
  /\ texts = 0 /\ promised = 0 /\ stream = 0 /\ heard = 0 /\ mixed = FALSE /\ cut = FALSE

----------------------------------------------------------------------------
(* The host.                                                               *)

ToViewer(sent) ==
  {[port |-> active, stream |-> stream, packet |-> p] : p \in sent}

\* The clipboard step: the injector found the text of a copy, which a viewer
\* asked for. With a viewer connected it is queued and sent; a queue that
\* overflows drops it and what was there before.
CopyText ==
  /\ stream # 0
  /\ texts < MaxText /\ texts' = texts + 1
  /\ IF active = 0
     THEN UNCHANGED <<outbox, datagrams, promised>>
     ELSE LET queued == Push(outbox, Pieces(texts')) IN
          /\ outbox' = AfterSendNew(queued)
          /\ datagrams' = datagrams \cup ToViewer(NewPackets(queued))
          /\ promised' = IF Overflows(outbox, Pieces(texts')) THEN 0 ELSE texts'
  /\ UNCHANGED <<active, epochMoved, stream, viewer, hellos, configs, answers,
                 history>>

\* The clipboard step, when retransmit_due().
HostResend ==
  /\ active # 0 /\ outbox.queue # <<>>
  /\ outbox' = AfterRetransmit(outbox)
  /\ datagrams' = datagrams \cup ToViewer(RetransmitPackets(outbox))
  /\ UNCHANGED <<active, epochMoved, texts, promised, stream, viewer, hellos,
                 configs, answers, history>>

\* The epoch moved: a new sender. It is noticed before anything is received,
\* but after the clipboard step of the iteration in which it moved.
StartOver ==
  /\ epochMoved /\ stream < MaxStream
  /\ epochMoved' = FALSE
  /\ outbox' = NewSender
  /\ stream' = stream + 1
  /\ promised' = 0
  /\ UNCHANGED <<active, texts, viewer, network, history>>

HostReceiveHello(p) ==
  /\ ~epochMoved
  /\ active' = p
  /\ epochMoved' = (active # p)
  /\ configs' = configs \cup {p}
  /\ UNCHANGED <<outbox, texts, promised, stream, viewer, hellos, datagrams,
                 answers, history>>

\* EventsAck of the active port.
HostReceiveAck(a) ==
  /\ ~epochMoved /\ a.port = active
  /\ LET acknowledged == Acknowledge(outbox, a.sequence) IN
     /\ outbox' = AfterSendNew(acknowledged)
     /\ datagrams' = datagrams \cup ToViewer(NewPackets(acknowledged))
  /\ mixed' = (mixed \/ a.stream # stream)
  /\ UNCHANGED <<cut, active, epochMoved, texts, promised, stream, viewer, hellos,
                 configs, answers>>

\* Nothing came from the active port for CONNECTION_TIMEOUT. The last Hello from
\* there that let the viewer in is older, and not in flight any more.
HostDrop ==
  /\ ~epochMoved /\ active # 0
  /\ active' = 0 /\ epochMoved' = TRUE
  /\ hellos' = IF accepted THEN hellos \ {active} ELSE hellos
  /\ UNCHANGED <<outbox, texts, promised, stream, viewer, configs, datagrams,
                 answers, history>>

----------------------------------------------------------------------------
(* The viewer's network thread.                                            *)

SendHello ==
  /\ ~accepted
  /\ hellos' = hellos \cup {port}
  /\ UNCHANGED <<host, viewer, configs, datagrams, answers, history>>

ReceiveConfig ==
  /\ port \in configs
  /\ accepted' = TRUE /\ wasConnected' = TRUE
  /\ UNCHANGED <<host, port, hostEvents, assembly, copied, heard, network, history>>

\* Mutant: a piece without a start begins a text.
JoinAnyPiece(state, event) ==
  IF event = ReleaseAll THEN state
  ELSE LET text == IF First(event) THEN <<event>> ELSE Append(state.text, event)
       IN  IF Last(event) THEN [text |-> <<>>, done |-> text]
           ELSE [text |-> text, done |-> state.done]

\* ClipboardAssembler::push(), and the newest complete text of a packet.
JoinPiece(state, event) ==
  IF event = ReleaseAll \/ (~First(event) /\ state.text = <<>>) THEN state
  ELSE LET text == IF First(event) THEN <<event>> ELSE Append(state.text, event)
       IN  IF Last(event) THEN [text |-> <<>>, done |-> text]
           ELSE [text |-> text, done |-> state.done]

\* The pieces of a packet, joined one after the other.
Joined(events) ==
  LET joined[k \in 0..Len(events)] ==
        IF k = 0 THEN [text |-> assembly, done |-> copied]
        ELSE JoinPiece(joined[k - 1], events[k])
  IN  joined[Len(events)]

ReceiveEvents(d) ==
  /\ accepted /\ d.port = port
  /\ LET joined == Joined(AppliedEvents(hostEvents, d.packet)) IN
     assembly' = joined.text /\ copied' = joined.done
  /\ hostEvents' = Received(hostEvents, d.packet)
  /\ answers' = answers \cup {[port |-> port, stream |-> d.stream,
                              sequence |-> hostEvents']}
  /\ heard' = d.stream
  /\ mixed' = (mixed \/ d.stream # stream \/ heard \notin {0, d.stream})
  /\ UNCHANGED <<cut, host, accepted, wasConnected, port, hellos, configs,
                 datagrams>>

\* In flight when the host has been silent for HOST_SILENCE_TIMEOUT: nothing
\* that was acknowledged by then is, and no acknowledgement, the last of which
\* answered what was heard last.
StillInFlight ==
  {d \in datagrams :
     d.stream = stream => \E k \in DOMAIN outbox.queue :
                            outbox.queue[k].seq = PacketEnd(d.packet)}

\* Mutant: the pieces received so far are forgotten too, not only the stream.
SuspendAndForgetPieces ==
  /\ accepted /\ accepted' = FALSE
  /\ hostEvents' = 0 /\ heard' = 0 /\ assembly' = <<>>
  /\ datagrams' = StillInFlight /\ answers' = {}
  /\ UNCHANGED <<host, wasConnected, port, copied, hellos, configs, history>>

\* Nothing came from the host for HOST_SILENCE_TIMEOUT: the stream is read from
\* where the host now stands, and what was joined so far stays.
Suspend ==
  /\ accepted /\ accepted' = FALSE
  /\ hostEvents' = 0 /\ heard' = 0
  /\ datagrams' = StillInFlight /\ answers' = {}
  /\ cut' = (cut \/ assembly # <<>>)
  /\ UNCHANGED <<host, wasConnected, port, assembly, copied, hellos, configs,
                 mixed>>

RebuildSocket ==
  /\ port < MaxPort /\ port' = port + 1
  /\ hellos' = IF wasConnected THEN hellos \cup {port'} ELSE hellos
  /\ UNCHANGED <<host, accepted, wasConnected, hostEvents, assembly, copied, heard,
                 configs, datagrams, answers, history>>

CopyNext ==
  \/ CopyText
  \/ HostResend
  \/ StartOver
  \/ \E p \in hellos : HostReceiveHello(p)
  \/ \E a \in answers : HostReceiveAck(a)
  \/ HostDrop
  \/ SendHello
  \/ ReceiveConfig
  \/ \E d \in datagrams : ReceiveEvents(d)
  \/ Suspend
  \/ RebuildSocket

CopySpec == CopyInit /\ [][CopyNext]_copyVars

----------------------------------------------------------------------------
(* Properties.                                                             *)

TextOrNone == {<<>>} \cup {Pieces(t) : t \in 1..MaxText}

\* The types of the two ends and of the network.
CopyTypeOK ==
  /\ outbox.queue \in Seq(Entry) /\ outbox.sentThrough < outbox.next
  /\ active \in 0..MaxPort /\ port \in 1..MaxPort
  /\ {epochMoved, accepted, wasConnected, mixed, cut} \subseteq BOOLEAN
  /\ hostEvents \in Nat /\ assembly \in Seq(Event) /\ copied \in Seq(Event)
  /\ hellos \cup configs \subseteq 1..MaxPort
  /\ \A d \in datagrams : d.port \in 1..MaxPort /\ d.packet \in Packet
  /\ \A a \in answers : a.port \in 1..MaxPort /\ a.sequence \in Nat
  /\ texts \in 0..MaxText /\ promised \in 0..texts
  /\ stream \in 0..MaxStream /\ heard \in 0..MaxStream

\* What reaches the viewer's clipboard is a text as it was copied, whole, also
\* when an overflow, a lost host or lost datagrams fell between its pieces. Two
\* cases excepted, which the two properties below are about.
TextsAreWhole == mixed \/ cut \/ copied \in TextOrNone

\* "copying brings the host's new clipboard text back to the viewer"
\* (README.md:72): once the host's queue has drained, the viewer has the text
\* that was copied last. Not so after a migration: the host's stream begins at 1
\* again and the viewer takes it for what it has applied already.
LastCopyArrived ==
  outbox.queue = <<>> /\ promised # 0 => copied = Pieces(promised)

\* The same with those two cases excepted: through loss, resends, overflows and
\* suspensions between texts the last copy arrives.
CopyArrivesInStream == mixed \/ cut \/ LastCopyArrived

\* RemoteClipboard is text the host copied (session.rs:499). Not so within one
\* stream either: a suspension resets the receiver and keeps the assembler, and
\* pieces that are resent because their acknowledgement was lost are joined to
\* the pieces of the text after them.
TextsAreWholeInStream == mixed \/ copied \in TextOrNone

============================================================================
