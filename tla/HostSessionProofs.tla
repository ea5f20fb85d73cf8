-------------------------- MODULE HostSessionProofs --------------------------
(***************************************************************************)
(* The invariants of HostSession hold for any number of viewers, addresses  *)
(* and devices and for any bounds. The proof has two halves: the types,     *)
(* which are inductive on their own, and what IInv adds to them (Rest).     *)
(***************************************************************************)
EXTENDS HostSession, TLAPS, SequenceTheorems

----------------------------------------------------------------------------
(* Types.                                                                  *)

LEMMA HelloType ==
  ASSUME NEW e \in Endpoint, NEW h \in Hellos(e)
  PROVE  /\ h.jumbo \in BOOLEAN /\ h.audioOnly \in BOOLEAN
         /\ h.viewer \in Viewer \cup {None}
<1> DEFINE only == e \in AudioOnly
<1>1. Device[e] \in Viewer /\ only \in BOOLEAN
  BY DEF Viewer
<1>2. \/ h = [jumbo |-> TRUE, audioOnly |-> only, viewer |-> Device[e]]
      \/ h = [jumbo |-> FALSE, audioOnly |-> FALSE, viewer |-> None]
      \/ h = [jumbo |-> TRUE, audioOnly |-> only, viewer |-> None]
  BY DEF Hellos
<1> HIDE DEF only
<1>3. h.jumbo \in BOOLEAN /\ h.audioOnly \in BOOLEAN
  <2>1. ASSUME NEW i, h = [jumbo |-> TRUE, audioOnly |-> only, viewer |-> i]
        PROVE  h.jumbo = TRUE /\ h.audioOnly = only
    BY <2>1, Zenon
  <2>2. ASSUME NEW i, h = [jumbo |-> FALSE, audioOnly |-> FALSE, viewer |-> i]
        PROVE  h.jumbo = FALSE /\ h.audioOnly = FALSE
    BY <2>2, Zenon
  <2> QED
    BY <1>1, <1>2, <2>1, <2>2, Zenon
<1>4. h.viewer = Device[e] \/ h.viewer = None
  BY <1>2
<1> QED
  BY <1>1, <1>3, <1>4

LEMMA MergedType ==
  ASSUME TypeOK, NEW e \in Endpoint, NEW h \in Hellos(e)
  PROVE  Merged(e, h) \in Request
<1>1. CASE pending # None /\ pending.peer = e
  <2>1. pending \in Request
    BY <1>1 DEF TypeOK
  <2> QED
    BY <1>1, <2>1, HelloType, HostAssumption DEF Merged, Request, OrElse
<1>2. CASE ~(pending # None /\ pending.peer = e)
  BY <1>2, HelloType, HostAssumption DEF Merged, Request, OrElse
<1> QED
  BY <1>1, <1>2

\* The part of TypeOK about the thread's own variables.
LEMMA ThreadTypes ==
  ASSUME TypeOK, UNCHANGED screen
  PROVE  commands' \in Seq(Command) /\ shown' \in Shown \cup {None} /\ trusted' \subseteq Viewer
BY DEF TypeOK, screen

LEMMA TellType ==
  ASSUME TypeOK, NEW event \in Event
  PROVE  /\ Tell(event) => events' \in Seq(Event)
         /\ \A c \in BOOLEAN : TellIf(c, event) => events' \in Seq(Event)
<1>1. events \in Seq(Event)
  BY DEF TypeOK
<1>2. Append(events, event) \in Seq(Event)
  BY <1>1, AppendProperties
<1> QED
  BY <1>1, <1>2 DEF Tell, TellIf

LEMMA EventTypes ==
  /\ Connected \in Event /\ Disconnected \in Event
  /\ [kind |-> "ViewerLeft"] \in Event
  /\ \A e \in Endpoint, v \in BOOLEAN, i \in Viewer \cup {None} :
       [kind |-> "PendingConnection", peer |-> e, video |-> v, viewer |-> i] \in Event
  /\ \A e \in Endpoint : [kind |-> "RequestWithdrawn", peer |-> e] \in Event
BY DEF Event, Connected, Disconnected

LEMMA ReplaceType ==
  ASSUME TypeOK, NEW e \in Endpoint \cup {None}, NEW v \in BOOLEAN, ReplacePeer(e, v)
  PROVE  /\ active' \in Endpoint \cup {None} /\ video' \in Endpoint \cup {None}
         /\ epochMoved' \in BOOLEAN
         /\ held' \in {"nobody", "current", "former", "mixed"}
BY DEF TypeOK, ReplacePeer

LEMMA ActivateType ==
  ASSUME TypeOK, NEW e \in Endpoint, NEW v \in BOOLEAN, NEW j \in BOOLEAN,
         NEW i \in Viewer \cup {None}, NEW kept \in BOOLEAN, Activate(e, v, j, i, kept)
  PROVE  /\ active' \in Endpoint \cup {None} /\ video' \in Endpoint \cup {None}
         /\ epochMoved' \in BOOLEAN
         /\ held' \in {"nobody", "current", "former", "mixed"}
         /\ jumbo' \in BOOLEAN /\ activeVideo' \in BOOLEAN
         /\ activeViewer' \in Viewer \cup {None}
         /\ config' \in Config
<1>1. ReplacePeer(IF kept THEN e ELSE None, v)
  BY DEF Activate
<1>2. (IF kept THEN e ELSE None) \in Endpoint \cup {None}
  OBVIOUS
<1> QED
  BY <1>1, <1>2, ReplaceType DEF Activate, Config

LEMMA NegotiatedType ==
  ASSUME NEW j \in BOOLEAN, NEW v \in BOOLEAN
  PROVE  Negotiated(j, v) \in BOOLEAN
BY DEF Negotiated

\* What every handler of a datagram keeps typed.
Handled ==
  /\ events' \in Seq(Event)
  /\ active' \in Endpoint \cup {None} /\ video' \in Endpoint \cup {None}
  /\ epochMoved' \in BOOLEAN /\ held' \in {"nobody", "current", "former", "mixed"}
  /\ jumbo' \in BOOLEAN /\ activeVideo' \in BOOLEAN
  /\ activeViewer' \in Viewer \cup {None} /\ config' \in Config \cup {None}
  /\ lastSeen' \in BOOLEAN
  /\ reconnect' \in Request \cup {None} /\ graceOver' \in BOOLEAN
  /\ pending' \in Request \cup {None}

LEMMA HelloAgainType ==
  ASSUME TypeOK, NEW e \in Endpoint, NEW h \in Hellos(e), HelloAgain(e, h)
  PROVE  Handled
<1>1. h.viewer \in Viewer \cup {None}
  BY HelloType
<1>2. activeVideo' \in BOOLEAN /\ jumbo' \in BOOLEAN
  BY DEF HelloAgain, TypeOK
<1>3. config' \in Config
  BY <1>2 DEF HelloAgain, Config
<1>4. /\ active' \in Endpoint \cup {None} /\ video' \in Endpoint \cup {None}
      /\ epochMoved' \in BOOLEAN /\ held' \in {"nobody", "current", "former", "mixed"}
  <2>1. CASE h.audioOnly /\ activeVideo
    <3>1. ReplacePeer(e, FALSE)
      BY <2>1 DEF HelloAgain
    <3> QED
      BY <3>1, ReplaceType
  <2>2. CASE ~(h.audioOnly /\ activeVideo)
    BY <2>2 DEF HelloAgain, TypeOK, peers
  <2> QED
    BY <2>1, <2>2
<1>5. activeViewer' \in Viewer \cup {None}
  BY <1>1 DEF HelloAgain, OrElse, TypeOK
<1> QED
  BY <1>2, <1>3, <1>4, <1>5 DEF HelloAgain, Handled, TypeOK, grace

LEMMA HelloMigratesType ==
  ASSUME TypeOK, NEW e \in Endpoint, NEW h \in Hellos(e), HelloMigrates(e, h)
  PROVE  Handled
<1> DEFINE v == HostVideo /\ ~h.audioOnly
<1>1. h.jumbo \in BOOLEAN /\ h.viewer \in Viewer \cup {None} /\ v \in BOOLEAN
  BY HelloType, HostAssumption
<1>2. Activate(e, v, Negotiated(h.jumbo, v), h.viewer, TRUE)
  BY DEF HelloMigrates
<1>3. events' \in Seq(Event)
  BY EventTypes, TellType DEF HelloMigrates
<1> HIDE DEF v
<1>4. Negotiated(h.jumbo, v) \in BOOLEAN
  BY <1>1, NegotiatedType
<1> QED
  BY <1>1, <1>2, <1>3, <1>4, ActivateType DEF HelloMigrates, Handled, TypeOK, EndGrace

LEMMA HelloRestoresType ==
  ASSUME TypeOK, NEW e \in Endpoint, NEW h \in Hellos(e), HelloRestores(e, h)
  PROVE  Handled
<1> DEFINE i == OrElse(h.viewer, reconnect.viewer)
<1>1. PICK sent \in BOOLEAN :
        /\ Activate(e, reconnect.video, reconnect.jumbo, i, sent)
        /\ TakeGrace(e, i, sent)
        /\ TellIf(sent, Connected)
  BY DEF HelloRestores
<1>2. reconnect \in Request
  BY DEF HelloRestores, CanRestore, TypeOK
<1>3. i \in Viewer \cup {None} /\ reconnect.video \in BOOLEAN /\ reconnect.jumbo \in BOOLEAN
  BY <1>2, HelloType DEF OrElse, Request
<1>4. events' \in Seq(Event)
  BY <1>1, EventTypes, TellType
<1> HIDE DEF i
<1>5. /\ reconnect' \in Request \cup {None} /\ graceOver' \in BOOLEAN
      /\ lastSeen' \in BOOLEAN
  BY <1>1, <1>2, <1>3 DEF TakeGrace, EndGrace, Request
<1> QED
  BY <1>1, <1>3, <1>4, <1>5, ActivateType DEF HelloRestores, Handled, TypeOK

LEMMA HelloTrustedType ==
  ASSUME TypeOK, NEW e \in Endpoint, NEW h \in Hellos(e), HelloTrusted(e, h)
  PROVE  Handled
<1> DEFINE asked == Merged(e, h)
<1>1. PICK sent \in BOOLEAN :
        /\ Activate(e, asked.video, Negotiated(asked.jumbo, asked.video), h.viewer, sent)
        /\ TellIf(sent, Connected)
  BY DEF HelloTrusted
<1>2. asked \in Request
  BY MergedType
<1>3. events' \in Seq(Event)
  BY <1>1, EventTypes, TellType
<1> HIDE DEF asked
<1>4. asked.video \in BOOLEAN /\ asked.jumbo \in BOOLEAN /\ h.viewer \in Viewer \cup {None}
  BY <1>2, HelloType DEF Request
<1>5. Negotiated(asked.jumbo, asked.video) \in BOOLEAN
  BY <1>4, NegotiatedType
<1>6. pending' = None /\ lastSeen' = TRUE /\ EndGrace
  BY DEF HelloTrusted
<1> QED
  BY <1>1, <1>3, <1>4, <1>5, <1>6, ActivateType DEF Handled, TypeOK, EndGrace

LEMMA HelloAsksType ==
  ASSUME TypeOK, NEW e \in Endpoint, NEW h \in Hellos(e), HelloAsks(e, h)
  PROVE  Handled
<1> DEFINE asked == Merged(e, h)
           event == [kind |-> "PendingConnection", peer |-> e,
                     video |-> asked.video, viewer |-> asked.viewer]
<1>1. asked \in Request
  BY MergedType
<1>2. asked.video \in BOOLEAN /\ asked.viewer \in Viewer \cup {None}
  BY <1>1 DEF Request
<1>3. event \in Event
  BY <1>2, EventTypes
<1>4. \E c \in BOOLEAN : TellIf(c, event)
  BY DEF HelloAsks
<1>5. events' \in Seq(Event)
  BY <1>3, <1>4, TellType
<1>6. pending' = asked
  BY DEF HelloAsks
<1>7. UNCHANGED <<peers, session, grace, lastSeen>>
  BY DEF HelloAsks
<1>8. pending' \in Request \cup {None}
  BY <1>1, <1>6
<1> QED
  BY <1>5, <1>7, <1>8 DEF Handled, TypeOK, peers, session, grace

LEMMA UnchangedType ==
  ASSUME TypeOK,
         UNCHANGED <<peers, session, grace, pending, events>>, lastSeen' \in BOOLEAN
  PROVE  Handled
BY DEF Handled, TypeOK, peers, session, grace

LEMMA GoodbyeType ==
  ASSUME TypeOK, NEW e \in Endpoint, ReceiveGoodbye(e)
  PROVE  Handled
<1>1. CASE /\ active = e
           /\ ReplacePeer(None, FALSE)
           /\ jumbo' = FALSE /\ activeViewer' = None
           /\ lastSeen' = FALSE
           /\ EndGrace
           /\ Tell([kind |-> "ViewerLeft"])
           /\ UNCHANGED <<activeVideo, config, pending>>
  <2>1. events' \in Seq(Event)
    BY <1>1, EventTypes, TellType
  <2> QED
    BY <1>1, <2>1, ReplaceType DEF Handled, TypeOK, EndGrace
<1>2. CASE /\ pending' = None
           /\ Tell([kind |-> "RequestWithdrawn", peer |-> e])
           /\ UNCHANGED <<peers, session, grace, lastSeen>>
  <2>1. events' \in Seq(Event)
    BY <1>2, EventTypes, TellType
  <2> QED
    BY <1>2, <2>1 DEF Handled, TypeOK, peers, session, grace
<1>3. CASE EndGrace /\ UNCHANGED <<peers, session, pending, lastSeen, events>>
  BY <1>3 DEF Handled, TypeOK, EndGrace, peers, session
<1>4. CASE UNCHANGED <<peers, session, grace, pending, lastSeen, events>>
  BY <1>4, UnchangedType DEF TypeOK
<1> QED
  BY <1>1, <1>2, <1>3, <1>4 DEF ReceiveGoodbye

LEMMA HelloHandled ==
  ASSUME TypeOK, NEW e \in Endpoint, ReceiveHello(e)
  PROVE  Handled /\ UNCHANGED <<copying, goodbyeFrom>>
<1>1. ASSUME NEW h \in Hellos(e),
             \/ HelloAgain(e, h) \/ HelloMigrates(e, h) \/ HelloRestores(e, h)
             \/ HelloTrusted(e, h) \/ HelloAsks(e, h)
      PROVE  Handled
  BY <1>1, HelloAgainType, HelloMigratesType, HelloRestoresType, HelloTrustedType,
     HelloAsksType
<1>2. ASSUME HelloRefused(e)
      PROVE  Handled
  BY <1>2, UnchangedType DEF HelloRefused, TypeOK
<1> QED
  BY <1>1, <1>2 DEF ReceiveHello

LEMMA ReceiveType ==
  ASSUME TypeOK, Receive
  PROVE  TypeOK'
<1>1. Handled /\ clipboard' \in BOOLEAN /\ copyWatch' \in Endpoint \cup {None}
              /\ goodbyeFrom' \in Endpoint \cup {None}
  <2>1. ASSUME NEW e \in Endpoint, ReceiveHello(e)
        PROVE  <1>1
    BY <2>1, HelloHandled DEF TypeOK, copying
  <2>2. ASSUME NEW e \in Endpoint, ReceiveHeartbeat(e)
        PROVE  <1>1
    BY <2>2, UnchangedType DEF ReceiveHeartbeat, TypeOK, copying
  <2>3. ASSUME NEW e \in Endpoint, ReceiveEvents(e)
        PROVE  <1>1
    <3>1. held' \in {"nobody", "current", "former", "mixed"}
      BY <2>3 DEF ReceiveEvents, TypeOK
    <3> QED
      BY <2>3, <3>1 DEF ReceiveEvents, TypeOK, Handled, session, grace
  <2>4. ASSUME NEW e \in Endpoint, ReceiveEventsAck(e)
        PROVE  <1>1
    BY <2>4, UnchangedType DEF ReceiveEventsAck, TypeOK
  <2>5. ASSUME NEW e \in Endpoint, ReceiveGoodbye(e)
        PROVE  <1>1
    <3>1. Handled
      BY <2>5, GoodbyeType
    <3> QED
      BY <2>5, <3>1 DEF ReceiveGoodbye, TypeOK, copying
  <2>6. CASE ReceiveNothing
    BY <2>6, UnchangedType DEF ReceiveNothing, TypeOK, copying
  <2> QED
    BY <2>1, <2>2, <2>3, <2>4, <2>5, <2>6 DEF Receive
<1> QED
  BY <1>1, ThreadTypes DEF Receive, Handled, TypeOK

LEMMA CommandType ==
  ASSUME TypeOK, TakeCommand
  PROVE  TypeOK'
<1>1. PICK e \in Endpoint : TakeAccept(e) \/ TakeReject(e)
  BY DEF TakeCommand
<1>2. commands' \in Seq(Command)
  BY <1>1, HeadTailProperties DEF TakeAccept, TakeReject, TypeOK
<1>3. CASE TakeReject(e)
  <2>1. pending' \in Request \cup {None}
    BY <1>3 DEF TakeReject, TypeOK
  <2> QED
    BY <1>2, <1>3, <2>1 DEF TakeReject, TypeOK, peers, session, grace, copying
<1>4. CASE TakeAccept(e)
  <2>1. Handled
    <3>1. CASE UNCHANGED <<peers, session, grace, pending, lastSeen, events>>
      BY <3>1, UnchangedType DEF TypeOK
    <3>2. CASE pending # None /\ pending.peer = e
      <4>1. PICK sent \in BOOLEAN :
              /\ Activate(e, pending.video, Negotiated(pending.jumbo, pending.video),
                          pending.viewer, sent)
              /\ pending' = None /\ lastSeen' = TRUE /\ EndGrace
              /\ TellIf(sent, Connected)
        BY <1>4, <3>2 DEF TakeAccept
      <4>2. /\ pending.video \in BOOLEAN /\ pending.jumbo \in BOOLEAN
            /\ pending.viewer \in Viewer \cup {None}
        BY <3>2 DEF TypeOK, Request
      <4>3. Negotiated(pending.jumbo, pending.video) \in BOOLEAN
        BY <4>2, NegotiatedType
      <4>4. events' \in Seq(Event)
        BY <4>1, EventTypes, TellType
      <4> QED
        BY <4>1, <4>2, <4>3, <4>4, ActivateType DEF Handled, TypeOK, EndGrace
    <3> QED
      BY <1>4, <3>1, <3>2 DEF TakeAccept
  <2> QED
    BY <1>2, <1>4, <2>1 DEF TakeAccept, Handled, TypeOK, copying
<1> QED
  BY <1>1, <1>3, <1>4

LEMMA TimeoutsType ==
  ASSUME TypeOK, CheckTimeouts
  PROVE  TypeOK'
<1>1. Handled
  <2>1. CASE DropSilentViewer
    <3>1. /\ active' \in Endpoint \cup {None} /\ video' \in Endpoint \cup {None}
          /\ epochMoved' \in BOOLEAN /\ held' \in {"nobody", "current", "former", "mixed"}
      BY <2>1, ReplaceType DEF DropSilentViewer
    <3>2. active # None => GraceOfViewer \in Request
      BY DEF GraceOfViewer, Request, TypeOK
    <3>3. events' \in Seq(Event)
      BY <2>1, EventTypes, TellType DEF DropSilentViewer, TypeOK
    <3> QED
      BY <2>1, <3>1, <3>2, <3>3 DEF DropSilentViewer, CheckTimeouts, Handled, TypeOK
  <2>2. CASE ExpireGrace
    BY <2>2 DEF ExpireGrace, EndGrace, CheckTimeouts, Handled, TypeOK, peers
  <2>3. CASE UNCHANGED <<peers, session, grace, lastSeen, events>>
    BY <2>3, UnchangedType DEF CheckTimeouts, TypeOK
  <2> QED
    BY <2>1, <2>2, <2>3 DEF CheckTimeouts
<1> QED
  BY <1>1, ThreadTypes DEF CheckTimeouts, Handled, TypeOK, copying

LEMMA UserType ==
  ASSUME TypeOK, User
  PROVE  TypeOK'
<1> USE DEF TypeOK, peers, session, grace, copying
<1>1. CASE ShowEvent
  <2>1. events' \in Seq(Event) /\ Head(events) \in Event
    BY <1>1, HeadTailProperties DEF ShowEvent
  <2>2. shown' \in Shown \cup {None}
    BY <1>1, <2>1 DEF ShowEvent, Event, Shown
  <2> QED
    BY <1>1, <2>1, <2>2 DEF ShowEvent
<1>2. ASSUME shown # None, NEW answer \in {"accept", "reject"}, Answer(answer)
      PROVE  commands' \in Seq(Command)
  <2>1. [answer |-> answer, peer |-> shown.peer] \in Command
    BY <1>2 DEF Command, Shown
  <2> QED
    BY <1>2, <2>1, AppendProperties DEF Answer
<1>3. CASE AcceptPending
  <2>1. commands' \in Seq(Command)
    BY <1>2, <1>3 DEF AcceptPending
  <2>2. trusted' \subseteq Viewer
    BY <1>3 DEF AcceptPending, Shown
  <2> QED
    BY <1>3, <2>1, <2>2 DEF AcceptPending
<1>4. CASE RejectPending
  <2>1. commands' \in Seq(Command)
    BY <1>2, <1>4 DEF RejectPending
  <2> QED
    BY <1>4, <2>1 DEF RejectPending
<1>5. CASE ForgetViewer
  BY <1>5 DEF ForgetViewer
<1>6. CASE StopSharing
  BY <1>6 DEF StopSharing
<1> QED
  BY <1>1, <1>3, <1>4, <1>5, <1>6 DEF User

LEMMA NextType ==
  ASSUME TypeOK, [Next]_vars
  PROVE  TypeOK'
<1>1. CASE TakeCommand
  BY <1>1, CommandType
<1>2. CASE StartOver
  BY <1>2 DEF StartOver, TypeOK, screen, session, grace
<1>3. CASE Receive
  BY <1>3, ReceiveType
<1>4. CASE ReceiveInvalid
  BY <1>4 DEF ReceiveInvalid, TypeOK, screen, peers, session, grace, copying
<1>5. CASE ServeClipboard
  <2>1. clipboard' \in BOOLEAN /\ copyWatch' \in Endpoint \cup {None}
    BY <1>5 DEF ServeClipboard, copying, TypeOK
  <2> QED
    BY <1>5, <2>1 DEF ServeClipboard, TypeOK, screen, peers, session, grace
<1>6. CASE CheckTimeouts
  BY <1>6, TimeoutsType
<1>7. CASE Farewell
  BY <1>7 DEF Farewell, TypeOK, screen, session, grace, copying
<1>8. CASE User
  BY <1>8, UserType
<1>9. CASE GraceElapses
  BY <1>9 DEF GraceElapses, TypeOK, screen, peers, session, copying
<1>10. CASE UNCHANGED vars
  BY <1>10 DEF vars, TypeOK, screen, peers, session, grace, copying
<1> QED
  BY <1>1, <1>2, <1>3, <1>4, <1>5, <1>6, <1>7, <1>8, <1>9, <1>10 DEF Next, Thread

LEMMA InitType == Init => TypeOK
<1>1. <<>> \in Seq(Command) /\ <<>> \in Seq(Event)
  BY EmptySeq
<1> QED
  BY <1>1 DEF Init, TypeOK

\* Every variable of the host keeps its type, the request and the grace among
\* them: a pending or absent viewer always has an address that viewers use.
THEOREM HostTypeOK == Spec => []TypeOK
<1>1. TypeOK /\ [Next]_vars => TypeOK'
  BY NextType
<1> QED
  BY <1>1, InitType, PTL DEF Spec

----------------------------------------------------------------------------
(* What is said of the slot, the grace and the Config.                     *)

SlotInv ==
  /\ VideoFollowsActive
  /\ GraceOnlyWhenFree
  /\ SlotIsTimed
  /\ ConfigInForce
  /\ ConnectedIsApproved
  /\ GraceIsQuiet

\* A step that leaves the slot alone, but may have heard of the viewer in it.
LEMMA SlotUntouched ==
  ASSUME SlotInv, UNCHANGED <<active, video, session, reconnect, approved>>,
         \/ UNCHANGED lastSeen
         \/ lastSeen' = TRUE /\ active # None
  PROVE  SlotInv'
BY DEF SlotInv, VideoFollowsActive, GraceOnlyWhenFree, SlotIsTimed, ConfigInForce,
       ConnectedIsApproved, GraceIsQuiet, session

\* A step that fills the slot from an address that is let in, or fails to.
LEMMA SlotActivated ==
  ASSUME NEW e \in Endpoint, NEW v \in BOOLEAN, NEW j, NEW i, NEW kept \in BOOLEAN,
         Activate(e, v, j, i, kept),
         kept => Ip[e] \in approved' /\ lastSeen' = TRUE /\ reconnect' = None,
         reconnect' # None => Ip[reconnect'.peer] \in approved' /\ lastSeen' = FALSE
  PROVE  SlotInv'
<1>1. /\ active' = (IF kept THEN e ELSE None)
      /\ video' = (IF v THEN active' ELSE None)
      /\ activeVideo' = v /\ jumbo' = j
      /\ config' = [to |-> e, jumbo |-> j, video |-> v]
  BY DEF Activate, ReplacePeer
<1>2. CASE kept
  <2>1. active' = e /\ lastSeen' = TRUE /\ reconnect' = None /\ Ip[e] \in approved'
    BY <1>1, <1>2
  <2> QED
    BY <1>1, <2>1, HostAssumption
       DEF SlotInv, VideoFollowsActive, GraceOnlyWhenFree, SlotIsTimed, ConfigInForce,
           ConnectedIsApproved, GraceIsQuiet
<1>3. CASE ~kept
  BY <1>1, <1>3
     DEF SlotInv, VideoFollowsActive, GraceOnlyWhenFree, SlotIsTimed, ConfigInForce,
         ConnectedIsApproved, GraceIsQuiet
<1> QED
  BY <1>2, <1>3

\* A step that empties the slot and ends the grace.
LEMMA SlotEmptied ==
  ASSUME SlotInv, ReplacePeer(None, FALSE), reconnect' = None
  PROVE  SlotInv'
BY DEF SlotInv, VideoFollowsActive, GraceOnlyWhenFree, SlotIsTimed, ConfigInForce,
       ConnectedIsApproved, GraceIsQuiet, ReplacePeer

LEMMA HelloSlot ==
  ASSUME TypeOK, SlotInv, NEW e \in Endpoint, NEW h \in Hellos(e),
         \/ HelloAgain(e, h) \/ HelloMigrates(e, h) \/ HelloRestores(e, h)
         \/ HelloTrusted(e, h) \/ HelloAsks(e, h)
  PROVE  SlotInv'
<1>1. CASE HelloAgain(e, h)
  <2>1. /\ active = e /\ active' = active /\ lastSeen' = TRUE
        /\ UNCHANGED <<reconnect, approved>>
        /\ config' = [to |-> e, jumbo |-> jumbo', video |-> activeVideo']
    BY <1>1 DEF HelloAgain, ReplacePeer, grace, peers
  <2>2. video' = (IF activeVideo' THEN active' ELSE None)
    <3>1. CASE h.audioOnly /\ activeVideo
      BY <1>1, <3>1 DEF HelloAgain, ReplacePeer
    <3>2. CASE ~(h.audioOnly /\ activeVideo)
      <4>1. UNCHANGED <<active, video, activeVideo>>
        BY <1>1, <3>2 DEF HelloAgain, peers
      <4> QED
        BY <4>1 DEF SlotInv, VideoFollowsActive
    <3> QED
      BY <3>1, <3>2
  <2>3. e # None
    BY HostAssumption
  <2> QED
    BY <2>1, <2>2, <2>3
       DEF SlotInv, VideoFollowsActive, GraceOnlyWhenFree, SlotIsTimed, ConfigInForce,
           ConnectedIsApproved, GraceIsQuiet
<1>2. CASE HelloMigrates(e, h)
  <2> DEFINE v == HostVideo /\ ~h.audioOnly
  <2>1. Activate(e, v, Negotiated(h.jumbo, v), h.viewer, TRUE)
    BY <1>2 DEF HelloMigrates
  <2>2. v \in BOOLEAN
    OBVIOUS
  <2>3. lastSeen' = TRUE /\ reconnect' = None /\ Ip[e] \in approved'
    BY <1>2 DEF HelloMigrates, EndGrace, SameIp, SlotInv, ConnectedIsApproved
  <2> HIDE DEF v
  <2> QED
    BY <2>1, <2>2, <2>3, SlotActivated
<1>3. CASE HelloRestores(e, h)
  <2> DEFINE i == OrElse(h.viewer, reconnect.viewer)
  <2>1. PICK sent \in BOOLEAN :
          /\ Activate(e, reconnect.video, reconnect.jumbo, i, sent)
          /\ TakeGrace(e, i, sent)
    BY <1>3 DEF HelloRestores
  <2>2. reconnect \in Request
    BY <1>3 DEF HelloRestores, CanRestore, TypeOK
  <2>3. reconnect.video \in BOOLEAN /\ UNCHANGED approved
    BY <1>3, <2>2 DEF Request, HelloRestores
  <2>4. Ip[e] \in approved'
    BY <1>3, <2>3 DEF HelloRestores, CanRestore, SameIp, SlotInv, ConnectedIsApproved
  <2> HIDE DEF i
  <2>5. sent => lastSeen' = TRUE /\ reconnect' = None
    BY <2>1 DEF TakeGrace, EndGrace
  <2>6. ~sent => lastSeen' = FALSE /\ reconnect'.peer = e
    BY <2>1, <2>2 DEF TakeGrace, Request
  <2> QED
    BY <2>1, <2>3, <2>4, <2>5, <2>6, SlotActivated
<1>4. CASE HelloTrusted(e, h)
  <2> DEFINE asked == Merged(e, h)
  <2>1. PICK sent \in BOOLEAN :
          Activate(e, asked.video, Negotiated(asked.jumbo, asked.video), h.viewer, sent)
    BY <1>4 DEF HelloTrusted
  <2>2. asked.video \in BOOLEAN
    BY MergedType DEF Request
  <2>3. lastSeen' = TRUE /\ reconnect' = None /\ Ip[e] \in approved'
    BY <1>4 DEF HelloTrusted, EndGrace
  <2> HIDE DEF asked
  <2> QED
    BY <2>1, <2>2, <2>3, SlotActivated
<1>5. CASE HelloAsks(e, h)
  <2>1. UNCHANGED <<active, video, session, reconnect, approved, lastSeen>>
    BY <1>5 DEF HelloAsks, peers, grace
  <2> QED
    BY <2>1, SlotUntouched
<1> QED
  BY <1>1, <1>2, <1>3, <1>4, <1>5

LEMMA ReceiveSlot ==
  ASSUME TypeOK, SlotInv, Receive
  PROVE  SlotInv'
<1>1. ASSUME NEW e \in Endpoint, ReceiveHello(e)
      PROVE  SlotInv'
  <2>1. CASE HelloRefused(e)
    BY <2>1, SlotUntouched DEF HelloRefused, peers, grace
  <2> QED
    BY <1>1, <2>1, HelloSlot DEF ReceiveHello
<1>2. ASSUME NEW e \in Endpoint,
             ReceiveHeartbeat(e) \/ ReceiveEvents(e) \/ ReceiveEventsAck(e)
      PROVE  SlotInv'
  <2>1. /\ UNCHANGED <<active, video, session, reconnect, approved>>
        /\ lastSeen' = TRUE /\ active # None
    BY <1>2, HostAssumption
       DEF ReceiveHeartbeat, ReceiveEvents, ReceiveEventsAck, peers, grace
  <2> QED
    BY <2>1, SlotUntouched
<1>3. ASSUME NEW e \in Endpoint, ReceiveGoodbye(e)
      PROVE  SlotInv'
  <2>1. CASE ReplacePeer(None, FALSE) /\ EndGrace
    BY <2>1, SlotEmptied DEF EndGrace
  <2>2. CASE UNCHANGED <<peers, session, grace, lastSeen>>
    BY <2>2, SlotUntouched DEF peers, grace
  <2>3. CASE reconnect # None /\ EndGrace /\ UNCHANGED <<peers, session, lastSeen>>
    BY <2>3
       DEF EndGrace, peers, session, SlotInv, VideoFollowsActive, GraceOnlyWhenFree,
           SlotIsTimed, ConfigInForce, ConnectedIsApproved, GraceIsQuiet
  <2> QED
    BY <1>3, <2>1, <2>2, <2>3 DEF ReceiveGoodbye
<1>4. CASE ReceiveNothing
  BY <1>4, SlotUntouched DEF ReceiveNothing, peers, grace
<1> QED
  BY <1>1, <1>2, <1>3, <1>4 DEF Receive

LEMMA TimeoutsSlot ==
  ASSUME TypeOK, SlotInv, CheckTimeouts
  PROVE  SlotInv'
<1>1. CASE DropSilentViewer
  <2>1. CASE active = None
    <3>1. reconnect' = None /\ ReplacePeer(None, FALSE)
      BY <1>1, <2>1 DEF DropSilentViewer, SlotInv, GraceIsQuiet
    <3> QED
      BY <3>1, SlotEmptied
  <2>2. CASE active # None
    BY <1>1, <2>2
       DEF DropSilentViewer, GraceOfViewer, ReplacePeer, SlotInv, VideoFollowsActive,
           GraceOnlyWhenFree, SlotIsTimed, ConfigInForce, ConnectedIsApproved, GraceIsQuiet
  <2> QED
    BY <2>1, <2>2
<1>2. CASE ExpireGrace
  BY <1>2
     DEF ExpireGrace, EndGrace, peers, SlotInv, VideoFollowsActive, GraceOnlyWhenFree,
         SlotIsTimed, ConfigInForce, ConnectedIsApproved, GraceIsQuiet
<1>3. CASE UNCHANGED <<peers, session, grace, lastSeen, events>>
  BY <1>3, SlotUntouched DEF peers, grace
<1> QED
  BY <1>1, <1>2, <1>3 DEF CheckTimeouts

LEMMA CommandSlot ==
  ASSUME TypeOK, SlotInv, TakeCommand
  PROVE  SlotInv'
<1>1. PICK e \in Endpoint : TakeAccept(e) \/ TakeReject(e)
  BY DEF TakeCommand
<1>2. CASE UNCHANGED <<peers, session, grace, lastSeen>>
  BY <1>2, SlotUntouched DEF peers, grace
<1>3. CASE TakeAccept(e) /\ pending # None /\ pending.peer = e
  <2>1. PICK sent \in BOOLEAN :
          Activate(e, pending.video, Negotiated(pending.jumbo, pending.video),
                   pending.viewer, sent)
    BY <1>3 DEF TakeAccept
  <2>2. pending.video \in BOOLEAN
    BY <1>3 DEF TypeOK, Request
  <2>3. lastSeen' = TRUE /\ reconnect' = None /\ Ip[e] \in approved'
    BY <1>3 DEF TakeAccept, EndGrace
  <2> QED
    BY <2>1, <2>2, <2>3, SlotActivated
<1> QED
  BY <1>1, <1>2, <1>3 DEF TakeAccept, TakeReject

LEMMA NextSlot ==
  ASSUME TypeOK, SlotInv, [Next]_vars
  PROVE  SlotInv'
<1>1. CASE TakeCommand
  BY <1>1, CommandSlot
<1>2. CASE Receive
  BY <1>2, ReceiveSlot
<1>3. CASE CheckTimeouts
  BY <1>3, TimeoutsSlot
<1>4. CASE \/ StartOver \/ ReceiveInvalid \/ ServeClipboard \/ Farewell \/ User
           \/ GraceElapses \/ UNCHANGED vars
  <2>1. UNCHANGED <<active, video, session, reconnect, approved, lastSeen>>
    BY <1>4
       DEF StartOver, ReceiveInvalid, ServeClipboard, Farewell, User, ShowEvent,
           AcceptPending, RejectPending, ForgetViewer, StopSharing, GraceElapses,
           vars, peers, grace
  <2> QED
    BY <2>1, SlotUntouched
<1> QED
  BY <1>1, <1>2, <1>3, <1>4 DEF Next, Thread

----------------------------------------------------------------------------
(* What is said of the injected input.                                     *)

HeldInv == InputIsReleased /\ HeldByEpoch

LEMMA HeldAcrossReplacement ==
  ASSUME HeldInv, NEW e, NEW v, ReplacePeer(e, v), pc' \notin {"receive", "ended"}
  PROVE  HeldInv'
BY DEF HeldInv, InputIsReleased, HeldByEpoch, ReplacePeer

LEMMA HeldUntouched ==
  ASSUME HeldInv, UNCHANGED <<active, epochMoved, held>>,
         pc' = pc \/ pc' \notin {"receive", "ended"}
  PROVE  HeldInv'
BY DEF HeldInv, InputIsReleased, HeldByEpoch

LEMMA ReceiveHeld ==
  ASSUME HeldInv, Receive
  PROVE  HeldInv'
<1>1. pc = "receive" /\ pc' = "clipboard"
  BY DEF Receive
<1>2. CASE UNCHANGED peers
  BY <1>1, <1>2, HeldUntouched DEF peers
<1>3. CASE \E e \in Endpoint \cup {None}, v \in BOOLEAN : ReplacePeer(e, v)
  BY <1>1, <1>3, HeldAcrossReplacement
<1>4. ASSUME NEW e \in Endpoint, NEW h \in Hellos(e),
             \/ HelloAgain(e, h) \/ HelloMigrates(e, h) \/ HelloRestores(e, h)
             \/ HelloTrusted(e, h) \/ HelloAsks(e, h)
      PROVE  HeldInv'
  <2>1. ASSUME NEW v \in BOOLEAN, NEW j, NEW i, NEW kept \in BOOLEAN,
               Activate(e, v, j, i, kept)
        PROVE  HeldInv'
    BY <1>1, <2>1, HeldAcrossReplacement DEF Activate
  <2>2. CASE HelloAgain(e, h)
    BY <1>2, <1>3, <2>2 DEF HelloAgain
  <2>3. CASE HelloMigrates(e, h)
    BY <2>1, <2>3 DEF HelloMigrates
  <2>4. CASE HelloRestores(e, h)
    <3>1. PICK sent \in BOOLEAN :
            Activate(e, reconnect.video, reconnect.jumbo,
                     OrElse(h.viewer, reconnect.viewer), sent)
      BY <2>4 DEF HelloRestores
    <3>2. ReplacePeer(IF sent THEN e ELSE None, reconnect.video)
      BY <3>1 DEF Activate
    <3> QED
      BY <1>1, <3>2, HeldAcrossReplacement
  <2>5. CASE HelloTrusted(e, h)
    <3> DEFINE asked == Merged(e, h)
    <3>1. PICK sent \in BOOLEAN :
            Activate(e, asked.video, Negotiated(asked.jumbo, asked.video), h.viewer, sent)
      BY <2>5 DEF HelloTrusted
    <3>2. ReplacePeer(IF sent THEN e ELSE None, asked.video)
      BY <3>1 DEF Activate
    <3> QED
      BY <1>1, <3>2, HeldAcrossReplacement
  <2>6. CASE HelloAsks(e, h)
    BY <1>2, <2>6 DEF HelloAsks
  <2> QED
    BY <1>4, <2>2, <2>3, <2>4, <2>5, <2>6
<1>5. ASSUME NEW e \in Endpoint, ReceiveHello(e)
      PROVE  HeldInv'
  BY <1>2, <1>4, <1>5 DEF ReceiveHello, HelloRefused
<1>6. ASSUME NEW e \in Endpoint, ReceiveEvents(e)
      PROVE  HeldInv'
  <2>1. held \notin {"former", "mixed"} /\ UNCHANGED <<active, epochMoved>>
    BY <1>1, <1>6 DEF ReceiveEvents, HeldInv, InputIsReleased
  <2>2. active # None /\ held' \in {"current", held}
    BY <1>6, <2>1, HostAssumption DEF ReceiveEvents
  <2> QED
    BY <1>1, <2>1, <2>2 DEF HeldInv, InputIsReleased, HeldByEpoch
<1>7. ASSUME NEW e \in Endpoint, ReceiveHeartbeat(e) \/ ReceiveEventsAck(e)
      PROVE  HeldInv'
  BY <1>2, <1>7 DEF ReceiveHeartbeat, ReceiveEventsAck
<1>8. ASSUME NEW e \in Endpoint, ReceiveGoodbye(e)
      PROVE  HeldInv'
  BY <1>2, <1>3, <1>8 DEF ReceiveGoodbye
<1>9. CASE ReceiveNothing
  BY <1>2, <1>9 DEF ReceiveNothing
<1> QED
  BY <1>5, <1>6, <1>7, <1>8, <1>9 DEF Receive

LEMMA NextHeld ==
  ASSUME TypeOK, HeldInv, [Next]_vars
  PROVE  HeldInv'
<1>1. CASE TakeCommand
  <2>1. pc' = pc /\ pc = "commands"
    BY <1>1 DEF TakeCommand, TakeAccept, TakeReject
  <2>2. PICK e \in Endpoint : TakeAccept(e) \/ TakeReject(e)
    BY <1>1 DEF TakeCommand
  <2>3. CASE UNCHANGED peers
    BY <2>1, <2>3, HeldUntouched DEF peers
  <2>4. CASE TakeAccept(e) /\ pending # None /\ pending.peer = e
    <3>1. \E sent \in BOOLEAN : ReplacePeer(IF sent THEN e ELSE None, pending.video)
      BY <2>4 DEF TakeAccept, Activate
    <3> QED
      BY <2>1, <3>1, HeldAcrossReplacement
  <2> QED
    BY <2>2, <2>3, <2>4 DEF TakeAccept, TakeReject
<1>2. CASE StartOver
  <2>1. /\ pc' = "receive" /\ epochMoved' = FALSE /\ UNCHANGED active
        /\ held' = (IF epochMoved THEN "nobody" ELSE held)
    BY <1>2 DEF StartOver
  <2> QED
    BY <2>1 DEF HeldInv, InputIsReleased, HeldByEpoch, TypeOK
<1>3. CASE Receive
  BY <1>3, ReceiveHeld
<1>4. CASE CheckTimeouts
  <2>1. pc' \notin {"receive", "ended"}
    BY <1>4 DEF CheckTimeouts
  <2>2. CASE ReplacePeer(None, FALSE)
    BY <2>1, <2>2, HeldAcrossReplacement
  <2>3. CASE UNCHANGED peers
    BY <2>1, <2>3, HeldUntouched DEF peers
  <2> QED
    BY <1>4, <2>2, <2>3 DEF CheckTimeouts, DropSilentViewer, ExpireGrace
<1>5. CASE Farewell
  BY <1>5 DEF Farewell, HeldInv, InputIsReleased, HeldByEpoch
<1>6. CASE ReceiveInvalid \/ ServeClipboard
  <2>1. pc' \notin {"receive", "ended"} /\ UNCHANGED peers
    BY <1>6 DEF ReceiveInvalid, ServeClipboard
  <2> QED
    BY <2>1, HeldUntouched DEF peers
<1>7. CASE User \/ GraceElapses \/ UNCHANGED vars
  <2>1. UNCHANGED <<pc, active, epochMoved, held>>
    BY <1>7
       DEF User, ShowEvent, AcceptPending, RejectPending, ForgetViewer, StopSharing,
           GraceElapses, vars, peers
  <2> QED
    BY <2>1, HeldUntouched
<1> QED
  BY <1>1, <1>2, <1>3, <1>4, <1>5, <1>6, <1>7 DEF Next, Thread

----------------------------------------------------------------------------
(* The end of a grace.                                                     *)

LEMMA NextGraceEnds ==
  ASSUME OnlyGraceEnds, [Next]_vars
  PROVE  OnlyGraceEnds'
<1>1. CASE UNCHANGED <<reconnect, graceOver>> \/ graceOver' = FALSE
  BY <1>1 DEF OnlyGraceEnds
<1>2. CASE TakeCommand
  BY <1>1, <1>2 DEF TakeCommand, TakeAccept, TakeReject, EndGrace, grace
<1>3. CASE Receive
  <2>1. ASSUME NEW e \in Endpoint, ReceiveHello(e)
        PROVE  OnlyGraceEnds'
    BY <1>1, <2>1
       DEF ReceiveHello, HelloAgain, HelloMigrates, HelloRestores, HelloTrusted, HelloAsks,
           HelloRefused, TakeGrace, EndGrace, grace
  <2>2. ASSUME NEW e \in Endpoint, ReceiveGoodbye(e)
        PROVE  OnlyGraceEnds'
    BY <1>1, <2>2 DEF ReceiveGoodbye, EndGrace, grace
  <2> QED
    BY <1>1, <1>3, <2>1, <2>2
       DEF Receive, ReceiveHeartbeat, ReceiveEvents, ReceiveEventsAck, ReceiveNothing, grace
<1>4. CASE CheckTimeouts
  BY <1>1, <1>4 DEF CheckTimeouts, DropSilentViewer, ExpireGrace, EndGrace, grace
<1>5. CASE GraceElapses
  BY <1>5 DEF GraceElapses, OnlyGraceEnds
<1>6. CASE StartOver \/ ReceiveInvalid \/ ServeClipboard \/ Farewell \/ User \/ UNCHANGED vars
  BY <1>1, <1>6
     DEF StartOver, ReceiveInvalid, ServeClipboard, Farewell, User, ShowEvent, AcceptPending,
         RejectPending, ForgetViewer, StopSharing, vars, grace
<1> QED
  BY <1>2, <1>3, <1>4, <1>5, <1>6 DEF Next, Thread

----------------------------------------------------------------------------
(* The theorems.                                                           *)

LEMMA IInvParts == IInv <=> TypeOK /\ SlotInv /\ HeldInv /\ OnlyGraceEnds
BY DEF IInv, SlotInv, HeldInv

LEMMA InitInvariant == Init => IInv
<1>1. Init => SlotInv
  BY DEF Init, SlotInv, VideoFollowsActive, GraceOnlyWhenFree, SlotIsTimed, ConfigInForce,
         ConnectedIsApproved, GraceIsQuiet
<1>2. Init => HeldInv
  BY DEF Init, HeldInv, InputIsReleased, HeldByEpoch
<1>3. Init => OnlyGraceEnds
  BY DEF Init, OnlyGraceEnds
<1> QED
  BY <1>1, <1>2, <1>3, InitType, IInvParts

LEMMA NextInvariant == IInv /\ [Next]_vars => IInv'
<1>1. SUFFICES ASSUME TypeOK, SlotInv, HeldInv, OnlyGraceEnds, [Next]_vars
               PROVE  TypeOK' /\ SlotInv' /\ HeldInv' /\ OnlyGraceEnds'
  BY IInvParts DEF IInv, SlotInv, HeldInv
<1> QED
  BY <1>1, NextType, NextSlot, NextHeld, NextGraceEnds

LEMMA HostInvariant == Spec => []IInv
BY InitInvariant, NextInvariant, PTL DEF Spec

\* Video goes to the connected viewer exactly when its session has video: no
\* migration, downgrade, restore or failed send parts the two.
THEOREM HostVideoFollowsActive == Spec => []VideoFollowsActive
<1>1. IInv => VideoFollowsActive
  BY DEF IInv
<1> QED
  BY <1>1, HostInvariant, PTL

\* A grace runs only while the host is free.
THEOREM HostGraceOnlyWhenFree == Spec => []GraceOnlyWhenFree
<1>1. IInv => GraceOnlyWhenFree
  BY DEF IInv
<1> QED
  BY <1>1, HostInvariant, PTL

\* No connected viewer can hold the slot in silence for ever: its clock runs.
THEOREM HostSlotIsTimed == Spec => []SlotIsTimed
<1>1. IInv => SlotIsTimed
  BY DEF IInv
<1> QED
  BY <1>1, HostInvariant, PTL

\* The datagram size and media in force are the ones the viewer was last told.
THEOREM HostConfigInForce == Spec => []ConfigInForce
<1>1. IInv => ConfigInForce
  BY DEF IInv
<1> QED
  BY <1>1, HostInvariant, PTL

\* Whoever is connected, or may return without asking, was let in and has
\* neither left nor run out of grace.
THEOREM HostConnectedIsApproved == Spec => []ConnectedIsApproved
<1>1. IInv => ConnectedIsApproved
  BY DEF IInv
<1> QED
  BY <1>1, HostInvariant, PTL

\* What one viewer pressed is released before another's input is injected, and
\* when the thread ends.
THEOREM HostInputIsReleased == Spec => []InputIsReleased
<1>1. IInv => InputIsReleased
  BY DEF IInv
<1> QED
  BY <1>1, HostInvariant, PTL

----------------------------------------------------------------------------
(* The host implements a slot with a lease: every step of the thread and of *)
(* the user is a step of HostSlot, or leaves its variables alone.           *)

SlotStep == Slot!Next \/ UNCHANGED Slot!vars

LEMMA PeerOfRequest ==
  /\ PeerOf(None) = None
  /\ \A r \in Request : r # None /\ PeerOf(r) = r.peer /\ r.peer \in Endpoint
BY NoneIsNoRequest DEF PeerOf, Request

LEMMA DeviceIsSome == None \notin Viewer
BY HostAssumption DEF Viewer

\* A grace of an address is a claim of it.
LEMMA GraceIsClaim ==
  ASSUME TypeOK, NEW e \in Endpoint
  PROVE  CanRestore(e) <=> Slot!MayReturn(e)
<1>1. CASE reconnect = None
  BY <1>1, PeerOfRequest DEF CanRestore, Slot!MayReturn
<1>2. CASE reconnect # None
  <2>1. reconnect \in Request
    BY <1>2 DEF TypeOK
  <2>2. PeerOf(reconnect) = reconnect.peer /\ reconnect.peer \in Endpoint
    BY <2>1, PeerOfRequest
  <2>3. reconnect.peer # None
    BY <2>2, HostAssumption
  <2> QED
    BY <1>2, <2>2, <2>3 DEF CanRestore, SameIp, Slot!MayReturn
<1> QED
  BY <1>1, <1>2

LEMMA LeaseUntouched ==
  ASSUME UNCHANGED <<active, reconnect, graceOver, pending, trusted>>
  PROVE  SlotStep
BY DEF SlotStep, Slot!vars

LEMMA EndedGrace ==
  ASSUME EndGrace
  PROVE  Slot!NoClaim
BY PeerOfRequest DEF EndGrace, Slot!NoClaim, Slot!Claim

LEMMA AgainStep ==
  ASSUME NEW e \in Endpoint, NEW h, HelloAgain(e, h), UNCHANGED trusted
  PROVE  SlotStep
<1>1. active' = active
  BY DEF HelloAgain, ReplacePeer, peers
<1> QED
  BY <1>1, LeaseUntouched DEF HelloAgain, grace

LEMMA MigratesStep ==
  ASSUME SlotInv, OnlyGraceEnds, TypeOK, NEW e \in Endpoint, NEW h,
         HelloMigrates(e, h), UNCHANGED trusted
  PROVE  SlotStep
<1>1. active # None /\ Ip[e] = Ip[active]
  BY DEF HelloMigrates, SameIp
<1>2. UNCHANGED <<reconnect, graceOver, pending>>
  <2>1. reconnect = None /\ graceOver = FALSE
    BY <1>1 DEF SlotInv, GraceOnlyWhenFree, OnlyGraceEnds, TypeOK
  <2> QED
    BY <2>1 DEF HelloMigrates, EndGrace
<1>3. active' = e
  BY DEF HelloMigrates, Activate, ReplacePeer
<1>4. Slot!Move(e)
  BY <1>1, <1>2, <1>3 DEF Slot!Move
<1> QED
  BY <1>4 DEF SlotStep, Slot!Next

LEMMA RestoresStep ==
  ASSUME TypeOK, NEW e \in Endpoint, NEW h \in Hellos(e), HelloRestores(e, h),
         UNCHANGED trusted
  PROVE  SlotStep
<1> DEFINE i == OrElse(h.viewer, reconnect.viewer)
<1>1. PICK sent \in BOOLEAN :
        /\ Activate(e, reconnect.video, reconnect.jumbo, i, sent)
        /\ TakeGrace(e, i, sent)
  BY DEF HelloRestores
<1>2. active = None /\ Slot!MayReturn(e) /\ UNCHANGED pending
  BY GraceIsClaim DEF HelloRestores
<1>3. reconnect \in Request
  BY DEF HelloRestores, CanRestore, TypeOK
<1>4. i \in Viewer \cup {None}
  BY <1>3, HelloType DEF OrElse, Request
<1> HIDE DEF i
<1>5. CASE sent
  <2>1. active' = e /\ EndGrace
    BY <1>1, <1>5 DEF Activate, ReplacePeer, TakeGrace
  <2> QED
    BY <1>2, <2>1, EndedGrace DEF SlotStep, Slot!Next, Slot!Return
<1>6. CASE ~sent
  <2>1. active' = active /\ graceOver' = FALSE
    BY <1>1, <1>2, <1>6 DEF Activate, ReplacePeer, TakeGrace
  <2>2. reconnect' \in Request /\ reconnect'.peer = e
    BY <1>1, <1>3, <1>4, <1>6 DEF TakeGrace, Request
  <2>3. Slot!Claim(e)
    BY <2>1, <2>2, PeerOfRequest DEF Slot!Claim
  <2> QED
    BY <1>2, <2>1, <2>3 DEF SlotStep, Slot!Next, Slot!Return
<1> QED
  BY <1>5, <1>6

\* The slot is given to e, by an answer or by trust.
LEMMA Given ==
  ASSUME NEW e \in Endpoint, NEW v, NEW j, NEW i, NEW kept \in BOOLEAN,
         Activate(e, v, j, i, kept), EndGrace, pending' = None, UNCHANGED trusted
  PROVE  Slot!Give(e)
<1>1. active' \in {e, None}
  BY DEF Activate, ReplacePeer
<1> QED
  BY <1>1, EndedGrace, PeerOfRequest DEF Slot!Give

LEMMA TrustedStep ==
  ASSUME TypeOK, NEW e \in Endpoint, NEW h \in Hellos(e), HelloTrusted(e, h),
         UNCHANGED trusted
  PROVE  SlotStep
<1>1. active = None /\ ~Slot!MayReturn(e)
  BY GraceIsClaim DEF HelloTrusted
<1>2. Device[e] \in trusted
  <2>1. h.viewer \in trusted /\ h.viewer # None
    BY DeviceIsSome DEF HelloTrusted, TypeOK
  <2>2. h.viewer \in {Device[e], None}
    BY DEF Hellos
  <2> QED
    BY <2>1, <2>2
<1>3. Slot!Give(e)
  BY Given DEF HelloTrusted
<1> QED
  BY <1>1, <1>2, <1>3 DEF SlotStep, Slot!Next, Slot!AdmitTrusted

LEMMA AsksStep ==
  ASSUME TypeOK, NEW e \in Endpoint, NEW h \in Hellos(e), HelloAsks(e, h),
         UNCHANGED trusted
  PROVE  SlotStep
<1>1. /\ active = None /\ ~Slot!MayReturn(e)
      /\ UNCHANGED <<active, reconnect, graceOver>>
  BY GraceIsClaim DEF HelloAsks, peers, grace
<1>2. pending' = Merged(e, h)
  BY DEF HelloAsks
<1>3. PeerOf(pending') = e
  BY <1>2, MergedType, PeerOfRequest DEF Merged
<1> QED
  BY <1>1, <1>3 DEF SlotStep, Slot!Next, Slot!Ask

LEMMA GoodbyeStep ==
  ASSUME SlotInv, OnlyGraceEnds, TypeOK, NEW e \in Endpoint, ReceiveGoodbye(e),
         UNCHANGED trusted
  PROVE  SlotStep
<1>1. CASE active = e /\ ReplacePeer(None, FALSE) /\ EndGrace /\ UNCHANGED pending
  <2>1. active # None
    BY <1>1, HostAssumption
  <2>2. reconnect = None /\ graceOver = FALSE
    BY <2>1 DEF SlotInv, GraceOnlyWhenFree, OnlyGraceEnds, TypeOK
  <2>3. active' = None /\ UNCHANGED <<reconnect, graceOver, pending>>
    BY <1>1, <2>2 DEF ReplacePeer, EndGrace
  <2> QED
    BY <2>1, <2>2, <2>3, PeerOfRequest DEF SlotStep, Slot!Next, Slot!Leave
<1>2. CASE pending # None /\ pending.peer = e /\ pending' = None /\ UNCHANGED <<peers, grace>>
  <2>1. PeerOf(pending) # None
    BY <1>2, PeerOfRequest, HostAssumption DEF TypeOK
  <2> QED
    BY <1>2, <2>1, PeerOfRequest DEF SlotStep, Slot!Next, Slot!Withdraw, peers, grace
<1>3. CASE reconnect # None /\ EndGrace /\ UNCHANGED <<peers, pending>>
  <2>1. PeerOf(reconnect) # None
    BY <1>3, PeerOfRequest, HostAssumption DEF TypeOK
  <2> QED
    BY <1>3, <2>1, EndedGrace DEF SlotStep, Slot!Next, Slot!GiveUpClaim, peers
<1>4. CASE UNCHANGED <<peers, grace, pending>>
  BY <1>4, LeaseUntouched DEF peers, grace
<1> QED
  BY <1>1, <1>2, <1>3, <1>4 DEF ReceiveGoodbye

LEMMA ReceiveStep ==
  ASSUME SlotInv, OnlyGraceEnds, TypeOK, Receive
  PROVE  SlotStep
<1>1. UNCHANGED trusted
  BY DEF Receive, screen
<1>2. CASE UNCHANGED <<active, grace, pending>>
  BY <1>1, <1>2, LeaseUntouched DEF grace
<1>3. ASSUME NEW e \in Endpoint, ReceiveHello(e)
      PROVE  SlotStep
  <2>1. CASE HelloRefused(e)
    BY <1>2, <2>1 DEF HelloRefused, peers
  <2>2. ASSUME NEW h \in Hellos(e),
               \/ HelloAgain(e, h) \/ HelloMigrates(e, h) \/ HelloRestores(e, h)
               \/ HelloTrusted(e, h) \/ HelloAsks(e, h)
        PROVE  SlotStep
    BY <1>1, <2>2, AgainStep, MigratesStep, RestoresStep, TrustedStep, AsksStep, Zenon
  <2> QED
    BY <1>3, <2>1, <2>2 DEF ReceiveHello
<1>4. ASSUME NEW e \in Endpoint, ReceiveGoodbye(e)
      PROVE  SlotStep
  BY <1>1, <1>4, GoodbyeStep
<1> QED
  BY <1>2, <1>3, <1>4
     DEF Receive, ReceiveHeartbeat, ReceiveEvents, ReceiveEventsAck, ReceiveNothing, peers

LEMMA CommandStep ==
  ASSUME TypeOK, TakeCommand
  PROVE  SlotStep
<1>1. PICK e \in Endpoint : TakeAccept(e) \/ TakeReject(e)
  BY DEF TakeCommand
<1>2. UNCHANGED trusted
  BY <1>1 DEF TakeAccept, TakeReject
<1>3. CASE UNCHANGED <<peers, grace, pending>>
  BY <1>2, <1>3, LeaseUntouched DEF peers, grace
<1>4. CASE pending # None /\ pending.peer = e
  <2>1. PeerOf(pending) = e /\ e # None
    BY <1>4, PeerOfRequest, HostAssumption DEF TypeOK
  <2>2. CASE TakeAccept(e)
    <3>1. Slot!Give(e)
      BY <1>2, <1>4, <2>2, Given DEF TakeAccept
    <3> QED
      BY <2>1, <3>1 DEF SlotStep, Slot!Next, Slot!Admit
  <2>3. CASE TakeReject(e)
    <3>1. pending' = None /\ UNCHANGED <<active, reconnect, graceOver, trusted>>
      BY <1>4, <2>3 DEF TakeReject, peers, grace
    <3> QED
      BY <2>1, <3>1, PeerOfRequest DEF SlotStep, Slot!Next, Slot!Withdraw
  <2> QED
    BY <1>1, <2>2, <2>3
<1> QED
  BY <1>1, <1>3, <1>4 DEF TakeAccept, TakeReject

LEMMA TimeoutsStep ==
  ASSUME SlotInv, TypeOK, CheckTimeouts
  PROVE  SlotStep
<1>1. UNCHANGED <<trusted, pending>>
  BY DEF CheckTimeouts, screen
<1>2. CASE DropSilentViewer
  <2>1. CASE active = None
    BY <1>1, <1>2, <2>1, LeaseUntouched DEF DropSilentViewer, ReplacePeer
  <2>2. CASE active # None
    <3>1. active' = None /\ reconnect' = GraceOfViewer /\ graceOver' = FALSE
      BY <1>2, <2>2 DEF DropSilentViewer, ReplacePeer
    <3>2. reconnect' \in Request /\ reconnect'.peer = active
      BY <2>2, <3>1 DEF GraceOfViewer, Request, TypeOK
    <3>3. Slot!Claim(active)
      BY <3>1, <3>2, PeerOfRequest DEF Slot!Claim
    <3>4. PeerOf(reconnect) = None
      BY <2>2, PeerOfRequest DEF SlotInv, GraceOnlyWhenFree
    <3> QED
      BY <1>1, <2>2, <3>1, <3>3, <3>4 DEF SlotStep, Slot!Next, Slot!FallSilent
  <2> QED
    BY <2>1, <2>2
<1>3. CASE ExpireGrace
  <2>1. EndGrace /\ UNCHANGED active /\ reconnect # None
    BY <1>3 DEF ExpireGrace, peers
  <2>2. PeerOf(reconnect) # None
    BY <2>1, PeerOfRequest, HostAssumption DEF TypeOK
  <2> QED
    BY <1>1, <2>1, <2>2, EndedGrace DEF SlotStep, Slot!Next, Slot!GiveUpClaim
<1>4. CASE UNCHANGED <<peers, grace>>
  BY <1>1, <1>4, LeaseUntouched DEF peers, grace
<1> QED
  BY <1>2, <1>3, <1>4 DEF CheckTimeouts

LEMMA UserStep ==
  ASSUME TypeOK, User
  PROVE  SlotStep
<1>1. UNCHANGED <<active, reconnect, graceOver, pending>>
  BY DEF User, ShowEvent, AcceptPending, RejectPending, ForgetViewer, StopSharing, peers, grace
<1>2. CASE UNCHANGED trusted
  BY <1>1, <1>2, LeaseUntouched
<1>3. CASE AcceptPending
  <2>1. shown.viewer \in Viewer \cup {None}
    BY <1>3 DEF AcceptPending, TypeOK, Shown
  <2>2. UNCHANGED trusted \/ \E e \in Endpoint : trusted' = trusted \cup {Device[e]}
    BY <1>3, <2>1 DEF AcceptPending, Viewer
  <2>3. CASE \E e \in Endpoint : trusted' = trusted \cup {Device[e]}
    BY <1>1, <2>3 DEF SlotStep, Slot!Next, Slot!Trust
  <2> QED
    BY <1>2, <2>2, <2>3
<1>4. CASE ForgetViewer
  BY <1>1, <1>4 DEF ForgetViewer, SlotStep, Slot!Next, Slot!Distrust
<1> QED
  BY <1>2, <1>3, <1>4 DEF User, ShowEvent, RejectPending, StopSharing

LEMMA ElapsesStep ==
  ASSUME TypeOK, GraceElapses
  PROVE  SlotStep
<1>1. PeerOf(reconnect) # None
  BY PeerOfRequest, HostAssumption DEF GraceElapses, TypeOK
<1>2. ~graceOver /\ graceOver' = TRUE /\ UNCHANGED <<active, reconnect, pending, trusted>>
  BY DEF GraceElapses, peers, screen
<1> QED
  BY <1>1, <1>2 DEF SlotStep, Slot!Next, Slot!Lapse

LEMMA NextStep ==
  ASSUME IInv, [Next]_vars
  PROVE  SlotStep
<1>1. TypeOK /\ SlotInv /\ OnlyGraceEnds
  BY IInvParts DEF IInv
<1>2. CASE StartOver \/ ReceiveInvalid \/ ServeClipboard \/ Farewell \/ UNCHANGED vars
  BY <1>2, LeaseUntouched
     DEF StartOver, ReceiveInvalid, ServeClipboard, Farewell, vars, screen, peers, grace
<1> QED
  BY <1>1, <1>2, TimeoutsStep, ReceiveStep, CommandStep, UserStep, ElapsesStep, Zenon
     DEF Next, Thread

\* The host gives, keeps and takes back its slot as a slot with a lease does: a
\* viewer is in only by an answer to its own request, by trust, or within the one
\* grace its address has, whatever datagrams repeat, overtake or get lost.
THEOREM HostSlotIsLeased == Spec => SlotIsLeased
<1>1. Init => Slot!Init
  BY PeerOfRequest DEF Init, Slot!Init
<1>2. IInv /\ [Next]_vars => [Slot!Next]_Slot!vars
  BY NextStep DEF SlotStep
<1> QED
  BY <1>1, <1>2, HostInvariant, PTL DEF Spec, SlotIsLeased, Slot!Spec

=============================================================================
