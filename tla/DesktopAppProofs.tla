--------------------------- MODULE DesktopAppProofs ---------------------------
(* Proofs about DesktopApp, for any viewers, names, addresses and bounds:  *)
(* its types, that the trusted viewers are the user's choice, that a host  *)
(* is saved once, and that the viewer shown is the one that is served.     *)
EXTENDS DesktopApp, SequenceTheorems, TLAPS

(***************************************************************************)
(* Types.                                                                  *)
(***************************************************************************)

\* What a step leaves alone keeps its type.
LEMMA Frames ==
  ASSUME TypeOK, UNCHANGED bounds
  PROVE  /\ UNCHANGED <<list, file, writing>> => FileTypes'
         /\ UNCHANGED sessionVars => SessionTypes'
         /\ UNCHANGED <<ui, form>> => WindowTypes'
         /\ UNCHANGED crashes => crashes' \in 0..bounds'.crashes
         /\ bounds' \in Bounds
  BY DEF TypeOK, FileTypes, SessionTypes, WindowTypes, sessionVars, Entry, Hosting

\* The window and its buttons are the only ones to write the lists.
LEMMA PersistTypes ==
  ASSUME TypeOK, UNCHANGED bounds, NEW newList \in SUBSET Entry, Persist(newList)
  PROVE  FileTypes'
  BY DEF TypeOK, FileTypes, Entry, Hosting, Persist

\* The identities are Viewers.
LEMMA IdTypes == TypeOK => \A p \in Peer : Id(p) \in Viewer
  BY BoundsAssumption DEF TypeOK, Id

\* A Hello carries nobody's identity but the one of its machine.
LEMMA HelloSays == TypeOK => \A p \in Peer : bounds.says[p] \subseteq {None, Id(p)}
  BY BoundsAssumption DEF TypeOK, Id

\* What a Hello may do to the host's thread: learn who the viewer is, follow it
\* to another port, let it return, let a trusted one in, or ask.
Learns(p, id) ==
  /\ thread.active = p /\ thread.viewer = None /\ id # None
  /\ thread' = [thread EXCEPT !.viewer = id]
  /\ Emits(<<Event("identity", p, id)>>)

Migrates(p, id, sent) ==
  /\ thread.active # None /\ SameMachine(thread.active, p)
  /\ thread' = [thread EXCEPT !.active = p, !.viewer = id, !.grace = None,
                              !.graceViewer = None, !.untold = ~sent]
  /\ Tells(sent, p, id)

Returns(p, viewer, sent) ==
  /\ thread.active = None /\ Returning(p)
  /\ thread' = IF sent
               THEN [thread EXCEPT !.active = p, !.viewer = viewer, !.grace = None,
                                   !.graceViewer = None, !.untold = FALSE]
               ELSE [thread EXCEPT !.grace = p, !.graceViewer = viewer]
  /\ Tells(sent, p, viewer)

Comes(p, viewer, sent) ==
  thread' = Taken(p, viewer, sent) /\ Tells(sent, p, viewer)

Asks(p, viewer) ==
  /\ thread' = [thread EXCEPT !.pending = p, !.pendingViewer = viewer]
  /\ Emits(<<Event("pending", p, viewer)>>)

\* The identity of a request that is renewed.
Renewed(p, id) == IF thread.pending = p THEN Or(id, thread.pendingViewer) ELSE id

LEMMA HelloCases ==
  ASSUME TypeOK, NEW p \in Peer, ThreadHello(p)
  PROVE  \E id \in {None, Id(p)}, sent \in BOOLEAN :
           \/ Learns(p, id) \/ Migrates(p, id, sent)
           \/ Returns(p, Or(id, thread.graceViewer), sent)
           \/ Comes(p, id, sent) \/ Asks(p, Renewed(p, id))
<1>1. bounds.says[p] \subseteq {None, Id(p)}
  BY HelloSays
<1>2. PICK id \in bounds.says[p], sent \in BOOLEAN :
        \/ Learns(p, id) \/ Migrates(p, id, sent)
        \/ Returns(p, Or(id, thread.graceViewer), sent)
        \/ Comes(p, id, sent) \/ Asks(p, Renewed(p, id))
  BY DEF ThreadHello, Learns, Migrates, Returns, Comes, Asks, Renewed
<1>3. QED
  BY <1>1, <1>2

LEMMA GoodbyeCases ==
  ASSUME NEW p \in Peer, ThreadGoodbye(p)
  PROVE  \/ /\ thread' = [thread EXCEPT !.active = None, !.viewer = None, !.grace = None,
                                         !.graceViewer = None, !.untold = FALSE]
            /\ Emits(<<Event("left", p, None)>>)
         \/ /\ thread' = [thread EXCEPT !.pending = None, !.pendingViewer = None]
            /\ Emits(<<Event("withdrawn", p, None)>>)
         \/ /\ thread' = [thread EXCEPT !.grace = None, !.graceViewer = None]
            /\ UNCHANGED events
  BY DEF ThreadGoodbye

LEMMA CommandCases ==
  ASSUME TypeOK, ThreadCommand
  PROVE  \/ \E p \in Peer, sent \in BOOLEAN :
              thread.pending = p /\ Comes(p, thread.pendingViewer, sent)
         \/ /\ thread' = [thread EXCEPT !.pending = None, !.pendingViewer = None]
            /\ UNCHANGED events
         \/ UNCHANGED <<thread, events>>
<1> DEFINE command == Head(commands)
<1>1. command.peer \in Peer
  <2>1. commands \in Seq([kind : {"accept", "reject"}, peer : Peer]) /\ commands # <<>>
    BY DEF ThreadCommand, TypeOK, SessionTypes
  <2>2. command \in [kind : {"accept", "reject"}, peer : Peer]
    BY <2>1, HeadTailProperties
  <2>3. QED
    BY <2>2
<1>2. \/ \E sent \in BOOLEAN :
           thread.pending = command.peer /\ Comes(command.peer, thread.pendingViewer, sent)
      \/ /\ thread' = [thread EXCEPT !.pending = None, !.pendingViewer = None]
         /\ UNCHANGED events
      \/ UNCHANGED <<thread, events>>
  BY DEF ThreadCommand, Comes
<1> HIDE DEF command
<1>3. QED
  BY <1>1, <1>2

\* Nothing is left of a session that was stopped.
LEMMA StoppedTypes ==
  ASSUME TypeOK, UNCHANGED <<bounds, form>>, Stopped
  PROVE  SessionTypes' /\ WindowTypes'
  BY DEF TypeOK, SessionTypes, WindowTypes, Stopped, NoThread, NoUi, PeerOrNone, ViewerOrNone

EventSet == [kind : EventKind, peer : PeerOrNone, viewer : ViewerOrNone]

LEMMA EventTypes ==
  ASSUME NEW kind \in EventKind, NEW peer \in PeerOrNone, NEW viewer \in ViewerOrNone
  PROVE  Event(kind, peer, viewer) \in EventSet
  BY DEF EventSet, Event

LEMMA ArrivalTypes ==
  ASSUME NEW peer \in Peer, NEW viewer \in ViewerOrNone
  PROVE  Arrival(peer, viewer) \in Seq(EventSet)
<1>1. Event("connected", peer, None) \in EventSet /\ Event("identity", peer, viewer) \in EventSet
  BY EventTypes DEF PeerOrNone, ViewerOrNone, EventKind
<1>2. QED
  BY <1>1 DEF Arrival

ThreadSet == [active : PeerOrNone, viewer : ViewerOrNone, pending : PeerOrNone,
              pendingViewer : ViewerOrNone, grace : PeerOrNone,
              graceViewer : ViewerOrNone, untold : BOOLEAN]

LEMMA ThreadIsTyped == TypeOK => thread \in ThreadSet
  BY DEF TypeOK, SessionTypes, ThreadSet

LEMMA TakenTypes ==
  ASSUME TypeOK, NEW p \in Peer, NEW viewer \in ViewerOrNone, NEW sent \in BOOLEAN
  PROVE  Taken(p, viewer, sent) \in ThreadSet
<1> DEFINE untold == ~sent /\ (thread.untold \/ thread.active # None)
<1>1. untold \in BOOLEAN
  BY Zenon
<1>2. Taken(p, viewer, sent) =
        [NoThread EXCEPT !.active = IF sent THEN p ELSE None,
                         !.viewer = IF sent THEN viewer ELSE None, !.untold = untold]
  BY DEF Taken
<1> HIDE DEF untold
<1>3. QED
  BY <1>1, <1>2 DEF NoThread, ThreadSet, PeerOrNone, ViewerOrNone

\* A step of the host's network thread.
LEMMA ThreadTypes ==
  ASSUME TypeOK, HostThread
  PROVE  SessionTypes' /\ UNCHANGED <<bounds, crashes, fileVars, ui, form>>
<1>1. threadUnchanged
  BY DEF HostThread, ThreadHello, ThreadGoodbye, ThreadTimeout, ThreadCommand
<1>2. ASSUME NEW new \in Seq(EventSet), Emits(new)
      PROVE  events' \in Seq(EventSet) /\ due \in 0..Len(events')
  <2>1. events \in Seq(EventSet) /\ due \in 0..Len(events)
    BY DEF TypeOK, SessionTypes, EventSet
  <2>2. events' = events \o new
    BY <1>2 DEF Emits
  <2>3. events' \in Seq(EventSet) /\ Len(events') = Len(events) + Len(new) /\ Len(new) \in Nat
    BY <2>1, <2>2
  <2>4. QED
    BY <2>1, <2>3
<1>3. thread \in ThreadSet /\ events \in Seq(EventSet) /\ due \in 0..Len(events)
  BY ThreadIsTyped DEF TypeOK, SessionTypes, EventSet, ThreadSet
<1>told. ASSUME NEW p \in Peer, NEW viewer \in ViewerOrNone, NEW sent \in BOOLEAN,
             Tells(sent, p, viewer)
      PROVE  events' \in Seq(EventSet) /\ due \in 0..Len(events')
  BY <1>2, <1>3, <1>told, ArrivalTypes DEF Tells
<1>hello. ASSUME NEW p \in Peer, ThreadHello(p)
      PROVE  SessionTypes'
  <2>1. PICK id \in {None, Id(p)}, sent \in BOOLEAN :
          \/ Learns(p, id) \/ Migrates(p, id, sent)
          \/ Returns(p, Or(id, thread.graceViewer), sent)
          \/ Comes(p, id, sent) \/ Asks(p, Renewed(p, id))
    BY <1>hello, HelloCases
  <2>2. id \in ViewerOrNone
    BY IdTypes DEF ViewerOrNone
  <2>3. ASSUME NEW kind \in EventKind, NEW viewer \in ViewerOrNone,
               Emits(<<Event(kind, p, viewer)>>)
        PROVE  events' \in Seq(EventSet) /\ due \in 0..Len(events')
    <3>1. <<Event(kind, p, viewer)>> \in Seq(EventSet)
      BY EventTypes DEF PeerOrNone
    <3>2. QED
      BY <2>3, <3>1, <1>2
  <2>4. thread' \in ThreadSet /\ events' \in Seq(EventSet) /\ due \in 0..Len(events')
    <3>1. CASE Learns(p, id)
      <4>1. Emits(<<Event("identity", p, id)>>) /\ "identity" \in EventKind
        BY <3>1 DEF Learns, EventKind
      <4>2. thread' \in ThreadSet
        BY <3>1, <2>2, <1>3 DEF Learns, ThreadSet
      <4>3. QED
        BY <4>1, <4>2, <2>2, <2>3
    <3>2. CASE Migrates(p, id, sent)
      <4>1. thread' \in ThreadSet
        <5> DEFINE untold == ~sent
        <5>1. untold \in BOOLEAN
          BY Zenon
        <5>2. thread' = [thread EXCEPT !.active = p, !.viewer = id, !.grace = None,
                                       !.graceViewer = None, !.untold = untold]
          BY <3>2 DEF Migrates
        <5> HIDE DEF untold
        <5>3. QED
          BY <5>1, <5>2, <2>2, <1>3 DEF ThreadSet, PeerOrNone, ViewerOrNone
      <4>2. QED
        BY <3>2, <4>1, <2>2, <1>told DEF Migrates
    <3>3. CASE Returns(p, Or(id, thread.graceViewer), sent)
      <4> DEFINE viewer == Or(id, thread.graceViewer)
      <4>1. viewer \in ViewerOrNone
        BY <2>2, <1>3 DEF Or, ThreadSet
      <4> HIDE DEF viewer
      <4>2. CASE sent
        <5>1. thread' = [thread EXCEPT !.active = p, !.viewer = viewer, !.grace = None,
                                       !.graceViewer = None, !.untold = FALSE]
          BY <3>3, <4>2 DEF Returns, viewer
        <5>2. thread' \in ThreadSet
          BY <4>1, <5>1, <1>3 DEF ThreadSet, PeerOrNone, ViewerOrNone
        <5>3. QED
          BY <3>3, <4>1, <5>2, <1>told DEF Returns, viewer
      <4>3. CASE ~sent
        <5>1. thread' = [thread EXCEPT !.grace = p, !.graceViewer = viewer]
          BY <3>3, <4>3 DEF Returns, viewer
        <5>2. thread' \in ThreadSet
          BY <4>1, <5>1, <1>3 DEF ThreadSet, PeerOrNone
        <5>3. QED
          BY <3>3, <4>1, <5>2, <1>told DEF Returns, viewer
      <4>4. QED
        BY <4>2, <4>3
    <3>4. CASE Comes(p, id, sent)
      <4>1. thread' \in ThreadSet
        BY <3>4, <2>2, TakenTypes DEF Comes
      <4>2. QED
        BY <3>4, <4>1, <2>2, <1>told DEF Comes
    <3>5. CASE Asks(p, Renewed(p, id))
      <4> DEFINE viewer == Renewed(p, id)
      <4>1. viewer \in ViewerOrNone
        BY <2>2, <1>3 DEF Or, Renewed, ThreadSet
      <4> HIDE DEF viewer
      <4>2. thread' \in ThreadSet
        BY <3>5, <4>1, <1>3 DEF Asks, ThreadSet, PeerOrNone, viewer
      <4>3. Emits(<<Event("pending", p, viewer)>>) /\ "pending" \in EventKind
        BY <3>5 DEF Asks, viewer, EventKind
      <4>4. QED
        BY <4>1, <4>2, <4>3, <2>3
    <3>6. QED
      BY <2>1, <3>1, <3>2, <3>3, <3>4, <3>5
  <2>5. UNCHANGED <<commands, session, shutdown, due>>
    BY <1>hello DEF ThreadHello, threadUnchanged
  <2>6. QED
    BY <2>4, <2>5 DEF TypeOK, SessionTypes, EventSet, ThreadSet
<1>5. ASSUME NEW p \in Peer, ThreadGoodbye(p)
      PROVE  SessionTypes'
  <2>1. thread' \in ThreadSet
    BY <1>5, <1>3 DEF ThreadGoodbye, ThreadSet, PeerOrNone, ViewerOrNone
  <2>2. \/ UNCHANGED events
        \/ Emits(<<Event("left", p, None)>>)
        \/ Emits(<<Event("withdrawn", p, None)>>)
    BY <1>5 DEF ThreadGoodbye
  <2>3. /\ <<Event("left", p, None)>> \in Seq(EventSet)
        /\ <<Event("withdrawn", p, None)>> \in Seq(EventSet)
    BY EventTypes DEF PeerOrNone, ViewerOrNone, EventKind
  <2>4. events' \in Seq(EventSet) /\ due \in 0..Len(events')
    BY <2>2, <2>3, <1>2, <1>3
  <2>5. UNCHANGED <<commands, session, shutdown, due>>
    BY <1>5 DEF ThreadGoodbye, threadUnchanged
  <2>6. QED
    BY <2>1, <2>4, <2>5 DEF TypeOK, SessionTypes, EventSet, ThreadSet
<1>6. ASSUME ThreadTimeout
      PROVE  SessionTypes'
  <2>1. thread' \in ThreadSet
    BY <1>6, <1>3 DEF ThreadTimeout, ThreadSet, PeerOrNone, ViewerOrNone
  <2>2. UNCHANGED events \/ Emits(<<Event("disconnected", thread.active, None)>>)
    BY <1>6 DEF ThreadTimeout
  <2>3. <<Event("disconnected", thread.active, None)>> \in Seq(EventSet)
    BY EventTypes, <1>3 DEF ThreadSet, ViewerOrNone, EventKind
  <2>4. events' \in Seq(EventSet) /\ due \in 0..Len(events')
    BY <2>2, <2>3, <1>2, <1>3
  <2>5. UNCHANGED <<commands, session, shutdown, due>>
    BY <1>6 DEF ThreadTimeout, threadUnchanged
  <2>6. QED
    BY <2>1, <2>4, <2>5 DEF TypeOK, SessionTypes, EventSet, ThreadSet
<1>7. ASSUME ThreadCommand
      PROVE  SessionTypes'
  <2>1. /\ commands \in Seq([kind : {"accept", "reject"}, peer : Peer]) /\ commands # <<>>
        /\ commands' = Tail(commands)
    BY <1>7 DEF ThreadCommand, TypeOK, SessionTypes
  <2>2. commands' \in Seq([kind : {"accept", "reject"}, peer : Peer])
    BY <2>1, HeadTailProperties
  <2>3. thread' \in ThreadSet /\ events' \in Seq(EventSet) /\ due \in 0..Len(events')
    <3>1. ASSUME NEW p \in Peer, NEW sent \in BOOLEAN, Comes(p, thread.pendingViewer, sent)
          PROVE  thread' \in ThreadSet /\ events' \in Seq(EventSet) /\ due \in 0..Len(events')
      <4>1. thread.pendingViewer \in ViewerOrNone
        BY <1>3 DEF ThreadSet
      <4>2. thread' \in ThreadSet
        BY <3>1, <4>1, TakenTypes DEF Comes
      <4>3. QED
        BY <3>1, <4>1, <4>2, <1>told DEF Comes
    <3>2. CASE /\ thread' = [thread EXCEPT !.pending = None, !.pendingViewer = None]
               /\ UNCHANGED events
      BY <3>2, <1>3 DEF ThreadSet, PeerOrNone, ViewerOrNone
    <3>3. CASE UNCHANGED <<thread, events>>
      BY <3>3, <1>3
    <3>4. QED
      BY <3>1, <3>2, <3>3, <1>7, CommandCases
  <2>4. UNCHANGED <<session, shutdown, due>>
    BY <1>7 DEF ThreadCommand, threadUnchanged
  <2>5. QED
    BY <2>2, <2>3, <2>4 DEF TypeOK, SessionTypes, EventSet, ThreadSet
<1>8. SessionTypes'
  BY <1>hello, <1>5, <1>6, <1>7 DEF HostThread
<1>9. QED
  BY <1>1, <1>8 DEF threadUnchanged

\* No session yet.
LEMMA NoSession ==
  /\ session = "none" /\ shutdown = FALSE /\ events = <<>> /\ due = 0
       /\ commands = <<>> /\ thread = NoThread
     => SessionTypes
  /\ session' = "none" /\ shutdown' = FALSE /\ events' = <<>> /\ due' = 0
       /\ commands' = <<>> /\ thread' = NoThread
     => SessionTypes'
<1> DEFINE Commands == [kind : {"accept", "reject"}, peer : Peer]
<1>1. NoThread \in ThreadSet
  BY DEF NoThread, ThreadSet, PeerOrNone, ViewerOrNone
<1>2. <<>> \in Seq(EventSet) /\ <<>> \in Seq(Commands) /\ 0 \in 0..Len(<<>>)
  BY EmptySeq
<1> HIDE DEF Commands
<1>3. QED
  BY <1>1, <1>2 DEF SessionTypes, EventSet, ThreadSet, Commands

\* The window of a program that has just started.
LEMMA NoWindow ==
  /\ NoUi \in [peer : PeerOrNone, viewer : ViewerOrNone, pending : PeerOrNone,
              pendingViewer : ViewerOrNone, allow : BOOLEAN,
              ticked : ViewerOrNone, accepting : PeerOrNone]
  /\ NoForm \in [origin : AddressOrNone, editor : AddressOrNone]
<1>1. None \in PeerOrNone /\ None \in ViewerOrNone /\ None \in AddressOrNone
  BY DEF PeerOrNone, ViewerOrNone, AddressOrNone
<1>2. NoUi \in [peer : PeerOrNone, viewer : ViewerOrNone, pending : PeerOrNone,
               pendingViewer : ViewerOrNone, allow : BOOLEAN,
               ticked : ViewerOrNone, accepting : PeerOrNone]
  BY <1>1 DEF NoUi
<1>3. QED
  BY <1>1, <1>2 DEF NoForm

\* The files and a restart.
LEMMA DiskTypes ==
  ASSUME TypeOK, Disk
  PROVE  TypeOK'
<1>1. UNCHANGED bounds
  BY DEF Disk, WriteFails, Stage, Rename, CrashAndRestart
<1>2. ASSUME WriteFails \/ Stage \/ Rename
      PROVE  TypeOK'
  <2>1. UNCHANGED <<crashes, sessionVars, ui, form>>
    BY <1>2 DEF WriteFails, Stage, Rename
  <2>2. FileTypes'
    BY <1>1, <1>2 DEF WriteFails, Stage, Rename, TypeOK, FileTypes, Entry, Hosting
  <2>3. QED
    BY <1>1, <2>1, <2>2, Frames DEF TypeOK
<1>3. ASSUME CrashAndRestart
      PROVE  TypeOK'
  <2>1. crashes' \in 0..bounds'.crashes
    BY <1>1, <1>3, BoundsAssumption DEF CrashAndRestart, TypeOK
  <2>2. FileTypes'
    BY <1>1, <1>3 DEF CrashAndRestart, TypeOK, FileTypes, Entry, Hosting
  <2>3. SessionTypes' /\ WindowTypes'
    <3>1. /\ session' = "none" /\ shutdown' = FALSE /\ events' = <<>> /\ due' = 0
          /\ commands' = <<>> /\ thread' = NoThread /\ ui' = NoUi /\ form' = NoForm
      BY <1>3 DEF CrashAndRestart
    <3>2. SessionTypes'
      BY <3>1, NoSession
    <3>3. WindowTypes'
      BY <3>1, NoWindow DEF WindowTypes
    <3>4. QED
      BY <3>2, <3>3
  <2>4. QED
    BY <1>1, <2>1, <2>2, <2>3, Frames DEF TypeOK
<1>4. QED
  BY <1>2, <1>3 DEF Disk

\* What an event shows is typed.
LEMMA ShownTypes ==
  ASSUME TypeOK, NEW e \in EventSet
  PROVE  Shown(e) \in [peer : PeerOrNone, viewer : ViewerOrNone, pending : PeerOrNone,
                        pendingViewer : ViewerOrNone, allow : BOOLEAN,
                        ticked : ViewerOrNone, accepting : PeerOrNone]
<1> USE DEF TypeOK, WindowTypes, EventSet, PeerOrNone, ViewerOrNone
<1>1. CASE e.kind = "pending"
  <2>1. ShowRequest(e) \in [peer : PeerOrNone, viewer : ViewerOrNone, pending : PeerOrNone,
                            pendingViewer : ViewerOrNone, allow : BOOLEAN,
                            ticked : ViewerOrNone, accepting : PeerOrNone]
    <3> DEFINE allow == IF ui.pending = e.peer THEN ui.allow ELSE FALSE
               ticked == IF ui.pending = e.peer THEN ui.ticked ELSE None
    <3>1. ui.allow \in BOOLEAN /\ ui.ticked \in ViewerOrNone
      OBVIOUS
    <3>2. allow \in BOOLEAN
      BY <3>1, Zenon
    <3>3. ticked \in ViewerOrNone
      BY <3>1
    <3>4. ShowRequest(e) = [ui EXCEPT !.pending = e.peer, !.pendingViewer = e.viewer,
                                      !.allow = allow, !.ticked = ticked]
      BY DEF ShowRequest
    <3> HIDE DEF allow, ticked
    <3>5. QED
      BY <3>2, <3>3, <3>4
  <2>2. QED
    BY <1>1, <2>1 DEF Shown
<1>2. CASE e.kind \in {"connected", "disconnected"}
  BY <1>2 DEF Shown
<1>3. CASE e.kind \notin {"pending", "connected", "disconnected"}
  BY <1>3 DEF Shown
<1>4. QED
  BY <1>1, <1>2, <1>3

\* A frame of the window, and stopping.
LEMMA WindowStep ==
  ASSUME TypeOK, Window
  PROVE  TypeOK'
<1>1. UNCHANGED <<bounds, crashes, form>>
  BY DEF Window, Stop, ShutDown, FrameStart, HandleEvent, WatchSaved, appVars
<1>2. ASSUME Stop
      PROVE  TypeOK'
  <2>1. Stopped /\ UNCHANGED fileVars
    BY <1>2 DEF Stop
  <2>2. QED
    BY <1>1, <2>1, StoppedTypes, Frames DEF TypeOK, fileVars
<1>3. ASSUME ShutDown
      PROVE  TypeOK'
  <2>1. SessionTypes'
    BY <1>3 DEF ShutDown, TypeOK, SessionTypes
  <2>2. UNCHANGED <<fileVars, ui>>
    BY <1>3 DEF ShutDown
  <2>3. QED
    BY <1>1, <2>1, <2>2, Frames DEF TypeOK, fileVars
<1>4. ASSUME FrameStart
      PROVE  TypeOK'
  <2>1. SessionTypes'
    BY <1>4 DEF FrameStart, TypeOK, SessionTypes
  <2>2. UNCHANGED <<fileVars, ui>>
    BY <1>4 DEF FrameStart
  <2>3. QED
    BY <1>1, <2>1, <2>2, Frames DEF TypeOK, fileVars
<1>5. ASSUME HandleEvent
      PROVE  TypeOK'
  <2> DEFINE e == Head(events)
  <2>1. events \in Seq(EventSet) /\ due \in 0..Len(events) /\ due > 0
    BY <1>5 DEF HandleEvent, TypeOK, SessionTypes, EventSet
  <2>2. e \in EventSet /\ Tail(events) \in Seq(EventSet) /\ Len(Tail(events)) = Len(events) - 1
    BY <2>1, HeadTailProperties
  <2>3. CASE e.kind = "ended"
    <3>1. Stopped /\ UNCHANGED fileVars
      BY <1>5, <2>3 DEF HandleEvent
    <3>2. QED
      BY <1>1, <3>1, StoppedTypes, Frames DEF TypeOK, fileVars
  <2>4. CASE e.kind # "ended"
    <3>1. /\ ui' = Shown(e)
          /\ due' = due - 1 /\ events' = Tail(events)
          /\ UNCHANGED <<session, shutdown, commands, thread>>
          /\ IF e.kind = "identity" /\ ui.peer # None /\ e.viewer \in list
             THEN Persist(list \cup {e.viewer}) /\ UNCHANGED granted
             ELSE UNCHANGED fileVars
      BY <1>5, <2>4 DEF HandleEvent
    <3>2. SessionTypes'
      <4>1. due' \in 0..Len(events')
        BY <2>1, <2>2, <3>1
      <4>2. QED
        BY <2>2, <3>1, <4>1 DEF TypeOK, SessionTypes, EventSet
    <3>3. WindowTypes'
      BY <1>1, <2>2, <3>1, ShownTypes DEF TypeOK, WindowTypes
    <3>4. FileTypes'
      <4>1. CASE e.kind = "identity" /\ ui.peer # None /\ e.viewer \in list
        BY <1>1, <3>1, <4>1, PersistTypes DEF TypeOK, FileTypes
      <4>2. CASE ~(e.kind = "identity" /\ ui.peer # None /\ e.viewer \in list)
        BY <1>1, <3>1, <4>2, Frames DEF fileVars
      <4>3. QED
        BY <4>1, <4>2
    <3>5. QED
      BY <1>1, <3>2, <3>3, <3>4, Frames DEF TypeOK
  <2>5. QED
    BY <2>3, <2>4
<1>6. ASSUME WatchSaved
      PROVE  TypeOK'
  <2>1. UNCHANGED <<fileVars, sessionVars, ui>>
    BY <1>6 DEF WatchSaved, appVars
  <2>2. QED
    BY <1>1, <2>1, Frames DEF TypeOK, fileVars
<1>7. QED
  BY <1>2, <1>3, <1>4, <1>5, <1>6 DEF Window

\* The share page.
LEMMA ShareTypes ==
  ASSUME TypeOK, SharePage
  PROVE  TypeOK'
<1>1. UNCHANGED <<bounds, crashes, form>>
  BY DEF SharePage, StartHost, TickAlwaysAllow, AcceptPending, Accept, RejectPending, ForgetViewer
<1>2. ASSUME StartHost
      PROVE  TypeOK'
  <2>1. SessionTypes'
    BY <1>2 DEF StartHost, TypeOK, SessionTypes
  <2>2. UNCHANGED <<fileVars, ui>>
    BY <1>2 DEF StartHost
  <2>3. QED
    BY <1>1, <2>1, <2>2, Frames DEF TypeOK, fileVars
<1>3. ASSUME TickAlwaysAllow
      PROVE  TypeOK'
  <2>1. WindowTypes'
    BY <1>1, <1>3 DEF TickAlwaysAllow, TypeOK, WindowTypes, ViewerOrNone
  <2>2. UNCHANGED <<fileVars, sessionVars>>
    BY <1>3 DEF TickAlwaysAllow
  <2>3. QED
    BY <1>1, <2>1, <2>2, Frames DEF TypeOK, fileVars
<1>4. ASSUME AcceptPending
      PROVE  TypeOK'
  <2>1. WindowTypes'
    BY <1>1, <1>4 DEF AcceptPending, TypeOK, WindowTypes, PeerOrNone
  <2>2. FileTypes'
    <3>1. CASE ui.allow /\ ui.pendingViewer # None
      <4>1. Persist(list \cup {ui.pendingViewer}) /\ Hosting
        BY <1>4, <3>1 DEF AcceptPending
      <4>2. ui.pendingViewer \in Viewer
        BY <3>1 DEF TypeOK, WindowTypes, ViewerOrNone
      <4>3. list \cup {ui.pendingViewer} \in SUBSET Entry
        BY <4>1, <4>2 DEF TypeOK, FileTypes, Entry
      <4>4. QED
        BY <1>1, <4>1, <4>3, PersistTypes
    <3>2. CASE ~(ui.allow /\ ui.pendingViewer # None)
      <4>1. UNCHANGED fileVars
        BY <1>4, <3>2 DEF AcceptPending
      <4>2. QED
        BY <1>1, <4>1, Frames DEF fileVars
    <3>3. QED
      BY <3>1, <3>2
  <2>3. UNCHANGED sessionVars
    BY <1>4 DEF AcceptPending
  <2>4. QED
    BY <1>1, <2>1, <2>2, <2>3, Frames DEF TypeOK
<1>5. ASSUME Accept
      PROVE  TypeOK'
  <2>1. WindowTypes'
    BY <1>1, <1>5 DEF Accept, TypeOK, WindowTypes, PeerOrNone
  <2>2. ui.accepting \in Peer
    BY <1>5 DEF Accept, TypeOK, WindowTypes, PeerOrNone
  <2>3. SessionTypes'
    BY <1>5, <2>2 DEF Accept, TypeOK, SessionTypes
  <2>4. UNCHANGED fileVars
    BY <1>5 DEF Accept
  <2>5. QED
    BY <1>1, <2>1, <2>3, <2>4, Frames DEF TypeOK, fileVars
<1>6. ASSUME RejectPending
      PROVE  TypeOK'
  <2>1. WindowTypes'
    BY <1>1, <1>6 DEF RejectPending, TypeOK, WindowTypes, PeerOrNone
  <2>2. ui.pending \in Peer
    BY <1>6 DEF RejectPending, TypeOK, WindowTypes, PeerOrNone
  <2>3. SessionTypes'
    BY <1>6, <2>2 DEF RejectPending, TypeOK, SessionTypes
  <2>4. UNCHANGED fileVars
    BY <1>6 DEF RejectPending
  <2>5. QED
    BY <1>1, <2>1, <2>3, <2>4, Frames DEF TypeOK, fileVars
<1>7. ASSUME ForgetViewer
      PROVE  TypeOK'
  <2>1. PICK v \in list : Persist(list \ {v})
    BY <1>7 DEF ForgetViewer
  <2>2. FileTypes'
    BY <1>1, <2>1, PersistTypes DEF TypeOK, FileTypes
  <2>3. UNCHANGED <<sessionVars, ui>>
    BY <1>7 DEF ForgetViewer
  <2>4. QED
    BY <1>1, <2>2, <2>3, Frames DEF TypeOK
<1>8. QED
  BY <1>2, <1>3, <1>4, <1>5, <1>6, <1>7 DEF SharePage

SessionSet == [address : Address, name : Name]

\* What remember() leaves, and that the form names addresses.
LEMMA RememberedTypes ==
  ASSUME TypeOK, ~Hosting, UNCHANGED bounds, NEW address \in Address,
         NEW typed \in Name \cup {None}, NEW origin, Remembered(address, typed, origin)
  PROVE  FileTypes' /\ form' \in [origin : AddressOrNone, editor : AddressOrNone]
<1> DEFINE name == NameFor(address, typed)
<1>1. list \in SUBSET SessionSet
  BY DEF TypeOK, FileTypes, Entry, SessionSet
<1>2. name \in Name \cup {None}
  <2>1. CASE typed # None \/ At(list, address) = {}
    BY <2>1 DEF NameFor
  <2>2. CASE ~(typed # None \/ At(list, address) = {})
    <3>1. At(list, address) \subseteq SessionSet
      BY <1>1 DEF At
    <3>2. (CHOOSE s \in At(list, address) : TRUE) \in At(list, address)
      BY <2>2
    <3>3. QED
      BY <2>2, <3>1, <3>2 DEF NameFor, SessionSet
  <2>3. QED
    BY <2>1, <2>2
<1>3. form \in [origin : AddressOrNone, editor : AddressOrNone]
  BY DEF TypeOK, WindowTypes
<1>4. CASE name = None
  BY <1>3, <1>4, Frames DEF Remembered, fileVars
<1>5. CASE name # None
  <2>1. /\ Persist(Remember(list, address, name, origin))
        /\ form' = [form EXCEPT !.origin = address]
    BY <1>5 DEF Remembered
  <2>2. Session(address, name) \in SessionSet
    BY <1>2, <1>5 DEF Session, SessionSet
  <2>3. Remember(list, address, name, origin) \in SUBSET Entry
    BY <1>1, <2>2 DEF Remember, Entry, SessionSet
  <2>4. QED
    BY <1>3, <2>1, <2>3, PersistTypes DEF AddressOrNone
<1>6. QED
  BY <1>4, <1>5

\* The names and addresses typed are Names and Addresses.
LEMMA TypedIn == TypeOK => bounds.names \subseteq Name /\ bounds.addresses \subseteq Address
  BY BoundsAssumption DEF TypeOK

LEMMA StartedTypes ==
  ASSUME TypeOK, Started
  PROVE  SessionTypes'
  BY DEF TypeOK, SessionTypes, Started

\* The connect page.
LEMMA ConnectTypes ==
  ASSUME TypeOK, ConnectPageNext
  PROVE  TypeOK'
<1>1. UNCHANGED <<bounds, crashes>> /\ ui' = ui
  BY DEF ConnectPageNext, Connect, ConnectSaved, SaveForm, OpenEditor, SaveEditor,
         RemoveEdited, CloseEditor, ViewerEnds, Started
<1>2. ASSUME FileTypes', SessionTypes', form' \in [origin : AddressOrNone, editor : AddressOrNone]
      PROVE  TypeOK'
  BY <1>1, <1>2, Frames DEF TypeOK, WindowTypes
<1>3. form \in [origin : AddressOrNone, editor : AddressOrNone]
  BY DEF TypeOK, WindowTypes
<1>4. ASSUME Connect
      PROVE  TypeOK'
  <2>1. PICK address \in bounds.addresses, typed \in bounds.names \cup {None} :
          Remembered(address, typed, form.origin)
    BY <1>4 DEF Connect
  <2>2. Started /\ ~Hosting
    BY <1>4 DEF Connect, ConnectPage
  <2>3. address \in Address /\ typed \in Name \cup {None}
    BY TypedIn
  <2>4. QED
    BY <1>1, <1>2, <2>1, <2>2, <2>3, RememberedTypes, StartedTypes
<1>5. ASSUME ConnectSaved
      PROVE  TypeOK'
  <2>1. ~Hosting
    BY <1>5 DEF ConnectSaved, ConnectPage
  <2>2. PICK s \in list :
          IF shutdown
          THEN /\ form' = [form EXCEPT !.origin = s.address]
               /\ UNCHANGED <<fileVars, sessionVars, ui>>
          ELSE Remembered(s.address, s.name, s.address) /\ Started
    BY <1>5 DEF ConnectSaved
  <2>3. s.address \in Address /\ s.name \in Name
    BY <2>1 DEF TypeOK, FileTypes, Entry
  <2>4. CASE shutdown
    <3>1. /\ form' = [form EXCEPT !.origin = s.address]
          /\ UNCHANGED <<fileVars, sessionVars>>
      BY <2>2, <2>4
    <3>2. QED
      BY <1>1, <1>2, <1>3, <2>3, <3>1, Frames DEF AddressOrNone, fileVars
  <2>5. CASE ~shutdown
    <3>1. Remembered(s.address, s.name, s.address) /\ Started
      BY <2>2, <2>5
    <3>2. QED
      BY <1>1, <1>2, <2>1, <2>3, <3>1, RememberedTypes, StartedTypes
  <2>6. QED
    BY <2>4, <2>5
<1>6. ASSUME SaveForm
      PROVE  TypeOK'
  <2>1. PICK address \in bounds.addresses, typed \in bounds.names :
          Remembered(address, typed, form.origin)
    BY <1>6 DEF SaveForm
  <2>2. ~Hosting /\ UNCHANGED sessionVars
    BY <1>6 DEF SaveForm, ConnectPage
  <2>3. address \in Address /\ typed \in Name \cup {None}
    BY TypedIn
  <2>4. QED
    BY <1>1, <1>2, <2>1, <2>2, <2>3, RememberedTypes, Frames
<1>7. ASSUME OpenEditor
      PROVE  TypeOK'
  <2>1. ~Hosting /\ UNCHANGED <<fileVars, sessionVars>>
    BY <1>7 DEF OpenEditor, ConnectPage
  <2>2. PICK s \in list : form' = [form EXCEPT !.editor = s.address]
    BY <1>7 DEF OpenEditor
  <2>3. s.address \in Address
    BY <2>1 DEF TypeOK, FileTypes, Entry
  <2>4. QED
    BY <1>1, <1>2, <1>3, <2>1, <2>2, <2>3, Frames DEF AddressOrNone, fileVars
<1>8. ASSUME SaveEditor
      PROVE  TypeOK'
  <2>1. PICK address \in bounds.addresses, name \in bounds.names :
          /\ Persist((list \ At(list, form.editor)) \cup {Session(address, name)})
          /\ form' = [origin |-> IF form.origin = form.editor /\ session = "none"
                                 THEN address ELSE form.origin,
                      editor |-> None]
    BY <1>8 DEF SaveEditor
  <2>2. address \in Address /\ name \in Name
    BY TypedIn
  <2>3. ~Hosting /\ UNCHANGED sessionVars
    BY <1>8 DEF SaveEditor
  <2>4. (list \ At(list, form.editor)) \cup {Session(address, name)} \in SUBSET Entry
    BY <2>2, <2>3 DEF TypeOK, FileTypes, Entry, Session
  <2>5. QED
    BY <1>1, <1>2, <1>3, <2>1, <2>2, <2>3, <2>4, PersistTypes, Frames DEF AddressOrNone
<1>9. ASSUME RemoveEdited
      PROVE  TypeOK'
  <2>1. /\ Persist(list \ At(list, form.editor))
        /\ form' = [origin |-> IF form.origin = form.editor THEN None ELSE form.origin,
                    editor |-> None]
        /\ UNCHANGED sessionVars
    BY <1>9 DEF RemoveEdited
  <2>2. list \ At(list, form.editor) \in SUBSET Entry
    BY DEF TypeOK, FileTypes
  <2>3. QED
    BY <1>1, <1>2, <1>3, <2>1, <2>2, PersistTypes, Frames DEF AddressOrNone
<1>10. ASSUME CloseEditor
       PROVE  TypeOK'
  <2>1. form' = [form EXCEPT !.editor = None] /\ UNCHANGED <<fileVars, sessionVars>>
    BY <1>10 DEF CloseEditor
  <2>2. QED
    BY <1>1, <1>2, <1>3, <2>1, Frames DEF AddressOrNone, fileVars
<1>11. ASSUME ViewerEnds
       PROVE  TypeOK'
  <2>1. events' = <<Event("ended", None, None)>>
    <3>1. events = <<>> /\ events' = events \o <<Event("ended", None, None)>>
      BY <1>11 DEF ViewerEnds, Emits
    <3>2. QED
      BY <3>1
  <2>2. Event("ended", None, None) \in EventSet
    BY EventTypes DEF EventKind, PeerOrNone, ViewerOrNone
  <2>3. events' \in Seq(EventSet) /\ Len(events') = 1
    BY <2>1, <2>2
  <2>4. due \in 0..Len(events')
    BY <1>11, <2>3 DEF ViewerEnds, TypeOK, SessionTypes
  <2>5. UNCHANGED <<fileVars, session, shutdown, due, commands, thread, form>>
    BY <1>11 DEF ViewerEnds
  <2>6. SessionTypes'
    BY <2>3, <2>4, <2>5 DEF TypeOK, SessionTypes, EventSet
  <2>7. QED
    BY <1>1, <1>2, <1>3, <2>5, <2>6, Frames DEF fileVars
<1>12. QED
  BY <1>4, <1>5, <1>6, <1>7, <1>8, <1>9, <1>10, <1>11 DEF ConnectPageNext

LEMMA InitTypes == Init => TypeOK
<1> SUFFICES ASSUME Init
             PROVE  TypeOK
  OBVIOUS
<1>1. bounds \in Bounds /\ crashes = 0 /\ bounds.crashes \in Nat
  BY BoundsAssumption DEF Init
<1>2. FileTypes
  BY DEF Init, FileTypes
<1>3. SessionTypes
  BY NoSession DEF Init, Fresh
<1>4. WindowTypes
  BY NoWindow DEF Init, Fresh, WindowTypes
<1>5. QED
  BY <1>1, <1>2, <1>3, <1>4 DEF TypeOK

LEMMA NextTypes == TypeOK /\ [Next]_vars => TypeOK'
<1> SUFFICES ASSUME TypeOK, [Next]_vars
             PROVE  TypeOK'
  OBVIOUS
<1>1. CASE HostThread
  BY <1>1, ThreadTypes, Frames DEF TypeOK, fileVars
<1>2. CASE UNCHANGED appVars
  BY <1>2, Frames DEF TypeOK, appVars, fileVars
<1>3. CASE UNCHANGED vars
  BY <1>2, <1>3 DEF vars
<1>4. QED
  BY <1>1, <1>2, <1>3, DiskTypes, WindowStep, ShareTypes, ConnectTypes DEF Next

\* The window's types, whatever the sets of viewers, addresses and names.
THEOREM TypeCorrect == Spec => []TypeOK
  BY InitTypes, NextTypes, PTL DEF Spec

(***************************************************************************)
(* The trusted viewers are the user's. A request keeps naming the machine  *)
(* it came from on its way from the host's thread to the screen, and what  *)
(* the switch ticked is that of the request shown.                         *)
(***************************************************************************)

\* An identity that asks is that of the machine that asks.
Honest(peer, viewer) == viewer \in {None, Id(peer)}

HonestSet == {e \in EventSet : e.kind = "pending" => e.peer # None /\ Honest(e.peer, e.viewer)}

RequestsAreHonest ==
  /\ events \in Seq(HonestSet)
  /\ thread.pending # None => Honest(thread.pending, thread.pendingViewer)
  /\ ui.pending # None => Honest(ui.pending, ui.pendingViewer)
  /\ ui.pending # None /\ ui.allow => ui.ticked = Id(ui.pending)

TrustInv == TypeOK /\ RequestsAreHonest /\ TrustIsTheUsers

LEMMA HonestFrames ==
  ASSUME UNCHANGED bounds
  PROVE  /\ \A peer, viewer : Honest(peer, viewer)' <=> Honest(peer', viewer')
         /\ HonestSet' = HonestSet
         /\ RequestsAreHonest /\ UNCHANGED <<events, thread, ui>> => RequestsAreHonest'
         /\ TrustIsTheUsers /\ UNCHANGED <<list, granted, file, durable>> => TrustIsTheUsers'
  BY DEF Honest, HonestSet, RequestsAreHonest, TrustIsTheUsers, Id, Hosting

LEMMA HonestEvents ==
  ASSUME NEW kind \in EventKind \ {"pending"}, NEW peer \in PeerOrNone,
         NEW viewer \in ViewerOrNone
  PROVE  Event(kind, peer, viewer) \in HonestSet
  BY EventTypes DEF HonestSet, Event

LEMMA HonestArrival ==
  ASSUME NEW peer \in Peer, NEW viewer \in ViewerOrNone
  PROVE  Arrival(peer, viewer) \in Seq(HonestSet)
<1>1. Event("connected", peer, None) \in HonestSet /\ Event("identity", peer, viewer) \in HonestSet
  BY HonestEvents DEF PeerOrNone, ViewerOrNone, EventKind
<1>2. QED
  BY <1>1 DEF Arrival

\* A step of the host's network thread asks for the machine a Hello came from.
LEMMA ThreadHonest ==
  ASSUME TypeOK, RequestsAreHonest, HostThread
  PROVE  RequestsAreHonest'
<1>1. threadUnchanged
  BY DEF HostThread, ThreadHello, ThreadGoodbye, ThreadTimeout, ThreadCommand
<1>2. UNCHANGED <<bounds, ui>>
  BY <1>1 DEF threadUnchanged
<1>3. /\ events \in Seq(HonestSet)
      /\ thread.pending # None => Honest(thread.pending, thread.pendingViewer)
      /\ thread \in ThreadSet
  BY ThreadIsTyped DEF RequestsAreHonest
<1>4. ASSUME UNCHANGED events \/ \E new \in Seq(HonestSet) : Emits(new),
             thread'.pending # None => Honest(thread'.pending, thread'.pendingViewer)
      PROVE  RequestsAreHonest'
  <2>1. events' \in Seq(HonestSet)
    <3>1. ASSUME NEW new \in Seq(HonestSet), Emits(new)
          PROVE  events' \in Seq(HonestSet)
      <4>1. events' = events \o new
        BY <3>1 DEF Emits
      <4>2. QED
        BY <1>3, <4>1
    <3>2. QED
      BY <1>3, <1>4, <3>1
  <2>2. /\ ui'.pending # None => Honest(ui'.pending, ui'.pendingViewer)
        /\ ui'.pending # None /\ ui'.allow => ui'.ticked = Id(ui'.pending)
    BY <1>2 DEF RequestsAreHonest
  <2>3. QED
    BY <1>2, <1>4, <2>1, <2>2 DEF RequestsAreHonest, Honest, HonestSet, Id
<1>told. ASSUME NEW p \in Peer, NEW viewer \in ViewerOrNone, NEW sent \in BOOLEAN,
                Tells(sent, p, viewer)
         PROVE  UNCHANGED events \/ \E new \in Seq(HonestSet) : Emits(new)
  BY <1>told, HonestArrival DEF Tells
<1>5. ASSUME NEW p \in Peer, ThreadHello(p)
      PROVE  RequestsAreHonest'
  <2>1. PICK id \in {None, Id(p)}, sent \in BOOLEAN :
          \/ Learns(p, id) \/ Migrates(p, id, sent)
          \/ Returns(p, Or(id, thread.graceViewer), sent)
          \/ Comes(p, id, sent) \/ Asks(p, Renewed(p, id))
    BY <1>5, HelloCases
  <2>2. id \in ViewerOrNone
    BY IdTypes DEF ViewerOrNone
  <2>3. CASE Learns(p, id)
    <3>1. Emits(<<Event("identity", p, id)>>)
      BY <2>3 DEF Learns
    <3>2. <<Event("identity", p, id)>> \in Seq(HonestSet)
      BY <2>2, HonestEvents DEF PeerOrNone, EventKind
    <3>3. thread'.pending = thread.pending /\ thread'.pendingViewer = thread.pendingViewer
      BY <2>3, <1>3 DEF Learns, ThreadSet
    <3>4. QED
      BY <3>1, <3>2, <3>3, <1>3, <1>4
  <2>4. CASE Migrates(p, id, sent)
    <3>1. thread'.pending = thread.pending /\ thread'.pendingViewer = thread.pendingViewer
      BY <2>4, <1>3 DEF Migrates, ThreadSet
    <3>2. Tells(sent, p, id)
      BY <2>4 DEF Migrates
    <3>3. QED
      BY <3>1, <3>2, <2>2, <1>3, <1>4, <1>told
  <2>5. CASE Returns(p, Or(id, thread.graceViewer), sent)
    <3>1. Or(id, thread.graceViewer) \in ViewerOrNone
      BY <2>2, <1>3 DEF Or, ThreadSet
    <3>2. thread'.pending = thread.pending /\ thread'.pendingViewer = thread.pendingViewer
      BY <2>5, <1>3 DEF Returns, ThreadSet
    <3>3. Tells(sent, p, Or(id, thread.graceViewer))
      BY <2>5 DEF Returns
    <3>4. QED
      BY <3>1, <3>2, <3>3, <1>3, <1>4, <1>told
  <2>6. CASE Comes(p, id, sent)
    <3>1. thread'.pending = None
      BY <2>6 DEF Comes, Taken, NoThread
    <3>2. QED
      BY <2>2, <2>6, <3>1, <1>4, <1>told DEF Comes
  <2>7. CASE Asks(p, Renewed(p, id))
    <3> DEFINE viewer == Renewed(p, id)
    <3>1. p # None
      BY NoneAssumption
    <3>2. Honest(p, viewer) /\ viewer \in ViewerOrNone
      BY <2>1, <2>2, <1>3, <3>1 DEF Or, Honest, Renewed, ThreadSet
    <3>3. thread'.pending = p /\ thread'.pendingViewer = viewer /\ Emits(<<Event("pending", p, viewer)>>)
      BY <2>7, <1>3 DEF Asks, ThreadSet
    <3> HIDE DEF viewer
    <3>4. Event("pending", p, viewer) \in HonestSet
      BY <3>1, <3>2, EventTypes DEF HonestSet, Event, PeerOrNone, EventKind
    <3>5. <<Event("pending", p, viewer)>> \in Seq(HonestSet)
      BY <3>4
    <3>6. \E new \in Seq(HonestSet) : Emits(new)
      BY <3>3, <3>5
    <3>7. thread'.pending # None => Honest(thread'.pending, thread'.pendingViewer)
      BY <3>2, <3>3
    <3>8. QED
      BY <3>6, <3>7, <1>4
  <2>8. QED
    BY <2>1, <2>3, <2>4, <2>5, <2>6, <2>7
<1>6. ASSUME NEW p \in Peer, ThreadGoodbye(p)
      PROVE  RequestsAreHonest'
  <2>1. \/ UNCHANGED events
        \/ Emits(<<Event("left", p, None)>>)
        \/ Emits(<<Event("withdrawn", p, None)>>)
    BY <1>6 DEF ThreadGoodbye
  <2>2. /\ <<Event("left", p, None)>> \in Seq(HonestSet)
        /\ <<Event("withdrawn", p, None)>> \in Seq(HonestSet)
    BY HonestEvents DEF PeerOrNone, ViewerOrNone, EventKind
  <2>3. \/ thread'.pending = None
        \/ thread'.pending = thread.pending /\ thread'.pendingViewer = thread.pendingViewer
    BY <1>3, <1>6 DEF ThreadGoodbye, ThreadSet
  <2>4. QED
    BY <2>1, <2>2, <2>3, <1>3, <1>4
<1>7. ASSUME ThreadTimeout
      PROVE  RequestsAreHonest'
  <2>1. UNCHANGED events \/ Emits(<<Event("disconnected", thread.active, None)>>)
    BY <1>7 DEF ThreadTimeout
  <2>2. <<Event("disconnected", thread.active, None)>> \in Seq(HonestSet)
    BY HonestEvents, <1>3 DEF ThreadSet, ViewerOrNone, EventKind
  <2>3. thread'.pending = thread.pending /\ thread'.pendingViewer = thread.pendingViewer
    BY <1>3, <1>7 DEF ThreadTimeout, ThreadSet
  <2>4. QED
    BY <2>1, <2>2, <2>3, <1>3, <1>4
<1>8. ASSUME ThreadCommand
      PROVE  RequestsAreHonest'
  <2>1. ASSUME NEW p \in Peer, NEW sent \in BOOLEAN, Comes(p, thread.pendingViewer, sent)
        PROVE  RequestsAreHonest'
    <3>1. thread'.pending = None
      BY <2>1 DEF Comes, Taken, NoThread
    <3>2. thread.pendingViewer \in ViewerOrNone
      BY <1>3 DEF ThreadSet
    <3>3. QED
      BY <2>1, <3>1, <3>2, <1>4, <1>told DEF Comes
  <2>2. CASE /\ thread' = [thread EXCEPT !.pending = None, !.pendingViewer = None]
             /\ UNCHANGED events
    <3>1. thread'.pending = None
      BY <2>2, <1>3 DEF ThreadSet
    <3>2. QED
      BY <2>2, <3>1, <1>4
  <2>3. CASE UNCHANGED <<thread, events>>
    BY <2>3, <1>3, <1>4
  <2>4. QED
    BY <1>8, <2>1, <2>2, <2>3, CommandCases
<1>9. QED
  BY <1>5, <1>6, <1>7, <1>8 DEF HostThread

\* What the screen shows of an honest event is honest, and the tick stays with
\* the request it was made for.
LEMMA ShownHonest ==
  ASSUME TypeOK, RequestsAreHonest, NEW e \in HonestSet
  PROVE  LET shown == Shown(e)
         IN  /\ shown.pending # None => Honest(shown.pending, shown.pendingViewer)
             /\ shown.pending # None /\ shown.allow => shown.ticked = Id(shown.pending)
<1>1. ui \in [peer : PeerOrNone, viewer : ViewerOrNone, pending : PeerOrNone,
             pendingViewer : ViewerOrNone, allow : BOOLEAN,
             ticked : ViewerOrNone, accepting : PeerOrNone]
  BY DEF TypeOK, WindowTypes
<1>2. /\ ui.pending # None => Honest(ui.pending, ui.pendingViewer)
      /\ ui.pending # None /\ ui.allow => ui.ticked = Id(ui.pending)
  BY DEF RequestsAreHonest
<1>3. CASE e.kind = "pending"
  <2>1. e.peer # None /\ Honest(e.peer, e.viewer)
    BY <1>3 DEF HonestSet
  <2>2. /\ Shown(e).pending = e.peer /\ Shown(e).pendingViewer = e.viewer
        /\ Shown(e).allow = (IF ui.pending = e.peer THEN ui.allow ELSE FALSE)
        /\ Shown(e).ticked = (IF ui.pending = e.peer THEN ui.ticked ELSE None)
    BY <1>1, <1>3 DEF Shown, ShowRequest
  <2>3. QED
    BY <1>2, <2>1, <2>2
<1>4. CASE e.kind # "pending"
  <2>1. \/ Shown(e).pending = None
        \/ /\ Shown(e).pending = ui.pending /\ Shown(e).pendingViewer = ui.pendingViewer
           /\ Shown(e).allow = ui.allow /\ Shown(e).ticked = ui.ticked
    BY <1>1, <1>4 DEF Shown
  <2>2. QED
    BY <1>2, <2>1
<1>5. QED
  BY <1>3, <1>4

\* What AcceptPending trusts is what was ticked.
LEMMA TickedIsPending ==
  ASSUME RequestsAreHonest, ui.pending # None, ui.allow, ui.pendingViewer # None
  PROVE  ui.ticked = ui.pendingViewer
  BY DEF RequestsAreHonest, Honest

\* The steps of the window and of its pages.
LEMMA WindowTrust ==
  ASSUME TrustInv, Disk \/ Window \/ SharePage
  PROVE  RequestsAreHonest' /\ TrustIsTheUsers'
<1>1. UNCHANGED bounds
  BY DEF Disk, WriteFails, Stage, Rename, CrashAndRestart, Window, Stop, ShutDown,
         FrameStart, HandleEvent, WatchSaved, appVars, SharePage, StartHost,
         TickAlwaysAllow, AcceptPending, Accept, RejectPending, ForgetViewer
<1>2. TypeOK /\ RequestsAreHonest /\ TrustIsTheUsers
  BY DEF TrustInv
<1>3. ui \in [peer : PeerOrNone, viewer : ViewerOrNone, pending : PeerOrNone,
             pendingViewer : ViewerOrNone, allow : BOOLEAN,
             ticked : ViewerOrNone, accepting : PeerOrNone]
  BY <1>2 DEF TypeOK, WindowTypes
<1>4. ASSUME events' = <<>>, thread' = NoThread, ui' = NoUi
      PROVE  RequestsAreHonest'
  <2>1. events' \in Seq(HonestSet')
    BY <1>1, <1>4, HonestFrames
  <2>2. thread'.pending = None /\ ui'.pending = None
    BY <1>4 DEF NoThread, NoUi
  <2>3. QED
    BY <2>1, <2>2 DEF RequestsAreHonest
<1>5. ASSUME UNCHANGED <<events, thread>>,
             ui'.pending # None =>
               /\ ui'.pending = ui.pending /\ ui'.pendingViewer = ui.pendingViewer
               /\ ui'.allow => ui'.ticked = Id(ui.pending)
      PROVE  RequestsAreHonest'
  BY <1>1, <1>2, <1>5 DEF RequestsAreHonest, Honest, HonestSet, Id
<1>6. ASSUME WriteFails \/ Stage \/ Rename
      PROVE  RequestsAreHonest' /\ TrustIsTheUsers'
  <2>1. UNCHANGED <<events, thread, ui>>
    BY <1>6 DEF WriteFails, Stage, Rename, sessionVars
  <2>2. TrustIsTheUsers'
    BY <1>1, <1>2, <1>6 DEF WriteFails, Stage, Rename, TrustIsTheUsers, Hosting
  <2>3. QED
    BY <1>1, <1>2, <2>1, <2>2, HonestFrames
<1>7. ASSUME CrashAndRestart
      PROVE  RequestsAreHonest' /\ TrustIsTheUsers'
  <2>1. events' = <<>> /\ thread' = NoThread /\ ui' = NoUi
    BY <1>7 DEF CrashAndRestart
  <2>2. TrustIsTheUsers'
    BY <1>1, <1>2, <1>7 DEF CrashAndRestart, TrustIsTheUsers, Hosting
  <2>3. QED
    BY <1>4, <2>1, <2>2
<1>8. ASSUME Stop
      PROVE  RequestsAreHonest' /\ TrustIsTheUsers'
  <2>1. events' = <<>> /\ thread' = NoThread /\ ui' = NoUi /\ UNCHANGED fileVars
    BY <1>8 DEF Stop, Stopped
  <2>2. QED
    BY <1>1, <1>2, <1>4, <2>1, HonestFrames DEF fileVars
<1>9. ASSUME ShutDown \/ FrameStart \/ WatchSaved \/ StartHost
      PROVE  RequestsAreHonest' /\ TrustIsTheUsers'
  <2>1. UNCHANGED <<events, thread, ui, fileVars>>
    BY <1>9 DEF ShutDown, FrameStart, WatchSaved, StartHost, appVars, sessionVars
  <2>2. QED
    BY <1>1, <1>2, <2>1, HonestFrames DEF fileVars
<1>10. ASSUME HandleEvent
       PROVE  RequestsAreHonest' /\ TrustIsTheUsers'
  <2> DEFINE e == Head(events)
  <2>1. events \in Seq(HonestSet) /\ events # <<>>
    <3>1. due \in 0..Len(events) /\ due > 0
      BY <1>2, <1>10 DEF HandleEvent, TypeOK, SessionTypes
    <3>2. events \in Seq(HonestSet)
      BY <1>2 DEF RequestsAreHonest
    <3>3. QED
      BY <3>1, <3>2
  <2>2. e \in HonestSet /\ Tail(events) \in Seq(HonestSet)
    BY <2>1, HeadTailProperties
  <2>3. CASE e.kind = "ended"
    <3>1. events' = <<>> /\ thread' = NoThread /\ ui' = NoUi /\ UNCHANGED fileVars
      BY <1>10, <2>3 DEF HandleEvent, Stopped
    <3>2. QED
      BY <1>1, <1>2, <1>4, <3>1, HonestFrames DEF fileVars
  <2>4. CASE e.kind # "ended"
    <3>1. /\ ui' = Shown(e) /\ events' = Tail(events) /\ UNCHANGED thread
          /\ IF e.kind = "identity" /\ ui.peer # None /\ e.viewer \in list
             THEN Persist(list \cup {e.viewer}) /\ UNCHANGED granted
             ELSE UNCHANGED fileVars
      BY <1>10, <2>4 DEF HandleEvent
    <3>2. UNCHANGED <<list, granted, file, durable>>
      <4>1. CASE e.kind = "identity" /\ ui.peer # None /\ e.viewer \in list
        BY <3>1, <4>1 DEF Persist
      <4>2. CASE ~(e.kind = "identity" /\ ui.peer # None /\ e.viewer \in list)
        BY <3>1, <4>2 DEF fileVars
      <4>3. QED
        BY <4>1, <4>2
    <3>3. /\ ui'.pending # None => Honest(ui'.pending, ui'.pendingViewer)
          /\ ui'.pending # None /\ ui'.allow => ui'.ticked = Id(ui'.pending)
      BY <1>2, <2>2, <3>1, ShownHonest
    <3>4. RequestsAreHonest'
      <4>1. events' \in Seq(HonestSet)
        BY <2>2, <3>1
      <4>2. thread'.pending # None => Honest(thread'.pending, thread'.pendingViewer)
        BY <1>2, <3>1 DEF RequestsAreHonest
      <4>3. QED
        BY <1>1, <4>1, <4>2, <3>3 DEF RequestsAreHonest, Honest, HonestSet, Id
    <3>5. QED
      BY <1>1, <1>2, <3>2, <3>4, HonestFrames
  <2>5. QED
    BY <2>3, <2>4
<1>11. ASSUME TickAlwaysAllow
       PROVE  RequestsAreHonest' /\ TrustIsTheUsers'
  <2>1. UNCHANGED <<events, thread, fileVars>> /\ ui.pending # None /\ ui.pendingViewer # None
    BY <1>11 DEF TickAlwaysAllow, sessionVars
  <2>2. /\ ui'.pending = ui.pending /\ ui'.pendingViewer = ui.pendingViewer
        /\ ui'.allow = ~ui.allow
        /\ ui'.ticked = IF ui.allow THEN None ELSE ui.pendingViewer
    BY <1>3, <1>11 DEF TickAlwaysAllow
  <2>3. ui.pendingViewer = Id(ui.pending)
    BY <1>2, <2>1 DEF RequestsAreHonest, Honest
  <2>4. RequestsAreHonest'
    BY <1>5, <2>1, <2>2, <2>3
  <2>5. QED
    BY <1>1, <1>2, <2>1, <2>4, HonestFrames DEF fileVars
<1>12. ASSUME AcceptPending
       PROVE  RequestsAreHonest' /\ TrustIsTheUsers'
  <2>1. UNCHANGED <<events, thread>> /\ ui.pending # None
    BY <1>12 DEF AcceptPending, sessionVars
  <2>2. /\ ui'.pending = ui.pending /\ ui'.pendingViewer = ui.pendingViewer
        /\ ui'.allow = ui.allow /\ ui'.ticked = ui.ticked
    BY <1>3, <1>12 DEF AcceptPending
  <2>3. RequestsAreHonest'
    BY <1>2, <1>5, <2>1, <2>2 DEF RequestsAreHonest
  <2>4. TrustIsTheUsers'
    <3>1. CASE ui.allow /\ ui.pendingViewer # None
      <4>1. /\ list' = list \cup {ui.pendingViewer} /\ granted' = granted \cup {ui.ticked}
            /\ UNCHANGED <<file, durable>>
        BY <1>12, <3>1 DEF AcceptPending, Persist
      <4>2. ui.ticked = ui.pendingViewer
        BY <1>2, <2>1, <3>1, TickedIsPending
      <4>3. QED
        BY <1>1, <1>2, <4>1, <4>2 DEF TrustIsTheUsers, Hosting
    <3>2. CASE ~(ui.allow /\ ui.pendingViewer # None)
      <4>1. UNCHANGED fileVars
        BY <1>12, <3>2 DEF AcceptPending
      <4>2. QED
        BY <1>1, <1>2, <4>1, HonestFrames DEF fileVars
    <3>3. QED
      BY <3>1, <3>2
  <2>5. QED
    BY <2>3, <2>4
<1>13. ASSUME Accept \/ RejectPending
       PROVE  RequestsAreHonest' /\ TrustIsTheUsers'
  <2>1. UNCHANGED <<events, thread, fileVars>>
    BY <1>13 DEF Accept, RejectPending
  <2>2. ui'.pending # None =>
          /\ ui'.pending = ui.pending /\ ui'.pendingViewer = ui.pendingViewer
          /\ ui'.allow = ui.allow /\ ui'.ticked = ui.ticked
    BY <1>3, <1>13 DEF Accept, RejectPending
  <2>3. RequestsAreHonest'
    BY <1>2, <1>5, <2>1, <2>2 DEF RequestsAreHonest
  <2>4. QED
    BY <1>1, <1>2, <2>1, <2>3, HonestFrames DEF fileVars
<1>14. ASSUME ForgetViewer
       PROVE  RequestsAreHonest' /\ TrustIsTheUsers'
  <2>1. UNCHANGED <<events, thread, ui>>
    BY <1>14 DEF ForgetViewer, sessionVars
  <2>2. TrustIsTheUsers'
    BY <1>1, <1>2, <1>14 DEF ForgetViewer, Persist, TrustIsTheUsers, Hosting
  <2>3. QED
    BY <1>1, <1>2, <2>1, <2>2, HonestFrames
<1>15. QED
  BY <1>6, <1>7, <1>8, <1>9, <1>10, <1>11, <1>12, <1>13, <1>14 DEF Disk, Window, SharePage

\* The connect page is not the share page.
LEMMA ConnectTrust ==
  ASSUME TrustInv, ConnectPageNext
  PROVE  RequestsAreHonest' /\ TrustIsTheUsers'
<1>1. UNCHANGED <<bounds, thread, ui>>
  BY DEF ConnectPageNext, Connect, ConnectSaved, SaveForm, OpenEditor, SaveEditor,
         RemoveEdited, CloseEditor, ViewerEnds, Started, sessionVars
<1>2. ~Hosting
  BY DEF ConnectPageNext, Connect, ConnectSaved, SaveForm, OpenEditor, SaveEditor,
         RemoveEdited, CloseEditor, ViewerEnds, ConnectPage
<1>3. events' \in Seq(HonestSet)
  <2>1. events \in Seq(HonestSet)
    BY DEF TrustInv, RequestsAreHonest
  <2>2. CASE ViewerEnds
    <3>1. events' = events \o <<Event("ended", None, None)>>
      BY <2>2 DEF ViewerEnds, Emits
    <3>2. Event("ended", None, None) \in HonestSet
      BY HonestEvents DEF EventKind, PeerOrNone, ViewerOrNone
    <3>3. QED
      BY <2>1, <3>1, <3>2
  <2>3. CASE ~ViewerEnds
    <3>1. UNCHANGED events
      BY <2>3 DEF ConnectPageNext, Connect, ConnectSaved, SaveForm, OpenEditor, SaveEditor,
                  RemoveEdited, CloseEditor, Started, sessionVars
    <3>2. QED
      BY <2>1, <3>1
  <2>4. QED
    BY <2>2, <2>3
<1>4. RequestsAreHonest'
  BY <1>1, <1>3 DEF TrustInv, RequestsAreHonest, Honest, HonestSet, Id
<1>5. QED
  BY <1>1, <1>2, <1>4 DEF TrustIsTheUsers, Hosting

\* The ids a sharing host accepts without asking are those its user chose.
THEOREM TrustedAreTheUsers == Spec => []TrustIsTheUsers
<1>1. Init => TrustInv
  <2> SUFFICES ASSUME Init
               PROVE  RequestsAreHonest /\ TrustIsTheUsers
    BY InitTypes DEF TrustInv
  <2>1. events = <<>> /\ thread = NoThread /\ ui = NoUi
    BY DEF Init, Fresh
  <2>2. thread.pending = None /\ ui.pending = None
    BY <2>1 DEF NoThread, NoUi
  <2>3. RequestsAreHonest
    BY <2>1, <2>2 DEF RequestsAreHonest
  <2>4. QED
    BY <2>3 DEF Init, TrustIsTheUsers
<1>2. TrustInv /\ [Next]_vars => TrustInv'
  <2> SUFFICES ASSUME TrustInv, [Next]_vars
               PROVE  RequestsAreHonest' /\ TrustIsTheUsers'
    BY NextTypes DEF TrustInv
  <2>1. TypeOK /\ RequestsAreHonest /\ TrustIsTheUsers
    BY DEF TrustInv
  <2>2. CASE HostThread
    <3>1. UNCHANGED <<bounds, fileVars>>
      BY <2>1, <2>2, ThreadTypes
    <3>2. QED
      BY <2>1, <2>2, <3>1, ThreadHonest, HonestFrames DEF fileVars
  <2>3. CASE UNCHANGED appVars
    BY <2>1, <2>3, HonestFrames DEF appVars, fileVars, sessionVars
  <2>4. CASE UNCHANGED vars
    BY <2>3, <2>4 DEF vars
  <2>5. QED
    BY <2>2, <2>3, <2>4, WindowTrust, ConnectTrust DEF Next
<1>3. TrustInv => TrustIsTheUsers
  BY DEF TrustInv
<1>4. QED
  BY <1>1, <1>2, <1>3, PTL DEF Spec

(***************************************************************************)
(* A host is saved once. The editor is only open while no session runs, so *)
(* that the form moves with the session it edits.                          *)
(***************************************************************************)

Once(sessions) == \A s, t \in sessions : s.address = t.address => s = t

SavedInv ==
  ~Hosting =>
    /\ Once(list) /\ Once(file)
    /\ form.origin # None => At(list, form.origin) # {}
    /\ form.editor # None => session = "none"

LEMMA SavedFrames ==
  ASSUME SavedInv, UNCHANGED <<bounds, list, file, form>>, session' = session \/ form.editor = None
  PROVE  SavedInv'
  BY DEF SavedInv, Once, At, Hosting

\* remember() keeps one session an address.
LEMMA RememberOnce ==
  ASSUME NEW sessions, Once(sessions), NEW address, NEW name, NEW previous
  PROVE  /\ Once(Remember(sessions, address, name, previous))
         /\ At(Remember(sessions, address, name, previous), address) # {}
<1> DEFINE moved == {s \in At(sessions, previous) : s.name = name}
           replaced == IF At(sessions, address) # {} THEN At(sessions, address) ELSE moved
           new == Session(address, name)
<1>1. Remember(sessions, address, name, previous) = (sessions \ replaced) \cup {new}
  BY DEF Remember
<1>2. new.address = address
  BY DEF Session
<1>3. \A s \in sessions \ replaced : s.address # address
  BY DEF At
<1> HIDE DEF replaced, new
<1>4. QED
  BY <1>1, <1>2, <1>3 DEF Once, At

LEMMA RememberedOnce ==
  ASSUME SavedInv, ~Hosting, UNCHANGED bounds, form.editor = None,
         form \in [origin : AddressOrNone, editor : AddressOrNone],
         NEW address, NEW typed, NEW origin, Remembered(address, typed, origin)
  PROVE  SavedInv'
<1> DEFINE name == NameFor(address, typed)
<1>1. CASE name = None
  BY <1>1 DEF Remembered, fileVars, SavedInv, Once, At, Hosting
<1>2. CASE name # None
  <2>1. /\ list' = Remember(list, address, name, origin) /\ file' = file
        /\ form'.origin = address /\ form'.editor = None
    BY <1>2 DEF Remembered, Persist
  <2>2. Once(list) /\ Once(file)
    BY DEF SavedInv
  <2>3. Once(list') /\ At(list', address) # {}
    BY <2>1, <2>2, RememberOnce
  <2>4. QED
    BY <2>1, <2>2, <2>3 DEF SavedInv, Once, At
<1>3. QED
  BY <1>1, <1>2

\* The connect page.
LEMMA ConnectSavedOnce ==
  ASSUME TypeOK, SavedInv, ConnectPageNext
  PROVE  SavedInv'
<1>1. UNCHANGED bounds
  BY DEF ConnectPageNext, Connect, ConnectSaved, SaveForm, OpenEditor, SaveEditor,
         RemoveEdited, CloseEditor, ViewerEnds
<1>2. ~Hosting
  BY DEF ConnectPageNext, Connect, ConnectSaved, SaveForm, OpenEditor, SaveEditor,
         RemoveEdited, CloseEditor, ViewerEnds, ConnectPage
<1>3. /\ Once(list) /\ Once(file)
      /\ form.origin # None => At(list, form.origin) # {}
      /\ form.editor # None => session = "none"
  BY <1>2 DEF SavedInv
<1>4. form \in [origin : AddressOrNone, editor : AddressOrNone]
  BY DEF TypeOK, WindowTypes
<1>5. CASE Connect
  <2>1. \E address, typed : Remembered(address, typed, form.origin)
    BY <1>5 DEF Connect
  <2>2. form.editor = None
    BY <1>5 DEF Connect, ConnectPage
  <2>3. QED
    BY <1>1, <1>2, <1>4, <2>1, <2>2, RememberedOnce
<1>6. CASE ConnectSaved
  <2>1. form.editor = None
    BY <1>6 DEF ConnectSaved, ConnectPage
  <2>2. PICK s \in list :
          \/ /\ form' = [form EXCEPT !.origin = s.address]
             /\ UNCHANGED <<fileVars, sessionVars, ui>>
          \/ Remembered(s.address, s.name, s.address)
    BY <1>6 DEF ConnectSaved
  <2>3. CASE Remembered(s.address, s.name, s.address)
    BY <1>1, <1>2, <1>4, <2>1, <2>3, RememberedOnce
  <2>4. CASE /\ form' = [form EXCEPT !.origin = s.address]
             /\ UNCHANGED <<fileVars, sessionVars, ui>>
    <3>1. /\ form'.origin = s.address /\ form'.editor = None
          /\ list' = list /\ file' = file
      BY <1>4, <2>1, <2>4 DEF fileVars
    <3>2. s \in At(list, s.address)
      BY DEF At
    <3>3. QED
      BY <1>3, <3>1, <3>2 DEF SavedInv, Once, At
  <2>5. QED
    BY <2>2, <2>3, <2>4
<1>7. CASE SaveForm
  <2>1. \E address, typed : Remembered(address, typed, form.origin)
    BY <1>7 DEF SaveForm
  <2>2. form.editor = None
    BY <1>7 DEF SaveForm, ConnectPage
  <2>3. QED
    BY <1>1, <1>2, <1>4, <2>1, <2>2, RememberedOnce
<1>8. CASE OpenEditor
  <2>1. session' = "none" /\ list' = list /\ file' = file /\ form'.origin = form.origin
    BY <1>4, <1>8 DEF OpenEditor, ConnectPage, fileVars, sessionVars
  <2>2. QED
    BY <1>3, <2>1 DEF SavedInv, Once, At
<1>9. CASE SaveEditor
  <2>1. PICK address, name :
          /\ address = form.editor \/ At(list, address) = {}
          /\ list' = (list \ At(list, form.editor)) \cup {Session(address, name)}
          /\ form' = [origin |-> IF form.origin = form.editor /\ session = "none"
                                 THEN address ELSE form.origin,
                      editor |-> None]
    BY <1>9 DEF SaveEditor, Persist
  <2>2. file' = file /\ form.editor # None
    BY <1>9 DEF SaveEditor, Persist
  <2> DEFINE rest == list \ At(list, form.editor)
             new == Session(address, name)
  <2>3. new.address = address
    BY DEF Session
  <2>4. \A s \in rest : s.address # address
    BY <2>1 DEF At
  <2>5. /\ form'.editor = None
        /\ \/ form'.origin = address
           \/ form'.origin = form.origin /\ form.origin # form.editor
    BY <1>3, <2>1, <2>2
  <2>6. form.origin # form.editor => At(rest, form.origin) = At(list, form.origin)
    BY DEF At
  <2>7. list' = rest \cup {new}
    BY <2>1
  <2> HIDE DEF rest, new
  <2>8. Once(list')
    <3>1. Once(rest)
      BY <1>3 DEF Once, rest
    <3>2. QED
      BY <2>3, <2>4, <2>7, <3>1 DEF Once
  <2>9. form'.origin # None => At(list', form'.origin) # {}
    BY <1>3, <2>3, <2>5, <2>6, <2>7 DEF At
  <2>10. QED
    BY <1>3, <2>2, <2>5, <2>8, <2>9 DEF SavedInv, Once
<1>10. CASE RemoveEdited
  <2>1. /\ list' = list \ At(list, form.editor) /\ file' = file
        /\ form'.editor = None
        /\ form'.origin = (IF form.origin = form.editor THEN None ELSE form.origin)
    BY <1>10 DEF RemoveEdited, Persist
  <2>2. form.origin # form.editor => At(list', form.origin) = At(list, form.origin)
    BY <2>1 DEF At
  <2>3. QED
    BY <1>3, <2>1, <2>2 DEF SavedInv, Once
<1>11. CASE CloseEditor
  <2>1. list' = list /\ file' = file /\ form'.origin = form.origin /\ form'.editor = None
    BY <1>4, <1>11 DEF CloseEditor, fileVars
  <2>2. QED
    BY <1>3, <2>1 DEF SavedInv, Once, At
<1>12. CASE ViewerEnds
  BY <1>1, <1>12, SavedFrames DEF ViewerEnds, fileVars
<1>13. QED
  BY <1>5, <1>6, <1>7, <1>8, <1>9, <1>10, <1>11, <1>12 DEF ConnectPageNext

\* Everything else leaves the saved sessions alone, but for the disk.
LEMMA OtherSavedOnce ==
  ASSUME TypeOK, SavedInv, Disk \/ Window \/ SharePage \/ HostThread
  PROVE  SavedInv'
<1>1. UNCHANGED bounds
  BY ThreadTypes DEF Disk, WriteFails, Stage, Rename, CrashAndRestart, Window, Stop, ShutDown,
         FrameStart, HandleEvent, WatchSaved, appVars, SharePage, StartHost,
         TickAlwaysAllow, AcceptPending, Accept, RejectPending, ForgetViewer
<1>2. CASE WriteFails \/ Stage \/ Rename
  <2>1. UNCHANGED <<list, form, session>> /\ (file' = file \/ file' = list)
    BY <1>2 DEF WriteFails, Stage, Rename, sessionVars
  <2>2. QED
    BY <1>1, <2>1 DEF SavedInv, Once, At, Hosting
<1>3. CASE CrashAndRestart
  <2>1. list' = file /\ file' = file /\ form' = NoForm
    BY <1>3 DEF CrashAndRestart
  <2>2. form'.origin = None /\ form'.editor = None
    BY <2>1 DEF NoForm
  <2>3. QED
    BY <1>1, <2>1, <2>2 DEF SavedInv, Once, Hosting
<1>4. CASE Hosting
  BY <1>1, <1>4 DEF SavedInv, Hosting
<1>5. CASE Window /\ ~Hosting
  <2>1. UNCHANGED <<list, file, form>>
    <3>1. CASE HandleEvent
      BY <3>1 DEF HandleEvent, fileVars, Persist
    <3>2. CASE Stop \/ ShutDown \/ FrameStart \/ WatchSaved
      BY <3>2 DEF Stop, ShutDown, FrameStart, WatchSaved, appVars, fileVars
    <3>3. QED
      BY <1>5, <3>1, <3>2 DEF Window
  <2>2. session' = session \/ session' = "none"
    BY <1>5 DEF Window, Stop, ShutDown, FrameStart, HandleEvent, WatchSaved, Stopped, appVars, sessionVars
  <2>3. QED
    BY <1>1, <2>1, <2>2 DEF SavedInv, Once, At, Hosting
<1>6. CASE SharePage /\ ~Hosting
  <2>1. UNCHANGED <<list, file, form, session>>
    BY <1>6 DEF SharePage, StartHost, TickAlwaysAllow, AcceptPending, Accept, RejectPending,
                ForgetViewer, fileVars, sessionVars
  <2>2. QED
    BY <1>1, <2>1, SavedFrames
<1>7. CASE HostThread
  <2>1. UNCHANGED <<list, file, form>>
    BY <1>7, ThreadTypes DEF fileVars
  <2>2. UNCHANGED session
    BY <1>7 DEF HostThread, ThreadHello, ThreadGoodbye, ThreadTimeout, ThreadCommand, threadUnchanged
  <2>3. QED
    BY <1>1, <2>1, <2>2, SavedFrames
<1>8. QED
  BY <1>2, <1>3, <1>4, <1>5, <1>6, <1>7 DEF Disk

\* A host is saved once, whatever is typed, edited, removed, lost or restarted.
THEOREM HostsAreSavedOnce == Spec => []SavedOnce
<1>1. Init => SavedInv
  BY DEF Init, Fresh, NoForm, SavedInv, Once
<1>2. TypeOK /\ SavedInv /\ [Next]_vars => SavedInv'
  <2> SUFFICES ASSUME TypeOK, SavedInv, [Next]_vars
               PROVE  SavedInv'
    OBVIOUS
  <2>1. CASE UNCHANGED appVars
    BY <2>1, SavedFrames DEF appVars, fileVars, sessionVars
  <2>2. CASE UNCHANGED vars
    BY <2>1, <2>2 DEF vars
  <2>3. QED
    BY <2>1, <2>2, OtherSavedOnce, ConnectSavedOnce DEF Next
<1>3. SavedInv => SavedOnce
  BY DEF SavedInv, SavedOnce, Once
<1>4. QED
  BY <1>1, <1>2, <1>3, TypeCorrect, PTL DEF Spec

(***************************************************************************)
(* What is on the screen: the events that have not been handled yet lead,  *)
(* one after the other, from what the window shows to what the thread      *)
(* does, so that nothing is left of the difference when they are handled.  *)
(***************************************************************************)

ScreenSet == [peer : PeerOrNone, viewer : ViewerOrNone]

Screen == [peer |-> ui.peer, viewer |-> ui.viewer]

\* What an event makes of the viewer shown.
After(e, s) ==
  CASE e.kind = "connected" -> [peer |-> e.peer, viewer |-> None]
    [] e.kind \in {"disconnected", "left"} -> [s EXCEPT !.peer = None]
    [] e.kind = "identity" -> [s EXCEPT !.viewer = e.viewer]
    [] OTHER -> s

\* The screens between one and another, an event between two of them.
Screens(from, evs, to, shown) ==
  /\ shown \in [0..Len(evs) -> ScreenSet] /\ shown[0] = from /\ shown[Len(evs)] = to
  /\ \A i \in 1..Len(evs) : shown[i] = After(evs[i], shown[i - 1])

Leads(from, evs, to) == \E shown : Screens(from, evs, to, shown)

\* The thread knows its viewers by the identities of their machines.
Known(t) ==
  /\ t.active # None => Honest(t.active, t.viewer)
  /\ t.pending # None => Honest(t.pending, t.pendingViewer)
  /\ t.grace # None => Honest(t.grace, t.graceViewer)

ThreadIsHonest == Known(thread)

\* Who is served is shown, as one of its machine; and exactly, unless the thread
\* owes the window a word. Without a viewer the window may still hold the
\* identity of the last, which it does not show.
Served(s, t) ==
  /\ t.active # None => s.peer # None /\ SameMachine(s.peer, t.active)
  /\ s.peer # None => Honest(s.peer, s.viewer)
  /\ ~t.untold => s.peer = t.active /\ (t.active # None => s.viewer = t.viewer)

ServedInv ==
  /\ TypeOK /\ ThreadIsHonest
  /\ \E to \in ScreenSet : Leads(Screen, events, to) /\ Served(to, thread)

\* The machines do not change.
LEMMA ServedFrames ==
  ASSUME UNCHANGED bounds
  PROVE  /\ \A s : Served(s, thread') => Served(s, thread)'
         /\ UNCHANGED thread /\ ThreadIsHonest => ThreadIsHonest'
  BY DEF Served, ThreadIsHonest, Known, Honest, SameMachine, Id

\* It learns them from the Hellos of those machines.
LEMMA HonestThread ==
  ASSUME TypeOK, ThreadIsHonest, HostThread
  PROVE  ThreadIsHonest'
<1>1. UNCHANGED bounds
  BY DEF HostThread, ThreadHello, ThreadGoodbye, ThreadTimeout, ThreadCommand, threadUnchanged
<1>2. thread \in ThreadSet /\ None \notin Peer
  BY ThreadIsTyped, NoneAssumption
<1>3. Known(thread') => ThreadIsHonest'
  BY <1>1 DEF ThreadIsHonest, Known, Honest, Id
<1>4. ASSUME NEW p \in Peer, NEW viewer, NEW sent \in BOOLEAN, Honest(p, viewer),
             Comes(p, viewer, sent)
      PROVE  Known(thread')
  <2>1. /\ thread'.pending = None /\ thread'.grace = None
        /\ sent => thread'.active = p /\ thread'.viewer = viewer
        /\ ~sent => thread'.active = None
    BY <1>4 DEF Comes, Taken, NoThread
  <2>2. QED
    BY <1>4, <2>1 DEF Known
<1>5. ASSUME NEW p \in Peer, ThreadHello(p)
      PROVE  Known(thread')
  <2>1. PICK id \in {None, Id(p)}, sent \in BOOLEAN :
          \/ Learns(p, id) \/ Migrates(p, id, sent)
          \/ Returns(p, Or(id, thread.graceViewer), sent)
          \/ Comes(p, id, sent) \/ Asks(p, Renewed(p, id))
    BY <1>5, HelloCases
  <2>2. Honest(p, id)
    BY DEF Honest
  <2>3. CASE Learns(p, id)
    BY <1>2, <2>2, <2>3 DEF Learns, ThreadIsHonest, Known, ThreadSet
  <2>4. CASE Migrates(p, id, sent)
    BY <1>2, <2>2, <2>4 DEF Migrates, ThreadIsHonest, Known, ThreadSet
  <2>5. CASE Returns(p, Or(id, thread.graceViewer), sent)
    <3> DEFINE viewer == Or(id, thread.graceViewer)
    <3>1. Honest(p, viewer)
      BY <2>2, <2>5 DEF Returns, Returning, SameMachine, Or, ThreadIsHonest, Known, Honest
    <3> HIDE DEF viewer
    <3>2. CASE sent
      BY <1>2, <2>5, <3>1, <3>2 DEF Returns, ThreadIsHonest, Known, ThreadSet, viewer
    <3>3. CASE ~sent
      BY <1>2, <2>5, <3>1, <3>3 DEF Returns, ThreadIsHonest, Known, ThreadSet, viewer
    <3>4. QED
      BY <3>2, <3>3
  <2>6. CASE Comes(p, id, sent)
    BY <1>4, <2>2, <2>6
  <2>7. CASE Asks(p, Renewed(p, id))
    <3> DEFINE viewer == Renewed(p, id)
    <3>1. Honest(p, viewer)
      BY <1>2, <2>2 DEF Renewed, Or, ThreadIsHonest, Known, Honest
    <3> HIDE DEF viewer
    <3>2. QED
      BY <1>2, <2>7, <3>1 DEF Asks, ThreadIsHonest, Known, ThreadSet, viewer
  <2>8. QED
    BY <2>1, <2>3, <2>4, <2>5, <2>6, <2>7
<1>6. ASSUME NEW p \in Peer, ThreadGoodbye(p)
      PROVE  Known(thread')
  BY <1>2, <1>6 DEF ThreadGoodbye, ThreadIsHonest, Known, ThreadSet
<1>7. ASSUME ThreadTimeout
      PROVE  Known(thread')
  BY <1>2, <1>7 DEF ThreadTimeout, ThreadIsHonest, Known, ThreadSet
<1>8. ASSUME ThreadCommand
      PROVE  Known(thread')
  <2>1. ASSUME NEW p \in Peer, NEW sent \in BOOLEAN, thread.pending = p,
               Comes(p, thread.pendingViewer, sent)
        PROVE  Known(thread')
    <3>1. Honest(p, thread.pendingViewer)
      BY <1>2, <2>1 DEF ThreadIsHonest, Known
    <3>2. QED
      BY <1>4, <2>1, <3>1
  <2>2. CASE thread' = [thread EXCEPT !.pending = None, !.pendingViewer = None]
    BY <1>2, <2>2 DEF ThreadIsHonest, Known, ThreadSet
  <2>3. CASE UNCHANGED thread
    BY <2>3 DEF ThreadIsHonest, Known
  <2>4. QED
    BY <1>8, <2>1, <2>2, <2>3, CommandCases
<1>9. QED
  BY <1>3, <1>5, <1>6, <1>7, <1>8 DEF HostThread

LEMMA AfterTypes ==
  ASSUME NEW e \in EventSet, NEW s \in ScreenSet
  PROVE  After(e, s) \in ScreenSet
  BY DEF After, EventSet, ScreenSet, PeerOrNone, ViewerOrNone

\* Nothing to handle: what is shown stays.
LEMMA LeadsNowhere ==
  ASSUME NEW s \in ScreenSet
  PROVE  Leads(s, <<>>, s)
<1> DEFINE shown == [i \in 0..0 |-> s]
<1>1. Len(<<>>) = 0
  OBVIOUS
<1>2. shown \in [0..0 -> ScreenSet] /\ shown[0] = s
  OBVIOUS
<1> HIDE DEF shown
<1>3. Screens(s, <<>>, s, shown)
  BY <1>1, <1>2 DEF Screens
<1>4. QED
  BY <1>3 DEF Leads

LEMMA LeadsNoFurther ==
  ASSUME NEW from, NEW to, Leads(from, <<>>, to)
  PROVE  from = to
<1>1. PICK shown : Screens(from, <<>>, to, shown)
  BY DEF Leads
<1>2. Len(<<>>) = 0
  OBVIOUS
<1>3. QED
  BY <1>1, <1>2 DEF Screens

\* One more event comes.
LEMMA LeadsOn ==
  ASSUME NEW evs \in Seq(EventSet), NEW from, NEW to \in ScreenSet, NEW e \in EventSet,
         Leads(from, evs, to)
  PROVE  Leads(from, evs \o <<e>>, After(e, to))
<1>1. PICK shown : Screens(from, evs, to, shown)
  BY DEF Leads
<1> DEFINE n == Len(evs)
           more == evs \o <<e>>
           last == After(e, to)
           then == [i \in 0..(n + 1) |-> IF i = n + 1 THEN last ELSE shown[i]]
<1>2. n \in Nat
  OBVIOUS
<1>3. Len(more) = n + 1 /\ more[n + 1] = e /\ \A i \in 1..n : more[i] = evs[i]
  OBVIOUS
<1>4. last \in ScreenSet
  BY AfterTypes
<1>5. /\ shown \in [0..n -> ScreenSet] /\ shown[0] = from /\ shown[n] = to
      /\ \A i \in 1..n : shown[i] = After(evs[i], shown[i - 1])
  BY <1>1 DEF Screens
<1> HIDE DEF n, more, last
<1>6. \A i \in 0..n : then[i] = shown[i]
  BY <1>2
<1>7. then[n + 1] = last /\ then \in [0..(n + 1) -> ScreenSet]
  BY <1>2, <1>4, <1>5
<1> HIDE DEF then
<1>8. ASSUME NEW i \in 1..(n + 1)
      PROVE  then[i] = After(more[i], then[i - 1])
  <2>1. CASE i = n + 1
    <3>1. then[i] = last /\ more[i] = e /\ i - 1 = n /\ n \in 0..n
      BY <1>2, <1>3, <1>7, <2>1
    <3>2. then[i - 1] = to
      BY <1>5, <1>6, <3>1
    <3>3. QED
      BY <3>1, <3>2 DEF last
  <2>2. CASE i # n + 1
    <3>1. i \in 1..n /\ i \in 0..n /\ i - 1 \in 0..n
      BY <1>2, <2>2
    <3>2. then[i] = shown[i] /\ then[i - 1] = shown[i - 1] /\ more[i] = evs[i]
      BY <1>3, <1>6, <3>1
    <3>3. QED
      BY <1>5, <3>1, <3>2
  <2>3. QED
    BY <2>1, <2>2
<1>9. then[0] = from
  BY <1>2, <1>5, <1>6
<1>10. Screens(from, more, last, then)
  BY <1>3, <1>7, <1>8, <1>9 DEF Screens
<1>11. QED
  BY <1>10 DEF Leads, more, last

\* The first of them is handled.
LEMMA LeadsFrom ==
  ASSUME NEW evs \in Seq(EventSet), evs # <<>>, NEW from, NEW to, Leads(from, evs, to)
  PROVE  Leads(After(Head(evs), from), Tail(evs), to)
<1>1. PICK shown : Screens(from, evs, to, shown)
  BY DEF Leads
<1> DEFINE n == Len(evs)
           rest == Tail(evs)
           first == After(Head(evs), from)
           then == [i \in 0..(n - 1) |-> shown[i + 1]]
<1>2. n \in Nat /\ n > 0
  OBVIOUS
<1>3. Len(rest) = n - 1 /\ Head(evs) = evs[1] /\ \A i \in 1..(n - 1) : rest[i] = evs[i + 1]
  OBVIOUS
<1>4. /\ shown \in [0..n -> ScreenSet] /\ shown[0] = from /\ shown[n] = to
      /\ \A i \in 1..n : shown[i] = After(evs[i], shown[i - 1])
  BY <1>1 DEF Screens
<1>5. shown[1] = first
  <2>1. 1 \in 1..n /\ 1 - 1 = 0
    BY <1>2
  <2>2. QED
    BY <1>3, <1>4, <2>1
<1> HIDE DEF n, rest, first
<1>6. \A i \in 0..(n - 1) : then[i] = shown[i + 1] /\ i + 1 \in 0..n
  BY <1>2
<1>7. then \in [0..(n - 1) -> ScreenSet]
  BY <1>2, <1>4
<1> HIDE DEF then
<1>8. then[0] = first /\ then[n - 1] = to
  <2>1. 0 \in 0..(n - 1) /\ n - 1 \in 0..(n - 1) /\ 0 + 1 = 1 /\ (n - 1) + 1 = n
    BY <1>2
  <2>2. QED
    BY <1>4, <1>5, <1>6, <2>1
<1>9. ASSUME NEW i \in 1..(n - 1)
      PROVE  then[i] = After(rest[i], then[i - 1])
  <2>1. i \in 0..(n - 1) /\ i - 1 \in 0..(n - 1) /\ i + 1 \in 1..n /\ (i - 1) + 1 = i
        /\ (i + 1) - 1 = i
    BY <1>2
  <2>2. then[i] = shown[i + 1] /\ then[i - 1] = shown[i] /\ rest[i] = evs[i + 1]
    BY <1>3, <1>6, <2>1
  <2>3. QED
    BY <1>4, <2>1, <2>2
<1>10. Screens(first, rest, to, then)
  BY <1>3, <1>7, <1>8, <1>9 DEF Screens
<1>11. QED
  BY <1>10 DEF Leads, rest, first

\* One more event, and what the thread does with it.
LEMMA ServedOn ==
  ASSUME ServedInv, NEW e \in EventSet, events' = events \o <<e>>, UNCHANGED <<ui, bounds>>,
         TypeOK', ThreadIsHonest',
         \A s \in ScreenSet : Served(s, thread) => Served(After(e, s), thread')
  PROVE  ServedInv'
<1>1. PICK to \in ScreenSet : Leads(Screen, events, to) /\ Served(to, thread)
  BY DEF ServedInv
<1>2. events \in Seq(EventSet)
  BY DEF ServedInv, TypeOK, SessionTypes, EventSet
<1>3. After(e, to) \in ScreenSet /\ Served(After(e, to), thread')
  BY <1>1, AfterTypes
<1>4. Leads(Screen, events \o <<e>>, After(e, to))
  BY <1>1, <1>2, LeadsOn
<1>5. Screen' = Screen
  BY DEF Screen
<1>6. QED
  BY <1>3, <1>4, <1>5, ServedFrames DEF ServedInv

\* A viewer comes: it is shown without an identity until that is told.
LEMMA ServedArrival ==
  ASSUME ServedInv, NEW p \in Peer, NEW viewer \in ViewerOrNone,
         events' = events \o Arrival(p, viewer), UNCHANGED <<ui, bounds>>,
         TypeOK', ThreadIsHonest', thread'.active = p, thread'.viewer = viewer
  PROVE  ServedInv'
<1> DEFINE came == Event("connected", p, None)
           told == Event("identity", p, viewer)
<1>1. PICK to \in ScreenSet : Leads(Screen, events, to) /\ Served(to, thread)
  BY DEF ServedInv
<1>2. events \in Seq(EventSet) /\ came \in EventSet /\ told \in EventSet
  BY EventTypes DEF ServedInv, TypeOK, SessionTypes, EventSet, PeerOrNone, ViewerOrNone, EventKind
<1>3. Screen' = Screen
  BY DEF Screen
<1>4. After(came, to) = [peer |-> p, viewer |-> None]
  BY DEF After, Event
<1>5. After(told, [peer |-> p, viewer |-> None]) = [peer |-> p, viewer |-> viewer]
  BY DEF After, Event
<1>6. /\ [peer |-> p, viewer |-> None] \in ScreenSet
      /\ [peer |-> p, viewer |-> viewer] \in ScreenSet
  BY DEF ScreenSet, PeerOrNone, ViewerOrNone
<1>7. Leads(Screen, events \o <<came>>, [peer |-> p, viewer |-> None])
  <2>1. Leads(Screen, events \o <<came>>, After(came, to))
    BY <1>1, <1>2, LeadsOn
  <2>2. QED
    BY <2>1, <1>4
<1>8. Served([peer |-> p, viewer |-> viewer], thread')
  <2>1. p # None
    BY NoneAssumption
  <2>2. Honest(p, viewer)
    BY <2>1 DEF ThreadIsHonest, Known, Honest, Id
  <2>3. QED
    BY <2>1, <2>2 DEF Served, SameMachine
<1>9. Leads(Screen, events', [peer |-> p, viewer |-> viewer])
  <2>1. CASE viewer = None
    <3>1. Arrival(p, viewer) = <<came>> \o <<>>
      BY <2>1 DEF Arrival
    <3>2. Arrival(p, viewer) = <<came>>
      BY <3>1
    <3>3. QED
      BY <1>7, <2>1, <3>2
  <2>2. CASE viewer # None
    <3>1. Arrival(p, viewer) = <<came>> \o <<told>>
      BY <2>2 DEF Arrival
    <3>2. events' = (events \o <<came>>) \o <<told>> /\ events \o <<came>> \in Seq(EventSet)
      <4> HIDE DEF came, told
      <4>1. events \o (<<came>> \o <<told>>) = (events \o <<came>>) \o <<told>>
        BY <1>2
      <4>2. QED
        BY <1>2, <3>1, <4>1
    <3>3. Leads(Screen, (events \o <<came>>) \o <<told>>,
                After(told, [peer |-> p, viewer |-> None]))
      BY <1>2, <1>6, <1>7, <3>2, LeadsOn
    <3>4. QED
      BY <1>5, <3>2, <3>3
  <2>3. QED
    BY <2>1, <2>2
<1>10. Leads(Screen', events', [peer |-> p, viewer |-> viewer])
  BY <1>3, <1>9
<1>11. QED
  BY <1>6, <1>8, <1>10, ServedFrames DEF ServedInv

\* Nothing comes, and the viewer served stays.
LEMMA ServedStays ==
  ASSUME ServedInv, TypeOK', ThreadIsHonest', UNCHANGED <<events, bounds>>,
         ui'.peer = ui.peer, ui'.viewer = ui.viewer,
         \A s \in ScreenSet : Served(s, thread) => Served(s, thread')
  PROVE  ServedInv'
<1>1. Screen' = Screen
  BY DEF Screen
<1>2. QED
  BY <1>1, ServedFrames DEF ServedInv

\* Nothing runs.
LEMMA ServedNobody ==
  /\ TypeOK /\ events = <<>> /\ thread = NoThread /\ ui = NoUi => ServedInv
  /\ TypeOK' /\ events' = <<>> /\ thread' = NoThread /\ ui' = NoUi => ServedInv'
<1> DEFINE nobody == [peer |-> None, viewer |-> None]
<1>1. nobody \in ScreenSet
  BY DEF ScreenSet, PeerOrNone, ViewerOrNone
<1>2. Leads(nobody, <<>>, nobody)
  BY <1>1, LeadsNowhere
<1>3. /\ thread = NoThread => Served(nobody, thread) /\ ThreadIsHonest
      /\ thread' = NoThread => Served(nobody, thread)' /\ ThreadIsHonest'
  BY DEF Served, NoThread, ThreadIsHonest, Known
<1>4. (ui = NoUi => Screen = nobody) /\ (ui' = NoUi => Screen' = nobody)
  BY DEF Screen, NoUi
<1> HIDE DEF nobody
<1>5. TypeOK /\ events = <<>> /\ thread = NoThread /\ ui = NoUi => ServedInv
  BY <1>1, <1>2, <1>3, <1>4 DEF ServedInv
<1>6. TypeOK' /\ events' = <<>> /\ thread' = NoThread /\ ui' = NoUi => ServedInv'
  <2> SUFFICES ASSUME TypeOK', events' = <<>>, thread' = NoThread, ui' = NoUi
               PROVE  ServedInv'
    OBVIOUS
  <2>1. Leads(Screen', events', nobody)
    BY <1>2, <1>4
  <2>2. QED
    BY <1>1, <1>3, <2>1 DEF ServedInv
<1>7. QED
  BY <1>5, <1>6

\* What the thread does without a word leaves a viewer of the same machine
\* served, or owes the window that word.
LEMMA ServedUntold ==
  ASSUME ServedInv, TypeOK', ThreadIsHonest', UNCHANGED <<events, ui, bounds>>,
         NEW p \in Peer, NEW viewer,
         \/ Migrates(p, viewer, FALSE) \/ Returns(p, viewer, FALSE)
         \/ Comes(p, viewer, FALSE)
  PROVE  ServedInv'
<1>1. thread \in ThreadSet /\ p # None
  BY ThreadIsTyped, NoneAssumption DEF ServedInv
<1>2. CASE Migrates(p, viewer, FALSE)
  <2>1. /\ thread.active # None /\ SameMachine(thread.active, p)
        /\ thread'.active = p /\ thread'.untold = TRUE
    BY <1>1, <1>2 DEF Migrates, ThreadSet
  <2>2. \A s \in ScreenSet : Served(s, thread) => Served(s, thread')
    BY <1>1, <2>1 DEF Served, SameMachine
  <2>3. QED
    BY <2>2, ServedStays
<1>3. CASE Returns(p, viewer, FALSE)
  <2>1. /\ thread.active = None /\ thread'.active = None
        /\ thread'.untold = thread.untold
    BY <1>1, <1>3 DEF Returns, ThreadSet
  <2>2. \A s \in ScreenSet : Served(s, thread) => Served(s, thread')
    BY <2>1 DEF Served
  <2>3. QED
    BY <2>2, ServedStays
<1>4. CASE Comes(p, viewer, FALSE)
  <2>1. /\ thread'.active = None
        /\ thread'.untold = (thread.untold \/ thread.active # None)
    BY <1>4 DEF Comes, Taken, NoThread
  <2>2. ~thread'.untold => ~thread.untold /\ thread.active = None
    BY <2>1
  <2>3. \A s \in ScreenSet : Served(s, thread) => Served(s, thread')
    BY <2>1, <2>2 DEF Served
  <2>4. QED
    BY <2>3, ServedStays
<1>5. QED
  BY <1>2, <1>3, <1>4

\* And what it tells is that the viewer came.
LEMMA ServedMoves ==
  ASSUME ServedInv, TypeOK', ThreadIsHonest', UNCHANGED <<ui, bounds>>,
         NEW p \in Peer, NEW viewer \in ViewerOrNone, NEW sent \in BOOLEAN,
         \/ Migrates(p, viewer, sent) \/ Returns(p, viewer, sent)
         \/ Comes(p, viewer, sent)
  PROVE  ServedInv'
<1>1. thread \in ThreadSet
  BY ThreadIsTyped DEF ServedInv
<1>2. CASE sent
  <2>1. events' = events \o Arrival(p, viewer)
    BY <1>2 DEF Migrates, Returns, Comes, Tells, Emits
  <2>2. thread'.active = p /\ thread'.viewer = viewer
    <3>1. CASE Migrates(p, viewer, sent)
      BY <1>1, <3>1 DEF Migrates, ThreadSet
    <3>2. CASE Returns(p, viewer, sent)
      BY <1>1, <1>2, <3>2 DEF Returns, ThreadSet
    <3>3. CASE Comes(p, viewer, sent)
      BY <1>2, <3>3 DEF Comes, Taken, NoThread
    <3>4. QED
      BY <3>1, <3>2, <3>3
  <2>3. QED
    BY <2>1, <2>2, ServedArrival
<1>3. CASE ~sent
  <2>1. sent = FALSE
    BY <1>3
  <2>2. UNCHANGED events
    BY <1>3 DEF Migrates, Returns, Comes, Tells
  <2>3. \/ Migrates(p, viewer, FALSE) \/ Returns(p, viewer, FALSE)
        \/ Comes(p, viewer, FALSE)
    BY <2>1
  <2>4. QED
    BY <2>2, <2>3, ServedUntold
<1>4. QED
  BY <1>2, <1>3

\* The thread tells of every viewer that it learns more of, or that it stops
\* serving, and of every one that comes and could be sent its Config.
LEMMA ServedThread ==
  ASSUME ServedInv, TypeOK', HostThread
  PROVE  ServedInv'
<1>1. UNCHANGED <<ui, bounds>>
  BY DEF HostThread, ThreadHello, ThreadGoodbye, ThreadTimeout, ThreadCommand, threadUnchanged
<1>2. TypeOK /\ ThreadIsHonest /\ ThreadIsHonest'
  BY HonestThread DEF ServedInv
<1>3. thread \in ThreadSet
  BY <1>2, ThreadIsTyped
<1>4. ASSUME NEW kind \in EventKind, NEW peer \in PeerOrNone, NEW viewer \in ViewerOrNone,
             Emits(<<Event(kind, peer, viewer)>>),
             \A s \in ScreenSet :
               Served(s, thread) => Served(After(Event(kind, peer, viewer), s), thread')
      PROVE  ServedInv'
  <2> DEFINE e == Event(kind, peer, viewer)
  <2>1. e \in EventSet
    BY EventTypes
  <2>2. events' = events \o <<e>>
    BY <1>4 DEF Emits
  <2>3. \A s \in ScreenSet : Served(s, thread) => Served(After(e, s), thread')
    BY <1>4
  <2> HIDE DEF e
  <2>4. QED
    BY <1>1, <1>2, <2>1, <2>2, <2>3, ServedOn
<1>5. ASSUME NEW p \in Peer, ThreadHello(p)
      PROVE  ServedInv'
  <2>1. PICK id \in {None, Id(p)}, sent \in BOOLEAN :
          \/ Learns(p, id) \/ Migrates(p, id, sent)
          \/ Returns(p, Or(id, thread.graceViewer), sent)
          \/ Comes(p, id, sent) \/ Asks(p, Renewed(p, id))
    BY <1>2, <1>5, HelloCases
  <2>2. id \in ViewerOrNone
    BY <1>2, IdTypes DEF ViewerOrNone
  <2>3. CASE Learns(p, id)
    <3>1. /\ thread.active = p /\ thread'.active = p /\ thread'.viewer = id
          /\ thread'.untold = thread.untold /\ id = Id(p)
          /\ Emits(<<Event("identity", p, id)>>)
      BY <1>3, <2>1, <2>3 DEF Learns, ThreadSet
    <3>2. ASSUME NEW s \in ScreenSet, Served(s, thread)
          PROVE  Served(After(Event("identity", p, id), s), thread')
      <4>1. After(Event("identity", p, id), s) = [s EXCEPT !.viewer = id]
        BY DEF After, Event
      <4>2. [s EXCEPT !.viewer = id].peer = s.peer /\ [s EXCEPT !.viewer = id].viewer = id
        BY DEF ScreenSet
      <4>3. s.peer # None => Honest(s.peer, id)
        BY <3>1, <3>2, NoneAssumption DEF Served, SameMachine, Honest
      <4>4. QED
        BY <3>1, <3>2, <4>1, <4>2, <4>3 DEF Served
    <3>3. "identity" \in EventKind /\ p \in PeerOrNone
      BY DEF EventKind, PeerOrNone
    <3>4. QED
      BY <2>2, <3>1, <3>2, <3>3, <1>4
  <2>4. CASE Migrates(p, id, sent) \/ Comes(p, id, sent)
    BY <1>1, <1>2, <2>2, <2>4, ServedMoves
  <2>5. CASE Returns(p, Or(id, thread.graceViewer), sent)
    <3>1. Or(id, thread.graceViewer) \in ViewerOrNone
      BY <1>3, <2>2 DEF Or, ThreadSet
    <3>2. QED
      BY <1>1, <1>2, <2>5, <3>1, ServedMoves
  <2>6. CASE Asks(p, Renewed(p, id))
    <3> DEFINE viewer == Renewed(p, id)
    <3>1. viewer \in ViewerOrNone
      BY <1>3, <2>2 DEF Or, Renewed, ThreadSet
    <3> HIDE DEF viewer
    <3>2. /\ thread'.active = thread.active /\ thread'.viewer = thread.viewer
          /\ thread'.untold = thread.untold /\ Emits(<<Event("pending", p, viewer)>>)
      BY <1>3, <2>6 DEF Asks, ThreadSet, viewer
    <3>3. \A s : After(Event("pending", p, viewer), s) = s
      BY DEF After, Event
    <3>4. \A s \in ScreenSet :
            Served(s, thread) => Served(After(Event("pending", p, viewer), s), thread')
      BY <3>2, <3>3 DEF Served
    <3>5. "pending" \in EventKind /\ p \in PeerOrNone
      BY DEF EventKind, PeerOrNone
    <3>6. QED
      BY <3>1, <3>2, <3>4, <3>5, <1>4
  <2>7. QED
    BY <2>1, <2>3, <2>4, <2>5, <2>6
<1>6. ASSUME NEW kind \in {"left", "disconnected"}, NEW peer \in PeerOrNone,
             Emits(<<Event(kind, peer, None)>>), thread'.active = None
      PROVE  ServedInv'
  <2>1. ASSUME NEW s \in ScreenSet
        PROVE  Served(After(Event(kind, peer, None), s), thread')
    <3>1. After(Event(kind, peer, None), s).peer = None
      BY DEF After, Event, ScreenSet
    <3>2. QED
      BY <1>6, <3>1 DEF Served
  <2>2. kind \in EventKind /\ None \in ViewerOrNone
    BY DEF EventKind, ViewerOrNone
  <2>3. QED
    BY <1>4, <1>6, <2>1, <2>2
<1>7. ASSUME thread' = [thread EXCEPT !.grace = None, !.graceViewer = None]
               \/ thread' = [thread EXCEPT !.pending = None, !.pendingViewer = None]
               \/ thread' = thread
      PROVE  /\ thread'.active = thread.active /\ thread'.viewer = thread.viewer
             /\ thread'.untold = thread.untold
  BY <1>3, <1>7 DEF ThreadSet
<1>8. ASSUME UNCHANGED events, thread'.active = thread.active, thread'.viewer = thread.viewer,
             thread'.untold = thread.untold
      PROVE  ServedInv'
  <2>1. \A s \in ScreenSet : Served(s, thread) => Served(s, thread')
    BY <1>8 DEF Served
  <2>2. QED
    BY <1>1, <1>2, <1>8, <2>1, ServedStays
<1>9. ASSUME NEW p \in Peer, ThreadGoodbye(p)
      PROVE  ServedInv'
  <2>1. CASE /\ thread' = [thread EXCEPT !.active = None, !.viewer = None, !.grace = None,
                                         !.graceViewer = None, !.untold = FALSE]
             /\ Emits(<<Event("left", p, None)>>)
    <3>1. thread'.active = None /\ p \in PeerOrNone
      BY <1>3, <2>1 DEF ThreadSet, PeerOrNone
    <3>2. QED
      BY <1>6, <2>1, <3>1
  <2>2. CASE /\ thread' = [thread EXCEPT !.pending = None, !.pendingViewer = None]
             /\ Emits(<<Event("withdrawn", p, None)>>)
    <3>1. \A s : After(Event("withdrawn", p, None), s) = s
      BY DEF After, Event
    <3>2. \A s \in ScreenSet :
            Served(s, thread) => Served(After(Event("withdrawn", p, None), s), thread')
      BY <1>7, <2>2, <3>1 DEF Served
    <3>3. "withdrawn" \in EventKind /\ p \in PeerOrNone /\ None \in ViewerOrNone
      BY DEF EventKind, PeerOrNone, ViewerOrNone
    <3>4. QED
      BY <1>4, <2>2, <3>2, <3>3
  <2>3. CASE /\ thread' = [thread EXCEPT !.grace = None, !.graceViewer = None]
             /\ UNCHANGED events
    BY <1>7, <1>8, <2>3
  <2>4. QED
    BY <1>9, <2>1, <2>2, <2>3, GoodbyeCases
<1>10. ASSUME ThreadTimeout
       PROVE  ServedInv'
  <2>1. CASE thread.active # None
    <3>1. /\ Emits(<<Event("disconnected", thread.active, None)>>)
          /\ thread'.active = None /\ thread.active \in PeerOrNone
      BY <1>3, <1>10, <2>1 DEF ThreadTimeout, ThreadSet
    <3>2. QED
      BY <1>6, <3>1
  <2>2. CASE thread.active = None
    <3>1. /\ thread' = [thread EXCEPT !.grace = None, !.graceViewer = None]
          /\ UNCHANGED events
      BY <1>10, <2>2 DEF ThreadTimeout
    <3>2. QED
      BY <1>7, <1>8, <3>1
  <2>3. QED
    BY <2>1, <2>2
<1>11. ASSUME ThreadCommand
       PROVE  ServedInv'
  <2>1. ASSUME NEW p \in Peer, NEW sent \in BOOLEAN, Comes(p, thread.pendingViewer, sent)
        PROVE  ServedInv'
    <3>1. thread.pendingViewer \in ViewerOrNone
      BY <1>3 DEF ThreadSet
    <3>2. QED
      BY <1>1, <1>2, <2>1, <3>1, ServedMoves
  <2>2. CASE /\ thread' = [thread EXCEPT !.pending = None, !.pendingViewer = None]
             /\ UNCHANGED events
    BY <1>7, <1>8, <2>2
  <2>3. CASE UNCHANGED <<thread, events>>
    BY <1>7, <1>8, <2>3
  <2>4. QED
    BY <1>2, <1>11, <2>1, <2>2, <2>3, CommandCases
<1>12. QED
  BY <1>5, <1>9, <1>10, <1>11 DEF HostThread

\* Nothing comes, and the thread and the screen stay.
LEMMA ServedSame ==
  ASSUME ServedInv, TypeOK', UNCHANGED <<events, thread, bounds>>, ui'.peer = ui.peer,
         ui'.viewer = ui.viewer
  PROVE  ServedInv'
<1>1. ThreadIsHonest'
  BY ServedFrames DEF ServedInv
<1>2. \A s \in ScreenSet : Served(s, thread) => Served(s, thread')
  OBVIOUS
<1>3. QED
  BY <1>1, <1>2, ServedStays

\* The window follows what it is told, one event at a time; and stopping
\* takes everything back.
LEMMA ServedWindow ==
  ASSUME ServedInv, TypeOK', Window
  PROVE  ServedInv'
<1>1. CASE Stop
  <2>1. events' = <<>> /\ thread' = NoThread /\ ui' = NoUi
    BY <1>1 DEF Stop, Stopped
  <2>2. QED
    BY <2>1, ServedNobody
<1>2. CASE ShutDown \/ FrameStart \/ WatchSaved
  <2>1. UNCHANGED <<events, thread, ui, bounds>>
    BY <1>2 DEF ShutDown, FrameStart, WatchSaved, appVars, sessionVars
  <2>2. QED
    BY <2>1, ServedSame
<1>3. CASE HandleEvent
  <2> DEFINE e == Head(events)
  <2>1. events \in Seq(EventSet) /\ events # <<>>
    <3>1. events \in Seq(EventSet) /\ due \in 0..Len(events) /\ due > 0
      BY <1>3 DEF HandleEvent, ServedInv, TypeOK, SessionTypes, EventSet
    <3>2. QED
      BY <3>1
  <2>2. CASE e.kind = "ended"
    <3>1. events' = <<>> /\ thread' = NoThread /\ ui' = NoUi
      BY <1>3, <2>2 DEF HandleEvent, Stopped
    <3>2. QED
      BY <3>1, ServedNobody
  <2>3. CASE e.kind # "ended"
    <3>1. ui' = Shown(e) /\ events' = Tail(events) /\ thread' = thread
      BY <1>3, <2>3 DEF HandleEvent
    <3>2. e \in EventSet
      BY <2>1, HeadTailProperties
    <3>3. ui \in [peer : PeerOrNone, viewer : ViewerOrNone, pending : PeerOrNone,
                  pendingViewer : ViewerOrNone, allow : BOOLEAN,
                  ticked : ViewerOrNone, accepting : PeerOrNone]
      BY DEF ServedInv, TypeOK, WindowTypes
    <3> HIDE DEF e
    <3>4. [peer |-> Shown(e).peer, viewer |-> Shown(e).viewer] = After(e, Screen)
      BY <3>2, <3>3 DEF Shown, ShowRequest, After, Screen, EventSet, EventKind
    <3>5. Screen' = After(e, Screen)
      BY <3>1, <3>4 DEF Screen
    <3>6. PICK to \in ScreenSet : Leads(Screen, events, to) /\ Served(to, thread)
      BY DEF ServedInv
    <3>7. Leads(After(e, Screen), Tail(events), to)
      BY <2>1, <3>6, LeadsFrom DEF e
    <3>8. Leads(Screen', events', to)
      BY <3>1, <3>5, <3>7
    <3>9. UNCHANGED <<bounds, thread>>
      BY <1>3, <3>1 DEF HandleEvent
    <3>10. ThreadIsHonest' /\ Served(to, thread)'
      BY <3>6, <3>9, ServedFrames DEF ServedInv
    <3>11. QED
      BY <3>8, <3>10 DEF ServedInv
  <2>4. QED
    BY <2>2, <2>3
<1>4. QED
  BY <1>1, <1>2, <1>3 DEF Window

\* Whoever is served is shown when all is handled, under no other identity; and
\* no one else is, unless a Config could not be sent and nothing was told of it.
THEOREM ShownAreServed == Spec => []ShownPeerIsServed
<1>1. Init => ServedInv
  BY InitTypes, ServedNobody DEF Init, Fresh
<1>2. ServedInv /\ [Next]_vars => ServedInv'
  <2> SUFFICES ASSUME ServedInv, [Next]_vars
               PROVE  ServedInv'
    OBVIOUS
  <2>1. TypeOK'
    BY NextTypes DEF ServedInv
  <2>2. CASE /\ UNCHANGED <<events, thread, bounds>>
             /\ ui'.peer = ui.peer /\ ui'.viewer = ui.viewer
    BY <2>1, <2>2, ServedSame
  <2>3. CASE Disk
    <3>1. CASE CrashAndRestart
      BY <2>1, <3>1, ServedNobody DEF CrashAndRestart
    <3>2. CASE WriteFails \/ Stage \/ Rename
      BY <2>2, <3>2 DEF WriteFails, Stage, Rename, sessionVars
    <3>3. QED
      BY <2>3, <3>1, <3>2 DEF Disk
  <2>4. CASE SharePage
    <3>1. ui \in [peer : PeerOrNone, viewer : ViewerOrNone, pending : PeerOrNone,
                  pendingViewer : ViewerOrNone, allow : BOOLEAN,
                  ticked : ViewerOrNone, accepting : PeerOrNone]
      BY DEF ServedInv, TypeOK, WindowTypes
    <3>2. UNCHANGED <<events, thread, bounds>>
      BY <2>4 DEF SharePage, StartHost, TickAlwaysAllow, AcceptPending, Accept, RejectPending,
                  ForgetViewer, sessionVars
    <3>3. ui'.peer = ui.peer /\ ui'.viewer = ui.viewer
      BY <2>4, <3>1 DEF SharePage, StartHost, TickAlwaysAllow, AcceptPending, Accept,
                        RejectPending, ForgetViewer
    <3>4. QED
      BY <2>2, <3>2, <3>3
  <2>5. CASE ConnectPageNext
    <3>1. UNCHANGED <<thread, ui, bounds>>
      BY <2>5 DEF ConnectPageNext, Connect, ConnectSaved, SaveForm, OpenEditor, SaveEditor,
                  RemoveEdited, CloseEditor, ViewerEnds, Started, sessionVars
    <3>2. CASE ViewerEnds
      <4> DEFINE e == Event("ended", None, None)
      <4>1. events' = events \o <<e>>
        BY <3>2 DEF ViewerEnds, Emits
      <4>2. e \in EventSet
        BY EventTypes DEF EventKind, PeerOrNone, ViewerOrNone
      <4>3. \A s \in ScreenSet : Served(s, thread) => Served(After(e, s), thread')
        BY <3>1 DEF After, Event, Served
      <4>4. ThreadIsHonest'
        BY <3>1, ServedFrames DEF ServedInv
      <4> HIDE DEF e
      <4>5. QED
        BY <2>1, <3>1, <4>1, <4>2, <4>3, <4>4, ServedOn
    <3>3. CASE ~ViewerEnds
      <4>1. UNCHANGED events
        BY <2>5, <3>3 DEF ConnectPageNext, Connect, ConnectSaved, SaveForm, OpenEditor,
                          SaveEditor, RemoveEdited, CloseEditor, Started, sessionVars
      <4>2. QED
        BY <2>2, <3>1, <4>1
    <3>4. QED
      BY <3>2, <3>3
  <2>6. CASE UNCHANGED appVars
    BY <2>2, <2>6 DEF appVars, sessionVars
  <2>7. CASE UNCHANGED vars
    BY <2>6, <2>7 DEF vars
  <2>8. QED
    BY <2>1, <2>3, <2>4, <2>5, <2>6, <2>7, ServedThread, ServedWindow DEF Next
<1>3. ServedInv => ShownPeerIsServed
  <2> SUFFICES ASSUME ServedInv, events = <<>>
               PROVE  /\ thread.active # None =>
                           ui.peer # None /\ SameMachine(ui.peer, thread.active)
                      /\ ui.peer # None => ui.viewer \in {None, Id(ui.peer)}
                      /\ ~thread.untold =>
                           /\ ui.peer = thread.active
                           /\ ui.peer # None => ui.viewer = thread.viewer
    BY DEF ShownPeerIsServed
  <2>1. PICK to \in ScreenSet : Leads(Screen, events, to) /\ Served(to, thread)
    BY DEF ServedInv
  <2>2. Screen = to
    BY <2>1, LeadsNoFurther
  <2>3. to.peer = ui.peer /\ to.viewer = ui.viewer
    BY <2>2 DEF Screen
  <2>4. QED
    BY <2>1, <2>3 DEF Served, Honest
<1>4. QED
  BY <1>1, <1>2, <1>3, PTL DEF Spec

==============================================================================
