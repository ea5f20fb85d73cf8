----------------------------- MODULE DesktopApp -----------------------------
(* The window of the desktop app (echobind-desktop/src/app.rs, the parts of*)
(* its state that steer something), the lists it keeps on disk (trust.rs,  *)
(* saved.rs) through crashes and failed writes, and the thread that checks *)
(* saved hosts (Presence).                                                 *)
(*                                                                         *)
(* The session it runs is another module's subject (HostSession); here it  *)
(* is what the window sees of it: commands go in, events come out, and a   *)
(* host's network thread reads the trusted ids on its own.                 *)
(*                                                                         *)
(* Order and times of the lists are left out: they are sets.               *)
EXTENDS Presence, Sequences

CONSTANTS
  Peer,        \* where viewers ask from: an IP and a port
  Viewer,      \* identities
  Name,        \* names a session may be saved under
  Bounds       \* the instances checked (see the variable bounds)

CONSTANT None

ASSUME NoneAssumption == None \notin Peer \cup Viewer \cup Address \cup Name

ASSUME BoundsAssumption ==
  \A b \in Bounds : /\ b.id \in [Peer -> Viewer] /\ b.crashes \in Nat
                    /\ \A p \in Peer : b.says[p] \subseteq {None, b.id[p]}
                    /\ b.names \subseteq Name /\ b.addresses \subseteq Address

VARIABLES
  bounds,       \* bound: the mode, [Peer -> Viewer] on whose machine a peer is
                \*   (one viewer on each), what identities its Hellos carry (one
                \*   with nothing to say never asks), the names and addresses
                \*   typed, how often the program dies, whether the disk and
                \*   sends fail, the most events and commands queued, and whether
                \*   hosts are probed
  crashes,      \* bound: how often the program died
  list,         \* TrustedViewers (ids) or SavedSessions, as of the mode
  file,         \* what its file holds; no file reads as an empty list
  writing,      \* write_atomically: "no", "staging" or "renaming"
  granted,      \* ghost: whom the user always allows,
  durable,      \*   and as of the last write that returned
  session,      \* "none", "running"
  shutdown,     \* an earlier session is still being stopped
  events,       \* from the session, not yet drained
  due,          \* events of this frame's drain still to be handled
  commands,     \* to the session
  thread,       \* the host's network thread: active, viewer, pending, grace,
                \*   untold (ghost): a viewer moved or had to go for another,
                \*   and no event has said so
  ui,           \* what the window shows: peer, viewer, pending, pendingViewer,
                \*   allow (always_allow), ticked (ghost), accepting
  form          \* form_origin and the editor's original

fileVars == <<list, file, writing, granted, durable>>
sessionVars == <<session, shutdown, events, due, commands, thread>>
appVars == <<bounds, crashes, fileVars, sessionVars, ui, form>>
vars == <<appVars, presenceVars>>

Id(p) == bounds.id[p]

Hosting == bounds.mode = "host"

NoThread == [active |-> None, viewer |-> None, pending |-> None,
             pendingViewer |-> None, grace |-> None, graceViewer |-> None,
             untold |-> FALSE]
NoUi == [peer |-> None, viewer |-> None, pending |-> None,
         pendingViewer |-> None, allow |-> FALSE, ticked |-> None,
         accepting |-> None]
NoForm == [origin |-> None, editor |-> None]

\* EchobindApp::new, without a window yet.
Fresh ==
  /\ session = "none" /\ shutdown = FALSE /\ events = <<>> /\ due = 0
  /\ commands = <<>> /\ thread = NoThread /\ ui = NoUi /\ form = NoForm

Init ==
  /\ bounds \in Bounds /\ crashes = 0
  /\ list = {} /\ file = {} /\ writing = "no"
  /\ granted = {} /\ durable = {} /\ Fresh
  /\ PresenceInit /\ probing = IF bounds.probing THEN "top" ELSE "unscheduled"
  /\ hosts \in [Address -> {"gone"}]

----------------------------------------------------------------------------
(* The lists and their files.                                              *)

\* changed(), persist(): memory first, then disk.
Persist(newList) ==
  list' = newList /\ writing' = "staging" /\ UNCHANGED <<file, durable>>

WriteFails ==
  /\ writing # "no" /\ bounds.failures /\ writing' = "no"
  /\ UNCHANGED <<bounds, crashes, list, file, granted, durable, sessionVars, ui,
                 form, presenceVars>>

\* fs::write to the file beside.
Stage ==
  /\ writing = "staging" /\ writing' = "renaming"
  /\ UNCHANGED <<bounds, crashes, list, file, granted, durable, sessionVars, ui,
                 form, presenceVars>>

\* fs::rename over the list's own file.
Rename ==
  /\ writing = "renaming" /\ writing' = "no" /\ file' = list /\ durable' = granted
  /\ UNCHANGED <<bounds, crashes, list, granted, sessionVars, ui, form, presenceVars>>

\* The program dies, at any moment, and is started again: what the user
\* decided since the last write that returned is lost. A file half written is
\* the one beside.
CrashAndRestart ==
  /\ crashes < bounds.crashes /\ crashes' = crashes + 1
  /\ list' = file /\ writing' = "no" /\ granted' = durable
  /\ UNCHANGED <<file, durable>>
  /\ session' = "none" /\ shutdown' = FALSE /\ events' = <<>> /\ due' = 0
  /\ commands' = <<>> /\ thread' = NoThread /\ ui' = NoUi /\ form' = NoForm
  /\ active' = FALSE /\ targets' = {} /\ statuses' = [a \in {} |-> "checking"]
  /\ asked' = {} /\ probes' = NoProbes
  /\ probing' = IF probing = "unscheduled" THEN probing ELSE "top"
  /\ UNCHANGED <<bounds, hosts>>

----------------------------------------------------------------------------
(* Stopping, and the shutdown thread.                                      *)

\* stop(): a session is handed to a thread that joins it; everything shown of
\* it is reset.
Stopped ==
  /\ session' = "none" /\ shutdown' = (shutdown \/ session = "running")
  /\ events' = <<>> /\ due' = 0 /\ commands' = <<>> /\ thread' = NoThread
  /\ ui' = NoUi

\* The window handles its buttons when it has handled the events it drained
\* and no write holds it up.
Idle == writing = "no" /\ due = 0 /\ ui.accepting = None

Stop ==
  /\ Idle /\ session = "running" /\ Stopped
  /\ UNCHANGED <<bounds, crashes, fileVars, form, presenceVars>>

\* The session's threads have ended; the next frame sees it.
ShutDown ==
  /\ shutdown /\ shutdown' = FALSE
  /\ UNCHANGED <<bounds, crashes, fileVars, session, events, due, commands,
                 thread, ui, form, presenceVars>>

\* start_host.
StartHost ==
  /\ Hosting /\ Idle /\ session = "none" /\ ~shutdown
  /\ session' = "running"
  /\ UNCHANGED <<bounds, crashes, fileVars, shutdown, events, due, commands,
                 thread, ui, form, presenceVars>>

----------------------------------------------------------------------------
(* The host's network thread, as the window knows it (spawn_host_network). *)

Emits(new) == events' = events \o new /\ Len(events') <= bounds.events

Event(kind, peer, viewer) == [kind |-> kind, peer |-> peer, viewer |-> viewer]

\* Connected, and the identity behind it if it is known.
Arrival(peer, viewer) ==
  <<Event("connected", peer, None)>>
    \o (IF viewer = None THEN <<>> ELSE <<Event("identity", peer, viewer)>>)

threadUnchanged ==
  UNCHANGED <<bounds, crashes, fileVars, session, shutdown, due, ui, form, presenceVars>>

\* A restarted viewer has another port and the same IP.
SameMachine(p, q) == Id(p) = Id(q)

Returning(p) == thread.grace # None /\ SameMachine(thread.grace, p)

Or(a, b) == IF a # None THEN a ELSE b

\* Only a Config that could be sent makes events: Error, the other, is a notice
\* of the window that steers nothing.
Tells(sent, peer, viewer) ==
  IF sent THEN Emits(Arrival(peer, viewer)) ELSE bounds.unsent /\ UNCHANGED events

\* The slot is taken by an approved viewer, whoever had it; and emptied again
\* if the Config cannot be sent (active_viewer stays then, but is not read
\* while nobody has the slot: here it is None).
Taken(peer, viewer, sent) ==
  [NoThread EXCEPT !.active = IF sent THEN peer ELSE None,
                   !.viewer = IF sent THEN viewer ELSE None,
                   !.untold = ~sent /\ (thread.untold \/ thread.active # None)]

\* A Hello of an older viewer, or the plain one before the identified one,
\* carries no identity: None.
ThreadHello(p) ==
  /\ session = "running" /\ Hosting
  /\ \E id \in bounds.says[p], sent \in BOOLEAN :
       \/ /\ thread.active = p /\ thread.viewer = None /\ id # None
          /\ thread' = [thread EXCEPT !.viewer = id]
          /\ Emits(<<Event("identity", p, id)>>)
       \/ /\ thread.active # None /\ thread.active # p /\ SameMachine(thread.active, p)
          /\ thread' = [thread EXCEPT !.active = p, !.viewer = id, !.grace = None,
                                      !.graceViewer = None, !.untold = ~sent]
          /\ Tells(sent, p, id)
       \/ /\ thread.active = None /\ Returning(p)
          /\ LET viewer == Or(id, thread.graceViewer)
             IN  /\ thread' = IF sent
                              THEN [thread EXCEPT !.active = p, !.viewer = viewer,
                                      !.grace = None, !.graceViewer = None,
                                      !.untold = FALSE]
                              ELSE [thread EXCEPT !.grace = p, !.graceViewer = viewer]
                 /\ Tells(sent, p, viewer)
       \/ /\ thread.active = None /\ ~Returning(p)
          /\ id # None /\ id \in list
          /\ thread' = Taken(p, id, sent)
          /\ Tells(sent, p, id)
       \/ /\ thread.active = None /\ ~Returning(p) /\ id \notin list
          /\ LET viewer == IF thread.pending = p THEN Or(id, thread.pendingViewer)
                           ELSE id
             IN  /\ thread.pending # p \/ viewer # thread.pendingViewer
                 /\ thread' = [thread EXCEPT !.pending = p, !.pendingViewer = viewer]
                 /\ Emits(<<Event("pending", p, viewer)>>)
  /\ threadUnchanged /\ UNCHANGED commands

ThreadGoodbye(p) ==
  /\ session = "running"
  /\ \/ /\ thread.active = p
        /\ thread' = [thread EXCEPT !.active = None, !.viewer = None, !.grace = None,
                                    !.graceViewer = None, !.untold = FALSE]
        /\ Emits(<<Event("left", p, None)>>)
     \/ /\ thread.active # p /\ thread.pending = p
        /\ thread' = [thread EXCEPT !.pending = None, !.pendingViewer = None]
        /\ Emits(<<Event("withdrawn", p, None)>>)
     \/ /\ thread.active # p /\ thread.pending # p /\ thread.grace = p
        /\ thread' = [thread EXCEPT !.grace = None, !.graceViewer = None]
        /\ UNCHANGED events
  /\ threadUnchanged /\ UNCHANGED commands

\* CONNECTION_TIMEOUT, and RECONNECT_GRACE.
ThreadTimeout ==
  /\ session = "running"
  /\ \/ /\ thread.active # None
        /\ thread' = [thread EXCEPT !.active = None, !.viewer = None,
                        !.grace = thread.active, !.graceViewer = thread.viewer,
                        !.untold = FALSE]
        /\ Emits(<<Event("disconnected", thread.active, None)>>)
     \/ /\ thread.active = None /\ thread.grace # None
        /\ thread' = [thread EXCEPT !.grace = None, !.graceViewer = None]
        /\ UNCHANGED events
  /\ threadUnchanged /\ UNCHANGED commands

\* Accept and Reject count for the request that is pending.
ThreadCommand ==
  /\ session = "running" /\ commands # <<>>
  /\ commands' = Tail(commands)
  /\ LET command == Head(commands)
         matches == thread.pending = command.peer
     IN  CASE command.kind = "accept" /\ matches ->
                \E sent \in BOOLEAN :
                  /\ thread' = Taken(command.peer, thread.pendingViewer, sent)
                  /\ Tells(sent, command.peer, thread.pendingViewer)
           [] command.kind = "reject" /\ matches ->
                /\ thread' = [thread EXCEPT !.pending = None, !.pendingViewer = None]
                /\ UNCHANGED events
           [] OTHER -> UNCHANGED <<thread, events>>
  /\ threadUnchanged

HostThread ==
  \/ \E p \in Peer : ThreadHello(p) \/ ThreadGoodbye(p)
  \/ ThreadTimeout \/ ThreadCommand

----------------------------------------------------------------------------
(* A frame: events drained at its start are handled one by one, then the   *)
(* hosts to watch are told, then the buttons.                              *)

FrameStart ==
  /\ Idle /\ session = "running" /\ events # <<>> /\ due' = Len(events)
  /\ UNCHANGED <<bounds, crashes, fileVars, session, shutdown, events, commands,
                 thread, ui, form, presenceVars>>

\* presence.watch.
WatchSaved ==
  /\ Idle /\ ~Hosting
  /\ Watch({s.address : s \in list}, session = "none")
  /\ UNCHANGED <<appVars, hosts, asked, probes>>

\* Mutant: the switch stays as it was for the request before.
ShowRequestAsBefore(e) ==
  [ui EXCEPT !.pending = e.peer, !.pendingViewer = e.viewer]

\* A new viewer starts unchecked; one that repeats its request keeps what the
\* host already chose.
ShowRequest(e) ==
  [ui EXCEPT !.pending = e.peer, !.pendingViewer = e.viewer,
             !.allow = IF ui.pending = e.peer THEN @ ELSE FALSE,
             !.ticked = IF ui.pending = e.peer THEN @ ELSE None]

\* Mutant: a viewer that has left stays on the screen.
ShownWithoutLeaving(e) ==
  CASE e.kind = "pending" -> ShowRequest(e)
    [] e.kind = "connected" ->
         [ui EXCEPT !.peer = e.peer, !.viewer = None, !.pending = None,
                    !.pendingViewer = None]
    [] e.kind = "disconnected" -> [ui EXCEPT !.peer = None, !.pending = None]
    [] e.kind = "withdrawn" ->
         IF ui.pending = e.peer THEN [ui EXCEPT !.pending = None] ELSE ui
    [] e.kind = "identity" -> [ui EXCEPT !.viewer = e.viewer]
    [] OTHER -> ui

\* process_session_updates, what each event shows.
Shown(e) ==
  CASE e.kind = "pending" -> ShowRequest(e)
    [] e.kind = "connected" ->
         [ui EXCEPT !.peer = e.peer, !.viewer = None, !.pending = None,
                    !.pendingViewer = None]
    [] e.kind = "disconnected" -> [ui EXCEPT !.peer = None, !.pending = None]
    [] e.kind = "left" -> [ui EXCEPT !.peer = None]
    [] e.kind = "withdrawn" ->
         IF ui.pending = e.peer THEN [ui EXCEPT !.pending = None] ELSE ui
    [] e.kind = "identity" -> [ui EXCEPT !.viewer = e.viewer]
    [] OTHER -> ui

\* Where a trusted viewer was last seen is kept current, which writes the
\* list; nobody becomes trusted by it.
HandleEvent ==
  /\ due > 0 /\ writing = "no"
  /\ LET e == Head(events)
     IN  IF e.kind = "ended"
         THEN Stopped /\ UNCHANGED fileVars
         ELSE /\ ui' = Shown(e)
              /\ due' = due - 1 /\ events' = Tail(events)
              /\ UNCHANGED <<session, shutdown, commands, thread>>
              /\ IF e.kind = "identity" /\ ui.peer # None /\ e.viewer \in list
                 THEN Persist(list \cup {e.viewer}) /\ UNCHANGED granted
                 ELSE UNCHANGED fileVars
  /\ UNCHANGED <<bounds, crashes, form, presenceVars>>

----------------------------------------------------------------------------
(* The buttons of the share page.                                          *)

\* The switch of the request dialog; there for a viewer that has an identity.
TickAlwaysAllow ==
  /\ Idle /\ ui.pending # None /\ ui.pendingViewer # None
  /\ ui' = [ui EXCEPT !.allow = ~@,
                      !.ticked = IF ui.allow THEN None ELSE ui.pendingViewer]
  /\ UNCHANGED <<bounds, crashes, fileVars, sessionVars, form, presenceVars>>

\* accept_pending: the viewer is trusted first; then the session is told.
AcceptPending ==
  /\ Hosting /\ Idle /\ ui.pending # None
  /\ ui' = [ui EXCEPT !.accepting = ui.pending]
  /\ IF ui.allow /\ ui.pendingViewer # None
     THEN /\ Persist(list \cup {ui.pendingViewer})
          /\ granted' = granted \cup {ui.ticked}
     ELSE UNCHANGED fileVars
  /\ UNCHANGED <<bounds, crashes, sessionVars, form, presenceVars>>

Accept ==
  /\ ui.accepting # None /\ writing = "no" /\ Len(commands) < bounds.commands
  /\ commands' = Append(commands, [kind |-> "accept", peer |-> ui.accepting])
  /\ ui' = [ui EXCEPT !.accepting = None]
  /\ UNCHANGED <<bounds, crashes, fileVars, session, shutdown, events, due,
                 thread, form, presenceVars>>

RejectPending ==
  /\ Idle /\ ui.pending # None /\ Len(commands) < bounds.commands
  /\ commands' = Append(commands, [kind |-> "reject", peer |-> ui.pending])
  /\ ui' = [ui EXCEPT !.pending = None]
  /\ UNCHANGED <<bounds, crashes, fileVars, session, shutdown, events, due,
                 thread, form, presenceVars>>

ForgetViewer ==
  /\ Idle /\ Hosting
  /\ \E v \in list : Persist(list \ {v}) /\ granted' = granted \ {v}
  /\ UNCHANGED <<bounds, crashes, sessionVars, ui, form, presenceVars>>

SharePage ==
  StartHost \/ TickAlwaysAllow \/ AcceptPending \/ Accept \/ RejectPending \/ ForgetViewer

----------------------------------------------------------------------------
(* The connect page: saved sessions, the form and the editor.              *)

Session(address, name) == [address |-> address, name |-> name]

At(sessions, address) == {s \in sessions : s.address = address}

\* Mutant: the session the form came from is looked for first.
RememberPreviousFirst(sessions, address, name, previous) ==
  LET moved == {s \in At(sessions, previous) : s.name = name}
      replaced == IF moved # {} THEN moved ELSE At(sessions, address)
  IN  (sessions \ replaced) \cup {Session(address, name)}

\* remember(): one saved at the address is renamed; else the one the form came
\* from moves there, if it kept its name.
Remember(sessions, address, name, previous) ==
  LET moved == {s \in At(sessions, previous) : s.name = name}
      replaced == IF At(sessions, address) # {} THEN At(sessions, address) ELSE moved
  IN  (sessions \ replaced) \cup {Session(address, name)}

\* The name typed, or the one the address is saved under; nothing typed and
\* nothing saved is not remembered.
NameFor(address, typed) ==
  IF typed # None \/ At(list, address) = {} THEN typed
  ELSE (CHOOSE s \in At(list, address) : TRUE).name

Remembered(address, typed, origin) ==
  LET name == NameFor(address, typed)
  IN  IF name = None THEN UNCHANGED <<fileVars, form>>
      ELSE /\ Persist(Remember(list, address, name, origin)) /\ UNCHANGED granted
           /\ form' = [form EXCEPT !.origin = address]

ConnectPage == Idle /\ ~Hosting /\ session = "none" /\ form.editor = None

Started ==
  /\ session' = "running"
  /\ UNCHANGED <<shutdown, events, due, commands, thread, ui>>

\* connect(), with what the form says; a name may be left out.
Connect ==
  /\ ConnectPage /\ ~shutdown
  /\ \E address \in bounds.addresses, typed \in bounds.names \cup {None} :
       Remembered(address, typed, form.origin)
  /\ Started /\ UNCHANGED <<bounds, crashes, presenceVars>>

\* connect_saved(): the form is loaded from the session first. While an
\* earlier session stops, that is all.
ConnectSaved ==
  /\ ConnectPage
  /\ \E s \in list :
       IF shutdown
       THEN /\ form' = [form EXCEPT !.origin = s.address]
            /\ UNCHANGED <<fileVars, sessionVars, ui>>
       ELSE Remembered(s.address, s.name, s.address) /\ Started
  /\ UNCHANGED <<bounds, crashes, presenceVars>>

\* save_form().
SaveForm ==
  /\ ConnectPage
  /\ \E address \in bounds.addresses, typed \in bounds.names :
       Remembered(address, typed, form.origin)
  /\ UNCHANGED <<bounds, crashes, sessionVars, ui, presenceVars>>

OpenEditor ==
  /\ ConnectPage
  /\ \E s \in list : form' = [form EXCEPT !.editor = s.address]
  /\ UNCHANGED <<bounds, crashes, fileVars, sessionVars, ui, presenceVars>>

\* save_editor(), update(): not onto an address another session has.
SaveEditor ==
  /\ ~Hosting /\ Idle /\ form.editor # None
  /\ \E address \in bounds.addresses, name \in bounds.names :
       /\ address = form.editor \/ At(list, address) = {}
       /\ Persist((list \ At(list, form.editor)) \cup {Session(address, name)})
       /\ form' = [origin |-> IF form.origin = form.editor /\ session = "none"
                              THEN address ELSE form.origin,
                   editor |-> None]
  /\ UNCHANGED <<bounds, crashes, granted, sessionVars, ui, presenceVars>>

\* remove_edited().
RemoveEdited ==
  /\ ~Hosting /\ Idle /\ form.editor # None
  /\ Persist(list \ At(list, form.editor))
  /\ form' = [origin |-> IF form.origin = form.editor THEN None ELSE form.origin,
              editor |-> None]
  /\ UNCHANGED <<bounds, crashes, granted, sessionVars, ui, presenceVars>>

CloseEditor ==
  /\ ~Hosting /\ Idle /\ form.editor # None /\ form' = [form EXCEPT !.editor = None]
  /\ UNCHANGED <<bounds, crashes, fileVars, sessionVars, ui, presenceVars>>

\* The viewer's session is refused, or ends.
ViewerEnds ==
  /\ ~Hosting /\ session = "running" /\ events = <<>>
  /\ Emits(<<Event("ended", None, None)>>)
  /\ UNCHANGED <<bounds, crashes, fileVars, session, shutdown, due, commands,
                 thread, ui, form, presenceVars>>

ConnectPageNext ==
  \/ Connect \/ ConnectSaved \/ SaveForm \/ OpenEditor \/ SaveEditor
  \/ RemoveEdited \/ CloseEditor \/ ViewerEnds

----------------------------------------------------------------------------

Disk == WriteFails \/ Stage \/ Rename \/ CrashAndRestart
Window == Stop \/ ShutDown \/ FrameStart \/ HandleEvent \/ WatchSaved

Next ==
  \/ Disk \/ Window \/ SharePage \/ HostThread \/ ConnectPageNext
  \/ PresenceNext /\ UNCHANGED appVars

Spec == Init /\ [][Next]_vars

\* Threads are scheduled and clocks go on, every frame of the window watches
\* before its buttons do anything, and writes return; and of the probes of a
\* host that stays, not all are lost.
FairSpec ==
  /\ Spec
  /\ SF_vars(WatchSaved) /\ WF_vars(Stage \/ Rename)
  /\ WF_vars(Prober /\ UNCHANGED appVars)
  /\ \A a \in Probed :
       /\ SF_vars(Age(a) /\ UNCHANGED appVars)
       /\ SF_vars(Pass({a}) /\ a \in asked /\ UNCHANGED appVars)

----------------------------------------------------------------------------
(* Properties.                                                             *)

Entry == IF Hosting THEN Viewer ELSE [address : Address, name : Name]

EventKind == {"pending", "connected", "identity", "disconnected", "left",
              "withdrawn", "ended"}

PeerOrNone == Peer \cup {None}
ViewerOrNone == Viewer \cup {None}
AddressOrNone == Address \cup {None}

FileTypes ==
  /\ list \in SUBSET Entry /\ file \in SUBSET Entry
  /\ writing \in {"no", "staging", "renaming"}

SessionTypes ==
  /\ session \in {"none", "running"} /\ shutdown \in BOOLEAN
  /\ events \in Seq([kind : EventKind, peer : PeerOrNone, viewer : ViewerOrNone])
  /\ due \in 0..Len(events)
  /\ commands \in Seq([kind : {"accept", "reject"}, peer : Peer])
  /\ thread \in [active : PeerOrNone, viewer : ViewerOrNone, pending : PeerOrNone,
                 pendingViewer : ViewerOrNone, grace : PeerOrNone,
                 graceViewer : ViewerOrNone, untold : BOOLEAN]

WindowTypes ==
  /\ ui \in [peer : PeerOrNone, viewer : ViewerOrNone, pending : PeerOrNone,
             pendingViewer : ViewerOrNone, allow : BOOLEAN,
             ticked : ViewerOrNone, accepting : PeerOrNone]
  /\ form \in [origin : AddressOrNone, editor : AddressOrNone]

\* Types of what this module adds to Presence.
TypeOK ==
  /\ bounds \in Bounds /\ crashes \in 0..bounds.crashes
  /\ FileTypes /\ SessionTypes /\ WindowTypes

\* "The viewer IDs a sharing host accepts without asking" (trust.rs:20) are
\* those the user switched to "Always allow" and accepted, less those
\* forgotten: whichever request came or was withdrawn meanwhile, however late
\* an identity arrives and whatever could not be written; and a restart comes
\* back to them as of the last write.
TrustIsTheUsers == Hosting => list = granted /\ file = durable

\* Each host is saved once, by its address, in memory and on disk, and the
\* form's origin is one of the saved sessions, so that a later save moves that
\* one (saved.rs:89, app.rs:117).
SavedOnce ==
  ~Hosting =>
    /\ \A sessions \in {list, file} :
         \A s, t \in sessions : s.address = t.address => s = t
    /\ form.origin # None => At(list, form.origin) # {}

\* When all events are handled a viewer that is served is on the screen, with
\* the address of its machine and never with another's identity; and the window
\* shows exactly the viewer served and what is known of it, except since a
\* viewer moved to another port, or lost the host to one just accepted, and the
\* Config that goes with it could not be sent, of which no event tells.
ShownPeerIsServed ==
  Hosting /\ session = "running" /\ events = <<>> /\ due = 0 =>
    /\ thread.active # None => ui.peer # None /\ SameMachine(ui.peer, thread.active)
    /\ ui.peer # None => ui.viewer \in {None, Id(ui.peer)}
    /\ ~thread.untold =>
         ui.peer = thread.active /\ (ui.peer # None => ui.viewer = thread.viewer)

\* Saved, and on the screen: no session runs.
Listed(a) == ~Hosting /\ session = "none" /\ At(list, a) # {} /\ bounds.probing

\* A saved host that stays listed is found out about: it is offline in the end
\* if it does not share, also when it did (ONLINE_FOR), and online again and
\* again if it does, unless there was no socket to ask it with
\* (presence.rs:173).
StatusSettles ==
  \A a \in Probed :
    /\ <>[](Listed(a) /\ hosts[a] # "sharing") => <>[](Status(a) = "offline")
    /\ <>[](Listed(a) /\ hosts[a] = "sharing") =>
         []<>(Status(a) = "online" \/ (a \in DOMAIN probes /\ probes[a] = "no socket"))

============================================================================
