------------------------- MODULE RemoteControlProofs -------------------------
(***************************************************************************)
(* What remote control promises, for any keys, bounds and number of        *)
(* sockets, and however Goodbye, timeouts, late and repeated datagrams,    *)
(* suspensions and new sockets interleave:                                 *)
(*   HostReleasesWhenFree   while nobody is connected no key is down       *)
(*   RemoteKeysAreHeld      once all is settled only keys the user holds,  *)
(*                          or that a deviation pressed, are down          *)
(*   ReleaseWaitsFirst      a suspended viewer will first let go of all    *)
(* The first rests on the order of the injector's queue. The second needs  *)
(* an upper bound of the keys that are down after each event of the stream *)
(* and after each command on its way to the injector; the stream and the   *)
(* injector are both behind the user, and an event that is sent again, or  *)
(* applied again in a new epoch, must not press what the user let go of    *)
(* since.                                                                  *)
(***************************************************************************)
EXTENDS RemoteControl, EventStreamProofs, FiniteSetTheorems

----------------------------------------------------------------------------
(* While nobody is connected: the inductive invariant.                     *)

\* No datagram comes from the port that stands for a free slot.
PortsAreReal == port \in Nat \ {0} /\ \A d \in packets : d.port # 0

\* The injector's queue is a sequence, whatever it carries.
InjectorIsQueue == \E S : injector \in Seq(S)

\* While nobody is connected the last thing the injector is told is to let go,
\* unless it has done that already.
ReleaseIsLast ==
  active = 0 =>
    \/ injector = <<>> /\ hostKeys = {}
    \/ injector # <<>> /\ injector[Len(injector)] = ReleaseAll

ReleaseInv == PortsAreReal /\ InjectorIsQueue /\ ReleaseIsLast

----------------------------------------------------------------------------
(* The steps that touch it.                                                *)

LEMMA ReleaseHoldsAtFirst == Init => ReleaseInv
<1> SUFFICES ASSUME Init PROVE ReleaseInv
  OBVIOUS
<1>1. injector = <<>> /\ hostKeys = {} /\ port = 1 /\ packets = {}
  BY DEF Init
<1>2. InjectorIsQueue
  <2>1. injector \in Seq({})
    BY <1>1, EmptySeq
  <2> QED
    BY <2>1, Zenon DEF InjectorIsQueue
<1> QED
  BY <1>1, <1>2 DEF ReleaseInv, PortsAreReal, ReleaseIsLast

\* What the viewer sends comes from the port it has.
LEMMA SendingKeepsPorts ==
  ASSUME PortsAreReal, port' = port,
         NEW datagrams, packets' = packets \cup From(port, datagrams)
  PROVE  PortsAreReal'
BY DEF PortsAreReal, From

LEMMA AppendedIsQueue ==
  ASSUME InjectorIsQueue, NEW command, injector' = Append(injector, command)
  PROVE  /\ InjectorIsQueue'
         /\ injector' # <<>>
         /\ injector'[Len(injector')] = command
<1>1. PICK S : injector \in Seq(S)
  BY DEF InjectorIsQueue
<1> DEFINE T == S \cup {command}
<1>2. injector \in Seq(T) /\ command \in T
  BY <1>1
<1> HIDE DEF T
<1>3. /\ Append(injector, command) \in Seq(T)
      /\ Append(injector, command) # <<>>
      /\ Len(Append(injector, command)) = Len(injector) + 1
      /\ Append(injector, command)[Len(injector) + 1] = command
  BY <1>2, AppendProperties
<1>4. InjectorIsQueue'
  BY <1>3, Zenon DEF InjectorIsQueue
<1> QED
  BY <1>3, <1>4

LEMMA ReplacedIsReleased ==
  ASSUME ReleaseInv, NEW p, ReplacePeer(p), UNCHANGED <<port, packets>>
  PROVE  ReleaseInv'
<1>1. injector' = Append(injector, ReleaseAll)
  BY DEF ReplacePeer
<1>2. /\ InjectorIsQueue'
      /\ injector' # <<>>
      /\ injector'[Len(injector')] = ReleaseAll
  BY <1>1, AppendedIsQueue DEF ReleaseInv
<1>3. PortsAreReal'
  BY DEF ReleaseInv, PortsAreReal
<1>4. ReleaseIsLast'
  BY <1>2 DEF ReleaseIsLast
<1> QED
  BY <1>2, <1>3, <1>4 DEF ReleaseInv

LEMMA InjectKeepsRelease ==
  ASSUME ReleaseInv, Inject
  PROVE  ReleaseInv'
<1>1. PICK S : injector \in Seq(S)
  BY DEF ReleaseInv, InjectorIsQueue
<1>2. /\ injector # <<>> /\ injector' = Tail(injector)
      /\ active' = active /\ port' = port /\ packets' = packets
      /\ Head(injector) = ReleaseAll => hostKeys' = {}
  BY DEF Inject, link, toHost
<1>3. injector' \in Seq(S) /\ Len(injector') = Len(injector) - 1
  BY <1>1, <1>2, HeadTailProperties
<1>4. InjectorIsQueue'
  BY <1>3, Zenon DEF InjectorIsQueue
<1>5. PortsAreReal'
  BY <1>2 DEF ReleaseInv, PortsAreReal
<1>6. ReleaseIsLast'
  <2> SUFFICES ASSUME active = 0
               PROVE  \/ injector' = <<>> /\ hostKeys' = {}
                      \/ injector' # <<>> /\ injector'[Len(injector')] = ReleaseAll
    BY <1>2 DEF ReleaseIsLast
  <2>1. injector[Len(injector)] = ReleaseAll
    BY <1>2 DEF ReleaseInv, ReleaseIsLast
  <2>2. CASE Len(injector) = 1
    <3>1. Head(injector) = ReleaseAll
      BY <1>1, <2>1, <2>2
    <3>2. injector' = <<>>
      BY <1>3, <2>2, EmptySeq
    <3> QED
      BY <1>2, <3>1, <3>2
  <2>3. CASE Len(injector) # 1
    <3>1. Len(injector) \in Nat /\ Len(injector) > 1
      <4> DEFINE n == Len(injector)
      <4>1. n \in Nat
        BY <1>1, LenProperties
      <4>2. n # 0
        BY <1>1, <1>2, EmptySeq
      <4>3. n # 1
        BY <2>3
      <4> HIDE DEF n
      <4>4. n > 1
        BY <4>1, <4>2, <4>3
      <4> QED
        BY <4>1, <4>4 DEF n
    <3>2. Tail(injector)[Len(injector) - 1] = injector[Len(injector)]
      <4>1. Len(Tail(injector)) = Len(injector) - 1
        BY <1>1, <1>2, HeadTailProperties
      <4>2. \A i \in 1..Len(Tail(injector)) : Tail(injector)[i] = injector[i + 1]
        BY <1>1, <1>2, HeadTailProperties
      <4> QED
        BY <3>1, <4>1, <4>2
    <3>3. injector' # <<>>
      BY <1>3, <3>1
    <3> QED
      BY <1>2, <1>3, <2>1, <3>2, <3>3
  <2> QED
    BY <2>2, <2>3
<1> QED
  BY <1>4, <1>5, <1>6 DEF ReleaseInv

\* Events are taken from a connected viewer only.
LEMMA EventsKeepRelease ==
  ASSUME ReleaseInv, NEW d \in packets, HostReceiveEvents(d)
  PROVE  ReleaseInv'
<1> DEFINE batch == AppliedEvents(applied, d.packet)
<1>1. /\ active = d.port /\ active' = active
      /\ port' = port /\ packets' = packets
      /\ injector' = IF batch = <<>> THEN injector ELSE Append(injector, batch)
  BY DEF HostReceiveEvents, link, toHost
<1> HIDE DEF batch
<1>2. PortsAreReal' /\ active' # 0
  BY <1>1 DEF ReleaseInv, PortsAreReal
<1>3. InjectorIsQueue'
  <2>1. CASE batch = <<>>
    BY <1>1, <2>1 DEF ReleaseInv, InjectorIsQueue
  <2>2. CASE batch # <<>>
    <3>1. injector' = Append(injector, batch)
      BY <1>1, <2>2
    <3> QED
      BY <3>1, AppendedIsQueue DEF ReleaseInv
  <2> QED
    BY <2>1, <2>2
<1> QED
  BY <1>2, <1>3 DEF ReleaseInv, ReleaseIsLast

----------------------------------------------------------------------------
(* Every step keeps it.                                                    *)

LEMMA ScreenKeepsRelease ==
  ASSUME ReleaseInv, Screen
  PROVE  ReleaseInv'
<1>1. UNCHANGED <<active, injector, hostKeys, port>>
  BY Zenon DEF Screen, PressKey, ReleaseKey, UseShortcut, ReleaseKeyboard,
     ReleaseControl, Frame, LoadEnabled, PushInputs, DrainEvents, host, link
<1>2. PortsAreReal'
  <2>1. CASE PushInputs
    <3>1. PICK datagrams : packets' = packets \cup From(port, datagrams)
      BY <2>1 DEF PushInputs
    <3> QED
      BY <1>1, <3>1, SendingKeepsPorts DEF ReleaseInv
  <2>2. CASE ~PushInputs
    <3>1. packets' = packets
      BY <2>2, Zenon DEF Screen, PressKey, ReleaseKey, UseShortcut,
         ReleaseKeyboard, ReleaseControl, Frame, LoadEnabled, DrainEvents, toHost
    <3> QED
      BY <1>1, <3>1 DEF ReleaseInv, PortsAreReal
  <2> QED
    BY <2>1, <2>2
<1> QED
  BY <1>1, <1>2 DEF ReleaseInv, InjectorIsQueue, ReleaseIsLast

LEMMA NetworkKeepsRelease ==
  ASSUME ReleaseInv, Network
  PROVE  ReleaseInv'
<1>1. UNCHANGED <<active, injector, hostKeys>>
  BY Zenon DEF Network, SendHello, ReceiveConfig, ReceiveAck, Resend, Suspend,
     RebuildSocket, Stop, Fail, host
<1>2. PortsAreReal'
  <2>1. ASSUME NEW a, ReceiveAck(a)
        PROVE  PortsAreReal'
    <3>1. port' = port
      BY <2>1 DEF ReceiveAck
    <3>2. PICK datagrams : packets' = packets \cup From(port, datagrams)
      BY <2>1 DEF ReceiveAck
    <3> QED
      BY <3>1, <3>2, SendingKeepsPorts DEF ReleaseInv
  <2>2. CASE Resend
    <3>1. port' = port /\ packets' = packets \cup From(port, RetransmitPackets(sender))
      BY <2>2 DEF Resend
    <3> QED
      BY <3>1, SendingKeepsPorts DEF ReleaseInv
  <2>3. CASE RebuildSocket
    <3>1. port' = port + 1 /\ packets' = packets
      BY <2>3 DEF RebuildSocket
    <3> QED
      BY <3>1 DEF ReleaseInv, PortsAreReal
  <2>4. CASE SendHello \/ ReceiveConfig \/ Suspend \/ Stop \/ Fail
    <3>1. port' = port /\ packets' = packets
      BY <2>4, Zenon DEF SendHello, ReceiveConfig, Suspend, Stop, Fail, link, toHost
    <3> QED
      BY <3>1 DEF ReleaseInv, PortsAreReal
  <2> QED
    BY <2>1, <2>2, <2>3, <2>4 DEF Network
<1> QED
  BY <1>1, <1>2 DEF ReleaseInv, InjectorIsQueue, ReleaseIsLast

LEMMA HostKeepsRelease ==
  ASSUME ReleaseInv, HostNetwork
  PROVE  ReleaseInv'
<1>1. ASSUME NEW p \in hellos, HostReceiveHello(p)
      PROVE  ReleaseInv'
  <2>1. UNCHANGED <<port, packets, hostKeys>>
    BY <1>1 DEF HostReceiveHello, link, toHost
  <2>2. \/ UNCHANGED <<active, injector>>
        \/ ReplacePeer(p)
        \/ ReplacePeer(0)
    BY <1>1 DEF HostReceiveHello
  <2>3. CASE UNCHANGED <<active, injector>>
    BY <2>1, <2>3 DEF ReleaseInv, PortsAreReal, InjectorIsQueue, ReleaseIsLast
  <2> QED
    BY <2>1, <2>2, <2>3, ReplacedIsReleased
<1>2. ASSUME NEW d \in packets, HostReceiveEvents(d)
      PROVE  ReleaseInv'
  BY <1>2, EventsKeepRelease
<1>3. ASSUME NEW p \in goodbyes, HostReceiveGoodbye(p)
      PROVE  ReleaseInv'
  <2>1. ReplacePeer(0) /\ UNCHANGED <<port, packets>>
    BY <1>3 DEF HostReceiveGoodbye, link, toHost
  <2> QED
    BY <2>1, ReplacedIsReleased
<1>4. CASE HostDrop
  <2>1. ReplacePeer(0) /\ UNCHANGED <<port, packets>>
    BY <1>4 DEF HostDrop, link, toHost
  <2> QED
    BY <2>1, ReplacedIsReleased
<1> QED
  BY <1>1, <1>2, <1>3, <1>4 DEF HostNetwork

LEMMA StepKeepsRelease == ReleaseInv /\ [Next]_vars => ReleaseInv'
<1> SUFFICES ASSUME ReleaseInv, [Next]_vars PROVE ReleaseInv'
  OBVIOUS
<1>1. CASE UNCHANGED vars
  <2>1. UNCHANGED <<port, packets, active, injector, hostKeys>>
    BY <1>1 DEF vars, link, host, toHost
  <2> QED
    BY <2>1 DEF ReleaseInv, PortsAreReal, InjectorIsQueue, ReleaseIsLast
<1> QED
  BY <1>1, ScreenKeepsRelease, NetworkKeepsRelease, HostKeepsRelease,
     InjectKeepsRelease DEF Next

----------------------------------------------------------------------------
(* "the host releases everything the viewer held when it disconnects"      *)
(* (README): with the slot free and the injector idle no key is down,      *)
(* however Goodbye, timeouts, late input and returning viewers interleave. *)

THEOREM HostReleasesWhenFree == Spec => []ReleasedWhenFree
<1>1. ReleaseInv => ReleasedWhenFree
  BY DEF ReleaseInv, ReleaseIsLast, ReleasedWhenFree
<1> QED
  BY <1>1, ReleaseHoldsAtFirst, StepKeepsRelease, PTL DEF Spec

----------------------------------------------------------------------------
(* Events, one by one and in a row, and the keys they leave down.          *)

\* Key events tell the key and the direction, and are neither shortcuts nor
\* the release of everything.
LEMMA KeyEventsDiffer ==
  /\ \A k, j, p, q : KeyEvent(k, p) = KeyEvent(j, q) => k = j /\ p = q
  /\ \A k, p, l : KeyEvent(k, p) # Shortcut(l)
  /\ \A k \in Key : ReleaseAll # KeyEvent(k, TRUE) /\ ReleaseAll # KeyEvent(k, FALSE)
<1>1. \A k, p : KeyEvent(k, p).key = k
  BY DEF KeyEvent
<1>2. \A k, p : KeyEvent(k, p).pressed = p
  BY Zenon DEF KeyEvent
<1>3. \A k, p, l : KeyEvent(k, p) # Shortcut(l)
  <2> SUFFICES ASSUME NEW k, NEW l, NEW p, KeyEvent(k, p) = Shortcut(l)
               PROVE  FALSE
    OBVIOUS
  <2>1. DOMAIN KeyEvent(k, p) = {"key", "pressed"}
    BY DEF KeyEvent
  <2>2. DOMAIN Shortcut(l) = {"shortcut"}
    BY DEF Shortcut
  <2> QED BY <2>1, <2>2
<1>4. \A k, j, p, q : KeyEvent(k, p) = KeyEvent(j, q) => k = j /\ p = q
  <2> SUFFICES ASSUME NEW k, NEW j, NEW p, NEW q, KeyEvent(k, p) = KeyEvent(j, q)
               PROVE  k = j /\ p = q
    BY Zenon
  <2>1. KeyEvent(k, p).key = KeyEvent(j, q).key
    BY Zenon
  <2>2. KeyEvent(k, p).pressed = KeyEvent(j, q).pressed
    BY Zenon
  <2>3. k = j
    BY <1>1, <2>1
  <2>4. p = q
    BY <1>2, <2>2
  <2> QED BY <2>3, <2>4, Zenon
<1>5. \A k \in Key : ReleaseAll # KeyEvent(k, TRUE) /\ ReleaseAll # KeyEvent(k, FALSE)
  BY RemoteAssumption
<1> QED BY <1>3, <1>4, <1>5, Zenon

\* An event is a key event, a shortcut or the release of everything.
LEMMA EventKinds ==
  ASSUME NEW e \in Event
  PROVE  \/ e = ReleaseAll
         \/ \E k \in Key : e = KeyEvent(k, TRUE)
         \/ \E k \in Key : e = KeyEvent(k, FALSE)
         \/ \E l \in Letter : e = Shortcut(l)
<1> DEFINE Keys == {KeyEvent(k, pressed) : k \in Key, pressed \in BOOLEAN}
           Shortcuts == {Shortcut(l) : l \in Letter}
<1>1. \/ e \in Keys
      \/ e \in Shortcuts
      \/ e = ReleaseAll
  BY RemoteAssumption
<1>2. ASSUME NEW k \in Key, NEW pressed \in BOOLEAN, e = KeyEvent(k, pressed)
      PROVE  e = KeyEvent(k, TRUE) \/ e = KeyEvent(k, FALSE)
  <2>1. CASE pressed = TRUE
    BY <1>2, <2>1, Zenon
  <2>2. CASE pressed = FALSE
    BY <1>2, <2>2, Zenon
  <2> QED BY <2>1, <2>2, Zenon
<1>3. CASE e \in Keys
  <2>1. PICK k \in Key, pressed \in BOOLEAN : e = KeyEvent(k, pressed)
    BY <1>3
  <2> QED BY <1>2, <2>1, Zenon
<1>4. CASE e \in Shortcuts
  BY <1>4
<1> HIDE DEF Keys, Shortcuts
<1> QED BY <1>1, <1>3, <1>4, Zenon

\* What an event does to the keys that are down.
LEMMA ApplyCases ==
  ASSUME NEW keys, NEW refused, NEW e
  PROVE  /\ e = ReleaseAll => Apply(keys, e, refused) = {}
         /\ \A k \in Key : e = KeyEvent(k, TRUE) =>
              Apply(keys, e, refused) = keys \cup ({k} \ refused)
         /\ \A k \in Key : e = KeyEvent(k, FALSE) =>
              Apply(keys, e, refused) = keys \ {k}
<1> DEFINE P == {KeyEvent(k, TRUE) : k \in Key}
           R == {KeyEvent(k, FALSE) : k \in Key}
<1>1. ReleaseAll \notin P /\ ReleaseAll \notin R
  BY KeyEventsDiffer
<1>2. \A k \in Key : /\ KeyEvent(k, TRUE) \in P /\ KeyEvent(k, TRUE) \notin R
                     /\ KeyEvent(k, FALSE) \in R /\ KeyEvent(k, FALSE) \notin P
  <2>1. TRUE # FALSE
    OBVIOUS
  <2> QED BY <2>1, KeyEventsDiffer, Zenon
<1>4. \A k, p : KeyEvent(k, p).key = k
  BY DEF KeyEvent
<1> HIDE DEF P, R
<1>6. Apply(keys, e, refused) =
        CASE e = ReleaseAll -> {}
          [] e \in P -> keys \cup ({e.key} \ refused)
          [] e \in R -> keys \ {e.key}
          [] OTHER -> AfterShortcut(keys, e.shortcut)
  BY Zenon DEF Apply, P, R
<1>7. e = ReleaseAll => Apply(keys, e, refused) = {}
  BY <1>1, <1>6
<1>8. ASSUME NEW k \in Key, e = KeyEvent(k, TRUE)
      PROVE  Apply(keys, e, refused) = keys \cup ({k} \ refused)
  <2>1. e # ReleaseAll /\ e \in P /\ e \notin R /\ e.key = k
    BY <1>2, <1>4, <1>8, KeyEventsDiffer, Zenon
  <2> QED BY <1>6, <2>1
<1>9. ASSUME NEW k \in Key, e = KeyEvent(k, FALSE)
      PROVE  Apply(keys, e, refused) = keys \ {k}
  <2>1. e # ReleaseAll /\ e \notin P /\ e \in R /\ e.key = k
    BY <1>2, <1>4, <1>9, KeyEventsDiffer, Zenon
  <2> QED BY <1>6, <2>1
<1> QED BY <1>7, <1>8, <1>9, Zenon

\* A shortcut presses nothing that stays down.
LEMMA ApplyShortcut ==
  ASSUME NEW l \in Letter, NEW e, e = Shortcut(l), e # ReleaseAll, NEW keys, NEW refused
  PROVE  Apply(keys, e, refused) = AfterShortcut(keys, l)
<1> DEFINE P == {KeyEvent(k, TRUE) : k \in Key}
           R == {KeyEvent(k, FALSE) : k \in Key}
<1>1. e \notin P /\ e \notin R
  BY KeyEventsDiffer, Zenon
<1>2. e.shortcut = l
  BY DEF Shortcut
<1>3. Apply(keys, e, refused) =
        CASE e = ReleaseAll -> {}
          [] e \in P -> keys \cup ({e.key} \ refused)
          [] e \in R -> keys \ {e.key}
          [] OTHER -> AfterShortcut(keys, e.shortcut)
  BY Zenon DEF Apply, P, R
<1> HIDE DEF P, R
<1> QED BY <1>1, <1>2, <1>3

\* A key that is down afterwards was down before and not let go of, or is the
\* one that was pressed.
LEMMA DownAfterEvent ==
  ASSUME NEW keys, NEW e \in Event, NEW refused, NEW x \in Apply(keys, e, refused)
  PROVE  \/ x \in keys /\ e # ReleaseAll /\ e # KeyEvent(x, FALSE)
         \/ x \in Key /\ e = KeyEvent(x, TRUE)
<1>0. TRUE # FALSE
  OBVIOUS
<1>1. CASE e = ReleaseAll
  BY <1>1, ApplyCases
<1>2. ASSUME NEW k \in Key, e = KeyEvent(k, TRUE)
      PROVE  \/ x \in keys /\ e # ReleaseAll /\ e # KeyEvent(x, FALSE)
             \/ x \in Key /\ e = KeyEvent(x, TRUE)
  <2>1. e # KeyEvent(x, FALSE) /\ e # ReleaseAll
    BY <1>0, <1>2, KeyEventsDiffer, Zenon
  <2>2. Apply(keys, e, refused) = keys \cup ({k} \ refused)
    BY <1>2, ApplyCases
  <2>3. x \in keys \/ x = k
    BY <2>2
  <2> QED BY <1>2, <2>1, <2>3, Zenon
<1>3. ASSUME NEW k \in Key, e = KeyEvent(k, FALSE)
      PROVE  x \in keys /\ e # ReleaseAll /\ e # KeyEvent(x, FALSE)
  <2>1. Apply(keys, e, refused) = keys \ {k}
    BY <1>3, ApplyCases
  <2>2. x \in keys /\ x # k
    BY <2>1
  <2> QED BY <1>3, <2>2, KeyEventsDiffer, Zenon
<1>4. ASSUME NEW l \in Letter, e = Shortcut(l), e # ReleaseAll
      PROVE  x \in keys /\ e # ReleaseAll /\ e # KeyEvent(x, FALSE)
  <2>1. Apply(keys, e, refused) = AfterShortcut(keys, l)
    BY <1>4, ApplyShortcut
  <2>2. x \in keys
    BY <2>1 DEF AfterShortcut
  <2> QED BY <1>4, <2>2, KeyEventsDiffer, Zenon
<1> QED BY <1>1, <1>2, <1>3, <1>4, EventKinds, Zenon

\* The same, with what it says of the key under a name of its own.
CameFrom(x, keys, e) ==
  \/ x \in keys /\ e # ReleaseAll /\ e # KeyEvent(x, FALSE)
  \/ x \in Key /\ e = KeyEvent(x, TRUE)

LEMMA AppliedCameFrom ==
  ASSUME NEW keys, NEW e \in Event, NEW refused, NEW x \in Apply(keys, e, refused)
  PROVE  CameFrom(x, keys, e)
<1>1. \/ x \in keys /\ e # ReleaseAll /\ e # KeyEvent(x, FALSE)
      \/ x \in Key /\ e = KeyEvent(x, TRUE)
  BY DownAfterEvent
<1> QED BY <1>1, Zenon DEF CameFrom

\* More keys down before, and none refused: no fewer keys down afterwards.
LEMMA ApplyMonotone ==
  ASSUME NEW keys, NEW extra, NEW more, keys \subseteq extra \cup more,
         NEW e \in Event, NEW refused
  PROVE  Apply(keys, e, refused) \subseteq extra \cup Apply(more, e, {})
<1>1. CASE e = ReleaseAll
  BY <1>1, ApplyCases
<1>2. ASSUME NEW k \in Key, e = KeyEvent(k, TRUE)
      PROVE  Apply(keys, e, refused) \subseteq extra \cup Apply(more, e, {})
  <2>1. Apply(keys, e, refused) = keys \cup ({k} \ refused)
    BY <1>2, ApplyCases
  <2>2. Apply(more, e, {}) = more \cup ({k} \ {})
    BY <1>2, ApplyCases
  <2> QED BY <2>1, <2>2
<1>3. ASSUME NEW k \in Key, e = KeyEvent(k, FALSE)
      PROVE  Apply(keys, e, refused) \subseteq extra \cup Apply(more, e, {})
  <2>1. Apply(keys, e, refused) = keys \ {k} /\ Apply(more, e, {}) = more \ {k}
    BY <1>3, ApplyCases
  <2> QED BY <2>1
<1>4. ASSUME NEW l \in Letter, e = Shortcut(l), e # ReleaseAll
      PROVE  Apply(keys, e, refused) \subseteq extra \cup Apply(more, e, {})
  <2>1. Apply(keys, e, refused) = AfterShortcut(keys, l)
    BY <1>4, ApplyShortcut
  <2>2. Apply(more, e, {}) = AfterShortcut(more, l)
    BY <1>4, ApplyShortcut
  <2> QED BY <2>1, <2>2 DEF AfterShortcut
<1> QED BY <1>1, <1>2, <1>3, <1>4, EventKinds, Zenon

\* Only keys are down.
LEMMA ApplyType ==
  ASSUME NEW keys \in SUBSET Key, NEW e \in Event
  PROVE  Apply(keys, e, {}) \in SUBSET Key
<1>1. \A x \in Apply(keys, e, {}) : x \in Key
  BY DownAfterEvent
<1> QED BY <1>1

\* ApplyAll presses and releases one event after the other.
LEMMA ApplyAllSteps ==
  ASSUME NEW keys, NEW events \in Seq(Event), NEW refused
  PROVE  \E held :
           /\ held[0] = keys
           /\ \A k \in 1..Len(events) :
                held[k] = Apply(held[k - 1], events[k], refused)
           /\ ApplyAll(keys, events, refused) = held[Len(events)]
<1> DEFINE Folds(g, D) ==
             g = [s \in SUBSET D |->
                    IF s = {} THEN keys
                    ELSE Apply(g[s \ {Max(s)}], events[Max(s)], refused)]
<1>1. \A m \in Nat : \E g : Folds(g, 1..m)
  <2> DEFINE Bad == {m \in Nat : ~ \E g : Folds(g, 1..m)}
  <2> SUFFICES ASSUME Bad # {} PROVE FALSE
    OBVIOUS
  <2>1. PICK m \in Bad : \A i \in Bad : m <= i
    <3>1. Bad \subseteq Nat
      OBVIOUS
    <3> HIDE DEF Bad
    <3> QED BY <3>1, Least
  <2>2. m \in Nat /\ ~ \E g : Folds(g, 1..m)
    OBVIOUS
  <2>3. CASE m = 0
    <3> DEFINE g == [s \in SUBSET (1..m) |-> keys]
    <3>1. 1..m = {}
      BY <2>3
    <3>2. \A s \in SUBSET (1..m) : s = {}
      BY <3>1
    <3>3. Folds(g, 1..m)
      BY <3>2, Zenon
    <3> QED BY <2>2, <3>3, Zenon
  <2>4. CASE m # 0
    <3>1. m \in Nat \ {0} /\ m - 1 \in Nat /\ ~(m <= m - 1)
      BY <2>2, <2>4
    <3>2. PICK g : Folds(g, 1..m - 1)
      <4>1. m - 1 \notin Bad
        BY <2>1, <3>1
      <4> QED BY <3>1, <4>1
    <3> DEFINE h == [s \in SUBSET (1..m) |->
                       IF m \in s THEN Apply(g[s \ {m}], events[m], refused) ELSE g[s]]
               new(s) == IF s = {} THEN keys
                         ELSE Apply(h[s \ {Max(s)}], events[Max(s)], refused)
    <3>3. ASSUME NEW s \in SUBSET (1..m) PROVE h[s] = new(s)
      <4>1. CASE m \in s
        <5>1. Max(s) = m
          BY <3>1, <4>1, TopOfRange
        <5>2. s \ {m} \in SUBSET (1..m) /\ m \notin s \ {m} /\ s # {}
          BY <4>1
        <5>3. h[s \ {m}] = g[s \ {m}]
          BY <5>2, Zenon
        <5>4. h[s] = Apply(g[s \ {m}], events[m], refused)
          BY <4>1, Zenon
        <5> QED BY <5>1, <5>2, <5>3, <5>4, Zenon
      <4>2. CASE m \notin s
        <5>1. s \in SUBSET (1..m - 1)
          BY <3>1, <4>2
        <5>2. h[s] = g[s]
          BY <4>2, Zenon
        <5>3. g[s] = IF s = {} THEN keys
                     ELSE Apply(g[s \ {Max(s)}], events[Max(s)], refused)
          BY <3>2, <5>1, Zenon
        <5>4. s \ {Max(s)} \in SUBSET (1..m) /\ m \notin s \ {Max(s)}
          BY <4>2
        <5>5. h[s \ {Max(s)}] = g[s \ {Max(s)}]
          BY <5>4, Zenon
        <5> QED BY <5>2, <5>3, <5>5, Zenon
      <4> QED BY <4>1, <4>2
    <3>4. h = [s \in SUBSET (1..m) |-> h[s]]
      BY Zenon
    <3> HIDE DEF h
    <3>5. Folds(h, 1..m)
      BY <3>3, <3>4, Zenon
    <3> QED BY <2>2, <3>5, Zenon
  <2> QED BY <2>3, <2>4
<1>2. Len(events) \in Nat /\ DOMAIN events = 1..Len(events)
  BY LenProperties
<1> DEFINE G == CHOOSE g : Folds(g, DOMAIN events)
           held == [k \in 0..Len(events) |-> G[1..k]]
<1>3. Folds(G, 1..Len(events))
  <2>1. Folds(G, DOMAIN events)
    <3>1. \E g : Folds(g, DOMAIN events)
      BY <1>1, <1>2
    <3> HIDE DEF Folds
    <3> QED BY <3>1, Zenon
  <2> QED BY <1>2, <2>1
<1>4. ApplyAll(keys, events, refused) = G[1..Len(events)]
  <2>1. ApplyAll(keys, events, refused) = G[DOMAIN events]
    BY Zenon DEF ApplyAll, FoldLeft, MapThenFoldSet
  <2> HIDE DEF G
  <2> QED BY <1>2, <2>1
<1> HIDE DEF G
<1>5. \A k \in 0..Len(events) : 1..k \in SUBSET (1..Len(events))
  BY <1>2
<1>6. G[1..0] = keys
  <2>1. 1..0 = {} /\ 0 \in 0..Len(events)
    BY <1>2
  <2> QED BY <1>3, <1>5, <2>1, Zenon
<1>7. ASSUME NEW k \in 1..Len(events)
      PROVE  G[1..k] = Apply(G[1..k - 1], events[k], refused)
  <2>1. k \in Nat \ {0} /\ 1..k # {} /\ (1..k) \ {k} = 1..k - 1
    BY <1>2
  <2>2. Max(1..k) = k
    BY <2>1, TopOfRange
  <2>3. k \in 0..Len(events)
    BY <1>2
  <2> QED BY <1>3, <1>5, <2>1, <2>2, <2>3, Zenon
<1>8. \A k \in 0..Len(events) : held[k] = G[1..k]
  OBVIOUS
<1>9. 0 \in 0..Len(events) /\ Len(events) \in 0..Len(events)
  BY <1>2
<1>10. \A k \in 1..Len(events) : k \in 0..Len(events) /\ k - 1 \in 0..Len(events)
  BY <1>2
<1> HIDE DEF held
<1>11. \A k \in 1..Len(events) : held[k] = Apply(held[k - 1], events[k], refused)
  BY <1>7, <1>8, <1>10, Zenon
<1>12. held[0] = keys /\ ApplyAll(keys, events, refused) = held[Len(events)]
  BY <1>4, <1>6, <1>8, <1>9, Zenon
<1> QED BY <1>11, <1>12, Zenon

\* Nothing to apply, nothing changes.
LEMMA NothingApplied ==
  ASSUME NEW keys, NEW events \in Seq(Event), NEW refused
  PROVE  Len(events) = 0 => ApplyAll(keys, events, refused) = keys
<1>1. PICK held :
        /\ held[0] = keys
        /\ \A k \in 1..Len(events) : held[k] = Apply(held[k - 1], events[k], refused)
        /\ ApplyAll(keys, events, refused) = held[Len(events)]
  BY ApplyAllSteps
<1> QED BY <1>1

\* push() for one event.
PushEvent(s, e) == Push(s, <<e>>)

\* PushAll queues one event after the other.
LEMMA PushAllSteps ==
  ASSUME NEW s0, NEW events \in Seq(Event)
  PROVE  \E queued :
           /\ queued[0] = s0
           /\ \A k \in 1..Len(events) :
                queued[k] = PushEvent(queued[k - 1], events[k])
           /\ PushAll(s0, events) = queued[Len(events)]
<1> DEFINE Folds(g, D) ==
             g = [s \in SUBSET D |->
                    IF s = {} THEN s0
                    ELSE PushEvent(g[s \ {Max(s)}], events[Max(s)])]
<1>1. \A m \in Nat : \E g : Folds(g, 1..m)
  <2> DEFINE Bad == {m \in Nat : ~ \E g : Folds(g, 1..m)}
  <2> SUFFICES ASSUME Bad # {} PROVE FALSE
    OBVIOUS
  <2>1. PICK m \in Bad : \A i \in Bad : m <= i
    <3>1. Bad \subseteq Nat
      OBVIOUS
    <3> HIDE DEF Bad
    <3> QED BY <3>1, Least
  <2>2. m \in Nat /\ ~ \E g : Folds(g, 1..m)
    OBVIOUS
  <2>3. CASE m = 0
    <3> DEFINE g == [s \in SUBSET (1..m) |-> s0]
    <3>1. 1..m = {}
      BY <2>3
    <3>2. \A s \in SUBSET (1..m) : s = {}
      BY <3>1
    <3>3. Folds(g, 1..m)
      BY <3>2, Zenon
    <3> QED BY <2>2, <3>3, Zenon
  <2>4. CASE m # 0
    <3>1. m \in Nat \ {0} /\ m - 1 \in Nat /\ ~(m <= m - 1)
      BY <2>2, <2>4
    <3>2. PICK g : Folds(g, 1..m - 1)
      <4>1. m - 1 \notin Bad
        BY <2>1, <3>1
      <4> QED BY <3>1, <4>1
    <3> DEFINE h == [s \in SUBSET (1..m) |->
                       IF m \in s THEN PushEvent(g[s \ {m}], events[m]) ELSE g[s]]
               new(s) == IF s = {} THEN s0
                         ELSE PushEvent(h[s \ {Max(s)}], events[Max(s)])
    <3>3. ASSUME NEW s \in SUBSET (1..m) PROVE h[s] = new(s)
      <4>1. CASE m \in s
        <5>1. Max(s) = m
          BY <3>1, <4>1, TopOfRange
        <5>2. s \ {m} \in SUBSET (1..m) /\ m \notin s \ {m} /\ s # {}
          BY <4>1
        <5>3. h[s \ {m}] = g[s \ {m}]
          BY <5>2, Zenon
        <5>4. h[s] = PushEvent(g[s \ {m}], events[m])
          BY <4>1, Zenon
        <5> QED BY <5>1, <5>2, <5>3, <5>4, Zenon
      <4>2. CASE m \notin s
        <5>1. s \in SUBSET (1..m - 1)
          BY <3>1, <4>2
        <5>2. h[s] = g[s]
          BY <4>2, Zenon
        <5>3. g[s] = IF s = {} THEN s0
                     ELSE PushEvent(g[s \ {Max(s)}], events[Max(s)])
          BY <3>2, <5>1, Zenon
        <5>4. s \ {Max(s)} \in SUBSET (1..m) /\ m \notin s \ {Max(s)}
          BY <4>2
        <5>5. h[s \ {Max(s)}] = g[s \ {Max(s)}]
          BY <5>4, Zenon
        <5> QED BY <5>2, <5>3, <5>5, Zenon
      <4> QED BY <4>1, <4>2
    <3>4. h = [s \in SUBSET (1..m) |-> h[s]]
      BY Zenon
    <3> HIDE DEF h
    <3>5. Folds(h, 1..m)
      BY <3>3, <3>4, Zenon
    <3> QED BY <2>2, <3>5, Zenon
  <2> QED BY <2>3, <2>4
<1>2. Len(events) \in Nat /\ DOMAIN events = 1..Len(events)
  BY LenProperties
<1> DEFINE G == CHOOSE g : Folds(g, DOMAIN events)
           queued == [k \in 0..Len(events) |-> G[1..k]]
<1>3. Folds(G, 1..Len(events))
  <2>1. Folds(G, DOMAIN events)
    <3>1. \E g : Folds(g, DOMAIN events)
      BY <1>1, <1>2
    <3> HIDE DEF Folds
    <3> QED BY <3>1, Zenon
  <2> QED BY <1>2, <2>1
<1>4. PushAll(s0, events) = G[1..Len(events)]
  <2>1. PushAll(s0, events) = G[DOMAIN events]
    BY Zenon DEF PushAll, PushEvent, FoldLeft, MapThenFoldSet
  <2> HIDE DEF G
  <2> QED BY <1>2, <2>1
<1> HIDE DEF G
<1>5. \A k \in 0..Len(events) : 1..k \in SUBSET (1..Len(events))
  BY <1>2
<1>6. G[1..0] = s0
  <2>1. 1..0 = {} /\ 0 \in 0..Len(events)
    BY <1>2
  <2> QED BY <1>3, <1>5, <2>1, Zenon
<1>7. ASSUME NEW k \in 1..Len(events)
      PROVE  G[1..k] = PushEvent(G[1..k - 1], events[k])
  <2>1. k \in Nat \ {0} /\ 1..k # {} /\ (1..k) \ {k} = 1..k - 1
    BY <1>2
  <2>2. Max(1..k) = k
    BY <2>1, TopOfRange
  <2>3. k \in 0..Len(events)
    BY <1>2
  <2> QED BY <1>3, <1>5, <2>1, <2>2, <2>3, Zenon
<1>8. \A k \in 0..Len(events) : queued[k] = G[1..k]
  OBVIOUS
<1>9. 0 \in 0..Len(events) /\ Len(events) \in 0..Len(events)
  BY <1>2
<1>10. \A k \in 1..Len(events) : k \in 0..Len(events) /\ k - 1 \in 0..Len(events)
  BY <1>2
<1> HIDE DEF queued
<1>11. \A k \in 1..Len(events) : queued[k] = PushEvent(queued[k - 1], events[k])
  BY <1>7, <1>8, <1>10, Zenon
<1>12. queued[0] = s0 /\ PushAll(s0, events) = queued[Len(events)]
  BY <1>4, <1>6, <1>8, <1>9, Zenon
<1> QED BY <1>11, <1>12, Zenon

----------------------------------------------------------------------------
(* The bounds of the keys that are down, along the stream, in flight, and at *)
(* the host.                                                               *)

\* The queue holds the last sequences given out, one after the other.
WellNumbered(s) ==
  /\ s.queue \in Seq(Entry) /\ s.next \in Nat \ {0}
  /\ s.next - Len(s.queue) \in Nat \ {0}
  /\ \A k \in 1..Len(s.queue) : s.queue[k].seq = s.next - Len(s.queue) + k - 1

\* down[m] bounds the keys that are down after the event numbered m: applied
\* within one bound, each queued event stays within the next.
QueueBounds(s, down) ==
  \A k \in 1..Len(s.queue) :
    Apply(down[s.queue[k].seq - 1], s.queue[k].event, {}) \subseteq down[s.queue[k].seq]

\* What comes before the first of the queue was applied by the host, or no
\* bound is claimed for it, which is so after everything was discarded.
FrontKnown(s, down, h) ==
  IF s.queue = <<>> THEN s.next - 1 <= h
  ELSE s.queue[1].seq - 1 <= h \/ down[s.queue[1].seq - 1] = Key

\* Later bounds: the events given out so far keep theirs, but for the last,
\* which may get a weaker one.
Extends(down, later, next) ==
  /\ \A m \in 0..next - 2 : later[m] = down[m]
  /\ down[next - 1] \subseteq later[next - 1]

\* A release-all is the first thing to be sent.
ReleaseFirst(s) == s.queue # <<>> /\ s.queue[1].event = ReleaseAll

\* A packet carries events numbered before next.
OldPacket(p, next) ==
  /\ p \in Packet /\ Len(p.events) > 0
  /\ p.base < next /\ PacketEnd(p) < next

\* A packet's events are within the bounds, and what it takes for granted was
\* applied by the host or has no bound.
BoundedPacket(p, down, h) ==
  /\ \A i \in 1..Len(p.events) :
       Apply(down[p.first + i - 2], p.events[i], {}) \subseteq down[p.first + i - 1]
  /\ p.base - 1 <= h \/ down[p.base - 1] = Key

\* What is in flight was numbered by the sender.
PacketsAreOld == \A d \in packets : OldPacket(d.packet, sender.next)

\* The host applies, and acknowledges, what the sender gave out.
HostIsBehind ==
  /\ highest \in 0..sender.next - 1 /\ applied \in 0..highest
  /\ \A a \in acks : a.sequence \in 0..highest

\* The screen holds what it presses, and sends nothing between two frames; it
\* is told that the viewer ended only after it did.
ScreenIsSane ==
  /\ inputs \in Seq(Event) /\ uiKeys \subseteq Key /\ Presses(inputs) \subseteq uiKeys
  /\ uiPc = "frame" => inputs = <<>>
  /\ uiState = "ended" => ~alive

\* Each command is a batch of events or the release of everything.
CommandsAreTyped == injector \in Seq(Seq(Event) \cup {ReleaseAll})

\* What has to be known of the sequences and sets before bounds can be stated.
Typed ==
  WellNumbered(sender) /\ PacketsAreOld /\ HostIsBehind /\ ScreenIsSane /\ CommandsAreTyped

\* Packets in flight, old epochs and all, are within the bounds.
PacketBounds(down) == \A d \in packets : BoundedPacket(d.packet, down, highest)

\* After the last event queued, less what the screen is about to let go of, only
\* keys of the user are down, or keys pressed after a suspension.
UserBounds(down) ==
  /\ alive /\ enabled =>
       down[sender.next - 1] \ LetGo(inputs) \subseteq uiKeys \cup (late \ LetGo(inputs))
  /\ alive /\ ~enabled => down[sender.next - 1] \subseteq late

\* What a command of the injector leaves down.
AfterCommand(keys, command) ==
  IF command = ReleaseAll THEN {} ELSE ApplyAll(keys, command, {})

\* stage[j] bounds the keys that are down after j more commands.
InjectorBounds(stage) ==
  /\ hostKeys \subseteq stage[0]
  /\ \A j \in 1..Len(injector) : AfterCommand(stage[j - 1], injector[j]) \subseteq stage[j]

\* With all commands carried out, the keys down are within the bound of the
\* host's position, or were pressed again; behind the furthest position ever
\* reached only the latter are.
HostBounds(down, last) ==
  /\ last \subseteq replayed \cup down[applied]
  /\ last \subseteq replayed \/ applied = highest

\* All bounds together.
Bounds(down, stage) ==
  /\ QueueBounds(sender, down) /\ FrontKnown(sender, down, highest)
  /\ PacketBounds(down) /\ UserBounds(down)
  /\ InjectorBounds(stage) /\ HostBounds(down, stage[Len(injector)])

\* The inductive invariant: there are bounds along the stream, and along the
\* commands on their way to the injector, that everything in flight respects.
KeysInv ==
  /\ Typed
  /\ \E down, stage \in [Nat -> SUBSET Key] : Bounds(down, stage)

----------------------------------------------------------------------------
(* The sender: queueing, acknowledgements and packets keep the bounds.     *)

\* What push() leaves for one event: one entry more, or a release-all alone.
LEMMA PushKinds ==
  ASSUME NEW s, WellNumbered(s), NEW e \in Event
  PROVE  LET t == PushEvent(s, e) IN
         /\ t.next = s.next + 1 /\ t.queue \in Seq(Entry)
         /\ \/ /\ Len(t.queue) = Len(s.queue) + 1
               /\ \A k \in 1..Len(s.queue) : t.queue[k] = s.queue[k]
               /\ t.queue[Len(s.queue) + 1] = [seq |-> s.next, event |-> e]
            \/ /\ Len(t.queue) = 1
               /\ t.queue[1] = [seq |-> s.next, event |-> ReleaseAll]
<1> DEFINE t == PushEvent(s, e)
<1>1. <<e>> \in Seq(Event) /\ Len(<<e>>) = 1 /\ <<e>>[1] = e
  OBVIOUS
<1>2. s.next \in Nat \ {0} /\ s.queue \in Seq(Entry) /\ Len(s.queue) \in Nat
  BY LenProperties DEF WellNumbered
<1>3. Fitting(s, <<e>>) \in 0..1
  BY <1>1, FittingType
<1>4. CASE Overflows(s, <<e>>)
  <2>1. Fitting(s, <<e>>) = 0
    BY <1>1, <1>3, <1>4 DEF Overflows
  <2> DEFINE none == SubSeq(<<e>>, 1, 0)
  <2>2. Len(none) = 0
    BY <1>1
  <2>3. t = Discard(Enqueue(s, none))
    BY <1>4, <2>1 DEF PushEvent, Push
  <2> HIDE DEF none
  <2>4. Enqueue(s, none).next = s.next
    BY <1>2, <2>2 DEF Enqueue
  <2>5. /\ t.queue = <<[seq |-> s.next, event |-> ReleaseAll]>>
        /\ t.next = s.next + 1
    BY <2>3, <2>4 DEF Discard
  <2>6. [seq |-> s.next, event |-> ReleaseAll] \in Entry
    BY <1>2, EventAssumption DEF Entry
  <2> HIDE DEF t
  <2>7. t.queue \in Seq(Entry) /\ Len(t.queue) = 1
    BY <2>5, <2>6
  <2> QED BY <2>5, <2>7 DEF t
<1>5. CASE ~Overflows(s, <<e>>)
  <2> DEFINE new == Numbered(s.next, <<e>>)
  <2>1. t.queue = s.queue \o new /\ t.next = s.next + 1
    BY <1>1, <1>5 DEF PushEvent, Push, Enqueue
  <2>2. /\ new \in Seq(Entry) /\ Len(new) = 1
        /\ new[1] = [seq |-> s.next + 1 - 1, event |-> e]
    <3>1. /\ new \in Seq(Entry) /\ Len(new) = Len(<<e>>)
          /\ \A k \in 1..Len(<<e>>) : new[k] = [seq |-> s.next + k - 1, event |-> <<e>>[k]]
      BY <1>1, <1>2, NumberedEntries
    <3>2. 1 \in 1..Len(<<e>>)
      BY <1>1
    <3> QED BY <1>1, <3>1, <3>2
  <2>3. s.next + 1 - 1 = s.next
    BY <1>2
  <2> HIDE DEF t, new
  <2>4. /\ t.queue \in Seq(Entry) /\ Len(t.queue) = Len(s.queue) + Len(new)
        /\ \A k \in 1..Len(s.queue) : t.queue[k] = s.queue[k]
        /\ \A k \in 1..Len(new) : t.queue[Len(s.queue) + k] = new[k]
    <3> DEFINE c == s.queue \o new
    <3>1. /\ c \in Seq(Entry) /\ Len(c) = Len(s.queue) + Len(new)
          /\ \A k \in 1..Len(s.queue) : c[k] = s.queue[k]
          /\ \A k \in 1..Len(new) : c[Len(s.queue) + k] = new[k]
      BY <1>2, <2>2, ConcatParts
    <3>2. t.queue = c
      BY <2>1
    <3> HIDE DEF c
    <3> QED BY <3>1, <3>2
  <2>5. t.queue[Len(s.queue) + 1] = new[1]
    BY <2>2, <2>4
  <2> QED BY <2>1, <2>2, <2>3, <2>4, <2>5 DEF t
<1> QED BY <1>4, <1>5

\* A queue that holds a release-all alone: everything may be down before it,
\* nothing after it.
LEMMA ReleaseAlone ==
  ASSUME NEW n \in Nat \ {0}, NEW t, t.next = n + 1, t.queue \in Seq(Entry),
         Len(t.queue) = 1, t.queue[1] = [seq |-> n, event |-> ReleaseAll],
         NEW down \in [Nat -> SUBSET Key], NEW h \in Nat
  PROVE  /\ WellNumbered(t) /\ ReleaseFirst(t)
         /\ \E later \in [Nat -> SUBSET Key] :
              /\ QueueBounds(t, later) /\ FrontKnown(t, later, h)
              /\ Extends(down, later, n) /\ later[n] = {}
<1> DEFINE later == [down EXCEPT ![n - 1] = Key, ![n] = {}]
<1>1. later \in [Nat -> SUBSET Key]
  OBVIOUS
<1>2. /\ later[n] = {} /\ later[n - 1] = Key
      /\ \A m \in Nat : m # n /\ m # n - 1 => later[m] = down[m]
  OBVIOUS
<1> HIDE DEF later
<1>3. \A k \in 1..Len(t.queue) : k = 1
  OBVIOUS
<1>4. t.queue[1].seq = n /\ t.queue[1].event = ReleaseAll /\ t.queue # <<>>
  OBVIOUS
<1>5. WellNumbered(t)
  <2>1. n + 1 - 1 = n /\ t.next \in Nat \ {0}
    OBVIOUS
  <2>3. t.next - Len(t.queue) = n
    BY <2>1
  <2>2. \A k \in 1..Len(t.queue) : t.queue[k].seq = n + k - 1
    BY <1>3, <1>4
  <2> QED BY <2>1, <2>2, <2>3 DEF WellNumbered
<1>6. QueueBounds(t, later)
  <2>1. Apply(later[n - 1], ReleaseAll, {}) \subseteq later[n]
    BY ApplyCases
  <2> QED BY <1>3, <1>4, <2>1 DEF QueueBounds
<1>7. FrontKnown(t, later, h)
  BY <1>2, <1>4 DEF FrontKnown
<1>8. Extends(down, later, n)
  <2>1. \A m \in 0..n - 2 : m \in Nat /\ m # n /\ m # n - 1
    OBVIOUS
  <2>2. down[n - 1] \in SUBSET Key
    OBVIOUS
  <2> QED BY <1>2, <2>1, <2>2 DEF Extends
<1>9. ReleaseFirst(t)
  BY <1>4 DEF ReleaseFirst
<1> QED BY <1>1, <1>2, <1>5, <1>6, <1>7, <1>8, <1>9

\* push() keeps the bounds, with one more of them.
LEMMA PushOne ==
  ASSUME NEW s, WellNumbered(s), NEW e \in Event,
         NEW down \in [Nat -> SUBSET Key], QueueBounds(s, down),
         NEW h \in Nat, FrontKnown(s, down, h)
  PROVE  LET t == PushEvent(s, e) IN
         /\ WellNumbered(t) /\ t.next = s.next + 1
         /\ ReleaseFirst(s) => ReleaseFirst(t)
         /\ \E later \in [Nat -> SUBSET Key] :
              /\ QueueBounds(t, later) /\ FrontKnown(t, later, h)
              /\ Extends(down, later, s.next)
              /\ later[s.next] \subseteq Apply(down[s.next - 1], e, {})
<1> DEFINE t == PushEvent(s, e)
           n == s.next
           old == Len(s.queue)
<1>1. /\ n \in Nat \ {0} /\ s.queue \in Seq(Entry) /\ old \in Nat /\ n - old \in Nat \ {0}
      /\ \A k \in 1..old : s.queue[k].seq = n - old + k - 1
      /\ \A k \in 1..old : s.queue[k] \in Entry
  BY LenProperties, ElementOfSeq DEF WellNumbered
<1>2. t.next = n + 1 /\ t.queue \in Seq(Entry)
  BY PushKinds
<1>3. Apply(down[n - 1], e, {}) \in SUBSET Key
  <2>1. down[n - 1] \in SUBSET Key
    BY <1>1
  <2> QED BY <2>1, ApplyType
<1>4. CASE /\ Len(t.queue) = old + 1
           /\ \A k \in 1..old : t.queue[k] = s.queue[k]
           /\ t.queue[old + 1] = [seq |-> n, event |-> e]
  <2> DEFINE later == [down EXCEPT ![n] = Apply(down[n - 1], e, {})]
  <2>1. later \in [Nat -> SUBSET Key]
    BY <1>1, <1>3
  <2>2. later[n] = Apply(down[n - 1], e, {}) /\ \A m \in Nat : m # n => later[m] = down[m]
    BY <1>1
  <2> HIDE DEF later, t, n, old
  <2>3. WellNumbered(t)
    <3>1. \A k \in 1..Len(t.queue) : t.queue[k].seq = t.next - Len(t.queue) + k - 1
      <4> SUFFICES ASSUME NEW k \in 1..Len(t.queue)
                   PROVE  t.queue[k].seq = t.next - Len(t.queue) + k - 1
        OBVIOUS
      <4>1. CASE k \in 1..old
        <5>1. t.queue[k].seq = n - old + k - 1
          BY <1>1, <1>4, <4>1
        <5>2. t.next - Len(t.queue) + k - 1 = n - old + k - 1
          <6>1. \A i \in 1..old : (n + 1) - (old + 1) + i - 1 = n - old + i - 1
            BY <1>1
          <6> QED BY <1>2, <1>4, <4>1, <6>1
        <5> QED BY <5>1, <5>2
      <4>2. CASE k = old + 1
        <5>1. t.queue[k].seq = n
          BY <1>4, <4>2
        <5>2. (n + 1) - (old + 1) + (old + 1) - 1 = n
          BY <1>1
        <5> QED BY <1>2, <1>4, <4>2, <5>1, <5>2
      <4> QED BY <1>1, <1>4, <4>1, <4>2
    <3>2. t.next - Len(t.queue) \in Nat \ {0} /\ t.next \in Nat \ {0}
      BY <1>1, <1>2, <1>4
    <3> QED BY <1>2, <3>1, <3>2 DEF WellNumbered
  <2>4. QueueBounds(t, later)
    <3> SUFFICES ASSUME NEW k \in 1..Len(t.queue)
                 PROVE  Apply(later[t.queue[k].seq - 1], t.queue[k].event, {})
                          \subseteq later[t.queue[k].seq]
      BY DEF QueueBounds
    <3>1. CASE k \in 1..old
      <4> DEFINE q == s.queue[k].seq
      <4>1. t.queue[k] = s.queue[k] /\ q = n - old + k - 1
        BY <1>1, <1>4, <3>1
      <4>2. q \in Nat /\ q - 1 \in Nat /\ q # n /\ q - 1 # n
        <5>1. q = n - old + k - 1 /\ n - old \in Nat \ {0} /\ n \in Nat /\ old \in Nat
          BY <1>1, <4>1
        <5> HIDE DEF q, n, old
        <5>2. k \in Nat \ {0} /\ k <= old
          BY <3>1, <5>1
        <5> QED BY <5>1, <5>2
      <4>3. Apply(down[q - 1], s.queue[k].event, {}) \subseteq down[q]
        BY <3>1 DEF QueueBounds, old
      <4>4. later[q - 1] = down[q - 1] /\ later[q] = down[q]
        BY <2>2, <4>2
      <4> QED BY <4>1, <4>3, <4>4
    <3>2. CASE k = old + 1
      <4>1. t.queue[k].seq = n /\ t.queue[k].event = e
        BY <1>4, <3>2
      <4>2. later[n - 1] = down[n - 1]
        BY <1>1, <2>2
      <4> QED BY <2>2, <4>1, <4>2
    <3> QED BY <1>1, <1>4, <3>1, <3>2
  <2>5. FrontKnown(t, later, h)
    <3>1. t.queue # <<>>
      BY <1>1, <1>4
    <3>2. CASE s.queue = <<>>
      <4>1. old = 0 /\ n - 1 <= h
        BY <3>2 DEF FrontKnown, old, n
      <4>2. t.queue[1].seq = n
        BY <1>4, <4>1
      <4> QED BY <3>1, <4>1, <4>2 DEF FrontKnown
    <3>3. CASE s.queue # <<>>
      <4>1. old >= 1
        BY <1>1, <3>3, EmptySeq DEF old
      <4>2. t.queue[1] = s.queue[1] /\ s.queue[1].seq = n - old
        BY <1>1, <1>4, <4>1
      <4>3. n - old - 1 \in Nat /\ n - old - 1 # n
        BY <1>1
      <4>4. later[n - old - 1] = down[n - old - 1]
        BY <2>2, <4>3
      <4>5. n - old - 1 <= h \/ down[n - old - 1] = Key
        BY <3>3, <4>2 DEF FrontKnown
      <4> QED BY <3>1, <4>2, <4>4, <4>5 DEF FrontKnown
    <3> QED BY <3>2, <3>3
  <2>6. Extends(down, later, n)
    <3>1. \A m \in 0..n - 2 : m \in Nat /\ m # n
      BY <1>1
    <3>2. n - 1 \in Nat /\ n - 1 # n
      BY <1>1
    <3> QED BY <2>2, <3>1, <3>2 DEF Extends
  <2>7. ReleaseFirst(s) => ReleaseFirst(t)
    <3> SUFFICES ASSUME ReleaseFirst(s) PROVE ReleaseFirst(t)
      OBVIOUS
    <3>1. old >= 1
      BY <1>1, EmptySeq DEF old, ReleaseFirst
    <3>2. t.queue[1] = s.queue[1] /\ t.queue # <<>>
      BY <1>1, <1>4, <3>1
    <3> QED BY <3>2 DEF ReleaseFirst
  <2> QED BY <1>2, <2>1, <2>2, <2>3, <2>4, <2>5, <2>6, <2>7 DEF t, n
<1>5. CASE Len(t.queue) = 1 /\ t.queue[1] = [seq |-> n, event |-> ReleaseAll]
  <2> HIDE DEF t, n, old
  <2>1. /\ WellNumbered(t) /\ ReleaseFirst(t)
        /\ \E later \in [Nat -> SUBSET Key] :
             /\ QueueBounds(t, later) /\ FrontKnown(t, later, h)
             /\ Extends(down, later, n) /\ later[n] = {}
    BY <1>1, <1>2, <1>5, ReleaseAlone
  <2>2. PICK later \in [Nat -> SUBSET Key] :
             /\ QueueBounds(t, later) /\ FrontKnown(t, later, h)
             /\ Extends(down, later, n) /\ later[n] = {}
    BY <2>1
  <2>3. later[n] \subseteq Apply(down[n - 1], e, {})
    BY <2>2
  <2> QED BY <1>2, <2>1, <2>2, <2>3 DEF t, n
<1> QED BY <1>4, <1>5, PushKinds

\* The keys that a key event among these presses, and those it lets go of.
LEMMA PressedAndLetGo ==
  ASSUME NEW events \in Seq(Event), NEW x \in Key
  PROVE  /\ \A i \in 1..Len(events) : events[i] = KeyEvent(x, TRUE) => x \in Presses(events)
         /\ x \in LetGo(events) =>
              \E i \in 1..Len(events) : events[i] = ReleaseAll \/ events[i] = KeyEvent(x, FALSE)
<1>1. DOMAIN events = 1..Len(events)
  BY LenProperties
<1>2. \A i \in 1..Len(events) : events[i] = KeyEvent(x, TRUE) => x \in Presses(events)
  BY <1>1, Zenon DEF Presses
<1>3. ASSUME x \in LetGo(events)
      PROVE  \E i \in 1..Len(events) : events[i] = ReleaseAll \/ events[i] = KeyEvent(x, FALSE)
  <2>1. CASE Contains(events, ReleaseAll)
    BY <2>1, Zenon DEF Contains
  <2>2. CASE ~Contains(events, ReleaseAll)
    <3>1. Contains(events, KeyEvent(x, FALSE))
      BY <1>3, <2>2 DEF LetGo
    <3> QED BY <3>1, Zenon DEF Contains
  <2> QED BY <2>1, <2>2
<1> QED BY <1>2, <1>3

\* Queueing all inputs of a frame: what may be down after the last of them was
\* pressed by one, or was down before and none lets go of it.
LEMMA PushedAll ==
  ASSUME NEW s, WellNumbered(s), NEW events \in Seq(Event),
         NEW down \in [Nat -> SUBSET Key], QueueBounds(s, down),
         NEW h \in Nat, FrontKnown(s, down, h)
  PROVE  LET t == PushAll(s, events) IN
         /\ WellNumbered(t) /\ t.next = s.next + Len(events)
         /\ ReleaseFirst(s) => ReleaseFirst(t)
         /\ \E later \in [Nat -> SUBSET Key] :
              /\ QueueBounds(t, later) /\ FrontKnown(t, later, h)
              /\ Extends(down, later, s.next)
              /\ later[t.next - 1] \subseteq
                   (down[s.next - 1] \ LetGo(events)) \cup Presses(events)
<1> DEFINE n == s.next
<1>0. n \in Nat \ {0} /\ Len(events) \in Nat /\ \A k \in 1..Len(events) : events[k] \in Event
  BY LenProperties, ElementOfSeq DEF WellNumbered
<1>1. PICK after :
        /\ after[0] = s
        /\ \A k \in 1..Len(events) : after[k] = PushEvent(after[k - 1], events[k])
        /\ PushAll(s, events) = after[Len(events)]
  BY PushAllSteps
<1> DEFINE Kept(x, k) ==
             \/ x \in Presses(events)
             \/ /\ x \in down[n - 1]
                /\ \A i \in 1..k : events[i] # ReleaseAll /\ events[i] # KeyEvent(x, FALSE)
           Bounded(k, later) ==
             /\ QueueBounds(after[k], later) /\ FrontKnown(after[k], later, h)
             /\ Extends(down, later, n)
             /\ \A x \in later[after[k].next - 1] : Kept(x, k)
           Good(k) ==
             /\ WellNumbered(after[k]) /\ after[k].next = n + k
             /\ ReleaseFirst(s) => ReleaseFirst(after[k])
             /\ \E later \in [Nat -> SUBSET Key] : Bounded(k, later)
           Bad == {k \in 0..Len(events) : ~Good(k)}
<1>2. Good(0)
  <2>1. after[0] = s
    BY <1>1
  <2>2. Extends(down, down, n)
    BY DEF Extends
  <2>3. \A x \in down[n - 1] : Kept(x, 0)
    OBVIOUS
  <2>4. Bounded(0, down)
    BY <2>1, <2>2, <2>3
  <2> HIDE DEF Bounded
  <2>5. after[0].next = n + 0
    BY <1>0, <2>1
  <2> QED BY <2>1, <2>4, <2>5, Zenon
<1>3. ASSUME NEW k \in 1..Len(events), Good(k - 1)
      PROVE  Good(k)
  <2> DEFINE p == after[k - 1]
             q == after[k]
             e == events[k]
  <2>1. q = PushEvent(p, e) /\ e \in Event
    BY <1>0, <1>1
  <2>2. PICK mid \in [Nat -> SUBSET Key] : Bounded(k - 1, mid)
    BY <1>3
  <2>3. /\ WellNumbered(p) /\ p.next = n + (k - 1)
        /\ ReleaseFirst(s) => ReleaseFirst(p)
    BY <1>3
  <2>4. /\ QueueBounds(p, mid) /\ FrontKnown(p, mid, h)
        /\ Extends(down, mid, n)
        /\ \A x \in mid[p.next - 1] : Kept(x, k - 1)
    BY <2>2
  <2> HIDE DEF p, q, e, Kept
  <2>5. /\ WellNumbered(q) /\ q.next = p.next + 1
        /\ ReleaseFirst(p) => ReleaseFirst(q)
        /\ \E later \in [Nat -> SUBSET Key] :
              /\ QueueBounds(q, later) /\ FrontKnown(q, later, h)
              /\ Extends(mid, later, p.next)
              /\ later[p.next] \subseteq Apply(mid[p.next - 1], e, {})
    BY <2>1, <2>3, <2>4, PushOne
  <2>6. PICK later \in [Nat -> SUBSET Key] :
              /\ QueueBounds(q, later) /\ FrontKnown(q, later, h)
              /\ Extends(mid, later, p.next)
              /\ later[p.next] \subseteq Apply(mid[p.next - 1], e, {})
    BY <2>5
  <2>7. q.next = n + k /\ q.next - 1 = p.next
    BY <1>0, <2>3, <2>5
  <2>8. Extends(down, later, n)
    <3>1. /\ \A m \in 0..n - 2 : mid[m] = down[m] /\ later[m] = mid[m]
      <4>1. \A m \in 0..n - 2 : m \in 0..p.next - 2
        BY <1>0, <2>3
      <4> QED BY <2>4, <2>6, <4>1 DEF Extends
    <3>2. down[n - 1] \subseteq mid[n - 1]
      BY <2>4 DEF Extends
    <3>3. mid[n - 1] \subseteq later[n - 1]
      <4>1. CASE k = 1
        <5>1. p.next = n
          BY <1>0, <2>3, <4>1
        <5> QED BY <2>6, <5>1 DEF Extends
      <4>2. CASE k # 1
        <5>1. n - 1 \in 0..p.next - 2
          BY <1>0, <2>3, <4>2
        <5> QED BY <2>6, <5>1 DEF Extends
      <4> QED BY <4>1, <4>2
    <3> QED BY <3>1, <3>2, <3>3 DEF Extends
  <2>9. ASSUME NEW x \in later[q.next - 1]
        PROVE  Kept(x, k)
    <3>1. x \in Apply(mid[p.next - 1], e, {})
      BY <2>6, <2>7
    <3>2. \/ x \in mid[p.next - 1] /\ e # ReleaseAll /\ e # KeyEvent(x, FALSE)
          \/ x \in Key /\ e = KeyEvent(x, TRUE)
      <4>1. PICK held : held = mid[p.next - 1]
        OBVIOUS
      <4>2. PICK ev \in Event : ev = e
        BY <2>1
      <4>3. x \in Apply(held, ev, {})
        BY <3>1, <4>1, <4>2
      <4>4. CameFrom(x, held, ev)
        BY <4>3, AppliedCameFrom
      <4> QED BY <4>1, <4>2, <4>4, Zenon DEF CameFrom
    <3>3. CASE x \in Key /\ e = KeyEvent(x, TRUE)
      BY <3>3, PressedAndLetGo DEF Kept, e
    <3>4. CASE x \in mid[p.next - 1] /\ e # ReleaseAll /\ e # KeyEvent(x, FALSE)
      <4>1. Kept(x, k - 1)
        BY <2>4, <3>4
      <4>2. \A i \in 1..k : i \in 1..k - 1 \/ i = k
        BY <1>0
      <4> QED BY <3>4, <4>1, <4>2, Zenon DEF Kept, e
    <3> QED BY <3>2, <3>3, <3>4
  <2>10. Bounded(k, later)
    BY <2>6, <2>8, <2>9 DEF q
  <2> HIDE DEF Bounded
  <2> QED BY <2>3, <2>5, <2>7, <2>10, Zenon DEF p, q
<1> HIDE DEF Good
<1>4. Good(Len(events))
  <2> SUFFICES ASSUME Bad # {} PROVE FALSE
    BY <1>0
  <2>1. Bad \subseteq Nat
    BY <1>0
  <2>2. PICK k \in Bad : \A i \in Bad : k <= i
    <3> HIDE DEF Bad
    <3> QED BY <2>1, Least
  <2>3. k # 0
    BY <1>2
  <2>4. k \in 1..Len(events) /\ k - 1 \in 0..Len(events) /\ ~(k <= k - 1)
    BY <1>0, <2>3
  <2>5. Good(k - 1)
    BY <2>2, <2>4
  <2>6. Good(k)
    BY <1>3, <2>4, <2>5
  <2> QED BY <2>6
<1> DEFINE t == PushAll(s, events)
<1>5. t = after[Len(events)]
  BY <1>1
<1>6. PICK later \in [Nat -> SUBSET Key] : Bounded(Len(events), later)
  BY <1>4 DEF Good
<1>7. later[t.next - 1] \subseteq (down[n - 1] \ LetGo(events)) \cup Presses(events)
  <2> SUFFICES ASSUME NEW x \in later[t.next - 1], x \notin Presses(events)
               PROVE  x \in down[n - 1] /\ x \notin LetGo(events)
    OBVIOUS
  <2> HIDE DEF t
  <2>1. Kept(x, Len(events))
    BY <1>5, <1>6
  <2>2. /\ x \in down[n - 1]
        /\ \A i \in 1..Len(events) : events[i] # ReleaseAll /\ events[i] # KeyEvent(x, FALSE)
    BY <2>1, Zenon
  <2>3. down[n - 1] \in SUBSET Key
    BY <1>0
  <2> QED BY <2>2, <2>3, PressedAndLetGo
<1>8. WellNumbered(t) /\ t.next = n + Len(events) /\ (ReleaseFirst(s) => ReleaseFirst(t))
  BY <1>4, <1>5 DEF Good
<1>9. QueueBounds(t, later) /\ FrontKnown(t, later, h) /\ Extends(down, later, n)
  BY <1>5, <1>6
<1> QED BY <1>7, <1>8, <1>9

\* Events applied one after the other to fewer keys, some refused, leave no
\* more keys down.
LEMMA ApplyAllMonotone ==
  ASSUME NEW events \in Seq(Event), NEW keys, NEW more, keys \subseteq more, NEW refused
  PROVE  ApplyAll(keys, events, refused) \subseteq ApplyAll(more, events, {})
<1>0. Len(events) \in Nat /\ \A k \in 1..Len(events) : events[k] \in Event
  BY LenProperties, ElementOfSeq
<1>1. PICK f :
        /\ f[0] = keys
        /\ \A k \in 1..Len(events) : f[k] = Apply(f[k - 1], events[k], refused)
        /\ ApplyAll(keys, events, refused) = f[Len(events)]
  BY ApplyAllSteps
<1>2. PICK g :
        /\ g[0] = more
        /\ \A k \in 1..Len(events) : g[k] = Apply(g[k - 1], events[k], {})
        /\ ApplyAll(more, events, {}) = g[Len(events)]
  BY ApplyAllSteps
<1> DEFINE Bad == {k \in 0..Len(events) : ~(f[k] \subseteq g[k])}
<1> SUFFICES ASSUME Bad # {} PROVE FALSE
  BY <1>0, <1>1, <1>2
<1>3. Bad \subseteq Nat
  BY <1>0
<1>4. PICK k \in Bad : \A i \in Bad : k <= i
  <2> HIDE DEF Bad
  <2> QED BY <1>3, Least
<1>5. k # 0
  BY <1>1, <1>2
<1>6. k \in 1..Len(events) /\ k - 1 \in 0..Len(events) /\ ~(k <= k - 1)
  BY <1>0, <1>5
<1>7. f[k - 1] \subseteq g[k - 1]
  BY <1>4, <1>6
<1>8. Apply(f[k - 1], events[k], refused) \subseteq {} \cup Apply(g[k - 1], events[k], {})
  <2>1. f[k - 1] \subseteq {} \cup g[k - 1]
    BY <1>7
  <2> QED BY <1>0, <1>6, <2>1, ApplyMonotone
<1> QED BY <1>1, <1>2, <1>6, <1>8

\* A packet made from the queue.
LEMMA SentPacket ==
  ASSUME NEW s, WellNumbered(s), NEW down, QueueBounds(s, down),
         NEW h, FrontKnown(s, down, h),
         NEW from, NEW p \in WindowPackets(s.queue, from)
  PROVE  OldPacket(p, s.next) /\ BoundedPacket(p, down, h)
<1> DEFINE q == s.queue
           n == s.next
           old == Len(q)
<1>1. /\ n \in Nat \ {0} /\ q \in Seq(Entry) /\ old \in Nat /\ n - old \in Nat \ {0}
      /\ \A k \in 1..old : q[k].seq = n - old + k - 1
  BY LenProperties DEF WellNumbered
<1>2. PICK a, b \in 1..old :
        /\ a <= b
        /\ p.base = q[1].seq /\ p.first = q[a].seq
        /\ p \in Packet /\ Len(p.events) = b - a + 1
        /\ \A k \in 1..b - a + 1 : p.events[k] = q[a + k - 1].event
  <2>1. q \in Seq(Entry) /\ p \in WindowPackets(q, from)
    BY <1>1
  <2> HIDE DEF q
  <2> QED BY <2>1, WindowPacket DEF old
<1>3. \A k \in 1..old : Apply(down[q[k].seq - 1], q[k].event, {}) \subseteq down[q[k].seq]
  BY DEF QueueBounds
<1>4. q = <<>> \/ q[1].seq - 1 <= h \/ down[q[1].seq - 1] = Key
  BY DEF FrontKnown
<1> HIDE DEF q, n, old
<1>5. p.base = n - old /\ p.first = n - old + a - 1
  <2>1. 1 \in 1..old
    BY <1>1
  <2>2. q[1].seq = n - old + 1 - 1 /\ q[a].seq = n - old + a - 1
    BY <1>1, <2>1
  <2>3. p.base = q[1].seq /\ p.first = q[a].seq /\ n - old \in Nat
    BY <1>1, <1>2
  <2> QED BY <2>2, <2>3
<1>6. OldPacket(p, n)
  <2>1. PacketEnd(p) = n - old + b - 1
    BY <1>1, <1>2, <1>5 DEF PacketEnd
  <2>2. n - old < n /\ n - old + b - 1 < n
    BY <1>1
  <2> QED BY <1>2, <1>5, <2>1, <2>2 DEF OldPacket
<1>7. ASSUME NEW i \in 1..Len(p.events)
      PROVE  Apply(down[p.first + i - 2], p.events[i], {}) \subseteq down[p.first + i - 1]
  <2> DEFINE k == a + i - 1
  <2>1. i \in 1..b - a + 1 /\ k \in 1..old
    BY <1>1, <1>2
  <2>2. p.events[i] = q[k].event
    BY <1>2, <2>1
  <2>3. p.first + i - 2 = (n - old + k - 1) - 1 /\ p.first + i - 1 = n - old + k - 1
    BY <1>1, <1>5, <2>1
  <2> HIDE DEF k
  <2>4. q[k].seq = n - old + k - 1
    BY <1>1, <2>1
  <2> QED BY <1>3, <2>1, <2>2, <2>3, <2>4
<1>8. p.base - 1 <= h \/ down[p.base - 1] = Key
  <2>1. q # <<>>
    BY <1>2 DEF old
  <2> QED BY <1>2, <1>4, <2>1
<1> QED BY <1>6, <1>7, <1>8 DEF BoundedPacket, n

\* What is sent later does not disturb it, nor does progress of the host.
LEMMA PacketStaysBounded ==
  ASSUME NEW next \in Nat \ {0}, NEW p, OldPacket(p, next),
         NEW down, NEW h \in Nat, BoundedPacket(p, down, h),
         NEW later, Extends(down, later, next), NEW g \in Nat, h <= g
  PROVE  BoundedPacket(p, later, g)
<1>1. /\ p.base \in Nat \ {0} /\ p.first \in Nat \ {0} /\ Len(p.events) \in Nat
      /\ p.base < next /\ p.first + Len(p.events) - 1 < next
  BY LenProperties DEF OldPacket, Packet, PacketEnd
<1>2. /\ \A m \in 0..next - 2 : later[m] = down[m]
      /\ down[next - 1] \subseteq later[next - 1]
  BY DEF Extends
<1>3. ASSUME NEW i \in 1..Len(p.events)
      PROVE  Apply(later[p.first + i - 2], p.events[i], {}) \subseteq later[p.first + i - 1]
  <2> DEFINE m == p.first + i - 2
  <2>1. m \in Int /\ 0 <= m /\ m <= next - 2 /\ p.first + i - 1 = m + 1
    <3> DEFINE f == p.first
               l == Len(p.events)
    <3>1. f \in Nat \ {0} /\ l \in Nat /\ i \in 1..l /\ f + l - 1 < next
      BY <1>1
    <3> HIDE DEF f, l
    <3>2. f + i - 2 \in Int /\ 0 <= f + i - 2 /\ f + i - 2 <= next - 2
          /\ f + i - 1 = (f + i - 2) + 1
      BY <3>1
    <3> QED BY <3>2 DEF f
  <2>2. Apply(down[m], p.events[i], {}) \subseteq down[p.first + i - 1]
    BY DEF BoundedPacket
  <2> HIDE DEF m
  <2>3. later[m] = down[m]
    <3>1. m \in 0..next - 2
      BY <2>1
    <3> QED BY <1>2, <3>1
  <2>5. down[m + 1] \subseteq later[m + 1]
    <3>1. CASE m = next - 2
      <4>1. m + 1 = next - 1
        BY <3>1
      <4> QED BY <1>2, <4>1
    <3>2. CASE m # next - 2
      <4>1. m + 1 \in 0..next - 2
        BY <2>1, <3>2
      <4>2. later[m + 1] = down[m + 1]
        BY <1>2, <4>1
      <4> QED BY <4>2
    <3> QED BY <3>1, <3>2
  <2>4. Apply(later[m], p.events[i], {}) \subseteq later[p.first + i - 1]
    BY <2>1, <2>2, <2>3, <2>5
  <2> QED BY <2>4 DEF m
<1>4. p.base - 1 <= g \/ later[p.base - 1] = Key
  <2>1. p.base - 1 \in 0..next - 2
    BY <1>1
  <2>2. p.base - 1 <= h \/ down[p.base - 1] = Key
    BY DEF BoundedPacket
  <2> QED BY <1>1, <1>2, <2>1, <2>2
<1> QED BY <1>3, <1>4 DEF BoundedPacket

\* An acknowledgement of what the host has applied.
LEMMA AcknowledgedKeeps ==
  ASSUME NEW s, WellNumbered(s), NEW down, QueueBounds(s, down),
         NEW h \in Nat, FrontKnown(s, down, h), NEW a \in 0..h
  PROVE  LET t == Acknowledge(s, a) IN
         /\ WellNumbered(t) /\ t.next = s.next
         /\ QueueBounds(t, down) /\ FrontKnown(t, down, h)
<1> DEFINE q == s.queue
           n == s.next
           old == Len(q)
           gone == Acknowledged(q, a)
           t == Acknowledge(s, a)
           rest == SubSeq(q, gone + 1, old)
<1>1. /\ n \in Nat \ {0} /\ q \in Seq(Entry) /\ old \in Nat /\ n - old \in Nat \ {0}
      /\ \A k \in 1..old : q[k].seq = n - old + k - 1
  BY LenProperties DEF WellNumbered
<1>2. /\ gone \in 0..old
      /\ \A k \in 1..gone : n - old + k - 1 <= a
  <2> DEFINE front == n - old
  <2>1. front \in Nat \ {0} /\ \A k \in 1..Len(q) : q[k].seq = front + k - 1
    BY <1>1
  <2>2. a \in Nat
    OBVIOUS
  <2> HIDE DEF front, q
  <2>3. gone \in 0..Len(q) /\ \A k \in 1..gone : front + k - 1 <= a
    BY <1>1, <2>1, <2>2, AcknowledgedCount
  <2> QED BY <2>3 DEF front
<1>3. t.queue = rest /\ t.next = n
  BY DEF Acknowledge
<1> HIDE DEF gone
<1>4. /\ rest \in Seq(Entry) /\ Len(rest) = old - gone
      /\ \A k \in 1..Len(rest) : rest[k] = q[gone + k]
  BY <1>1, <1>2, RestOfSeq
<1> HIDE DEF t, rest
<1>5. ASSUME NEW k \in 1..Len(rest)
      PROVE  gone + k \in 1..old /\ q[gone + k].seq = n - (old - gone) + k - 1
  BY <1>1, <1>2, <1>4
<1>6. WellNumbered(t)
  <2>1. n - Len(rest) \in Nat \ {0}
    BY <1>1, <1>2, <1>4
  <2>2. \A k \in 1..Len(rest) : rest[k].seq = n - Len(rest) + k - 1
    BY <1>4, <1>5
  <2> QED BY <1>1, <1>3, <1>4, <2>1, <2>2 DEF WellNumbered
<1>7. QueueBounds(t, down)
  <2>1. \A k \in 1..old : Apply(down[q[k].seq - 1], q[k].event, {}) \subseteq down[q[k].seq]
    BY DEF QueueBounds
  <2>2. \A k \in 1..Len(rest) : Apply(down[rest[k].seq - 1], rest[k].event, {}) \subseteq down[rest[k].seq]
    BY <1>4, <1>5, <2>1
  <2> QED BY <1>3, <2>2 DEF QueueBounds
<1>8. FrontKnown(t, down, h)
  <2>1. CASE gone = 0
    <3>1. CASE q = <<>>
      <4>1. old = 0
        BY <3>1
      <4>2. rest = <<>>
        BY <1>2, <1>4, <4>1, EmptySeq
      <4> QED BY <1>3, <3>1, <4>2 DEF FrontKnown, q, n
    <3>2. CASE q # <<>>
      <4>1. old >= 1
        BY <1>1, <3>2, EmptySeq
      <4> HIDE DEF q, old
      <4>2. rest # <<>> /\ rest[1] = q[1]
        BY <1>1, <1>4, <2>1, <4>1
      <4> QED BY <1>3, <3>2, <4>2 DEF FrontKnown, q
    <3> QED BY <3>1, <3>2
  <2>2. CASE gone # 0
    <3>1. gone \in 1..gone
      BY <1>1, <1>2, <2>2
    <3>2. n - old + gone - 1 <= h
      BY <1>1, <1>2, <3>1
    <3>3. CASE gone = old
      <4>1. rest = <<>>
        BY <1>1, <1>4, <3>3, EmptySeq
      <4>2. n - 1 <= h
        BY <1>1, <3>2, <3>3
      <4> QED BY <1>3, <4>1, <4>2 DEF FrontKnown
    <3>4. CASE gone # old
      <4>1. 1 \in 1..Len(rest)
        BY <1>1, <1>2, <1>4, <3>4
      <4>2. rest[1].seq - 1 <= h
        <5>1. rest[1].seq = n - (old - gone) + 1 - 1
          BY <1>4, <1>5, <4>1
        <5> QED BY <1>1, <1>2, <3>2, <5>1
      <4>3. rest # <<>>
        BY <1>1, <1>2, <1>4, <4>1
      <4> QED BY <1>3, <4>2, <4>3 DEF FrontKnown
    <3> QED BY <3>3, <3>4
  <2> QED BY <2>1, <2>2
<1> QED BY <1>3, <1>6, <1>7, <1>8 DEF t, n

\* Sending changes neither the queue nor the numbering.
LEMMA SendingKeepsQueue ==
  ASSUME NEW s, NEW from
  PROVE  Sent(s, from).queue = s.queue /\ Sent(s, from).next = s.next
BY DEF Sent

\* release_keyboard() lets go of all the keys, whatever their order.
LEMMA ReleasesLetGo ==
  ASSUME NEW keys, keys \subseteq Key
  PROVE  /\ Releases(keys) \in Seq(Event)
         /\ Presses(Releases(keys)) = {} /\ keys \subseteq LetGo(Releases(keys))
<1> DEFINE S == {KeyEvent(k, FALSE) : k \in keys}
           n == Cardinality(S)
           r == Releases(keys)
<1>1. IsFiniteSet(S)
  <2>1. IsFiniteSet(keys)
    BY RemoteAssumption, FS_Subset
  <2> DEFINE g == [k \in keys |-> KeyEvent(k, FALSE)]
  <2>2. g \in Surjection(keys, S)
    BY DEF Surjection
  <2> HIDE DEF g, S
  <2> QED BY <2>1, <2>2, FS_Surjection
<1>2. ASSUME NEW e \in S PROVE e \in Event
  <2>1. PICK k \in keys : e = KeyEvent(k, FALSE)
    OBVIOUS
  <2>2. k \in Key
    OBVIOUS
  <2> DEFINE Keys == {KeyEvent(j, pressed) : j \in Key, pressed \in BOOLEAN}
  <2>3. e \in Keys
    <3>1. FALSE \in BOOLEAN
      OBVIOUS
    <3>2. \E pressed \in BOOLEAN : e = KeyEvent(k, pressed)
      BY <2>1, <3>1, Zenon
    <3>3. \E j \in Key : \E pressed \in BOOLEAN : e = KeyEvent(j, pressed)
      BY <2>2, <3>2, Zenon
    <3>4. \E j \in Key, pressed \in BOOLEAN : e = KeyEvent(j, pressed)
      BY <3>3, Zenon
    <3> QED BY <3>4, SMT
  <2>4. Keys \subseteq Event
    BY RemoteAssumption
  <2> HIDE DEF Keys
  <2> QED BY <2>3, <2>4
<1>3. r = SetToSeq(S)
  BY DEF Releases
<1> HIDE DEF S, n, r
<1>4. n \in Nat /\ ExistsBijection(1..n, S)
  BY <1>1, FS_CardinalityType DEF n
<1>5. \E f \in [1..n -> S] : IsInjective(f)
  BY <1>4 DEF ExistsBijection, Bijection, Injection
<1>6. r \in [1..n -> S] /\ IsInjective(r)
  BY <1>3, <1>5 DEF SetToSeq, n
<1>7. r \in Surjection(1..n, S)
  <2>1. r \in Injection(1..n, S)
    BY <1>6 DEF Injection
  <2>2. IsFiniteSet(1..n) /\ Cardinality(1..n) = n
    BY <1>4, FS_Interval
  <2> QED BY <1>1, <2>1, <2>2, FS_Injection DEF n
<1>8. r \in Seq(Event) /\ DOMAIN r = 1..n /\ Len(r) = n
  BY <1>2, <1>4, <1>6
<1>9. Presses(r) = {}
  <2> SUFFICES ASSUME NEW k \in Key, NEW i \in 1..n, r[i] = KeyEvent(k, TRUE)
               PROVE  FALSE
    BY <1>8 DEF Presses
  <2>1. r[i] \in S
    BY <1>6
  <2>2. PICK j \in keys : r[i] = KeyEvent(j, FALSE)
    BY <2>1 DEF S
  <2>3. TRUE # FALSE
    OBVIOUS
  <2> QED BY <2>2, <2>3, KeyEventsDiffer, Zenon
<1>10. ASSUME NEW k \in keys PROVE k \in LetGo(r)
  <2>1. k \in Key
    OBVIOUS
  <2>2. KeyEvent(k, FALSE) \in S
    BY DEF S
  <2>3. \E i \in 1..Len(r) : r[i] = KeyEvent(k, FALSE)
    BY <1>7, <1>8, <2>2 DEF Surjection
  <2>4. Contains(r, KeyEvent(k, FALSE))
    BY <2>3, Zenon DEF Contains
  <2> QED BY <2>1, <2>4 DEF LetGo
<1> QED BY <1>8, <1>9, <1>10 DEF r

----------------------------------------------------------------------------
(* The receiver: what the events of a packet leave down.                   *)

\* What a receiver at from makes of a packet: the keys it presses again that an
\* event up to high pressed before, and the keys a batch leaves down.
Repeats(again, from, p, high) ==
  LET batch == AppliedEvents(from, p)
      old == {i \in DOMAIN batch : Base(from, p) + i <= high}
  IN  again \cup Presses([i \in old |-> batch[i]])

\* The keys its events leave down.
Leaves(keys, from, p) == ApplyAll(keys, AppliedEvents(from, p), {})

\* A packet of bounded events is applied at a position of the host: the keys
\* left down are within the bound of the new position, or pressed again, and
\* only the latter while the host is behind what it once reached.
LEMMA ReceivedKeys ==
  ASSUME NEW next \in Nat \ {0}, NEW p, OldPacket(p, next),
         NEW down \in [Nat -> SUBSET Key], NEW high \in 0..next - 1,
         BoundedPacket(p, down, high),
         NEW from \in 0..high,
         NEW again, NEW keys \in SUBSET Key,
         keys \subseteq again \cup down[from],
         keys \subseteq again \/ from = high
  PROVE  /\ Received(from, p) \in 0..next - 1 /\ AppliedEvents(from, p) \in Seq(Event)
         /\ Leaves(keys, from, p) \in SUBSET Key
         /\ Leaves(keys, from, p) \subseteq
              Repeats(again, from, p, high) \cup down[Received(from, p)]
         /\ Received(from, p) < high =>
              Leaves(keys, from, p) \subseteq Repeats(again, from, p, high)
<1> DEFINE batch == AppliedEvents(from, p)
           base == Base(from, p)
           to == Received(from, p)
           old == {i \in DOMAIN batch : base + i <= high}
           repeated == again \cup Presses([i \in old |-> batch[i]])
<1>0. /\ p \in Packet /\ Len(p.events) \in Nat /\ Len(p.events) > 0
      /\ p.base \in Nat \ {0} /\ p.first \in Nat \ {0}
      /\ p.base < next /\ p.first + Len(p.events) - 1 < next
      /\ PacketEnd(p) = p.first + Len(p.events) - 1
  BY LenProperties DEF OldPacket, Packet, PacketEnd
<1>1. /\ base \in Nat /\ base >= from
      /\ base = from \/ base = p.base - 1
      /\ to \in Nat
      /\ batch \in Seq(Event) /\ Len(batch) = to - base
      /\ to > base => to = PacketEnd(p) /\ p.first <= base + 1
      /\ \A k \in 1..Len(batch) : batch[k] = p.events[base + k - p.first + 1]
  <2>1. from \in Nat
    OBVIOUS
  <2> QED BY <1>0, <2>1, ReceivedEvents
<1>2. /\ \A i \in 1..Len(p.events) :
           Apply(down[p.first + i - 2], p.events[i], {}) \subseteq down[p.first + i - 1]
      /\ p.base - 1 <= high \/ down[p.base - 1] = Key
  BY DEF BoundedPacket
<1> HIDE DEF batch, base, to
<1>3. Len(batch) \in Nat /\ DOMAIN batch = 1..Len(batch) /\ to >= base
  BY <1>1, LenProperties
<1>4. to \in 0..next - 1 /\ base \in 0..next - 1
  BY <1>0, <1>1, <1>3
<1>5. \A k \in 1..Len(batch) : batch[k] \in Event
  BY <1>1, ElementOfSeq
<1>6. ASSUME NEW k \in 1..Len(batch)
      PROVE  Apply(down[base + k - 1], batch[k], {}) \subseteq down[base + k]
  <2> DEFINE i == base + k - p.first + 1
  <2>0. k \in Nat \ {0} /\ to > base /\ p.first <= base + 1 /\ base + k <= to
    BY <1>1, <1>3
  <2> DEFINE first == p.first
             len == Len(p.events)
  <2>9. first \in Nat \ {0} /\ len \in Nat /\ to = first + len - 1 /\ base \in Nat
    BY <1>0, <1>1, <2>0
  <2>8. i = base + k - first + 1 /\ first <= base + 1
    BY <2>0
  <2> HIDE DEF first, len, i
  <2>7. i \in 1..len /\ first + i - 2 = base + k - 1 /\ first + i - 1 = base + k
    BY <2>0, <2>8, <2>9
  <2>1. i \in 1..Len(p.events)
    BY <2>7 DEF len
  <2>2. p.first + i - 2 = base + k - 1 /\ p.first + i - 1 = base + k
    BY <2>7 DEF first
  <2>3. batch[k] = p.events[i]
    BY <1>1 DEF i
  <2> QED BY <1>2, <2>1, <2>2, <2>3
<1>7. ASSUME NEW k \in 1..Len(batch), base + k <= high, NEW x \in Key,
             batch[k] = KeyEvent(x, TRUE)
      PROVE  x \in repeated
  <2>1. k \in old
    BY <1>3, <1>7
  <2>2. k \in DOMAIN [i \in old |-> batch[i]] /\ [i \in old |-> batch[i]][k] = batch[k]
    BY <2>1
  <2>3. x \in Presses([i \in old |-> batch[i]])
    BY <1>7, <2>2, Zenon DEF Presses
  <2> QED BY <2>3
<1>8. again \subseteq repeated
  OBVIOUS
<1> HIDE DEF old, repeated
<1>9. PICK f :
        /\ f[0] = keys
        /\ \A k \in 1..Len(batch) : f[k] = Apply(f[k - 1], batch[k], {})
        /\ ApplyAll(keys, batch, {}) = f[Len(batch)]
  <2> DEFINE none == {}
  <2> HIDE DEF none
  <2>1. \E f :
        /\ f[0] = keys
        /\ \A k \in 1..Len(batch) : f[k] = Apply(f[k - 1], batch[k], none)
        /\ ApplyAll(keys, batch, none) = f[Len(batch)]
    <3>1. batch \in Seq(Event)
      BY <1>1
    <3> QED BY <3>1, ApplyAllSteps
  <2> QED BY <2>1, Zenon DEF none
<1> DEFINE New(k) == base + k >= high /\ f[k] \subseteq repeated \cup down[base + k]
           Old(k) == base + k <= high /\ f[k] \subseteq repeated
           Good(k) == f[k] \in SUBSET Key /\ (New(k) \/ Old(k))
           Bad == {k \in 0..Len(batch) : ~Good(k)}
<1>10. Good(0)
  <2>1. f[0] = keys /\ base + 0 = base
    BY <1>1, <1>9
  <2>2. CASE base < high
    <3>1. from # high
      BY <1>1, <2>2
    <3> QED BY <1>1, <1>8, <2>1, <2>2, <3>1
  <2>3. CASE base = high
    <3>1. keys \subseteq repeated \cup down[base]
      <4>1. CASE from = high
        BY <1>8, <2>3, <4>1
      <4>2. CASE from # high
        BY <1>8, <4>2
      <4> QED BY <4>1, <4>2
    <3> QED BY <1>1, <2>1, <2>3, <3>1
  <2>4. CASE base > high
    <3>1. base = p.base - 1
      BY <1>1, <2>4
    <3>2. down[base] = Key
      BY <1>0, <1>2, <2>4, <3>1
    <3> QED BY <1>1, <2>1, <2>4, <3>2
  <2> QED BY <1>1, <2>2, <2>3, <2>4
<1>11. ASSUME NEW k \in 1..Len(batch), Good(k - 1)
       PROVE  Good(k)
  <2> DEFINE e == batch[k]
             held == f[k - 1]
  <2>1. e \in Event /\ f[k] = Apply(held, e, {}) /\ held \in SUBSET Key
    BY <1>5, <1>9, <1>11
  <2>2. base + (k - 1) = base + k - 1 /\ base + k \in Nat /\ base + k - 1 \in Nat
    BY <1>1, <1>3
  <2> HIDE DEF e, held
  <2>3. f[k] \in SUBSET Key
    BY <2>1, ApplyType
  <2>4. CASE New(k - 1)
    <3>0. base + (k - 1) >= high /\ held \subseteq repeated \cup down[base + (k - 1)]
      BY <2>4, Zenon DEF held
    <3>1. base + k >= high /\ held \subseteq repeated \cup down[base + k - 1]
      BY <1>1, <2>2, <3>0
    <3>2. f[k] \subseteq repeated \cup Apply(down[base + k - 1], e, {})
      BY <2>1, <3>1, ApplyMonotone
    <3>3. f[k] \subseteq repeated \cup down[base + k]
      BY <1>6, <3>2 DEF e
    <3> QED BY <2>3, <3>1, <3>3
  <2>5. CASE Old(k - 1)
    <3>1. base + k - 1 <= high /\ held \subseteq repeated
      BY <2>2, <2>5 DEF held
    <3>2. CASE base + k <= high
      <4>1. ASSUME NEW x \in f[k] PROVE x \in repeated
        <5>1. x \in Apply(held, e, {})
          BY <2>1
        <5> DEFINE none == {}
        <5>2. x \in Apply(held, e, none)
          BY <5>1
        <5> HIDE DEF none
        <5>3. x \in held \/ (x \in Key /\ e = KeyEvent(x, TRUE))
          BY <2>1, <5>2, DownAfterEvent
        <5> QED BY <1>7, <3>1, <3>2, <5>3 DEF e
      <4> QED BY <2>3, <3>2, <4>1
    <3>3. CASE ~(base + k <= high)
      <4>1. base + k >= high
        BY <2>2, <3>3
      <4>2. held \subseteq repeated \cup down[base + k - 1]
        BY <3>1
      <4>3. f[k] \subseteq repeated \cup Apply(down[base + k - 1], e, {})
        BY <2>1, <4>2, ApplyMonotone
      <4>4. f[k] \subseteq repeated \cup down[base + k]
        BY <1>6, <4>3 DEF e
      <4> QED BY <2>3, <4>1, <4>4
    <3> QED BY <3>2, <3>3
  <2> QED BY <1>11, <2>4, <2>5
<1> HIDE DEF Good
<1>12. Good(Len(batch))
  <2> SUFFICES ASSUME Bad # {} PROVE FALSE
    BY <1>3
  <2>1. Bad \subseteq Nat
    BY <1>3
  <2>2. PICK k \in Bad : \A i \in Bad : k <= i
    <3> HIDE DEF Bad
    <3> QED BY <2>1, Least
  <2>3. k # 0
    BY <1>10
  <2>4. k \in 1..Len(batch) /\ k - 1 \in 0..Len(batch) /\ ~(k <= k - 1)
    BY <1>3, <2>3
  <2>5. Good(k - 1)
    BY <2>2, <2>4
  <2>6. Good(k)
    BY <1>11, <2>4, <2>5
  <2> QED BY <2>6
<1>13. base + Len(batch) = to
  BY <1>1
<1> DEFINE all == ApplyAll(keys, batch, {})
<1>14. /\ all \in SUBSET Key
       /\ all \subseteq repeated \cup down[to]
       /\ to < high => all \subseteq repeated
  <2>1. all = f[Len(batch)]
    BY <1>9
  <2> HIDE DEF all
  <2>2. CASE New(Len(batch))
    <3>1. ~(to < high)
      BY <1>1, <1>13, <2>2
    <3> QED BY <1>12, <1>13, <2>1, <2>2, <3>1 DEF Good
  <2>3. CASE Old(Len(batch))
    BY <1>12, <2>1, <2>3 DEF Good
  <2> QED BY <1>12, <2>2, <2>3 DEF Good
<1> HIDE DEF all
<1>15. all = Leaves(keys, from, p) /\ repeated = Repeats(again, from, p, high)
  BY Zenon DEF Leaves, Repeats, all, repeated, batch, old, base
<1> QED BY <1>1, <1>4, <1>14, <1>15 DEF batch, to

----------------------------------------------------------------------------
(* Each step keeps the invariant: the viewer.                              *)

\* Nothing presses nothing and lets go of nothing.
LEMMA NothingInputs ==
  /\ <<>> \in Seq(Event) /\ Presses(<<>>) = {} /\ LetGo(<<>>) = {}
<1>1. DOMAIN <<>> = {} /\ Len(<<>>) = 0
  OBVIOUS
<1>2. Presses(<<>>) = {}
  BY <1>1 DEF Presses
<1>3. \A e : ~Contains(<<>>, e)
  BY <1>1 DEF Contains
<1>4. <<>> \in Seq(Event)
  OBVIOUS
<1>5. LetGo(<<>>) = {}
  BY <1>3 DEF LetGo
<1> QED BY <1>2, <1>4, <1>5

\* What a single event presses and lets go of.
LEMMA OneInput ==
  ASSUME NEW e \in Event
  PROVE  /\ <<e>> \in Seq(Event)
         /\ \A k \in Presses(<<e>>) : e = KeyEvent(k, TRUE)
         /\ e = ReleaseAll => LetGo(<<e>>) = Key
         /\ \A k \in Key : e = KeyEvent(k, FALSE) => k \in LetGo(<<e>>)
<1>1. <<e>> \in Seq(Event) /\ DOMAIN <<e>> = {1} /\ Len(<<e>>) = 1 /\ <<e>>[1] = e
  OBVIOUS
<1> DEFINE one == <<e>>
<1>2. one \in Seq(Event) /\ DOMAIN one = {1} /\ one[1] = e /\ 1 \in 1..Len(one)
  BY <1>1
<1> HIDE DEF one
<1>3. \A k \in Presses(one) : e = KeyEvent(k, TRUE)
  BY <1>2, Zenon DEF Presses
<1>4. Contains(one, e)
  BY <1>2, Zenon DEF Contains
<1>5. e = ReleaseAll => LetGo(one) = Key
  BY <1>4, Zenon DEF LetGo
<1>6. \A k \in Key : e = KeyEvent(k, FALSE) => k \in LetGo(one)
  <2> SUFFICES ASSUME NEW k \in Key, e = KeyEvent(k, FALSE) PROVE k \in LetGo(one)
    OBVIOUS
  <2>1. Contains(one, KeyEvent(k, FALSE))
    BY <1>4, Zenon
  <2> QED BY <2>1 DEF LetGo
<1> QED BY <1>2, <1>3, <1>5, <1>6 DEF one

\* The events the screen makes are events of the stream.
LEMMA KeyEventsAreEvents ==
  /\ \A k \in Key : KeyEvent(k, TRUE) \in Event /\ KeyEvent(k, FALSE) \in Event
  /\ \A l \in Letter : Shortcut(l) \in Event
  /\ ReleaseAll \in Event
<1> DEFINE Keys == {KeyEvent(k, pressed) : k \in Key, pressed \in BOOLEAN}
<1>1. Keys \subseteq Event /\ \A l \in Letter : Shortcut(l) \in Event
  BY RemoteAssumption
<1>2. ASSUME NEW k \in Key, NEW p \in BOOLEAN PROVE KeyEvent(k, p) \in Keys
  <2>1. \E j \in Key, pressed \in BOOLEAN : KeyEvent(k, p) = KeyEvent(j, pressed)
    BY Zenon
  <2> QED BY <2>1, SMT
<1> HIDE DEF Keys
<1> QED BY <1>1, <1>2, EventAssumption

\* What a frame decides is of no consequence to what is on its way.
LEMMA FrameKeepsKeys ==
  ASSUME KeysInv, NEW keys, NEW events, Frame(keys, events),
         keys \subseteq Key, events \in Seq(Event), Presses(events) \subseteq keys,
         uiKeys \ LetGo(events) \subseteq keys
  PROVE  KeysInv'
<1>1. /\ uiKeys' = keys /\ inputs' = events
      /\ uiPc' = "frame" => events = <<>>
      /\ UNCHANGED <<uiState, sender, enabled, late, alive, applied, highest, injector,
                     hostKeys, replayed, packets, acks>>
      /\ uiPc = "frame"
  BY Zenon DEF Frame, link, viewer, host, toHost, toViewer
<1>2. PICK down, stage \in [Nat -> SUBSET Key] : Bounds(down, stage)
  BY DEF KeysInv
<1>3. Typed'
  BY <1>1 DEF KeysInv, Typed, WellNumbered, PacketsAreOld, HostIsBehind, ScreenIsSane,
     CommandsAreTyped
<1>4. UserBounds(down)'
  <2>1. inputs = <<>>
    BY <1>1 DEF KeysInv, Typed, ScreenIsSane
  <2> DEFINE n == sender.next
  <2>2. alive /\ enabled => down[n - 1] \subseteq uiKeys \cup late
    BY <1>2, <2>1, NothingInputs DEF Bounds, UserBounds
  <2>3. alive /\ ~enabled => down[n - 1] \subseteq late
    BY <1>2 DEF Bounds, UserBounds
  <2>4. sender'.next = n
    BY <1>1
  <2> HIDE DEF n
  <2> QED BY <1>1, <2>2, <2>3, <2>4 DEF UserBounds
<1>5. Bounds(down, stage)'
  BY <1>1, <1>2, <1>4 DEF Bounds, QueueBounds, FrontKnown, PacketBounds, InjectorBounds, HostBounds
<1> QED BY <1>3, <1>5, Zenon DEF KeysInv

\* The screen's steps, apart from queueing what a frame decided.
LEMMA ScreenKeepsKeys ==
  ASSUME KeysInv, Screen, ~PushInputs
  PROVE  KeysInv'
<1>0. uiKeys \subseteq Key
  BY DEF KeysInv, Typed, ScreenIsSane
<1>1. ASSUME NEW k \in Key, PressKey(k) PROVE KeysInv'
  <2> DEFINE e == KeyEvent(k, TRUE)
  <2>1. e \in Event
    BY KeyEventsAreEvents
  <2>2. Frame(uiKeys \cup {k}, <<e>>)
    BY <1>1 DEF PressKey
  <2>3. \A j \in Presses(<<e>>) : j = k
    <3>1. \A j \in Presses(<<e>>) : e = KeyEvent(j, TRUE)
      <4> HIDE DEF e
      <4> QED BY <2>1, OneInput
    <3>2. ASSUME NEW j \in Presses(<<e>>) PROVE j = k
      <4>1. KeyEvent(k, TRUE) = KeyEvent(j, TRUE)
        BY <3>1, Zenon
      <4> QED BY <4>1, KeyEventsDiffer
    <3> QED BY <3>2
  <2>4. <<e>> \in Seq(Event)
    <3> HIDE DEF e
    <3> QED BY <2>1, OneInput
  <2> HIDE DEF e
  <2> QED BY <1>0, <2>2, <2>3, <2>4, FrameKeepsKeys
<1>2. ASSUME NEW k \in Key, ReleaseKey(k) PROVE KeysInv'
  <2> DEFINE e == KeyEvent(k, FALSE)
  <2>1. e \in Event
    BY KeyEventsAreEvents
  <2>2. Frame(uiKeys \ {k}, <<e>>)
    BY <1>2 DEF ReleaseKey
  <2>3. Presses(<<e>>) = {} /\ k \in LetGo(<<e>>)
    <3>1. \A j \in Presses(<<e>>) : e = KeyEvent(j, TRUE)
      <4> HIDE DEF e
      <4> QED BY <2>1, OneInput
    <3>2. TRUE # FALSE
      OBVIOUS
    <3>3. ASSUME NEW j \in Presses(<<e>>) PROVE FALSE
      <4>1. KeyEvent(k, FALSE) = KeyEvent(j, TRUE)
        BY <3>1, Zenon
      <4> QED BY <3>2, <4>1, KeyEventsDiffer, Zenon
    <3>4. k \in LetGo(<<e>>)
      BY <2>1, OneInput
    <3> QED BY <3>3, <3>4
  <2>4. <<e>> \in Seq(Event)
    <3> HIDE DEF e
    <3> QED BY <2>1, OneInput
  <2> HIDE DEF e
  <2> QED BY <1>0, <2>2, <2>3, <2>4, FrameKeepsKeys
<1>3. ASSUME NEW l \in Letter, UseShortcut(l) PROVE KeysInv'
  <2> DEFINE e == Shortcut(l)
  <2>1. e \in Event
    BY KeyEventsAreEvents
  <2>2. Frame(uiKeys, <<e>>)
    BY <1>3 DEF UseShortcut
  <2>3. \A j \in Presses(<<e>>) : FALSE
    <3>1. \A j \in Presses(<<e>>) : e = KeyEvent(j, TRUE)
      <4> HIDE DEF e
      <4> QED BY <2>1, OneInput
    <3> QED BY <3>1, KeyEventsDiffer
  <2>4. <<e>> \in Seq(Event)
    <3> HIDE DEF e
    <3> QED BY <2>1, OneInput
  <2> HIDE DEF e
  <2> QED BY <1>0, <2>2, <2>3, <2>4, FrameKeepsKeys
<1>4. ASSUME ReleaseKeyboard PROVE KeysInv'
  <2> DEFINE r == Releases(uiKeys)
  <2>1. r \in Seq(Event) /\ Presses(r) = {} /\ uiKeys \subseteq LetGo(r)
    BY <1>0, ReleasesLetGo
  <2>2. Frame({}, r)
    BY <1>4 DEF ReleaseKeyboard
  <2> HIDE DEF r
  <2> QED BY <2>1, <2>2, FrameKeepsKeys
<1>5. ASSUME ReleaseControl PROVE KeysInv'
  <2> DEFINE r == <<ReleaseAll>>
  <2>1. r \in Seq(Event) /\ Presses(r) \subseteq {} /\ LetGo(r) = Key
    <3>1. r \in Seq(Event) /\ LetGo(r) = Key /\ \A j \in Presses(r) : ReleaseAll = KeyEvent(j, TRUE)
      BY OneInput, KeyEventsAreEvents
    <3>2. Presses(r) \subseteq Key
      BY DEF Presses
    <3> QED BY <3>1, <3>2, KeyEventsDiffer
  <2>2. Frame({}, r)
    BY <1>5 DEF ReleaseControl
  <2> HIDE DEF r
  <2> QED BY <1>0, <2>1, <2>2, FrameKeepsKeys
<1>6. PICK down, stage \in [Nat -> SUBSET Key] : Bounds(down, stage)
  BY DEF KeysInv
<1>7. ASSUME LoadEnabled PROVE KeysInv'
  <2>1. /\ uiPc' = "frame" \/ uiPc' = "push"
        /\ uiPc' = "push" => enabled /\ uiState # "ended"
        /\ ~(enabled /\ uiState # "ended") => uiPc' = "frame"
        /\ inputs' = IF uiPc' = "push" THEN inputs ELSE <<>>
        /\ UNCHANGED <<uiKeys, uiState, sender, enabled, late, alive, applied, highest,
                       injector, hostKeys, replayed, packets, acks>>
    BY <1>7, Zenon DEF LoadEnabled, link, viewer, host, toHost, toViewer
  <2>2. inputs' = inputs \/ (inputs' = <<>> /\ ~(enabled /\ uiState # "ended"))
    <3>1. CASE enabled /\ uiState # "ended"
      <4>1. uiPc' = "push"
        BY <1>7, <3>1, Zenon DEF LoadEnabled
      <4> QED BY <2>1, <4>1
    <3>2. CASE ~(enabled /\ uiState # "ended")
      <4>1. uiPc' = "frame" /\ "frame" # "push"
        BY <2>1, <3>2
      <4> QED BY <2>1, <3>2, <4>1, Zenon
    <3> QED BY <3>1, <3>2
  <2>3. Typed'
    <3>1. Presses(inputs') \subseteq uiKeys /\ inputs' \in Seq(Event)
      BY <2>2, NothingInputs DEF KeysInv, Typed, ScreenIsSane
    <3>2. uiPc' = "frame" => inputs' = <<>>
      BY <2>1
    <3> QED BY <2>1, <3>1, <3>2 DEF KeysInv, Typed, WellNumbered, PacketsAreOld,
            HostIsBehind, ScreenIsSane, CommandsAreTyped
  <2>4. UserBounds(down)'
    <3>1. CASE inputs' = inputs
      BY <1>6, <2>1, <3>1 DEF Bounds, UserBounds
    <3>2. CASE inputs' = <<>> /\ ~(enabled /\ uiState # "ended")
      <4>1. ~(alive /\ enabled)
        BY <3>2, Zenon DEF KeysInv, Typed, ScreenIsSane
      <4> QED BY <1>6, <2>1, <4>1 DEF Bounds, UserBounds
    <3> QED BY <2>2, <3>1, <3>2
  <2>5. Bounds(down, stage)'
    BY <1>6, <2>1, <2>4 DEF Bounds, QueueBounds, FrontKnown, PacketBounds, InjectorBounds, HostBounds
  <2> QED BY <2>3, <2>5, Zenon DEF KeysInv
<1>8. ASSUME DrainEvents PROVE KeysInv'
  <2>1. UNCHANGED <<uiKeys, uiPc, inputs, sender, enabled, late, alive, applied, highest,
                    injector, hostKeys, replayed, packets, acks>>
    BY <1>8, Zenon DEF DrainEvents, link, viewer, host, toHost, toViewer
  <2>2. uiState' = "ended" => ~alive
    BY <1>8 DEF DrainEvents
  <2>3. Typed'
    BY <2>1, <2>2 DEF KeysInv, Typed, WellNumbered, PacketsAreOld, HostIsBehind, ScreenIsSane,
       CommandsAreTyped
  <2>4. Bounds(down, stage)'
    BY <1>6, <2>1 DEF Bounds, QueueBounds, FrontKnown, PacketBounds, InjectorBounds, HostBounds,
       UserBounds
  <2> QED BY <2>3, <2>4, Zenon DEF KeysInv
<1> QED BY <1>1, <1>2, <1>3, <1>4, <1>5, <1>7, <1>8, Zenon DEF Screen

\* The sender's side of a step: the queue becomes t's, later bounds hold for
\* it, and what is sent is made from it.
LEMMA SenderKeepsKeys ==
  ASSUME Typed, NEW down \in [Nat -> SUBSET Key], NEW stage, Bounds(down, stage),
         NEW t, WellNumbered(t), t.next >= sender.next,
         sender'.queue = t.queue, sender'.next = t.next,
         NEW later \in [Nat -> SUBSET Key], Extends(down, later, sender.next),
         QueueBounds(t, later), FrontKnown(t, later, highest),
         NEW from, packets' \subseteq packets \cup From(port, WindowPackets(t.queue, from)),
         UNCHANGED <<highest, applied, acks, injector, hostKeys, replayed>>
  PROVE  /\ (WellNumbered(sender) /\ PacketsAreOld /\ HostIsBehind /\ CommandsAreTyped)'
         /\ (QueueBounds(sender, later) /\ FrontKnown(sender, later, highest))'
         /\ (PacketBounds(later) /\ InjectorBounds(stage))'
         /\ HostBounds(later, stage[Len(injector)])'
<1> DEFINE n == sender.next
<1>1. /\ n \in Nat \ {0} /\ t.next \in Nat \ {0} /\ n <= t.next
      /\ highest \in 0..n - 1 /\ applied \in 0..highest
      /\ \A a \in acks : a.sequence \in 0..highest
  BY DEF Typed, WellNumbered, HostIsBehind
<1>2. WellNumbered(sender)'
  BY DEF WellNumbered
<1>3. HostIsBehind' /\ CommandsAreTyped'
  <2>1. highest \in 0..t.next - 1
    BY <1>1
  <2> QED BY <1>1, <2>1 DEF HostIsBehind, Typed, CommandsAreTyped
<1>4. ASSUME NEW d \in packets'
      PROVE  OldPacket(d.packet, t.next) /\ BoundedPacket(d.packet, later, highest)
  <2> DEFINE p == d.packet
  <2>1. CASE d \in packets
    <3>1. OldPacket(p, n) /\ BoundedPacket(p, down, highest)
      BY <2>1 DEF Typed, PacketsAreOld, Bounds, PacketBounds
    <3> HIDE DEF p
    <3>2. BoundedPacket(p, later, highest)
      <4>1. highest \in Nat /\ highest <= highest
        BY <1>1
      <4> QED BY <1>1, <3>1, <4>1, PacketStaysBounded
    <3>3. OldPacket(p, t.next)
      <4>1. p.base \in Nat /\ PacketEnd(p) \in Int
        BY <3>1, LenProperties DEF OldPacket, Packet, PacketEnd
      <4> QED BY <1>1, <3>1, <4>1 DEF OldPacket
    <3> QED BY <3>2, <3>3 DEF p
  <2>2. CASE d \in From(port, WindowPackets(t.queue, from))
    <3>1. p \in WindowPackets(t.queue, from)
      BY <2>2 DEF From
    <3> HIDE DEF p
    <3>2. OldPacket(p, t.next) /\ BoundedPacket(p, later, highest)
      BY <3>1, SentPacket
    <3> QED BY <3>2 DEF p
  <2> QED BY <1>4, <2>1, <2>2
<1>5. PacketsAreOld' /\ PacketBounds(later)'
  BY <1>4 DEF PacketsAreOld, PacketBounds
<1>6. (QueueBounds(sender, later) /\ FrontKnown(sender, later, highest))'
  BY DEF QueueBounds, FrontKnown
<1>7. InjectorBounds(stage)'
  BY DEF Bounds, InjectorBounds
<1>8. HostBounds(later, stage[Len(injector)])'
  <2>1. down[applied] \subseteq later[applied]
    <3>1. applied \in 0..n - 2 \/ applied = n - 1
      BY <1>1
    <3> QED BY <3>1 DEF Extends
  <2>2. HostBounds(down, stage[Len(injector)])
    BY DEF Bounds
  <2>3. HostBounds(later, stage[Len(injector)])
    BY <2>1, <2>2 DEF HostBounds
  <2> QED BY <2>3 DEF HostBounds
<1> QED BY <1>2, <1>3, <1>5, <1>6, <1>7, <1>8

\* The screen queues what the frame decided, whether or not forwarding is
\* still enabled.
LEMMA PushInputsKeepsKeys ==
  ASSUME KeysInv, PushInputs
  PROVE  KeysInv'
<1> DEFINE t == PushAll(sender, inputs)
           n == sender.next
<1>1. PICK down, stage \in [Nat -> SUBSET Key] : Bounds(down, stage)
  BY DEF KeysInv
<1>2. /\ sender' = AfterSendNew(t)
      /\ packets' = packets \cup From(port, NewPackets(t))
      /\ late' = (late \ LetGo(inputs)) \cup (IF enabled THEN {} ELSE Presses(inputs))
      /\ inputs' = <<>>
      /\ UNCHANGED <<uiKeys, uiState, enabled, alive, highest, applied, acks, injector,
                     hostKeys, replayed>>
  BY Zenon DEF PushInputs, viewer, host, toViewer
<1>3. /\ Typed /\ WellNumbered(sender) /\ inputs \in Seq(Event) /\ highest \in Nat
      /\ n \in Nat \ {0} /\ Len(inputs) \in Nat
  BY LenProperties DEF KeysInv, Typed, ScreenIsSane, HostIsBehind, WellNumbered
<1>4. QueueBounds(sender, down) /\ FrontKnown(sender, down, highest)
  BY <1>1 DEF Bounds
<1>5. /\ WellNumbered(t) /\ t.next = n + Len(inputs)
      /\ \E later \in [Nat -> SUBSET Key] :
           /\ QueueBounds(t, later) /\ FrontKnown(t, later, highest)
           /\ Extends(down, later, n)
           /\ later[t.next - 1] \subseteq (down[n - 1] \ LetGo(inputs)) \cup Presses(inputs)
  BY <1>3, <1>4, PushedAll
<1>6. PICK later \in [Nat -> SUBSET Key] :
           /\ QueueBounds(t, later) /\ FrontKnown(t, later, highest)
           /\ Extends(down, later, n)
           /\ later[t.next - 1] \subseteq (down[n - 1] \ LetGo(inputs)) \cup Presses(inputs)
  BY <1>5
<1> HIDE DEF t
<1>7. sender'.queue = t.queue /\ sender'.next = t.next
  BY <1>2, SendingKeepsQueue DEF AfterSendNew
<1>8. packets' = packets \cup From(port, WindowPackets(t.queue, t.sentThrough + 1))
  BY <1>2 DEF NewPackets
<1>9. t.next >= n
  BY <1>3, <1>5
<1>10. /\ (WellNumbered(sender) /\ PacketsAreOld /\ HostIsBehind /\ CommandsAreTyped)'
       /\ (QueueBounds(sender, later) /\ FrontKnown(sender, later, highest))'
       /\ (PacketBounds(later) /\ InjectorBounds(stage))'
       /\ HostBounds(later, stage[Len(injector)])'
  BY <1>1, <1>2, <1>3, <1>5, <1>6, <1>7, <1>8, <1>9, SenderKeepsKeys
<1>11. ScreenIsSane'
  BY <1>2, NothingInputs DEF KeysInv, Typed, ScreenIsSane
<1>12. UserBounds(later)'
  <2> DEFINE before == down[n - 1]
             after == later[t.next - 1]
  <2>1. after \subseteq (before \ LetGo(inputs)) \cup Presses(inputs)
    BY <1>6
  <2>2. /\ alive /\ enabled => before \ LetGo(inputs) \subseteq uiKeys \cup (late \ LetGo(inputs))
        /\ alive /\ ~enabled => before \subseteq late
    BY <1>1 DEF Bounds, UserBounds
  <2>3. Presses(inputs) \subseteq uiKeys
    BY DEF KeysInv, Typed, ScreenIsSane
  <2>4. later[sender'.next - 1] = after /\ LetGo(inputs') = {}
    BY <1>2, <1>7, NothingInputs
  <2> HIDE DEF before, after
  <2>5. ASSUME alive, enabled PROVE after \subseteq uiKeys' \cup late'
    <3>1. late' = late \ LetGo(inputs)
      BY <1>2, <2>5
    <3> QED BY <1>2, <2>1, <2>2, <2>3, <2>5, <3>1
  <2>6. ASSUME alive, ~enabled PROVE after \subseteq late'
    <3>1. late' = (late \ LetGo(inputs)) \cup Presses(inputs)
      BY <1>2, <2>6
    <3> QED BY <2>1, <2>2, <2>6, <3>1
  <2>7. /\ alive /\ enabled => after \ LetGo(inputs') \subseteq uiKeys' \cup (late' \ LetGo(inputs'))
        /\ alive /\ ~enabled => after \subseteq late'
    BY <2>4, <2>5, <2>6
  <2>8. alive' = alive /\ enabled' = enabled
    BY <1>2
  <2> QED BY <2>4, <2>7, <2>8 DEF UserBounds
<1>13. Typed' /\ Bounds(later, stage)'
  BY <1>10, <1>11, <1>12 DEF Typed, Bounds
<1> QED BY <1>13, Zenon DEF KeysInv

\* A later sequence may be given the same bounds.
LEMMA ExtendsItself ==
  ASSUME NEW down, NEW next PROVE Extends(down, down, next)
BY DEF Extends

\* The viewer's network thread: acknowledgements, retransmissions, suspension
\* and the rest.
LEMMA NetworkKeepsKeys ==
  ASSUME KeysInv, Network
  PROVE  KeysInv'
<1>1. PICK down, stage \in [Nat -> SUBSET Key] : Bounds(down, stage)
  BY DEF KeysInv
<1> DEFINE n == sender.next
<1>2. /\ Typed /\ WellNumbered(sender) /\ highest \in Nat /\ n \in Nat \ {0}
      /\ QueueBounds(sender, down) /\ FrontKnown(sender, down, highest)
      /\ ScreenIsSane /\ UserBounds(down) /\ n >= n
      /\ \A a \in acks : a.sequence \in 0..highest
  BY <1>1 DEF KeysInv, Typed, Bounds, HostIsBehind, WellNumbered
<1>3. ASSUME SendHello \/ RebuildSocket PROVE KeysInv'
  <2>1. UNCHANGED <<uiPc, uiKeys, uiState, inputs, sender, enabled, late, alive, applied, highest,
                    injector, hostKeys, replayed, packets, acks>>
    BY <1>3, Zenon DEF SendHello, RebuildSocket, ui, link, viewer, host, toHost, toViewer
  <2>2. Typed'
    BY <1>2, <2>1 DEF Typed, WellNumbered, PacketsAreOld, HostIsBehind, ScreenIsSane,
       CommandsAreTyped
  <2>3. Bounds(down, stage)'
    BY <1>1, <2>1 DEF Bounds, QueueBounds, FrontKnown, PacketBounds, InjectorBounds, HostBounds,
       UserBounds
  <2> QED BY <2>2, <2>3, Zenon DEF KeysInv
<1>4. ASSUME ReceiveConfig \/ Stop \/ Fail PROVE KeysInv'
  <2>1. UNCHANGED <<uiPc, uiKeys, uiState, inputs, sender, late, applied, highest,
                    injector, hostKeys, replayed, packets, acks>>
    BY <1>4, Zenon DEF ReceiveConfig, Stop, Fail, ui, link, viewer, host, toHost, toViewer
  <2>2. alive /\ (alive' => enabled')
    BY <1>4, Zenon DEF ReceiveConfig, Stop, Fail
  <2>3. Typed'
    BY <1>2, <2>1, <2>2 DEF Typed, WellNumbered, PacketsAreOld, HostIsBehind, ScreenIsSane,
       CommandsAreTyped
  <2>4. UserBounds(down)'
    <3>1. down[n - 1] \ LetGo(inputs) \subseteq uiKeys \cup (late \ LetGo(inputs))
      BY <1>2, <2>2 DEF UserBounds
    <3> QED BY <2>1, <2>2, <3>1 DEF UserBounds
  <2>5. Bounds(down, stage)'
    BY <1>1, <2>1, <2>4 DEF Bounds, QueueBounds, FrontKnown, PacketBounds, InjectorBounds, HostBounds
  <2> QED BY <2>3, <2>5, Zenon DEF KeysInv
<1>5. ASSUME NEW a \in acks, ReceiveAck(a) PROVE KeysInv'
  <2> DEFINE t == Acknowledge(sender, a.sequence)
  <2>1. /\ sender' = AfterSendNew(t)
        /\ packets' = packets \cup From(port, NewPackets(t))
        /\ UNCHANGED <<uiPc, uiKeys, inputs, uiState, late, enabled, alive, highest, applied, acks,
                       injector, hostKeys, replayed>>
    BY <1>5, Zenon DEF ReceiveAck, ui, viewer, host, toViewer
  <2>2. WellNumbered(t) /\ t.next = n /\ QueueBounds(t, down) /\ FrontKnown(t, down, highest)
    BY <1>2, AcknowledgedKeeps
  <2> HIDE DEF t
  <2>3. sender'.queue = t.queue /\ sender'.next = t.next
    BY <2>1, SendingKeepsQueue DEF AfterSendNew
  <2>4. packets' = packets \cup From(port, WindowPackets(t.queue, t.sentThrough + 1))
    BY <2>1 DEF NewPackets
  <2>5. Extends(down, down, n) /\ t.next >= n
    BY <1>2, <2>2, ExtendsItself
  <2>6. /\ (WellNumbered(sender) /\ PacketsAreOld /\ HostIsBehind /\ CommandsAreTyped)'
        /\ (QueueBounds(sender, down) /\ FrontKnown(sender, down, highest))'
        /\ (PacketBounds(down) /\ InjectorBounds(stage))'
        /\ HostBounds(down, stage[Len(injector)])'
    BY <1>1, <1>2, <2>1, <2>2, <2>3, <2>4, <2>5, SenderKeepsKeys
  <2>7. ScreenIsSane' /\ UserBounds(down)'
    BY <1>2, <2>1, <2>2, <2>3 DEF ScreenIsSane, UserBounds
  <2>8. Typed' /\ Bounds(down, stage)'
    BY <2>6, <2>7 DEF Typed, Bounds
  <2> QED BY <2>8, Zenon DEF KeysInv
<1>6. ASSUME Resend PROVE KeysInv'
  <2>1. /\ sender' = AfterRetransmit(sender) /\ sender.queue # <<>>
        /\ packets' = packets \cup From(port, RetransmitPackets(sender))
        /\ UNCHANGED <<uiPc, uiKeys, inputs, uiState, late, enabled, alive, highest, applied, acks,
                       injector, hostKeys, replayed>>
    BY <1>6, Zenon DEF Resend, ui, viewer, host, toViewer
  <2>2. sender'.queue = sender.queue /\ sender'.next = n
    BY <2>1, SendingKeepsQueue DEF AfterRetransmit
  <2>3. packets' = packets \cup From(port, WindowPackets(sender.queue, sender.queue[1].seq))
    BY <2>1 DEF RetransmitPackets
  <2>4. Extends(down, down, n)
    BY ExtendsItself
  <2>5. /\ (WellNumbered(sender) /\ PacketsAreOld /\ HostIsBehind /\ CommandsAreTyped)'
        /\ (QueueBounds(sender, down) /\ FrontKnown(sender, down, highest))'
        /\ (PacketBounds(down) /\ InjectorBounds(stage))'
        /\ HostBounds(down, stage[Len(injector)])'
    BY <1>1, <1>2, <2>1, <2>2, <2>3, <2>4, SenderKeepsKeys
  <2>6. ScreenIsSane' /\ UserBounds(down)'
    BY <1>2, <2>1, <2>2 DEF ScreenIsSane, UserBounds
  <2>7. Typed' /\ Bounds(down, stage)'
    BY <2>5, <2>6 DEF Typed, Bounds
  <2> QED BY <2>7, Zenon DEF KeysInv
<1>7. ASSUME Suspend PROVE KeysInv'
  <2> DEFINE t == Discard(sender)
  <2>1. /\ sender' = t /\ packets' = packets /\ enabled' = FALSE /\ late' = {}
        /\ UNCHANGED <<uiPc, uiKeys, inputs, uiState, alive, highest, applied, acks,
                       injector, hostKeys, replayed>>
    BY <1>7, Zenon DEF Suspend, ui, host, toHost, toViewer
  <2>2. /\ t.next = n + 1 /\ t.queue \in Seq(Entry) /\ Len(t.queue) = 1
        /\ t.queue[1] = [seq |-> n, event |-> ReleaseAll]
    <3>1. t.queue = <<[seq |-> n, event |-> ReleaseAll]>> /\ t.next = n + 1
      BY DEF Discard
    <3>2. [seq |-> n, event |-> ReleaseAll] \in Entry
      BY <1>2, EventAssumption DEF Entry
    <3> HIDE DEF t
    <3> QED BY <3>1, <3>2
  <2> HIDE DEF t
  <2>3. /\ WellNumbered(t)
        /\ \E later \in [Nat -> SUBSET Key] :
             /\ QueueBounds(t, later) /\ FrontKnown(t, later, highest)
             /\ Extends(down, later, n) /\ later[n] = {}
    BY <1>2, <2>2, ReleaseAlone
  <2>4. PICK later \in [Nat -> SUBSET Key] :
             /\ QueueBounds(t, later) /\ FrontKnown(t, later, highest)
             /\ Extends(down, later, n) /\ later[n] = {}
    BY <2>3
  <2>5. t.next >= n /\ t.next - 1 = n
    <3>1. t.next = n + 1 /\ n \in Nat
      BY <1>2, <2>2
    <3> HIDE DEF n
    <3>2. n + 1 >= n /\ (n + 1) - 1 = n
      BY <3>1
    <3> QED BY <3>1, <3>2
  <2>6. packets' \subseteq packets \cup From(port, WindowPackets(t.queue, 0))
    BY <2>1
  <2>7. sender'.queue = t.queue /\ sender'.next = t.next
    BY <2>1
  <2>8. /\ (WellNumbered(sender) /\ PacketsAreOld /\ HostIsBehind /\ CommandsAreTyped)'
        /\ (QueueBounds(sender, later) /\ FrontKnown(sender, later, highest))'
        /\ (PacketBounds(later) /\ InjectorBounds(stage))'
        /\ HostBounds(later, stage[Len(injector)])'
    BY <1>1, <1>2, <2>1, <2>3, <2>4, <2>5, <2>6, <2>7, SenderKeepsKeys
  <2>9. ScreenIsSane'
    BY <1>2, <2>1 DEF ScreenIsSane
  <2>10. UserBounds(later)'
    BY <2>1, <2>4, <2>5, <2>7 DEF UserBounds
  <2>11. Typed' /\ Bounds(later, stage)'
    BY <2>8, <2>9, <2>10 DEF Typed, Bounds
  <2> QED BY <2>11, Zenon DEF KeysInv
<1> QED BY <1>3, <1>4, <1>5, <1>6, <1>7 DEF Network

----------------------------------------------------------------------------
(* Each step keeps the invariant: the host.                                *)

\* The greater of two numbers.
LEMMA MaxOfTwo ==
  ASSUME NEW a \in Nat, NEW b \in Nat
  PROVE  Max({a, b}) = IF a < b THEN b ELSE a
<1> DEFINE T == {a, b}
           m == Max(T)
<1>1. T \subseteq Nat /\ T # {} /\ a + b \in Nat /\ \A x \in T : x <= a + b
  OBVIOUS
<1>2. m \in T /\ \A x \in T : x <= m
  <2> HIDE DEF T
  <2> QED BY <1>1, MaxOfBounded
<1>3. (m = a \/ m = b) /\ a <= m /\ b <= m
  BY <1>2
<1> HIDE DEF m
<1>4. m = IF a < b THEN b ELSE a
  BY <1>3
<1> QED BY <1>4 DEF m

\* A new epoch: everything is let go of, and the stream starts over.
LEMMA ReplacedKeepsKeys ==
  ASSUME KeysInv, NEW p, ReplacePeer(p),
         UNCHANGED <<ui, link, viewer, highest, hostKeys, packets, acks>>
  PROVE  KeysInv'
<1>1. PICK down, stage \in [Nat -> SUBSET Key] : Bounds(down, stage)
  BY DEF KeysInv
<1>2. /\ applied' = 0 /\ replayed' = {} /\ injector' = Append(injector, ReleaseAll)
      /\ UNCHANGED <<uiPc, uiKeys, inputs, uiState, enabled, sender, late, alive, highest,
                     hostKeys, packets, acks>>
  BY Zenon DEF ReplacePeer, ui, link, viewer
<1> DEFINE l == Len(injector)
<1>3. injector \in Seq(Seq(Event) \cup {ReleaseAll}) /\ l \in Nat
  BY LenProperties DEF KeysInv, Typed, CommandsAreTyped
<1>4. /\ injector' \in Seq(Seq(Event) \cup {ReleaseAll}) /\ Len(injector') = l + 1
      /\ injector'[l + 1] = ReleaseAll /\ \A j \in 1..l : injector'[j] = injector[j]
  BY <1>2, <1>3, AppendProperties
<1>5. PICK staged \in [Nat -> SUBSET Key] :
        staged[l + 1] = {} /\ \A j \in 0..l : staged[j] = stage[j]
  <2> DEFINE s == [stage EXCEPT ![l + 1] = {}]
  <2>1. s \in [Nat -> SUBSET Key] /\ s[l + 1] = {} /\ \A j \in 0..l : s[j] = stage[j]
    BY <1>3
  <2> HIDE DEF s
  <2> QED BY <2>1
<1> HIDE DEF l
<1>6. Typed'
  <2>1. HostIsBehind'
    BY <1>2 DEF KeysInv, Typed, HostIsBehind
  <2> QED BY <1>2, <1>4, <2>1 DEF KeysInv, Typed, WellNumbered, PacketsAreOld, ScreenIsSane,
          CommandsAreTyped
<1>7. InjectorBounds(staged)'
  <2>1. /\ hostKeys \subseteq stage[0]
        /\ \A j \in 1..l : AfterCommand(stage[j - 1], injector[j]) \subseteq stage[j]
    BY <1>1 DEF Bounds, InjectorBounds, l
  <2>2. \A j \in 1..l : j \in 0..l /\ j - 1 \in 0..l
    BY <1>3
  <2>3. \A j \in 1..l : AfterCommand(staged[j - 1], injector'[j]) \subseteq staged[j]
    BY <1>4, <1>5, <2>1, <2>2
  <2>4. AfterCommand(staged[l], injector'[l + 1]) \subseteq staged[l + 1]
    BY <1>4 DEF AfterCommand
  <2>5. \A j \in 1..Len(injector') : j \in 1..l \/ (j = l + 1 /\ j - 1 = l)
    BY <1>3, <1>4
  <2>6. \A j \in 1..Len(injector') : AfterCommand(staged[j - 1], injector'[j]) \subseteq staged[j]
    BY <2>3, <2>4, <2>5
  <2>7. hostKeys' \subseteq staged[0]
    BY <1>2, <1>3, <1>5, <2>1
  <2> QED BY <2>6, <2>7 DEF InjectorBounds, AfterCommand
<1>8. HostBounds(down, staged[Len(injector)])'
  BY <1>4, <1>5 DEF HostBounds
<1>9. Bounds(down, staged)'
  BY <1>1, <1>2, <1>7, <1>8 DEF Bounds, QueueBounds, FrontKnown, PacketBounds, UserBounds
<1> QED BY <1>5, <1>6, <1>9, Zenon DEF KeysInv

\* The events of a packet are applied to what all commands before leave down.
LEMMA EventsKeepKeys ==
  ASSUME KeysInv, NEW d \in packets, HostReceiveEvents(d)
  PROVE  KeysInv'
<1>1. PICK down, stage \in [Nat -> SUBSET Key] : Bounds(down, stage)
  BY DEF KeysInv
<1> DEFINE p == d.packet
           n == sender.next
           l == Len(injector)
           batch == AppliedEvents(applied, p)
           old == {i \in DOMAIN batch : Base(applied, p) + i <= highest}
           repeated == replayed \cup Presses([i \in old |-> batch[i]])
           to == Received(applied, p)
           reached == ApplyAll(stage[l], batch, {})
<1>2. /\ applied' = to /\ highest' = Max({highest, applied'})
      /\ acks' = acks \cup {[port |-> d.port, sequence |-> applied']}
      /\ injector' = IF batch = <<>> THEN injector ELSE Append(injector, batch)
      /\ replayed' = repeated
      /\ UNCHANGED <<uiPc, uiKeys, inputs, uiState, enabled, sender, late, alive,
                     hostKeys, packets>>
  BY Zenon DEF HostReceiveEvents, ui, link, viewer, toHost
<1>3. /\ n \in Nat \ {0} /\ highest \in 0..n - 1 /\ applied \in 0..highest
      /\ OldPacket(p, n) /\ BoundedPacket(p, down, highest)
      /\ injector \in Seq(Seq(Event) \cup {ReleaseAll}) /\ l \in Nat
      /\ HostBounds(down, stage[l])
      /\ \A a \in acks : a.sequence \in 0..highest
  BY <1>1, LenProperties DEF KeysInv, Typed, WellNumbered, PacketsAreOld, HostIsBehind,
     CommandsAreTyped, Bounds, PacketBounds
<1>40. /\ to \in 0..n - 1 /\ batch \in Seq(Event)
       /\ reached \in SUBSET Key
       /\ reached \subseteq repeated \cup down[to]
       /\ to < highest => reached \subseteq repeated
  <2>1. /\ stage[l] \in SUBSET Key
        /\ stage[l] \subseteq replayed \cup down[applied]
        /\ stage[l] \subseteq replayed \/ applied = highest
    BY <1>3 DEF HostBounds
  <2> DEFINE keys == stage[l]
  <2> HIDE DEF keys, p, n
  <2>2. /\ keys \in SUBSET Key
        /\ keys \subseteq replayed \cup down[applied]
        /\ keys \subseteq replayed \/ applied = highest
    BY <2>1 DEF keys
  <2>3. /\ Received(applied, p) \in 0..n - 1 /\ AppliedEvents(applied, p) \in Seq(Event)
        /\ Leaves(keys, applied, p) \in SUBSET Key
        /\ Leaves(keys, applied, p) \subseteq
             Repeats(replayed, applied, p, highest) \cup down[Received(applied, p)]
        /\ Received(applied, p) < highest =>
             Leaves(keys, applied, p) \subseteq Repeats(replayed, applied, p, highest)
    BY <1>3, <2>2, ReceivedKeys
  <2>4. reached = Leaves(keys, applied, p) /\ repeated = Repeats(replayed, applied, p, highest)
    BY Zenon DEF Leaves, Repeats, keys
  <2> QED BY <2>3, <2>4
<1> HIDE DEF p, n, l, batch, repeated, to, reached
<1>4. PICK all \in SUBSET Key :
        /\ all = reached /\ to \in 0..n - 1 /\ batch \in Seq(Event)
        /\ all \subseteq repeated \cup down[to]
        /\ to < highest => all \subseteq repeated
  BY <1>40
<1>5. highest \in Nat /\ to \in Nat /\ highest' = IF highest < to THEN to ELSE highest
  <2>1. highest \in Nat /\ to \in Nat
    BY <1>3, <1>4
  <2>2. highest' = Max({highest, to})
    BY <1>2
  <2> QED BY <2>1, <2>2, MaxOfTwo
<1>6. HostIsBehind'
  <2>1. /\ highest' \in 0..n - 1 /\ to \in 0..highest'
        /\ \A a \in acks : a.sequence \in 0..highest'
    BY <1>3, <1>4, <1>5
  <2>2. ASSUME NEW a \in acks' PROVE a.sequence \in 0..highest'
    <3>1. a \in acks \/ a = [port |-> d.port, sequence |-> to]
      BY <1>2
    <3>2. a \in acks \/ a.sequence = to
      BY <3>1
    <3>3. a \in acks => a.sequence \in 0..highest'
      BY <2>1
    <3> QED BY <1>2, <2>1, <3>2, <3>3
  <2> QED BY <1>2, <2>1, <2>2 DEF HostIsBehind, n
<1>7. CommandsAreTyped'
  <2>1. CASE batch = <<>>
    BY <1>2, <1>3, <2>1 DEF CommandsAreTyped
  <2>2. CASE batch # <<>>
    <3>1. injector' = Append(injector, batch)
      BY <1>2, <2>2
    <3> QED BY <1>3, <1>4, <3>1, AppendProperties DEF CommandsAreTyped
  <2> QED BY <2>1, <2>2
<1>8. Typed'
  BY <1>2, <1>6, <1>7 DEF KeysInv, Typed, WellNumbered, PacketsAreOld, ScreenIsSane
<1>9. (QueueBounds(sender, down) /\ FrontKnown(sender, down, highest) /\ PacketBounds(down)
         /\ UserBounds(down))'
  <2>1. Extends(down, down, n) /\ highest <= highest' /\ highest' \in Nat
    BY <1>3, <1>4, <1>5, ExtendsItself
  <2>2. ASSUME NEW c \in packets PROVE BoundedPacket(c.packet, down, highest')
    <3> DEFINE pc == c.packet
    <3>1. OldPacket(pc, n) /\ BoundedPacket(pc, down, highest)
      BY <1>1 DEF KeysInv, Typed, PacketsAreOld, Bounds, PacketBounds, n
    <3> HIDE DEF pc
    <3>2. BoundedPacket(pc, down, highest')
      BY <1>3, <1>5, <2>1, <3>1, PacketStaysBounded
    <3> QED BY <3>2 DEF pc
  <2>3. FrontKnown(sender, down, highest')
    <3> DEFINE front == sender.queue[1].seq
               len == Len(sender.queue)
    <3>1. FrontKnown(sender, down, highest)
      BY <1>1 DEF Bounds
    <3>2. CASE sender.queue = <<>>
      <4>1. n - 1 <= highest
        BY <3>1, <3>2 DEF FrontKnown, n
      <4>2. n - 1 <= highest'
        BY <1>3, <1>5, <2>1, <4>1
      <4> QED BY <3>2, <4>2 DEF FrontKnown, n
    <3>3. CASE sender.queue # <<>>
      <4>1. front - 1 <= highest \/ down[front - 1] = Key
        BY <3>1, <3>3 DEF FrontKnown
      <4>2. front \in Nat
        <5>1. sender.queue \in Seq(Entry) /\ len \in Nat /\ len # 0
          BY <3>3, LenProperties, EmptySeq DEF KeysInv, Typed, WellNumbered
        <5>2. 1 \in 1..len
          BY <5>1
        <5>3. sender.queue[1] \in Entry
          BY <5>1, <5>2, ElementOfSeq
        <5> QED BY <5>3 DEF Entry
      <4> HIDE DEF front
      <4>3. front - 1 <= highest' \/ down[front - 1] = Key
        BY <1>5, <2>1, <4>1, <4>2
      <4> QED BY <3>3, <4>3 DEF FrontKnown, front
    <3> QED BY <3>2, <3>3
  <2>4. QueueBounds(sender, down) /\ UserBounds(down)
    BY <1>1 DEF Bounds
  <2>5. QueueBounds(sender, down)' /\ UserBounds(down)'
    BY <1>2, <2>4 DEF QueueBounds, UserBounds
  <2>6. FrontKnown(sender, down, highest)'
    BY <1>2, <2>3 DEF FrontKnown
  <2>7. PacketBounds(down)'
    BY <1>2, <2>2 DEF PacketBounds
  <2> QED BY <2>5, <2>6, <2>7
<1>10. HostBounds(down, all)'
  <2>1. all \subseteq replayed' \cup down[applied']
    BY <1>2, <1>4
  <2>2. all \subseteq replayed' \/ applied' = highest'
    BY <1>2, <1>4, <1>5
  <2> QED BY <2>1, <2>2 DEF HostBounds
<1>11. /\ hostKeys \subseteq stage[0]
       /\ \A j \in 1..l : AfterCommand(stage[j - 1], injector[j]) \subseteq stage[j]
  BY <1>1 DEF Bounds, InjectorBounds, l
<1>12. CASE batch = <<>>
  <2>1. injector' = injector
    BY <1>2, <1>12
  <2>2. all = stage[l]
    <3> DEFINE none == {}
    <3> HIDE DEF none
    <3>1. batch \in Seq(Event) /\ Len(batch) = 0
      BY <1>4, <1>12
    <3>2. \A keys : ApplyAll(keys, batch, none) = keys
      BY <3>1, NothingApplied
    <3>3. reached = stage[l]
      BY <3>2, Zenon DEF reached, none
    <3> QED BY <1>4, <3>3
  <2>3. InjectorBounds(stage)'
    BY <1>2, <1>11, <2>1 DEF InjectorBounds, l
  <2>4. HostBounds(down, stage[Len(injector)])'
    BY <1>10, <2>1, <2>2 DEF HostBounds, l
  <2>5. Bounds(down, stage)'
    BY <1>9, <2>3, <2>4 DEF Bounds
  <2> QED BY <1>8, <2>5, Zenon DEF KeysInv
<1>13. CASE batch # <<>>
  <2>1. injector' = Append(injector, batch)
    BY <1>2, <1>13
  <2>2. /\ Len(injector') = l + 1
        /\ injector'[l + 1] = batch /\ \A j \in 1..l : injector'[j] = injector[j]
    BY <1>3, <1>4, <2>1, AppendProperties DEF l
  <2>3. PICK staged \in [Nat -> SUBSET Key] :
          staged[l + 1] = all /\ \A j \in 0..l : staged[j] = stage[j]
    <3> DEFINE s == [stage EXCEPT ![l + 1] = all]
    <3>1. s \in [Nat -> SUBSET Key] /\ s[l + 1] = all /\ \A j \in 0..l : s[j] = stage[j]
      BY <1>3, <1>4
    <3> HIDE DEF s
    <3> QED BY <3>1
  <2>4. InjectorBounds(staged)'
    <3>1. \A j \in 1..l : j \in 0..l /\ j - 1 \in 0..l
      BY <1>3
    <3>2. \A j \in 1..l : AfterCommand(staged[j - 1], injector'[j]) \subseteq staged[j]
      BY <1>11, <2>2, <2>3, <3>1
    <3>3. AfterCommand(stage[l], batch) \subseteq all
      BY <1>4 DEF AfterCommand, reached
    <3>4. staged[l] = stage[l]
      BY <1>3, <2>3
    <3>5. \A j \in 1..Len(injector') : j \in 1..l \/ (j = l + 1 /\ j - 1 = l)
      BY <1>3, <2>2
    <3>6. \A j \in 1..Len(injector') : AfterCommand(staged[j - 1], injector'[j]) \subseteq staged[j]
      BY <2>2, <2>3, <3>2, <3>3, <3>4, <3>5
    <3>7. hostKeys' \subseteq staged[0]
      BY <1>2, <1>3, <1>11, <2>3
    <3> QED BY <3>6, <3>7 DEF InjectorBounds, AfterCommand
  <2>5. HostBounds(down, staged[Len(injector)])'
    BY <1>10, <2>2, <2>3 DEF HostBounds
  <2>6. Bounds(down, staged)'
    BY <1>9, <2>4, <2>5 DEF Bounds
  <2> QED BY <1>8, <2>3, <2>6, Zenon DEF KeysInv
<1> QED BY <1>12, <1>13

\* The injector catches up by a command, and some presses may be refused.
LEMMA InjectKeepsKeys ==
  ASSUME KeysInv, Inject
  PROVE  KeysInv'
<1>1. PICK down, stage \in [Nat -> SUBSET Key] : Bounds(down, stage)
  BY DEF KeysInv
<1>2. /\ injector # <<>> /\ injector' = Tail(injector)
      /\ \E refused \in SUBSET Key :
           hostKeys' = IF Head(injector) = ReleaseAll THEN {}
                       ELSE ApplyAll(hostKeys, Head(injector), refused)
      /\ UNCHANGED <<uiPc, uiKeys, inputs, uiState, enabled, sender, late, alive, applied, highest,
                     replayed, packets, acks>>
  BY Zenon DEF Inject, ui, link, viewer, toHost, toViewer
<1> DEFINE l == Len(injector)
           first == Head(injector)
           staged == [j \in Nat |-> stage[j + 1]]
<1>3. injector \in Seq(Seq(Event) \cup {ReleaseAll}) /\ l \in Nat
  BY LenProperties DEF KeysInv, Typed, CommandsAreTyped
<1>4. /\ injector' \in Seq(Seq(Event) \cup {ReleaseAll}) /\ Len(injector') = l - 1
      /\ \A j \in 1..l - 1 : injector'[j] = injector[j + 1]
      /\ first = injector[1] /\ first \in Seq(Event) \cup {ReleaseAll}
  BY <1>2, <1>3, HeadTailProperties
<1>5. l >= 1
  BY <1>2, <1>3, EmptySeq
<1>6. staged \in [Nat -> SUBSET Key] /\ \A j \in Nat : staged[j] = stage[j + 1]
  OBVIOUS
<1>7. /\ hostKeys \subseteq stage[0]
      /\ \A j \in 1..l : AfterCommand(stage[j - 1], injector[j]) \subseteq stage[j]
  BY <1>1 DEF Bounds, InjectorBounds
<1> HIDE DEF staged, l, first
<1>8. hostKeys' \subseteq stage[1]
  <2>1. AfterCommand(stage[0], first) \subseteq stage[1]
    <3>1. 1 \in 1..l /\ 1 - 1 = 0
      BY <1>3, <1>5
    <3> QED BY <1>4, <1>7, <3>1
  <2>2. CASE first = ReleaseAll
    BY <1>2, <2>2 DEF first
  <2>3. CASE first # ReleaseAll
    <3>1. PICK refused \in SUBSET Key : hostKeys' = ApplyAll(hostKeys, first, refused)
      BY <1>2, <2>3 DEF first
    <3>2. first \in Seq(Event)
      BY <1>4, <2>3
    <3>3. ApplyAll(hostKeys, first, refused) \subseteq ApplyAll(stage[0], first, {})
      <4> DEFINE keys == hostKeys
                 more == stage[0]
      <4>1. keys \subseteq more
        BY <1>7
      <4> HIDE DEF keys, more
      <4>2. ApplyAll(keys, first, refused) \subseteq ApplyAll(more, first, {})
        BY <3>2, <4>1, ApplyAllMonotone
      <4> QED BY <4>2 DEF keys, more
    <3>4. AfterCommand(stage[0], first) = ApplyAll(stage[0], first, {})
      BY <2>3, Zenon DEF AfterCommand
    <3> QED BY <2>1, <3>1, <3>3, <3>4
  <2> QED BY <2>2, <2>3
<1>9. InjectorBounds(staged)'
  <2>1. \A j \in 1..l - 1 : /\ j + 1 \in 1..l /\ j \in Nat /\ j - 1 \in Nat
                            /\ (j + 1) - 1 = j /\ (j - 1) + 1 = j
    BY <1>3
  <2>2. \A j \in 1..l - 1 : AfterCommand(stage[j], injector[j + 1]) \subseteq stage[j + 1]
    BY <1>7, <2>1
  <2>3. \A j \in 1..l - 1 : staged[j - 1] = stage[j] /\ staged[j] = stage[j + 1]
    BY <1>6, <2>1
  <2>4. \A j \in 1..Len(injector') : AfterCommand(staged[j - 1], injector'[j]) \subseteq staged[j]
    BY <1>4, <2>2, <2>3
  <2>5. hostKeys' \subseteq staged[0]
    BY <1>6, <1>8
  <2> QED BY <2>4, <2>5 DEF InjectorBounds, AfterCommand
<1>10. HostBounds(down, staged[Len(injector)])'
  <2>1. staged[Len(injector')] = stage[l]
    BY <1>3, <1>4, <1>5, <1>6
  <2>2. HostBounds(down, stage[l])
    BY <1>1 DEF Bounds, l
  <2> QED BY <1>2, <2>1, <2>2 DEF HostBounds
<1>11. Bounds(down, staged)'
  BY <1>1, <1>2, <1>9, <1>10 DEF Bounds, QueueBounds, FrontKnown, PacketBounds, UserBounds
<1>12. Typed'
  BY <1>2, <1>4 DEF KeysInv, Typed, WellNumbered, PacketsAreOld, HostIsBehind, ScreenIsSane,
     CommandsAreTyped
<1> QED BY <1>6, <1>11, <1>12, Zenon DEF KeysInv

\* The host's network thread.
LEMMA HostKeepsKeys ==
  ASSUME KeysInv, HostNetwork
  PROVE  KeysInv'
<1>0. PICK down, stage \in [Nat -> SUBSET Key] : Bounds(down, stage)
  BY DEF KeysInv
<1>1. ASSUME NEW p \in hellos, HostReceiveHello(p)
      PROVE  KeysInv'
  <2>1. UNCHANGED <<ui, link, viewer, highest, hostKeys, packets, acks>>
    BY <1>1, Zenon DEF HostReceiveHello, toHost
  <2>2. \/ UNCHANGED <<applied, injector, replayed>>
        \/ ReplacePeer(p)
        \/ ReplacePeer(0)
    BY <1>1, Zenon DEF HostReceiveHello
  <2>3. CASE UNCHANGED <<applied, injector, replayed>>
    <3>1. UNCHANGED <<uiPc, uiKeys, uiState, inputs, sender, enabled, late, alive, applied, highest,
                      injector, hostKeys, replayed, packets, acks>>
      BY <2>1, <2>3 DEF ui, link, viewer
    <3>2. Typed'
      BY <3>1 DEF KeysInv, Typed, WellNumbered, PacketsAreOld, HostIsBehind, ScreenIsSane,
         CommandsAreTyped
    <3>3. Bounds(down, stage)'
      BY <1>0, <3>1 DEF Bounds, QueueBounds, FrontKnown, PacketBounds, InjectorBounds,
         HostBounds, UserBounds
    <3> QED BY <3>2, <3>3, Zenon DEF KeysInv
  <2> QED BY <2>1, <2>2, <2>3, ReplacedKeepsKeys
<1>2. ASSUME NEW d \in packets, HostReceiveEvents(d)
      PROVE  KeysInv'
  BY <1>2, EventsKeepKeys
<1>3. ASSUME NEW p \in goodbyes, HostReceiveGoodbye(p)
      PROVE  KeysInv'
  <2>1. ReplacePeer(0) /\ UNCHANGED <<ui, link, viewer, highest, hostKeys, packets, acks>>
    BY <1>3, Zenon DEF HostReceiveGoodbye, toHost, toViewer
  <2> QED BY <2>1, ReplacedKeepsKeys
<1>4. CASE HostDrop
  <2>1. ReplacePeer(0) /\ UNCHANGED <<ui, link, viewer, highest, hostKeys, packets, acks>>
    BY <1>4, Zenon DEF HostDrop, toHost, toViewer
  <2> QED BY <2>1, ReplacedKeepsKeys
<1> QED BY <1>1, <1>2, <1>3, <1>4 DEF HostNetwork

\* At first no key is down, and the bounds are empty.
LEMMA KeysHoldAtFirst == Init => KeysInv
<1> SUFFICES ASSUME Init PROVE KeysInv
  OBVIOUS
<1> DEFINE none == [n \in Nat |-> {}]
<1>1. /\ uiKeys = {} /\ inputs = <<>> /\ uiState = "watching" /\ sender = NewSender
      /\ alive = TRUE /\ applied = 0 /\ highest = 0 /\ injector = <<>> /\ hostKeys = {}
      /\ packets = {} /\ acks = {} /\ late = {} /\ replayed = {}
  BY Zenon DEF Init
<1>2. sender.queue = <<>> /\ sender.next = 1
  BY <1>1 DEF NewSender
<1>3. none \in [Nat -> SUBSET Key] /\ none[0] = {}
  OBVIOUS
<1> HIDE DEF none
<1>4. Typed
  BY <1>1, <1>2, NothingInputs DEF Typed, WellNumbered, PacketsAreOld, HostIsBehind,
     ScreenIsSane, CommandsAreTyped
<1>5. Bounds(none, none)
  BY <1>1, <1>2, <1>3 DEF Bounds, QueueBounds, FrontKnown, PacketBounds, UserBounds,
     InjectorBounds, HostBounds
<1> QED BY <1>3, <1>4, <1>5, Zenon DEF KeysInv

\* Every step keeps the bounds.
LEMMA StepKeepsKeys == KeysInv /\ [Next]_vars => KeysInv'
<1> SUFFICES ASSUME KeysInv, [Next]_vars PROVE KeysInv'
  OBVIOUS
<1>1. CASE UNCHANGED vars
  <2>1. UNCHANGED <<uiPc, uiKeys, uiState, inputs, sender, enabled, late, alive, applied, highest,
                    injector, hostKeys, replayed, packets, acks>>
    BY <1>1 DEF vars, ui, link, viewer, host, toHost, toViewer
  <2>2. PICK down, stage \in [Nat -> SUBSET Key] : Bounds(down, stage)
    BY DEF KeysInv
  <2>3. Typed'
    BY <2>1 DEF KeysInv, Typed, WellNumbered, PacketsAreOld, HostIsBehind, ScreenIsSane,
       CommandsAreTyped
  <2>4. Bounds(down, stage)'
    BY <2>1, <2>2 DEF Bounds, QueueBounds, FrontKnown, PacketBounds, InjectorBounds,
       HostBounds, UserBounds
  <2> QED BY <2>3, <2>4, Zenon DEF KeysInv
<1> QED BY <1>1, ScreenKeepsKeys, PushInputsKeepsKeys, NetworkKeepsKeys, HostKeepsKeys,
           InjectKeepsKeys DEF Next

----------------------------------------------------------------------------
(* However the connection came and went, once nothing is on its way the host *)
(* holds down only what the user does, and what the two known deviations   *)
(* pressed.                                                                *)

\* Once all is settled the host has applied the last event queued.
LEMMA SettledKeys == KeysInv => OnlyHeldKeysAreDown
<1> SUFFICES ASSUME KeysInv, Settled
             PROVE  hostKeys \subseteq uiKeys \cup late \cup replayed
  BY DEF OnlyHeldKeysAreDown
<1>1. alive /\ uiPc = "frame" /\ sender.queue = <<>> /\ injector = <<>>
  BY DEF Settled
<1>2. PICK down, stage \in [Nat -> SUBSET Key] : Bounds(down, stage)
  BY DEF KeysInv
<1>3. highest = sender.next - 1
  <2>1. sender.next \in Nat /\ highest \in 0..sender.next - 1
    BY DEF KeysInv, Typed, WellNumbered, HostIsBehind
  <2>2. sender.next - 1 <= highest
    BY <1>1, <1>2 DEF Bounds, FrontKnown
  <2> QED BY <2>1, <2>2
<1>4. hostKeys \subseteq replayed \cup down[highest]
  <2>1. Len(injector) = 0
    BY <1>1
  <2>2. hostKeys \subseteq stage[0] /\ HostBounds(down, stage[0])
    BY <1>2, <2>1 DEF Bounds, InjectorBounds
  <2> QED BY <2>2 DEF HostBounds
<1>5. down[sender.next - 1] \subseteq uiKeys \cup late
  <2>1. inputs = <<>>
    BY <1>1 DEF KeysInv, Typed, ScreenIsSane
  <2>2. UserBounds(down)
    BY <1>2 DEF Bounds
  <2> QED BY <1>1, <2>1, <2>2, NothingInputs DEF UserBounds
<1> QED BY <1>3, <1>4, <1>5

\* OnlyHeldKeysAreDown: neither a lost release, nor a repeated or late packet, nor
\* a new epoch leaves a key down that the user let go of.
THEOREM RemoteKeysAreHeld == Spec => []OnlyHeldKeysAreDown
BY KeysHoldAtFirst, StepKeepsKeys, SettledKeys, PTL DEF Spec

----------------------------------------------------------------------------
(* From a suspension to the next Config the release-all stays in front.    *)

\* Nothing the viewer does before it is accepted again takes the release-all
\* from the front of its queue: pushing appends or discards, and there are
\* neither acknowledgements nor retransmissions.
LEMMA StepKeepsFirst == KeysInv /\ ReleaseGoesFirst /\ [Next]_vars => ReleaseGoesFirst'
<1> SUFFICES ASSUME KeysInv, ReleaseGoesFirst, [Next]_vars, wasConnected', ~accepted'
             PROVE  ReleaseFirst(sender)'
  BY DEF ReleaseGoesFirst, ReleaseFirst
<1>1. wasConnected /\ ~accepted => ReleaseFirst(sender)
  BY DEF ReleaseGoesFirst, ReleaseFirst
<1>2. CASE PushInputs
  <2> DEFINE t == PushAll(sender, inputs)
  <2>1. PICK down, stage \in [Nat -> SUBSET Key] : Bounds(down, stage)
    BY DEF KeysInv
  <2>2. /\ WellNumbered(sender) /\ inputs \in Seq(Event) /\ highest \in Nat
        /\ QueueBounds(sender, down) /\ FrontKnown(sender, down, highest)
    BY <2>1 DEF KeysInv, Typed, ScreenIsSane, HostIsBehind, Bounds, WellNumbered
  <2>3. ReleaseFirst(sender) => ReleaseFirst(t)
    BY <2>2, PushedAll
  <2> HIDE DEF t
  <2>4. sender' = AfterSendNew(t) /\ UNCHANGED <<wasConnected, accepted>>
    BY <1>2, Zenon DEF PushInputs, viewer, t
  <2>5. sender'.queue = t.queue
    BY <2>4, SendingKeepsQueue DEF AfterSendNew
  <2> QED BY <1>1, <2>3, <2>4, <2>5 DEF ReleaseFirst
<1>3. CASE Suspend
  <2>1. sender'.queue = <<[seq |-> sender.next, event |-> ReleaseAll]>>
    BY <1>3 DEF Suspend, Discard
  <2> QED BY <2>1 DEF ReleaseFirst
<1>4. CASE UNCHANGED <<sender, accepted, wasConnected>>
  BY <1>1, <1>4 DEF ReleaseFirst
<1>5. ASSUME NEW a \in acks, ReceiveAck(a) PROVE FALSE
  BY <1>5 DEF ReceiveAck, viewer
<1>6. CASE Resend \/ ReceiveConfig
  <2>1. CASE Resend
    <3>1. accepted /\ UNCHANGED <<alive, accepted, wasConnected>>
      BY <2>1, Zenon DEF Resend, viewer
    <3> QED BY <3>1
  <2>2. CASE ReceiveConfig
    <3>1. accepted' = TRUE
      BY <2>2, Zenon DEF ReceiveConfig
    <3> QED BY <3>1
  <2> QED BY <1>6, <2>1, <2>2
<1>7. UNCHANGED vars => UNCHANGED <<sender, accepted, wasConnected>>
  BY DEF vars, link, viewer
<1>8. Screen => PushInputs \/ UNCHANGED <<sender, accepted, wasConnected>>
  BY Zenon DEF Screen, PressKey, ReleaseKey, UseShortcut, ReleaseKeyboard, ReleaseControl,
     Frame, LoadEnabled, DrainEvents, link, viewer
<1>9. SendHello \/ RebuildSocket \/ Stop \/ Fail => UNCHANGED <<sender, accepted, wasConnected>>
  BY Zenon DEF SendHello, RebuildSocket, Stop, Fail, link, viewer
<1>10. HostNetwork \/ Inject => UNCHANGED <<sender, accepted, wasConnected>>
  BY Zenon DEF HostNetwork, HostReceiveHello, HostReceiveEvents, HostReceiveGoodbye, HostDrop,
     Inject, link, viewer
<1> QED
  BY <1>2, <1>3, <1>4, <1>5, <1>6, <1>7, <1>8, <1>9, <1>10 DEF Next, Network

\* suspend() "a release-all goes out first thing": ReleaseGoesFirst.
THEOREM ReleaseWaitsFirst == Spec => []ReleaseGoesFirst
<1>1. Init => ReleaseGoesFirst
  BY DEF Init, ReleaseGoesFirst
<1> QED
  BY <1>1, KeysHoldAtFirst, StepKeepsKeys, StepKeepsFirst, PTL DEF Spec

============================================================================
