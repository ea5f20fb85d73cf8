# Specifications of echobind

echobind shares a computer's screen, audio and controls over UDP. These are TLA+
specifications of the parts of it whose correctness depends on the order of
things: what is lost, repeated or late on the network, what the user answers
when, who takes the one slot a host has, which thread fails first. TLC checks
them on small instances; TLAPS proves the theorems in the `*Proofs` modules for
every instance.

Paths are relative to the repository's `crates/`. `input.rs`, `protocol.rs` and
`video.rs` are in `echobind-core/src`, all others in `echobind-desktop/src`.
`PROJECT.json` maps every definition to the lines it stands for.

## The system and its parts

| Part | Where | State | Operations | Hard because |
|---|---|---|---|---|
| Event stream | `input.rs` | `EventSender`: queue, queued bytes, next sequence, sent through; `EventReceiver`: last applied | push, push_clipboard, discard, acknowledge, send_new, retransmit; receive, reset | loss, reordering, repetition, old acknowledgements, overflow in a paste |
| Host session | `session.rs` `spawn_host_network`, `app.rs` | the slot (`HostPeers`), pending request, grace, clock, identity, datagram size; the screen's copy of the request | packets, commands, timeouts, farewell; accept, reject, forget, stop | late answers, stale requests, migration, restore, partial failure |
| Viewer session | `session.rs` `spawn_client_network` | accepted, reconnecting, socket, video order, received stream | hello, heartbeat, config, silence, socket rebuild, goodbye | a session that both ends believe in differently |
| Viewer input link | `session.rs` `InputLink`, `app/control.rs` | enabled flag, `EventSender`, keys forwarded | send, acknowledge, resend_if_due, suspend | two threads |
| Injector | `remote_input.rs` | held keys and buttons, clipboard pieces, copy watch | apply, shortcut, release_all, poll_copy | what is held must be let go |
| Video transport | `video.rs` | pending frames, fragments, parity | push, expire_stale, drop_oldest | eviction against completion |
| Frame order and decode queue | `session.rs` `DecodeQueue` and the viewer loop | next frame, reorder window, waiting for a keyframe, generation | submit, pop, reset, request a keyframe | decoder and network thread race |
| Windows pipeline | `hardware_windows.rs` | slots, IDR in flight, worker failure, activity clock | capture, convert, submit, complete, send, recover | five threads, bounded slots, one of them failing |
| macOS pipeline and the OpenH264 fallback | `hardware_macos.rs`, `session.rs` `spawn_encoder` | sample slot, frames outstanding, keyframe request | capture, submit, receive, send, fall back | answers come from another thread, frames in flight depend on those dropped |
| Decoders, renderers | `decoder_*`, `video_renderer*` | platform objects | decode, draw | platform code |
| Audio | `audio.rs` | capture and packet queues, sequence numbers, playback buffer | capture, encode, push, decode, trim, write_output | real-time callbacks, numbers that wrap around, hosts that restart |
| Presence | `presence.rs` | probes and statuses of saved hosts | watch, probe, status | statuses that go stale, a lock let go in between |
| Saved sessions, trust | `saved.rs`, `trust.rs` | files, ids shared with the host | remember, update, remove, trust, forget | memory, file and shared set in step |
| Application | `app.rs`, `app/` | mode, session, the request and viewer shown, form and editor | start, stop, connect, accept, edit | events that are drained later than they happen |
| Wire format | `protocol.rs` | none | encode, decode | lengths and offsets, older peers |
| Command line | `echobind-cli` | clipboard transfer, peer | record, connect | an older protocol |

The viewer's UI thread and network thread share `InputLink`. The host's network
thread talks to its media threads through `HostPeers` (three values stored one
after the other) and to the injector and the screen through channels. The list
of trusted ids is written by the window and read by the network thread. Between
viewer and host there is only UDP.

What makes the parts correct: the event stream applies each event once and in
order and lets go of everything after a gap; the host lets in only whom it was
told to, serves one viewer at a time, frees the slot of a silent one, keeps
each viewer's keys, clipboard and identity to that viewer; an encoder sends what
its viewer can decode and repairs what it drops; a viewer sees frames in order
from a keyframe on and hears sound in order; what the user decided survives
failed writes and crashes as far as it was written; every pipeline comes down
when it is told to.

## Modules

| Module | Models | Run as |
|---|---|---|
| `EventStream` | `EventSender` and `EventReceiver` as values: one operator per method | part of those below |
| `ReliableStream` | the promise: appended events arrive once, in order, unless given up | abstract specification |
| `InputChannel` | a sender and a receiver joined by UDP; implements `ReliableStream` | `MCInputChannel` |
| `HostSlot` | the promise: one slot, given by an answer or by trust, with a claim to return for who falls silent | abstract specification |
| `HostSession` | the host's network thread, its user's screen, viewers; implements `HostSlot` | `MCHostSession` |
| `RemoteControl` | screen and network thread of a viewer, `InputLink`, the host's receiver and injector, over `EventStream` | `MCRemoteControl` |
| `CopyReturn` | copied text on its way back to the viewer, over `EventStream` | `MCCopyReturn` |
| `NvencSession` | threads, slots, permits and counters of a Windows capture session, its watchdog, teardown and rebuild | `MCNvencSession` |
| `NvencStream` | frame numbers, references and keyframe requests of the Windows host, across sessions and viewers | `MCNvencStream` |
| `MacVideo` | the macOS pipeline and the OpenH264 fallback | `MCMacVideo` |
| `VideoReassembly` | fragments, parity and `VideoReassembler` as values | part of the next |
| `VideoPath` | the viewer's frame order, `DecodeQueue` and decoder, over `VideoReassembly` | `MCVideoPath` |
| `WireProtocol` | encode and parse of every packet | part of the next |
| `AudioPath` | audio from capture to output callback, every datagram over `WireProtocol` | `MCAudioPath` |
| `Presence` | the thread that probes saved hosts | part of the next |
| `DesktopApp` | the window, its lists and their files, what it sees of a session, over `Presence` | `MCDesktopApp` |
| `EventStreamProofs`, `StreamProofs`, `HostSessionProofs`, `RemoteControlProofs`, `MediaProofs`, `DesktopAppProofs`, `NvencStreamProofs`, `NvencSessionProofs` | lemmas and theorems | |

**EventStream.** The state of an end is a record with the fields of the struct.
An event is opaque; what the stream knows of it is `Size`, the length of its
encoding. The window and packet cutting of `send_window` is given by the set
of packets it produces (`WindowPackets`): the window is the longest prefix of
the queue within `WINDOW_BYTES`, and packets are filled greedily (`Opener`).
`progress_at` is left out: retransmission may happen at any time the queue is
not empty, which has every behaviour of the 40 ms timer. The receiver's `None`
is 0, as in `unwrap_or(0)`.

**InputChannel.** One action per method call. A datagram in flight stays in
its set, so it may arrive any number of times, in any order, or never. `log`,
`discarded` and `delivered` are history variables. `PushEvents` takes a
sequence, since `push_clipboard` queues a text's pieces in one call and stops
at the first that does not fit.

**HostSession.** `pc` is the thread's place in its loop: take commands (and
start the streams over when the epoch moved), receive one datagram, serve the
clipboard, check the timeouts. Each arm of the `match` on the packet is an
operator, in the order of the arms: an arm's guard has the negation of the
ones before it where they overlap. Everything a viewer can send may arrive in
any iteration, which stands for loss, delay and repetition. The three Hellos
of `send_hellos` are `Hellos`. A send that can fail (`sent`, `kept`) is a
choice where the code looks at the result. The clock of `last_seen` may run
out in any iteration (`lastSeen` says whether there is one); the grace runs out
in `GraceElapses`. The datagram size is one bit; the epoch is only ever
compared for equality with the thread's copy (`epochMoved`). Of the event
streams there is left whether text is queued for the viewer (`clipboard`), and
of the injector whose input is held down and whose copy it waits for. The
screen has its own copy of the request (`shown`), fed by a queue of events and
answering through a queue of commands. `config`, `approved` and `goodbyeFrom`
are history.

**RemoteControl.** What HostSession has as one value (the input held down) and
InputChannel as a log, here with its meaning: the keys. `uiPc` splits
`InputLink::send` where another thread can come between: a frame chose what to
send, `enabled` was read (`LoadEnabled`), the lock was taken (`PushInputs`).
The network thread's arms are one action each. On the host, emptying or filling
the slot and what the top of the loop does about the new epoch are one action
(`ReplacePeer`), since no packet is received in between; `HostSession` has them
apart. `hostKeys` is what the injector has down after the commands it has
handled; `refused` are presses the platform does not perform. Datagrams carry
the port they were sent from, and a rebuilt socket has the next port. `late`
and `replayed` are history: keys pressed behind a suspension, and by an event
applied before. They mark what `NoneStuckBySuspension` and `AppliedOnce` are about, so that
`OnlyHeldKeysAreDown` can say that nothing else goes wrong.

**CopyReturn.** `clipboard_events` of the host, `host_events` and
`host_clipboard` of the viewer. A text has a first and a last piece. The
streams the host makes are numbered (`stream`) for the properties only: on the
wire sequences of two streams look alike. Two facts about time are used: a
Hello from before the viewer was let in is not in flight any more when the
host drops it for its silence (`HostDrop`), and neither an event acknowledged
before nor the acknowledgement of one is in flight any more when the viewer
gives up on a silent host (`StillInFlight`, `Suspend`); both timeouts are
seconds. What is in flight from an older stream may arrive at any time.

**NvencSession.** A slot of the texture ring goes round capture, prepared,
conversion, converted, submission, submitted, completion and back; each thread
has a `pc` and the frame it holds. Channels are sequences, counters are
variables of their own (the properties compare them with what the channels
hold). Whatever a clock decides may happen as soon as the rest of its guard
holds; the driver accepts, refuses, fails or hangs. `phase` follows
`run_dxgi_pipeline` and the capture session it runs; `Retire`, `RetireDone` and
`RetireTimeout` are `HardwareCapture::drop`, which stops the workers, waits, and
detaches those that hang. Causes of a rebuild that have no budget are one.

**NvencStream.** Frames have a number, the frame they refer to and whether they
are an IDR. The submission thread's swap of `force_keyframe` and what it does
when the encoder refuses are apart, the sender's reads of peer and epoch are
apart, and `replace_active_peer` stores its values one after the other
(`StorePeer`, `MoveEpoch`). What happens inside a session besides is
NvencSession's; here it takes the next frame as long as the session is on.

**MacVideo.** The pipeline thread's `pc` follows `run_hardware_pipeline`. VideoToolbox
is a queue (`vt`) that answers in order with a frame, nothing or an error into
the channel the thread reads (`out`). A frame is whether it is an IDR and
whether what it refers to was sent; `chain` says the same of the encoder's next
frame. `receiver` is history: what the viewer was sent, "gap" where it can tell
from the frame ids that something is missing. The fallback is two
threads: the capturer (`capture`: `CaptureTop` is the loop's condition, `Grab`
the wait for a frame, which has no limit) and the encoder (`pc`, from `EncoderTop`
round to "idle"); `SoftwareEnds` joins them. A frame that is being coded when the
viewer changes goes to the viewer of before (`stray`).

**VideoReassembly, VideoPath.** Bytes are bits, which XOR cannot tell apart from
bytes. The network thread's loop has a top, a receive and the drain of frames
in order; the decoder thread pops, decodes, skips or fails, under the generation
it popped with. The host may send a keyframe at any time, so which request it
answers is left out here.

**WireProtocol.** A byte is the value it is part of, its width and its place in
it: a field read at another offset or width than it was written is garbled. So
the encode and the parse are two independent translations that have to agree.
Header lengths are the program's, datagram sizes small.

**AudioPath.** The host's capture callback and audio thread, the viewer's network
thread, playback thread and output callback, with the bounded channels between
them. A sample is which host encoded it, in which frame and where in it, so that
the order and the channel of what is played can be seen. The output callback is
one output frame at a time. Every datagram on the network is encoded and decoded
with WireProtocol; before there is any audio, one of every other kind and shape
is (`OtherTraffic`).

**Presence, DesktopApp.** The window's frame drains events, handles them one by
one, tells Presence whom to watch, then reacts to one button. A write to disk is
two steps, of which each can fail or be the program's last (`CrashAndRestart`);
`granted` is what the user decided and `durable` the same as of the last write
that returned. The list is the trusted ids or the saved sessions, as of the mode.
The host's network thread is what the window can see of HostSession: what each
Hello, Goodbye, timeout and answer does to the slot and which events it sends,
also when the Config cannot be sent (`Tells`, `Taken`). `untold` is history: the slot
was changed and no event tells it. Presence's
times are abstract: a reply is heard or stale, an unanswered probe waiting or
silent.

## Runs

| Run | Shows | Bounds and size |
|---|---|---|
| `input_channel` | once and in order; nothing skipped or forgotten that is not settled; a release-all after every gap; exact byte count, packets and windows within theirs; `ReliableStream` is implemented; every event is settled at both ends in the end | `MaxSequence` 3; events of one and two bytes, a text of two pieces; queue 4 bytes, window 3, packet 2 |
| `host_session` | video goes where the session says; the slot is on the clock; Config in force; who is connected was let in; input is released; `HostSlot` is implemented | one device at two ports, an audio-only one at another address; `MaxCommands`, `MaxEvents` 1; 4.6 million states |
| `remote_control` | when all is settled only keys the user holds are down; a free host has none down; after a suspension a release-all goes first | a key that is a modifier, a letter, two ports, two sequences, a queue of two bytes, one injector command |
| `remote_control_live` | a viewer that left or died leaves no key down for ever | two keys, one port |
| `copy_return` | within a stream copied texts arrive whole, and the last one arrives | two texts, streams and ports; 370 000 states |
| `nvenc_session` | slots, counts and the permit exact; a failed worker's cause is seen; a clean teardown; giving up only without progress; teardown and stop come to an end | two slots, one stall rebuild, two desktop updates a session; about 3 minutes |
| `nvenc_stream` | a viewer is sent only what it can decode; frames in order; a frame discarded for want of a keyframe is followed by one | two changes of viewer, four frames, one place to the sender |
| `mac_video` | what was dropped is repaired or seen by the viewer; a stop ends the pipeline, and the fallback but for a capturer without frames | `InFlight` 4 as in the code, nothing else bounded; 522 000 states |
| `video_path` | frames are put together as encoded; held frames wait for an earlier one; frames leave the queue as a chain from a keyframe | four-bit frames in two-bit chunks, one pending frame, window and queue of two, three datagrams in flight, one outage |
| `audio_path` | sound is played in order, once, on its channel; only late frames are left out; every packet is read as written | see below; 622 000 states |
| `desktop_app` | trust is what the user decided; each host saved once; the window shows who is served, as far as events tell it; a status settles | six instances, see below; 495 000 states |

A run that finds a statement of the repository violated:

| Run | Statement | What happens |
|---|---|---|
| `remote_suspension` | `session.rs:607`, `README.md:75`: a release-all goes out first thing, nothing is stuck down | `send` had read `enabled` before the suspension and queues a press behind the release-all; its release is refused |

Why the bounds are enough:

*InputChannel.* A window has several packets, a text straddles packets, a queue
straddles windows and a paste overflows in its middle. Three sequences are an
overflow, its release-all and an event behind it. With 5 the safety part was
checked too (634 000 states). It is the one run that checks for deadlock: the
other modules' bounds stop the model where the code goes on, or the session may
really end.

*HostSession.* One command and one event still let an answer be overtaken by any
number of iterations.

*RemoteControl.* A press, an overflow or a suspension, and the release-all behind
it, with all datagrams of before in flight. One command waits for the injector
while viewer and network go on; the code's channel has no bound, but it is first
in, first out, and the theorem on released keys holds for any bound.

*CopyReturn.* Two texts fill queue and window: pieces of the first are resent
behind those of the second, by either of two streams. That a third text
overflows the queue in its middle was checked with one stream (79 000 states).

*NvencSession.* With two slots one is with a stage while the other is handed on or
given back; one stall rebuild tells the budget's end from its renewal.

*VideoPath.* A frame has two chunks and a recovery datagram, the last chunk
shorter; one pending frame makes every second one an eviction.

*AudioPath.* `SequenceModulus` 4 wraps around within the first host's four frames;
`NetworkLimit` 2 and a packet queue of 1 reorder and drop; three output frames take
two source ones (`RatioNum`, `RatioDen`), so the phase matters; the buffer holds one and a
half frames of two channels, so the trim cuts a frame. `InWindow` bounds how old
a datagram is against the host's newest frame: half the sequence space, which at
32 bits and 10 ms a frame is 248 days. `MaxFrame` is two runs of the host: four frames, then one.

*DesktopApp.* A host asked from two machines; the same with a second viewer that
has no identity, and Configs that cannot be sent; one asked from two ports of one machine,
with Configs that cannot be sent; one with a single viewer, a crash and a disk that fails; a connect page with two addresses and two
names, with a crash and a disk that fails; one whose saved host is probed. A
second viewer is what displaces, a second port what moves; files do not depend on
either, so the crash has an instance of its own.

## Deviations

What the code does against what it or its README says. These are stated as
properties too, without a run of their own (the run above is the one that
changes what a user sees most directly). TLC finds each violated, by a short
trace, when it is checked with the `.cfg` named:

| Property | With | Statement | What happens |
|---|---|---|---|
| `ViewerNotDisplaced` | `HostSession.cfg` | `protocol.rs:140`: a busy host would refuse another request | B asks while A is absent, A is restored, the user's Accept of B's request replaces A |
| `CopyIsForItsViewer` | `HostSession.cfg` | `README.md:73`: the clipboard is only sent after a copy the viewer made | the watch for a copy outlives its viewer |
| `GoodbyeEndsGrace` | `HostSession.cfg` | `session.rs:1494`: a viewer that left gets no grace | it left from another port than the one it was absent from |
| `AudioOnlyGetsNoVideo` | `HostSession.cfg` | `session.rs:815`: an audio-only viewer never starts capture | only its legacy Hello arrives after it changed ports |
| `ClipboardStartsOver` | `HostSession.cfg` | `session.rs:1219`: both streams start over whenever the viewer changes | the clipboard step of that very iteration still has the old stream |
| `RequestIsShown` | `HostSession.cfg` | `session.rs:1466`: ask again whenever the request changes | a restore clears the screen's request, not the thread's |
| `IdentityIsOwn` | `HostSession.cfg` with `Ip <- OneAddress` | `session.rs:475`: the viewer's identity, when it sent one | two devices behind one address |
| `AppliedOnce` | `RemoteControl.cfg` | `input.rs:393`: applies each event once, in order | the viewer's socket was replaced: the host's receiver starts over, the viewer's sender does not |
| `LastCopyArrived` | `CopyReturn.cfg` | `README.md:72`: copying brings the text back | after a migration the host's sender starts at 1, the viewer's receiver does not |
| `TextsAreWholeInStream` | `CopyReturn.cfg` | `session.rs:499`: text the host copied | a suspension resets the receiver and keeps the assembler: resent pieces are joined twice |
| `FailedSendIsRepaired` | `NvencStream.cfg` | `hardware_windows.rs:334`: an IDR on its way to the sender repairs this loss too | when the sending of that IDR itself fails, its id is still in `IdrInFlight` and the request is dropped (`:2838`) |
| `FedIsDecodable` | `VideoPath.cfg` | `session.rs:2034`: a missing reference invalidates every dependent frame | a decoder that skips a stale frame decodes the next one of its generation (`:2707`) |
| `ReceiverIsCertain` | `MacVideo.cfg` | `hardware_macos.rs:319`: the receiver cannot inherit an uncertain reference chain | the frames in flight behind a dropped one go out with the next ids |
| `NewHostIsHeard` | `AudioPath.cfg` | `README.md:93`: the viewer reconnects on its own | its playback goes on expecting the former host's sequence numbers and leaves out the new host's frames (`session.rs:2134`, `audio.rs:496`) |

Seen while modelling, without a property:

- A viewer moves to another port and the Config cannot be sent: the slot has moved,
  no event says so, and the window goes on showing the port and identity of before
  (`session.rs:1354-1368`; the next Hello from there sends a Config but no
  `Connected`). An Accept that displaces a viewer and whose Config cannot be sent
  empties the slot, and the window goes on showing the displaced one
  (`session.rs:1246-1259`). `ShownPeerIsServed` names both with `untold`; what is
  left is that a viewer that is served is shown on its machine, and nobody under
  another's identity.
- The fallback's capturer looks at the flag between two frames only: when
  ScreenCaptureKit brings no more of them, `get_next_frame` does not return, the
  fallback is not joined and so neither is `stop()`
  (`session.rs:1730-1764`, `hardware_macos.rs:965`). `StopEnds` names the case.
- MacVideo's `slip`: the first frame the fallback codes may be discarded as late; the
  next clears the request for a keyframe and the stream starts with a frame that
  refers to nothing sent (`session.rs:1874-1889`). A frame too large to packetize
  is lost without asking for another. The fallback's ids start over at 0, so a viewer that has
  seen higher ones drops its frames until a keyframe (`session.rs:2306`).
- A late keyframe of before takes the viewer back (`session.rs:2287-2300`).
- A status is published after the window paused and cleared them, and one of a
  host that is not watched any more is kept while others are (`presence.rs:233`).
  A probe that got no socket stays offline until the list is shown again.
- Two instances of the application write the same staging file (`saved.rs:177`).
- A viewer that was forgotten is trusted again after a restart if that write
  failed; the user is told of the failure. `durable` says so.
- Two viewers behind one address: an "Always allow" given to the first one's
  request counts for the second one's if it comes from the same port. DesktopApp
  has one viewer on each machine.

## Fairness

`InputChannel`: retransmission is weakly fair: the loops of both sides call
`resend_if_due` (or `retransmit_due`) in every pass, at least every 20 ms, and the
queue stays due until something is acknowledged. Receiving a packet that
advances the receiver, receiving any packet that gets the present position
acknowledged, and receiving an acknowledgement that advances the sender are
strongly fair: what is sent again and again arrives some time. The network may
drop each single datagram for good (`Lose`). Pushing and discarding are not
fair: nobody has to use the keyboard.

`RemoteControl`: what is fair concerns a viewer that is gone: the Hellos and
Goodbyes it sent do not stay in flight for ever (`Lapse`), the host drops it
after `CONNECTION_TIMEOUT` without datagrams, and the injector handles its
queue, whose end it waits for in a loop. Nothing is assumed of a viewer that
runs, nor that a Goodbye arrives.

`NvencSession`: each thread goes on when it can, since each blocks only with a
timeout, on a channel or on the driver. A worker that hangs in the driver need
not return: `RetireTimeout` is not fair either, but then `RetireDone` or the
worker's own step is enabled for ever.

`MacVideo`: the pipeline thread goes on (its waits are bounded) and VideoToolbox
answers; so do the threads of the fallback and OpenH264, with one exception:
nothing is assumed of `Grab`, since `get_next_frame` may wait for ever. Hence
`StopEnds` has two ends: the thread's own, or an encoder that is done beside a
capturer that stays in its wait.

`DesktopApp`: every frame of the window tells Presence whom to watch, however
often the user is in between (`WatchSaved`, strong: it is enabled only when a
frame has come so far), writes return, the probing thread is scheduled, its clocks
go on (`Age`), and not every one of infinitely many probes of a host that shares is lost
(`Pass({a})`). Age and Pass are strong because the thread's own steps disable
them in between. Nothing is assumed of the user.

## Proofs

Of `InputChannel`, `StreamProofs` proves for every set of events, sizes and bounds, from
`EventAssumption` and `BoundAssumption` (a release-all fits the queue, every
event a packet) and `PushesAssumption`: the types, `AppliedOnceInOrder`,
`NothingSkipped`, `ForgottenOnlyWhenSettled`, `ReleaseAfterGap`, and that the
channel implements `ReliableStream` (`StreamIsReliable`). The invariants are
not inductive: a packet in flight was cut from a queue that no longer exists.
`IInv` says of each packet what outlives its queue: it is a piece of the log,
everything before its base is settled, and where its base is the first after a
gap the event there is a release-all; and of the queue that it is the tail of
the log. `EventStreamProofs` has what the operators return: the prefix
`Acknowledged` cuts off, what `Push` leaves behind, that every packet of a
window is a piece of the queue.

`HostSessionProofs` proves the types and the invariants of the host for any
number of endpoints, addresses and devices. `SlotInv` needs one fact more than
the properties: no clock runs during a grace (`GraceIsQuiet`), so that a drop
never overwrites the grace of another. `HeldInv` needs that input of a former
viewer is held only while the epoch is still to be noticed (`HeldByEpoch`).
`HostSlotIsLeased` shows that the host implements `HostSlot`, whose `holder`,
`absent` and `asking` are the addresses in `HostPeers.active`, `reconnect_peer` and
`pending_peer`: each arm of the match, each command, either timeout and each of the
user's actions is one of its steps or leaves its variables alone. That moving to
another port, a goodbye and falling silent cost nobody else a claim comes from
`GraceOnlyWhenFree` (a theorem; no run of its own, since the refinement fails
without it); that no claim is over before it begins from `OnlyGraceEnds`.
`HostSlot` lets the user's answer give the slot away from under a viewer, as the code
does (Deviations, `ViewerNotDisplaced`). Its assumption `NoneIsNoRequest` says that
`Option::None` is not a request.

`StreamProofs` also proves `AccountsExact`: the count of queued bytes is
that of the queue, every packet is within `MaxPayload` and what the viewer has
in flight within `WindowBytes`. `EncodedLength` is a recursive function; the
lemmas on it (`EncodedSums`, `EqualPieces`) say what it is of a piece of a
sequence, and `OpenerSteps` how far the greedy cutting of a packet goes.

Of `CopyReturn` it proves `TextsAreWhole` and `CopyArrivesInStream` for any sizes,
windows, number of texts, streams and ports, from the same two assumptions and
`CopyAssumption`. `CopyIInv` says that unless a migration or a suspension has
broken in (`mixed`, `cut`), there is a log of the host's present stream: its queue
is the end of the log, the datagrams of that stream carry parts of it (`Logged`),
and the viewer, if it hears that stream, is at a place in the log where what it has
joined so far fits the next piece (`Carried`). What it passes over must not be the
rest of a text it began. `NothingTorn`: once it has begun one, every packet starts no later
than where it stands, or at the release-all of an overflow, which makes
it forget the beginning. `OldIsHeard`: a packet that ends before what the
host has let go of was applied by this viewer or is older than what was given up.
With `LetGoWhenBrought`, a queue that has drained means that the last text has been
joined.

`RemoteControlProofs` proves `ReleasedWhenFree` for any keys, letters, sockets
and bounds. Between the moment the slot is emptied and the moment the injector
has caught up keys are still down; what keeps the promise meanwhile is that the
last command in its queue is a release-all (`ReleaseIsLast`), and that no
datagram comes from the port that stands for a free slot (`PortsAreReal`), so
nothing is queued behind it. It rests on `ReplacePeer` being one step.

It proves `OnlyHeldKeysAreDown` and `ReleaseGoesFirst` as well. `KeysInv` says
there are bounds along the stream: for each sequence a set of keys that may be
down once the host has got that far, and for each command on its way to the
injector another. Applying an event to the keys of one bound leaves keys of the
next; the bound after the last event queued are keys the user holds, or pressed
behind a suspension (`UserBounds`); an old packet in flight and the host's
position respect the same bounds (`PacketBounds`, `HostBounds`), so that what is
repeated, late or applied from the middle of a packet adds no key but those
`replayed` records. When all is settled both ends of the bounds meet. Besides
EventStream's assumptions it needs that there are finitely many keys and that a
release-all is not the event of a key.

`MediaProofs` proves of `VideoPath`, for any payloads, sizes and windows and any
loss and order of the fragments (a datagram is consumed when it is received, so none is repeated), the types, `WholeFrames`,
`HeldAreAhead` and `PoppedChain`. `PathInv` follows a frame. `Carrying`: a
fragment in flight, and every slot of a frame being put together, is the chunk
of the payload it stands for, and a recovery datagram is the parity of them all.
So what is joined is the payload (`ChunksJoin`), and so is what is recovered
when one chunk is missing, since XOR of the parity with the others leaves that
chunk (`ParityOfMissing`, `RecoveredSound`). `Ordering`: the frames held are
behind the next one, one of each id, fewer than the window but while they are
drained. `Queueing`: the queue is a chain that goes on from the frame popped last,
and the network's next frame goes on from the queue; a generation is what
separates chains. `Feeding` is the decoder's.

Of `AudioPath` (also in `MediaProofs`) all three properties are proved, for any
rates, lengths of frame and queue, buffer and number of wrap-arounds.
`AudioInv` says where the sound is: no frame on the network or in the playback
thread's channel is half the sequence space behind another of its host
(`WindowOK`), nor behind or ahead of the last one decoded (`LastOK`), so the
wrapped difference tells a late frame from a new one (`LaterIsAhead`,
`BehindIsLate`); the buffer ends with the end of that last frame, holds whole groups and
follows on throughout (`BufferOK`), which the trim and the output callback's
eating from the front keep (`BufferEaten`, `TrimmedFits`). `NetworkOK` is what
`ReceivedAsSent` rests on: a datagram about is a packet within what its senders
put into one (`WellFormed`). For each kind of packet a lemma follows the bytes:
each field is written where it is read, and stays there when the next is added
(`FieldAdded`, `FieldIsRead`); of the 36 statistics each is found in the table of
its width (`StatsAreFound`), and of an older host's shorter ones those it wrote. The
assumptions: the longest header fits a standard datagram with room to spare
(`DatagramAssumption`), a frame fits the buffer, which holds whole groups
(`AudioAssumption`), one callback's sound is less than half the sequence space
(`ChunkAssumption`), and other datagrams are what their senders write
(`TrafficAssumption`). `MaxFrame` may be any sequence of numbers: the runs of the host and
their lengths are not bounded, only `InWindow` is, as in the runs.

Of `MacVideo` (also in `MediaProofs`) `DropIsRepaired` and `OutstandingExact` are
proved for any number of frames in flight. `IInv` adds why a repair cannot be lost: once the chain is broken no
keyframe of before is left to be received (`BrokenHasNoKey`), so the gap a viewer was sent
stays until an IDR coded after it; nothing of VideoToolbox outlives its
pipeline (`FallbackIsEmpty`); and a frame goes to a former viewer only while the
present one was sent nothing (`StrayIsGap`).

`NvencSessionProofs` proves `ResourcesExact`, `WorkerStopIsExplained`,
`CleanTeardown` and `GivesUpFruitless` for any ring of slots, capacities, budgets
and number of updates. The slots are seven sets, of the ring and of the six stages, each
apart from those behind it (`Separate`); a stage holds at most one frame but for the two
queues, which repeat none (`Owned`). That no thread of a session outlives it
(`WorkersGone`) lets `Recover` start from a fresh ring. `CleanTeardown` needs that the
completion thread, unless it failed, ends after the submission and with nothing
submitted (`Drained`); `GivesUpFruitless` that the count of rebuilds never exceeds
that of fruitless sessions while no frame was completed (`Budget`).

`NvencStreamProofs` proves `Decodable`, `InOrder` and `DiscardIsRepaired` for any
viewers, capacity of the channel and bounds. `Decodable` rests on the numbers
(`Numbered`): a frame refers to the number before its own, unless a detached
submission took that number, and then nobody is ever sent it; and on what the
sender knows (`SenderInv`): while it waits for no keyframe, its viewer was sent
the frame it sent last. So a frame it sends is the one after. That a dropped
request costs nothing needs `IdrInv`, that an IDR in flight is a keyframe not yet
sent, and `DiscardInv`, that after a discard it is behind the discarded frame:
the discarded frame itself is no keyframe, so the one it waits for is to come.
`stray` is the exception the code leaves: a detached submission can record an
IDR that nobody is sent.

`DesktopAppProofs` proves `TrustIsTheUsers` and `SavedOnce` for any set of
instances: any viewers, addresses and names, any number of crashes and failures.
`TrustInv` adds what an answer rests on while events are in flight: that the
identity of a request, in the thread, in a queued event and on the screen, is
that of the machine it came from, and that a switch that is on was switched for
the identity shown (`RequestsAreHonest`). `SavedInv` adds that the session being
edited is still saved. They rest on `BoundsAssumption`: one viewer on each machine.
`ShownPeerIsServed` is proved too: `ServedInv` says that going through the events
the window has not handled yet leads from what it shows to what the session
serves (`Leads`, `Served`), whatever is queued: exactly, or, since a Config that
could not be sent, to the machine of the viewer served, if there is one, under nobody
else's identity. For the latter
it needs that the thread believes of nobody what its machine did not say
(`ThreadIsHonest`).

Recursive functions and folds are reasoned about through what they stand for: a
CHOOSE of a function that satisfies the equation. The proofs give such a function and
count up to its last argument (`CountingUp`, from a least counterexample, in
`EventStreamProofs` and `MediaProofs`), since the library's induction theorems
cannot be instantiated.

Model-checked only: all liveness (`EverythingSettles`, `GoneViewerLetsGo`,
`TeardownEnds`, `StopEnds`, `StatusSettles`), which is out of TLAPS's reach. Every
safety property the passing runs check is a theorem. Each module's `TypeOK` is there for the reader and, where
there is a proofs module, a theorem; the runs spend their time on the others.

## Not modelled

- Drawing, layout, statistics on screen, notices, fullscreen (which also pauses the
  probing, `app.rs:1223`; a session that starts or a page that is left pauses it in the model): user interface
  (`app/views.rs` for the most part, `widgets.rs`, `theme.rs`, `icons.rs`, `framing.rs`).
- Calls into Direct3D, DXGI, NVENC, VideoToolbox, ScreenCaptureKit, Media
  Foundation, cpal, Opus and OpenH264: external, each modelled by what it may
  answer. Renderers (`video_renderer*.rs`) have no state that steers anything.
- The cursor and the bitrate of the Windows pipeline; pings, statistics and the
  reconnect deadline of the viewer; pointer moves, scrolling and pasted text:
  they add no order of their own to what is modelled.
- The command line (`echobind-cli`): an older audio-only pair of programs; its
  loops wait for no answer.
- Reading a damaged file, which moves it aside; the own identity's file.
