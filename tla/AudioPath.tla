----------------------------- MODULE AudioPath -----------------------------
(* System audio from the host's capture callback to the viewer's output    *)
(* callback (echobind-desktop/src/audio.rs), with the viewer's receive     *)
(* loop between them (spawn_client_network of session.rs).                 *)
(*                                                                         *)
(* Four threads and two callbacks: the host's capture callback and audio   *)
(* thread, the viewer's network thread, playback thread and output         *)
(* callback; the network loses, repeats and reorders. A host may be        *)
(* restarted while the viewer goes on. Samples are <<host, frame,          *)
(* position>>: which host encoded them, in which frame, and where in it.   *)
(* The codec is external: a frame decodes to the samples that went in.     *)
EXTENDS WireProtocol, FiniteSets

CONSTANTS
  CaptureQueue,         \* AUDIO_CAPTURE_QUEUE
  PacketQueue,          \* AUDIO_PACKET_QUEUE
  Channels,             \* channels as encoded
  FrameLen,             \* sample groups of a frame (OPUS_FRAME_MS)
  StartLen,             \* groups before playback starts (PLAYBACK_START_MS)
  MaxSamples,           \* PLAYBACK_BUFFER_MS, in samples
  RatioNum, RatioDen,   \* source rate over output rate
  SequenceModulus,      \* 2^32
  OtherTraffic,         \* datagrams that are not audio
  MaxChunk,             \* bound: groups of one capture callback
  MaxFrame,             \* bound: frames each run of the host sends
  NetworkLimit          \* bound: datagrams on the network

ASSUME AudioAssumption ==
  /\ {CaptureQueue, PacketQueue, FrameLen, RatioNum, RatioDen} \subseteq Nat \ {0}
  /\ Channels \in {1, 2} /\ SequenceModulus \in Nat \ {0, 1}
  /\ FrameLen * Channels <= MaxSamples /\ MaxSamples % Channels = 0
  /\ {StartLen, MaxSamples, MaxChunk, NetworkLimit} \subseteq Nat
  /\ MaxFrame \in Seq(Nat) \ {<<>>}

\* One callback's sound is less than half the sequence space: 248 days.
ASSUME ChunkAssumption == MaxChunk <= (SequenceModulus \div 2) * FrameLen

VARIABLES
  hostRun,      \* which run of the host program this is
  peer,         \* active_peer: "none" or the "viewer"; what is sent to
                \* another is, for this one, a frame lost
  captured,     \* capture_tx: the groups of each buffer
  partial,      \* groups not yet encoded
  sequence,     \* frames sent by this host
  net,          \* datagrams in flight
  configured,   \* audio_configured
  playing,      \* audio_playback: "no", a running one or one that "failed"
  packets,      \* its channel of encoded frames
  expected,     \* expected_sequence, -1 for None
  lastDecoded,  \* ghost: the last frame decoded, <<host, frame>>
  samples,      \* PlaybackBuffer
  started,
  phase         \* in units of 1 / RatioDen

hostVars == <<hostRun, peer, captured, partial, sequence>>
threadVars == <<expected, lastDecoded>>
outputVars == <<samples, started, phase>>
audioVars == <<hostVars, net, configured, playing, packets, threadVars, outputVars>>

AnyNumber == -1

\* A datagram; an older host leaves out the last fields of its statistics.
Datagram(packet) == [packet |-> packet, leftOut |-> 0]
SentBytes(d) ==
  LET bytes == Encode(d.packet) IN SubSeq(bytes, 1, Len(bytes) - d.leftOut)

\* What an older host may leave out of its statistics.
OlderBy == {StatsLen - n : n \in {LegacyStatsLen, StagedStatsLen, CounterStatsLen}}

\* What else is sent is what its senders put into a packet.
ASSUME TrafficAssumption ==
  \A d \in OtherTraffic :
    /\ d \in [packet : {d.packet}, leftOut : {0} \cup OlderBy]
    /\ WellFormed(d.packet) /\ d.packet.kind # "audio"
    /\ d.leftOut # 0 => d.packet.kind = "stats"

AudioPacket(n) ==
  [kind |-> "audio", sequence |-> n % SequenceModulus, timestamp |-> n,
   payload |-> <<hostRun, n>>]

ConfigPacket == [kind |-> "config", payload |-> <<0>>]

AudioInit ==
  /\ hostRun = 0 /\ peer = "none" /\ captured = <<>> /\ partial = 0 /\ sequence = 0
  /\ net = {} /\ configured = FALSE /\ playing = "no" /\ packets = <<>>
  /\ expected = AnyNumber /\ lastDecoded = <<0, AnyNumber>>
  /\ samples = <<>> /\ started = FALSE /\ phase = 0

----------------------------------------------------------------------------
(* The host.                                                               *)

\* The network thread stores whom to send to, with a Config for a new one.
SetPeer ==
  /\ \E p \in {"none", "viewer"} :
       /\ peer' = p /\ p # peer
       /\ net' = IF p = "viewer" THEN net \cup {Datagram(ConfigPacket)} ELSE net
  /\ Cardinality(net') <= NetworkLimit
  /\ UNCHANGED <<hostRun, captured, partial, sequence, configured, playing, packets,
                 threadVars, outputVars>>

\* build_capture_stream_for: the callback never waits; a buffer for which
\* there is no room is recycled.
CaptureCallback ==
  /\ \E groups \in 1..MaxChunk :
       captured' = IF Len(captured) < CaptureQueue
                  THEN Append(captured, groups) ELSE captured
  /\ UNCHANGED <<hostRun, peer, partial, sequence, net, configured, playing,
                 packets, threadVars, outputVars>>

\* run_audio_capture, without a peer: what was captured is thrown away.
CaptureUnheard ==
  /\ captured # <<>> /\ peer = "none"
  /\ captured' = Tail(captured) /\ partial' = 0
  /\ UNCHANGED <<hostRun, peer, sequence, net, configured, playing, packets,
                 threadVars, outputVars>>

\* No datagram is half the sequence space older than another, nor are as many
\* lost in a row: with 32 bits and 10 ms a frame that is 248 days.
InWindow(n) ==
  LET flying == {d.packet.payload : d \in {e \in net : e.packet.kind = "audio"}}
                  \cup {packets[k] : k \in DOMAIN packets}
      half == SequenceModulus \div 2
  IN  /\ \A f \in flying : f[1] = hostRun => n - f[2] <= half
      /\ lastDecoded[1] = hostRun /\ expected # AnyNumber => n - lastDecoded[2] <= half + 1

\* run_audio_capture: every whole frame is encoded and sent.
CaptureSend ==
  /\ captured # <<>> /\ peer # "none"
  /\ LET all == partial + Head(captured)
         frames == all \div FrameLen
         new == {Datagram(AudioPacket(sequence + k)) : k \in 0..(frames - 1)}
     IN  /\ sequence + frames <= MaxFrame[hostRun + 1] /\ InWindow(sequence + frames)
         /\ partial' = all % FrameLen
         /\ sequence' = sequence + frames
         /\ net' = IF peer = "viewer" THEN net \cup new ELSE net
  /\ Cardinality(net') <= NetworkLimit
  /\ captured' = Tail(captured)
  /\ UNCHANGED <<hostRun, peer, configured, playing, packets, threadVars, outputVars>>

\* The host's other threads send to the viewer, and it to them. Which other
\* datagrams are about matters to no audio; they come before any.
SendOther ==
  /\ ~configured /\ net = {} /\ peer = "none" /\ captured = <<>> /\ hostRun = 0
  /\ \E d \in OtherTraffic : net' = {d}
  /\ UNCHANGED <<hostVars, configured, playing, packets, threadVars, outputVars>>

\* The host's program ends and is started again: its audio thread numbers
\* frames from 0. The viewer reconnects to it.
RestartHost ==
  /\ hostRun + 1 < Len(MaxFrame) /\ hostRun' = hostRun + 1
  /\ peer' = "none" /\ captured' = <<>> /\ partial' = 0 /\ sequence' = 0
  /\ UNCHANGED <<net, configured, playing, packets, threadVars, outputVars>>

LoseDatagram ==
  /\ \E d \in net : net' = net \ {d}
  /\ UNCHANGED <<hostVars, configured, playing, packets, threadVars, outputVars>>

----------------------------------------------------------------------------
(* The viewer's network thread.                                            *)

\* spawn_audio_playback: a new channel, buffer and decoder.
FreshPlayback ==
  /\ playing' = "running" /\ packets' = <<>>
  /\ expected' = AnyNumber /\ lastDecoded' = <<0, AnyNumber>>
  /\ samples' = <<>> /\ started' = FALSE /\ phase' = 0

\* The first Config sets audio up, for as long as the viewer's session lasts.
HandleConfig ==
  /\ configured' = TRUE
  /\ IF configured
     THEN UNCHANGED <<playing, packets, threadVars, outputVars>>
     ELSE FreshPlayback

\* AudioPlayback::push: a frame for which there is no room is dropped.
HandleAudio(packet) ==
  /\ packets' = IF playing = "running" /\ Len(packets) < PacketQueue
                THEN Append(packets, packet.payload) ELSE packets
  /\ UNCHANGED <<configured, playing, threadVars, outputVars>>

\* A datagram arrives, and may arrive again.
ViewerReceive ==
  /\ \E d \in net :
       LET packet == Decode(SentBytes(d))
       IN  /\ net' \in {net, net \ {d}}
           /\ CASE packet.kind = "config" -> HandleConfig
                [] packet.kind = "audio" -> HandleAudio(packet)
                [] OTHER -> UNCHANGED <<configured, playing, packets, threadVars,
                                        outputVars>>
  /\ UNCHANGED hostVars

\* set_audio_output_device: the playback is dropped, with its thread, and a
\* new one opened on the other device.
ChangeDevice ==
  /\ configured /\ FreshPlayback
  /\ UNCHANGED <<hostVars, net, configured>>

----------------------------------------------------------------------------
(* The playback thread, run_audio_playback.                                *)

\* The device cannot be opened or is gone: the thread ends.
PlaybackFails ==
  /\ playing = "running" /\ playing' = "failed"
  /\ packets' = <<>> /\ samples' = <<>> /\ started' = FALSE /\ phase' = 0
  /\ expected' = AnyNumber /\ lastDecoded' = <<0, AnyNumber>>
  /\ UNCHANGED <<hostVars, net, configured>>

Wire(frame) == frame[2] % SequenceModulus

\* Mutant: numbers are compared as if they never wrapped around.
BehindUnwrapped(frame) == expected # AnyNumber /\ Wire(frame) < expected

\* Mutant: after a lost frame the ones behind it are left out.
BehindOrLost(frame) == expected # AnyNumber /\ Wire(frame) # expected

\* The distance from the frame expected, around the sequence space.
Behind(frame) ==
  /\ expected # AnyNumber
  /\ (Wire(frame) - expected) % SequenceModulus > (SequenceModulus - 1) \div 2

PlaybackSkip ==
  /\ packets # <<>> /\ Behind(Head(packets))
  /\ packets' = Tail(packets)
  /\ UNCHANGED <<hostVars, net, configured, playing, threadVars, outputVars>>

DecodeFails ==
  /\ packets # <<>> /\ ~Behind(Head(packets))
  /\ packets' = Tail(packets)
  /\ UNCHANGED <<hostVars, net, configured, playing, threadVars, outputVars>>

Decoded(frame) ==
  [i \in 1..(FrameLen * Channels) |-> <<frame[1], frame[2], i>>]

\* The oldest make room, a sample of every channel at a time.
Trimmed(buffer, count) ==
  LET over == Len(buffer) + count - MaxSamples
      groups == IF over > 0 THEN (over + Channels - 1) \div Channels ELSE 0
  IN  SubSeq(buffer, groups * Channels + 1, Len(buffer))

PlaybackDecode ==
  /\ packets # <<>> /\ ~Behind(Head(packets))
  /\ packets' = Tail(packets)
  /\ expected' = (Wire(Head(packets)) + 1) % SequenceModulus
  /\ lastDecoded' = Head(packets)
  /\ LET decoded == Decoded(Head(packets))
     IN  samples' = Trimmed(samples, Len(decoded)) \o decoded
  /\ UNCHANGED <<hostVars, net, configured, playing, started, phase>>

----------------------------------------------------------------------------
(* The output callback, write_output, one output frame at a time: after    *)
(* the first the buffer has started, so a callback of several is several   *)
(* of these steps.                                                         *)

\* Too little is buffered to start, or to go on.
OutputSilence ==
  /\ playing = "running"
  /\ IF started THEN Len(samples) < Channels * 2
     ELSE Len(samples) \div Channels < StartLen
  /\ started' = FALSE /\ phase' = IF started THEN 0 ELSE phase
  /\ UNCHANGED <<hostVars, net, configured, playing, packets, threadVars, samples>>

\* A frame between the first two groups; those passed over are consumed.
OutputPlay ==
  /\ playing = "running"
  /\ started \/ Len(samples) \div Channels >= StartLen
  /\ LET from == IF started THEN phase ELSE 0
         consumed == (from + RatioNum) \div RatioDen
     IN  IF Len(samples) < Channels * 2
         THEN started' = FALSE /\ phase' = 0 /\ UNCHANGED samples
         ELSE /\ started' = TRUE
              /\ phase' = (from + RatioNum) % RatioDen
              /\ samples' = SubSeq(samples, consumed * Channels + 1, Len(samples))
  /\ UNCHANGED <<hostVars, net, configured, playing, packets, threadVars>>

Host == SetPeer \/ CaptureCallback \/ CaptureUnheard \/ CaptureSend \/ RestartHost
Network == SendOther \/ LoseDatagram \/ ViewerReceive
Playback == ChangeDevice \/ PlaybackFails \/ PlaybackSkip \/ DecodeFails \/ PlaybackDecode
WriteOutput == OutputSilence \/ OutputPlay

AudioNext == Host \/ Network \/ Playback \/ WriteOutput

AudioSpec == AudioInit /\ [][AudioNext]_audioVars

----------------------------------------------------------------------------
(* Properties.                                                             *)

\* Types, with the bounds of the program's own queues and buffer.
AudioTypeOK ==
  /\ hostRun \in 0..(Len(MaxFrame) - 1) /\ peer \in {"none", "viewer"}
  /\ Len(captured) <= CaptureQueue /\ partial \in 0..(FrameLen - 1)
  /\ sequence \in 0..MaxFrame[hostRun + 1] /\ configured \in BOOLEAN
  /\ playing \in {"no", "running", "failed"} /\ Len(packets) <= PacketQueue
  /\ expected \in {AnyNumber} \cup 0..(SequenceModulus - 1)
  /\ Len(samples) <= MaxSamples /\ started \in BOOLEAN /\ phase \in 0..(RatioDen - 1)

\* What is played is in the order it was captured, once, in whole frames but
\* for the first: behind every sample comes the next of its frame, or the
\* first of a later frame of the same host, whatever the network repeats or
\* reorders (run_audio_playback, expected_sequence).
PlayedForward ==
  \A k \in 1..(Len(samples) - 1) :
    LET a == samples[k]
        b == samples[k + 1]
    IN  IF a[3] < FrameLen * Channels THEN b = <<a[1], a[2], a[3] + 1>>
        ELSE b[3] = 1 /\ (a[1] = b[1] => a[2] < b[2])

\* interpolated_source_pair takes the channel of a sample from its place: the
\* buffer begins with the first channel and holds whole groups, although the
\* playback thread trims it, the output callback eats from it, and both stop
\* and start it (audio.rs:513, :628).
ChannelsAligned ==
  /\ Len(samples) % Channels = 0
  /\ samples # <<>> => (samples[1][3] - 1) % Channels = 0

\* What reaches the output callback is the sound that was captured: forward
\* in time, each sample once, and each on its own channel.
PlayedInOrder == PlayedForward /\ ChannelsAligned

\* Of one host's frames playback leaves out only what comes too late, also
\* when the sequence number wraps around (audio.rs:497).
SkippedIsLate ==
  packets # <<>> /\ Behind(Head(packets)) =>
    LET frame == Head(packets)
    IN  frame[1] = lastDecoded[1] => frame[2] <= lastDecoded[2]

\* "the viewer reconnects on its own" (README:94). But its playback goes on
\* expecting the former host's numbers.
NewHostIsHeard ==
  packets # <<>> /\ Behind(Head(packets)) => Head(packets)[1] <= lastDecoded[1]

\* Every packet is read back as it was sent, and an older host's shorter
\* statistics with zeros for what it does not know (protocol.rs).
Meant(d) ==
  IF d.leftOut = 0 THEN d.packet
  ELSE [d.packet EXCEPT !.stats =
          [f \in Stat |-> IF StatsOffsets[f].offset < StatsLen - d.leftOut
                          THEN @[f] ELSE 0]]

ReceivedAsSent == \A d \in net : Decode(SentBytes(d)) = Meant(d)

============================================================================
