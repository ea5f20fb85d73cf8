--------------------------- MODULE WireProtocol ---------------------------
(* The datagrams of protocol v2 (echobind-core/src/protocol.rs).           *)
(*                                                                         *)
(* A byte is written <<value, width, position>>: the big-endian bytes of   *)
(* an integer of some width. Reading a field yields its value only from    *)
(* exactly the bytes that wrote it, so every offset and width of the parser*)
(* has to agree with the writer's. A payload is a sequence of one-byte     *)
(* values. The sizes of the headers are the program's; the datagram sizes  *)
(* are constants, small for TLC.                                           *)
EXTENDS Integers, Sequences, SequencesExt, Functions

CONSTANTS StandardDatagram, JumboDatagram, MaxVideoFrame

Garbled == -1       \* what reading other bytes yields
NotFinite == -2     \* a float that is no number
NoId == -3          \* a Hello without an identity

ASSUME DatagramAssumption ==
  /\ StandardDatagram \in Nat /\ JumboDatagram \in Nat /\ MaxVideoFrame \in Nat
  /\ 30 < StandardDatagram /\ StandardDatagram < JumboDatagram

Bytes(value, width) == [k \in 1..width |-> <<value, width, k>>]

Value(bytes) ==
  IF bytes # <<>> /\ bytes = Bytes(bytes[1][1], Len(bytes))
  THEN bytes[1][1] ELSE Garbled

\* Octets(s): a payload of one-byte values.
Octets(values) == [k \in DOMAIN values |-> Bytes(values[k], 1)[1]]

Read(bytes, offset, width) ==
  IF offset + width <= Len(bytes)
  THEN Value(SubSeq(bytes, offset + 1, offset + width)) ELSE Garbled

After(bytes, offset) == SubSeq(bytes, offset + 1, Len(bytes))

PayloadOf(bytes) == [k \in DOMAIN bytes |-> Value(<<bytes[k]>>)]

Invalid == [kind |-> "invalid"]

----------------------------------------------------------------------------
(* Sizes.                                                                  *)

MagicLen == 4
HeaderLen == MagicLen + 1
AudioHeaderLen == 12
VideoHeaderLen == 21
ClipboardHeaderLen == 12
EventsHeaderLen == 16
RecoveryHeaderLen == 4
HelloCapabilityLen == 3
ViewerIdLen == 16
MaxEventsPayload == StandardDatagram - HeaderLen - EventsHeaderLen
MaxAudioPayload == StandardDatagram - HeaderLen - AudioHeaderLen
MaxVideoPayload == JumboDatagram - HeaderLen - VideoHeaderLen
MaxVideoFragments ==
  LET chunk == StandardDatagram - HeaderLen - VideoHeaderLen - RecoveryHeaderLen
  IN  (MaxVideoFrame + chunk - 1) \div chunk

----------------------------------------------------------------------------
(* The host's statistics: fields as they are written, with the length an   *)
(* older host's snapshot ends at.                                          *)

Stage(names, width) == [names |-> names, width |-> width]

StatsLayout == <<
  Stage(<<"fps", "source_fps", "megabits_per_second", "capture_ms",
          "gpu_wait_ms", "gpu_lock_ms", "encode_ms", "send_ms",
          "encode_queue_ms">>, 4),
  Stage(<<"dxgi_timeouts", "dxgi_backlog", "dxgi_backlog_max", "pacing_skips",
          "slot_busy_skips", "cursor_only_frames", "stale_frames">>, 8),
  Stage(<<"copy_wait_ms", "convert_wait_ms", "map_ms", "submit_ms",
          "completion_wait_ms", "bitstream_ms">>, 4),
  Stage(<<"preprocess_busy_skips", "no_free_slot_skips", "nvenc_submissions",
          "nvenc_completions">>, 8),
  Stage(<<"submit_api_ms", "submit_busy_wait_ms", "bitstream_lock_ms",
          "bitstream_copy_ms", "bitstream_unlock_ms", "unmap_ms">>, 4),
  Stage(<<"submit_busy_retries", "gpu_priority_class", "nvenc_buffer_count",
          "video_send_failures">>, 8) >>

Stat == UNION {Range(StatsLayout[k].names) : k \in DOMAIN StatsLayout}

LegacyStatsLen == 9 * 4 + 7 * 8
StagedStatsLen == 15 * 4 + 9 * 8
CounterStatsLen == 15 * 4 + 11 * 8
StatsLen == 21 * 4 + 15 * 8

\* parse_server_stats: where it looks for a field, and from which length on.
At(names, first, width, from) ==
  [name \in Range(names) |->
     [offset |-> first + width * (CHOOSE k \in DOMAIN names : names[k] = name)
                       - width,
      width |-> width, from |-> from]]

Lookups ==
  LET names(k) == StatsLayout[k].names
  IN  << At(names(1), 0, 4, LegacyStatsLen), At(names(2), 36, 8, LegacyStatsLen),
         At(names(3), 92, 4, StagedStatsLen),
         At(SubSeq(names(4), 1, 2), 116, 8, StagedStatsLen),
         At(SubSeq(names(4), 3, 4), 132, 8, CounterStatsLen),
         At(names(5), 148, 4, StatsLen), At(names(6), 172, 8, StatsLen) >>

StatsOffsets ==
  [f \in Stat |-> (CHOOSE table \in Range(Lookups) : f \in DOMAIN table)[f]]

EncodeStats(stats) ==
  FlattenSeq([k \in DOMAIN StatsLayout |->
    FlattenSeq([i \in DOMAIN StatsLayout[k].names |->
      Bytes(stats[StatsLayout[k].names[i]], StatsLayout[k].width)])])

\* Fields an older host does not send are zero.
DecodeStats(bytes) ==
  LET stats == [f \in Stat |->
                  IF Len(bytes) >= StatsOffsets[f].from
                  THEN Read(bytes, StatsOffsets[f].offset, StatsOffsets[f].width)
                  ELSE 0]
  IN  IF \/ Len(bytes) \notin {LegacyStatsLen, StagedStatsLen, CounterStatsLen,
                               StatsLen}
         \/ NotFinite \in {stats[f] : f \in Stat}
      THEN Invalid ELSE [kind |-> "stats", stats |-> stats]

----------------------------------------------------------------------------
(* Packets.                                                                *)

Flag(condition, bit) == IF condition THEN bit ELSE 0
HasBit(flags, bit) == (flags \div bit) % 2 = 1

\* Mutant: only a Hello without an identity carries the audio-only request.
EncodeHelloForgetting(p) ==
  IF p.viewer_id # NoId
  THEN Bytes(p.max_datagram_size, 2) \o Bytes(0, 1)
         \o Bytes(p.viewer_id, ViewerIdLen)
  ELSE IF p.audio_only THEN Bytes(p.max_datagram_size, 2) \o Bytes(1, 1)
  ELSE IF p.max_datagram_size <= StandardDatagram THEN <<>>
  ELSE Bytes(p.max_datagram_size, 2)

\* As short as older hosts accept for what it has to say.
EncodeHello(p) ==
  IF p.viewer_id # NoId
  THEN Bytes(p.max_datagram_size, 2) \o Bytes(Flag(p.audio_only, 1), 1)
         \o Bytes(p.viewer_id, ViewerIdLen)
  ELSE IF p.audio_only THEN Bytes(p.max_datagram_size, 2) \o Bytes(1, 1)
  ELSE IF p.max_datagram_size <= StandardDatagram THEN <<>>
  ELSE Bytes(p.max_datagram_size, 2)

Hello(size, audioOnly, id) ==
  [kind |-> "hello", max_datagram_size |-> size, audio_only |-> audioOnly,
   viewer_id |-> id]

DecodeHello(b) ==
  CASE b = <<>> -> Hello(StandardDatagram, FALSE, NoId)
    [] Len(b) \in {2, HelloCapabilityLen, HelloCapabilityLen + ViewerIdLen} ->
         Hello(Read(b, 0, 2), Len(b) > 2 /\ HasBit(Read(b, 2, 1), 1),
               IF Len(b) = HelloCapabilityLen + ViewerIdLen
               THEN Read(b, HelloCapabilityLen, ViewerIdLen) ELSE NoId)
    [] OTHER -> Invalid

DecodeEvents(b) ==
  LET base == Read(b, 0, 8)
      first == Read(b, 8, 8)
  IN  IF \/ Len(b) <= EventsHeaderLen
         \/ Len(b) - EventsHeaderLen > MaxEventsPayload
         \/ base = 0 \/ first < base
      THEN Invalid
      ELSE [kind |-> "events", base |-> base, first |-> first,
            payload |-> PayloadOf(After(b, EventsHeaderLen))]

DecodeAudio(b) ==
  IF Len(b) <= AudioHeaderLen \/ Len(b) - AudioHeaderLen > MaxAudioPayload
  THEN Invalid
  ELSE [kind |-> "audio", sequence |-> Read(b, 0, 4),
        timestamp |-> Read(b, 4, 8), payload |-> PayloadOf(After(b, AudioHeaderLen))]

DecodeVideo(b) ==
  LET index == Read(b, 16, 2)
      total == Read(b, 18, 2)
      flags == Read(b, 20, 1)
      recovery == HasBit(flags, 2)
      size == Len(b) - VideoHeaderLen
  IN  IF \/ size <= 0
         \/ total = 0 \/ total > MaxVideoFragments
         \/ IF recovery THEN index # total ELSE index >= total
         \/ flags \notin 0..3
         \/ size > MaxVideoPayload
         \/ recovery /\ size <= RecoveryHeaderLen
      THEN Invalid
      ELSE [kind |-> "video", frame_id |-> Read(b, 0, 8),
            timestamp |-> Read(b, 8, 8), index |-> index, total |-> total,
            is_keyframe |-> HasBit(flags, 1), is_recovery |-> recovery,
            payload |-> PayloadOf(After(b, VideoHeaderLen))]

DecodeClipboard(b) ==
  LET index == Read(b, 8, 2)
      total == Read(b, 10, 2)
  IN  IF Len(b) < ClipboardHeaderLen \/ total = 0 \/ index >= total
      THEN Invalid
      ELSE [kind |-> "clipboard", transfer_id |-> Read(b, 0, 8), index |-> index,
            total |-> total, payload |-> PayloadOf(After(b, ClipboardHeaderLen))]

DecodeCursor(b) ==
  IF Len(b) # 9 \/ Read(b, 8, 1) > 1 THEN Invalid
  ELSE [kind |-> "cursor", x |-> Read(b, 0, 4), y |-> Read(b, 4, 4),
        visible |-> Read(b, 8, 1) = 1]

\* The packets that are one integer, a payload as it is, or nothing at all.
Numbered == {"ping", "pong", "events_ack"}
Texts == {"config", "rejected"}
Bare == {"keyframe_request", "goodbye", "probe"}

Kinds == <<"hello", "config", "ping", "pong", "audio", "clipboard", "video",
           "keyframe_request", "rejected", "cursor", "stats", "goodbye",
           "probe", "probe_reply", "events", "events_ack">>

Body(p) ==
  CASE p.kind = "hello" -> EncodeHello(p)
    [] p.kind \in Texts -> Octets(p.payload)
    [] p.kind \in Numbered -> Bytes(p.id, 8)
    [] p.kind \in Bare -> <<>>
    [] p.kind = "audio" ->
         Bytes(p.sequence, 4) \o Bytes(p.timestamp, 8) \o Octets(p.payload)
    [] p.kind = "clipboard" ->
         Bytes(p.transfer_id, 8) \o Bytes(p.index, 2) \o Bytes(p.total, 2)
           \o Octets(p.payload)
    [] p.kind = "video" ->
         Bytes(p.frame_id, 8) \o Bytes(p.timestamp, 8) \o Bytes(p.index, 2)
           \o Bytes(p.total, 2)
           \o Bytes(Flag(p.is_keyframe, 1) + Flag(p.is_recovery, 2), 1)
           \o Octets(p.payload)
    [] p.kind = "cursor" ->
         Bytes(p.x, 4) \o Bytes(p.y, 4) \o Bytes(Flag(p.visible, 1), 1)
    [] p.kind = "stats" -> EncodeStats(p.stats)
    [] p.kind = "probe_reply" -> Bytes(Flag(p.video, 1) + Flag(p.busy, 2), 1)
    [] p.kind = "events" ->
         Bytes(p.base, 8) \o Bytes(p.first, 8) \o Octets(p.payload)

\* What the senders put into a packet: a size at least the standard one, at
\* least one byte of what must not be empty, no more than fits a datagram, and
\* an index below the total, or the total itself for the XOR of a frame.
WellFormed(p) ==
  \/ /\ p \in [kind : {"hello"}, max_datagram_size : Nat, audio_only : BOOLEAN,
               viewer_id : Int]
     /\ p.max_datagram_size >= StandardDatagram
  \/ p \in [kind : Texts, payload : Seq(Int)]
  \/ p \in [kind : Numbered, id : Int]
  \/ p \in [kind : Bare]
  \/ /\ p \in [kind : {"audio"}, sequence : Int, timestamp : Int, payload : Seq(Int)]
     /\ Len(p.payload) \in 1..MaxAudioPayload
  \/ /\ p \in [kind : {"clipboard"}, transfer_id : Int, index : Nat, total : Nat,
               payload : Seq(Int)]
     /\ p.index < p.total
  \/ /\ p \in [kind : {"video"}, frame_id : Int, timestamp : Int, index : Nat,
               total : Nat, is_keyframe : BOOLEAN, is_recovery : BOOLEAN,
               payload : Seq(Int)]
     /\ p.total \in 1..MaxVideoFragments
     /\ IF p.is_recovery THEN p.index = p.total ELSE p.index < p.total
     /\ Len(p.payload) \in
          (IF p.is_recovery THEN RecoveryHeaderLen + 1 ELSE 1)..MaxVideoPayload
  \/ p \in [kind : {"cursor"}, x : Int, y : Int, visible : BOOLEAN]
  \/ /\ p \in [kind : {"stats"}, stats : [Stat -> Int]]
     /\ \A f \in Stat : p.stats[f] # NotFinite
  \/ p \in [kind : {"probe_reply"}, video : BOOLEAN, busy : BOOLEAN]
  \/ /\ p \in [kind : {"events"}, base : Nat \ {0}, first : Nat, payload : Seq(Int)]
     /\ p.base <= p.first
     /\ Len(p.payload) \in 1..MaxEventsPayload

Magic == Bytes(2, MagicLen)

Encode(p) ==
  Magic \o Bytes(CHOOSE k \in DOMAIN Kinds : Kinds[k] = p.kind, 1) \o Body(p)

Decode(datagram) ==
  LET b == After(datagram, HeaderLen)
      tag == Read(datagram, MagicLen, 1)
      kind == IF tag \in DOMAIN Kinds THEN Kinds[tag] ELSE "unknown"
  IN  CASE Len(datagram) < HeaderLen -> Invalid
        [] SubSeq(datagram, 1, MagicLen) # Magic -> Invalid
        [] kind = "hello" -> DecodeHello(b)
        [] kind \in Texts -> [kind |-> kind, payload |-> PayloadOf(b)]
        [] kind \in Numbered /\ Len(b) = 8 -> [kind |-> kind, id |-> Read(b, 0, 8)]
        [] kind \in Bare /\ b = <<>> -> [kind |-> kind]
        [] kind = "audio" -> DecodeAudio(b)
        [] kind = "clipboard" -> DecodeClipboard(b)
        [] kind = "video" -> DecodeVideo(b)
        [] kind = "cursor" -> DecodeCursor(b)
        [] kind = "stats" -> DecodeStats(b)
        [] kind = "probe_reply" /\ Len(b) = 1 ->
             LET flags == Read(b, 0, 1)
             IN  [kind |-> kind, video |-> HasBit(flags, 1), busy |-> HasBit(flags, 2)]
        [] kind = "events" -> DecodeEvents(b)
        [] OTHER -> Invalid
============================================================================
