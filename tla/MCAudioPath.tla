---------------------------- MODULE MCAudioPath ----------------------------
(* A small instance of AudioPath, and a packet of every kind and shape.    *)
EXTENDS AudioPath

Texty == <<5, 6>>

MCMaxFrame == <<4, 1>>

MCStats == [f \in Stat |-> StatsOffsets[f].offset + 1]

MCHellos ==
  {[kind |-> "hello", max_datagram_size |-> size, audio_only |-> audioOnly,
    viewer_id |-> id] :
     size \in {StandardDatagram, JumboDatagram}, audioOnly \in BOOLEAN, id \in {NoId, 7}}

MCVideo ==
  {[kind |-> "video", frame_id |-> 8, timestamp |-> 9, index |-> i,
    total |-> 2, is_keyframe |-> key, is_recovery |-> i = 2,
    payload |-> [k \in 1..size |-> k]] :
     i \in 0..2, key \in BOOLEAN, size \in {5, MaxVideoPayload}}

MCPackets ==
  MCHellos \cup MCVideo
    \cup {[kind |-> k, id |-> 9] : k \in Numbered}
    \cup {[kind |-> k, payload |-> t] : k \in Texts, t \in {<<>>, Texty}}
    \cup {[kind |-> k] : k \in Bare}
    \cup {[kind |-> "clipboard", transfer_id |-> 4, index |-> i, total |-> 2,
           payload |-> t] : i \in 0..1, t \in {<<>>, Texty}}
    \cup {[kind |-> "cursor", x |-> -3, y |-> 4, visible |-> v] : v \in BOOLEAN}
    \cup {[kind |-> "probe_reply", video |-> v, busy |-> b] :
            v \in BOOLEAN, b \in BOOLEAN}
    \cup {[kind |-> "events", base |-> 1, first |-> f,
           payload |-> [k \in 1..size |-> k]] :
            f \in 1..2, size \in {1, MaxEventsPayload}}
    \cup {[kind |-> "stats", stats |-> MCStats]}

MCOtherTraffic ==
  {Datagram(p) : p \in MCPackets}
    \cup {[packet |-> [kind |-> "stats", stats |-> MCStats],
           leftOut |-> StatsLen - length] :
            length \in {LegacyStatsLen, StagedStatsLen, CounterStatsLen}}

============================================================================
