-------------------------- MODULE VideoReassembly --------------------------
(***************************************************************************)
(* Fragments of encoded frames and their reassembly (core/video.rs): one   *)
(* XOR datagram repairs the loss of any one fragment of a frame; the       *)
(* reassembler keeps a bounded number of incomplete frames and remembers   *)
(* which ones it completed. Bytes are bits, which XOR cannot tell apart    *)
(* from bytes; the timestamp of a frame goes with its id.                  *)
(***************************************************************************)
EXTENDS Integers, SequencesExt

CONSTANTS
  ChunkSize,         \* fragment_payload, as negotiated
  PendingLimit,      \* max_pending_frames
  CompletedMemory    \* how many completed ids are remembered

ASSUME ReassemblyAssumption ==
  ChunkSize \in Nat \ {0} /\ PendingLimit \in Nat \ {0} /\ CompletedMemory \in Nat

----------------------------------------------------------------------------
(* fragment_video_frame_with_datagram_size *)

ShorterOf(a, b) == IF a < b THEN a ELSE b
Total(payload) == (Len(payload) + ChunkSize - 1) \div ChunkSize
Chunk(payload, i) ==
  SubSeq(payload, i * ChunkSize + 1, ShorterOf((i + 1) * ChunkSize, Len(payload)))

(* Byte j of the XOR of some chunks: a short one counts as padded by zeros. *)
Parity(chunks, j) == Cardinality({i \in DOMAIN chunks : j <= Len(chunks[i]) /\ chunks[i][j] = 1}) % 2

Fragment(id, key, payload, i) ==
  [id |-> id, key |-> key, total |-> Total(payload), index |-> i, recovery |-> FALSE, size |-> 0,
   payload |-> Chunk(payload, i)]
Recovery(id, key, payload) ==
  LET chunks == [i \in 0..Total(payload) - 1 |-> Chunk(payload, i)]
  IN [id |-> id, key |-> key, total |-> Total(payload), index |-> Total(payload), recovery |-> TRUE,
      size |-> Len(payload), payload |-> [j \in 1..ChunkSize |-> Parity(chunks, j)]]

Fragments(id, key, payload) ==
  {Fragment(id, key, payload, i) : i \in 0..Total(payload) - 1}
    \cup (IF Total(payload) > 1 THEN {Recovery(id, key, payload)} ELSE {})

----------------------------------------------------------------------------
(* PendingVideoFrame: the fragments it got, one for each index *)

NewPending(f) == [id |-> f.id, key |-> f.key, total |-> f.total, got |-> {}]
Matches(pending, f) == pending.key = f.key /\ pending.total = f.total
WithFragment(pending, f) ==
  IF \E g \in pending.got : g.index = f.index THEN pending
  ELSE [pending EXCEPT !.got = @ \cup {f}]

Data(pending) == {g \in pending.got : ~g.recovery}
Received(pending, i) == \E g \in Data(pending) : g.index = i
ChunkOf(pending, i) == (CHOOSE g \in Data(pending) : g.index = i).payload
IsComplete(pending) ==
  \/ Cardinality(Data(pending)) = pending.total
  \/ Data(pending) # pending.got /\ Cardinality(Data(pending)) + 1 = pending.total

\* Mutant: the last fragment is recovered with its padding.
RecoveredPadded(pending) ==
  LET recovery == CHOOSE g \in pending.got : g.recovery
      missing == CHOOSE i \in 0..pending.total - 1 : ~Received(pending, i)
      others == [i \in {g.index : g \in Data(pending)} |-> ChunkOf(pending, i)]
      bytes == [j \in 1..Len(recovery.payload) |-> (recovery.payload[j] + Parity(others, j)) % 2]
  IN [pending EXCEPT !.got = Data(pending) \cup
        {[id |-> pending.id, key |-> pending.key, total |-> pending.total, index |-> missing,
          recovery |-> FALSE, size |-> 0, payload |-> bytes]}]

(* recover_missing_fragment *)
Recovered(pending) ==
  LET recovery == CHOOSE g \in pending.got : g.recovery
      missing == CHOOSE i \in 0..pending.total - 1 : ~Received(pending, i)
      chunk == Len(recovery.payload)
      others == [i \in {g.index : g \in Data(pending)} |-> ChunkOf(pending, i)]
      length == IF missing + 1 = pending.total THEN recovery.size - chunk * (pending.total - 1)
                ELSE chunk
      bytes == [j \in 1..length |-> (recovery.payload[j] + Parity(others, j)) % 2]
  IN [pending EXCEPT !.got = Data(pending) \cup
        {[id |-> pending.id, key |-> pending.key, total |-> pending.total, index |-> missing,
          recovery |-> FALSE, size |-> 0, payload |-> bytes]}]

(* finish: the chunks one after the other *)
Finished(pending) ==
  LET whole == IF Cardinality(Data(pending)) < pending.total THEN Recovered(pending) ELSE pending
      joined[i \in 0..whole.total] ==
        IF i = 0 THEN <<>> ELSE joined[i - 1] \o ChunkOf(whole, i - 1)
  IN [id |-> pending.id, key |-> pending.key, payload |-> joined[whole.total]]

----------------------------------------------------------------------------
(* VideoReassembler. Pending frames are kept in the order in which they    *)
(* were last updated, the oldest first; completed ids likewise.            *)

Has(frames, id) == \E i \in DOMAIN frames : frames[i].id = id
Place(frames, id) == CHOOSE i \in DOMAIN frames : frames[i].id = id
Of(frames, id) == frames[Place(frames, id)]
Without(frames, id) == IF Has(frames, id) THEN RemoveAt(frames, Place(frames, id)) ELSE frames
Known(done, id) == \E i \in DOMAIN done : done[i] = id

(* drop_oldest makes room for a frame that is new. *)
Room(frames, id) ==
  IF ~Has(frames, id) /\ Len(frames) >= PendingLimit THEN Tail(frames) ELSE frames

(* The frame as f leaves it. *)
Updated(frames, f) ==
  WithFragment(IF Has(frames, f.id) THEN Of(frames, f.id) ELSE NewPending(f), f)

Completes(frames, done, f) == ~Known(done, f.id) /\ IsComplete(Updated(frames, f))

FramesAfter(frames, done, f) ==
  IF Known(done, f.id) THEN frames
  ELSE LET others == Without(Room(frames, f.id), f.id)
       IN IF IsComplete(Updated(frames, f)) THEN others ELSE Append(others, Updated(frames, f))

DoneAfter(done, id) ==
  LET longer == Append(done, id)
  IN IF Len(longer) > CompletedMemory THEN Tail(longer) ELSE longer
============================================================================
