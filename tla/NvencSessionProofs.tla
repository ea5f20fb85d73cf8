------------------------- MODULE NvencSessionProofs -------------------------
(***************************************************************************)
(* Proofs about NvencSession, for any ring of slots, capacities, budgets   *)
(* and number of desktop updates: what the stages share is neither lost    *)
(* nor used twice, a failure is known and an encoder that is destroyed is  *)
(* clean, and the pipeline gives up only on sessions without progress.     *)
(***************************************************************************)
EXTENDS NvencSession, TLAPS

USE SessionAssumption

----------------------------------------------------------------------------
(* The inductive invariant.                                                *)

\* The slots of the ring and of the stages, pairwise apart.
Separate(f, p, c, v, s, u, k) ==
  /\ Apart(f, p \cup c \cup v \cup s \cup u \cup k)
  /\ Apart(p, c \cup v \cup s \cup u \cup k)
  /\ Apart(c, v \cup s \cup u \cup k)
  /\ Apart(v, s \cup u \cup k)
  /\ Apart(s, u \cup k)
  /\ Apart(u, k)

SlotsSeparate ==
  Separate(free, Slots(prepared), Slots(conversion.frame), Slots(converted),
           Slots(submission.frame), Slots(submitted), Slots(completion.frame))

\* While a session is on, every resource has one owner.
Owned ==
  InSession => SlotsSeparate /\ OneEach(prepared) /\ OneEach(submitted)

\* Workers run in a session only.
WorkersGone ==
  ~InSession => conversion.pc = "done" /\ submission.pc = "done" /\ completion.pc = "done"

\* The completion thread ends last, unless it failed.
Drained ==
  completion.pc = "done" /\ ~poisoned => submission.pc = "done" /\ submitted = <<>>

\* Rebuilds that were counted since a frame was completed found no frame.
Budget ==
  /\ phase # "ended" => (~progressed => stalls <= fruitless) /\ losses <= MaxLoss
  /\ phase = "waiting" => ~progressed

\* The types, in the groups a step changes together.
Flags ==
  /\ running \in BOOLEAN /\ force \in BOOLEAN /\ progressed \in BOOLEAN /\ on \in BOOLEAN
  /\ busy \in BOOLEAN /\ poisoned \in BOOLEAN /\ permit \in BOOLEAN /\ senderDone \in BOOLEAN

Values ==
  /\ watched \in {"session", "other", "nobody"}
  /\ phase \in {"waiting", "looking", "acquiring", "retiring", "retired", "ended"}
  /\ cause \in {"none", "stopped", "rebuild", "device", "fatal", "stall"}
  /\ failure \in {"none", "stall", "device"}
  /\ stalls \in Nat /\ losses \in Nat /\ fruitless \in Nat
  /\ latest \in 0..MaxGeneration /\ completed \in Nat
  /\ preprocess \in Int /\ pending \in Int /\ encoded \in 0..EncodedCapacity

Queues ==
  /\ free \subseteq Slot
  /\ prepared \in Seq(Frame) /\ converted \in {<<>>} \cup OneFrame /\ submitted \in Seq(Frame)

ConversionStates ==
  [pc : {"idle", "permit", "done"}, frame : {<<>>}] \cup [pc : {"driver"}, frame : OneFrame]
SubmissionStates ==
  [pc : {"idle", "done"}, frame : {<<>>}]
    \cup [pc : {"driver"}, frame : OneFrame, asked : BOOLEAN]
CompletionStates ==
  [pc : {"idle", "handoff", "done"}, frame : {<<>>}] \cup [pc : {"driver"}, frame : OneFrame]

Threads ==
  /\ conversion \in ConversionStates /\ submission \in SubmissionStates
  /\ completion \in CompletionStates

Types == Flags /\ Values /\ Queues /\ Threads

Control ==
  /\ WorkersGone /\ Drained /\ WorkerStopIsExplained /\ CleanTeardown
  /\ Budget /\ GivesUpFruitless

IInv == Types /\ Owned /\ CountersExact /\ PermitConserved /\ Control

----------------------------------------------------------------------------
(* Sequences of frames, and their slots.                                   *)

LEMMA FrameSlot == \A f \in Frame : f.slot \in Slot /\ f.gen \in 1..MaxGeneration
BY DEF Frame

LEMMA NoSlots ==
  Slots(<<>>) = {} /\ OneEach(<<>>) /\ Len(<<>>) = 0 /\ <<>> \in Seq(Frame)
BY DEF Slots, OneEach

LEMMA SlotsOfOne ==
  ASSUME NEW f \in Frame
  PROVE  /\ Slots(<<f>>) = {f.slot} /\ f.slot \in Slot /\ f.gen \in 1..MaxGeneration
         /\ <<f>> \in Seq(Frame) /\ Len(<<f>>) = 1 /\ <<f>>[1] = f /\ <<f>> # <<>>
<1>1. DOMAIN <<f>> = {1} /\ <<f>>[1] = f /\ <<f>> \in Seq(Frame) /\ Len(<<f>>) = 1 /\ <<f>> # <<>>
  OBVIOUS
<1> QED
  BY <1>1, FrameSlot DEF Slots

LEMMA SlotsTyped ==
  ASSUME NEW q \in Seq(Frame)
  PROVE  Slots(q) \subseteq Slot
<1>1. \A i \in DOMAIN q : q[i] \in Frame
  OBVIOUS
<1> QED
  BY <1>1, FrameSlot DEF Slots

LEMMA SlotsOfAppend ==
  ASSUME NEW q \in Seq(Frame), NEW f \in Frame
  PROVE  /\ Append(q, f) \in Seq(Frame) /\ Len(Append(q, f)) = Len(q) + 1
         /\ q \o <<f>> = Append(q, f)
         /\ Slots(Append(q, f)) = Slots(q) \cup {f.slot}
         /\ OneEach(q) /\ f.slot \notin Slots(q) => OneEach(Append(q, f))
<1>1. /\ DOMAIN q = 1..Len(q) /\ Len(q) \in Nat /\ Append(q, f) \in Seq(Frame)
      /\ Len(Append(q, f)) = Len(q) + 1
      /\ DOMAIN Append(q, f) = 1..(Len(q) + 1) /\ Append(q, f)[Len(q) + 1] = f
      /\ \A i \in DOMAIN q : Append(q, f)[i] = q[i]
  OBVIOUS
<1>2. q \o <<f>> = Append(q, f)
  OBVIOUS
<1>3. \A i \in DOMAIN Append(q, f) : i = Len(q) + 1 \/ i \in DOMAIN q
  BY <1>1
<1>4. Len(q) + 1 \in DOMAIN Append(q, f) /\ \A i \in DOMAIN q : i \in DOMAIN Append(q, f)
  BY <1>1
<1>5. Slots(Append(q, f)) = Slots(q) \cup {f.slot}
  BY <1>1, <1>3, <1>4 DEF Slots
<1>6. ASSUME OneEach(q), f.slot \notin Slots(q) PROVE OneEach(Append(q, f))
  <2>1. \A i \in DOMAIN q : q[i].slot # f.slot
    BY <1>6 DEF Slots
  <2> QED
    BY <1>1, <1>3, <1>6, <2>1 DEF OneEach
<1> QED
  BY <1>1, <1>2, <1>5, <1>6

LEMMA SlotsOfTail ==
  ASSUME NEW q \in Seq(Frame), q # <<>>
  PROVE  /\ q[1] \in Frame /\ Tail(q) \in Seq(Frame) /\ Len(q) \in Nat /\ Len(Tail(q)) = Len(q) - 1
         /\ Slots(q) = Slots(Tail(q)) \cup {q[1].slot}
         /\ OneEach(q) => OneEach(Tail(q)) /\ q[1].slot \notin Slots(Tail(q))
<1>1. /\ DOMAIN q = 1..Len(q) /\ Len(q) \in Nat \ {0} /\ Tail(q) \in Seq(Frame)
      /\ Len(Tail(q)) = Len(q) - 1 /\ DOMAIN Tail(q) = 1..(Len(q) - 1)
      /\ \A i \in DOMAIN Tail(q) : Tail(q)[i] = q[i + 1]
      /\ q[1] \in Frame
  OBVIOUS
<1>2. \A i \in DOMAIN Tail(q) : i + 1 \in DOMAIN q /\ i \in Int
  BY <1>1
<1>3. \A i \in DOMAIN q : i = 1 \/ (i - 1 \in DOMAIN Tail(q) /\ Tail(q)[i - 1] = q[i])
  BY <1>1
<1>4. 1 \in DOMAIN q
  BY <1>1
<1>5. Slots(q) = Slots(Tail(q)) \cup {q[1].slot}
  <2>1. ASSUME NEW x \in Slots(q) PROVE x \in Slots(Tail(q)) \cup {q[1].slot}
    BY <1>3, <2>1 DEF Slots
  <2>2. ASSUME NEW x \in Slots(Tail(q)) PROVE x \in Slots(q)
    <3>1. PICK i \in DOMAIN Tail(q) : x = Tail(q)[i].slot
      BY <2>2 DEF Slots
    <3> QED
      BY <3>1, <1>1, <1>2 DEF Slots
  <2> QED
    BY <2>1, <2>2, <1>4 DEF Slots
<1>6. ASSUME OneEach(q) PROVE OneEach(Tail(q)) /\ q[1].slot \notin Slots(Tail(q))
  <2>1. ASSUME NEW i \in DOMAIN Tail(q), NEW j \in DOMAIN Tail(q), Tail(q)[i].slot = Tail(q)[j].slot
        PROVE  i = j
    <3>1. i + 1 = j + 1
      BY <1>1, <1>2, <1>6, <2>1 DEF OneEach
    <3> QED
      BY <3>1, <1>2
  <2>2. ASSUME NEW i \in DOMAIN Tail(q) PROVE Tail(q)[i].slot # q[1].slot
    <3>1. i + 1 # 1 /\ i + 1 \in DOMAIN q /\ Tail(q)[i] = q[i + 1]
      BY <1>1, <1>2
    <3> QED
      BY <3>1, <1>4, <1>6 DEF OneEach
  <2> QED
    BY <2>1, <2>2 DEF OneEach, Slots
<1> QED
  BY <1>1, <1>5, <1>6

LEMMA SlotsOfFront ==
  ASSUME NEW q \in Seq(Frame), q # <<>>
  PROVE  /\ Last(q) \in Frame /\ Len(q) \in Nat
         /\ Slots(q) = Slots(Front(q)) \cup {Last(q).slot}
         /\ OneEach(q) => Last(q).slot \notin Slots(Front(q))
<1>1. /\ DOMAIN q = 1..Len(q) /\ Len(q) \in Nat \ {0}
      /\ DOMAIN Front(q) = 1..(Len(q) - 1)
      /\ \A i \in DOMAIN Front(q) : Front(q)[i] = q[i]
      /\ Last(q) = q[Len(q)] /\ Last(q) \in Frame
  BY DEF Front, Last
<1>2. \A i \in DOMAIN Front(q) : i \in DOMAIN q /\ i # Len(q)
  BY <1>1
<1>3. \A i \in DOMAIN q : i = Len(q) \/ i \in DOMAIN Front(q)
  BY <1>1
<1>4. Len(q) \in DOMAIN q
  BY <1>1
<1>5. Slots(q) = Slots(Front(q)) \cup {Last(q).slot}
  BY <1>1, <1>2, <1>3, <1>4 DEF Slots
<1>6. ASSUME OneEach(q) PROVE Last(q).slot \notin Slots(Front(q))
  BY <1>1, <1>2, <1>4, <1>6 DEF Slots, OneEach
<1> QED
  BY <1>1, <1>5, <1>6

----------------------------------------------------------------------------
(* Where the threads are, and what they hold.                              *)

LEMMA ConversionShape ==
  ASSUME Types
  PROVE  /\ conversion.pc \in {"idle", "permit", "driver", "done"}
         /\ conversion.frame \in Seq(Frame)
         /\ conversion.pc # "driver" => conversion.frame = <<>>
         /\ conversion.pc = "driver" => \E f \in Frame : conversion.frame = <<f>>
<1>1. conversion \in ConversionStates
  BY DEF Types, Threads
<1>2. CASE conversion \in [pc : {"idle", "permit", "done"}, frame : {<<>>}]
  <2>1. conversion.pc \in {"idle", "permit", "done"} /\ conversion.frame = <<>>
    BY <1>2
  <2> QED
    BY <2>1, NoSlots
<1>3. CASE conversion \in [pc : {"driver"}, frame : OneFrame]
  <2>1. PICK f \in Frame : conversion.frame = <<f>>
    BY <1>3 DEF OneFrame
  <2> QED
    BY <1>3, <2>1, SlotsOfOne
<1> QED
  BY <1>1, <1>2, <1>3 DEF ConversionStates

LEMMA SubmissionShape ==
  ASSUME Types
  PROVE  /\ submission.pc \in {"idle", "driver", "done"}
         /\ submission.frame \in Seq(Frame)
         /\ submission.pc # "driver" => submission.frame = <<>>
         /\ submission.pc = "driver" =>
              submission.asked \in BOOLEAN /\ \E f \in Frame : submission.frame = <<f>>
<1>1. submission \in SubmissionStates
  BY DEF Types, Threads
<1>2. CASE submission \in [pc : {"idle", "done"}, frame : {<<>>}]
  <2>1. submission.pc \in {"idle", "done"} /\ submission.frame = <<>>
    BY <1>2
  <2> QED
    BY <2>1, NoSlots
<1>3. CASE submission \in [pc : {"driver"}, frame : OneFrame, asked : BOOLEAN]
  <2>1. PICK f \in Frame : submission.frame = <<f>>
    BY <1>3 DEF OneFrame
  <2> QED
    BY <1>3, <2>1, SlotsOfOne
<1> QED
  BY <1>1, <1>2, <1>3 DEF SubmissionStates

LEMMA CompletionShape ==
  ASSUME Types
  PROVE  /\ completion.pc \in {"idle", "driver", "handoff", "done"}
         /\ completion.frame \in Seq(Frame)
         /\ completion.pc # "driver" => completion.frame = <<>>
         /\ completion.pc = "driver" => \E f \in Frame : completion.frame = <<f>>
<1>1. completion \in CompletionStates
  BY DEF Types, Threads
<1>2. CASE completion \in [pc : {"idle", "handoff", "done"}, frame : {<<>>}]
  <2>1. completion.pc \in {"idle", "handoff", "done"} /\ completion.frame = <<>>
    BY <1>2
  <2> QED
    BY <2>1, NoSlots
<1>3. CASE completion \in [pc : {"driver"}, frame : OneFrame]
  <2>1. PICK f \in Frame : completion.frame = <<f>>
    BY <1>3 DEF OneFrame
  <2> QED
    BY <1>3, <2>1, SlotsOfOne
<1> QED
  BY <1>1, <1>2, <1>3 DEF CompletionStates

LEMMA ConvertedShape ==
  ASSUME Types
  PROVE  /\ converted \in Seq(Frame) /\ Len(converted) \in Nat
         /\ converted # <<>> => \E f \in Frame : converted = <<f>>
<1>1. converted \in {<<>>} \cup OneFrame
  BY DEF Types, Queues
<1>2. CASE converted = <<>>
  BY <1>2, NoSlots
<1>3. CASE converted \in OneFrame
  <2>1. PICK f \in Frame : converted = <<f>>
    BY <1>3 DEF OneFrame
  <2> QED
    BY <2>1, SlotsOfOne
<1> QED
  BY <1>1, <1>2, <1>3

\* What a thread may become.
LEMMA ThreadStates ==
  /\ Idle.pc = "idle" /\ Idle.frame = <<>> /\ Done.pc = "done" /\ Done.frame = <<>>
  /\ [Idle EXCEPT !.pc = "permit"].pc = "permit" /\ [Idle EXCEPT !.pc = "permit"].frame = <<>>
  /\ [Idle EXCEPT !.pc = "handoff"].pc = "handoff" /\ [Idle EXCEPT !.pc = "handoff"].frame = <<>>
  /\ {Idle, Done, [Idle EXCEPT !.pc = "permit"]} \subseteq ConversionStates
  /\ {Idle, Done} \subseteq SubmissionStates
  /\ {Idle, Done, [Idle EXCEPT !.pc = "handoff"]} \subseteq CompletionStates
BY DEF Idle, Done, ConversionStates, SubmissionStates, CompletionStates

LEMMA HoldingStates ==
  ASSUME NEW f \in Frame
  PROVE  /\ Holding("driver", f).pc = "driver" /\ Holding("driver", f).frame = <<f>>
         /\ Holding("driver", f) \in ConversionStates /\ Holding("driver", f) \in CompletionStates
         /\ <<f>> \in OneFrame
BY DEF Holding, OneFrame, ConversionStates, CompletionStates

LEMMA SubmittingStates ==
  ASSUME NEW f \in Frame, NEW asked \in BOOLEAN
  PROVE  [pc |-> "driver", frame |-> <<f>>, asked |-> asked] \in SubmissionStates
BY DEF OneFrame, SubmissionStates

----------------------------------------------------------------------------
(* The workers.                                                            *)

\* A worker that runs is of a session.
LEMMA WorkersAreInSession ==
  ASSUME IInv, conversion.pc # "done" \/ submission.pc # "done" \/ completion.pc # "done"
  PROVE  InSession
BY DEF IInv, Control, WorkersGone

\* What a worker does to the stop flag and the failure, and to the progress.
Reported ==
  \/ on' = on /\ failure' = failure
  \/ on' = FALSE /\ failure' \in {"stall", "device"}
Progressed ==
  \/ progressed' = progressed /\ fruitless' = fruitless
  \/ progressed' = TRUE

LEMMA PublishReports ==
  ASSUME Types, NEW kind \in {"stall", "device"}, Publish(kind)
  PROVE  /\ Reported /\ on' \in BOOLEAN /\ force' \in BOOLEAN
         /\ failure' \in {"none", "stall", "device"}
<1>1. on \in BOOLEAN /\ force \in BOOLEAN
  BY DEF Types, Flags
<1>2. failure \in {"none", "stall", "device"}
  BY DEF Types, Values
<1>3. CASE Active
  <2>1. on' = FALSE /\ failure' = kind /\ force' = TRUE
    BY <1>3 DEF Publish
  <2> QED
    BY <2>1 DEF Reported
<1>4. CASE ~Active
  <2>1. on' = on /\ failure' = failure /\ force' = force
    BY <1>4 DEF Publish
  <2> QED
    BY <1>1, <1>2, <2>1 DEF Reported
<1> QED
  BY <1>3, <1>4

\* What is left to show of a step of a worker.
LEMMA WorkerKeeps ==
  ASSUME IInv, InSession, UNCHANGED <<running, phase, cause, stalls, losses>>,
         Reported, Progressed, Types',
         SlotsSeparate', OneEach(prepared)', OneEach(submitted)',
         CountersExact', PermitConserved', Drained'
  PROVE  IInv'
<1>1. InSession' /\ phase' \notin {"waiting", "ended", "retired"} /\ phase # "ended"
  BY DEF InSession
<1>2. Owned' /\ WorkersGone' /\ CleanTeardown' /\ GivesUpFruitless'
  BY <1>1 DEF Owned, WorkersGone, CleanTeardown, GivesUpFruitless
<1>3. WorkerStopIsExplained'
  <2> SUFFICES ASSUME phase' \in {"looking", "acquiring"} PROVE (on <=> failure = "none")'
    BY DEF WorkerStopIsExplained
  <2>1. on <=> failure = "none"
    BY DEF IInv, Control, WorkerStopIsExplained
  <2> QED
    BY <2>1 DEF Reported
<1>4. Budget'
  BY <1>1 DEF IInv, Control, Budget, Progressed
<1> QED
  BY <1>2, <1>3, <1>4 DEF IInv, Control

\* The permit: with its channel, the conversion, or the converted frame.
PermitOwned(p, pc, q) ==
  /\ p = TRUE => pc \notin {"permit", "driver"} /\ q = <<>>
  /\ pc \in {"permit", "driver"} => q = <<>>
  /\ p = FALSE /\ pc = "idle" => q # <<>>

LEMMA PermitForm ==
  ASSUME NEW p \in BOOLEAN, NEW pc \in {"idle", "permit", "driver", "done"},
         NEW q \in {<<>>} \cup OneFrame
  PROVE  PermitOwned(p, pc, q) <=>
           /\ One(p) + One(pc \in {"permit", "driver"}) + Len(q) <= 1
           /\ One(p) + One(pc \in {"permit", "driver"}) + Len(q) = 0 => pc = "done"
<1> DEFINE unused == One(p)
           used == One(pc \in {"permit", "driver"})
           length == Len(q)
<1>1. (q = <<>> /\ length = 0) \/ (q # <<>> /\ length = 1)
  BY SlotsOfOne DEF OneFrame
<1>2. (p = TRUE /\ unused = 1) \/ (p = FALSE /\ unused = 0)
  BY DEF One
<1>3. (pc \in {"permit", "driver"} /\ used = 1) \/ (pc \notin {"permit", "driver"} /\ used = 0)
  BY DEF One
<1> HIDE DEF unused, used, length
<1>4. PermitOwned(p, pc, q) <=>
        /\ unused + used + length <= 1
        /\ unused + used + length = 0 => pc = "done"
  BY <1>1, <1>2, <1>3 DEF PermitOwned
<1> QED
  BY <1>4 DEF unused, used, length

\* How many frames a thread holds that is at pc.
Held(pc) == One(pc = "driver")

LEMMA HeldValue == \A pc : Held(pc) = IF pc = "driver" THEN 1 ELSE 0
BY DEF Held, One

\* What a worker finds.
Counts ==
  /\ preprocess = Len(prepared) + Held(conversion.pc) + Len(converted)
                    + Held(submission.pc)
  /\ preprocess <= MaxPreprocess
  /\ ~poisoned => pending = Len(submitted) + Held(completion.pc)

LEMMA AtWork ==
  ASSUME IInv, conversion.pc # "done" \/ submission.pc # "done" \/ completion.pc # "done"
  PROVE  /\ InSession /\ Flags /\ Values /\ Queues /\ Threads /\ Types
         /\ SlotsSeparate /\ OneEach(prepared) /\ OneEach(submitted)
         /\ Counts /\ PermitOwned(permit, conversion.pc, converted) /\ Drained
<1>1. InSession /\ Types /\ Drained
  BY WorkersAreInSession DEF IInv, Control
<1>2. SlotsSeparate /\ OneEach(prepared) /\ OneEach(submitted)
  BY <1>1 DEF IInv, Owned
<1>3. Counts
  BY <1>1 DEF IInv, Counts, Held, CountersExact, PreprocessExact, PendingExact
<1>4. PermitOwned(permit, conversion.pc, converted)
  <2>1. permit \in BOOLEAN /\ converted \in {<<>>} \cup OneFrame
    BY <1>1 DEF Types, Flags, Queues
  <2>2. conversion.pc \in {"idle", "permit", "driver", "done"}
    BY <1>1, ConversionShape
  <2>3. /\ One(permit) + One(conversion.pc \in {"permit", "driver"}) + Len(converted) <= 1
        /\ One(permit) + One(conversion.pc \in {"permit", "driver"}) + Len(converted) = 0
             => conversion.pc = "done"
    BY <1>1 DEF IInv, PermitConserved
  <2> QED
    BY <2>1, <2>2, <2>3, PermitForm
<1> QED
  BY <1>1, <1>2, <1>3, <1>4 DEF Types

LEMMA Lengths ==
  ASSUME Types
  PROVE  /\ Len(prepared) \in Nat /\ Len(submitted) \in Nat /\ Len(converted) \in Nat
         /\ Len(<<>>) = 0 /\ preprocess \in Int /\ pending \in Int
BY ConvertedShape DEF Types, Queues, Values

\* The properties of the counts and the permit after a step, from these forms.
LEMMA CountsExact ==
  ASSUME Types', Counts', PermitOwned(permit, conversion.pc, converted)'
  PROVE  CountersExact' /\ PermitConserved'
<1>1. CountersExact'
  BY DEF Counts, Held, CountersExact, PreprocessExact, PendingExact
<1>2. permit' \in BOOLEAN /\ converted' \in {<<>>} \cup OneFrame
  BY DEF Types, Flags, Queues
<1>3. conversion'.pc \in {"idle", "permit", "driver", "done"}
  BY DEF Types, Threads, ConversionStates
<1>4. PermitOwned(permit', conversion'.pc, converted')
  OBVIOUS
<1>5. /\ One(permit') + One(conversion'.pc \in {"permit", "driver"}) + Len(converted') <= 1
      /\ One(permit') + One(conversion'.pc \in {"permit", "driver"}) + Len(converted') = 0
           => conversion'.pc = "done"
  BY <1>2, <1>3, <1>4, PermitForm
<1> QED
  BY <1>1, <1>5 DEF PermitConserved

\* A step of a worker that keeps these keeps the invariant.
LEMMA WorkDone ==
  ASSUME IInv, InSession, UNCHANGED <<running, phase, cause, stalls, losses>>,
         Reported, Progressed, Flags', Values', Queues', Threads',
         SlotsSeparate', OneEach(prepared)', OneEach(submitted)',
         Counts', PermitOwned(permit, conversion.pc, converted)', Drained'
  PROVE  IInv'
BY CountsExact, WorkerKeeps DEF Types

LEMMA ConversionPermitKeeps ==
  ASSUME IInv, ConversionPermit
  PROVE  IInv'
<1>1. /\ conversion.pc = "idle" /\ permit = TRUE /\ permit' = FALSE
      /\ conversion' = [Idle EXCEPT !.pc = "permit"]
      /\ UNCHANGED <<running, watched, force, phase, cause, stalls, losses, latest, free, prepared,
                     converted, submission, submitted, completion, preprocess, pending, completed,
                     progressed, busy, poisoned, on, failure, encoded, senderDone, fruitless>>
  BY DEF ConversionPermit, outside, supervisor, counters, workers, toSender
<1> HIDE DEF ConversionPermit
<1>2. /\ InSession /\ Flags /\ Values /\ Queues /\ Threads /\ Types
      /\ SlotsSeparate /\ OneEach(prepared) /\ OneEach(submitted)
      /\ Counts /\ PermitOwned(permit, conversion.pc, converted) /\ Drained
  BY <1>1, AtWork
<1>3. conversion.frame = <<>> /\ conversion'.frame = <<>> /\ conversion'.pc = "permit"
  BY <1>1, <1>2, ConversionShape, ThreadStates
<1>4. Flags'
  BY <1>1, <1>2 DEF Flags
<1>5. Values' /\ Queues' /\ Threads'
  BY <1>1, <1>2, ThreadStates DEF Values, Queues, Threads
<1>6. SlotsSeparate' /\ OneEach(prepared)' /\ OneEach(submitted)'
  BY <1>1, <1>2, <1>3 DEF SlotsSeparate, Separate
<1>7. Counts'
  BY <1>1, <1>2, <1>3, Lengths, HeldValue DEF Counts
<1>9. PermitOwned(permit, conversion.pc, converted)'
  BY <1>1, <1>2, <1>3 DEF PermitOwned
<1>8. Drained' /\ Reported /\ Progressed
  BY <1>1, <1>2 DEF Drained, Reported, Progressed
<1> QED
  BY <1>1, <1>2, <1>4, <1>5, <1>6, <1>7, <1>8, <1>9, WorkDone

LEMMA ConversionStopKeeps ==
  ASSUME IInv, ConversionStop
  PROVE  IInv'
<1>1. /\ conversion.pc \in {"idle", "permit"}
      /\ conversion' = Done
      /\ UNCHANGED <<running, watched, force, phase, cause, stalls, losses, latest,
                 free, prepared, permit, converted, submission, submitted,
                 completion, preprocess, pending, completed, progressed, busy,
                 poisoned, on, failure, encoded, senderDone, fruitless>>
  BY DEF ConversionStop, outside, supervisor, counters, workers, toSender
<1>2. /\ InSession /\ Flags /\ Values /\ Queues /\ Threads /\ Types
      /\ SlotsSeparate /\ OneEach(prepared) /\ OneEach(submitted)
      /\ Counts /\ PermitOwned(permit, conversion.pc, converted) /\ Drained
  BY <1>1, AtWork
<1>3. conversion.frame = <<>> /\ conversion'.frame = <<>> /\ conversion'.pc = "done"
  BY <1>1, <1>2, ConversionShape, ThreadStates
<1>4. Flags'
  BY <1>1, <1>2 DEF Flags
<1>5. Values' /\ Queues' /\ Threads'
  BY <1>1, <1>2, <1>3, ThreadStates DEF Values, Queues, Threads
<1>6. SlotsSeparate' /\ OneEach(prepared)' /\ OneEach(submitted)'
  BY <1>1, <1>2, <1>3, NoSlots DEF SlotsSeparate, Separate, Apart
<1>7. Counts'
  BY <1>1, <1>2, <1>3, Lengths, HeldValue DEF Counts
<1>9. PermitOwned(permit, conversion.pc, converted)'
  BY <1>1, <1>2, <1>3 DEF PermitOwned
<1>8. Drained' /\ Reported /\ Progressed
  BY <1>1, <1>2, <1>3 DEF Drained, Reported, Progressed
<1> QED
  BY <1>1, <1>2, <1>4, <1>5, <1>6, <1>7, <1>8, <1>9, WorkDone

LEMMA ConversionHandOverKeeps ==
  ASSUME IInv, ConversionHandOver
  PROVE  IInv'
<1>1. /\ conversion.pc = "driver" /\ submission.pc # "done" /\ converted = <<>>
      /\ converted' = conversion.frame /\ conversion' = Idle
      /\ UNCHANGED <<running, watched, force, phase, cause, stalls, losses, latest,
                 free, prepared, permit, submission, submitted, completion,
                 preprocess, pending, completed, progressed, busy, poisoned, on,
                 failure, encoded, senderDone, fruitless>>
  BY DEF ConversionHandOver, outside, supervisor, counters, workers, toSender
<1>2. /\ InSession /\ Flags /\ Values /\ Queues /\ Threads /\ Types
      /\ SlotsSeparate /\ OneEach(prepared) /\ OneEach(submitted)
      /\ Counts /\ PermitOwned(permit, conversion.pc, converted) /\ Drained
  BY <1>1, AtWork
<1>3. /\ conversion.frame \in OneFrame /\ Len(conversion.frame) = 1 /\ conversion.frame # <<>>
      /\ conversion'.frame = <<>> /\ conversion'.pc = "idle"
  BY <1>1, <1>2, ConversionShape, SlotsOfOne, HoldingStates, ThreadStates
<1>4. Flags'
  BY <1>1, <1>2 DEF Flags
<1>5. Values' /\ Queues' /\ Threads'
  BY <1>1, <1>2, <1>3, ThreadStates DEF Values, Queues, Threads
<1>6. SlotsSeparate' /\ OneEach(prepared)' /\ OneEach(submitted)'
  BY <1>1, <1>2, <1>3, NoSlots DEF SlotsSeparate, Separate, Apart
<1>7. Counts'
  BY <1>1, <1>2, <1>3, Lengths, HeldValue DEF Counts
<1>9. PermitOwned(permit, conversion.pc, converted)'
  BY <1>1, <1>2, <1>3 DEF PermitOwned
<1>8. Drained' /\ Reported /\ Progressed
  BY <1>1, <1>2, <1>3 DEF Drained, Reported, Progressed
<1> QED
  BY <1>1, <1>2, <1>4, <1>5, <1>6, <1>7, <1>8, <1>9, WorkDone

LEMMA SubmissionStopKeeps ==
  ASSUME IInv, SubmissionStop
  PROVE  IInv'
<1>1. /\ submission.pc = "idle"
      /\ submission' = Done
      /\ UNCHANGED <<running, watched, force, phase, cause, stalls, losses, latest,
                 free, prepared, permit, conversion, converted, submitted,
                 completion, preprocess, pending, completed, progressed, busy,
                 poisoned, on, failure, encoded, senderDone, fruitless>>
  BY DEF SubmissionStop, outside, supervisor, counters, workers, toSender
<1>2. /\ InSession /\ Flags /\ Values /\ Queues /\ Threads /\ Types
      /\ SlotsSeparate /\ OneEach(prepared) /\ OneEach(submitted)
      /\ Counts /\ PermitOwned(permit, conversion.pc, converted) /\ Drained
  BY <1>1, AtWork
<1>3. submission.frame = <<>> /\ submission'.frame = <<>> /\ submission'.pc = "done"
  BY <1>1, <1>2, SubmissionShape, ThreadStates
<1>4. Flags'
  BY <1>1, <1>2 DEF Flags
<1>5. Values' /\ Queues' /\ Threads'
  BY <1>1, <1>2, <1>3, ThreadStates DEF Values, Queues, Threads
<1>6. SlotsSeparate' /\ OneEach(prepared)' /\ OneEach(submitted)'
  BY <1>1, <1>2, <1>3, NoSlots DEF SlotsSeparate, Separate, Apart
<1>7. Counts'
  BY <1>1, <1>2, <1>3, Lengths, HeldValue DEF Counts
<1>9. PermitOwned(permit, conversion.pc, converted)'
  BY <1>1, <1>2, <1>3 DEF PermitOwned
<1>8. Drained' /\ Reported /\ Progressed
  BY <1>1, <1>2, <1>3 DEF Drained, Reported, Progressed
<1> QED
  BY <1>1, <1>2, <1>4, <1>5, <1>6, <1>7, <1>8, <1>9, WorkDone

LEMMA CompletionEndKeeps ==
  ASSUME IInv, CompletionEnd
  PROVE  IInv'
<1>1. /\ completion.pc = "idle" /\ submitted = <<>> /\ submission.pc = "done"
      /\ completion' = Done
      /\ UNCHANGED <<running, watched, force, phase, cause, stalls, losses, latest,
                 free, prepared, permit, conversion, converted, submission,
                 submitted, preprocess, pending, completed, progressed, busy,
                 poisoned, on, failure, encoded, senderDone, fruitless>>
  BY DEF CompletionEnd, outside, supervisor, counters, workers, toSender
<1>2. /\ InSession /\ Flags /\ Values /\ Queues /\ Threads /\ Types
      /\ SlotsSeparate /\ OneEach(prepared) /\ OneEach(submitted)
      /\ Counts /\ PermitOwned(permit, conversion.pc, converted) /\ Drained
  BY <1>1, AtWork
<1>3. completion.frame = <<>> /\ completion'.frame = <<>> /\ completion'.pc = "done"
  BY <1>1, <1>2, CompletionShape, ThreadStates
<1>4. Flags'
  BY <1>1, <1>2 DEF Flags
<1>5. Values' /\ Queues' /\ Threads'
  BY <1>1, <1>2, <1>3, ThreadStates DEF Values, Queues, Threads
<1>6. SlotsSeparate' /\ OneEach(prepared)' /\ OneEach(submitted)'
  BY <1>1, <1>2, <1>3, NoSlots DEF SlotsSeparate, Separate, Apart
<1>7. Counts'
  BY <1>1, <1>2, <1>3, Lengths, HeldValue DEF Counts
<1>9. PermitOwned(permit, conversion.pc, converted)'
  BY <1>1, <1>2, <1>3 DEF PermitOwned
<1>8. Drained' /\ Reported /\ Progressed
  BY <1>1, <1>2, <1>3 DEF Drained, Reported, Progressed
<1> QED
  BY <1>1, <1>2, <1>4, <1>5, <1>6, <1>7, <1>8, <1>9, WorkDone

LEMMA CompletionTakeKeeps ==
  ASSUME IInv, CompletionTake
  PROVE  IInv'
<1>1. /\ completion.pc = "idle" /\ submitted # <<>>
      /\ completion' = Holding("driver", submitted[1]) /\ submitted' = Tail(submitted)
      /\ UNCHANGED <<running, watched, force, phase, cause, stalls, losses, latest,
                 free, prepared, permit, conversion, converted, submission,
                 preprocess, pending, completed, progressed, busy, poisoned, on,
                 failure, encoded, senderDone, fruitless>>
  BY DEF CompletionTake, outside, supervisor, counters, workers, toSender
<1>2. /\ InSession /\ Flags /\ Values /\ Queues /\ Threads /\ Types
      /\ SlotsSeparate /\ OneEach(prepared) /\ OneEach(submitted)
      /\ Counts /\ PermitOwned(permit, conversion.pc, converted) /\ Drained
  BY <1>1, AtWork
<1>3. /\ completion.frame = <<>> /\ completion'.frame = <<submitted[1]>> /\ completion'.pc = "driver"
      /\ completion' \in CompletionStates /\ submitted' \in Seq(Frame)
      /\ Len(submitted) \in Nat /\ Len(submitted') = Len(submitted) - 1
      /\ Slots(submitted) = Slots(submitted') \cup {submitted[1].slot}
      /\ OneEach(submitted') /\ submitted[1].slot \notin Slots(submitted')
      /\ Slots(completion'.frame) = {submitted[1].slot}
  <2>1. submitted \in Seq(Frame)
    BY <1>2 DEF Queues
  <2>2. submitted[1] \in Frame
    BY <1>1, <2>1, SlotsOfTail
  <2>3. completion' \in CompletionStates /\ completion'.frame = <<submitted[1]>> /\ completion'.pc = "driver"
    BY <1>1, <2>2, HoldingStates
  <2>4. completion.frame = <<>> /\ Slots(completion'.frame) = {submitted[1].slot}
    BY <1>1, <1>2, <2>2, <2>3, CompletionShape, SlotsOfOne
  <2> QED
    BY <1>1, <1>2, <2>1, <2>3, <2>4, SlotsOfTail
<1>4. Flags'
  BY <1>1, <1>2 DEF Flags
<1>5. Values' /\ Queues' /\ Threads'
  BY <1>1, <1>2, <1>3, ThreadStates DEF Values, Queues, Threads
<1>6. SlotsSeparate' /\ OneEach(prepared)' /\ OneEach(submitted)'
  BY <1>1, <1>2, <1>3, NoSlots DEF SlotsSeparate, Separate, Apart
<1>7. Counts'
  BY <1>1, <1>2, <1>3, Lengths, HeldValue DEF Counts
<1>9. PermitOwned(permit, conversion.pc, converted)'
  BY <1>1, <1>2, <1>3 DEF PermitOwned
<1>8. Drained' /\ Reported /\ Progressed
  BY <1>1, <1>2, <1>3 DEF Drained, Reported, Progressed
<1> QED
  BY <1>1, <1>2, <1>4, <1>5, <1>6, <1>7, <1>8, <1>9, WorkDone

LEMMA ConversionFailsKeeps ==
  ASSUME IInv, ConversionFails
  PROVE  IInv'
<1>1. /\ conversion.pc = "driver" /\ conversion' = Done
      /\ free' = free \cup Slots(conversion.frame) /\ preprocess' = preprocess - 1
      /\ \E kind \in {"stall", "device"} : Publish(kind)
      /\ UNCHANGED <<running, watched, phase, cause, stalls, losses, latest, prepared,
                 permit, converted, submission, submitted, completion, pending,
                 completed, progressed, busy, poisoned, encoded, senderDone,
                 fruitless>>
  BY DEF ConversionFails, outside, supervisor, counters, workers, toSender, Recycle
<1>2. /\ InSession /\ Flags /\ Values /\ Queues /\ Threads /\ Types
      /\ SlotsSeparate /\ OneEach(prepared) /\ OneEach(submitted)
      /\ Counts /\ PermitOwned(permit, conversion.pc, converted) /\ Drained
  BY <1>1, AtWork
<1>3. /\ conversion'.frame = <<>> /\ conversion'.pc = "done" /\ free' \subseteq Slot
      /\ Reported /\ on' \in BOOLEAN /\ force' \in BOOLEAN /\ failure' \in {"none", "stall", "device"}
  <2>1. free \subseteq Slot /\ Slots(conversion.frame) \subseteq Slot
    BY <1>2, ConversionShape, SlotsTyped DEF Queues
  <2> QED
    BY <1>1, <1>2, <2>1, ThreadStates, PublishReports
<1>4. Flags'
  BY <1>1, <1>2, <1>3 DEF Flags
<1>5. Values' /\ Queues' /\ Threads'
  BY <1>1, <1>2, <1>3, ThreadStates DEF Values, Queues, Threads
<1>6. SlotsSeparate' /\ OneEach(prepared)' /\ OneEach(submitted)'
  BY <1>1, <1>2, <1>3, NoSlots DEF SlotsSeparate, Separate, Apart
<1>7. Counts'
  BY <1>1, <1>2, <1>3, Lengths, HeldValue DEF Counts
<1>9. PermitOwned(permit, conversion.pc, converted)'
  BY <1>1, <1>2, <1>3 DEF PermitOwned
<1>8. Drained' /\ Reported /\ Progressed
  BY <1>1, <1>2, <1>3 DEF Drained, Reported, Progressed
<1> QED
  BY <1>1, <1>2, <1>4, <1>5, <1>6, <1>7, <1>8, <1>9, WorkDone

LEMMA SubmissionTakeFailsKeeps ==
  ASSUME IInv, SubmissionTakeFails
  PROVE  IInv'
<1>1. /\ submission.pc = "idle" /\ converted # <<>> /\ (permit = TRUE \/ conversion.pc = "done")
      /\ converted' = <<>> /\ submission' = Done
      /\ free' = free \cup Slots(converted) /\ preprocess' = preprocess - 1
      /\ Publish("stall")
      /\ UNCHANGED <<running, watched, phase, cause, stalls, losses, latest, prepared,
                 permit, conversion, submitted, completion, pending, completed,
                 progressed, busy, poisoned, encoded, senderDone, fruitless>>
  BY DEF SubmissionTakeFails, outside, supervisor, counters, workers, toSender, Recycle
<1>2. /\ InSession /\ Flags /\ Values /\ Queues /\ Threads /\ Types
      /\ SlotsSeparate /\ OneEach(prepared) /\ OneEach(submitted)
      /\ Counts /\ PermitOwned(permit, conversion.pc, converted) /\ Drained
  BY <1>1, AtWork
<1>3. /\ submission.frame = <<>> /\ submission'.frame = <<>> /\ submission'.pc = "done"
      /\ Len(converted) = 1 /\ free' \subseteq Slot
      /\ Reported /\ on' \in BOOLEAN /\ force' \in BOOLEAN /\ failure' \in {"none", "stall", "device"}
  <2>1. free \subseteq Slot /\ Slots(converted) \subseteq Slot /\ Len(converted) = 1
    BY <1>1, <1>2, ConvertedShape, SlotsTyped, SlotsOfOne DEF Queues
  <2> QED
    BY <1>1, <1>2, <2>1, SubmissionShape, ThreadStates, PublishReports
<1>4. Flags'
  BY <1>1, <1>2, <1>3 DEF Flags
<1>5. Values' /\ Queues' /\ Threads'
  BY <1>1, <1>2, <1>3, ThreadStates DEF Values, Queues, Threads
<1>6. SlotsSeparate' /\ OneEach(prepared)' /\ OneEach(submitted)'
  BY <1>1, <1>2, <1>3, NoSlots DEF SlotsSeparate, Separate, Apart
<1>7. Counts'
  BY <1>1, <1>2, <1>3, Lengths, HeldValue DEF Counts
<1>9. PermitOwned(permit, conversion.pc, converted)'
  BY <1>1, <1>2, <1>3 DEF PermitOwned
<1>8. Drained' /\ Reported /\ Progressed
  BY <1>1, <1>2, <1>3 DEF Drained, Reported, Progressed
<1> QED
  BY <1>1, <1>2, <1>4, <1>5, <1>6, <1>7, <1>8, <1>9, WorkDone

LEMMA SubmissionBusyKeeps ==
  ASSUME IInv, SubmissionBusy
  PROVE  IInv'
<1>1. /\ submission.pc = "driver" /\ submission' = Idle
      /\ busy' = TRUE /\ force' \in {force, force \/ submission.asked}
      /\ free' = free \cup Slots(submission.frame) /\ preprocess' = preprocess - 1
      /\ UNCHANGED <<running, watched, phase, cause, stalls, losses, latest, prepared,
                 permit, conversion, converted, submitted, completion, pending,
                 completed, progressed, poisoned, on, failure, encoded, senderDone,
                 fruitless>>
  BY DEF SubmissionBusy, outside, supervisor, counters, workers, toSender, Recycle, Restored
<1>2. /\ InSession /\ Flags /\ Values /\ Queues /\ Threads /\ Types
      /\ SlotsSeparate /\ OneEach(prepared) /\ OneEach(submitted)
      /\ Counts /\ PermitOwned(permit, conversion.pc, converted) /\ Drained
  BY <1>1, AtWork
<1>3. submission'.frame = <<>> /\ submission'.pc = "idle" /\ free' \subseteq Slot /\ force' \in BOOLEAN
  <2>1. free \subseteq Slot /\ Slots(submission.frame) \subseteq Slot
    BY <1>2, SubmissionShape, SlotsTyped DEF Queues
  <2>2. force \in BOOLEAN /\ submission.asked \in BOOLEAN
    BY <1>1, <1>2, SubmissionShape DEF Flags
  <2>3. force' \in BOOLEAN
    BY <1>1, <2>2
  <2> QED
    BY <1>1, <1>2, <2>1, <2>3, ThreadStates
<1>4. Flags'
  BY <1>1, <1>2, <1>3 DEF Flags
<1>5. Values' /\ Queues' /\ Threads'
  BY <1>1, <1>2, <1>3, ThreadStates DEF Values, Queues, Threads
<1>6. SlotsSeparate' /\ OneEach(prepared)' /\ OneEach(submitted)'
  BY <1>1, <1>2, <1>3, NoSlots DEF SlotsSeparate, Separate, Apart
<1>7. Counts'
  BY <1>1, <1>2, <1>3, Lengths, HeldValue DEF Counts
<1>9. PermitOwned(permit, conversion.pc, converted)'
  BY <1>1, <1>2, <1>3 DEF PermitOwned
<1>8. Drained' /\ Reported /\ Progressed
  BY <1>1, <1>2, <1>3 DEF Drained, Reported, Progressed
<1> QED
  BY <1>1, <1>2, <1>4, <1>5, <1>6, <1>7, <1>8, <1>9, WorkDone

LEMMA SubmissionFailsKeeps ==
  ASSUME IInv, SubmissionFails
  PROVE  IInv'
<1>1. /\ submission.pc = "driver" /\ submission' = Done
      /\ preprocess' = preprocess - 1 /\ poisoned' \in {poisoned, TRUE}
      /\ \/ on' = FALSE /\ failure' \in {"stall", "device"} /\ force' = TRUE
         \/ on' = on /\ failure' = failure /\ force' \in {force, force \/ submission.asked}
      /\ UNCHANGED <<running, watched, phase, cause, stalls, losses, latest, free,
                 prepared, permit, conversion, converted, submitted, completion,
                 pending, completed, progressed, busy, encoded, senderDone,
                 fruitless>>
  BY DEF SubmissionFails, outside, supervisor, counters, workers, toSender, Restored
<1>2. /\ InSession /\ Flags /\ Values /\ Queues /\ Threads /\ Types
      /\ SlotsSeparate /\ OneEach(prepared) /\ OneEach(submitted)
      /\ Counts /\ PermitOwned(permit, conversion.pc, converted) /\ Drained
  BY <1>1, AtWork
<1>3. /\ submission'.frame = <<>> /\ submission'.pc = "done" /\ poisoned' \in BOOLEAN
      /\ ~poisoned' => ~poisoned
      /\ Reported /\ on' \in BOOLEAN /\ force' \in BOOLEAN /\ failure' \in {"none", "stall", "device"}
  <2>1. /\ force \in BOOLEAN /\ submission.asked \in BOOLEAN /\ on \in BOOLEAN
        /\ poisoned \in BOOLEAN /\ failure \in {"none", "stall", "device"}
    BY <1>1, <1>2, SubmissionShape DEF Flags, Values
  <2>2. /\ force' \in BOOLEAN /\ on' \in BOOLEAN /\ failure' \in {"none", "stall", "device"}
        /\ Reported
    BY <1>1, <2>1 DEF Reported
  <2>3. poisoned' \in BOOLEAN /\ (~poisoned' => ~poisoned)
    BY <1>1, <2>1
  <2> QED
    BY <1>1, <2>2, <2>3, ThreadStates
<1>4. Flags'
  BY <1>1, <1>2, <1>3 DEF Flags
<1>5. Values' /\ Queues' /\ Threads'
  BY <1>1, <1>2, <1>3, ThreadStates DEF Values, Queues, Threads
<1>6. SlotsSeparate' /\ OneEach(prepared)' /\ OneEach(submitted)'
  BY <1>1, <1>2, <1>3, NoSlots DEF SlotsSeparate, Separate, Apart
<1>7. Counts'
  <2>1. /\ preprocess' = Len(prepared)' + Held(conversion.pc)' + Len(converted)'
                          + Held(submission.pc)'
        /\ (preprocess <= MaxPreprocess)'
    BY <1>1, <1>2, <1>3, Lengths, HeldValue DEF Counts
  <2>2. (~poisoned => pending = Len(submitted) + Held(completion.pc))'
    BY <1>1, <1>2, <1>3 DEF Counts
  <2> QED
    BY <2>1, <2>2 DEF Counts
<1>9. PermitOwned(permit, conversion.pc, converted)'
  BY <1>1, <1>2, <1>3 DEF PermitOwned
<1>8. Drained' /\ Reported /\ Progressed
  BY <1>1, <1>2, <1>3 DEF Drained, Reported, Progressed
<1> QED
  BY <1>1, <1>2, <1>4, <1>5, <1>6, <1>7, <1>8, <1>9, WorkDone

LEMMA CompletionFailsKeeps ==
  ASSUME IInv, CompletionFails
  PROVE  IInv'
<1>1. /\ completion.pc = "driver" /\ completion' = Done /\ poisoned' = TRUE
      /\ \/ \E kind \in {"stall", "device"} : Publish(kind)
         \/ on' = on /\ failure' = failure /\ force' = TRUE
      /\ UNCHANGED <<running, watched, phase, cause, stalls, losses, latest, free,
                 prepared, permit, conversion, converted, submission, submitted,
                 preprocess, pending, completed, progressed, busy, encoded,
                 senderDone, fruitless>>
  BY DEF CompletionFails, outside, supervisor, counters, workers, toSender
<1>2. /\ InSession /\ Flags /\ Values /\ Queues /\ Threads /\ Types
      /\ SlotsSeparate /\ OneEach(prepared) /\ OneEach(submitted)
      /\ Counts /\ PermitOwned(permit, conversion.pc, converted) /\ Drained
  BY <1>1, AtWork
<1>3. /\ completion'.frame = <<>> /\ completion'.pc = "done" /\ poisoned'
      /\ Reported /\ on' \in BOOLEAN /\ force' \in BOOLEAN /\ failure' \in {"none", "stall", "device"}
  <2>1. on \in BOOLEAN /\ failure \in {"none", "stall", "device"}
    BY <1>2 DEF Flags, Values
  <2>2. CASE \E kind \in {"stall", "device"} : Publish(kind)
    BY <1>1, <1>2, <2>2, ThreadStates, PublishReports
  <2>3. CASE on' = on /\ failure' = failure /\ force' = TRUE
    BY <1>1, <2>1, <2>3, ThreadStates DEF Reported
  <2> QED
    BY <1>1, <2>2, <2>3
<1>4. Flags'
  BY <1>1, <1>2, <1>3 DEF Flags
<1>5. Values' /\ Queues' /\ Threads'
  BY <1>1, <1>2, <1>3, ThreadStates DEF Values, Queues, Threads
<1>6. SlotsSeparate' /\ OneEach(prepared)' /\ OneEach(submitted)'
  BY <1>1, <1>2, <1>3, NoSlots DEF SlotsSeparate, Separate, Apart
<1>7. Counts'
  BY <1>1, <1>2, <1>3, Lengths, HeldValue DEF Counts
<1>9. PermitOwned(permit, conversion.pc, converted)'
  BY <1>1, <1>2, <1>3 DEF PermitOwned
<1>8. Drained' /\ Reported /\ Progressed
  BY <1>1, <1>2, <1>3 DEF Drained, Reported, Progressed
<1> QED
  BY <1>1, <1>2, <1>4, <1>5, <1>6, <1>7, <1>8, <1>9, WorkDone

LEMMA CompletionHandOverKeeps ==
  ASSUME IInv, CompletionHandOver
  PROVE  IInv'
<1>1. /\ completion.pc = "handoff" /\ completion' = Idle
      /\ \/ Publish("stall") /\ encoded' = encoded
         \/ /\ encoded < EncodedCapacity /\ encoded' = encoded + 1
            /\ on' = on /\ failure' = failure /\ force' = force
      /\ UNCHANGED <<running, watched, phase, cause, stalls, losses, latest, free,
                 prepared, permit, conversion, converted, submission, submitted,
                 preprocess, pending, completed, progressed, busy, poisoned,
                 senderDone, fruitless>>
  BY DEF CompletionHandOver, outside, supervisor, counters, workers, toSender
<1>2. /\ InSession /\ Flags /\ Values /\ Queues /\ Threads /\ Types
      /\ SlotsSeparate /\ OneEach(prepared) /\ OneEach(submitted)
      /\ Counts /\ PermitOwned(permit, conversion.pc, converted) /\ Drained
  BY <1>1, AtWork
<1>3. /\ completion.frame = <<>> /\ completion'.frame = <<>> /\ completion'.pc = "idle"
      /\ encoded' \in 0..EncodedCapacity
      /\ Reported /\ on' \in BOOLEAN /\ force' \in BOOLEAN /\ failure' \in {"none", "stall", "device"}
  <2>1. /\ on \in BOOLEAN /\ force \in BOOLEAN /\ failure \in {"none", "stall", "device"}
        /\ encoded \in 0..EncodedCapacity
    BY <1>2 DEF Flags, Values
  <2>2. /\ on' \in BOOLEAN /\ force' \in BOOLEAN /\ failure' \in {"none", "stall", "device"}
        /\ Reported
    <3>1. CASE Publish("stall")
      BY <1>2, <3>1, PublishReports
    <3>2. CASE on' = on /\ failure' = failure /\ force' = force
      BY <2>1, <3>2 DEF Reported
    <3> QED
      BY <1>1, <3>1, <3>2
  <2>3. encoded' \in 0..EncodedCapacity
    BY <1>1, <2>1
  <2> QED
    BY <1>1, <1>2, <2>2, <2>3, CompletionShape, ThreadStates
<1>4. Flags'
  BY <1>1, <1>2, <1>3 DEF Flags
<1>5. Values' /\ Queues' /\ Threads'
  BY <1>1, <1>2, <1>3, ThreadStates DEF Values, Queues, Threads
<1>6. SlotsSeparate' /\ OneEach(prepared)' /\ OneEach(submitted)'
  BY <1>1, <1>2, <1>3, NoSlots DEF SlotsSeparate, Separate, Apart
<1>7. Counts'
  BY <1>1, <1>2, <1>3, Lengths, HeldValue DEF Counts
<1>9. PermitOwned(permit, conversion.pc, converted)'
  BY <1>1, <1>2, <1>3 DEF PermitOwned
<1>8. Drained' /\ Reported /\ Progressed
  BY <1>1, <1>2, <1>3 DEF Drained, Reported, Progressed
<1> QED
  BY <1>1, <1>2, <1>4, <1>5, <1>6, <1>7, <1>8, <1>9, WorkDone

LEMMA SubmissionTakeKeeps ==
  ASSUME IInv, SubmissionTake
  PROVE  IInv'
<1>1. /\ submission.pc = "idle" /\ converted # <<>> /\ conversion.pc # "done"
      /\ converted' = <<>> /\ permit' = TRUE
      /\ \/ /\ submission' = [pc |-> "driver", frame |-> converted, asked |-> force]
            /\ force' = FALSE /\ free' = free /\ preprocess' = preprocess
         \/ /\ submission' \in {Idle, Done} /\ force' = force
            /\ free' = free \cup Slots(converted) /\ preprocess' = preprocess - 1
      /\ UNCHANGED <<running, watched, phase, cause, stalls, losses, latest, prepared,
                 conversion, submitted, completion, pending, completed, progressed,
                 busy, poisoned, on, failure, encoded, senderDone, fruitless>>
  BY DEF SubmissionTake, outside, supervisor, counters, workers, toSender, Recycle
<1>2. /\ InSession /\ Flags /\ Values /\ Queues /\ Threads /\ Types
      /\ SlotsSeparate /\ OneEach(prepared) /\ OneEach(submitted)
      /\ Counts /\ PermitOwned(permit, conversion.pc, converted) /\ Drained
  BY <1>1, AtWork
<1>3. /\ submission.frame = <<>> /\ Len(converted) = 1
      /\ submission' \in SubmissionStates /\ force' \in BOOLEAN /\ free' \subseteq Slot
      /\ \/ /\ submission'.pc = "driver" /\ submission'.frame = converted
            /\ free' = free /\ preprocess' = preprocess
         \/ /\ submission'.pc # "driver" /\ submission'.frame = <<>>
            /\ free' = free \cup Slots(converted) /\ preprocess' = preprocess - 1
  <2>1. force \in BOOLEAN /\ free \subseteq Slot /\ submission.frame = <<>>
    BY <1>1, <1>2, SubmissionShape DEF Flags, Queues
  <2>2. PICK f \in Frame : converted = <<f>>
    BY <1>1, <1>2, ConvertedShape
  <2>3. Len(converted) = 1 /\ Slots(converted) \subseteq Slot
    BY <2>2, SlotsOfOne
  <2>4. CASE submission' = [pc |-> "driver", frame |-> converted, asked |-> force] /\ force' = FALSE
             /\ free' = free /\ preprocess' = preprocess
    <3>1. submission' \in SubmissionStates
      BY <2>1, <2>2, <2>4, SubmittingStates
    <3> QED
      BY <2>1, <2>3, <2>4, <3>1
  <2>5. CASE submission' \in {Idle, Done} /\ force' = force
             /\ free' = free \cup Slots(converted) /\ preprocess' = preprocess - 1
    BY <2>1, <2>3, <2>5, ThreadStates
  <2> QED
    BY <1>1, <2>4, <2>5
<1>4. Flags'
  BY <1>1, <1>2, <1>3 DEF Flags
<1>5. Values' /\ Queues' /\ Threads'
  BY <1>1, <1>2, <1>3, ThreadStates DEF Values, Queues, Threads
<1>6. SlotsSeparate' /\ OneEach(prepared)' /\ OneEach(submitted)'
  BY <1>1, <1>2, <1>3, NoSlots DEF SlotsSeparate, Separate, Apart
<1>7. Counts'
  BY <1>1, <1>2, <1>3, Lengths, HeldValue DEF Counts
<1>9. PermitOwned(permit, conversion.pc, converted)'
  BY <1>1, <1>2, <1>3 DEF PermitOwned
<1>8. Drained' /\ Reported /\ Progressed
  BY <1>1, <1>2, <1>3 DEF Drained, Reported, Progressed
<1> QED
  BY <1>1, <1>2, <1>4, <1>5, <1>6, <1>7, <1>8, <1>9, WorkDone

LEMMA SubmissionAcceptedKeeps ==
  ASSUME IInv, SubmissionAccepted
  PROVE  IInv'
<1>1. /\ submission.pc = "driver" /\ busy' = FALSE /\ preprocess' = preprocess - 1
      /\ \/ /\ completion.pc = "done" /\ submission' = Done /\ poisoned' = TRUE /\ Publish("stall")
            /\ submitted' = submitted /\ pending' = pending
         \/ /\ completion.pc # "done" /\ submission' = Idle /\ pending' = pending + 1
            /\ submitted' = submitted \o submission.frame
            /\ poisoned' = poisoned /\ on' = on /\ failure' = failure /\ force' = force
      /\ UNCHANGED <<running, watched, phase, cause, stalls, losses, latest, free,
                 prepared, permit, conversion, converted, completion, completed,
                 progressed, encoded, senderDone, fruitless>>
  BY DEF SubmissionAccepted, outside, supervisor, counters, workers, toSender
<1>2. /\ InSession /\ Flags /\ Values /\ Queues /\ Threads /\ Types
      /\ SlotsSeparate /\ OneEach(prepared) /\ OneEach(submitted)
      /\ Counts /\ PermitOwned(permit, conversion.pc, converted) /\ Drained
  BY <1>1, AtWork
<1>10. PICK f \in Frame : submission.frame = <<f>>
  BY <1>1, <1>2, SubmissionShape
<1>3. /\ submission' \in {Idle, Done} /\ submission'.frame = <<>> /\ submission'.pc # "driver"
      /\ submitted' \in Seq(Frame) /\ poisoned' \in BOOLEAN /\ pending' \in Int
      /\ Slots(submission.frame) = {f.slot}
      /\ \/ /\ poisoned' /\ completion.pc = "done" /\ submitted' = submitted /\ pending' = pending
         \/ /\ (~poisoned' => ~poisoned) /\ completion.pc # "done" /\ pending' = pending + 1
            /\ Len(submitted') = Len(submitted) + 1
            /\ Slots(submitted') = Slots(submitted) \cup {f.slot}
            /\ f.slot \notin Slots(submitted) => OneEach(submitted')
      /\ Reported /\ on' \in BOOLEAN /\ force' \in BOOLEAN /\ failure' \in {"none", "stall", "device"}
  <2>1. /\ submitted \in Seq(Frame) /\ pending \in Int /\ poisoned \in BOOLEAN /\ on \in BOOLEAN
        /\ force \in BOOLEAN /\ failure \in {"none", "stall", "device"}
    BY <1>2 DEF Flags, Queues, Values
  <2>2. Slots(submission.frame) = {f.slot}
    BY <1>10, SlotsOfOne
  <2>3. CASE /\ completion.pc = "done" /\ submission' = Done /\ poisoned' = TRUE /\ Publish("stall")
             /\ submitted' = submitted /\ pending' = pending
    BY <1>2, <2>1, <2>2, <2>3, PublishReports, ThreadStates
  <2>4. CASE /\ completion.pc # "done" /\ submission' = Idle /\ pending' = pending + 1
             /\ submitted' = submitted \o submission.frame
             /\ poisoned' = poisoned /\ on' = on /\ failure' = failure /\ force' = force
    <3>1. /\ submitted' \in Seq(Frame) /\ Len(submitted') = Len(submitted) + 1
          /\ Slots(submitted') = Slots(submitted) \cup {f.slot}
          /\ f.slot \notin Slots(submitted) => OneEach(submitted')
      BY <1>2, <1>10, <2>1, <2>4, SlotsOfAppend
    <3>2. Reported
      BY <2>4 DEF Reported
    <3> QED
      BY <2>1, <2>2, <2>4, <3>1, <3>2, ThreadStates
  <2> QED
    BY <1>1, <2>3, <2>4
<1>4. Flags'
  BY <1>1, <1>2, <1>3 DEF Flags
<1>5. Values'
  BY <1>1, <1>2, <1>3 DEF Values
<1>11. Queues'
  BY <1>1, <1>2, <1>3 DEF Queues
<1>12. Threads'
  BY <1>1, <1>2, <1>3, ThreadStates DEF Threads
<1>6. SlotsSeparate' /\ OneEach(prepared)' /\ OneEach(submitted)'
  BY <1>1, <1>2, <1>3, NoSlots DEF SlotsSeparate, Separate, Apart
<1>7. Counts'
  <2>1. /\ preprocess' = Len(prepared)' + Held(conversion.pc)' + Len(converted)'
                          + Held(submission.pc)'
        /\ (preprocess <= MaxPreprocess)'
    BY <1>1, <1>2, <1>3, Lengths, HeldValue DEF Counts
  <2>2. (~poisoned => pending = Len(submitted) + Held(completion.pc))'
    BY <1>1, <1>2, <1>3, Lengths, HeldValue DEF Counts
  <2> QED
    BY <2>1, <2>2 DEF Counts
<1>9. PermitOwned(permit, conversion.pc, converted)'
  BY <1>1, <1>2, <1>3 DEF PermitOwned
<1>8. Drained' /\ Reported /\ Progressed
  BY <1>1, <1>2, <1>3 DEF Drained, Reported, Progressed
<1> QED
  BY <1>1, <1>2, <1>4, <1>5, <1>6, <1>7, <1>8, <1>9, <1>11, <1>12,
     WorkDone

LEMMA CompletionCommitKeeps ==
  ASSUME IInv, CompletionCommit
  PROVE  IInv'
<1>1. /\ completion.pc = "driver" /\ pending' = pending - 1 /\ free' = free \cup Slots(completion.frame)
      /\ \/ /\ completed' = IF completion.frame[1].gen > completed THEN completion.frame[1].gen
                            ELSE completed
            /\ progressed' = TRUE /\ busy' = FALSE /\ fruitless' = 0
            /\ completion' = [Idle EXCEPT !.pc = "handoff"]
         \/ /\ completion' = Idle /\ completed' = completed /\ progressed' = progressed
            /\ busy' = busy /\ fruitless' = fruitless
      /\ UNCHANGED <<running, watched, force, phase, cause, stalls, losses, latest,
                 prepared, permit, conversion, converted, submission, submitted,
                 preprocess, poisoned, on, failure, encoded, senderDone>>
  BY DEF CompletionCommit, outside, supervisor, counters, workers, toSender, Recycle
<1>2. /\ InSession /\ Flags /\ Values /\ Queues /\ Threads /\ Types
      /\ SlotsSeparate /\ OneEach(prepared) /\ OneEach(submitted)
      /\ Counts /\ PermitOwned(permit, conversion.pc, converted) /\ Drained
  BY <1>1, AtWork
<1>10. PICK f \in Frame : completion.frame = <<f>>
  BY <1>1, <1>2, CompletionShape
<1>3. /\ completion' \in {Idle, [Idle EXCEPT !.pc = "handoff"]} /\ completion'.frame = <<>>
      /\ completion'.pc \in {"idle", "handoff"} /\ free' \subseteq Slot
      /\ completed' \in Nat /\ fruitless' \in Nat
      /\ progressed' \in BOOLEAN /\ busy' \in BOOLEAN /\ Progressed
  <2>1. /\ completed \in Nat /\ fruitless \in Nat /\ progressed \in BOOLEAN /\ busy \in BOOLEAN
        /\ free \subseteq Slot
    BY <1>2 DEF Flags, Queues, Values
  <2>2. Slots(completion.frame) \subseteq Slot /\ completion.frame[1] = f /\ f.gen \in Nat
    BY <1>10, SlotsOfOne
  <2>3. completed' \in Nat
    BY <1>1, <2>1, <2>2
  <2>4. fruitless' \in Nat /\ progressed' \in BOOLEAN /\ busy' \in BOOLEAN /\ Progressed
    <3>1. CASE progressed' = TRUE /\ busy' = FALSE /\ fruitless' = 0
      BY <3>1 DEF Progressed
    <3>2. CASE progressed' = progressed /\ busy' = busy /\ fruitless' = fruitless
      BY <2>1, <3>2 DEF Progressed
    <3> QED
      BY <1>1, <3>1, <3>2
  <2> QED
    BY <1>1, <2>1, <2>2, <2>3, <2>4, ThreadStates
<1>4. Flags'
  BY <1>1, <1>2, <1>3 DEF Flags
<1>5. Values'
  BY <1>1, <1>2, <1>3 DEF Values
<1>11. Queues'
  BY <1>1, <1>2, <1>3 DEF Queues
<1>12. Threads'
  BY <1>1, <1>2, <1>3, ThreadStates DEF Threads
<1>6. SlotsSeparate' /\ OneEach(prepared)' /\ OneEach(submitted)'
  BY <1>1, <1>2, <1>3, NoSlots DEF SlotsSeparate, Separate, Apart
<1>7. Counts'
  BY <1>1, <1>2, <1>3, Lengths, HeldValue DEF Counts
<1>9. PermitOwned(permit, conversion.pc, converted)'
  BY <1>1, <1>2, <1>3 DEF PermitOwned
<1>8. Drained' /\ Reported /\ Progressed
  BY <1>1, <1>2, <1>3 DEF Drained, Reported, Progressed
<1> QED
  BY <1>1, <1>2, <1>4, <1>5, <1>6, <1>7, <1>8, <1>9, <1>11, <1>12,
     WorkDone

LEMMA ConversionTakeKeeps ==
  ASSUME IInv, ConversionTake
  PROVE  IInv'
<1>1. /\ conversion.pc = "permit" /\ prepared # <<>> /\ prepared' = <<>>
      /\ \/ /\ conversion' = Holding("driver", Last(prepared))
            /\ free' = free \cup Slots(Front(prepared))
            /\ preprocess' = preprocess - (Len(prepared) - 1)
         \/ /\ conversion' \in {conversion, Done} /\ free' = free \cup Slots(prepared)
            /\ preprocess' = preprocess - Len(prepared)
      /\ UNCHANGED <<running, watched, force, phase, cause, stalls, losses, latest,
                 permit, converted, submission, submitted, completion, pending,
                 completed, progressed, busy, poisoned, on, failure, encoded,
                 senderDone, fruitless>>
  BY DEF ConversionTake, outside, supervisor, counters, workers, toSender, Recycle
<1>2. /\ InSession /\ Flags /\ Values /\ Queues /\ Threads /\ Types
      /\ SlotsSeparate /\ OneEach(prepared) /\ OneEach(submitted)
      /\ Counts /\ PermitOwned(permit, conversion.pc, converted) /\ Drained
  BY <1>1, AtWork
<1> DEFINE f == Last(prepared)
<1>3. /\ conversion.frame = <<>> /\ conversion' \in ConversionStates
      /\ conversion'.pc \in {"permit", "driver", "done"}
      /\ free' \subseteq Slot /\ preprocess' \in Int /\ Len(prepared) \in Nat
      /\ Slots(prepared) = Slots(Front(prepared)) \cup {f.slot} /\ f.slot \notin Slots(Front(prepared))
      /\ \/ /\ conversion'.pc = "driver" /\ Slots(conversion'.frame) = {f.slot}
            /\ free' = free \cup Slots(Front(prepared))
            /\ preprocess' = preprocess - (Len(prepared) - 1)
         \/ /\ conversion'.pc # "driver" /\ conversion'.frame = <<>>
            /\ free' = free \cup Slots(prepared) /\ preprocess' = preprocess - Len(prepared)
  <2>1. /\ prepared \in Seq(Frame) /\ free \subseteq Slot /\ preprocess \in Int
        /\ conversion \in ConversionStates /\ conversion.frame = <<>>
    BY <1>1, <1>2, ConversionShape DEF Queues, Values, Threads
  <2>2. /\ f \in Frame /\ Len(prepared) \in Nat
        /\ Slots(prepared) = Slots(Front(prepared)) \cup {f.slot}
        /\ f.slot \notin Slots(Front(prepared))
    BY <1>1, <1>2, <2>1, SlotsOfFront
  <2>3. Slots(prepared) \subseteq Slot
    BY <2>1, SlotsTyped
  <2> HIDE DEF f
  <2>4. CASE /\ conversion' = Holding("driver", f)
             /\ free' = free \cup Slots(Front(prepared))
             /\ preprocess' = preprocess - (Len(prepared) - 1)
    <3>1. /\ conversion'.pc = "driver" /\ Slots(conversion'.frame) = {f.slot}
          /\ conversion' \in ConversionStates
      BY <2>2, <2>4, HoldingStates, SlotsOfOne
    <3> QED
      BY <2>1, <2>2, <2>3, <2>4, <3>1
  <2>5. CASE /\ conversion' \in {conversion, Done} /\ free' = free \cup Slots(prepared)
             /\ preprocess' = preprocess - Len(prepared)
    <3>1. /\ conversion'.pc \in {"permit", "done"} /\ conversion'.frame = <<>>
          /\ conversion' \in ConversionStates
      BY <1>1, <2>1, <2>5, ThreadStates
    <3> QED
      BY <2>1, <2>2, <2>3, <2>5, <3>1
  <2> QED
    BY <1>1, <2>4, <2>5 DEF f
<1> HIDE DEF f
<1>4. Flags'
  BY <1>1, <1>2, <1>3 DEF Flags
<1>5. Values' /\ Queues' /\ Threads'
  BY <1>1, <1>2, <1>3, ThreadStates DEF Values, Queues, Threads
<1>6. SlotsSeparate' /\ OneEach(prepared)' /\ OneEach(submitted)'
  BY <1>1, <1>2, <1>3, NoSlots DEF SlotsSeparate, Separate, Apart
<1>7. Counts'
  BY <1>1, <1>2, <1>3, Lengths, HeldValue DEF Counts
<1>9. PermitOwned(permit, conversion.pc, converted)'
  BY <1>1, <1>2, <1>3 DEF PermitOwned
<1>8. Drained' /\ Reported /\ Progressed
  BY <1>1, <1>2, <1>3 DEF Drained, Reported, Progressed
<1> QED
  BY <1>1, <1>2, <1>4, <1>5, <1>6, <1>7, <1>8, <1>9, WorkDone

----------------------------------------------------------------------------
(* Capture, the pipeline around it, the sender and the viewers.            *)

\* A step that leaves what the stages share.
LEMMA RingKept ==
  ASSUME IInv, UNCHANGED <<ring, counters, poisoned>>, InSession' => InSession, Types', Control'
  PROVE  IInv'
<1>1. /\ UNCHANGED <<free, prepared, permit, conversion, converted, submission, submitted,
                     completion, preprocess, pending, poisoned>>
  BY DEF ring, counters
<1>2. Owned'
  BY <1>1 DEF IInv, Owned, SlotsSeparate
<1>3. CountersExact'
  BY <1>1 DEF IInv, CountersExact, PreprocessExact, PendingExact
<1>4. PermitConserved'
  BY <1>1 DEF IInv, PermitConserved
<1> QED
  BY <1>2, <1>3, <1>4 DEF IInv

\* A session begins to come down.
LEMMA RetireKeeps ==
  ASSUME IInv, phase \in {"looking", "acquiring"}, failure' \in {"none", failure},
         NEW causes \in SUBSET {"stopped", "rebuild", "device", "fatal", "stall"},
         Retire(causes)
  PROVE  IInv'
<1>1. /\ phase' = "retiring" /\ cause' \in causes /\ on' = FALSE
      /\ UNCHANGED <<running, watched, force, stalls, losses, latest, completed, progressed, busy,
                     poisoned, encoded, senderDone, fruitless, ring, counters>>
  BY DEF Retire, host, source, toSender
<1>2. /\ UNCHANGED <<free, prepared, permit, conversion, converted, submission, submitted,
                     completion, preprocess, pending>>
  BY <1>1 DEF ring, counters
<1>3. Types'
  <2>1. Flags'
    BY <1>1, <1>2 DEF IInv, Types, Flags
  <2>2. Values' /\ Queues' /\ Threads'
    BY <1>1, <1>2 DEF IInv, Types, Values, Queues, Threads
  <2> QED
    BY <2>1, <2>2 DEF Types
<1>4. Control'
  BY <1>1, <1>2 DEF IInv, Control, InSession, WorkersGone, Drained, WorkerStopIsExplained,
     CleanTeardown, Budget, GivesUpFruitless
<1> QED
  BY <1>1, <1>3, <1>4, RingKept DEF InSession

\* A step in which the session goes on, or there is none.
LEMMA GoesOn ==
  ASSUME IInv, Types',
         UNCHANGED <<ring, counters, poisoned, cause, stalls, losses, progressed, fruitless, on,
                     failure>>,
         phase' = phase \/ (phase \in {"looking", "acquiring"} /\ phase' \in {"looking", "acquiring"}),
         running' => running
  PROVE  IInv'
<1>1. /\ UNCHANGED <<conversion, submission, completion, submitted>>
  BY DEF ring
<1>2. InSession' <=> InSession
  BY DEF InSession
<1>3. WorkersGone' /\ Drained'
  BY <1>1, <1>2 DEF IInv, Control, WorkersGone, Drained
<1>4. WorkerStopIsExplained' /\ CleanTeardown' /\ Budget' /\ GivesUpFruitless'
  BY <1>1 DEF IInv, Control, WorkerStopIsExplained, CleanTeardown, Budget, GivesUpFruitless
<1> QED
  BY <1>2, <1>3, <1>4, RingKept DEF Control

LEMMA RetirementsKeep ==
  ASSUME IInv,
         \/ StopCapture \/ PeerGone \/ AcquireFailure \/ AcquireError \/ AcquireStopped
         \/ NoDesktopFrame \/ Watchdog
  PROVE  IInv'
<1> DEFINE Causes == {"stopped", "rebuild", "device", "fatal", "stall"}
<1>1. WorkerCause \in SUBSET Causes /\ {RecoveryCause} \in SUBSET Causes
  BY DEF WorkerCause, RecoveryCause
<1>2. \A causes \in SUBSET Causes :
        phase \in {"looking", "acquiring"} /\ failure' \in {"none", failure} /\ Retire(causes) => IInv'
  BY RetireKeeps
<1>3. CASE StopCapture
  BY <1>2, <1>3 DEF StopCapture
<1>4. CASE PeerGone
  BY <1>2, <1>4 DEF PeerGone
<1>5. CASE AcquireFailure
  BY <1>1, <1>2, <1>5 DEF AcquireFailure
<1>6. CASE AcquireError
  <2>1. PICK seen \in {"rebuild", "device", "fatal"} :
          Retire(IF failure = "none" THEN {seen}
                 ELSE IF seen = "device" THEN {"device"} ELSE WorkerCause)
    BY <1>6 DEF AcquireError
  <2>2. (IF failure = "none" THEN {seen} ELSE IF seen = "device" THEN {"device"} ELSE WorkerCause)
          \in SUBSET Causes
    BY <1>1
  <2>3. phase = "acquiring" /\ failure' = "none"
    BY <1>6 DEF AcquireError
  <2> QED
    BY <1>2, <2>1, <2>2, <2>3
<1>7. CASE AcquireStopped
  <2>1. (IF failure = "none" THEN {"fatal"} ELSE WorkerCause) \in SUBSET Causes
    BY <1>1
  <2>2. /\ phase = "acquiring" /\ failure' = "none"
        /\ Retire(IF failure = "none" THEN {"fatal"} ELSE WorkerCause)
    BY <1>7 DEF AcquireStopped
  <2> QED
    BY <1>2, <2>1, <2>2
<1>8. CASE NoDesktopFrame
  BY <1>2, <1>8 DEF NoDesktopFrame
<1>9. CASE Watchdog
  <2>1. (IF failure = "none" THEN {RecoveryCause} ELSE WorkerCause) \in SUBSET Causes
    BY <1>1
  <2>2. /\ phase = "looking" /\ failure' = "none"
        /\ Retire(IF failure = "none" THEN {RecoveryCause} ELSE WorkerCause)
    BY <1>9 DEF Watchdog
  <2> QED
    BY <1>2, <2>1, <2>2
<1> QED
  BY <1>3, <1>4, <1>5, <1>6, <1>7, <1>8, <1>9

\* The variables GoesOn does not speak of.
LEMMA TypesKept ==
  ASSUME Types, UNCHANGED <<ring, counters, poisoned, cause, stalls, losses, progressed, fruitless,
                            on, failure, latest, completed, busy>>,
         running' \in BOOLEAN, force' \in BOOLEAN, senderDone' \in BOOLEAN,
         watched' \in {"session", "other", "nobody"}, encoded' \in 0..EncodedCapacity,
         phase' \in {phase, "looking", "acquiring", "ended"}
  PROVE  Types'
<1>1. UNCHANGED <<free, prepared, permit, conversion, converted, submission, submitted,
                  completion, preprocess, pending>>
  BY DEF ring, counters
<1>2. Flags'
  BY <1>1 DEF Types, Flags
<1>3. Values' /\ Queues' /\ Threads'
  BY <1>1 DEF Types, Values, Queues, Threads
<1> QED
  BY <1>2, <1>3 DEF Types

LEMMA SteadyStepsKeep ==
  ASSUME IInv,
         \/ Look \/ AcquireNothing \/ StallWarning
         \/ SenderTake \/ SenderStop \/ ChangeViewer \/ Stop
  PROVE  IInv'
<1>1. Types /\ running \in BOOLEAN /\ force \in BOOLEAN /\ senderDone \in BOOLEAN
  BY DEF IInv, Types, Flags
<1>2. watched \in {"session", "other", "nobody"} /\ encoded \in 0..EncodedCapacity
  BY DEF IInv, Types, Values
<1>3. CASE Look \/ AcquireNothing
  <2>1. /\ phase \in {"looking", "acquiring"} /\ phase' \in {"looking", "acquiring"}
        /\ UNCHANGED <<host, cause, stalls, losses, ring, counters, source, poisoned, workers,
                       toSender, fruitless>>
    BY <1>3 DEF Look, AcquireNothing, MoveTo
  <2>2. UNCHANGED <<running, watched, force, latest, completed, progressed, busy, on, failure,
                    encoded, senderDone>>
    BY <2>1 DEF host, source, workers, toSender
  <2>3. Types'
    BY <1>1, <1>2, <2>1, <2>2, TypesKept
  <2> QED
    BY <2>1, <2>2, <2>3, GoesOn
<1>4. CASE StallWarning \/ SenderTake \/ SenderStop \/ ChangeViewer \/ Stop
  <2>1. UNCHANGED <<supervisor, ring, counters, source, poisoned, workers, fruitless>>
    BY <1>4 DEF StallWarning, SenderTake, SenderStop, ChangeViewer, Stop
  <2>2. UNCHANGED <<phase, cause, stalls, losses, latest, completed, progressed, busy, on, failure>>
    BY <2>1 DEF supervisor, source, workers
  <2>3. running' \in BOOLEAN /\ (running' => running) /\ force' \in BOOLEAN /\ senderDone' \in BOOLEAN
    <3>1. CASE StallWarning
      BY <1>1, <3>1 DEF StallWarning, toSender
    <3>2. CASE SenderTake
      BY <1>1, <3>2 DEF SenderTake
    <3>3. CASE SenderStop
      BY <1>1, <3>3 DEF SenderStop, host
    <3>4. CASE ChangeViewer
      BY <1>1, <3>4 DEF ChangeViewer, toSender
    <3>5. CASE Stop
      BY <1>1, <3>5 DEF Stop, toSender
    <3> QED
      BY <1>4, <3>1, <3>2, <3>3, <3>4, <3>5
  <2>4. watched' \in {"session", "other", "nobody"} /\ encoded' \in 0..EncodedCapacity
    <3>1. CASE StallWarning
      BY <1>2, <3>1 DEF StallWarning, toSender
    <3>2. CASE SenderTake
      BY <1>2, <3>2 DEF SenderTake
    <3>3. CASE SenderStop
      BY <1>2, <3>3 DEF SenderStop, host
    <3>4. CASE ChangeViewer
      BY <1>2, <3>4 DEF ChangeViewer, toSender
    <3>5. CASE Stop
      BY <1>2, <3>5 DEF Stop, toSender
    <3> QED
      BY <1>4, <3>1, <3>2, <3>3, <3>4, <3>5
  <2>5. Types'
    BY <1>1, <2>1, <2>2, <2>3, <2>4, TypesKept
  <2> QED
    BY <2>1, <2>2, <2>3, <2>5, GoesOn
<1> QED
  BY <1>3, <1>4

LEMMA EndWaitingKeeps ==
  ASSUME IInv, EndWaiting
  PROVE  IInv'
<1>1. /\ phase = "waiting" /\ running = FALSE /\ phase' = "ended"
      /\ UNCHANGED <<host, cause, stalls, losses, ring, counters, source, poisoned, workers,
                     toSender, fruitless>>
  BY DEF EndWaiting, MoveTo, IInv, Types, Flags
<1>2. UNCHANGED <<running, watched, force, latest, completed, progressed, busy, on, failure,
                  encoded, senderDone, conversion, submission, completion, submitted>>
  BY <1>1 DEF host, source, workers, toSender, ring
<1>3. /\ Types /\ running \in BOOLEAN /\ force \in BOOLEAN /\ senderDone \in BOOLEAN
      /\ watched \in {"session", "other", "nobody"} /\ encoded \in 0..EncodedCapacity
  BY DEF IInv, Types, Flags, Values
<1>4. Types'
  BY <1>1, <1>2, <1>3, TypesKept
<1>5. Control'
  BY <1>1, <1>2 DEF IInv, Control, InSession, WorkersGone, Drained, WorkerStopIsExplained,
     CleanTeardown, Budget, GivesUpFruitless
<1> QED
  BY <1>1, <1>4, <1>5, RingKept DEF InSession

LEMMA StartFailsKeeps ==
  ASSUME IInv, StartFails
  PROVE  IInv'
<1>1. /\ phase = "waiting" /\ phase' = "retired" /\ cause' \in {"rebuild", "device", "fatal"}
      /\ UNCHANGED <<host, stalls, losses, ring, counters, source, poisoned, workers, toSender,
                     fruitless>>
  BY DEF StartFails
<1>2. UNCHANGED <<running, watched, force, latest, completed, progressed, busy, on, failure, encoded,
                  senderDone, free, prepared, permit, conversion, converted, submission, submitted,
                  completion, preprocess, pending>>
  BY <1>1 DEF host, source, workers, toSender, ring, counters
<1>3. Flags'
  BY <1>1, <1>2 DEF IInv, Types, Flags
<1>4. Values' /\ Queues' /\ Threads'
  BY <1>1, <1>2 DEF IInv, Types, Values, Queues, Threads
<1>5. Control'
  BY <1>1, <1>2 DEF IInv, Control, InSession, WorkersGone, Drained, WorkerStopIsExplained,
     CleanTeardown, Budget, GivesUpFruitless
<1> QED
  BY <1>1, <1>3, <1>4, <1>5, RingKept DEF InSession, Types

LEMMA RetireDoneKeeps ==
  ASSUME IInv, RetireDone
  PROVE  IInv'
<1>1. /\ phase = "retiring" /\ phase' = "retired"
      /\ conversion.pc = "done" /\ submission.pc = "done" /\ completion.pc = "done"
      /\ UNCHANGED <<host, cause, stalls, losses, ring, counters, source, poisoned, workers, toSender,
                     fruitless>>
  BY DEF RetireDone, MoveTo
<1>2. UNCHANGED <<running, watched, force, latest, completed, progressed, busy, on, failure, encoded,
                  senderDone, free, prepared, permit, conversion, converted, submission, submitted,
                  completion, preprocess, pending>>
  BY <1>1 DEF host, source, workers, toSender, ring, counters
<1>3. Flags'
  BY <1>1, <1>2 DEF IInv, Types, Flags
<1>4. Values' /\ Queues' /\ Threads'
  BY <1>1, <1>2 DEF IInv, Types, Values, Queues, Threads
<1>5. Control'
  BY <1>1, <1>2 DEF IInv, Control, InSession, WorkersGone, Drained, WorkerStopIsExplained,
     CleanTeardown, Budget, GivesUpFruitless
<1> QED
  BY <1>1, <1>3, <1>4, <1>5, RingKept DEF InSession, Types

\* Outside a session nothing is said of what the stages share.
LEMMA SessionOver ==
  ASSUME Types', Control', ~InSession'
  PROVE  IInv'
BY DEF IInv, Owned, CountersExact, PreprocessExact, PendingExact, PermitConserved

LEMMA RetireTimeoutKeeps ==
  ASSUME IInv, RetireTimeout
  PROVE  IInv'
<1>1. /\ phase = "retiring" /\ phase' = "retired" /\ poisoned' = TRUE
      /\ conversion' = Done /\ submission' = Done /\ completion' = Done
      /\ UNCHANGED <<running, watched, force, cause, stalls, losses, free, prepared, permit, converted,
                     submitted, preprocess, pending, latest, completed, progressed, busy, on, failure,
                     encoded, senderDone, fruitless>>
  BY DEF RetireTimeout, host, counters, source, workers, toSender
<1>2. Done.pc = "done"
  BY ThreadStates
<1>3. Flags'
  BY <1>1 DEF IInv, Types, Flags
<1>4. Values' /\ Queues'
  BY <1>1 DEF IInv, Types, Values, Queues
<1>5. Threads'
  BY <1>1, ThreadStates DEF Threads
<1>6. Control'
  BY <1>1, <1>2 DEF IInv, Control, InSession, WorkersGone, Drained, WorkerStopIsExplained,
     CleanTeardown, Budget, GivesUpFruitless
<1> QED
  BY <1>1, <1>3, <1>4, <1>5, <1>6, SessionOver DEF InSession, Types

LEMMA StartSessionKeeps ==
  ASSUME IInv, StartSession
  PROVE  IInv'
<1>1. /\ phase = "waiting" /\ phase' = "looking" /\ watched' = "session" /\ on' = TRUE
      /\ conversion' = Idle /\ submission' = Idle /\ completion' = Idle
      /\ failure' = "none" /\ latest' = 0 /\ completed' = 0 /\ preprocess' = 0 /\ pending' = 0
      /\ progressed' = FALSE /\ busy' = FALSE /\ poisoned' = FALSE /\ permit' = TRUE
      /\ free' = Slot /\ prepared' = <<>> /\ converted' = <<>> /\ submitted' = <<>>
      /\ UNCHANGED <<running, force, cause, stalls, losses, encoded, senderDone, fruitless>>
  BY DEF StartSession, FreshRing, toSender
<1>2. /\ Idle.pc = "idle" /\ Idle.frame = <<>> /\ Idle \in ConversionStates
      /\ Idle \in SubmissionStates /\ Idle \in CompletionStates
  BY ThreadStates
<1>3. Flags'
  BY <1>1 DEF IInv, Types, Flags
<1>4. Values' /\ Queues'
  BY <1>1, NoSlots DEF IInv, Types, Values, Queues
<1>5. Threads'
  BY <1>1, <1>2 DEF Threads
<1>6. SlotsSeparate' /\ OneEach(prepared)' /\ OneEach(submitted)'
  BY <1>1, <1>2, NoSlots DEF SlotsSeparate, Separate, Apart
<1>7. Counts'
  BY <1>1, <1>2, NoSlots, HeldValue DEF Counts
<1>8. PermitOwned(permit, conversion.pc, converted)'
  BY <1>1, <1>2 DEF PermitOwned
<1>9. Control'
  <2>1. stalls <= fruitless /\ losses <= MaxLoss
    BY <1>1 DEF IInv, Control, Budget
  <2> QED
    BY <1>1, <1>2, <2>1 DEF IInv, Control, InSession, WorkersGone, Drained, WorkerStopIsExplained,
       CleanTeardown, Budget, GivesUpFruitless
<1> QED
  BY <1>3, <1>4, <1>5, <1>6, <1>7, <1>8, <1>9, CountsExact DEF IInv, Types, Owned

LEMMA RecoverKeeps ==
  ASSUME IInv, Recover
  PROVE  IInv'
<1>1. /\ phase = "retired" /\ on' = FALSE
      /\ conversion' = Done /\ submission' = Done /\ completion' = Done
      /\ failure' = "none" /\ latest' = 0 /\ completed' = 0 /\ preprocess' = 0 /\ pending' = 0
      /\ progressed' = FALSE /\ busy' = FALSE /\ poisoned' = FALSE /\ permit' = TRUE
      /\ free' = Slot /\ prepared' = <<>> /\ converted' = <<>> /\ submitted' = <<>>
      /\ UNCHANGED <<running, watched, encoded, senderDone>>
  BY DEF Recover, FreshRing, toSender
<1>2. /\ fruitless' = fruitless + (IF cause = "stall" THEN 1 ELSE 0)
      /\ cause' = IF phase' = "ended" THEN cause ELSE "none"
      /\ \/ /\ running = FALSE \/ cause = "stopped"
            /\ phase' = "ended" /\ force' = force /\ stalls' = stalls /\ losses' = losses
         \/ /\ running = TRUE /\ force' = TRUE
            /\ stalls' = Counted(stalls, "stall") /\ losses' = Counted(losses, "device")
            /\ phase' = IF cause = "fatal" \/ stalls' > MaxStall \/ losses' > MaxLoss
                        THEN "ended" ELSE "waiting"
  BY DEF Recover, IInv, Types, Flags
<1>3. /\ stalls \in Nat /\ losses \in Nat /\ fruitless \in Nat /\ force \in BOOLEAN
      /\ cause \in {"none", "stopped", "rebuild", "device", "fatal", "stall"}
      /\ (~progressed => stalls <= fruitless) /\ losses <= MaxLoss
  <2>1. force \in BOOLEAN
    BY DEF IInv, Types, Flags
  <2> QED
    BY <1>1, <2>1 DEF IInv, Types, Values, Control, Budget
<1>4. /\ Counted(stalls, "stall") \in Nat /\ Counted(losses, "device") \in Nat
      /\ Counted(stalls, "stall") <= fruitless'
      /\ cause # "device" => Counted(losses, "device") <= MaxLoss
  BY <1>2, <1>3 DEF Counted
<1>5. fruitless' \in Nat
  BY <1>2, <1>3
<1>6. /\ stalls' \in Nat /\ losses' \in Nat /\ force' \in BOOLEAN
      /\ cause' \in {"none", "stopped", "rebuild", "device", "fatal", "stall"}
      /\ phase' \in {"waiting", "ended"}
      /\ phase' = "waiting" => stalls' <= fruitless' /\ losses' <= MaxLoss
      /\ phase' = "ended" /\ running' /\ cause' = "stall" => fruitless' > MaxStall
  <2>1. CASE /\ running = FALSE \/ cause = "stopped"
             /\ phase' = "ended" /\ force' = force /\ stalls' = stalls /\ losses' = losses
    BY <1>1, <1>2, <1>3, <2>1
  <2>2. CASE /\ running = TRUE /\ force' = TRUE
             /\ stalls' = Counted(stalls, "stall") /\ losses' = Counted(losses, "device")
             /\ phase' = IF cause = "fatal" \/ stalls' > MaxStall \/ losses' > MaxLoss
                         THEN "ended" ELSE "waiting"
    BY <1>1, <1>2, <1>3, <1>4, <1>5, <2>2
  <2> QED
    BY <1>2, <2>1, <2>2
<1>7. Flags'
  BY <1>1, <1>6 DEF IInv, Types, Flags
<1>8. Values' /\ Queues'
  BY <1>1, <1>5, <1>6, NoSlots DEF IInv, Types, Values, Queues
<1>9. Threads'
  BY <1>1, ThreadStates DEF Threads
<1>10. Control'
  BY <1>1, <1>6, ThreadStates DEF Control, InSession, WorkersGone, Drained, WorkerStopIsExplained,
     CleanTeardown, Budget, GivesUpFruitless
<1> QED
  BY <1>6, <1>7, <1>8, <1>9, <1>10, SessionOver DEF InSession, Types

LEMMA AcquireFrameKeeps ==
  ASSUME IInv, AcquireFrame
  PROVE  IInv'
<1>1. /\ phase = "acquiring" /\ phase' = "looking" /\ latest < MaxGeneration /\ latest' = latest + 1
      /\ UNCHANGED <<running, watched, force, cause, stalls, losses, permit, conversion, converted,
                     submission, submitted, completion, pending, completed, progressed, busy,
                     poisoned, on, failure, encoded, senderDone, fruitless>>
  BY DEF AcquireFrame, host, workers, toSender
<1>2. \/ free' = free /\ prepared' = prepared /\ preprocess' = preprocess
      \/ /\ preprocess < MaxPreprocess
         /\ \E slot \in free :
              /\ free' = free \ {slot}
              /\ prepared' = Append(prepared, [slot |-> slot, gen |-> latest'])
              /\ preprocess' = preprocess + 1
  BY DEF AcquireFrame
<1>3. /\ Types /\ free \subseteq Slot /\ prepared \in Seq(Frame) /\ preprocess \in Int
      /\ latest \in 0..MaxGeneration
      /\ SlotsSeparate /\ OneEach(prepared) /\ OneEach(submitted)
  BY <1>1 DEF IInv, Types, Queues, Values, Owned, InSession
<1>4. Counts
  BY <1>1 DEF IInv, Counts, Held, CountersExact, PreprocessExact, PendingExact, InSession
<1>5. /\ free' \subseteq Slot /\ prepared' \in Seq(Frame) /\ preprocess' \in Int
      /\ SlotsSeparate' /\ OneEach(prepared)' /\ Counts'
  <2>1. CASE free' = free /\ prepared' = prepared /\ preprocess' = preprocess
    <3>1. SlotsSeparate' /\ OneEach(prepared)'
      BY <1>1, <1>3, <2>1 DEF SlotsSeparate
    <3>2. Counts'
      BY <1>1, <1>4, <2>1 DEF Counts
    <3> QED
      BY <1>3, <2>1, <3>1, <3>2
  <2>2. ASSUME preprocess < MaxPreprocess, NEW slot \in free, free' = free \ {slot},
               prepared' = Append(prepared, [slot |-> slot, gen |-> latest']),
               preprocess' = preprocess + 1
        PROVE  /\ free' \subseteq Slot /\ prepared' \in Seq(Frame) /\ preprocess' \in Int
               /\ SlotsSeparate' /\ OneEach(prepared)' /\ Counts'
    <3> DEFINE f == [slot |-> slot, gen |-> latest']
    <3>1. f \in Frame /\ f.slot = slot
      BY <1>1, <1>3 DEF Frame
    <3>2. prepared' = Append(prepared, f)
      BY <2>2
    <3> HIDE DEF f
    <3>3. slot \notin Slots(prepared)
      BY <1>3 DEF SlotsSeparate, Separate, Apart
    <3>4. /\ prepared' \in Seq(Frame) /\ Len(prepared') = Len(prepared) + 1
          /\ Slots(prepared') = Slots(prepared) \cup {slot} /\ OneEach(prepared')
      BY <1>3, <3>1, <3>2, <3>3, SlotsOfAppend
    <3>5. SlotsSeparate'
      BY <1>1, <1>3, <2>2, <3>4 DEF SlotsSeparate, Separate, Apart
    <3>6. Counts'
      <4>1. preprocess' = Len(prepared') + Held(conversion.pc)' + Len(converted)' + Held(submission.pc)'
        <5>1. /\ preprocess = Len(prepared) + Held(conversion.pc) + Len(converted) + Held(submission.pc)
              /\ Len(prepared) \in Nat /\ Len(converted) \in Nat
              /\ Held(conversion.pc) \in Nat /\ Held(submission.pc) \in Nat
          BY <1>3, <1>4, Lengths, HeldValue DEF Counts
        <5> QED
          BY <1>1, <2>2, <3>4, <5>1
      <4>3. (preprocess <= MaxPreprocess)'
        BY <1>3, <2>2
      <4>2. (~poisoned => pending = Len(submitted) + Held(completion.pc))'
        BY <1>1, <1>4 DEF Counts
      <4> QED
        BY <4>1, <4>2, <4>3 DEF Counts
    <3> QED
      BY <1>3, <2>2, <3>4, <3>5, <3>6
  <2> QED
    BY <1>2, <2>1, <2>2
<1>6. Flags' /\ Threads'
  BY <1>1 DEF IInv, Types, Flags, Threads
<1>7. Values' /\ Queues'
  BY <1>1, <1>5 DEF IInv, Types, Values, Queues
<1>8. OneEach(submitted)' /\ InSession'
  BY <1>1, <1>3 DEF InSession
<1>9. CountersExact'
  BY <1>5 DEF Counts, Held, CountersExact, PreprocessExact, PendingExact
<1>10. PermitConserved'
  BY <1>1 DEF IInv, PermitConserved, InSession
<1>11. Control'
  BY <1>1 DEF IInv, Control, InSession, WorkersGone, Drained, WorkerStopIsExplained,
     CleanTeardown, Budget, GivesUpFruitless
<1> QED
  BY <1>5, <1>6, <1>7, <1>8, <1>9, <1>10, <1>11 DEF IInv, Types, Owned

----------------------------------------------------------------------------
(* The theorems.                                                           *)

LEMMA InitIsIInv == Init => IInv
<1> SUFFICES ASSUME Init PROVE IInv
  OBVIOUS
<1>1. Flags
  BY DEF Init, Flags
<1>2. Values /\ Queues
  BY NoSlots DEF Init, Values, Queues
<1>3. Threads
  BY ThreadStates DEF Init, Threads
<1>4. Control
  BY ThreadStates DEF Init, Control, InSession, WorkersGone, Drained, WorkerStopIsExplained,
     CleanTeardown, Budget, GivesUpFruitless
<1>5. ~InSession
  BY DEF Init, InSession
<1> QED
  BY <1>1, <1>2, <1>3, <1>4, <1>5 DEF IInv, Types, Owned, CountersExact, PreprocessExact,
     PendingExact, PermitConserved

LEMMA StutterKeepsIInv == IInv /\ UNCHANGED vars => IInv'
<1> SUFFICES ASSUME IInv, UNCHANGED vars PROVE IInv'
  OBVIOUS
<1>1. /\ UNCHANGED <<running, watched, force, phase, cause, stalls, losses, latest, completed,
                     progressed, busy, on, failure, encoded, senderDone, fruitless, poisoned>>
      /\ UNCHANGED <<free, prepared, permit, conversion, converted, submission, submitted,
                     completion, preprocess, pending, ring, counters>>
  BY DEF vars, host, supervisor, source, workers, toSender, ring, counters
<1>2. Flags'
  BY <1>1 DEF IInv, Types, Flags
<1>3. Values' /\ Queues' /\ Threads'
  BY <1>1 DEF IInv, Types, Values, Queues, Threads
<1> QED
  BY <1>1, <1>2, <1>3, GoesOn DEF Types

LEMMA NextKeepsIInv == IInv /\ [Next]_vars => IInv'
<1> SUFFICES ASSUME IInv, [Next]_vars PROVE IInv'
  OBVIOUS
<1>1. CASE Supervisor
  BY <1>1, StartSessionKeeps, StartFailsKeeps, RecoverKeeps, EndWaitingKeeps, RetirementsKeep,
     SteadyStepsKeep, AcquireFrameKeeps, RetireDoneKeeps, RetireTimeoutKeeps DEF Supervisor
<1>2. CASE Conversion
  BY <1>2, ConversionPermitKeeps, ConversionStopKeeps, ConversionTakeKeeps,
     ConversionHandOverKeeps, ConversionFailsKeeps DEF Conversion
<1>3. CASE Submission
  BY <1>3, SubmissionStopKeeps, SubmissionTakeKeeps, SubmissionTakeFailsKeeps,
     SubmissionAcceptedKeeps, SubmissionBusyKeeps, SubmissionFailsKeeps DEF Submission
<1>4. CASE Completion
  BY <1>4, CompletionTakeKeeps, CompletionCommitKeeps, CompletionFailsKeeps,
     CompletionHandOverKeeps, CompletionEndKeeps DEF Completion
<1>5. CASE SenderTake \/ SenderStop \/ ChangeViewer \/ Stop
  BY <1>5, SteadyStepsKeep
<1>6. CASE UNCHANGED vars
  BY <1>6, StutterKeepsIInv
<1> QED
  BY <1>1, <1>2, <1>3, <1>4, <1>5, <1>6 DEF Next

LEMMA InvariantHolds == Spec => []IInv
BY InitIsIInv, NextKeepsIInv, PTL DEF Spec

LEMMA OneEachOfOne == \A f \in Frame : OneEach(<<f>>)
BY DEF OneEach

LEMMA SeparateIsExclusive ==
  ASSUME IInv
  PROVE  SlotsExclusive
<1> SUFFICES ASSUME InSession PROVE SlotsExclusive
  BY DEF SlotsExclusive
<1> DEFINE queue == <<prepared, conversion.frame, converted, submission.frame, submitted,
                      completion.frame>>
<1>1. /\ OneEach(prepared) /\ OneEach(submitted) /\ SlotsSeparate /\ Types
  BY DEF IInv, Owned
<1>2. OneEach(conversion.frame)
  BY <1>1, ConversionShape, OneEachOfOne, NoSlots
<1>3. OneEach(converted)
  BY <1>1, ConvertedShape, OneEachOfOne, NoSlots
<1>4. OneEach(submission.frame)
  BY <1>1, SubmissionShape, OneEachOfOne, NoSlots
<1>5. OneEach(completion.frame)
  BY <1>1, CompletionShape, OneEachOfOne, NoSlots
<1>6. /\ queue[1] = prepared /\ queue[2] = conversion.frame /\ queue[3] = converted
      /\ queue[4] = submission.frame /\ queue[5] = submitted /\ queue[6] = completion.frame
  OBVIOUS
<1> HIDE DEF queue
<1>7. ASSUME NEW m \in 1..6
      PROVE  OneEach(queue[m]) /\ Apart(Slots(queue[m]), free)
  <2>1. m = 1 \/ m = 2 \/ m = 3 \/ m = 4 \/ m = 5 \/ m = 6
    OBVIOUS
  <2>2. OneEach(queue[m])
    BY <1>1, <1>2, <1>3, <1>4, <1>5, <1>6, <2>1
  <2>3. Apart(Slots(queue[m]), free)
    BY <1>1, <1>6, <2>1 DEF SlotsSeparate, Separate, Apart
  <2> QED
    BY <2>2, <2>3
<1>8. ASSUME NEW m \in 1..6, NEW n \in (m + 1)..6
      PROVE  Apart(Slots(queue[m]), Slots(queue[n]))
  <2>1. CASE m = 1
    <3>1. n \in {2, 3, 4, 5, 6}
      BY <2>1
    <3> QED
      BY <1>1, <1>6, <2>1, <3>1 DEF SlotsSeparate, Separate, Apart
  <2>2. CASE m = 2
    <3>1. n \in {3, 4, 5, 6}
      BY <2>2
    <3> QED
      BY <1>1, <1>6, <2>2, <3>1 DEF SlotsSeparate, Separate, Apart
  <2>3. CASE m = 3
    <3>1. n \in {4, 5, 6}
      BY <2>3
    <3> QED
      BY <1>1, <1>6, <2>3, <3>1 DEF SlotsSeparate, Separate, Apart
  <2>4. CASE m = 4
    <3>1. n \in {5, 6}
      BY <2>4
    <3> QED
      BY <1>1, <1>6, <2>4, <3>1 DEF SlotsSeparate, Separate, Apart
  <2>5. CASE m = 5
    <3>1. n = 6
      BY <2>5
    <3> QED
      BY <1>1, <1>6, <2>5, <3>1 DEF SlotsSeparate, Separate, Apart
  <2>6. m # 6
    OBVIOUS
  <2> QED
    BY <2>1, <2>2, <2>3, <2>4, <2>5, <2>6
<1> QED
  BY <1>7, <1>8 DEF SlotsExclusive, queue

\* The variables keep their types: a stage holds one frame in the driver and
\* none elsewhere, and the converted frame is alone in its channel.
THEOREM SessionTypes == Spec => []TypeOK
<1>1. IInv => TypeOK
  BY DEF IInv, Types, Flags, Values, Queues, Threads, ConversionStates, SubmissionStates,
     CompletionStates, TypeOK
<1> QED
  BY <1>1, InvariantHolds, PTL

\* No slot is with two stages or free while a stage has it, both counts are
\* exact and within their bound, and there is one permit: through failures,
\* stale frames, retirements and detached workers, for any ring.
THEOREM ResourcesStayExact == Spec => []ResourcesExact
<1>1. IInv => ResourcesExact
  BY SeparateIsExclusive DEF IInv, ResourcesExact
<1> QED
  BY <1>1, InvariantHolds, PTL

\* Capture finds the failure of the worker that stopped the others, whichever
\* worker it was, so a failure is never taken for a fatal error.
THEOREM StopsAreExplained == Spec => []WorkerStopIsExplained
<1>1. IInv => WorkerStopIsExplained
  BY DEF IInv, Control
<1> QED
  BY <1>1, InvariantHolds, PTL

\* An encoder that is destroyed unpoisoned has nothing left with the driver.
THEOREM TeardownIsClean == Spec => []CleanTeardown
<1>1. IInv => CleanTeardown
  BY DEF IInv, Control
<1> QED
  BY <1>1, InvariantHolds, PTL

\* The pipeline ends for a stalled encoder only when more than MaxStall
\* sessions in a row stalled without completing a frame.
THEOREM GivesUpOnStallsOnly == Spec => []GivesUpFruitless
<1>1. IInv => GivesUpFruitless
  BY DEF IInv, Control
<1> QED
  BY <1>1, InvariantHolds, PTL

=============================================================================
