------------------------- MODULE EventStream_proofs -------------------------
(* Proofs about EventStream, for any scenario, any size of the token buffer *)
(* and any length the stream is trimmed to: types, the numbers of the log,  *)
(* tokens before the frames that follow them, and the order of the console. *)
EXTENDS EventStream, SequenceTheorems, TLAPS

USE DEF emitVars, sandboxVars

-----------------------------------------------------------------------------
(* Types *)

LEMMA EmitterOfType == \A t \in Tasks : EmitterOf(t) \in Emitters
BY DEF EmitterOf, Tasks, Emitters

LEMMA FrameType ==
    ASSUME NEW kind \in FrameKinds, NEW mark \in Nat, NEW n \in Nat
    PROVE  Frame(kind, mark, n) \in Frames
BY DEF Frame, Frames

LEMMA EntryIsTyped ==
    ASSUME NEW f \in Frames, NEW number \in Nat, NEW e \in Emitters
    PROVE  Entry(f, number, e) \in EntryType
BY DEF Frames, Entry, EntryType

\* What joins a queue, and where.
LEMMA AskType ==
    ASSUME LogTypeOK, NEW t \in Tasks, NEW f \in Frames, Ask(t, f)
    PROVE  /\ queue' \in [Emitters -> Seq(Publishes)]
           /\ \A e \in Emitters :
                queue'[e] = IF e = EmitterOf(t)
                            THEN Append(queue[e], [task |-> t, frame |-> f])
                            ELSE queue[e]
           /\ \A e \in Emitters : queue'[e] = <<>> => queue[e] = <<>>
<1>1. [task |-> t, frame |-> f] \in Publishes
  BY DEF Publishes
<1>2. /\ EmitterOf(t) \in Emitters
      /\ queue \in [Emitters -> Seq(Publishes)]
  BY EmitterOfType DEF LogTypeOK, Publishes
<1>3. Append(queue[EmitterOf(t)], [task |-> t, frame |-> f]) \in Seq(Publishes)
  BY <1>1, <1>2
<1>4. queue' = [queue EXCEPT ![EmitterOf(t)] =
                   Append(queue[EmitterOf(t)], [task |-> t, frame |-> f])]
  BY DEF Ask
<1>5. Append(queue[EmitterOf(t)], [task |-> t, frame |-> f]) # <<>>
  BY <1>1, <1>2, AppendProperties
<1> QED
  BY <1>2, <1>3, <1>4, <1>5

LEMMA TokenFrameType == LogTypeOK => TokenFrame \in Frames
<1> SUFFICES ASSUME LogTypeOK
             PROVE  TokenFrame \in Frames
  OBVIOUS
<1>1. spoken - buffer + 1 \in Nat
  BY DEF LogTypeOK
<1> QED
  BY <1>1, FrameType DEF TokenFrame, FrameKinds

\* emit() joins the queue, itself or with the flush it waits for.
LEMMA EmitType ==
    ASSUME LogTypeOK, NEW t \in Tasks, NEW f \in Frames, Emit(t, f)
    PROVE  /\ queue' \in [Emitters -> Seq(Publishes)]
           /\ \A e \in Emitters : queue'[e] = <<>> => queue[e] = <<>>
           /\ buffer' \in {0, buffer}
           /\ call' \in [Tasks -> {"idle", "sleep", "flush", "emit", "publish"}]
           /\ want' \in [Tasks -> Frames]
<1>1. CASE buffer > 0 /\ EmitterOf(t) = "worker"
  BY <1>1, AskType, TokenFrameType DEF Emit, LogTypeOK
<1>2. CASE ~(buffer > 0 /\ EmitterOf(t) = "worker")
  BY <1>2, AskType DEF Emit, LogTypeOK
<1> QED
  BY <1>1, <1>2

LEMMA SpendType ==
    ASSUME LogTypeOK, NEW kind \in Kinds, Spend(kind)
    PROVE  left' \in [Kinds -> Nat]
BY DEF LogTypeOK, Spend

LEMMA InitType == LogInit => LogTypeOK
<1> SUFFICES ASSUME LogInit
             PROVE  LogTypeOK
  OBVIOUS
<1>1. NoFrame \in Frames
  BY FrameType DEF NoFrame, FrameKinds
<1>2. left \in [Kinds -> Nat]
  BY ScenariosAssumption DEF LogInit
<1>3. /\ queue \in [Emitters -> Seq(Publishes)]
      /\ held \in [Emitters -> Nat] /\ want \in [Tasks -> Frames]
      /\ call \in [Tasks -> {"idle", "sleep", "flush", "emit", "publish"}]
  BY <1>1 DEF LogInit
<1>4. /\ log \in Seq(EntryType) /\ \A i \in DOMAIN log : log[i].seq \in 1..seq
      /\ trimmed \in 0..Len(log)
      /\ scheduled \in Seq(Frames)
  BY DEF LogInit
<1>5. \A e \in Emitters : held[e] <= seq /\ (queue[e] = <<>> => held[e] = 0)
  BY DEF LogInit
<1> QED
  BY <1>2, <1>3, <1>4, <1>5 DEF LogInit, LogTypeOK, Publishes

\* The head of a queue leaves it.
LEMMA ReturnedType ==
    ASSUME LogTypeOK, NEW e \in Emitters, queue[e] # <<>>, Returned(e)
    PROVE  /\ queue' \in [Emitters -> Seq(Publishes)]
           /\ queue' = [queue EXCEPT ![e] = Tail(queue[e])]
           /\ held' = [held EXCEPT ![e] = 0]
           /\ call' \in [Tasks -> {"idle", "sleep", "flush", "emit", "publish"}]
           /\ Head(queue[e]) \in Publishes
<1>1. queue \in [Emitters -> Seq(Publishes)] /\ queue[e] \in Seq(Publishes)
  BY DEF LogTypeOK, Publishes
<1>2. Head(queue[e]) \in Publishes /\ Tail(queue[e]) \in Seq(Publishes)
  BY <1>1, HeadTailProperties
<1>3. Head(queue[e]).task \in Tasks
  BY <1>2 DEF Publishes
<1>4. call' \in [Tasks -> {"idle", "sleep", "flush", "emit", "publish"}]
  BY <1>3 DEF Returned, LogTypeOK
<1> QED
  BY <1>1, <1>2, <1>4 DEF Returned

LEMMA MayTrimType ==
    ASSUME NEW S, NEW entries \in Seq(S), trimmed \in 0..Len(entries), MayTrim(entries)
    PROVE  trimmed' \in trimmed..Len(entries)
BY MaxLenAssumption DEF MayTrim

\* A publish out of the middle of the queue.
LEMMA WithdrawnType ==
    ASSUME LogTypeOK, NEW t \in Tasks, Withdrawn(t)
    PROVE  /\ queue' \in [Emitters -> Seq(Publishes)]
           /\ held' \in [Emitters -> Nat]
           /\ \A e \in Emitters : held'[e] \in {0, held[e]}
           /\ \A e \in Emitters : queue'[e] = <<>> => held'[e] = 0
           /\ \A e \in Emitters : e # "worker" =>
                queue'[e] = queue[e] /\ held'[e] = held[e]
           /\ \/ queue' = queue /\ held' = held
              \/ \E i \in 1..Len(queue["worker"]) :
                   /\ Len(queue'["worker"]) = Len(queue["worker"]) - 1
                   /\ \A k \in 1..Len(queue'["worker"]) :
                        queue'["worker"][k] =
                            IF k < i THEN queue["worker"][k] ELSE queue["worker"][k + 1]
                   /\ held'["worker"] = IF i = 1 THEN 0 ELSE held["worker"]
<1> DEFINE q == queue["worker"]
<1>1. /\ queue \in [Emitters -> Seq(Publishes)] /\ q \in Seq(Publishes)
      /\ held \in [Emitters -> Nat]
      /\ \A e \in Emitters : queue[e] = <<>> => held[e] = 0
      /\ "worker" \in Emitters
  BY DEF LogTypeOK, Publishes, Emitters
<1>2. CASE UNCHANGED <<queue, held>>
  BY <1>1, <1>2
<1>3. ASSUME NEW i \in DOMAIN q,
             queue' = [queue EXCEPT !["worker"] = SubSeq(@, 1, i - 1)
                                                 \o SubSeq(@, i + 1, Len(@))],
             held' = [held EXCEPT !["worker"] = IF i = 1 THEN 0 ELSE @]
      PROVE  /\ queue' \in [Emitters -> Seq(Publishes)]
             /\ held' \in [Emitters -> Nat]
             /\ held'["worker"] = IF i = 1 THEN 0 ELSE held["worker"]
             /\ \A e \in Emitters : e # "worker" =>
                  queue'[e] = queue[e] /\ held'[e] = held[e]
             /\ Len(queue'["worker"]) = Len(q) - 1
             /\ \A k \in 1..Len(queue'["worker"]) :
                  queue'["worker"][k] = IF k < i THEN q[k] ELSE q[k + 1]
  <2> DEFINE a == SubSeq(q, 1, i - 1)
             b == SubSeq(q, i + 1, Len(q))
  <2>1. i \in 1..Len(q) /\ Len(q) \in Nat /\ \A k \in 1..Len(q) : q[k] \in Publishes
    BY <1>1
  <2>2. /\ a \in Seq(Publishes) /\ Len(a) = i - 1
        /\ \A k \in 1..(i - 1) : a[k] = q[k]
    <3>1. /\ a \in Seq(Publishes)
          /\ Len(a) = IF 1 <= i - 1 THEN (i - 1) - 1 + 1 ELSE 0
          /\ \A k \in 1..((i - 1) - 1 + 1) : a[k] = q[1 + k - 1]
      BY <2>1, SubSeqProperties
    <3> HIDE DEF a
    <3> QED
      BY <2>1, <3>1
  <2>3. /\ b \in Seq(Publishes) /\ Len(b) = Len(q) - i
        /\ \A k \in 1..(Len(q) - i) : b[k] = q[i + k]
    <3>1. /\ b \in Seq(Publishes)
          /\ Len(b) = IF i + 1 <= Len(q) THEN Len(q) - (i + 1) + 1 ELSE 0
          /\ \A k \in 1..(Len(q) - (i + 1) + 1) : b[k] = q[(i + 1) + k - 1]
      BY <2>1, SubSeqProperties
    <3> HIDE DEF b, q
    <3>2. Len(b) = Len(q) - i
      BY <2>1, <3>1
    <3>3. ASSUME NEW k \in 1..(Len(q) - i)
          PROVE  b[k] = q[i + k]
      <4>1. k \in 1..(Len(q) - (i + 1) + 1) /\ (i + 1) + k - 1 = i + k
        BY <2>1
      <4> QED
        BY <3>1, <4>1
    <3> QED
      BY <3>1, <3>2, <3>3
  <2>4. /\ a \o b \in Seq(Publishes) /\ Len(a \o b) = Len(q) - 1
        /\ \A k \in 1..(Len(q) - 1) : (a \o b)[k] = IF k < i THEN q[k] ELSE q[k + 1]
    <3>1. /\ a \o b \in Seq(Publishes) /\ Len(a \o b) = Len(a) + Len(b)
          /\ \A k \in 1..(Len(a) + Len(b)) :
               (a \o b)[k] = IF k <= Len(a) THEN a[k] ELSE b[k - Len(a)]
      BY <2>2, <2>3, ConcatProperties
    <3> HIDE DEF a, b, q
    <3>2. Len(a \o b) = Len(q) - 1
      BY <2>1, <2>2, <2>3, <3>1
    <3>3. ASSUME NEW k \in 1..(Len(q) - 1)
          PROVE  (a \o b)[k] = IF k < i THEN q[k] ELSE q[k + 1]
      <4>1. CASE k < i
        BY <2>1, <2>2, <2>3, <3>1, <4>1
      <4>2. CASE ~(k < i)
        <5>1. /\ k - Len(a) \in 1..(Len(q) - i) /\ i + (k - Len(a)) = k + 1
              /\ k \in 1..(Len(a) + Len(b)) /\ ~(k <= Len(a))
          BY <2>1, <2>2, <2>3, <4>2
        <5>2. (a \o b)[k] = b[k - Len(a)] /\ b[k - Len(a)] = q[i + (k - Len(a))]
          BY <2>3, <3>1, <5>1
        <5> QED
          BY <4>2, <5>1, <5>2
      <4> QED
        BY <4>1, <4>2
    <3> QED
      BY <3>1, <3>2, <3>3
  <2>5. queue' = [queue EXCEPT !["worker"] = a \o b]
    BY <1>3
  <2>6. queue'["worker"] = a \o b
    BY <1>1, <2>5
  <2> HIDE DEF a, b
  <2>7. queue' \in [Emitters -> Seq(Publishes)]
    BY <1>1, <2>4, <2>5
  <2>8. /\ held' \in [Emitters -> Nat]
        /\ held'["worker"] = IF i = 1 THEN 0 ELSE held["worker"]
        /\ \A e \in Emitters : e # "worker" =>
             queue'[e] = queue[e] /\ held'[e] = held[e]
    BY <1>1, <1>3, <2>5
  <2> QED
    BY <2>1, <2>4, <2>6, <2>7, <2>8
<1>4. CASE \E i \in DOMAIN q :
             /\ queue' = [queue EXCEPT !["worker"] = SubSeq(@, 1, i - 1)
                                                 \o SubSeq(@, i + 1, Len(@))]
             /\ held' = [held EXCEPT !["worker"] = IF i = 1 THEN 0 ELSE @]
  <2>1. PICK i \in DOMAIN q :
             /\ queue' = [queue EXCEPT !["worker"] = SubSeq(@, 1, i - 1)
                                                 \o SubSeq(@, i + 1, Len(@))]
             /\ held' = [held EXCEPT !["worker"] = IF i = 1 THEN 0 ELSE @]
    BY <1>4
  <2>2. i \in 1..Len(q) /\ Len(q) \in Nat
    BY <1>1
  <2>3. queue'["worker"] = <<>> => i = 1
    BY <1>3, <2>1, <2>2
  <2> QED
    BY <1>1, <1>3, <2>1, <2>2, <2>3
<1> QED
  BY <1>2, <1>4 DEF Withdrawn

\* The emitters' steps.
LEMMA PublishTypeStep ==
    ASSUME LogTypeOK, NEW e \in Emitters,
           Allocate(e) \/ Publish(e) \/ PublishFails(e)
    PROVE  LogTypeOK'
<1> USE DEF LogTypeOK
<1>1. CASE Allocate(e)
  <2>1. /\ seq' \in Nat /\ \A i \in DOMAIN log' : log'[i].seq \in 1..seq'
        /\ held' \in [Emitters -> Nat]
        /\ \A d \in Emitters : held'[d] <= seq' /\ (queue'[d] = <<>> => held'[d] = 0)
    BY <1>1 DEF Allocate
  <2> QED
    BY <1>1, <2>1 DEF Allocate
<1>2. CASE Publish(e)
  <2> DEFINE entry == Entry(Head(queue[e]).frame, held[e], e)
  <2>1. queue[e] # <<>> /\ Returned(e)
    BY <1>2 DEF Publish
  <2>2. /\ queue' \in [Emitters -> Seq(Publishes)]
        /\ queue' = [queue EXCEPT ![e] = Tail(queue[e])]
        /\ held' = [held EXCEPT ![e] = 0]
        /\ call' \in [Tasks -> {"idle", "sleep", "flush", "emit", "publish"}]
        /\ Head(queue[e]) \in Publishes
    BY <2>1, ReturnedType
  <2>3. entry \in EntryType /\ entry.seq = held[e] /\ held[e] \in 1..seq
    BY <1>2, <2>2, EntryIsTyped DEF Publishes, Entry, Publish
  <2>4. log' = Append(log, entry)
    BY <1>2 DEF Publish
  <2> HIDE DEF entry
  <2>5. /\ log' \in Seq(EntryType) /\ Len(log') = Len(log) + 1
        /\ \A i \in 1..Len(log) : log'[i] = log[i]
        /\ log'[Len(log) + 1] = entry
    BY <2>3, <2>4, AppendProperties
  <2>6. trimmed' \in 0..Len(log')
    BY <1>2, <2>5, MaxLenAssumption DEF Publish, MayTrim
  <2>7. seq' = seq /\ \A i \in DOMAIN log' : log'[i].seq \in 1..seq'
    BY <1>2, <2>3, <2>5 DEF Publish
  <2>8. \A d \in Emitters : held'[d] <= seq' /\ (queue'[d] = <<>> => held'[d] = 0)
    BY <2>2, <2>7
  <2> QED
    BY <1>2, <2>2, <2>5, <2>6, <2>7, <2>8 DEF Publish, Publishes
<1>3. CASE PublishFails(e)
  <2>1. queue[e] # <<>> /\ Returned(e) /\ left' \in [Kinds -> Nat]
    BY <1>3, SpendType DEF PublishFails, Kinds
  <2>2. /\ queue' \in [Emitters -> Seq(Publishes)]
        /\ queue' = [queue EXCEPT ![e] = Tail(queue[e])]
        /\ held' = [held EXCEPT ![e] = 0]
        /\ call' \in [Tasks -> {"idle", "sleep", "flush", "emit", "publish"}]
    BY <2>1, ReturnedType
  <2>3. \A d \in Emitters : held'[d] <= seq' /\ (queue'[d] = <<>> => held'[d] = 0)
    BY <1>3, <2>2 DEF PublishFails
  <2> QED
    BY <1>3, <2>1, <2>2, <2>3 DEF PublishFails, Publishes
<1> QED
  BY <1>1, <1>2, <1>3

\* A step that only emits.
LEMMA EmitTypeStep ==
    ASSUME LogTypeOK, NEW t \in Tasks, NEW f \in Frames, Emit(t, f),
           UNCHANGED <<seq, log, trimmed, held>>,
           spoken' = spoken,
           job' \in {"node", "sandbox", "cancelled", "ended", "closed"},
           pump' \in {"off", "on", "late"}, printed' = printed,
           scheduled' \in Seq(Frames), overran' \in BOOLEAN,
           left' \in [Kinds -> Nat]
    PROVE  LogTypeOK'
<1>1. /\ queue' \in [Emitters -> Seq(Publishes)]
      /\ \A e \in Emitters : queue'[e] = <<>> => queue[e] = <<>>
      /\ buffer' \in {0, buffer}
      /\ call' \in [Tasks -> {"idle", "sleep", "flush", "emit", "publish"}]
      /\ want' \in [Tasks -> Frames]
  BY EmitType
<1>2. buffer' \in 0..spoken'
  BY <1>1 DEF LogTypeOK
<1> QED
  BY <1>1, <1>2 DEF LogTypeOK

LEMMA MarkedType ==
    ASSUME LogTypeOK, NEW kind \in FrameKinds
    PROVE  /\ Marked(kind) \in Frames
           /\ Frame("exit", spoken, printed) \in Frames
           /\ Frame("line", 0, printed + 1) \in Frames
           /\ Frame("tail", 0, 0) \in Frames /\ NoFrame \in Frames
           /\ Frame(kind, 0, 0) \in Frames
<1>1. /\ {"exit", "line", "tail", "frame"} \subseteq FrameKinds
      /\ spoken \in Nat /\ printed \in Nat /\ printed + 1 \in Nat /\ 0 \in Nat
  BY DEF LogTypeOK, FrameKinds
<1> QED
  BY <1>1, FrameType DEF Marked, NoFrame

\* The steps of the tasks that emit.
LEMMA TaskTypeStep ==
    ASSUME LogTypeOK,
           \/ EmitFrame \/ EmitEnd \/ AnnounceLaunch \/ LineStarts \/ AnnounceExit
           \/ EmitOutside
    PROVE  LogTypeOK'
<1> USE DEF Tasks, FrameKinds
<1>1. CASE EmitFrame
  <2>1. Emit("node", Marked("frame")) /\ Marked("frame") \in Frames
    BY <1>1, MarkedType DEF EmitFrame
  <2>2. left' \in [Kinds -> Nat]
    BY <1>1, SpendType DEF EmitFrame, Kinds
  <2> QED
    BY <1>1, <2>1, <2>2, EmitTypeStep DEF EmitFrame, LogTypeOK
<1>2. CASE EmitEnd
  <2>1. Emit("node", Marked("end")) /\ Marked("end") \in Frames
    BY <1>2, MarkedType DEF EmitEnd
  <2> QED
    BY <1>2, <2>1, EmitTypeStep DEF EmitEnd, LogTypeOK
<1>3. CASE AnnounceLaunch
  <2>1. Emit("node", Marked("start")) /\ Marked("start") \in Frames
    BY <1>3, MarkedType DEF AnnounceLaunch
  <2>2. left' \in [Kinds -> Nat]
    BY <1>3, SpendType DEF AnnounceLaunch, Kinds
  <2> QED
    BY <1>3, <2>1, <2>2, EmitTypeStep DEF AnnounceLaunch, LogTypeOK
<1>4. CASE LineStarts
  <2>1. scheduled \in Seq(Frames) /\ scheduled # <<>> /\ spoken \in Nat
    BY <1>4 DEF LineStarts, LogTypeOK
  <2>2. Head(scheduled) \in Frames /\ Tail(scheduled) \in Seq(Frames)
    BY <2>1, HeadTailProperties
  <2>3. /\ Emit("line", [Head(scheduled) EXCEPT !.mark = spoken])
        /\ [Head(scheduled) EXCEPT !.mark = spoken] \in Frames
    BY <1>4, <2>1, <2>2 DEF LineStarts, Frames
  <2> QED
    BY <1>4, <2>2, <2>3, EmitTypeStep DEF LineStarts, LogTypeOK
<1>5. CASE AnnounceExit
  <2>1. Emit("node", Frame("exit", spoken, printed)) /\ Frame("exit", spoken, printed) \in Frames
    BY <1>5, MarkedType DEF AnnounceExit
  <2>2. PICK rest \in PartialLine : scheduled' = scheduled \o rest
    BY <1>5 DEF AnnounceExit
  <2>3. rest \in Seq(Frames)
    <3>1. Frame("tail", 0, 0) \in Frames
      BY FrameType DEF FrameKinds
    <3>2. <<>> \in Seq(Frames)
      OBVIOUS
    <3>3. <<Frame("tail", 0, 0)>> \in Seq(Frames)
      BY <3>1
    <3> QED
      BY <2>2, <3>2, <3>3, Zenon DEF PartialLine
  <2>4. scheduled' \in Seq(Frames)
    BY <2>2, <2>3, ConcatProperties DEF LogTypeOK
  <2>5. left' \in [Kinds -> Nat]
    BY <1>5, SpendType DEF AnnounceExit, Kinds, LogTypeOK
  <2> QED
    BY <1>5, <2>1, <2>4, <2>5, EmitTypeStep DEF AnnounceExit, LogTypeOK
<1>6. CASE EmitOutside
  <2>1. PICK kind \in {"notice", "end"} : Emit("outside", Frame(kind, 0, 0))
    BY <1>6 DEF EmitOutside
  <2>2. Frame(kind, 0, 0) \in Frames
    BY <2>1, MarkedType
  <2>3. left' \in [Kinds -> Nat]
    BY <1>6, SpendType DEF EmitOutside, Kinds
  <2> QED
    BY <1>6, <2>1, <2>2, <2>3, EmitTypeStep DEF EmitOutside, LogTypeOK
<1> QED
  BY <1>1, <1>2, <1>3, <1>4, <1>5, <1>6

\* The token buffer, its timer, and the frames that waited for a flush.
LEMMA BufferTypeStep ==
    ASSUME LogTypeOK,
           \/ EmitToken \/ TimerFires \/ \E t \in Tasks : EmitFlushed(t)
    PROVE  LogTypeOK'
<1> USE DEF Tasks
<1>1. CASE EmitToken
  <2>1. spoken \in Nat /\ buffer \in 0..spoken /\ spoken - buffer + 1 \in Nat
    BY DEF LogTypeOK
  <2>2. left' \in [Kinds -> Nat]
    BY <1>1, SpendType DEF EmitToken, Kinds
  <2>3. CASE buffer + 1 >= Coalesce
    <3>1. Frame("token", spoken - buffer + 1, 0) \in Frames
      BY <2>1, FrameType DEF FrameKinds
    <3>2. /\ queue' \in [Emitters -> Seq(Publishes)]
          /\ \A e \in Emitters : queue'[e] = <<>> => queue[e] = <<>>
      BY <1>1, <2>3, <3>1, AskType DEF EmitToken
    <3> QED
      BY <1>1, <2>1, <2>2, <2>3, <3>2 DEF EmitToken, LogTypeOK
  <2>4. CASE ~(buffer + 1 >= Coalesce)
    <3>1. buffer' \in 0..spoken' /\ spoken' \in Nat
      BY <1>1, <2>1, <2>4 DEF EmitToken
    <3> QED
      BY <1>1, <2>2, <2>4, <3>1 DEF EmitToken, LogTypeOK
  <2> QED
    BY <2>3, <2>4
<1>2. CASE TimerFires
  <2>1. CASE buffer > 0
    <3>1. /\ queue' \in [Emitters -> Seq(Publishes)]
          /\ \A e \in Emitters : queue'[e] = <<>> => queue[e] = <<>>
      BY <1>2, <2>1, TokenFrameType, AskType DEF TimerFires
    <3> QED
      BY <1>2, <2>1, <3>1 DEF TimerFires, LogTypeOK
  <2>2. CASE ~(buffer > 0)
    BY <1>2, <2>2 DEF TimerFires, LogTypeOK
  <2> QED
    BY <2>1, <2>2
<1>3. ASSUME NEW t \in Tasks, EmitFlushed(t)
      PROVE  LogTypeOK'
  <2>1. /\ queue' \in [Emitters -> Seq(Publishes)]
        /\ \A e \in Emitters : queue'[e] = <<>> => queue[e] = <<>>
    BY <1>3, AskType DEF EmitFlushed, LogTypeOK
  <2>2. NoFrame \in Frames
    BY MarkedType DEF FrameKinds
  <2> QED
    BY <1>3, <2>1, <2>2 DEF EmitFlushed, LogTypeOK
<1> QED
  BY <1>1, <1>2, <1>3

\* The log thread, the cancellation, the end of the job, and the cron job.
LEMMA OtherTypeStep ==
    ASSUME LogTypeOK,
           HandOver \/ PumpEnds \/ Cancel \/ Close \/ Trim \/ UNCHANGED logVars
    PROVE  LogTypeOK'
<1> USE DEF Tasks
<1>1. CASE HandOver
  <2>1. /\ Frame("line", 0, printed + 1) \in Frames
        /\ scheduled' = Append(scheduled, Frame("line", 0, printed + 1))
        /\ scheduled \in Seq(Frames)
    BY <1>1, MarkedType DEF HandOver, FrameKinds, LogTypeOK
  <2>2. left' \in [Kinds -> Nat]
    BY <1>1, SpendType DEF HandOver, Kinds
  <2>3. scheduled' \in Seq(Frames)
    BY <2>1, AppendProperties
  <2> QED
    BY <1>1, <2>2, <2>3 DEF HandOver, LogTypeOK
<1>2. CASE PumpEnds
  BY <1>2 DEF PumpEnds, LogTypeOK
<1>3. CASE Cancel
  <2>1. /\ queue' \in [Emitters -> Seq(Publishes)]
        /\ held' \in [Emitters -> Nat]
        /\ \A e \in Emitters : held'[e] \in {0, held[e]}
        /\ \A e \in Emitters : queue'[e] = <<>> => held'[e] = 0
    BY <1>3, WithdrawnType DEF Cancel
  <2>2. left' \in [Kinds -> Nat] /\ NoFrame \in Frames
    BY <1>3, SpendType, MarkedType DEF Cancel, Kinds, FrameKinds
  <2>3. \A e \in Emitters : held'[e] <= seq'
    <3>1. seq' = seq /\ seq \in Nat /\ \A e \in Emitters : held[e] <= seq
      BY <1>3 DEF Cancel, LogTypeOK
    <3> QED
      BY <2>1, <3>1
  <2> QED
    BY <1>3, <2>1, <2>2, <2>3 DEF Cancel, LogTypeOK
<1>4. CASE Close
  <2>1. /\ queue' \in [Emitters -> Seq(Publishes)]
        /\ held' \in [Emitters -> Nat]
        /\ \A e \in Emitters : held'[e] \in {0, held[e]}
        /\ \A e \in Emitters : queue'[e] = <<>> => held'[e] = 0
    BY <1>4, WithdrawnType DEF Close
  <2>2. \A e \in Emitters : held'[e] <= seq'
    <3>1. seq' = seq /\ seq \in Nat /\ \A e \in Emitters : held[e] <= seq
      BY <1>4 DEF Close, LogTypeOK
    <3> QED
      BY <2>1, <3>1
  <2> QED
    BY <1>4, <2>1, <2>2 DEF Close, LogTypeOK
<1>5. CASE Trim
  <2>1. trimmed' \in 0..Len(log)
    <3>1. trimmed \in 0..Len(log) /\ Len(log) \in Nat /\ MayTrim(log)
      BY <1>5 DEF Trim, LogTypeOK
    <3> QED
      BY <3>1, MaxLenAssumption DEF MayTrim
  <2>2. left' \in [Kinds -> Nat]
    BY <1>5, SpendType DEF Trim, Kinds
  <2> QED
    BY <1>5, <2>1, <2>2 DEF Trim, LogTypeOK
<1>6. CASE UNCHANGED logVars
  BY <1>6 DEF logVars, LogTypeOK
<1> QED
  BY <1>1, <1>2, <1>3, <1>4, <1>5, <1>6

LEMMA TypeStep == LogTypeOK /\ [LogNext]_logVars => LogTypeOK'
BY PublishTypeStep, TaskTypeStep, BufferTypeStep, OtherTypeStep DEF LogNext

\* Every variable of the log and of its emitters keeps its type.
THEOREM LogTypeCorrect == LogSpec => []LogTypeOK
<1> QED
  BY InitType, TypeStep, PTL DEF LogSpec

-----------------------------------------------------------------------------
(* What a step does to the log and to the queues *)

\* One publish joins the queue of its emitter.
Joins(t, f) ==
    \A e \in Emitters :
        queue'[e] = IF e = EmitterOf(t)
                    THEN Append(queue[e], [task |-> t, frame |-> f])
                    ELSE queue[e]

\* Publishes may leave the queues; those that stay keep their order.
Thinned ==
    \A e \in Emitters :
        /\ \A k \in DOMAIN queue'[e] :
             \E b \in DOMAIN queue[e] : queue'[e][k] = queue[e][b]
        /\ \A j, k \in DOMAIN queue'[e] :
             j < k => \E a, b \in DOMAIN queue[e] :
                          /\ a < b
                          /\ queue'[e][j] = queue[e][a] /\ queue'[e][k] = queue[e][b]

\* The head of one queue becomes the last entry of the log.
Enters(e) ==
    /\ queue[e] # <<>> /\ held[e] # 0
    /\ Len(log') = Len(log) + 1
    /\ \A i \in 1..Len(log) : log'[i] = log[i]
    /\ log'[Len(log) + 1] = Entry(queue[e][1].frame, held[e], e)
    /\ \A k \in DOMAIN queue'[e] :
         k + 1 \in DOMAIN queue[e] /\ queue'[e][k] = queue[e][k + 1]
    /\ \A d \in Emitters : d # e => queue'[d] = queue[d]

LEMMA QueueType ==
    ASSUME LogTypeOK, NEW e \in Emitters
    PROVE  /\ queue[e] \in Seq(Publishes)
           /\ DOMAIN queue[e] = 1..Len(queue[e]) /\ Len(queue[e]) \in Nat
           /\ \A k \in DOMAIN queue[e] :
                /\ queue[e][k].task \in Tasks /\ queue[e][k].frame \in Frames
                /\ queue[e][k].frame.kind \in FrameKinds
                /\ queue[e][k].frame.mark \in Nat /\ queue[e][k].frame.n \in Nat
<1>1. queue[e] \in Seq(Publishes)
  BY DEF LogTypeOK
<1>2. \A k \in DOMAIN queue[e] : queue[e][k] \in Publishes
  BY <1>1
<1> QED
  BY <1>1, <1>2 DEF Publishes, Frames

LEMMA LogType ==
    ASSUME LogTypeOK
    PROVE  /\ DOMAIN log = 1..Len(log) /\ Len(log) \in Nat
           /\ \A i \in DOMAIN log :
                /\ log[i] \in EntryType /\ log[i].kind \in FrameKinds
                /\ log[i].mark \in Nat /\ log[i].n \in Nat /\ log[i].seq \in Nat
                /\ log[i].by \in Emitters
<1>1. log \in Seq(EntryType)
  BY DEF LogTypeOK
<1>2. \A i \in DOMAIN log : log[i] \in EntryType
  BY <1>1
<1> QED
  BY <1>1, <1>2 DEF EntryType

LEMMA TailThins ==
    ASSUME LogTypeOK, NEW e \in Emitters, queue[e] # <<>>, Returned(e)
    PROVE  /\ Thinned
           /\ \A k \in DOMAIN queue'[e] :
                k + 1 \in DOMAIN queue[e] /\ queue'[e][k] = queue[e][k + 1]
           /\ \A d \in Emitters : d # e => queue'[d] = queue[d]
           /\ Head(queue[e]) = queue[e][1]
<1>1. queue' = [queue EXCEPT ![e] = Tail(queue[e])] /\ queue \in [Emitters -> Seq(Publishes)]
  BY ReturnedType DEF LogTypeOK
<1>2. queue[e] \in Seq(Publishes)
  BY <1>1
<1>3. /\ Tail(queue[e]) \in Seq(Publishes) /\ Len(Tail(queue[e])) = Len(queue[e]) - 1
      /\ \A k \in 1..Len(Tail(queue[e])) : Tail(queue[e])[k] = queue[e][k + 1]
  BY <1>2, HeadTailProperties
<1>4. queue'[e] = Tail(queue[e]) /\ \A d \in Emitters : d # e => queue'[d] = queue[d]
  BY <1>1
<1>5. \A k \in DOMAIN queue'[e] : k + 1 \in DOMAIN queue[e] /\ queue'[e][k] = queue[e][k + 1]
  BY <1>2, <1>3, <1>4
<1>6. Thinned
  <2>1. ASSUME NEW j \in DOMAIN queue'[e], NEW k \in DOMAIN queue'[e], j < k
        PROVE  \E a, b \in DOMAIN queue[e] :
                   /\ a < b
                   /\ queue'[e][j] = queue[e][a] /\ queue'[e][k] = queue[e][b]
    <3>1. j \in Nat /\ k \in Nat /\ j + 1 < k + 1
      BY <1>3, <1>4, <2>1
    <3> QED
      BY <1>5, <3>1
  <2>2. ASSUME NEW d \in Emitters, d # e, NEW j \in DOMAIN queue'[d],
               NEW k \in DOMAIN queue'[d], j < k
        PROVE  \E a, b \in DOMAIN queue[d] :
                   /\ a < b
                   /\ queue'[d][j] = queue[d][a] /\ queue'[d][k] = queue[d][b]
    BY <1>4, <2>2
  <2>3. \A d \in Emitters : \A k \in DOMAIN queue'[d] :
            \E b \in DOMAIN queue[d] : queue'[d][k] = queue[d][b]
    BY <1>4, <1>5
  <2> QED
    BY <2>1, <2>2, <2>3 DEF Thinned
<1> QED
  BY <1>2, <1>4, <1>5, <1>6

\* What is left of a sequence without its i-th element is in the old order.
LEMMA RemovalThins ==
    ASSUME NEW q \in Seq(Publishes), NEW r \in Seq(Publishes), NEW i \in 1..Len(q),
           Len(r) = Len(q) - 1,
           \A k \in 1..Len(r) : r[k] = IF k < i THEN q[k] ELSE q[k + 1]
    PROVE  /\ \A k \in DOMAIN r : \E b \in DOMAIN q : r[k] = q[b]
           /\ \A j, k \in DOMAIN r :
                j < k => \E a, b \in DOMAIN q : a < b /\ r[j] = q[a] /\ r[k] = q[b]
<1> DEFINE from(k) == IF k < i THEN k ELSE k + 1
<1>1. \A k \in DOMAIN r : k \in Nat /\ from(k) \in DOMAIN q /\ r[k] = q[from(k)]
  <2> SUFFICES ASSUME NEW k \in DOMAIN r
               PROVE  k \in Nat /\ from(k) \in DOMAIN q /\ r[k] = q[from(k)]
    OBVIOUS
  <2>1. k \in Nat /\ i \in Nat /\ 1 <= k /\ k <= Len(q) - 1 /\ Len(q) \in Nat
    OBVIOUS
  <2>2. CASE k < i
    BY <2>1, <2>2
  <2>3. CASE ~(k < i)
    BY <2>1, <2>3
  <2> QED
    BY <2>2, <2>3
<1>2. ASSUME NEW j \in DOMAIN r, NEW k \in DOMAIN r, j < k
      PROVE  from(j) < from(k)
  BY <1>1, <1>2
<1> HIDE DEF from
<1> QED
  BY <1>1, <1>2

LEMMA WithdrawnThins ==
    ASSUME LogTypeOK, NEW t \in Tasks, Withdrawn(t)
    PROVE  Thinned
<1>1. CASE queue' = queue
  BY <1>1 DEF Thinned
<1>2. ASSUME NEW i \in 1..Len(queue["worker"]),
             Len(queue'["worker"]) = Len(queue["worker"]) - 1,
             \A k \in 1..Len(queue'["worker"]) :
                 queue'["worker"][k] = IF k < i THEN queue["worker"][k]
                                       ELSE queue["worker"][k + 1]
      PROVE  Thinned
  <2>1. /\ queue["worker"] \in Seq(Publishes) /\ queue'["worker"] \in Seq(Publishes)
        /\ \A d \in Emitters : d # "worker" => queue'[d] = queue[d]
    BY WithdrawnType DEF LogTypeOK, Emitters
  <2>2. /\ \A k \in DOMAIN queue'["worker"] :
             \E b \in DOMAIN queue["worker"] : queue'["worker"][k] = queue["worker"][b]
        /\ \A j, k \in DOMAIN queue'["worker"] :
             j < k => \E a, b \in DOMAIN queue["worker"] :
                          /\ a < b
                          /\ queue'["worker"][j] = queue["worker"][a]
                          /\ queue'["worker"][k] = queue["worker"][b]
    <3> DEFINE q == queue["worker"]
               r == queue'["worker"]
    <3>1. /\ q \in Seq(Publishes) /\ r \in Seq(Publishes) /\ i \in 1..Len(q)
          /\ Len(r) = Len(q) - 1
          /\ \A k \in 1..Len(r) : r[k] = IF k < i THEN q[k] ELSE q[k + 1]
      BY <1>2, <2>1
    <3> HIDE DEF q, r
    <3>2. /\ \A k \in DOMAIN r : \E b \in DOMAIN q : r[k] = q[b]
          /\ \A j, k \in DOMAIN r :
               j < k => \E a, b \in DOMAIN q : a < b /\ r[j] = q[a] /\ r[k] = q[b]
      BY ONLY <3>1, RemovalThins
    <3> QED
      BY <3>2 DEF q, r
  <2>3. ASSUME NEW d \in Emitters
        PROVE  /\ \A k \in DOMAIN queue'[d] :
                    \E b \in DOMAIN queue[d] : queue'[d][k] = queue[d][b]
               /\ \A j, k \in DOMAIN queue'[d] :
                    j < k => \E a, b \in DOMAIN queue[d] :
                                 /\ a < b
                                 /\ queue'[d][j] = queue[d][a]
                                 /\ queue'[d][k] = queue[d][b]
    <3>1. CASE d = "worker"
      BY <2>2, <3>1
    <3>2. CASE d # "worker"
      BY <2>1, <3>2
    <3> QED
      BY <3>1, <3>2
  <2> QED
    BY <2>3 DEF Thinned
<1> QED
  BY <1>1, <1>2, WithdrawnType

LEMMA AskJoins ==
    ASSUME LogTypeOK, NEW t \in Tasks, NEW f \in Frames, Ask(t, f)
    PROVE  Joins(t, f)
BY AskType DEF Joins

\* The four things a step may do.
LEMMA PublishEnters ==
    ASSUME LogTypeOK, NEW e \in Emitters, Publish(e)
    PROVE  Enters(e)
<1>1. queue[e] # <<>> /\ held[e] # 0 /\ Returned(e)
  BY DEF Publish, LogTypeOK
<1>2. /\ Head(queue[e]) = queue[e][1]
      /\ \A k \in DOMAIN queue'[e] :
           k + 1 \in DOMAIN queue[e] /\ queue'[e][k] = queue[e][k + 1]
      /\ \A d \in Emitters : d # e => queue'[d] = queue[d]
  BY <1>1, TailThins
<1> DEFINE entry == Entry(queue[e][1].frame, held[e], e)
<1>3. entry \in EntryType
  BY <1>1, QueueType, EntryIsTyped DEF LogTypeOK
<1>4. log' = Append(log, entry) /\ log \in Seq(EntryType)
  BY <1>2 DEF Publish, LogTypeOK
<1> HIDE DEF entry
<1>5. /\ Len(log') = Len(log) + 1
      /\ \A i \in 1..Len(log) : log'[i] = log[i]
      /\ log'[Len(log) + 1] = entry
  BY <1>3, <1>4, AppendProperties
<1> QED
  BY <1>1, <1>2, <1>5 DEF Enters, entry

-----------------------------------------------------------------------------
(* The numbers of the log *)

\* A number that is held has not been used yet, by anyone, and is above those
\* its emitter used.
Numbered ==
    /\ NumberedInOrder
    /\ \A e \in Emitters : \A i \in DOMAIN log :
         held[e] # 0 => /\ log[i].seq # held[e]
                        /\ log[i].by = e => log[i].seq < held[e]
    /\ \A d, e \in Emitters : d # e /\ held[d] # 0 => held[d] # held[e]

\* A step that appends nothing and takes no number.
LEMMA QuietNumbers ==
    ASSUME Numbered, log' = log, \A e \in Emitters : held'[e] \in {0, held[e]}
    PROVE  Numbered'
<1>1. \A e \in Emitters : held'[e] # 0 => held'[e] = held[e]
  OBVIOUS
<1>2. NumberedInOrder'
  BY DEF Numbered, NumberedInOrder
<1> QED
  BY <1>1, <1>2 DEF Numbered

LEMMA NumberedStep == LogTypeOK /\ Numbered /\ [LogNext]_logVars => Numbered'
<1> SUFFICES ASSUME LogTypeOK, Numbered, [LogNext]_logVars
             PROVE  Numbered'
  OBVIOUS
<1>1. ASSUME NEW e \in Emitters, Allocate(e)
      PROVE  Numbered'
  <2>1. /\ log' = log /\ held'[e] = seq + 1
        /\ \A d \in Emitters : d # e => held'[d] = held[d]
    BY <1>1 DEF Allocate, LogTypeOK
  <2>2. /\ \A i \in DOMAIN log : log[i].seq < seq + 1
        /\ \A d \in Emitters : held[d] \in Nat /\ held[d] < seq + 1
    BY DEF LogTypeOK
  <2>3. NumberedInOrder'
    BY <2>1 DEF Numbered, NumberedInOrder
  <2>4. ASSUME NEW d \in Emitters, NEW i \in DOMAIN log, held'[d] # 0
        PROVE  log[i].seq # held'[d] /\ (log[i].by = d => log[i].seq < held'[d])
    <3>1. log[i].seq \in Nat /\ seq \in Nat
      BY LogType DEF LogTypeOK
    <3> QED
      BY <2>1, <2>2, <2>4, <3>1 DEF Numbered
  <2>5. ASSUME NEW d \in Emitters, NEW c \in Emitters, d # c, held'[d] # 0
        PROVE  held'[d] # held'[c]
    <3>1. seq \in Nat
      BY DEF LogTypeOK
    <3> QED
      BY <2>1, <2>2, <2>5, <3>1 DEF Numbered
  <2> QED
    BY <2>1, <2>3, <2>4, <2>5 DEF Numbered
<1>2. ASSUME NEW e \in Emitters, Publish(e)
      PROVE  Numbered'
  <2>1. Enters(e)
    BY <1>2, PublishEnters
  <2>2. /\ held'[e] = 0 /\ \A d \in Emitters : d # e => held'[d] = held[d]
    BY <1>2, ReturnedType DEF Publish, LogTypeOK
  <2> DEFINE last == Len(log) + 1
  <2>3. /\ last \in Nat /\ DOMAIN log = 1..Len(log) /\ Len(log) \in Nat
        /\ DOMAIN log' = 1..last
        /\ \A i \in 1..Len(log) : log'[i] = log[i]
        /\ log'[last].seq = held[e] /\ log'[last].by = e /\ held[e] # 0
    <3>1. LogTypeOK'
      BY <1>2, PublishTypeStep
    <3>2. DOMAIN log' = 1..Len(log')
      BY <3>1 DEF LogTypeOK
    <3> QED
      BY <2>1, <3>2, LogType DEF Enters, Entry
  <2> HIDE DEF last
  <2>4. NumberedInOrder'
    <3>1. ASSUME NEW i \in DOMAIN log', NEW j \in DOMAIN log', i < j
          PROVE  /\ log'[i].seq # log'[j].seq
                 /\ log'[i].by = log'[j].by => log'[i].seq < log'[j].seq
      <4>1. i \in DOMAIN log
        BY <2>3, <3>1 DEF last
      <4>2. CASE j = last
        BY <2>3, <4>1, <4>2 DEF Numbered
      <4>3. CASE j \in DOMAIN log
        BY <2>3, <3>1, <4>1, <4>3 DEF Numbered, NumberedInOrder
      <4> QED
        BY <2>3, <4>2, <4>3 DEF last
    <3> QED
      BY <3>1 DEF NumberedInOrder
  <2>5. ASSUME NEW d \in Emitters, NEW i \in DOMAIN log', held'[d] # 0
        PROVE  log'[i].seq # held'[d] /\ (log'[i].by = d => log'[i].seq < held'[d])
    <3>1. d # e /\ held'[d] = held[d]
      BY <2>2, <2>5
    <3>2. CASE i = last
      BY <2>3, <2>5, <3>1, <3>2 DEF Numbered
    <3>3. CASE i \in DOMAIN log
      BY <2>3, <2>5, <3>1, <3>3 DEF Numbered
    <3> QED
      BY <2>3, <3>2, <3>3 DEF last
  <2>6. ASSUME NEW d \in Emitters, NEW c \in Emitters, d # c, held'[d] # 0
        PROVE  held'[d] # held'[c]
    BY <2>2, <2>6 DEF Numbered
  <2> QED
    BY <2>4, <2>5, <2>6 DEF Numbered
<1>3. ASSUME NEW e \in Emitters, PublishFails(e)
      PROVE  Numbered'
  BY <1>3, ReturnedType, QuietNumbers DEF PublishFails, LogTypeOK
<1>4. CASE Cancel
  BY <1>4, WithdrawnType, QuietNumbers DEF Cancel, Tasks
<1>5. CASE Close
  BY <1>5, WithdrawnType, QuietNumbers DEF Close, Tasks
<1>6. ASSUME UNCHANGED <<log, held>>
      PROVE  Numbered'
  BY <1>6, QuietNumbers
<1>7. CASE UNCHANGED logVars
  BY <1>6, <1>7 DEF logVars
<1>8. ASSUME NEW t \in Tasks, EmitFlushed(t)
      PROVE  Numbered'
  BY <1>6, <1>8 DEF EmitFlushed
<1>9. CASE EmitToken \/ TimerFires \/ EmitFrame \/ EmitEnd \/ AnnounceLaunch
           \/ HandOver \/ LineStarts \/ AnnounceExit \/ PumpEnds \/ EmitOutside \/ Trim
  BY <1>6, <1>9 DEF EmitToken, TimerFires, EmitFrame, EmitEnd, AnnounceLaunch,
     HandOver, LineStarts, AnnounceExit, PumpEnds, EmitOutside, Trim
<1> QED
  BY <1>1, <1>2, <1>3, <1>4, <1>5, <1>7, <1>8, <1>9 DEF LogNext

\* The sequence numbers in the log are distinct, and each emitter's are in the
\* order of the log.
THEOREM NumbersAreInOrder == LogSpec => []NumberedInOrder
<1>1. LogInit => Numbered
  BY DEF LogInit, Numbered, NumberedInOrder
<1>2. Numbered => NumberedInOrder
  BY DEF Numbered
<1> QED
  BY <1>1, <1>2, InitType, TypeStep, NumberedStep, PTL DEF LogSpec

-----------------------------------------------------------------------------
(* Tokens and frames *)

IsToken(f) == f.kind = "token"

\* The deltas that have left the buffer.
Taken == spoken - buffer

\* A frame that has been emitted knows of no delta that is still in the buffer,
\* so a token frame of theirs, wherever it is, is ahead of it.
TokensAhead ==
    /\ TokensBeforeFrames
    /\ \A k \in DOMAIN queue["outside"] : ~IsToken(queue["outside"][k].frame)
    /\ \A t \in Tasks : ~IsToken(want[t]) /\ want[t].mark <= Taken
    /\ \A i \in DOMAIN log :
         log[i].by = "worker" /\ ~IsToken(log[i]) =>
            /\ log[i].mark <= Taken
            /\ \A k \in DOMAIN queue["worker"] :
                 IsToken(queue["worker"][k].frame)
                    => log[i].mark < queue["worker"][k].frame.mark
    /\ \A k \in DOMAIN queue["worker"] :
         ~IsToken(queue["worker"][k].frame) => queue["worker"][k].frame.mark <= Taken
    /\ \A j, k \in DOMAIN queue["worker"] :
         j < k /\ ~IsToken(queue["worker"][j].frame) /\ IsToken(queue["worker"][k].frame)
            => queue["worker"][j].frame.mark < queue["worker"][k].frame.mark

\* What has left the buffer stays out of it.
TakenGrows == Taken \in Nat /\ Taken' \in Nat /\ Taken <= Taken'
WantsAreBehind == \A t \in Tasks : ~IsToken(want'[t]) /\ want'[t].mark <= Taken'

LEMMA TokensThin ==
    ASSUME LogTypeOK, TokensAhead, TakenGrows, WantsAreBehind, Thinned, log' = log
    PROVE  TokensAhead'
<1> DEFINE q == queue["worker"]
           r == queue'["worker"]
<1>1. /\ "worker" \in Emitters /\ "outside" \in Emitters
      /\ \A k \in DOMAIN q : q[k].frame.mark \in Nat
      /\ \A i \in DOMAIN log : log[i].mark \in Nat
  BY QueueType, LogType DEF Emitters
<1>2. /\ \A k \in DOMAIN queue'["outside"] : ~IsToken(queue'["outside"][k].frame)
      /\ \A k \in DOMAIN r : \E b \in DOMAIN q : r[k] = q[b]
      /\ \A j, k \in DOMAIN r :
           j < k => \E a, b \in DOMAIN q : a < b /\ r[j] = q[a] /\ r[k] = q[b]
  BY <1>1 DEF Thinned, TokensAhead
<1>3. /\ \A i \in DOMAIN log : log[i].by = "worker" /\ ~IsToken(log[i]) =>
            /\ log[i].mark <= Taken
            /\ \A k \in DOMAIN q : IsToken(q[k].frame) => log[i].mark < q[k].frame.mark
      /\ \A k \in DOMAIN q : ~IsToken(q[k].frame) => q[k].frame.mark <= Taken
      /\ \A j, k \in DOMAIN q :
           j < k /\ ~IsToken(q[j].frame) /\ IsToken(q[k].frame)
              => q[j].frame.mark < q[k].frame.mark
  BY DEF TokensAhead
<1>4. TokensBeforeFrames'
  BY DEF TokensAhead, TokensBeforeFrames
<1> HIDE DEF q, r
<1>5. \A i \in DOMAIN log : log[i].by = "worker" /\ ~IsToken(log[i]) =>
            /\ log[i].mark <= Taken'
            /\ \A k \in DOMAIN r : IsToken(r[k].frame) => log[i].mark < r[k].frame.mark
  BY <1>1, <1>2, <1>3 DEF TakenGrows
<1>6. \A k \in DOMAIN r : ~IsToken(r[k].frame) => r[k].frame.mark <= Taken'
  BY <1>1, <1>2, <1>3 DEF TakenGrows
<1>7. ASSUME NEW j \in DOMAIN r, NEW k \in DOMAIN r,
             j < k, ~IsToken(r[j].frame), IsToken(r[k].frame)
      PROVE  r[j].frame.mark < r[k].frame.mark
  BY <1>2, <1>3, <1>7
<1> QED
  BY <1>2, <1>4, <1>5, <1>6, <1>7 DEF TokensAhead, WantsAreBehind, q, r

LEMMA JoinsShape ==
    ASSUME LogTypeOK, NEW t \in Tasks, NEW f \in Frames, Joins(t, f),
           NEW e \in Emitters, e = EmitterOf(t)
    PROVE  /\ DOMAIN queue'[e] = 1..(Len(queue[e]) + 1)
           /\ \A k \in DOMAIN queue[e] : queue'[e][k] = queue[e][k]
           /\ queue'[e][Len(queue[e]) + 1].frame = f
<1>1. queue'[e] = Append(queue[e], [task |-> t, frame |-> f]) /\ queue[e] \in Seq(Publishes)
  BY QueueType DEF Joins
<1>2. [task |-> t, frame |-> f] \in Publishes
  BY DEF Publishes
<1>3. /\ queue'[e] \in Seq(Publishes) /\ Len(queue'[e]) = Len(queue[e]) + 1
      /\ \A k \in 1..Len(queue[e]) : queue'[e][k] = queue[e][k]
      /\ queue'[e][Len(queue[e]) + 1] = [task |-> t, frame |-> f]
  BY <1>1, <1>2, AppendProperties
<1> QED
  BY <1>1, <1>3

LEMMA TokensJoin ==
    ASSUME LogTypeOK, TokensAhead, TakenGrows, WantsAreBehind, log' = log,
           NEW t \in Tasks, NEW f \in Frames, Joins(t, f),
           IsToken(f) => EmitterOf(t) = "worker" /\ f.mark > Taken,
           ~IsToken(f) => f.mark <= Taken'
    PROVE  TokensAhead'
<1> DEFINE q == queue["worker"]
           r == queue'["worker"]
           last == Len(q) + 1
<1>1. /\ "worker" \in Emitters /\ "outside" \in Emitters
      /\ EmitterOf(t) \in {"worker", "outside"}
      /\ DOMAIN q = 1..Len(q) /\ Len(q) \in Nat
      /\ \A k \in DOMAIN q : q[k].frame.mark \in Nat
      /\ \A i \in DOMAIN log : log[i].mark \in Nat
      /\ f.mark \in Nat
  BY QueueType, LogType, EmitterOfType DEF Emitters, Frames
<1>2. /\ \A i \in DOMAIN log : log[i].by = "worker" /\ ~IsToken(log[i]) =>
            /\ log[i].mark <= Taken
            /\ \A k \in DOMAIN q : IsToken(q[k].frame) => log[i].mark < q[k].frame.mark
      /\ \A k \in DOMAIN q : ~IsToken(q[k].frame) => q[k].frame.mark <= Taken
      /\ \A j, k \in DOMAIN q :
           j < k /\ ~IsToken(q[j].frame) /\ IsToken(q[k].frame)
              => q[j].frame.mark < q[k].frame.mark
      /\ \A k \in DOMAIN queue["outside"] : ~IsToken(queue["outside"][k].frame)
  BY DEF TokensAhead
<1>3. TokensBeforeFrames'
  BY DEF TokensAhead, TokensBeforeFrames
<1>4. \A k \in DOMAIN queue'["outside"] : ~IsToken(queue'["outside"][k].frame)
  <2>1. CASE EmitterOf(t) = "worker"
    BY <1>1, <1>2, <2>1 DEF Joins
  <2>2. CASE EmitterOf(t) = "outside"
    <3>1. ~IsToken(f)
      BY <2>2
    <3>2. /\ DOMAIN queue'["outside"] = 1..(Len(queue["outside"]) + 1)
          /\ \A k \in DOMAIN queue["outside"] : queue'["outside"][k] = queue["outside"][k]
          /\ queue'["outside"][Len(queue["outside"]) + 1].frame = f
      BY <1>1, <2>2, JoinsShape
    <3>3. DOMAIN queue["outside"] = 1..Len(queue["outside"]) /\ Len(queue["outside"]) \in Nat
      BY <1>1, QueueType
    <3>4. \A k \in DOMAIN queue'["outside"] :
              k \in DOMAIN queue["outside"] \/ k = Len(queue["outside"]) + 1
      BY <3>2, <3>3
    <3> QED
      BY <1>2, <3>1, <3>2, <3>4
  <2> QED
    BY <1>1, <2>1, <2>2
<1>5. CASE EmitterOf(t) = "outside"
  <2>1. r = q
    BY <1>1, <1>5 DEF Joins
  <2> HIDE DEF q, r, last
  <2>2. \A i \in DOMAIN log : log[i].by = "worker" /\ ~IsToken(log[i]) =>
            /\ log[i].mark <= Taken'
            /\ \A k \in DOMAIN r : IsToken(r[k].frame) => log[i].mark < r[k].frame.mark
    BY <1>1, <1>2, <2>1 DEF TakenGrows
  <2>3. \A k \in DOMAIN r : ~IsToken(r[k].frame) => r[k].frame.mark <= Taken'
    BY <1>1, <1>2, <2>1 DEF TakenGrows
  <2> QED
    BY <1>2, <1>3, <1>4, <2>1, <2>2, <2>3 DEF TokensAhead, WantsAreBehind, q, r
<1>6. CASE EmitterOf(t) = "worker"
  <2>1. /\ DOMAIN r = 1..last /\ r[last].frame = f
        /\ \A k \in DOMAIN q : r[k] = q[k]
    BY <1>1, <1>6, JoinsShape
  <2>2. /\ \A k \in DOMAIN r : k \in DOMAIN q \/ k = last
        /\ \A j, k \in DOMAIN r : j < k => j \in DOMAIN q
    BY <1>1, <2>1
  <2> HIDE DEF q, r, last
  <2>3. ASSUME NEW i \in DOMAIN log, log[i].by = "worker", ~IsToken(log[i])
        PROVE  /\ log[i].mark <= Taken'
               /\ \A k \in DOMAIN r : IsToken(r[k].frame) => log[i].mark < r[k].frame.mark
    BY <1>1, <1>2, <2>1, <2>2, <2>3 DEF TakenGrows
  <2>4. \A k \in DOMAIN r : ~IsToken(r[k].frame) => r[k].frame.mark <= Taken'
    BY <1>1, <1>2, <2>1, <2>2 DEF TakenGrows
  <2>5. ASSUME NEW j \in DOMAIN r, NEW k \in DOMAIN r,
               j < k, ~IsToken(r[j].frame), IsToken(r[k].frame)
        PROVE  r[j].frame.mark < r[k].frame.mark
    <3>1. j \in DOMAIN q /\ r[j] = q[j]
      BY <2>1, <2>2, <2>5
    <3>2. CASE k = last
      BY <1>1, <1>2, <2>1, <2>5, <3>1, <3>2 DEF TakenGrows
    <3>3. CASE k \in DOMAIN q
      BY <1>2, <2>1, <2>5, <3>1, <3>3
    <3> QED
      BY <2>2, <3>2, <3>3
  <2> QED
    BY <1>3, <1>4, <2>3, <2>4, <2>5 DEF TokensAhead, WantsAreBehind, q, r
<1> QED
  BY <1>1, <1>5, <1>6

LEMMA EntersShape ==
    ASSUME LogTypeOK, LogTypeOK', NEW e \in Emitters, Enters(e)
    PROVE  /\ DOMAIN log = 1..Len(log) /\ Len(log) \in Nat
           /\ DOMAIN log' = 1..(Len(log) + 1)
           /\ \A i \in DOMAIN log : log'[i] = log[i]
           /\ \A i, j \in DOMAIN log' : i < j => i \in DOMAIN log
           /\ \A i \in DOMAIN log' : i \in DOMAIN log \/ i = Len(log) + 1
           /\ log'[Len(log) + 1].by = e
           /\ log'[Len(log) + 1].kind = queue[e][1].frame.kind
           /\ log'[Len(log) + 1].mark = queue[e][1].frame.mark
           /\ log'[Len(log) + 1].n = queue[e][1].frame.n
           /\ 1 \in DOMAIN queue[e]
           /\ \A k \in DOMAIN queue'[e] :
                /\ k + 1 \in DOMAIN queue[e] /\ queue'[e][k] = queue[e][k + 1]
                /\ k \in Nat /\ 1 < k + 1
<1>1. DOMAIN log = 1..Len(log) /\ Len(log) \in Nat /\ DOMAIN log' = 1..Len(log')
  BY LogType DEF LogTypeOK
<1>2. DOMAIN queue'[e] = 1..Len(queue'[e]) /\ 1 \in DOMAIN queue[e]
  <2>1. queue'[e] \in Seq(Publishes)
    BY DEF LogTypeOK
  <2> QED
    BY <2>1, QueueType DEF Enters
<1> QED
  BY <1>1, <1>2 DEF Enters, Entry

LEMMA TokensEnter ==
    ASSUME LogTypeOK, LogTypeOK', TokensAhead, NEW e \in Emitters, Enters(e),
           UNCHANGED <<spoken, buffer, want>>
    PROVE  TokensAhead'
<1> DEFINE q == queue["worker"]
           r == queue'["worker"]
           last == Len(log) + 1
<1>1. /\ "worker" \in Emitters /\ "outside" \in Emitters
      /\ e \in {"worker", "outside"} /\ last \in Nat
      /\ log'[last].kind = queue[e][1].frame.kind /\ 1 \in DOMAIN queue[e]
      /\ \A i \in DOMAIN log' : i \in DOMAIN log \/ i = last
      /\ \A i, j \in DOMAIN log' : i < j => i \in DOMAIN log
      /\ \A i \in DOMAIN log : log'[i] = log[i]
      /\ Taken' = Taken
  BY EntersShape DEF Emitters, Taken
<1>2. /\ \A i \in DOMAIN log : log[i].by = "worker" /\ ~IsToken(log[i]) =>
            /\ log[i].mark <= Taken
            /\ \A k \in DOMAIN q : IsToken(q[k].frame) => log[i].mark < q[k].frame.mark
      /\ \A k \in DOMAIN q : ~IsToken(q[k].frame) => q[k].frame.mark <= Taken
      /\ \A j, k \in DOMAIN q :
           j < k /\ ~IsToken(q[j].frame) /\ IsToken(q[k].frame)
              => q[j].frame.mark < q[k].frame.mark
      /\ \A k \in DOMAIN queue["outside"] : ~IsToken(queue["outside"][k].frame)
      /\ \A i, j \in DOMAIN log :
           i < j /\ log[i].by = "worker" /\ IsToken(log[j]) /\ ~IsToken(log[i])
              => log[i].mark < log[j].mark
  BY DEF TokensAhead, TokensBeforeFrames, IsToken
<1>3. WantsAreBehind
  BY <1>1 DEF TokensAhead, WantsAreBehind
<1>4. CASE e = "outside"
  <2>1. /\ r = q /\ log'[last].by = "outside" /\ ~IsToken(log'[last])
    <3>1. r = q
      BY <1>1, <1>4 DEF Enters
    <3>2. log'[last].by = "outside"
      BY <1>4, EntersShape
    <3>3. ~IsToken(queue[e][1].frame)
      BY <1>1, <1>2, <1>4
    <3> QED
      BY <1>1, <3>1, <3>2, <3>3 DEF IsToken
  <2>2. \A k \in DOMAIN queue'["outside"] :
            /\ k + 1 \in DOMAIN queue["outside"]
            /\ queue'["outside"][k] = queue["outside"][k + 1]
    BY <1>4, EntersShape
  <2>3. \A k \in DOMAIN queue'["outside"] : ~IsToken(queue'["outside"][k].frame)
    BY <1>2, <2>2
  <2> HIDE DEF q, r, last
  <2>4. \A i, j \in DOMAIN log' :
           i < j /\ log'[i].by = "worker" /\ IsToken(log'[j]) /\ ~IsToken(log'[i])
              => log'[i].mark < log'[j].mark
    BY <1>1, <1>2, <2>1
  <2>5. \A i \in DOMAIN log' : log'[i].by = "worker" /\ ~IsToken(log'[i]) =>
            /\ log'[i].mark <= Taken'
            /\ \A k \in DOMAIN r : IsToken(r[k].frame) => log'[i].mark < r[k].frame.mark
    BY <1>1, <1>2, <2>1
  <2>6. TokensBeforeFrames'
    BY <2>4 DEF TokensBeforeFrames, IsToken
  <2> QED
    BY <1>1, <1>2, <1>3, <2>1, <2>3, <2>5, <2>6 DEF TokensAhead, WantsAreBehind, q, r
<1>5. CASE e = "worker"
  <2>1. /\ log'[last].mark = q[1].frame.mark /\ IsToken(log'[last]) = IsToken(q[1].frame)
        /\ 1 \in DOMAIN q
        /\ \A k \in DOMAIN r : /\ k + 1 \in DOMAIN q /\ r[k] = q[k + 1]
                                /\ k \in Nat /\ 1 < k + 1
        /\ queue'["outside"] = queue["outside"]
    BY <1>1, <1>5, EntersShape DEF IsToken, Enters
  <2> HIDE DEF q, r, last
  <2>2. ASSUME NEW i \in DOMAIN log', NEW j \in DOMAIN log',
               i < j, log'[i].by = "worker", IsToken(log'[j]), ~IsToken(log'[i])
        PROVE  log'[i].mark < log'[j].mark
    <3>1. i \in DOMAIN log /\ log'[i] = log[i]
      BY <1>1, <2>2
    <3>2. CASE j = last
      BY <1>2, <2>1, <2>2, <3>1, <3>2
    <3>3. CASE j \in DOMAIN log
      BY <1>1, <1>2, <2>2, <3>1, <3>3
    <3> QED
      BY <1>1, <3>2, <3>3
  <2>3. ASSUME NEW i \in DOMAIN log', log'[i].by = "worker", ~IsToken(log'[i])
        PROVE  /\ log'[i].mark <= Taken'
               /\ \A k \in DOMAIN r : IsToken(r[k].frame) => log'[i].mark < r[k].frame.mark
    <3>1. CASE i = last
      BY <1>1, <1>2, <2>1, <2>3, <3>1
    <3>2. CASE i \in DOMAIN log
      BY <1>1, <1>2, <2>1, <2>3, <3>2
    <3> QED
      BY <1>1, <3>1, <3>2
  <2>4. \A k \in DOMAIN r : ~IsToken(r[k].frame) => r[k].frame.mark <= Taken'
    BY <1>1, <1>2, <2>1
  <2>5. ASSUME NEW j \in DOMAIN r, NEW k \in DOMAIN r,
               j < k, ~IsToken(r[j].frame), IsToken(r[k].frame)
        PROVE  r[j].frame.mark < r[k].frame.mark
    BY <1>2, <2>1, <2>5
  <2>6. TokensBeforeFrames'
    BY <2>2 DEF TokensBeforeFrames, IsToken
  <2> QED
    BY <1>2, <1>3, <2>1, <2>3, <2>4, <2>5, <2>6 DEF TokensAhead, WantsAreBehind, q, r
<1> QED
  BY <1>1, <1>4, <1>5

\* emit() called with a frame that knows of no delta not yet spoken.
LEMMA TokensEmit ==
    ASSUME LogTypeOK, TokensAhead, NEW t \in Tasks, NEW f \in Frames, Emit(t, f),
           UNCHANGED <<log, spoken>>, ~IsToken(f),
           f.mark <= (IF EmitterOf(t) = "worker" THEN spoken ELSE 0)
    PROVE  TokensAhead'
<1>1. /\ spoken \in Nat /\ buffer \in 0..spoken /\ want \in [Tasks -> Frames]
      /\ \A d \in Tasks : ~IsToken(want[d]) /\ want[d].mark <= Taken /\ want[d].mark \in Nat
      /\ f.mark \in Nat
  BY DEF LogTypeOK, TokensAhead, Frames
<1>2. CASE buffer > 0 /\ EmitterOf(t) = "worker"
  <2>1. /\ Ask(t, TokenFrame) /\ TokenFrame \in Frames /\ buffer' = 0
        /\ want' = [want EXCEPT ![t] = f]
    BY <1>2, TokenFrameType DEF Emit
  <2>2. TakenGrows /\ Taken' = spoken
    BY <1>1, <2>1 DEF TakenGrows, Taken
  <2>3. WantsAreBehind
    <3>1. \A d \in Tasks : want'[d] = IF d = t THEN f ELSE want[d]
      BY <1>1, <2>1
    <3> QED
      BY <1>1, <1>2, <2>2, <3>1 DEF WantsAreBehind, TakenGrows
  <2>4. TokenFrame.mark > Taken /\ IsToken(TokenFrame)
    BY <1>1 DEF TokenFrame, Frame, Taken, IsToken
  <2>5. Joins(t, TokenFrame)
    BY <2>1, AskJoins
  <2> QED
    BY <1>2, <2>1, <2>2, <2>3, <2>4, <2>5, TokensJoin
<1>3. CASE ~(buffer > 0 /\ EmitterOf(t) = "worker")
  <2>1. Ask(t, f) /\ buffer' = buffer /\ want' = want
    BY <1>3 DEF Emit
  <2>2. TakenGrows /\ Taken' = Taken
    BY <1>1, <2>1 DEF TakenGrows, Taken
  <2>3. WantsAreBehind
    BY <1>1, <2>1, <2>2 DEF WantsAreBehind
  <2>4. f.mark <= Taken'
    BY <1>1, <1>3, <2>2 DEF Taken
  <2>5. Joins(t, f)
    BY <2>1, AskJoins
  <2> QED
    BY <2>2, <2>3, <2>4, <2>5, TokensJoin
<1> QED
  BY <1>2, <1>3

LEMMA TokensQuiet ==
    ASSUME TokensAhead, UNCHANGED <<log, queue, want, spoken, buffer>>
    PROVE  TokensAhead'
<1>1. TokensBeforeFrames'
  BY DEF TokensAhead, TokensBeforeFrames
<1> QED
  BY <1>1 DEF TokensAhead, Taken

\* What the log thread hands to the loop: lines, and what is left of the last one.
PumpHandsLines == \A k \in DOMAIN scheduled : scheduled[k].kind \in {"line", "tail"}

\* The coroutines wait in the order they were handed over.
LEMMA TailScheduled ==
    ASSUME LogTypeOK, scheduled # <<>>, scheduled' = Tail(scheduled)
    PROVE  /\ scheduled[1] = Head(scheduled) /\ 1 \in DOMAIN scheduled
           /\ Head(scheduled) \in Frames
           /\ \A k \in DOMAIN scheduled' :
                /\ k \in Nat /\ 1 < k + 1 /\ k + 1 \in DOMAIN scheduled
                /\ scheduled'[k] = scheduled[k + 1]
<1>1. scheduled \in Seq(Frames)
  BY DEF LogTypeOK
<1>2. /\ Head(scheduled) = scheduled[1] /\ Head(scheduled) \in Frames
      /\ scheduled' \in Seq(Frames) /\ Len(scheduled') = Len(scheduled) - 1
      /\ \A k \in 1..Len(scheduled') : scheduled'[k] = scheduled[k + 1]
  BY <1>1, HeadTailProperties
<1> QED
  BY <1>1, <1>2

LEMMA LongerScheduled ==
    ASSUME LogTypeOK, NEW f \in Frames, scheduled' = Append(scheduled, f)
    PROVE  /\ DOMAIN scheduled = 1..Len(scheduled) /\ Len(scheduled) \in Nat
           /\ DOMAIN scheduled' = 1..(Len(scheduled) + 1)
           /\ \A k \in DOMAIN scheduled : scheduled'[k] = scheduled[k]
           /\ scheduled'[Len(scheduled) + 1] = f
<1>1. scheduled \in Seq(Frames)
  BY DEF LogTypeOK
<1>2. /\ scheduled' \in Seq(Frames) /\ Len(scheduled') = Len(scheduled) + 1
      /\ \A k \in 1..Len(scheduled) : scheduled'[k] = scheduled[k]
      /\ scheduled'[Len(scheduled) + 1] = f
  BY <1>1, AppendProperties
<1> QED
  BY <1>1, <1>2

\* The partial line comes last, if there is one.
LEMMA PartialLineShape ==
    ASSUME LogTypeOK, NEW rest \in PartialLine, scheduled' = scheduled \o rest
    PROVE  \/ scheduled' = scheduled
           \/ scheduled' = Append(scheduled, Frame("tail", 0, 0))
<1>1. scheduled \in Seq(Frames)
  BY DEF LogTypeOK
<1>2. CASE rest = <<>>
  BY <1>1, <1>2
<1>3. CASE rest = <<Frame("tail", 0, 0)>>
  <2>1. Frame("tail", 0, 0) \in Frames
    BY FrameType DEF FrameKinds
  <2> QED
    BY <1>1, <1>3, <2>1
<1> QED
  BY <1>2, <1>3 DEF PartialLine

LEMMA PumpStep ==
    LogTypeOK /\ PumpHandsLines /\ [LogNext]_logVars => PumpHandsLines'
<1> SUFFICES ASSUME LogTypeOK, PumpHandsLines, [LogNext]_logVars
             PROVE  PumpHandsLines'
  OBVIOUS
<1>1. ASSUME NEW f \in Frames, f.kind \in {"line", "tail"}, scheduled' = Append(scheduled, f)
      PROVE  PumpHandsLines'
  <2>1. \A k \in DOMAIN scheduled' : k \in DOMAIN scheduled \/ k = Len(scheduled) + 1
    BY <1>1, LongerScheduled
  <2> QED
    BY <1>1, <2>1, LongerScheduled DEF PumpHandsLines
<1>2. CASE HandOver
  <2>1. /\ Frame("line", 0, printed + 1) \in Frames
        /\ Frame("line", 0, printed + 1).kind = "line"
    BY MarkedType DEF Frame, FrameKinds
  <2> QED
    BY <1>1, <1>2, <2>1 DEF HandOver
<1>3. CASE LineStarts
  BY <1>3, TailScheduled DEF LineStarts, PumpHandsLines
<1>4. CASE AnnounceExit
  <2>1. PICK rest \in PartialLine : scheduled' = scheduled \o rest
    BY <1>4 DEF AnnounceExit
  <2>2. CASE scheduled' = scheduled
    BY <2>2 DEF PumpHandsLines
  <2>3. CASE scheduled' = Append(scheduled, Frame("tail", 0, 0))
    <3>1. Frame("tail", 0, 0) \in Frames /\ Frame("tail", 0, 0).kind = "tail"
      BY MarkedType DEF Frame, FrameKinds
    <3> QED
      BY <1>1, <2>3, <3>1
  <2> QED
    BY <2>1, <2>2, <2>3, PartialLineShape
<1>5. ASSUME scheduled' = scheduled
      PROVE  PumpHandsLines'
  BY <1>5 DEF PumpHandsLines
<1>6. ASSUME NEW e \in Emitters, Allocate(e) \/ Publish(e) \/ PublishFails(e)
      PROVE  PumpHandsLines'
  BY <1>5, <1>6 DEF Allocate, Publish, PublishFails
<1>7. ASSUME NEW t \in Tasks, EmitFlushed(t)
      PROVE  PumpHandsLines'
  BY <1>5, <1>7 DEF EmitFlushed
<1>8. CASE \/ EmitToken \/ TimerFires \/ EmitFrame \/ EmitEnd \/ AnnounceLaunch
           \/ PumpEnds \/ Cancel \/ Close \/ EmitOutside \/ Trim \/ UNCHANGED logVars
  BY <1>5, <1>8 DEF EmitToken, TimerFires, EmitFrame, EmitEnd, AnnounceLaunch,
     PumpEnds, Cancel, Close, EmitOutside, Trim, logVars
<1> QED
  BY <1>2, <1>3, <1>4, <1>6, <1>7, <1>8 DEF LogNext

LEMMA TokensStep ==
    /\ LogTypeOK /\ LogTypeOK' /\ PumpHandsLines /\ TokensAhead
    /\ [LogNext]_logVars
    => TokensAhead'
<1> SUFFICES ASSUME LogTypeOK, LogTypeOK', PumpHandsLines, TokensAhead, [LogNext]_logVars
             PROVE  TokensAhead'
  OBVIOUS
<1>1. /\ spoken \in Nat /\ buffer \in 0..spoken /\ want \in [Tasks -> Frames]
      /\ \A d \in Tasks : ~IsToken(want[d]) /\ want[d].mark <= Taken
      /\ Taken \in Nat
  BY DEF LogTypeOK, TokensAhead, Taken
<1>2. UNCHANGED <<spoken, buffer>> => TakenGrows /\ Taken' = Taken
  BY <1>1 DEF TakenGrows, Taken
<1>3. UNCHANGED <<spoken, buffer, want>> => TakenGrows /\ WantsAreBehind
  BY <1>1, <1>2 DEF WantsAreBehind
<1>4. /\ NoFrame \in Frames /\ ~IsToken(NoFrame) /\ NoFrame.mark = 0
      /\ \A kind \in FrameKinds : /\ Marked(kind) \in Frames /\ Marked(kind).mark = spoken
                                   /\ Frame(kind, 0, 0) \in Frames
      /\ Frame("exit", spoken, printed) \in Frames
  <2>1. NoFrame.kind # "token" /\ NoFrame.mark = 0
    BY DEF NoFrame, Frame
  <2>2. \A kind \in FrameKinds : Marked(kind).mark = spoken
    BY DEF Marked, Frame
  <2> QED
    BY <2>1, <2>2, MarkedType DEF IsToken, FrameKinds
<1>5. /\ EmitterOf("node") = "worker" /\ EmitterOf("line") = "worker"
      /\ EmitterOf("timer") = "worker" /\ EmitterOf("outside") = "outside"
      /\ {"node", "line", "timer", "outside"} \subseteq Tasks
  BY DEF EmitterOf, Tasks
<1>6. ASSUME NEW e \in Emitters, Publish(e)
      PROVE  TokensAhead'
  BY <1>6, PublishEnters, TokensEnter DEF Publish
<1>7. ASSUME NEW e \in Emitters, PublishFails(e)
      PROVE  TokensAhead'
  <2>1. queue[e] # <<>> /\ Returned(e) /\ UNCHANGED <<spoken, buffer, want, log>>
    BY <1>7 DEF PublishFails
  <2> QED
    BY <1>3, <2>1, TailThins, TokensThin
<1>8. ASSUME NEW t \in Tasks, EmitFlushed(t)
      PROVE  TokensAhead'
  <2>1. /\ Ask(t, want[t]) /\ want[t] \in Frames /\ want' = [want EXCEPT ![t] = NoFrame]
        /\ UNCHANGED <<spoken, buffer, log>>
    BY <1>1, <1>8 DEF EmitFlushed
  <2>2. TakenGrows /\ Taken' = Taken
    BY <1>2, <2>1
  <2>3. \A d \in Tasks : want'[d] = IF d = t THEN NoFrame ELSE want[d]
    BY <1>1, <2>1
  <2>4. WantsAreBehind
    BY <1>1, <1>4, <2>2, <2>3 DEF WantsAreBehind
  <2>5. Joins(t, want[t])
    BY <2>1, AskJoins
  <2> QED
    BY <1>1, <2>1, <2>2, <2>4, <2>5, TokensJoin
<1>9. CASE EmitToken
  <2> DEFINE f == Frame("token", spoken - buffer + 1, 0)
  <2>1. UNCHANGED <<log, want>> /\ spoken' = spoken + 1
    BY <1>9 DEF EmitToken
  <2>2. CASE buffer + 1 >= Coalesce
    <3>1. Ask("node", f) /\ buffer' = 0
      BY <1>9, <2>2 DEF EmitToken
    <3>2. TakenGrows
      BY <1>1, <2>1, <3>1 DEF TakenGrows, Taken
    <3>3. WantsAreBehind
      <4>1. \A d \in Tasks : want[d].mark \in Nat
        BY <1>1 DEF Frames
      <4> QED
        BY <1>1, <2>1, <3>2, <4>1 DEF WantsAreBehind, TakenGrows
    <3>4. f \in Frames /\ IsToken(f) /\ f.mark > Taken
      <4>1. f = TokenFrame
        BY DEF TokenFrame
      <4>2. f.kind = "token" /\ f.mark = spoken - buffer + 1
        BY DEF Frame
      <4> QED
        BY <1>1, <4>1, <4>2, TokenFrameType DEF IsToken, Taken
    <3> HIDE DEF f
    <3>5. Joins("node", f)
      BY <1>5, <3>1, <3>4, AskJoins
    <3> QED
      BY <1>5, <2>1, <3>2, <3>3, <3>4, <3>5, TokensJoin
  <2>3. CASE ~(buffer + 1 >= Coalesce)
    <3>1. queue' = queue /\ buffer' = buffer + 1
      BY <1>9, <2>3 DEF EmitToken
    <3>2. Taken' = Taken
      BY <1>1, <2>1, <3>1 DEF Taken
    <3>3. TakenGrows /\ WantsAreBehind /\ Thinned
      BY <1>1, <2>1, <3>1, <3>2 DEF TakenGrows, WantsAreBehind, Thinned
    <3> QED
      BY <2>1, <3>3, TokensThin
  <2> QED
    BY <2>2, <2>3
<1>10. CASE TimerFires
  <2>1. UNCHANGED <<log, want, spoken>>
    BY <1>10 DEF TimerFires
  <2>2. CASE buffer > 0
    <3>1. Ask("timer", TokenFrame) /\ buffer' = 0 /\ TokenFrame \in Frames
      BY <1>10, <2>2, TokenFrameType DEF TimerFires
    <3>2. TakenGrows /\ Taken' = spoken
      BY <1>1, <2>1, <3>1 DEF TakenGrows, Taken
    <3>3. WantsAreBehind
      <4>1. \A d \in Tasks : want[d].mark \in Nat
        BY <1>1 DEF Frames
      <4> QED
        BY <1>1, <2>1, <3>2, <4>1 DEF WantsAreBehind, TakenGrows
    <3>4. TokenFrame.mark > Taken /\ IsToken(TokenFrame)
      BY <1>1 DEF TokenFrame, Frame, Taken, IsToken
    <3>5. Joins("timer", TokenFrame)
      BY <1>5, <3>1, AskJoins
    <3> QED
      BY <1>5, <2>1, <3>1, <3>2, <3>3, <3>4, <3>5, TokensJoin
  <2>3. CASE ~(buffer > 0)
    BY <1>10, <2>1, <2>3, TokensQuiet DEF TimerFires
  <2> QED
    BY <2>2, <2>3
<1>11. CASE EmitFrame
  <2>1. Emit("node", Marked("frame")) /\ UNCHANGED <<log, spoken>>
    BY <1>11 DEF EmitFrame
  <2>2. ~IsToken(Marked("frame")) /\ "frame" \in FrameKinds
    BY DEF IsToken, Marked, Frame, FrameKinds
  <2> QED
    BY <1>1, <1>4, <1>5, <2>1, <2>2, TokensEmit
<1>12. CASE EmitEnd
  <2>1. Emit("node", Marked("end")) /\ UNCHANGED <<log, spoken>>
    BY <1>12 DEF EmitEnd
  <2>2. ~IsToken(Marked("end")) /\ "end" \in FrameKinds
    BY DEF IsToken, Marked, Frame, FrameKinds
  <2> QED
    BY <1>1, <1>4, <1>5, <2>1, <2>2, TokensEmit
<1>13. CASE AnnounceLaunch
  <2>1. Emit("node", Marked("start")) /\ UNCHANGED <<log, spoken>>
    BY <1>13 DEF AnnounceLaunch
  <2>2. ~IsToken(Marked("start")) /\ "start" \in FrameKinds
    BY DEF IsToken, Marked, Frame, FrameKinds
  <2> QED
    BY <1>1, <1>4, <1>5, <2>1, <2>2, TokensEmit
<1>14. CASE AnnounceExit
  <2>1. Emit("node", Frame("exit", spoken, printed)) /\ UNCHANGED <<log, spoken>>
    BY <1>14 DEF AnnounceExit
  <2>2. ~IsToken(Frame("exit", spoken, printed)) /\ Frame("exit", spoken, printed).mark = spoken
    BY DEF IsToken, Frame
  <2> QED
    BY <1>1, <1>4, <1>5, <2>1, <2>2, TokensEmit
<1>15. CASE EmitOutside
  <2>1. PICK kind \in {"notice", "end"} : Emit("outside", Frame(kind, 0, 0))
    BY <1>15 DEF EmitOutside
  <2>2. ~IsToken(Frame(kind, 0, 0)) /\ Frame(kind, 0, 0).mark = 0 /\ kind \in FrameKinds
    BY <2>1 DEF IsToken, Frame, FrameKinds
  <2>3. UNCHANGED <<log, spoken>>
    BY <1>15 DEF EmitOutside
  <2> QED
    BY <1>4, <1>5, <2>1, <2>2, <2>3, TokensEmit
<1>17. CASE Cancel
  <2>1. /\ Withdrawn("node") /\ want' = [want EXCEPT !["node"] = NoFrame]
        /\ UNCHANGED <<spoken, buffer, log>>
    BY <1>17 DEF Cancel
  <2>2. TakenGrows /\ Taken' = Taken
    BY <1>2, <2>1
  <2>3. \A d \in Tasks : want'[d] = IF d = "node" THEN NoFrame ELSE want[d]
    BY <1>1, <2>1
  <2>4. WantsAreBehind
    BY <1>1, <1>4, <2>2, <2>3 DEF WantsAreBehind
  <2> QED
    BY <1>5, <2>1, <2>2, <2>4, WithdrawnThins, TokensThin
<1>18. CASE Close
  <2>1. Withdrawn("timer") /\ UNCHANGED <<spoken, buffer, want, log>>
    BY <1>18 DEF Close
  <2> QED
    BY <1>3, <1>5, <2>1, WithdrawnThins, TokensThin
<1>19. ASSUME UNCHANGED <<log, queue, want, spoken, buffer>>
       PROVE  TokensAhead'
  BY <1>19, TokensQuiet
<1>20. ASSUME NEW e \in Emitters, Allocate(e)
       PROVE  TokensAhead'
  BY <1>19, <1>20 DEF Allocate
<1>21. CASE HandOver \/ PumpEnds \/ Trim \/ UNCHANGED logVars
  BY <1>19, <1>21 DEF HandOver, PumpEnds, Trim, logVars
<1>16. CASE LineStarts
  <2> DEFINE f == [Head(scheduled) EXCEPT !.mark = spoken]
  <2>1. Emit("line", f) /\ UNCHANGED <<log, spoken>> /\ scheduled # <<>>
    BY <1>16 DEF LineStarts
  <2>2. Head(scheduled) \in Frames /\ Head(scheduled).kind \in {"line", "tail"}
    BY <1>16, TailScheduled DEF LineStarts, PumpHandsLines
  <2>3. f \in Frames /\ f.mark = spoken /\ f.kind = Head(scheduled).kind
    BY <1>1, <2>2 DEF Frames
  <2>4. ~IsToken(f)
    BY <2>2, <2>3 DEF IsToken
  <2> HIDE DEF f
  <2> QED
    BY <1>1, <1>5, <2>1, <2>3, <2>4, TokensEmit
<1> QED
  BY <1>6, <1>7, <1>8, <1>9, <1>10, <1>11, <1>12, <1>13, <1>14, <1>15, <1>16,
     <1>17, <1>18, <1>20, <1>21 DEF LogNext

\* No frame of the worker overtakes the tokens that were spoken before it.
THEOREM TokensComeFirst == LogSpec => []TokensBeforeFrames
<1>1. LogInit => TokensAhead /\ PumpHandsLines
  BY DEF LogInit, TokensAhead, TokensBeforeFrames, PumpHandsLines, NoFrame, Frame,
     IsToken, Taken, Emitters
<1>2. TokensAhead => TokensBeforeFrames
  BY DEF TokensAhead
<1> QED
  BY <1>1, <1>2, InitType, TypeStep, PumpStep, TokensStep, PTL DEF LogSpec

-----------------------------------------------------------------------------
(* Lines and exits *)

IsLine(f) == f.kind = "line"
IsTold(f) == f.kind \in {"line", "exit"}

\* While an execution runs its buffer is empty, so a line that starts asks for
\* the lock at once, behind every line before it.
Joined ==
    /\ (job = "sandbox") = (pump = "on")
    /\ pump = "late" => overran
    /\ job = "sandbox" => buffer = 0

LinesInOrder ==
    /\ \A t \in Tasks : ~IsTold(want[t])
    /\ \A k \in DOMAIN queue["outside"] : ~IsTold(queue["outside"][k].frame)
    /\ \A k \in DOMAIN scheduled : IsLine(scheduled[k]) =>
         /\ job = "sandbox"
         /\ scheduled[k].n <= printed
         /\ \A i \in DOMAIN log : IsTold(log[i]) => log[i].n < scheduled[k].n
         /\ \A j \in DOMAIN queue["worker"] :
              IsTold(queue["worker"][j].frame)
                 => queue["worker"][j].frame.n < scheduled[k].n
    /\ \A j, k \in DOMAIN scheduled :
         j < k /\ IsLine(scheduled[j]) /\ IsLine(scheduled[k])
            => scheduled[j].n < scheduled[k].n
    /\ \A i \in DOMAIN log : IsTold(log[i]) =>
         /\ log[i].n <= printed
         /\ \A k \in DOMAIN queue["worker"] :
              IsLine(queue["worker"][k].frame) => log[i].n < queue["worker"][k].frame.n
    /\ \A k \in DOMAIN queue["worker"] :
         IsTold(queue["worker"][k].frame) => queue["worker"][k].frame.n <= printed
    /\ \A j, k \in DOMAIN queue["worker"] :
         j < k /\ IsTold(queue["worker"][j].frame) /\ IsLine(queue["worker"][k].frame)
            => queue["worker"][j].frame.n < queue["worker"][k].frame.n
    /\ \A i, j \in DOMAIN log :
         i < j /\ IsTold(log[i]) /\ IsLine(log[j]) => log[i].n < log[j].n

ConsoleAhead == ~overran => LinesInOrder

LEMMA JoinedStep == LogTypeOK /\ Joined /\ [LogNext]_logVars => Joined'
<1> SUFFICES ASSUME LogTypeOK, Joined, [LogNext]_logVars
             PROVE  Joined'
  OBVIOUS
<1>1. buffer \in Nat
  BY DEF LogTypeOK
<1>2. ASSUME NEW t \in Tasks, NEW f, Emit(t, f)
      PROVE  buffer = 0 => buffer' = 0
  BY <1>2 DEF Emit
<1>3. {"node", "line", "outside", "timer"} \subseteq Tasks /\ EmitterOf("node") = "worker"
  BY DEF Tasks, EmitterOf
<1>4. ASSUME UNCHANGED <<job, pump, overran>>, buffer = 0 => buffer' = 0
      PROVE  Joined'
  BY <1>4 DEF Joined
<1>5. ASSUME NEW e \in Emitters, Allocate(e) \/ Publish(e) \/ PublishFails(e)
      PROVE  Joined'
  BY <1>4, <1>5 DEF Allocate, Publish, PublishFails
<1>6. ASSUME NEW t \in Tasks, EmitFlushed(t)
      PROVE  Joined'
  BY <1>4, <1>6 DEF EmitFlushed
<1>7. CASE EmitToken
  BY <1>7 DEF EmitToken, Joined
<1>8. CASE TimerFires
  BY <1>4, <1>8 DEF TimerFires
<1>9. CASE EmitFrame
  BY <1>2, <1>3, <1>4, <1>9 DEF EmitFrame
<1>10. CASE EmitEnd
  BY <1>10 DEF EmitEnd, Joined
<1>11. CASE AnnounceLaunch
  <2>1. buffer' = 0
    <3>1. Emit("node", Marked("start"))
      BY <1>11 DEF AnnounceLaunch
    <3> QED
      BY <1>1, <1>3, <3>1 DEF Emit
  <2> QED
    BY <1>11, <2>1 DEF AnnounceLaunch, Joined
<1>12. CASE LineStarts
  BY <1>2, <1>3, <1>4, <1>12 DEF LineStarts
<1>13. CASE AnnounceExit
  BY <1>13 DEF AnnounceExit, Joined
<1>14. CASE EmitOutside
  BY <1>2, <1>3, <1>4, <1>14 DEF EmitOutside
<1>15. CASE PumpEnds \/ Cancel \/ Close
  BY <1>15 DEF PumpEnds, Cancel, Close, Joined
<1>16. CASE HandOver \/ Trim \/ UNCHANGED logVars
  BY <1>4, <1>16 DEF HandOver, Trim, logVars
<1> QED
  BY <1>5, <1>6, <1>7, <1>8, <1>9, <1>10, <1>11, <1>12, <1>13, <1>14, <1>15, <1>16 DEF LogNext

\* The lines that wait for the loop stay or leave, in order, and are there only
\* while the execution is.
LinesThin ==
    /\ \A k \in DOMAIN scheduled' : IsLine(scheduled'[k]) =>
         job' = "sandbox" /\ \E b \in DOMAIN scheduled : scheduled'[k] = scheduled[b]
    /\ \A j, k \in DOMAIN scheduled' :
         j < k /\ IsLine(scheduled'[j]) /\ IsLine(scheduled'[k])
            => \E a, b \in DOMAIN scheduled :
                   /\ a < b
                   /\ scheduled'[j] = scheduled[a] /\ scheduled'[k] = scheduled[b]

LEMMA LinesStay ==
    ASSUME LinesInOrder, scheduled' = scheduled, job = "sandbox" => job' = "sandbox"
    PROVE  LinesThin
BY DEF LinesInOrder, LinesThin

NothingTold == \A t \in Tasks : ~IsTold(want'[t])

LEMMA LinesAfterThinning ==
    ASSUME LogTypeOK, LinesInOrder, LinesThin, NothingTold, Thinned, UNCHANGED <<log, printed>>
    PROVE  LinesInOrder'
<1> DEFINE q == queue["worker"]
           r == queue'["worker"]
           o == queue["outside"]
           p == queue'["outside"]
           s == scheduled
           u == scheduled'
<1>1. "worker" \in Emitters /\ "outside" \in Emitters
  BY DEF Emitters
<1>2. /\ \A k \in DOMAIN p : \E b \in DOMAIN o : p[k] = o[b]
      /\ \A k \in DOMAIN r : \E b \in DOMAIN q : r[k] = q[b]
      /\ \A j, k \in DOMAIN r :
           j < k => \E a, b \in DOMAIN q : a < b /\ r[j] = q[a] /\ r[k] = q[b]
  BY <1>1 DEF Thinned
<1>3. /\ \A k \in DOMAIN o : ~IsTold(o[k].frame)
      /\ \A k \in DOMAIN s : IsLine(s[k]) =>
           /\ s[k].n <= printed
           /\ \A i \in DOMAIN log : IsTold(log[i]) => log[i].n < s[k].n
           /\ \A j \in DOMAIN q : IsTold(q[j].frame) => q[j].frame.n < s[k].n
      /\ \A j, k \in DOMAIN s : j < k /\ IsLine(s[j]) /\ IsLine(s[k]) => s[j].n < s[k].n
      /\ \A i \in DOMAIN log : IsTold(log[i]) =>
           /\ log[i].n <= printed
           /\ \A k \in DOMAIN q : IsLine(q[k].frame) => log[i].n < q[k].frame.n
      /\ \A k \in DOMAIN q : IsTold(q[k].frame) => q[k].frame.n <= printed
      /\ \A j, k \in DOMAIN q :
           j < k /\ IsTold(q[j].frame) /\ IsLine(q[k].frame) => q[j].frame.n < q[k].frame.n
      /\ \A i, j \in DOMAIN log :
           i < j /\ IsTold(log[i]) /\ IsLine(log[j]) => log[i].n < log[j].n
  BY DEF LinesInOrder
<1>4. /\ \A k \in DOMAIN u : IsLine(u[k]) =>
           job' = "sandbox" /\ \E b \in DOMAIN s : u[k] = s[b]
      /\ \A j, k \in DOMAIN u :
           j < k /\ IsLine(u[j]) /\ IsLine(u[k])
              => \E a, b \in DOMAIN s : a < b /\ u[j] = s[a] /\ u[k] = s[b]
  BY DEF LinesThin
<1> HIDE DEF q, r, o, p, s, u
<1>5. \A k \in DOMAIN p : ~IsTold(p[k].frame)
  BY <1>2, <1>3
<1>6. ASSUME NEW k \in DOMAIN u, IsLine(u[k])
      PROVE  /\ job' = "sandbox" /\ u[k].n <= printed
             /\ \A i \in DOMAIN log : IsTold(log[i]) => log[i].n < u[k].n
             /\ \A j \in DOMAIN r : IsTold(r[j].frame) => r[j].frame.n < u[k].n
  BY <1>2, <1>3, <1>4, <1>6
<1>7. ASSUME NEW j \in DOMAIN u, NEW k \in DOMAIN u, j < k, IsLine(u[j]), IsLine(u[k])
      PROVE  u[j].n < u[k].n
  BY <1>3, <1>4, <1>7
<1>8. ASSUME NEW i \in DOMAIN log, IsTold(log[i])
      PROVE  /\ log[i].n <= printed
             /\ \A k \in DOMAIN r : IsLine(r[k].frame) => log[i].n < r[k].frame.n
  BY <1>2, <1>3, <1>8
<1>9. \A k \in DOMAIN r : IsTold(r[k].frame) => r[k].frame.n <= printed
  BY <1>2, <1>3
<1>10. ASSUME NEW j \in DOMAIN r, NEW k \in DOMAIN r,
              j < k, IsTold(r[j].frame), IsLine(r[k].frame)
       PROVE  r[j].frame.n < r[k].frame.n
  BY <1>2, <1>3, <1>10
<1> QED
  BY <1>3, <1>5, <1>6, <1>7, <1>8, <1>9, <1>10 DEF LinesInOrder, NothingTold, r, p, u

\* A frame joins the queue: a line only behind everything that was told before.
LEMMA LinesAfterJoin ==
    ASSUME LogTypeOK, LinesInOrder, LinesThin, NothingTold, UNCHANGED <<log, printed>>,
           NEW t \in Tasks, NEW f \in Frames, Joins(t, f),
           IsTold(f) =>
              /\ EmitterOf(t) = "worker" /\ f.n <= printed
              /\ \A k \in DOMAIN scheduled' : IsLine(scheduled'[k]) => f.n < scheduled'[k].n,
           IsLine(f) =>
              /\ \A i \in DOMAIN log : IsTold(log[i]) => log[i].n < f.n
              /\ \A k \in DOMAIN queue["worker"] :
                   IsTold(queue["worker"][k].frame) => queue["worker"][k].frame.n < f.n
    PROVE  LinesInOrder'
<1> DEFINE q == queue["worker"]
           r == queue'["worker"]
           o == queue["outside"]
           p == queue'["outside"]
           s == scheduled
           u == scheduled'
           last == Len(q) + 1
           end == Len(o) + 1
<1>1. /\ "worker" \in Emitters /\ "outside" \in Emitters
      /\ EmitterOf(t) \in {"worker", "outside"}
      /\ DOMAIN q = 1..Len(q) /\ Len(q) \in Nat
      /\ DOMAIN o = 1..Len(o) /\ Len(o) \in Nat
  BY QueueType, EmitterOfType DEF Emitters
<1>2. CASE EmitterOf(t) = "outside"
  <2>1. /\ r = q /\ ~IsTold(f)
        /\ DOMAIN p = 1..end /\ p[end].frame = f
        /\ \A k \in DOMAIN o : p[k] = o[k]
    BY <1>1, <1>2, JoinsShape DEF Joins
  <2>2. \A k \in DOMAIN p : k \in DOMAIN o \/ k = end
    BY <1>1, <2>1
  <2>3. \A k \in DOMAIN p : ~IsTold(p[k].frame)
    BY <2>1, <2>2 DEF LinesInOrder
  <2>4. \A k \in DOMAIN u : IsLine(u[k]) =>
           /\ job' = "sandbox" /\ u[k].n <= printed
           /\ \A i \in DOMAIN log : IsTold(log[i]) => log[i].n < u[k].n
           /\ \A j \in DOMAIN q : IsTold(q[j].frame) => q[j].frame.n < u[k].n
    BY DEF LinesInOrder, LinesThin
  <2>5. \A j, k \in DOMAIN u : j < k /\ IsLine(u[j]) /\ IsLine(u[k]) => u[j].n < u[k].n
    BY DEF LinesInOrder, LinesThin
  <2> QED
    BY <2>1, <2>3, <2>4, <2>5 DEF LinesInOrder, NothingTold
<1>3. CASE EmitterOf(t) = "worker"
  <2>1. /\ p = o /\ DOMAIN r = 1..last /\ r[last].frame = f
        /\ \A k \in DOMAIN q : r[k] = q[k]
    BY <1>1, <1>3, JoinsShape DEF Joins
  <2>2. /\ \A k \in DOMAIN r : k \in DOMAIN q \/ k = last
        /\ \A j, k \in DOMAIN r : j < k => j \in DOMAIN q
    BY <1>1, <2>1
  <2>3. /\ \A k \in DOMAIN s : IsLine(s[k]) =>
             /\ s[k].n <= printed
             /\ \A i \in DOMAIN log : IsTold(log[i]) => log[i].n < s[k].n
             /\ \A j \in DOMAIN q : IsTold(q[j].frame) => q[j].frame.n < s[k].n
        /\ \A j, k \in DOMAIN s : j < k /\ IsLine(s[j]) /\ IsLine(s[k]) => s[j].n < s[k].n
        /\ \A i \in DOMAIN log : IsTold(log[i]) =>
             /\ log[i].n <= printed
             /\ \A k \in DOMAIN q : IsLine(q[k].frame) => log[i].n < q[k].frame.n
        /\ \A k \in DOMAIN q : IsTold(q[k].frame) => q[k].frame.n <= printed
        /\ \A j, k \in DOMAIN q :
             j < k /\ IsTold(q[j].frame) /\ IsLine(q[k].frame) => q[j].frame.n < q[k].frame.n
        /\ \A i \in DOMAIN log : IsTold(log[i]) /\ IsLine(f) => log[i].n < f.n
        /\ \A k \in DOMAIN q : IsTold(q[k].frame) /\ IsLine(f) => q[k].frame.n < f.n
        /\ IsTold(f) => f.n <= printed
        /\ IsTold(f) => \A k \in DOMAIN u : IsLine(u[k]) => f.n < u[k].n
    BY DEF LinesInOrder
  <2>4. /\ \A k \in DOMAIN u : IsLine(u[k]) =>
             job' = "sandbox" /\ \E b \in DOMAIN s : u[k] = s[b]
        /\ \A j, k \in DOMAIN u :
             j < k /\ IsLine(u[j]) /\ IsLine(u[k])
                => \E a, b \in DOMAIN s : a < b /\ u[j] = s[a] /\ u[k] = s[b]
    BY DEF LinesThin
  <2> HIDE DEF q, r, s, u, last
  <2>5. ASSUME NEW k \in DOMAIN u, IsLine(u[k])
        PROVE  /\ job' = "sandbox" /\ u[k].n <= printed
               /\ \A i \in DOMAIN log : IsTold(log[i]) => log[i].n < u[k].n
               /\ \A j \in DOMAIN r : IsTold(r[j].frame) => r[j].frame.n < u[k].n
    BY <2>1, <2>2, <2>3, <2>4, <2>5
  <2>6. ASSUME NEW j \in DOMAIN u, NEW k \in DOMAIN u, j < k, IsLine(u[j]), IsLine(u[k])
        PROVE  u[j].n < u[k].n
    BY <2>3, <2>4, <2>6
  <2>7. ASSUME NEW i \in DOMAIN log, IsTold(log[i])
        PROVE  /\ log[i].n <= printed
               /\ \A k \in DOMAIN r : IsLine(r[k].frame) => log[i].n < r[k].frame.n
    BY <2>1, <2>2, <2>3, <2>7
  <2>8. \A k \in DOMAIN r : IsTold(r[k].frame) => r[k].frame.n <= printed
    BY <2>1, <2>2, <2>3
  <2>9. ASSUME NEW j \in DOMAIN r, NEW k \in DOMAIN r,
               j < k, IsTold(r[j].frame), IsLine(r[k].frame)
        PROVE  r[j].frame.n < r[k].frame.n
    BY <2>1, <2>2, <2>3, <2>9
  <2> QED
    BY <2>1, <2>5, <2>6, <2>7, <2>8, <2>9 DEF LinesInOrder, NothingTold, r, u
<1> QED
  BY <1>1, <1>2, <1>3

LEMMA LinesAfterEntry ==
    ASSUME LogTypeOK, LogTypeOK', LinesInOrder, NEW e \in Emitters, Enters(e),
           UNCHANGED <<want, scheduled, job, printed>>
    PROVE  LinesInOrder'
<1> DEFINE q == queue["worker"]
           r == queue'["worker"]
           last == Len(log) + 1
<1>1. /\ "worker" \in Emitters /\ "outside" \in Emitters /\ e \in {"worker", "outside"}
      /\ last \in Nat /\ DOMAIN log' = 1..last
      /\ \A i \in DOMAIN log' : i \in DOMAIN log \/ i = last
      /\ \A i, j \in DOMAIN log' : i < j => i \in DOMAIN log
      /\ \A i \in DOMAIN log : log'[i] = log[i]
      /\ 1 \in DOMAIN queue[e]
      /\ log'[last].n = queue[e][1].frame.n
      /\ IsTold(log'[last]) = IsTold(queue[e][1].frame)
      /\ IsLine(log'[last]) = IsLine(queue[e][1].frame)
  BY EntersShape DEF Emitters, IsTold, IsLine
<1>2. /\ \A k \in DOMAIN scheduled : IsLine(scheduled[k]) =>
           /\ job = "sandbox" /\ scheduled[k].n <= printed
           /\ \A i \in DOMAIN log : IsTold(log[i]) => log[i].n < scheduled[k].n
           /\ \A j \in DOMAIN q : IsTold(q[j].frame) => q[j].frame.n < scheduled[k].n
      /\ \A i \in DOMAIN log : IsTold(log[i]) =>
           /\ log[i].n <= printed
           /\ \A k \in DOMAIN q : IsLine(q[k].frame) => log[i].n < q[k].frame.n
      /\ \A k \in DOMAIN q : IsTold(q[k].frame) => q[k].frame.n <= printed
      /\ \A j, k \in DOMAIN q :
           j < k /\ IsTold(q[j].frame) /\ IsLine(q[k].frame) => q[j].frame.n < q[k].frame.n
      /\ \A i, j \in DOMAIN log :
           i < j /\ IsTold(log[i]) /\ IsLine(log[j]) => log[i].n < log[j].n
      /\ \A k \in DOMAIN queue["outside"] : ~IsTold(queue["outside"][k].frame)
      /\ \A t \in Tasks : ~IsTold(want[t])
      /\ \A j, k \in DOMAIN scheduled :
           j < k /\ IsLine(scheduled[j]) /\ IsLine(scheduled[k])
              => scheduled[j].n < scheduled[k].n
  BY DEF LinesInOrder
<1>3. CASE e = "outside"
  <2>1. /\ r = q
        /\ \A k \in DOMAIN queue'["outside"] :
             /\ k + 1 \in DOMAIN queue["outside"]
             /\ queue'["outside"][k] = queue["outside"][k + 1]
    BY <1>1, <1>3, EntersShape DEF Enters
  <2>2. ~IsTold(queue["outside"][1].frame) /\ ~IsLine(queue["outside"][1].frame)
    BY <1>1, <1>2, <1>3 DEF IsTold, IsLine
  <2>3. ~IsTold(log'[last]) /\ ~IsLine(log'[last])
    BY <1>1, <1>3, <2>2
  <2>4. \A k \in DOMAIN queue'["outside"] : ~IsTold(queue'["outside"][k].frame)
    BY <1>2, <2>1
  <2>5. \A i \in DOMAIN log' : IsTold(log'[i]) => i \in DOMAIN log /\ log'[i] = log[i]
    BY <1>1, <2>3
  <2>6. \A i, j \in DOMAIN log' :
           i < j /\ IsTold(log'[i]) /\ IsLine(log'[j]) => log'[i].n < log'[j].n
    <3>1. \A j \in DOMAIN log' : IsLine(log'[j]) => j \in DOMAIN log /\ log'[j] = log[j]
      BY <1>1, <2>3
    <3> QED
      BY <1>2, <2>5, <3>1
  <2> HIDE DEF last
  <2> QED
    BY <1>2, <2>1, <2>4, <2>5, <2>6 DEF LinesInOrder
<1>4. CASE e = "worker"
  <2>1. /\ queue'["outside"] = queue["outside"]
        /\ 1 \in DOMAIN q /\ log'[last].n = q[1].frame.n
        /\ IsTold(log'[last]) = IsTold(q[1].frame)
        /\ IsLine(log'[last]) = IsLine(q[1].frame)
        /\ \A k \in DOMAIN r : /\ k + 1 \in DOMAIN q /\ r[k] = q[k + 1]
                                /\ k \in Nat /\ 1 < k + 1
    BY <1>1, <1>4, EntersShape DEF Enters
  <2> HIDE DEF q, r, last
  <2>2. ASSUME NEW k \in DOMAIN scheduled, IsLine(scheduled[k])
        PROVE  /\ job = "sandbox" /\ scheduled[k].n <= printed
               /\ \A i \in DOMAIN log' : IsTold(log'[i]) => log'[i].n < scheduled[k].n
               /\ \A j \in DOMAIN r : IsTold(r[j].frame) => r[j].frame.n < scheduled[k].n
    BY <1>1, <1>2, <2>1, <2>2
  <2>3. ASSUME NEW i \in DOMAIN log', IsTold(log'[i])
        PROVE  /\ log'[i].n <= printed
               /\ \A k \in DOMAIN r : IsLine(r[k].frame) => log'[i].n < r[k].frame.n
    <3>1. CASE i = last
      BY <1>2, <2>1, <2>3, <3>1
    <3>2. CASE i \in DOMAIN log
      BY <1>1, <1>2, <2>1, <2>3, <3>2
    <3> QED
      BY <1>1, <3>1, <3>2
  <2>4. \A k \in DOMAIN r : IsTold(r[k].frame) => r[k].frame.n <= printed
    BY <1>2, <2>1
  <2>5. ASSUME NEW j \in DOMAIN r, NEW k \in DOMAIN r,
               j < k, IsTold(r[j].frame), IsLine(r[k].frame)
        PROVE  r[j].frame.n < r[k].frame.n
    BY <1>2, <2>1, <2>5
  <2>6. ASSUME NEW i \in DOMAIN log', NEW j \in DOMAIN log',
               i < j, IsTold(log'[i]), IsLine(log'[j])
        PROVE  log'[i].n < log'[j].n
    <3>1. i \in DOMAIN log /\ log'[i] = log[i]
      BY <1>1, <2>6
    <3>2. CASE j = last
      BY <1>2, <2>1, <2>6, <3>1, <3>2
    <3>3. CASE j \in DOMAIN log
      BY <1>1, <1>2, <2>6, <3>1, <3>3
    <3> QED
      BY <1>1, <3>2, <3>3
  <2> QED
    BY <1>2, <2>1, <2>2, <2>3, <2>4, <2>5, <2>6 DEF LinesInOrder, r
<1> QED
  BY <1>1, <1>3, <1>4

\* A frame is emitted; one that tells of the console finds the buffer empty.
LEMMA LinesAfterEmit ==
    ASSUME LogTypeOK, LinesInOrder, LinesThin, UNCHANGED <<log, printed>>,
           NEW t \in Tasks, NEW f \in Frames, Emit(t, f),
           IsTold(f) =>
              /\ EmitterOf(t) = "worker" /\ buffer = 0 /\ f.n <= printed
              /\ \A k \in DOMAIN scheduled' : IsLine(scheduled'[k]) => f.n < scheduled'[k].n,
           IsLine(f) =>
              /\ \A i \in DOMAIN log : IsTold(log[i]) => log[i].n < f.n
              /\ \A k \in DOMAIN queue["worker"] :
                   IsTold(queue["worker"][k].frame) => queue["worker"][k].frame.n < f.n
    PROVE  LinesInOrder'
<1>1. want \in [Tasks -> Frames] /\ \A d \in Tasks : ~IsTold(want[d])
  BY DEF LogTypeOK, LinesInOrder
<1>2. CASE buffer > 0 /\ EmitterOf(t) = "worker"
  <2>1. /\ Ask(t, TokenFrame) /\ TokenFrame \in Frames
        /\ want' = [want EXCEPT ![t] = f] /\ ~IsTold(f)
    BY <1>2, TokenFrameType DEF Emit
  <2>2. NothingTold
    BY <1>1, <2>1 DEF NothingTold
  <2>3. ~IsTold(TokenFrame) /\ ~IsLine(TokenFrame)
    BY DEF TokenFrame, Frame, IsTold, IsLine
  <2>4. Joins(t, TokenFrame)
    BY <2>1, AskJoins
  <2> QED
    BY <2>1, <2>2, <2>3, <2>4, LinesAfterJoin
<1>3. CASE ~(buffer > 0 /\ EmitterOf(t) = "worker")
  <2>1. Ask(t, f) /\ want' = want
    BY <1>3 DEF Emit
  <2>2. NothingTold
    BY <1>1, <2>1 DEF NothingTold
  <2>3. Joins(t, f)
    BY <2>1, AskJoins
  <2> QED
    BY <2>2, <2>3, LinesAfterJoin
<1> QED
  BY <1>2, <1>3

\* The log thread hands over the next line while the execution runs.
LEMMA LinesAfterHandOver ==
    ASSUME LogTypeOK, LinesInOrder, HandOver, job = "sandbox"
    PROVE  LinesInOrder'
<1> DEFINE f == Frame("line", 0, printed + 1)
           last == Len(scheduled) + 1
<1>1. /\ f \in Frames /\ f.n = printed + 1 /\ printed' = printed + 1 /\ printed \in Nat
      /\ scheduled' = Append(scheduled, f) /\ UNCHANGED <<log, queue, want, job>>
  BY MarkedType DEF HandOver, Frame, FrameKinds, LogTypeOK
<1> HIDE DEF f
<1>2. /\ \A k \in DOMAIN scheduled' : k \in DOMAIN scheduled \/ k = last
      /\ \A j, k \in DOMAIN scheduled' : j < k => j \in DOMAIN scheduled
      /\ \A k \in DOMAIN scheduled : scheduled'[k] = scheduled[k]
      /\ scheduled'[last] = f
  BY <1>1, LongerScheduled
<1>3. /\ \A i \in DOMAIN log : log[i].n \in Nat
      /\ \A k \in DOMAIN queue["worker"] : queue["worker"][k].frame.n \in Nat
      /\ \A k \in DOMAIN scheduled : scheduled[k].n \in Nat
  <2>1. \A k \in DOMAIN scheduled : scheduled[k] \in Frames
    BY DEF LogTypeOK
  <2> QED
    BY <2>1, QueueType, LogType DEF Emitters, Frames
<1> HIDE DEF last
<1>4. ASSUME NEW k \in DOMAIN scheduled', IsLine(scheduled'[k])
      PROVE  /\ scheduled'[k].n <= printed'
             /\ \A i \in DOMAIN log : IsTold(log[i]) => log[i].n < scheduled'[k].n
             /\ \A j \in DOMAIN queue["worker"] :
                  IsTold(queue["worker"][j].frame)
                     => queue["worker"][j].frame.n < scheduled'[k].n
  <2>1. CASE k = last
    <3>1. scheduled'[k].n = printed + 1
      BY <1>1, <1>2, <2>1
    <3>2. \A i \in DOMAIN log : IsTold(log[i]) => log[i].n <= printed
      BY DEF LinesInOrder
    <3>3. \A j \in DOMAIN queue["worker"] :
              IsTold(queue["worker"][j].frame) => queue["worker"][j].frame.n <= printed
      BY DEF LinesInOrder
    <3> QED
      BY <1>1, <1>3, <3>1, <3>2, <3>3
  <2>2. CASE k \in DOMAIN scheduled
    <3>1. scheduled'[k] = scheduled[k] /\ scheduled[k].n <= printed
      BY <1>2, <1>4, <2>2 DEF LinesInOrder
    <3> QED
      BY <1>1, <1>3, <1>4, <2>2, <3>1 DEF LinesInOrder
  <2> QED
    BY <1>2, <2>1, <2>2
<1>5. ASSUME NEW j \in DOMAIN scheduled', NEW k \in DOMAIN scheduled',
             j < k, IsLine(scheduled'[j]), IsLine(scheduled'[k])
      PROVE  scheduled'[j].n < scheduled'[k].n
  <2>1. j \in DOMAIN scheduled /\ scheduled'[j] = scheduled[j] /\ scheduled[j].n <= printed
    BY <1>2, <1>5 DEF LinesInOrder
  <2>2. CASE k = last
    BY <1>1, <1>2, <1>3, <2>1, <2>2
  <2>3. CASE k \in DOMAIN scheduled
    BY <1>2, <1>5, <2>1, <2>3 DEF LinesInOrder
  <2> QED
    BY <1>2, <2>2, <2>3
<1>6. /\ \A i \in DOMAIN log : IsTold(log[i]) => log[i].n <= printed'
      /\ \A k \in DOMAIN queue["worker"] :
           IsTold(queue["worker"][k].frame) => queue["worker"][k].frame.n <= printed'
  <2>1. /\ \A i \in DOMAIN log : IsTold(log[i]) => log[i].n <= printed
        /\ \A k \in DOMAIN queue["worker"] :
             IsTold(queue["worker"][k].frame) => queue["worker"][k].frame.n <= printed
    BY DEF LinesInOrder
  <2> QED
    BY <1>1, <1>3, <2>1
<1> QED
  BY <1>1, <1>4, <1>5, <1>6 DEF LinesInOrder

LEMMA ConsoleStep ==
    /\ LogTypeOK /\ LogTypeOK' /\ Joined /\ PumpHandsLines /\ ConsoleAhead
    /\ [LogNext]_logVars
    => ConsoleAhead'
<1> SUFFICES ASSUME LogTypeOK, LogTypeOK', Joined, PumpHandsLines, ConsoleAhead,
                    [LogNext]_logVars, ~overran'
             PROVE  LinesInOrder'
  BY DEF ConsoleAhead
<1>1. overran => overran'
  <2>1. ASSUME NEW e \in Emitters, Allocate(e) \/ Publish(e) \/ PublishFails(e)
        PROVE  overran' = overran
    BY <2>1 DEF Allocate, Publish, PublishFails
  <2>2. ASSUME NEW t \in Tasks, EmitFlushed(t)
        PROVE  overran' = overran
    BY <2>2 DEF EmitFlushed
  <2>3. CASE EmitToken \/ TimerFires \/ EmitFrame \/ EmitEnd \/ AnnounceLaunch \/ HandOver
    BY <2>3 DEF EmitToken, TimerFires, EmitFrame, EmitEnd, AnnounceLaunch, HandOver
  <2>4. CASE LineStarts \/ PumpEnds \/ Close \/ EmitOutside \/ Trim \/ UNCHANGED logVars
    BY <2>4 DEF LineStarts, PumpEnds, Close, EmitOutside, Trim, logVars
  <2>5. CASE AnnounceExit
    BY <2>5 DEF AnnounceExit
  <2>6. CASE Cancel
    BY <2>6 DEF Cancel
  <2> QED
    BY <2>1, <2>2, <2>3, <2>4, <2>5, <2>6 DEF LogNext
<1>2. ~overran /\ LinesInOrder /\ pump # "late"
  BY <1>1 DEF ConsoleAhead, Joined
<1>3. /\ EmitterOf("node") = "worker" /\ EmitterOf("line") = "worker"
      /\ EmitterOf("timer") = "worker" /\ EmitterOf("outside") = "outside"
      /\ {"node", "line", "timer", "outside"} \subseteq Tasks
      /\ want \in [Tasks -> Frames] /\ \A d \in Tasks : ~IsTold(want[d])
  BY <1>2 DEF EmitterOf, Tasks, LogTypeOK, LinesInOrder
<1>4. /\ \A kind \in FrameKinds : /\ Marked(kind) \in Frames /\ Frame(kind, 0, 0) \in Frames
                                   /\ Marked(kind).kind = kind /\ Frame(kind, 0, 0).kind = kind
      /\ Frame("exit", spoken, printed) \in Frames
      /\ {"frame", "start", "end", "notice"} \subseteq FrameKinds
  <2>1. \A kind \in FrameKinds : Marked(kind).kind = kind /\ Frame(kind, 0, 0).kind = kind
    BY DEF Marked, Frame
  <2> QED
    BY <2>1, MarkedType DEF FrameKinds
<1>5. ASSUME scheduled' = scheduled, job' = job
      PROVE  LinesThin
  BY <1>2, <1>5, LinesStay
<1>6. ASSUME NEW t \in Tasks, NEW f \in Frames, Emit(t, f), ~IsTold(f),
             UNCHANGED <<log, printed, scheduled>>, job = "sandbox" => job' = "sandbox"
      PROVE  LinesInOrder'
  <2>1. ~IsLine(f)
    BY <1>6 DEF IsTold, IsLine
  <2> QED
    BY <1>2, <1>6, <2>1, LinesStay, LinesAfterEmit
<1>7. ASSUME UNCHANGED <<log, queue, want, scheduled, job, printed>>
      PROVE  LinesInOrder'
  BY <1>2, <1>7 DEF LinesInOrder
<1>8. ASSUME NEW e \in Emitters, Publish(e)
      PROVE  LinesInOrder'
  BY <1>2, <1>8, PublishEnters, LinesAfterEntry DEF Publish
<1>9. ASSUME NEW e \in Emitters, PublishFails(e)
      PROVE  LinesInOrder'
  <2>1. /\ queue[e] # <<>> /\ Returned(e)
        /\ UNCHANGED <<log, want, scheduled, job, printed>>
    BY <1>9 DEF PublishFails
  <2>2. NothingTold
    BY <1>3, <2>1 DEF NothingTold
  <2> QED
    BY <1>2, <1>5, <2>1, <2>2, TailThins, LinesAfterThinning
<1>10. ASSUME NEW t \in Tasks, EmitFlushed(t)
       PROVE  LinesInOrder'
  <2>1. /\ Ask(t, want[t]) /\ want[t] \in Frames /\ want' = [want EXCEPT ![t] = NoFrame]
        /\ UNCHANGED <<log, scheduled, job, printed>>
    BY <1>3, <1>10 DEF EmitFlushed
  <2>2. ~IsTold(want[t]) /\ ~IsLine(want[t])
    BY <1>3 DEF IsTold, IsLine
  <2>3. NothingTold
    <3>1. NoFrame.kind = "frame"
      BY DEF NoFrame, Frame
    <3> QED
      BY <1>3, <2>1, <3>1 DEF NothingTold, IsTold
  <2>4. Joins(t, want[t])
    BY <2>1, AskJoins
  <2> QED
    BY <1>2, <1>5, <2>1, <2>2, <2>3, <2>4, LinesAfterJoin
<1>11. ASSUME NEW t \in Tasks, NEW f \in Frames, Ask(t, f), f.kind = "token",
              UNCHANGED <<log, want, scheduled, job, printed>>
       PROVE  LinesInOrder'
  <2>1. ~IsTold(f) /\ ~IsLine(f)
    BY <1>11 DEF IsTold, IsLine
  <2>2. NothingTold
    BY <1>3, <1>11 DEF NothingTold
  <2> QED
    BY <1>2, <1>5, <1>11, <2>1, <2>2, AskJoins, LinesAfterJoin
<1>12. CASE EmitToken \/ TimerFires
  <2>1. UNCHANGED <<log, want, scheduled, job, printed>>
    BY <1>12 DEF EmitToken, TimerFires
  <2>2. TokenFrame \in Frames /\ TokenFrame.kind = "token"
    BY TokenFrameType DEF TokenFrame, Frame
  <2>3. queue' = queue \/ Ask("node", TokenFrame) \/ Ask("timer", TokenFrame)
    BY <1>12 DEF EmitToken, TimerFires, TokenFrame
  <2> QED
    BY <1>3, <1>7, <1>11, <2>1, <2>2, <2>3
<1>13. CASE EmitFrame
  <2>1. ~IsTold(Marked("frame"))
    BY <1>4 DEF IsTold
  <2> QED
    BY <1>3, <1>4, <1>6, <1>13, <2>1 DEF EmitFrame
<1>14. CASE EmitEnd
  <2>1. ~IsTold(Marked("end"))
    BY <1>4 DEF IsTold
  <2> QED
    BY <1>3, <1>4, <1>6, <1>14, <2>1 DEF EmitEnd
<1>15. CASE AnnounceLaunch
  <2>1. ~IsTold(Marked("start"))
    BY <1>4 DEF IsTold
  <2> QED
    BY <1>3, <1>4, <1>6, <1>15, <2>1 DEF AnnounceLaunch
<1>16. CASE EmitOutside
  <2>1. PICK kind \in {"notice", "end"} : Emit("outside", Frame(kind, 0, 0))
    BY <1>16 DEF EmitOutside
  <2>2. ~IsTold(Frame(kind, 0, 0)) /\ Frame(kind, 0, 0) \in Frames
    BY <1>4, <2>1 DEF IsTold
  <2> QED
    BY <1>3, <1>6, <1>16, <2>1, <2>2 DEF EmitOutside
<1>17. CASE HandOver
  BY <1>2, <1>17, LinesAfterHandOver DEF HandOver, Joined, LogTypeOK
<1>18. CASE LineStarts
  <2> DEFINE f == [Head(scheduled) EXCEPT !.mark = spoken]
  <2>1. Emit("line", f) /\ scheduled # <<>> /\ scheduled' = Tail(scheduled)
        /\ UNCHANGED <<log, printed, job>>
    BY <1>18 DEF LineStarts
  <2>2. /\ scheduled[1] = Head(scheduled) /\ 1 \in DOMAIN scheduled
        /\ Head(scheduled) \in Frames
        /\ \A k \in DOMAIN scheduled' :
             /\ k \in Nat /\ 1 < k + 1 /\ k + 1 \in DOMAIN scheduled
             /\ scheduled'[k] = scheduled[k + 1]
    BY <2>1, TailScheduled
  <2>3. /\ f \in Frames /\ f.kind = scheduled[1].kind /\ f.n = scheduled[1].n
    <3>1. spoken \in Nat
      BY DEF LogTypeOK
    <3> QED
      BY <2>2, <3>1 DEF Frames
  <2>4. IsTold(f) => IsLine(f) /\ IsLine(scheduled[1])
    BY <2>2, <2>3 DEF IsTold, IsLine, PumpHandsLines
  <2> HIDE DEF f
  <2>5. LinesThin
    <3>1. ASSUME NEW k \in DOMAIN scheduled', IsLine(scheduled'[k])
          PROVE  job' = "sandbox" /\ \E b \in DOMAIN scheduled : scheduled'[k] = scheduled[b]
      BY <1>2, <2>1, <2>2, <3>1 DEF LinesInOrder
    <3>2. ASSUME NEW j \in DOMAIN scheduled', NEW k \in DOMAIN scheduled', j < k
          PROVE  \E a, b \in DOMAIN scheduled :
                     /\ a < b
                     /\ scheduled'[j] = scheduled[a] /\ scheduled'[k] = scheduled[b]
      <4>1. j + 1 < k + 1
        BY <2>2, <3>2
      <4> QED
        BY <2>2, <4>1
    <3> QED
      BY <3>1, <3>2 DEF LinesThin
  <2>6. ASSUME IsLine(scheduled[1])
        PROVE  /\ job = "sandbox" /\ scheduled[1].n <= printed
               /\ \A i \in DOMAIN log : IsTold(log[i]) => log[i].n < scheduled[1].n
               /\ \A j \in DOMAIN queue["worker"] :
                    IsTold(queue["worker"][j].frame)
                       => queue["worker"][j].frame.n < scheduled[1].n
               /\ \A k \in DOMAIN scheduled' :
                    IsLine(scheduled'[k]) => scheduled[1].n < scheduled'[k].n
    BY <1>2, <2>2, <2>6 DEF LinesInOrder
  <2>7. IsTold(f) =>
              /\ EmitterOf("line") = "worker" /\ buffer = 0 /\ f.n <= printed
              /\ \A k \in DOMAIN scheduled' : IsLine(scheduled'[k]) => f.n < scheduled'[k].n
    BY <1>3, <2>3, <2>4, <2>6 DEF Joined
  <2>8. IsLine(f) =>
              /\ \A i \in DOMAIN log : IsTold(log[i]) => log[i].n < f.n
              /\ \A k \in DOMAIN queue["worker"] :
                   IsTold(queue["worker"][k].frame) => queue["worker"][k].frame.n < f.n
    BY <2>3, <2>6 DEF IsLine
  <2> QED
    BY <1>2, <1>3, <2>1, <2>3, <2>5, <2>7, <2>8, LinesAfterEmit
<1>19. CASE AnnounceExit
  <2> DEFINE f == Frame("exit", spoken, printed)
  <2>1. /\ Emit("node", f) /\ UNCHANGED <<log, printed>> /\ job = "sandbox"
        /\ \E rest \in PartialLine : scheduled' = scheduled \o rest
    BY <1>19 DEF AnnounceExit
  <2>2. scheduled = <<>>
    BY <1>19 DEF AnnounceExit
  <2>3. \A k \in DOMAIN scheduled' : ~IsLine(scheduled'[k])
    <3>1. CASE scheduled' = scheduled
      BY <2>2, <3>1
    <3>2. CASE scheduled' = Append(scheduled, Frame("tail", 0, 0))
      <4>1. Frame("tail", 0, 0) \in Frames /\ Frame("tail", 0, 0).kind = "tail"
        BY MarkedType DEF Frame, FrameKinds
      <4>2. \A k \in DOMAIN scheduled' : scheduled'[k] = Frame("tail", 0, 0)
        BY <2>2, <3>2, <4>1, LongerScheduled
      <4> QED
        BY <4>1, <4>2 DEF IsLine
    <3> QED
      BY <2>1, <3>1, <3>2, PartialLineShape
  <2>4. LinesThin
    BY <2>3 DEF LinesThin
  <2>5. f \in Frames /\ f.n = printed /\ ~IsLine(f)
    BY <1>4 DEF Frame, IsLine
  <2>6. printed <= printed /\ buffer = 0
    BY <2>1 DEF LogTypeOK, Joined
  <2> HIDE DEF f
  <2> QED
    BY <1>2, <1>3, <2>1, <2>3, <2>4, <2>5, <2>6, LinesAfterEmit
<1>20. CASE Cancel
  <2>1. /\ Withdrawn("node") /\ want' = [want EXCEPT !["node"] = NoFrame]
        /\ UNCHANGED <<log, printed, scheduled>> /\ pump # "on"
    BY <1>20 DEF Cancel
  <2>2. NothingTold
    <3>1. NoFrame.kind = "frame"
      BY DEF NoFrame, Frame
    <3> QED
      BY <1>3, <2>1, <3>1 DEF NothingTold, IsTold
  <2>3. LinesThin
    BY <1>2, <2>1, LinesStay DEF Joined
  <2> QED
    BY <1>2, <1>3, <2>1, <2>2, <2>3, WithdrawnThins, LinesAfterThinning
<1>21. CASE Close
  <2>1. /\ Withdrawn("timer") /\ UNCHANGED <<log, want, printed, scheduled>>
        /\ job # "sandbox"
    BY <1>21 DEF Close
  <2>2. NothingTold
    BY <1>3, <2>1 DEF NothingTold
  <2> QED
    BY <1>2, <1>3, <2>1, <2>2, LinesStay, WithdrawnThins, LinesAfterThinning
<1>22. CASE PumpEnds \/ Trim \/ UNCHANGED logVars
  BY <1>7, <1>22 DEF PumpEnds, Trim, logVars
<1>23. ASSUME NEW e \in Emitters, Allocate(e)
       PROVE  LinesInOrder'
  BY <1>7, <1>23 DEF Allocate
<1> QED
  BY <1>8, <1>9, <1>10, <1>12, <1>13, <1>14, <1>15, <1>16, <1>17, <1>18, <1>19,
     <1>20, <1>21, <1>22, <1>23 DEF LogNext

\* The console reads in the order the programs printed, and lines precede the
\* exit of their execution, unless a log thread outlived it.
THEOREM ConsoleIsInOrder == LogSpec => []ConsoleInOrder
<1>1. LogInit => Joined /\ ConsoleAhead /\ PumpHandsLines
  BY DEF LogInit, Joined, ConsoleAhead, LinesInOrder, PumpHandsLines, NoFrame, Frame,
     IsTold, Emitters
<1>2. ConsoleAhead => ConsoleInOrder
  BY DEF ConsoleAhead, LinesInOrder, ConsoleInOrder, IsTold, IsLine
<1> QED
  BY <1>1, <1>2, InitType, TypeStep, JoinedStep, PumpStep, ConsoleStep, PTL DEF LogSpec
=============================================================================
