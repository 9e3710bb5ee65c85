-------------------------- MODULE RunStream_proofs --------------------------
(* Proofs about RunStream, for any scenario and any size of a backlog or of *)
(* a live batch: what EventStream_proofs shows of the log holds while it is *)
(* being watched, the types of the connection and of the client, and that   *)
(* the client is served the feed that Feed specifies.                       *)
EXTENDS RunStream, EventStream_proofs

USE DEF emitVars, sandboxVars

-----------------------------------------------------------------------------
(* The log while it is watched *)

LogInv ==
    /\ LogTypeOK /\ Numbered /\ PumpHandsLines /\ TokensAhead /\ Joined
    /\ ConsoleAhead

\* The connection's own steps spend what is left of the scenario, no more.
Watching ==
    /\ UNCHANGED <<seq, log, trimmed, emitVars, held, job, sandboxVars>>
    /\ left' \in [Kinds -> Nat]

LEMMA NextLogs ==
    ASSUME LogTypeOK, [Next]_vars
    PROVE  [LogNext]_logVars \/ Watching
<1>1. CASE LogNext
  BY <1>1
<1>2. CASE Connect \/ Hello \/ Replay \/ ReadLive \/ DeliverGap \/ DeliverSnapshot
           \/ Sent \/ Pong \/ GoAway
  BY <1>2 DEF Connect, Hello, Replay, ReadLive, DeliverGap, DeliverSnapshot, Sent,
     Pong, GoAway
<1>3. ASSUME NEW i \in outbox, Deliver(i)
      PROVE  UNCHANGED logVars
  BY <1>3 DEF Deliver
<1>4. CASE ReplayFails
  BY <1>4, SpendType DEF ReplayFails, Watching, Kinds
<1>5. CASE SendFails \/ ReaderEnds
  BY <1>5, SpendType DEF SendFails, ReaderEnds, ConnectionLost, Watching, Kinds
<1>6. CASE Ping
  <2>1. left' \in [Kinds -> Nat]
    BY <1>6, SpendType DEF Ping, Kinds, LogTypeOK
  <2> QED
    BY <1>6, <2>1 DEF Ping, Watching
<1>7. CASE UNCHANGED vars
  BY <1>7 DEF vars
<1> QED
  BY <1>1, <1>2, <1>3, <1>4, <1>5, <1>6, <1>7 DEF Next

LEMMA WatchingKeeps == LogInv /\ Watching => LogInv'
<1> SUFFICES ASSUME LogInv, Watching
             PROVE  LogInv'
  OBVIOUS
<1>1. LogTypeOK'
  BY DEF LogInv, Watching, LogTypeOK
<1>2. Numbered'
  BY QuietNumbers DEF LogInv, Watching
<1>3. PumpHandsLines' /\ Joined'
  BY DEF LogInv, Watching, PumpHandsLines, Joined
<1>4. TokensAhead'
  BY TokensQuiet DEF LogInv, Watching
<1>5. ConsoleAhead'
  BY DEF LogInv, Watching, ConsoleAhead, LinesInOrder
<1> QED
  BY <1>1, <1>2, <1>3, <1>4, <1>5 DEF LogInv

LEMMA LogInvStep == LogInv /\ [Next]_vars => LogInv'
<1> SUFFICES ASSUME LogInv, [Next]_vars
             PROVE  LogInv'
  OBVIOUS
<1>1. CASE [LogNext]_logVars
  <2>1. LogTypeOK'
    BY <1>1, TypeStep DEF LogInv
  <2> QED
    BY <1>1, <2>1, NumberedStep, PumpStep, TokensStep, JoinedStep, ConsoleStep DEF LogInv
<1>2. CASE Watching
  BY <1>2, WatchingKeeps
<1> QED
  BY <1>1, <1>2, NextLogs DEF LogInv

LEMMA LogInvInit == LogInit => LogInv
<1>1. LogInit => LogTypeOK
  BY InitType
<1>2. LogInit => Numbered
  BY DEF LogInit, Numbered, NumberedInOrder
<1>3. LogInit => PumpHandsLines /\ TokensAhead
  BY DEF LogInit, TokensAhead, TokensBeforeFrames, PumpHandsLines, NoFrame, Frame,
     IsToken, Taken, Emitters
<1>4. LogInit => Joined /\ ConsoleAhead
  BY DEF LogInit, Joined, ConsoleAhead, LinesInOrder, NoFrame, Frame, IsTold, Emitters
<1> QED
  BY <1>1, <1>2, <1>3, <1>4 DEF LogInv

LEMMA LogInvAlways == Spec => []LogInv
<1>1. Init => LogInv
  BY LogInvInit DEF Init
<1> QED
  BY <1>1, LogInvStep, PTL DEF Spec

\* While browsers connect, break off and come back: the numbers of the log are
\* distinct and each emitter's are in order, no frame overtakes the tokens that
\* were spoken before it, and the console reads as the programs printed.
THEOREM LogIsInOrder == Spec => [](NumberedInOrder /\ TokensBeforeFrames /\ ConsoleInOrder)
<1>1. LogInv => NumberedInOrder /\ TokensBeforeFrames
  BY DEF LogInv, Numbered, TokensAhead
<1>2. LogInv => ConsoleInOrder
  BY DEF LogInv, ConsoleAhead, LinesInOrder, ConsoleInOrder, IsTold, IsLine
<1> QED
  BY <1>1, <1>2, LogInvAlways, PTL

-----------------------------------------------------------------------------
(* The log only grows *)

LogGrows ==
    /\ Len(log) <= Len(log') /\ seq <= seq' /\ trimmed <= trimmed'
    /\ DOMAIN log \subseteq DOMAIN log'
    /\ \A i \in DOMAIN log : log'[i] = log[i]

\* The last entry stays in Redis.
LastIsKept == log # <<>> => trimmed < Len(log)

LEMMA LogGrowsStep ==
    ASSUME LogTypeOK, LogTypeOK', LastIsKept, [LogNext]_logVars \/ Watching
    PROVE  LogGrows /\ LastIsKept'
<1>1. /\ seq \in Nat /\ trimmed \in 0..Len(log) /\ Len(log) \in Nat
      /\ DOMAIN log = 1..Len(log) /\ DOMAIN log' = 1..Len(log')
  BY LogType DEF LogTypeOK
<1>2. ASSUME UNCHANGED <<seq, log, trimmed>>
      PROVE  LogGrows /\ LastIsKept'
  BY <1>1, <1>2 DEF LogGrows, LastIsKept
<1>3. ASSUME NEW e \in Emitters, Publish(e)
      PROVE  LogGrows /\ LastIsKept'
  <2>1. /\ Len(log') = Len(log) + 1 /\ MayTrim(log') /\ seq' = seq
        /\ \A i \in DOMAIN log : log'[i] = log[i]
    BY <1>1, <1>3, PublishEnters DEF Publish, Enters
  <2>2. trimmed' \in Nat /\ trimmed <= trimmed' /\ trimmed' < Len(log')
    BY <1>1, <2>1, MaxLenAssumption DEF MayTrim
  <2> QED
    BY <1>1, <2>1, <2>2 DEF LogGrows, LastIsKept
<1>4. CASE Trim
  <2>1. MayTrim(log) /\ log' = log /\ seq' = seq
    BY <1>4 DEF Trim
  <2>2. trimmed' \in Nat /\ trimmed <= trimmed'
    BY <1>1, <2>1, MaxLenAssumption DEF MayTrim
  <2>3. LastIsKept'
    BY <1>1, <2>1, MaxLenAssumption DEF MayTrim, LastIsKept
  <2> QED
    BY <1>1, <2>1, <2>2, <2>3 DEF LogGrows
<1>5. ASSUME NEW e \in Emitters, Allocate(e)
      PROVE  LogGrows /\ LastIsKept'
  BY <1>1, <1>5 DEF Allocate, LogGrows, LastIsKept
<1>6. ASSUME NEW e \in Emitters, PublishFails(e)
      PROVE  LogGrows /\ LastIsKept'
  BY <1>2, <1>6 DEF PublishFails
<1>7. ASSUME NEW t \in Tasks, EmitFlushed(t)
      PROVE  LogGrows /\ LastIsKept'
  BY <1>2, <1>7 DEF EmitFlushed
<1>8. CASE EmitToken \/ TimerFires \/ EmitFrame \/ EmitEnd \/ AnnounceLaunch \/ HandOver
  BY <1>2, <1>8 DEF EmitToken, TimerFires, EmitFrame, EmitEnd, AnnounceLaunch, HandOver
<1>9. CASE LineStarts \/ AnnounceExit \/ PumpEnds \/ Cancel \/ Close \/ EmitOutside
  BY <1>2, <1>9 DEF LineStarts, AnnounceExit, PumpEnds, Cancel, Close, EmitOutside
<1>10. CASE Watching \/ UNCHANGED logVars
  BY <1>2, <1>10 DEF Watching, logVars
<1> QED
  BY <1>3, <1>4, <1>5, <1>6, <1>7, <1>8, <1>9, <1>10 DEF LogNext

-----------------------------------------------------------------------------
(* Types *)

\* A step of the log, or one that only spends, leaves the client as it was.
LEMMA AsideTypeStep ==
    ASSUME TypeOK, LogTypeOK', LogGrows,
           UNCHANGED <<serverVars, owed, clientVars, excuses>>
    PROVE  TypeOK'
<1>1. tail \in 0..Len(log) /\ Len(log) \in Nat /\ Len(log') \in Nat /\ seq \in Nat /\ seq' \in Nat
  BY LogType DEF TypeOK, LogTypeOK
<1>2. tail' \in 0..Len(log') /\ cursor' \in 0..seq' /\ lastSeq' \in 0..seq' /\ after' \in 0..seq'
  BY <1>1 DEF TypeOK, LogGrows, serverVars, clientVars
<1> QED
  BY <1>2 DEF TypeOK, LogGrows, serverVars, clientVars

LEMMA ServerTypeStep ==
    ASSUME TypeOK, UNCHANGED logVars,
           \/ Connect \/ Hello \/ Replay \/ ReadLive \/ DeliverGap \/ DeliverSnapshot
           \/ Sent \/ Pong \/ GoAway
    PROVE  TypeOK'
<1> USE DEF serverVars, clientVars, MaxMissedPongs
<1>1. LogTypeOK' /\ log' = log /\ seq' = seq /\ trimmed' = trimmed
  BY DEF TypeOK, LogTypeOK, logVars
<1>2. /\ seq \in Nat /\ Len(log) \in Nat /\ trimmed \in 0..Len(log)
      /\ DOMAIN log = 1..Len(log)
  BY LogType DEF TypeOK, LogTypeOK
<1>3. CASE Connect
  <2>1. /\ pc = "down" /\ pc' = "hello" /\ after' = cursor /\ missed' = 0 /\ owed' = 0
        /\ blind' = FALSE /\ finishing' = FALSE /\ tail' = 0
        /\ UNCHANGED <<outbox, cursor, lastSeq, folded, skipped, received, excuses>>
    BY <1>3 DEF Connect
  <2>2. outbox' = {} /\ after' \in 0..seq' /\ 0 \in 0..Len(log') /\ tail' \in 0..Len(log')
    BY <1>1, <1>2, <2>1 DEF TypeOK
  <2>3. missed' \in 0..2 /\ owed' \in Nat /\ missed' <= owed'
    BY <2>1
  <2> QED
    BY <1>1, <2>1, <2>2, <2>3 DEF TypeOK
<1>4. CASE Hello
  BY <1>1, <1>2, <1>4 DEF Hello, Raise, TypeOK
<1>5. CASE Replay
  <2>1. /\ Window \subseteq DOMAIN log
        /\ (IF Window = {} THEN 0 ELSE WindowEnd) \in 0..Len(log)
    BY <1>2, CountsAssumption DEF Window, WindowEnd
  <2>2. outbox' \subseteq DOMAIN log /\ tail' \in 0..Len(log)
    BY <1>5, <2>1 DEF Replay, Backlog
  <2>3. excuses' \subseteq Reasons /\ pc' \in {"gap", "send"}
    BY <1>5 DEF Replay, TypeOK, Reasons
  <2>4. finishing' \in BOOLEAN
    BY <1>5 DEF Replay
  <2>5. UNCHANGED <<after, blind, missed, owed, cursor, lastSeq, folded, skipped, received>>
    BY <1>5 DEF Replay
  <2> QED
    BY <1>1, <2>2, <2>3, <2>4, <2>5 DEF TypeOK
<1>6. CASE ReadLive
  <2>1. PICK from \in IF blind THEN tail..(Len(log) - 1) ELSE {tail} :
            /\ Batch(from) # {}
            /\ tail' = BatchEnd(from)
            /\ outbox' = UpToEnd(Batch(from))
            /\ finishing' = \E i \in Batch(from) : IsEnd(i)
            /\ excuses' = IF from < trimmed THEN excuses \cup {"overrun"} ELSE excuses
    BY <1>6 DEF ReadLive
  <2>2. from \in Nat
    BY <1>2, <2>1 DEF TypeOK
  <2>3. Batch(from) \subseteq DOMAIN log /\ BatchEnd(from) \in 0..Len(log)
    BY <1>2, <2>1, <2>2, CountsAssumption DEF Batch, BatchStart, BatchEnd
  <2>4. outbox' \subseteq DOMAIN log /\ excuses' \subseteq Reasons /\ finishing' \in BOOLEAN
    BY <2>1, <2>3 DEF UpToEnd, TypeOK, Reasons
  <2>5. /\ UNCHANGED <<after, missed, owed, cursor, lastSeq, folded, skipped, received>>
        /\ pc' = "send" /\ blind' = FALSE
    BY <1>6 DEF ReadLive
  <2> QED
    BY <1>1, <2>1, <2>3, <2>4, <2>5 DEF TypeOK
<1>7. CASE DeliverGap
  BY <1>1, <1>2, <1>7 DEF DeliverGap, TypeOK
<1>8. CASE DeliverSnapshot
  BY <1>1, <1>2, <1>8 DEF DeliverSnapshot, Raise, TypeOK
<1>9. CASE Sent
  BY <1>1, <1>9 DEF Sent, TypeOK
<1>10. CASE Pong
  BY <1>1, <1>10 DEF Pong, TypeOK
<1>11. CASE GoAway
  BY <1>1, <1>11 DEF GoAway, Idle, TypeOK
<1> QED
  BY <1>3, <1>4, <1>5, <1>6, <1>7, <1>8, <1>9, <1>10, <1>11

LEMMA DeliverTypeStep ==
    ASSUME TypeOK, NEW i \in outbox, Deliver(i)
    PROVE  TypeOK'
<1>1. LogTypeOK' /\ log' = log /\ seq' = seq
  BY DEF Deliver, TypeOK, LogTypeOK, logVars
<1>2. i \in DOMAIN log /\ log[i].seq \in 0..seq
  BY DEF TypeOK, LogTypeOK
<1>3. /\ cursor' \in 0..seq /\ lastSeq' \in 0..seq
      /\ received' = received \cup {i} /\ folded' \cup skipped' = received \cup {i}
  BY <1>2 DEF Deliver, Fold, TypeOK
<1>4. /\ outbox' = outbox \ {i} /\ pc = "send"
      /\ UNCHANGED <<pc, after, tail, blind, finishing, missed, owed, excuses>>
  BY DEF Deliver
<1> QED
  BY <1>1, <1>2, <1>3, <1>4 DEF TypeOK

LEMMA LossTypeStep ==
    ASSUME TypeOK, LogTypeOK', ReplayFails \/ SendFails \/ ReaderEnds \/ Ping
    PROVE  TypeOK'
<1> USE DEF clientVars, MaxMissedPongs
<1>1. log' = log /\ seq' = seq /\ Len(log) \in Nat
  BY LogType DEF ReplayFails, SendFails, ReaderEnds, ConnectionLost, Ping, TypeOK
<1>2. CASE ReplayFails
  BY <1>1, <1>2 DEF ReplayFails, TypeOK, Reasons
<1>3. CASE SendFails \/ ReaderEnds
  BY <1>1, <1>3 DEF SendFails, ReaderEnds, ConnectionLost, TypeOK
<1>4. CASE Ping
  BY <1>1, <1>4 DEF Ping, Idle, TypeOK
<1> QED
  BY <1>2, <1>3, <1>4

WatchInv == TypeOK /\ LogInv /\ LastIsKept

LEMMA WatchInvStep == WatchInv /\ [Next]_vars => WatchInv' /\ LogGrows
<1> SUFFICES ASSUME WatchInv, [Next]_vars
             PROVE  WatchInv' /\ LogGrows
  OBVIOUS
<1>1. LogInv'
  BY LogInvStep DEF WatchInv
<1>2. LogGrows /\ LastIsKept'
  BY <1>1, NextLogs, LogGrowsStep DEF WatchInv, LogInv
<1>3. TypeOK'
  <2>1. CASE LogNext /\ UNCHANGED <<serverVars, owed, clientVars, excuses>>
    BY <1>1, <1>2, <2>1, AsideTypeStep DEF WatchInv, LogInv
  <2>2. CASE \/ Connect \/ Hello \/ Replay \/ ReadLive \/ DeliverGap \/ DeliverSnapshot
             \/ Sent \/ Pong \/ GoAway
    <3>1. UNCHANGED logVars
      BY <2>2 DEF Connect, Hello, Replay, ReadLive, DeliverGap, DeliverSnapshot, Sent,
         Pong, GoAway
    <3> QED
      BY <2>2, <3>1, ServerTypeStep DEF WatchInv
  <2>3. ASSUME NEW i \in outbox, Deliver(i)
        PROVE  TypeOK'
    BY <2>3, DeliverTypeStep DEF WatchInv
  <2>4. CASE ReplayFails \/ SendFails \/ ReaderEnds \/ Ping
    BY <1>1, <2>4, LossTypeStep DEF WatchInv, LogInv
  <2>5. CASE UNCHANGED vars
    <3>1. UNCHANGED <<serverVars, owed, clientVars, excuses>>
      BY <2>5 DEF vars
    <3> QED
      BY <1>1, <1>2, <3>1, AsideTypeStep DEF WatchInv, LogInv
  <2> QED
    BY <2>1, <2>2, <2>3, <2>4, <2>5 DEF Next
<1> QED
  BY <1>1, <1>2, <1>3 DEF WatchInv

LEMMA WatchInvInit == Init => WatchInv
<1> SUFFICES ASSUME Init
             PROVE  WatchInv
  OBVIOUS
<1>1. LogInv /\ log = <<>> /\ seq = 0 /\ LogTypeOK
  BY LogInvInit DEF Init, LogInv, LogInit
<1>2. TypeOK
  <2>1. /\ pc \in {"down", "away"} /\ after = 0 /\ tail = 0 /\ blind = FALSE
        /\ outbox = {} /\ finishing = FALSE /\ missed = 0 /\ owed = 0 /\ cursor = 0
        /\ lastSeq = 0 /\ folded = {} /\ skipped = {} /\ received = {} /\ excuses = {}
        /\ missed <= owed
    BY DEF Init
  <2>2. 0 \in 0..seq /\ 0 \in 0..Len(log) /\ missed \in 0..MaxMissedPongs /\ owed \in Nat
    BY <1>1, <2>1 DEF MaxMissedPongs
  <2> QED
    BY <1>1, <2>1, <2>2 DEF TypeOK
<1> QED
  BY <1>1, <1>2 DEF WatchInv, LastIsKept

\* The log, the connection and the client keep their types; in particular
\* neither cursor is ever ahead of the numbers that were allocated.
THEOREM TypeCorrect == Spec => []TypeOK
<1>1. WatchInv => TypeOK
  BY DEF WatchInv
<1> QED
  BY <1>1, WatchInvInit, WatchInvStep, PTL DEF Spec

-----------------------------------------------------------------------------
(* The feed *)

\* The client was told that its history is incomplete, or its user was.
Told == excuses # {} \/ Reordered

\* The first entry of a piece of the log was received, if any was, and no
\* retained entry comes before it.
Starts(all, got, t) ==
    all # {} => \E x \in all : /\ x <= t + 1 /\ \A i \in all : x <= i
                               /\ got # {} => x \in got

\* Until then what the client has and what is on its way to it is one piece of
\* the log; it starts no later than what Redis retains, the live tail reads on
\* inside it or where it starts, and the cursor is its last number.
Served ==
    /\ ServedFeed!NoHole(received)
    /\ ServedFeed!NoHole(received \cup outbox)
    /\ Starts(received \cup outbox, received, trimmed)
    /\ pc \in {"send", "tail"} /\ ~finishing =>
         \/ tail \in received \cup outbox
         \/ received \cup outbox = {} /\ tail <= trimmed
    /\ \A i \in received : log[i].seq <= cursor
    /\ received = {} => cursor = 0
    /\ received # {} => \E i \in received : log[i].seq = cursor
    /\ pc \in {"hello", "replay"} => after = cursor
    /\ pc = "tail" => ~finishing
    /\ ~blind /\ pc \notin {"gap", "snapshot"}

LEMMA NumbersGrow ==
    ASSUME LogInv, ~Reordered, NEW i \in DOMAIN log, NEW j \in DOMAIN log, i < j
    PROVE  log[i].seq < log[j].seq
<1>1. log[i].seq # log[j].seq /\ ~(log[i].seq > log[j].seq)
  BY DEF LogInv, Numbered, NumberedInOrder, Reordered
<1>2. log[i].seq \in Nat /\ log[j].seq \in Nat
  BY LogType DEF LogInv
<1> QED
  BY <1>1, <1>2

\* What the client was told it stays told.
LEMMA ToldStays ==
    ASSUME WatchInv, [Next]_vars, LogGrows, Told
    PROVE  Told'
<1>1. excuses \subseteq excuses'
  <2>1. CASE \/ Connect \/ Hello \/ Replay \/ ReplayFails \/ ReadLive \/ DeliverGap
             \/ DeliverSnapshot \/ Sent
    BY <2>1 DEF Connect, Hello, Replay, ReplayFails, ReadLive, DeliverGap, DeliverSnapshot,
       Sent
  <2>2. CASE SendFails \/ ReaderEnds \/ Ping \/ Pong \/ GoAway \/ UNCHANGED vars
    BY <2>2 DEF SendFails, ReaderEnds, ConnectionLost, Ping, Pong, GoAway, vars
  <2>3. ASSUME NEW i \in outbox, Deliver(i)
        PROVE  excuses \subseteq excuses'
    BY <2>3 DEF Deliver
  <2>4. CASE LogNext /\ UNCHANGED <<serverVars, owed, clientVars, excuses>>
    BY <2>4
  <2> QED
    BY <2>1, <2>2, <2>3, <2>4 DEF Next
<1>2. Reordered => Reordered'
  BY DEF Reordered, LogGrows
<1> QED
  BY <1>1, <1>2 DEF Told

LEMMA WatchTypes ==
    ASSUME WatchInv
    PROVE  /\ LogTypeOK /\ DOMAIN log = 1..Len(log) /\ Len(log) \in Nat
           /\ received \subseteq DOMAIN log /\ outbox \subseteq DOMAIN log
           /\ received \subseteq Nat /\ outbox \subseteq Nat
           /\ trimmed \in Nat /\ trimmed <= Len(log) /\ tail \in Nat
           /\ cursor \in Nat /\ seq \in Nat /\ after \in Nat
           /\ \A i \in DOMAIN log : log[i].seq \in Nat /\ log[i].seq > 0
<1>1. LogTypeOK
  BY DEF WatchInv, TypeOK
<1>2. DOMAIN log = 1..Len(log) /\ Len(log) \in Nat /\ seq \in Nat
  BY <1>1, LogType DEF LogTypeOK
<1>3. received \subseteq DOMAIN log /\ outbox \subseteq DOMAIN log
  BY DEF WatchInv, TypeOK
<1>4. trimmed \in 0..Len(log) /\ tail \in 0..Len(log) /\ cursor \in 0..seq /\ after \in 0..seq
  BY <1>1 DEF WatchInv, TypeOK, LogTypeOK
<1>5. \A i \in DOMAIN log : log[i].seq \in 1..seq
  BY <1>1 DEF LogTypeOK
<1> QED
  BY <1>1, <1>2, <1>3, <1>4, <1>5

\* Trimming does not uncover an entry.
LEMMA StillStarts ==
    ASSUME NEW t \in Nat, NEW u \in Nat, t <= u, NEW all \in SUBSET Nat, NEW got,
           Starts(all, got, t)
    PROVE  Starts(all, got, u)
BY DEF Starts

\* A step that sends nothing and reads nothing.
LEMMA ServedStays ==
    ASSUME WatchInv, WatchInv', Served, LogGrows, UNCHANGED <<received, cursor>>,
           \/ /\ outbox' = {} /\ pc' \notin {"send", "tail"}
           \/ /\ outbox' = outbox /\ tail' = tail /\ finishing' = finishing
              /\ pc' \in {"send", "tail"} => pc \in {"send", "tail"},
           pc' \in {"hello", "replay"} =>
              after' = cursor \/ (after' = after /\ pc \in {"hello", "replay"}),
           pc' = "tail" => ~finishing',
           ~blind' /\ pc' \notin {"gap", "snapshot"}
    PROVE  Served'
<1>1. /\ received \subseteq DOMAIN log /\ outbox \subseteq DOMAIN log
      /\ trimmed \in Nat /\ trimmed' \in Nat
      /\ received \subseteq Nat /\ outbox \subseteq Nat
  <2>1. trimmed' \in 0..Len(log') /\ Len(log') \in Nat
    BY DEF WatchInv, TypeOK, LogTypeOK
  <2> QED
    BY <2>1, WatchTypes
<1>2. trimmed <= trimmed' /\ \A i \in DOMAIN log : log'[i] = log[i]
  BY DEF LogGrows
<1>3. /\ \A i \in received' : log'[i].seq <= cursor'
      /\ received' = {} => cursor' = 0
      /\ received' # {} => \E i \in received' : log'[i].seq = cursor'
      /\ pc' \in {"hello", "replay"} => after' = cursor'
      /\ ServedFeed!NoHole(received')
  BY <1>1, <1>2 DEF Served
<1>4. Starts(received \cup outbox, received, trimmed')
  <2>1. Starts(received \cup outbox, received, trimmed)
    BY DEF Served
  <2> QED
    BY <1>1, <1>2, <2>1, StillStarts
<1>5. CASE outbox' = {} /\ pc' \notin {"send", "tail"}
  <2>1. received' \cup outbox' = received /\ received' = received
    BY <1>5
  <2>2. Starts(received, received, trimmed')
    BY <1>4 DEF Starts
  <2> QED
    BY <1>3, <1>5, <2>1, <2>2 DEF Served
<1>6. CASE /\ outbox' = outbox /\ tail' = tail /\ finishing' = finishing
           /\ pc' \in {"send", "tail"} => pc \in {"send", "tail"}
  <2> DEFINE all == received \cup outbox
  <2>1. received' \cup outbox' = all /\ received' = received
    BY <1>6
  <2>2. Starts(all, received, trimmed') /\ ServedFeed!NoHole(all)
    BY <1>4 DEF Served
  <2>3. ASSUME pc' \in {"send", "tail"}, ~finishing'
        PROVE  tail \in all \/ (all = {} /\ tail <= trimmed')
    <3>1. tail \in all \/ (all = {} /\ tail <= trimmed)
      BY <1>6, <2>3 DEF Served
    <3>2. tail \in Nat /\ trimmed \in Nat /\ trimmed' \in Nat /\ trimmed <= trimmed'
      BY <1>1, <1>2, WatchTypes
    <3> QED
      BY <3>1, <3>2
  <2> HIDE DEF all
  <2> QED
    BY <1>3, <1>6, <2>1, <2>2, <2>3 DEF Served
<1> QED
  BY <1>5, <1>6

\* The earliest entry of the outbox arrives.
LEMMA ServedDeliver ==
    ASSUME WatchInv, WatchInv', Served, ~Reordered, NEW m \in outbox, Deliver(m)
    PROVE  Served'
<1> DEFINE all == received \cup outbox
<1>1. /\ received' = received \cup {m} /\ outbox' = outbox \ {m}
      /\ cursor' = IF log[m].seq > cursor THEN log[m].seq ELSE cursor
      /\ \A j \in outbox : m <= j
      /\ UNCHANGED <<log, trimmed, pc, after, tail, blind, finishing>> /\ pc = "send"
  BY DEF Deliver, Fold, logVars
<1>2. received' \cup outbox' = all
  BY <1>1
<1>3. /\ all \subseteq Nat /\ m \in all /\ m \in Nat
      /\ received \subseteq DOMAIN log /\ m \in DOMAIN log
      /\ cursor \in Nat /\ \A i \in DOMAIN log : log[i].seq \in Nat
  BY WatchTypes
<1>4. PICK x \in all : /\ x <= trimmed + 1 /\ \A i \in all : x <= i
                       /\ received # {} => x \in received
  BY <1>3 DEF Served, Starts
<1>5. /\ \A a, b \in all : a..b \subseteq all
      /\ \A a, b \in received : a..b \subseteq received
  BY DEF Served, ServedFeed!NoHole
<1>6. ServedFeed!NoHole(received \cup {m})
  <2> SUFFICES ASSUME NEW a \in received \cup {m}, NEW b \in received \cup {m}, NEW k \in a..b
               PROVE  k \in received \cup {m}
    BY DEF ServedFeed!NoHole
  <2>1. k \in all /\ k \in Nat /\ a \in Nat /\ b \in Nat /\ a <= k /\ k <= b
    <3>1. a \in all /\ b \in all
      BY <1>3
    <3> QED
      BY <1>3, <1>5, <3>1
  <2>2. CASE k \in outbox
    <3>1. m <= k
      BY <1>1, <2>2
    <3>2. CASE b = m
      BY <1>3, <2>1, <3>1, <3>2
    <3>3. CASE b \in received
      <4>1. x \in received /\ x <= k /\ x \in Nat
        BY <1>3, <1>4, <2>1, <3>3
      <4>2. k \in x..b
        BY <2>1, <4>1
      <4> QED
        BY <1>5, <3>3, <4>1, <4>2
    <3> QED
      BY <3>2, <3>3
  <2> QED
    BY <2>1, <2>2
<1>7. Starts(all, received \cup {m}, trimmed)
  <2>1. CASE received # {}
    BY <1>4, <2>1 DEF Starts
  <2>2. CASE received = {}
    <3>1. x \in outbox /\ m <= x /\ x <= m /\ x \in Nat
      BY <1>1, <1>3, <1>4, <2>2
    <3>2. x = m
      BY <1>3, <3>1
    <3> QED
      BY <1>4, <3>2 DEF Starts
  <2> QED
    BY <2>1, <2>2
<1>8. /\ \A i \in received \cup {m} : log[i].seq <= cursor'
      /\ \E i \in received \cup {m} : log[i].seq = cursor'
  <2>1. \A i \in received : log[i].seq <= cursor
    BY DEF Served
  <2>2. CASE log[m].seq > cursor
    BY <1>1, <1>3, <2>1, <2>2
  <2>3. CASE ~(log[m].seq > cursor)
    <3>1. received # {}
      <4>1. received = {} => cursor = 0
        BY DEF Served
      <4>2. log[m].seq \in 1..seq
        BY <1>3 DEF WatchInv, TypeOK, LogTypeOK
      <4> QED
        BY <1>3, <2>3, <4>1, <4>2
    <3>2. \E i \in received : log[i].seq = cursor
      BY <3>1 DEF Served
    <3> QED
      BY <1>1, <1>3, <2>1, <2>3, <3>2
  <2> QED
    BY <2>2, <2>3
<1>9. ~finishing => tail \in all
  BY <1>1, <1>3 DEF Served
<1>10. ServedFeed!NoHole(all) /\ ~blind
  BY DEF Served
<1> HIDE DEF all
<1> QED
  BY <1>1, <1>2, <1>3, <1>6, <1>7, <1>8, <1>9, <1>10 DEF Served

\* The part of a batch that is sent is an initial one, and not empty.
LEMMA UpToEndIsInitial ==
    ASSUME NEW a \in Nat, NEW b \in Nat, a <= b
    PROVE  /\ UpToEnd(a..b) \subseteq a..b /\ a \in UpToEnd(a..b)
           /\ \A c \in UpToEnd(a..b) : a..c \subseteq UpToEnd(a..b)
           /\ (~ \E i \in a..b : IsEnd(i)) => UpToEnd(a..b) = a..b
BY DEF UpToEnd

\* The replay sends what follows the cursor, and misses nothing between the
\* two, unless it says so.
LEMMA ServedReplay ==
    ASSUME WatchInv, WatchInv', Served, ~Reordered, Replay, excuses' = {}
    PROVE  Served'
<1>1. /\ pc = "replay" /\ pc' = "send" /\ ~HasGap /\ outbox' = Backlog /\ outbox = {}
      /\ tail' = IF Window = {} THEN 0 ELSE WindowEnd
      /\ UNCHANGED <<log, trimmed, received, cursor, blind>>
  <2>1. pc = "replay" /\ outbox = {}
    BY DEF Replay, WatchInv, TypeOK
  <2>2. ~HasGap
    BY DEF Replay
  <2> QED
    BY <2>1, <2>2 DEF Replay, logVars, clientVars
<1>2. /\ Len(log) \in Nat /\ trimmed \in Nat /\ DOMAIN log = 1..Len(log)
      /\ received \subseteq DOMAIN log /\ received \subseteq Nat /\ cursor \in Nat
      /\ \A i \in DOMAIN log : log[i].seq \in Nat /\ log[i].seq > 0
  BY WatchTypes
<1>3. after = cursor /\ ~blind /\ ServedFeed!NoHole(received)
  BY <1>1 DEF Served
<1> DEFINE all == received \cup Backlog
<1>4. /\ Backlog \subseteq Nat
      /\ ServedFeed!NoHole(all)
      /\ Starts(all, received, trimmed)
      /\ tail' \in all \/ (all = {} /\ tail' <= trimmed)
  <2>1. CASE Window = {}
    <3>1. log = <<>>
      <4>1. Len(log) <= trimmed
        BY <1>2, <2>1, CountsAssumption DEF Window, WindowEnd
      <4> QED
        BY <1>2, <4>1 DEF WatchInv, LastIsKept
    <3>2. all = {} /\ tail' = 0
      BY <1>1, <1>2, <2>1, <3>1 DEF Backlog
    <3> QED
      BY <1>2, <3>2 DEF ServedFeed!NoHole, Starts
  <2>2. CASE Window # {}
    <3>1. /\ WindowEnd \in Nat /\ trimmed + 1 <= WindowEnd /\ WindowEnd <= Len(log)
          /\ Window = (trimmed + 1)..WindowEnd /\ Window \subseteq DOMAIN log
          /\ tail' = WindowEnd /\ WindowEnd \in Window /\ trimmed + 1 \in Window
          /\ Window \subseteq Nat
      BY <1>1, <1>2, <2>2, CountsAssumption DEF Window, WindowEnd
    <3>2. CASE received = {}
      <4>1. after = 0
        BY <1>3, <3>2 DEF Served
      <4>2. all = Window
        BY <1>2, <3>1, <3>2, <4>1 DEF Backlog
      <4>3. ServedFeed!NoHole(Window)
        BY <1>2, <3>1 DEF ServedFeed!NoHole
      <4>4. \A i \in Window : trimmed + 1 <= i
        BY <1>2, <3>1
      <4> QED
        BY <1>2, <3>1, <3>2, <4>2, <4>3, <4>4 DEF Starts
    <3>3. CASE received # {}
      <4>1. PICK b \in received : log[b].seq = after
        BY <1>3, <3>3 DEF Served
      <4>2. b \in DOMAIN log /\ b \in Nat
        BY <1>2, <4>1
      <4>3. \A i, j \in DOMAIN log : i < j => log[i].seq < log[j].seq
        BY NumbersGrow DEF WatchInv
      <4>4. \A i \in received : i <= b
        <5>1. \A i \in received : log[i].seq <= log[b].seq
          BY <1>3, <4>1 DEF Served
        <5> QED
          BY <1>2, <4>2, <4>3, <5>1
      <4>5. \A i \in Window : i \in Backlog <=> b < i
        <5>1. \A i \in DOMAIN log : (log[i].seq > log[b].seq) <=> b < i
          BY <1>2, <4>2, <4>3
        <5> QED
          BY <3>1, <4>1, <5>1 DEF Backlog
      <4>6. trimmed <= b
        <5> SUFFICES ASSUME b < trimmed
                     PROVE  FALSE
          BY <1>2, <4>2
        <5>1. b + 1 \in DOMAIN log /\ trimmed + 1 \in DOMAIN log
          BY <1>2, <3>1, <4>2
        <5>2. log[b].seq < log[b + 1].seq /\ log[b + 1].seq < log[trimmed + 1].seq
          BY <1>2, <4>2, <4>3, <5>1
        <5>3. after > 0 /\ after + 1 < log[trimmed + 1].seq
          BY <1>2, <4>1, <4>2, <5>1, <5>2
        <5>4. after \in Nat /\ log[trimmed + 1].seq \in Nat
          BY <1>2, <4>1, <4>2, <5>1
        <5> QED
          BY <1>1, <2>2, <5>3, <5>4 DEF HasGap
      <4>7. PICK x \in received : x <= trimmed + 1 /\ \A i \in received : x <= i
        BY <1>1, <3>3 DEF Served, Starts
      <4>8. x \in Nat /\ x <= b /\ \A i, j \in received : i..j \subseteq received
        BY <1>2, <1>3, <4>1, <4>7 DEF ServedFeed!NoHole
      <4>9. Backlog \subseteq Window /\ all \subseteq Nat
        BY <1>2, <3>1 DEF Backlog
      <4>10. ServedFeed!NoHole(all)
        <5> SUFFICES ASSUME NEW a \in all, NEW c \in all, NEW k \in a..c
                     PROVE  k \in all
          BY DEF ServedFeed!NoHole
        <5>1. a \in Nat /\ c \in Nat /\ k \in Nat /\ a <= k /\ k <= c
          BY <4>9
        <5>2. CASE k <= b
          <6>1. a \in received
            BY <4>2, <4>5, <4>9, <5>1, <5>2
          <6>2. k \in a..b
            BY <4>2, <5>1, <5>2
          <6> QED
            BY <4>1, <4>8, <6>1, <6>2
        <5>3. CASE b < k
          <6>1. c \in Backlog
            BY <1>2, <4>2, <4>4, <5>1, <5>3
          <6>2. c <= WindowEnd
            BY <3>1, <4>9, <5>1, <6>1
          <6>3. k \in Window
            BY <1>2, <3>1, <4>2, <4>6, <5>1, <5>3, <6>2
          <6> QED
            BY <4>5, <5>3, <6>3
        <5> QED
          BY <4>2, <5>1, <5>2, <5>3
      <4>11. \A i \in all : x <= i
        BY <4>2, <4>5, <4>7, <4>8, <4>9
      <4>12. tail' \in all
        <5>1. CASE b < WindowEnd
          BY <3>1, <4>5, <5>1
        <5>2. CASE WindowEnd <= b
          <6>1. WindowEnd \in x..b
            BY <1>2, <3>1, <4>2, <4>7, <4>8, <5>2
          <6> QED
            BY <3>1, <4>1, <4>8, <6>1
        <5> QED
          BY <3>1, <4>2, <5>1, <5>2
      <4>13. Starts(all, received, trimmed) /\ Backlog \subseteq Nat
        BY <4>7, <4>9, <4>11 DEF Starts
      <4> QED
        BY <4>10, <4>12, <4>13
    <3> QED
      BY <3>2, <3>3
  <2> QED
    BY <2>1, <2>2
<1>5. /\ received' \cup outbox' = all /\ \A i \in received : log[i].seq <= cursor
      /\ received = {} => cursor = 0
      /\ received # {} => \E i \in received : log[i].seq = cursor
  BY <1>1 DEF Served
<1>6. /\ received' = received /\ log' = log /\ cursor' = cursor /\ trimmed' = trimmed
      /\ pc' = "send" /\ ~blind'
  BY <1>1, <1>3
<1> HIDE DEF all
<1> QED
  BY <1>3, <1>4, <1>5, <1>6 DEF Served

\* The live tail reads on where the replay or the previous batch ended.
LEMMA ServedReadLive ==
    ASSUME WatchInv, WatchInv', Served, ReadLive, excuses' = {}
    PROVE  Served'
<1>1. /\ Len(log) \in Nat /\ trimmed \in Nat /\ tail \in Nat
      /\ DOMAIN log = 1..Len(log) /\ received \subseteq Nat /\ outbox = {}
      /\ pc = "tail" /\ pc' = "send" /\ ~blind /\ ~blind' /\ tail < Len(log)
  BY WatchTypes DEF ReadLive, Served, WatchInv, TypeOK
<1>2. /\ Batch(tail) # {} /\ tail' = BatchEnd(tail) /\ outbox' = UpToEnd(Batch(tail))
      /\ finishing' = \E i \in Batch(tail) : IsEnd(i)
      /\ ~(tail < trimmed)
      /\ UNCHANGED <<log, trimmed, received, cursor>>
  BY <1>1 DEF ReadLive, logVars, clientVars
<1>3. /\ tail \in received \/ (received = {} /\ tail <= trimmed)
      /\ ServedFeed!NoHole(received)
      /\ \A i \in received : log[i].seq <= cursor
      /\ received = {} => cursor = 0
      /\ received # {} => \E i \in received : log[i].seq = cursor
  BY <1>1 DEF Served
<1> DEFINE end == BatchEnd(tail)  sent == UpToEnd(Batch(tail))  all == received \cup sent
<1>4. Batch(tail) = (tail + 1)..end /\ end \in Nat /\ tail + 1 <= end
  BY <1>1, <1>2, CountsAssumption DEF Batch, BatchStart, BatchEnd
<1>5. /\ sent \subseteq (tail + 1)..end /\ tail + 1 \in sent
      /\ \A c \in sent : (tail + 1)..c \subseteq sent
      /\ ~finishing' => end \in sent
  <2>1. tail + 1 \in Nat
    BY <1>1
  <2>2. /\ sent \subseteq (tail + 1)..end /\ tail + 1 \in sent
        /\ \A c \in sent : (tail + 1)..c \subseteq sent
        /\ (~ \E i \in (tail + 1)..end : IsEnd(i)) => sent = (tail + 1)..end
    BY <1>4, <2>1, UpToEndIsInitial
  <2>3. ~finishing' => sent = (tail + 1)..end
    BY <1>2, <1>4, <2>2
  <2>4. end \in (tail + 1)..end
    BY <1>4, <2>1
  <2> QED
    BY <2>2, <2>3, <2>4
<1> HIDE DEF end, sent
<1>6. \A i \in sent : i \in Nat /\ tail < i
  BY <1>1, <1>4, <1>5
<1>7. ServedFeed!NoHole(all)
  <2> SUFFICES ASSUME NEW a \in all, NEW c \in all, NEW k \in a..c
               PROVE  k \in all
    BY DEF ServedFeed!NoHole
  <2>1. a \in Nat /\ c \in Nat /\ k \in Nat /\ a <= k /\ k <= c
    BY <1>1, <1>6
  <2>2. CASE k <= tail
    <3>1. a \in received /\ tail \in received
      BY <1>1, <1>3, <1>6, <2>1, <2>2
    <3>2. k \in a..tail
      BY <1>1, <2>1, <2>2
    <3> QED
      BY <1>3, <3>1, <3>2 DEF ServedFeed!NoHole
  <2>3. CASE tail < k /\ c \in received
    <3>1. tail \in received /\ k \in tail..c
      BY <1>1, <1>3, <2>1, <2>3
    <3> QED
      BY <1>3, <2>3, <3>1 DEF ServedFeed!NoHole
  <2>4. CASE tail < k /\ c \in sent
    <3>1. k \in (tail + 1)..c
      BY <1>1, <2>1, <2>4
    <3> QED
      BY <1>5, <2>4, <3>1
  <2> QED
    BY <1>1, <2>1, <2>2, <2>3, <2>4
<1>8. Starts(all, received, trimmed)
  <2>1. CASE tail \in received
    <3>1. PICK x \in received : x <= trimmed + 1 /\ \A i \in received : x <= i
      BY <1>1, <2>1 DEF Served, Starts
    <3>2. \A i \in sent : x <= i
      BY <1>1, <1>6, <2>1, <3>1
    <3> QED
      BY <3>1, <3>2 DEF Starts
  <2>2. CASE received = {} /\ tail <= trimmed
    <3>1. tail = trimmed
      BY <1>1, <1>2, <2>2
    <3>2. \A i \in all : tail + 1 <= i
      BY <1>1, <1>6, <2>2
    <3>3. tail + 1 \in all /\ tail + 1 <= trimmed + 1
      BY <1>1, <1>5, <3>1
    <3> QED
      BY <2>2, <3>2, <3>3 DEF Starts
  <2> QED
    BY <1>3, <2>1, <2>2
<1>9. received' \cup outbox' = all /\ (~finishing' => tail' \in all)
  BY <1>2, <1>5 DEF end, sent
<1>10. /\ received' = received /\ log' = log /\ cursor' = cursor /\ trimmed' = trimmed
       /\ pc' = "send" /\ ~blind'
  BY <1>1, <1>2
<1>11. all # {}
  BY <1>5
<1> HIDE DEF all
<1> QED
  BY <1>3, <1>7, <1>8, <1>9, <1>10, <1>11 DEF Served

\* A failed replay, a gap and an overrun are what the client is told of.
LEMMA ServedStep ==
    ASSUME WatchInv, WatchInv', LogGrows, ~Told, Served, [Next]_vars, ~Told'
    PROVE  Served'
<1>1. excuses = {} /\ excuses' = {} /\ ~Reordered
  BY DEF Told
<1>2. /\ ~blind /\ pc \notin {"gap", "snapshot"}
      /\ pc \in {"hello", "replay"} => after = cursor
      /\ pc = "tail" => ~finishing
      /\ outbox # {} => pc \in {"gap", "snapshot", "send"}
  BY DEF Served, WatchInv, TypeOK
<1>3. CASE LogNext /\ UNCHANGED <<serverVars, owed, clientVars, excuses>>
  <2>1. UNCHANGED <<received, cursor, pc, after, tail, blind, outbox, finishing>>
    BY <1>3 DEF serverVars, clientVars
  <2> QED
    BY <1>2, <2>1, ServedStays
<1>4. CASE Connect
  <2>1. /\ pc = "down" /\ pc' = "hello" /\ after' = cursor /\ ~blind'
        /\ UNCHANGED <<received, cursor, outbox>>
    BY <1>4 DEF Connect, clientVars
  <2>2. outbox' = {}
    BY <1>2, <2>1
  <2> QED
    BY <2>1, <2>2, ServedStays
<1>5. CASE Hello
  <2>1. /\ pc = "hello" /\ pc' = "replay"
        /\ UNCHANGED <<received, cursor, after, outbox, blind>>
    BY <1>5 DEF Hello
  <2>2. outbox' = {} /\ after' = cursor /\ ~blind'
    BY <1>2, <2>1
  <2> QED
    BY <2>1, <2>2, ServedStays
<1>6. CASE Replay
  BY <1>1, <1>6, ServedReplay
<1>7. CASE ReadLive
  BY <1>1, <1>7, ServedReadLive
<1>8. CASE ReplayFails \/ DeliverGap \/ DeliverSnapshot
  BY <1>1, <1>2, <1>8 DEF ReplayFails, DeliverGap, DeliverSnapshot
<1>9. ASSUME NEW i \in outbox, Deliver(i)
      PROVE  Served'
  BY <1>1, <1>9, ServedDeliver
<1>10. CASE Sent
  <2>1. /\ pc = "send" /\ outbox = {} /\ pc' \in {"tail", "stopped", "down"}
        /\ pc' = "tail" => ~finishing
        /\ UNCHANGED <<received, cursor, outbox, tail, blind, finishing>>
    BY <1>10 DEF Sent, clientVars
  <2> QED
    BY <1>2, <2>1, ServedStays
<1>11. CASE SendFails \/ ReaderEnds
  <2>1. pc' = "down" /\ outbox' = {} /\ UNCHANGED <<received, cursor, blind>>
    BY <1>11 DEF SendFails, ReaderEnds, ConnectionLost, clientVars
  <2> QED
    BY <1>2, <2>1, ServedStays
<1>12. CASE Ping \/ Pong \/ UNCHANGED vars
  <2>1. UNCHANGED <<received, cursor, pc, after, tail, blind, outbox, finishing>>
    BY <1>12 DEF Ping, Pong, vars, serverVars, clientVars
  <2> QED
    BY <1>2, <2>1, ServedStays
<1>13. CASE GoAway
  <2>1. pc = "tail" /\ pc' = "down" /\ UNCHANGED <<received, cursor, outbox, blind>>
    BY <1>13 DEF GoAway, Idle, clientVars
  <2>2. outbox' = {}
    BY <1>2, <2>1
  <2> QED
    BY <1>2, <2>1, <2>2, ServedStays
<1> QED
  BY <1>3, <1>4, <1>5, <1>6, <1>7, <1>8, <1>9, <1>10, <1>11, <1>12, <1>13 DEF Next

FeedInv == WatchInv /\ (~Told => Served)

LEMMA FeedInvStep == FeedInv /\ [Next]_vars => FeedInv' /\ LogGrows
<1> SUFFICES ASSUME FeedInv, [Next]_vars
             PROVE  FeedInv' /\ LogGrows
  OBVIOUS
<1>1. WatchInv /\ WatchInv' /\ LogGrows
  BY WatchInvStep DEF FeedInv
<1>2. CASE Told
  BY <1>1, <1>2, ToldStays DEF FeedInv
<1>3. CASE ~Told
  BY <1>1, <1>3, ServedStep DEF FeedInv
<1> QED
  BY <1>2, <1>3

LEMMA FeedInvInit == Init => FeedInv /\ ServedFeed!FeedInit
<1> SUFFICES ASSUME Init
             PROVE  FeedInv /\ ServedFeed!FeedInit
  OBVIOUS
<1>1. WatchInv
  BY WatchInvInit
<1>2. log = <<>> /\ received = {} /\ outbox = {} /\ excuses = {} /\ cursor = 0
  BY DEF Init, LogInit
<1>3. pc \in {"down", "away"} /\ ~blind
  BY DEF Init
<1>4. ServedFeed!NoHole({}) /\ Starts({}, {}, trimmed)
  BY DEF ServedFeed!NoHole, Starts
<1>5. Served
  BY <1>2, <1>3, <1>4 DEF Served
<1>6. ~Reordered /\ Len(log) = 0
  BY <1>2 DEF Reordered
<1> QED
  BY <1>1, <1>2, <1>5, <1>6 DEF FeedInv, ServedFeed!FeedInit

\* One publish at a time is what makes the log grow.
LEMMA OneAtATime ==
    ASSUME LogTypeOK, [LogNext]_logVars \/ Watching
    PROVE  Len(log') = Len(log) + 1 \/ log' = log
<1>1. ASSUME NEW e \in Emitters, Publish(e)
      PROVE  Len(log') = Len(log) + 1
  BY <1>1, PublishEnters DEF Publish, Enters
<1>2. CASE \/ Trim \/ EmitToken \/ TimerFires \/ EmitFrame \/ EmitEnd \/ AnnounceLaunch
           \/ HandOver
  BY <1>2 DEF Trim, EmitToken, TimerFires, EmitFrame, EmitEnd, AnnounceLaunch, HandOver
<1>3. CASE LineStarts \/ AnnounceExit \/ PumpEnds \/ Cancel \/ Close \/ EmitOutside
  BY <1>3 DEF LineStarts, AnnounceExit, PumpEnds, Cancel, Close, EmitOutside
<1>4. ASSUME NEW e \in Emitters, Allocate(e) \/ PublishFails(e)
      PROVE  log' = log
  BY <1>4 DEF Allocate, PublishFails
<1>5. ASSUME NEW t \in Tasks, EmitFlushed(t)
      PROVE  log' = log
  BY <1>5 DEF EmitFlushed
<1>6. CASE Watching \/ UNCHANGED logVars
  BY <1>6 DEF Watching, logVars
<1> QED
  BY <1>1, <1>2, <1>3, <1>4, <1>5, <1>6 DEF LogNext

LEMMA FeedStep ==
    ASSUME FeedInv, FeedInv', LogGrows, [Next]_vars
    PROVE  [ServedFeed!FeedNext]_<<Len(log), received, excuses # {} \/ Reordered>>
<1> USE DEF ServedFeed!feedVars
<1>1. WatchInv /\ LogTypeOK
  BY WatchTypes DEF FeedInv
<1>2. Told => Told'
  BY <1>1, ToldStays
<1>3. ASSUME NEW i \in outbox, Deliver(i)
      PROVE  ServedFeed!FeedNext
  <2>1. received' = received \cup {i} /\ log' = log /\ excuses' = excuses
    BY <1>3 DEF Deliver, Fold, logVars
  <2>2. Reordered' = Reordered /\ Len(log') = Len(log)
    BY <2>1 DEF Reordered
  <2>3. i \in 1..Len(log)
    BY <1>1, WatchTypes
  <2>4. Told \/ ServedFeed!NoHole(received')
    BY <2>1, <2>2 DEF FeedInv, Served, Told
  <2>5. ServedFeed!See(i)
    BY <2>1, <2>2, <2>4 DEF ServedFeed!See, Told
  <2> QED
    BY <2>3, <2>5 DEF ServedFeed!FeedNext
<1>4. ASSUME received' = received
      PROVE  ServedFeed!FeedNext \/ UNCHANGED <<Len(log), received, excuses # {} \/ Reordered>>
  <2>1. Len(log') = Len(log) + 1 \/ log' = log
    BY <1>1, NextLogs, OneAtATime
  <2>2. CASE Len(log') = Len(log) + 1
    <3>1. ServedFeed!Publish
      BY <1>2, <1>4, <2>2 DEF ServedFeed!Publish, Told
    <3> QED
      BY <3>1 DEF ServedFeed!FeedNext
  <2>3. CASE log' = log /\ (Told <=> Told')
    BY <1>4, <2>3 DEF Told
  <2>4. CASE log' = log /\ Told'
    <3>1. ServedFeed!Tell
      BY <1>4, <2>4 DEF ServedFeed!Tell, Told
    <3> QED
      BY <3>1 DEF ServedFeed!FeedNext
  <2> QED
    BY <1>2, <2>1, <2>2, <2>3, <2>4
<1>5. received' = received \/ \E i \in outbox : Deliver(i)
  <2>1. CASE Connect \/ Hello \/ Replay \/ ReplayFails \/ ReadLive \/ DeliverGap
    BY <2>1 DEF Connect, Hello, Replay, ReplayFails, ReadLive, DeliverGap, clientVars
  <2>2. CASE DeliverSnapshot \/ Sent \/ Ping \/ Pong \/ GoAway
    BY <2>2 DEF DeliverSnapshot, Sent, Ping, Pong, GoAway, clientVars
  <2>3. CASE SendFails \/ ReaderEnds
    BY <2>3 DEF SendFails, ReaderEnds, ConnectionLost, clientVars
  <2>4. CASE UNCHANGED vars \/ (LogNext /\ UNCHANGED <<serverVars, owed, clientVars, excuses>>)
    BY <2>4 DEF vars, clientVars
  <2> QED
    BY <2>1, <2>2, <2>3, <2>4 DEF Next
<1> QED
  BY <1>3, <1>4, <1>5

\* What the client receives is a feed with no hole, through trimming, failed
\* publishes, backlogs longer than one read, closing and broken connections, for
\* every size of the log, of a backlog and of a live batch, until it was told
\* that history is missing or one of the circumstances of Reasons applies.
THEOREM ClientIsServedTheFeed == Spec => ImplementsFeed
<1>1. FeedInv /\ [Next]_vars
        => [ServedFeed!FeedNext]_<<Len(log), received, excuses # {} \/ Reordered>>
  BY FeedInvStep, FeedStep
<1> QED
  BY <1>1, FeedInvInit, FeedInvStep, PTL
  DEF Spec, ImplementsFeed, ServedFeed!FeedSpec, ServedFeed!feedVars
=============================================================================
