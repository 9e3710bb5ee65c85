------------------------------ MODULE RunStream ------------------------------
(***************************************************************************)
(* One browser following a run: the WebSocket of api/v1/websockets.py over *)
(* the log of EventStream, the reconnecting hook useRunStream.ts and the   *)
(* fold of runStore.ts.  The hook keeps a cursor, the highest sequence     *)
(* number it was sent; the store keeps lastSeq and skips what is not above *)
(* it.  A connection is a network that delivers in order until it breaks,  *)
(* so sending and receiving one frame is one step; what was not sent when  *)
(* it breaks is lost and asked for again with the cursor.  What the server *)
(* is about to send is a set of entries, sent in the order of the log;     *)
(* replay.complete changes nothing that is modelled and is left out.       *)
(***************************************************************************)
EXTENDS EventStream

CONSTANTS
    BacklogCount,   \* read_backlog's count
    LiveCount       \* read_live's count

ASSUME CountsAssumption == BacklogCount \in Nat \ {0} /\ LiveCount \in Nat \ {0}

MaxMissedPongs == 2     \* MAX_MISSED_PONGS

VARIABLES
    pc,         \* where the connection is
    after,      \* its after_seq
    tail,       \* the stream id the live tail reads after, as an index of log
    blind,      \* the tail reads from "$": what arrives while it blocks
    outbox,     \* entries the server is about to send, as indices of log
    finishing,  \* the server closes with 1000 when that is sent
    missed,     \* missed_pongs
    owed,       \* pings the client has not answered yet
    cursor,     \* the hook's cursorRef
    lastSeq,    \* the store's lastSeq
    folded,     \* history: entries the store has folded, as indices of log
    skipped,    \* history: entries it skipped as duplicates
    received,   \* history: entries the client was sent
    excuses     \* history: why the client may have missed entries

serverVars == <<pc, after, tail, blind, outbox, finishing, missed>>
clientVars == <<cursor, lastSeq, folded, skipped, received>>
vars == <<logVars, serverVars, owed, clientVars, excuses>>

Reasons == {"gap",      \* replay.gap was sent: history was trimmed
            "blind",    \* a replay failed and the tail started at "$"
            "overrun"}  \* the live tail was trimmed before it was read

TypeOK ==
    /\ LogTypeOK
    /\ pc \in {"away", "down", "hello", "replay", "gap", "snapshot", "send", "tail", "stopped"}
    /\ after \in 0..seq
    /\ tail \in 0..Len(log)
    /\ blind \in BOOLEAN /\ finishing \in BOOLEAN
    /\ outbox \subseteq DOMAIN log
    /\ outbox # {} => pc \in {"gap", "snapshot", "send"}
    /\ missed \in 0..MaxMissedPongs /\ owed \in Nat /\ missed <= owed
    /\ cursor \in 0..seq
    /\ lastSeq \in 0..seq
    /\ folded \cup skipped = received /\ received \subseteq DOMAIN log
    /\ excuses \subseteq Reasons

Init ==
    /\ LogInit
    /\ pc = IF left["watch"] > 0 THEN "down" ELSE "away"
    /\ after = 0
    /\ tail = 0
    /\ blind = FALSE
    /\ outbox = {}
    /\ finishing = FALSE
    /\ missed = 0
    /\ owed = 0
    /\ cursor = 0
    /\ lastSeq = 0
    /\ folded = {}
    /\ skipped = {}
    /\ received = {}
    /\ excuses = {}

-----------------------------------------------------------------------------
\* The store.

IsEnd(i) == log[i].kind = "end"
Terminal == \E i \in folded : IsEnd(i)

Raise(n) == lastSeq' = IF n > lastSeq THEN n ELSE lastSeq

(* reduceBatch: a frame at or below lastSeq is a replayed duplicate *)
Fold(i) ==
    /\ received' = received \cup {i}
    /\ IF log[i].seq > lastSeq
       THEN /\ lastSeq' = log[i].seq
            /\ folded' = folded \cup {i}
            /\ UNCHANGED skipped
       ELSE /\ skipped' = skipped \cup {i}
            /\ UNCHANGED <<lastSeq, folded>>

-----------------------------------------------------------------------------
\* The connection.

(* connect() of the hook; accept, authentication and the slot of the server *)
Connect ==
    /\ pc = "down"
    /\ pc' = "hello"
    /\ after' = cursor
    /\ missed' = 0
    /\ owed' = 0
    /\ blind' = FALSE
    /\ finishing' = FALSE
    /\ tail' = 0
    /\ UNCHANGED <<logVars, outbox, clientVars, excuses>>

(* _send_hello(): last_seq is the last number allocated; the store takes it *)
Hello ==
    /\ pc = "hello"
    /\ Raise(seq)
    /\ pc' = "replay"
    /\ UNCHANGED <<logVars, after, tail, blind, outbox, finishing, missed, owed>>
    /\ UNCHANGED <<cursor, folded, skipped, received, excuses>>

\* The window read_backlog reads: the oldest retained entries, at most
\* BacklogCount; and the part of it that _replay forwards.
WindowEnd == IF Len(log) - trimmed > BacklogCount THEN trimmed + BacklogCount ELSE Len(log)
Window == (trimmed + 1)..WindowEnd
Backlog == {i \in Window : log[i].seq > after}

\* Mutant: one missing entry is not a gap yet.
HasGapLate == Window # {} /\ after > 0 /\ log[trimmed + 1].seq > after + 2

HasGap == Window # {} /\ after > 0 /\ log[trimmed + 1].seq > after + 1

\* Mutant: the tail starts at "$" instead of where the window ended.
ReplayToNow ==
    /\ pc = "replay"
    /\ tail' = Len(log)
    /\ outbox' = Backlog
    /\ finishing' = \E i \in Backlog : IsEnd(i)
    /\ pc' = "send"
    /\ UNCHANGED <<logVars, after, blind, missed, owed, clientVars, excuses>>

(* _replay() *)
Replay ==
    /\ pc = "replay"
    /\ tail' = IF Window = {} THEN 0 ELSE WindowEnd
    /\ outbox' = Backlog
    /\ finishing' = \E i \in Backlog : IsEnd(i)
    /\ IF HasGap
       THEN pc' = "gap" /\ excuses' = excuses \cup {"gap"}
       ELSE pc' = "send" /\ UNCHANGED excuses
    /\ UNCHANGED <<logVars, after, blind, missed, owed, clientVars>>

(* read_backlog() raised: an error frame, then the tail starts at "$" *)
ReplayFails ==
    /\ pc = "replay"
    /\ Spend("blip")
    /\ tail' = Len(log)
    /\ blind' = TRUE
    /\ pc' = "tail"
    /\ excuses' = excuses \cup {"blind"}
    /\ UNCHANGED <<seq, log, trimmed, emitVars, held, job, sandboxVars>>
    /\ UNCHANGED <<after, outbox, finishing, missed, owed, clientVars>>

\* XREAD after `from`: at most LiveCount entries that are still retained.
BatchStart(from) == (IF from < trimmed THEN trimmed ELSE from) + 1
BatchEnd(from) ==
    IF Len(log) - BatchStart(from) >= LiveCount THEN BatchStart(from) + LiveCount - 1
                                                ELSE Len(log)
Batch(from) == BatchStart(from)..BatchEnd(from)

\* The part of a batch _pump forwards: up to the first terminal frame.
UpToEnd(indices) == {i \in indices : \A j \in indices : IsEnd(j) => i <= j}

(* read_live() and the loop over its events.  From "$" it returns what      *)
(* arrived while this very call blocked, so earlier entries may be skipped. *)
ReadLive ==
    /\ pc = "tail"
    /\ tail < Len(log)
    /\ \E from \in IF blind THEN tail..(Len(log) - 1) ELSE {tail} :
         /\ Batch(from) # {}
         /\ tail' = BatchEnd(from)
         /\ outbox' = UpToEnd(Batch(from))
         /\ finishing' = \E i \in Batch(from) : IsEnd(i)
         /\ excuses' = IF from < trimmed THEN excuses \cup {"overrun"} ELSE excuses
    /\ blind' = FALSE
    /\ pc' = "send"
    /\ UNCHANGED <<logVars, after, missed, owed, clientVars>>

\* replay.gap: the hook resets its cursor.
DeliverGap ==
    /\ pc = "gap"
    /\ cursor' = 0
    /\ pc' = "snapshot"
    /\ UNCHANGED <<logVars, after, tail, blind, outbox, finishing, missed, owed>>
    /\ UNCHANGED <<lastSeq, folded, skipped, received, excuses>>

\* run.snapshot: the run as REST describes it, with the last number allocated;
\* an error frame when it could not be built.
DeliverSnapshot ==
    /\ pc = "snapshot"
    /\ Raise(seq) \/ UNCHANGED lastSeq
    /\ pc' = "send"
    /\ UNCHANGED <<logVars, after, tail, blind, outbox, finishing, missed, owed>>
    /\ UNCHANGED <<cursor, folded, skipped, received, excuses>>

\* An entry arrives: onmessage of the hook, then the fold.
Deliver(i) ==
    /\ pc = "send"
    /\ i \in outbox /\ \A j \in outbox : i <= j
    /\ outbox' = outbox \ {i}
    /\ cursor' = IF log[i].seq > cursor THEN log[i].seq ELSE cursor
    /\ Fold(i)
    /\ UNCHANGED <<logVars, pc, after, tail, blind, finishing, missed, owed, excuses>>

(* The pump goes on to the tail, or the server closes with 1000: the hook *)
(* stops if its store has seen the end, else it reconnects.               *)
Sent ==
    /\ pc = "send"
    /\ outbox = {}
    /\ pc' = IF ~finishing THEN "tail" ELSE IF Terminal THEN "stopped" ELSE "down"
    /\ UNCHANGED <<logVars, after, tail, blind, outbox, finishing, missed, owed>>
    /\ UNCHANGED <<clientVars, excuses>>

\* What ends a connection is seen by the pump, as it sends, or by the reader
\* task, as it waits: either marks it closed for both.
ConnectionLost ==
    /\ Spend("drop")
    /\ pc' = "down"
    /\ outbox' = {}
    /\ UNCHANGED <<seq, log, trimmed, emitVars, held, job, sandboxVars>>
    /\ UNCHANGED <<after, tail, blind, finishing, missed, owed, clientVars, excuses>>

(* RunConnection.send() *)
SendFails == (pc \in {"hello", "gap", "snapshot"} \/ outbox # {}) /\ ConnectionLost

(* _read_client() *)
ReaderEnds == pc \in {"replay", "gap", "snapshot", "send", "tail"} /\ ConnectionLost

-----------------------------------------------------------------------------
\* The heartbeat, in an idle tail.  A client that answers does so before the
\* next ping is due; "mute" is a client that does not.

Idle == pc = "tail" /\ tail = Len(log)

Ping ==
    /\ Idle
    /\ missed < MaxMissedPongs
    /\ \/ owed = 0 /\ UNCHANGED left
       \/ owed > 0 /\ Spend("mute")
    /\ missed' = missed + 1
    /\ owed' = owed + 1
    /\ UNCHANGED <<seq, log, trimmed, emitVars, held, job, sandboxVars>>
    /\ UNCHANGED <<pc, after, tail, blind, outbox, finishing, clientVars, excuses>>

(* _handle_client_message: a pong clears the count *)
Pong ==
    /\ pc \notin {"away", "down", "stopped"}
    /\ owed > 0
    /\ owed' = owed - 1
    /\ missed' = 0
    /\ UNCHANGED <<logVars, pc, after, tail, blind, outbox, finishing, clientVars, excuses>>

(* _heartbeat() gives up: close 1001, and the hook reconnects *)
GoAway ==
    /\ Idle
    /\ missed = MaxMissedPongs
    /\ pc' = "down"
    /\ UNCHANGED <<logVars, after, tail, blind, outbox, finishing, missed, owed>>
    /\ UNCHANGED <<clientVars, excuses>>

-----------------------------------------------------------------------------
Next ==
    \/ LogNext /\ UNCHANGED <<serverVars, owed, clientVars, excuses>>
    \/ Connect \/ Hello \/ Replay \/ ReplayFails \/ ReadLive
    \/ DeliverGap \/ DeliverSnapshot \/ (\E i \in outbox : Deliver(i)) \/ Sent
    \/ SendFails \/ ReaderEnds \/ Ping \/ Pong \/ GoAway

Spec == Init /\ [][Next]_vars

\* The emitters and the server's tasks run, the hook reconnects and answers.
\* Nothing is assumed of users, of the network or of what goes wrong.
Fairness ==
    /\ \A e \in Emitters :
         WF_vars((Allocate(e) \/ Publish(e))
                 /\ UNCHANGED <<serverVars, owed, clientVars, excuses>>)
    /\ WF_vars(Connect) /\ WF_vars(Hello) /\ WF_vars(Replay) /\ WF_vars(ReadLive)
    /\ WF_vars(DeliverGap) /\ WF_vars(DeliverSnapshot)
    /\ WF_vars(\E i \in outbox : Deliver(i)) /\ WF_vars(Sent) /\ WF_vars(Pong)

FairSpec == Spec /\ Fairness

-----------------------------------------------------------------------------
\* Another emitter's entry landed out of order: the numbers of the log are not
\* the order of the log, and a cursor that is a number cannot resume in it.
Reordered == \E i, j \in DOMAIN log : i < j /\ log[i].seq > log[j].seq

\* Replay, live tail and reconnection together give the client the log without
\* a hole, through trimming, failed publishes, backlogs longer than one read
\* and broken connections, unless it was told, or one of the circumstances of
\* Reasons or Reordered applies.
ServedFeed == INSTANCE Feed WITH
    published <- Len(log), seen <- received, told <- excuses # {} \/ Reordered

ImplementsFeed == ServedFeed!FeedSpec

\* A run's end reaches the client, whatever broke in between: unless it has
\* missed history, or the end was trimmed before it could be read.
EndReachesClient ==
    pc # "away" /\ (\E i \in DOMAIN log : IsEnd(i)) ~>
        \/ \E i \in received : IsEnd(i)
        \/ excuses # {} \/ Reordered
        \/ \E i \in 1..trimmed : IsEnd(i)

\* "An event at or below the highest already folded is a replayed duplicate"
\* (runStore.ts, line 492): what the store skips it has folded before.
SkippedAreDuplicates == skipped \subseteq folded
=============================================================================
