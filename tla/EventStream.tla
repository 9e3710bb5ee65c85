----------------------------- MODULE EventStream -----------------------------
(***************************************************************************)
(* The event log of one run and those who write it: engine/events.py over  *)
(* the stream primitives of core/redis.py.  The worker's emitter is shared *)
(* by three tasks: the node, the timer that flushes model tokens, and the  *)
(* coroutines the sandbox's log thread schedules.  Its lock is a FIFO      *)
(* queue of publishes; the head of the queue takes a sequence number, then *)
(* appends.  A request or the reaper writes through an emitter of its own, *)
(* with a lock of its own.                                                 *)
(*                                                                         *)
(* A token delta is a number, counted by `spoken`; `buffer` is how many of *)
(* the last ones are not yet published.  The log is kept whole; the first  *)
(* `trimmed` entries of it are no longer in Redis.                         *)
(***************************************************************************)
EXTENDS Naturals, Sequences

CONSTANTS
    Coalesce,   \* COALESCE_CHARS, in deltas
    MaxLen,     \* EVENT_STREAM_MAXLEN
    Scenarios   \* budgets: how often each kind of event may happen

Kinds == {"delta", "frame", "sandbox", "line", "outside",   \* what is emitted
          "lost", "cancel", "late", "trim",                 \* what goes wrong
          "watch", "drop", "blip", "mute"}                  \* RunStream's

ASSUME CoalesceAssumption == Coalesce \in Nat \ {0}
ASSUME MaxLenAssumption == MaxLen \in Nat \ {0}
ASSUME ScenariosAssumption == Scenarios \subseteq [Kinds -> Nat]

Tasks == {"node", "timer", "line", "outside"}
Emitters == {"worker", "outside"}
EmitterOf(t) == IF t = "outside" THEN "outside" ELSE "worker"

VARIABLES
    seq,        \* run:{id}:seq
    log,        \* every entry ever appended to run:{id}:events
    trimmed,    \* how many of them have been trimmed
    spoken,     \* deltas given to emit_token
    buffer,     \* deltas in _buffers
    call,       \* what each task is waiting for in the emitter
    want,       \* the frame a task emits when its flush is through
    queue,      \* each emitter's lock: the publishes in the order they asked
    held,       \* the sequence number of the head of the queue, 0 before INCR
    job,        \* where the execution is
    pump,       \* the sandbox's log thread
    printed,    \* lines the thread has handed over
    scheduled,  \* coroutines handed to the loop and not yet started
    overran,    \* history: the log thread outlived its execution
    left        \* what is left of the scenario

logVars == <<seq, log, trimmed, spoken, buffer, call, want, queue, held, job,
             pump, printed, scheduled, overran, left>>
emitVars == <<spoken, buffer, call, want, queue>>
sandboxVars == <<pump, printed, scheduled, overran>>

(* mark: of a token frame its first delta, of another frame the deltas that *)
(* were spoken when its emit was called.  n: of a line, its number; of an   *)
(* exit, the number of the last line its execution printed.                 *)
FrameKinds == {"token", "frame", "start", "line", "tail", "exit", "end", "notice"}
Frame(kind, mark, n) == [kind |-> kind, mark |-> mark, n |-> n]
Frames == [kind : FrameKinds, mark : Nat, n : Nat]
NoFrame == Frame("frame", 0, 0)
TokenFrame == Frame("token", spoken - buffer + 1, 0)
Marked(kind) == Frame(kind, spoken, 0)

\* A frame on its way, and the task that emits it.
Publishes == [task : Tasks, frame : Frames]

\* A frame in the log: its number, and the emitter it came from.
Entry(f, number, e) ==
    [kind |-> f.kind, mark |-> f.mark, n |-> f.n, seq |-> number, by |-> e]
EntryType == [kind : FrameKinds, mark : Nat, n : Nat, seq : Nat, by : Emitters]

LogTypeOK ==
    /\ seq \in Nat
    /\ log \in Seq(EntryType)
    /\ \A i \in DOMAIN log : log[i].seq \in 1..seq
    /\ trimmed \in 0..Len(log)
    /\ spoken \in Nat /\ buffer \in 0..spoken
    /\ call \in [Tasks -> {"idle", "sleep", "flush", "emit", "publish"}]
    /\ want \in [Tasks -> Frames]
    /\ queue \in [Emitters -> Seq(Publishes)]
    /\ held \in [Emitters -> Nat]
    /\ \A e \in Emitters : held[e] <= seq /\ (queue[e] = <<>> => held[e] = 0)
    /\ job \in {"node", "sandbox", "cancelled", "ended", "closed"}
    /\ pump \in {"off", "on", "late"}
    /\ printed \in Nat
    /\ scheduled \in Seq(Frames)
    /\ overran \in BOOLEAN
    /\ left \in [Kinds -> Nat]

LogInit ==
    /\ seq = 0
    /\ log = <<>>
    /\ trimmed = 0
    /\ spoken = 0
    /\ buffer = 0
    /\ call = [t \in Tasks |-> "idle"]
    /\ want = [t \in Tasks |-> NoFrame]
    /\ queue = [e \in Emitters |-> <<>>]
    /\ held = [e \in Emitters |-> 0]
    /\ job = "node"
    /\ pump = "off"
    /\ printed = 0
    /\ scheduled = <<>>
    /\ overran = FALSE
    /\ left \in Scenarios

Spend(kind) == left[kind] > 0 /\ left' = [left EXCEPT ![kind] = @ - 1]

-----------------------------------------------------------------------------
\* Publishing.

Ask(t, f) ==
    queue' = [queue EXCEPT ![EmitterOf(t)] = Append(@, [task |-> t, frame |-> f])]

\* Mutant: the emitter publishes without flushing the tokens first.
EmitUnflushed(t, f) ==
    /\ Ask(t, f)
    /\ call' = IF t = "line" THEN call ELSE [call EXCEPT ![t] = "publish"]
    /\ UNCHANGED <<buffer, want>>

(* emit(): a buffered token frame goes first and is waited for; without one *)
(* nothing is awaited between the call and the queue for the lock.  A line  *)
(* is a coroutine nobody waits for, so only its flush shows in `call`.      *)
Emit(t, f) ==
    IF buffer > 0 /\ EmitterOf(t) = "worker"
    THEN /\ Ask(t, TokenFrame)
         /\ buffer' = 0
         /\ call' = [call EXCEPT ![t] = "flush"]
         /\ want' = [want EXCEPT ![t] = f]
    ELSE /\ Ask(t, f)
         /\ call' = IF t = "line" THEN call ELSE [call EXCEPT ![t] = "publish"]
         /\ UNCHANGED <<buffer, want>>

(* The flush is through: the frame itself asks for the lock. *)
EmitFlushed(t) ==
    /\ call[t] = "emit"
    /\ Ask(t, want[t])
    /\ call' = [call EXCEPT ![t] = IF t = "line" THEN "idle" ELSE "publish"]
    /\ want' = [want EXCEPT ![t] = NoFrame]
    /\ UNCHANGED <<seq, log, trimmed, spoken, buffer, held, job, left>>
    /\ UNCHANGED sandboxVars

\* Mutant: the number is the length of the log plus one.
AllocateFromLog(e) ==
    /\ queue[e] # <<>>
    /\ held[e] = 0
    /\ seq' = IF seq > Len(log) THEN seq ELSE Len(log) + 1
    /\ held' = [held EXCEPT ![e] = Len(log) + 1]
    /\ UNCHANGED <<log, trimmed, spoken, buffer, call, want, queue, job, left>>
    /\ UNCHANGED sandboxVars

(* next_seq(): INCR, under the lock *)
Allocate(e) ==
    /\ queue[e] # <<>>
    /\ held[e] = 0
    /\ seq' = seq + 1
    /\ held' = [held EXCEPT ![e] = seq + 1]
    /\ UNCHANGED <<log, trimmed, spoken, buffer, call, want, queue, job, left>>
    /\ UNCHANGED sandboxVars

\* Mutant: the next publish inherits the number of the one that is over.
ReturnedUnreset(e) ==
    LET t == Head(queue[e]).task IN
    /\ queue' = [queue EXCEPT ![e] = Tail(@)]
    /\ UNCHANGED held
    /\ call' = [call EXCEPT ![t] = IF @ = "flush" THEN "emit" ELSE "idle"]

\* The publish at the head is over; the task that asked for it goes on.
Returned(e) ==
    LET t == Head(queue[e]).task IN
    /\ queue' = [queue EXCEPT ![e] = Tail(@)]
    /\ held' = [held EXCEPT ![e] = 0]
    /\ call' = [call EXCEPT ![t] =
                   CASE @ = "flush" /\ Head(queue[e]).frame.kind = "token" -> "emit"
                     [] t = "line" -> @
                     [] OTHER -> "idle"]

\* XADD MAXLEN ~ trims to at least MaxLen, and as far as it likes above it.
MayTrim(entries) ==
    \E k \in trimmed..(IF Len(entries) > MaxLen /\ Len(entries) - MaxLen > trimmed
                       THEN Len(entries) - MaxLen ELSE trimmed) :
        trimmed' = k

(* append_event(): XADD under the same lock *)
Publish(e) ==
    /\ held[e] # 0
    /\ log' = Append(log, Entry(Head(queue[e]).frame, held[e], e))
    /\ MayTrim(log')
    /\ Returned(e)
    /\ UNCHANGED <<seq, spoken, buffer, want, job, left>>
    /\ UNCHANGED sandboxVars

(* INCR or XADD raised: logged and swallowed.  After the INCR the number is *)
(* gone.                                                                    *)
PublishFails(e) ==
    /\ queue[e] # <<>>
    /\ Spend("lost")
    /\ Returned(e)
    /\ UNCHANGED <<seq, log, trimmed, spoken, buffer, want, job>>
    /\ UNCHANGED sandboxVars

(* trim_event_streams: the cron job *)
Trim ==
    /\ Spend("trim")
    /\ MayTrim(log)
    /\ UNCHANGED <<seq, log, held, job>>
    /\ UNCHANGED <<emitVars, sandboxVars>>

-----------------------------------------------------------------------------
\* The worker's execution.

(* emit_token(): the buffer is flushed when it is full, else the timer is *)
(* armed unless it sleeps or publishes already                            *)
EmitToken ==
    /\ job = "node"
    /\ call["node"] = "idle"
    /\ Spend("delta")
    /\ spoken' = spoken + 1
    /\ IF buffer + 1 >= Coalesce
       THEN /\ Ask("node", Frame("token", spoken - buffer + 1, 0))
            /\ buffer' = 0
            /\ call' = [call EXCEPT !["node"] = "publish"]
       ELSE /\ buffer' = buffer + 1
            /\ call' = [call EXCEPT !["timer"] = IF @ = "idle" THEN "sleep" ELSE @]
            /\ UNCHANGED queue
    /\ UNCHANGED <<seq, log, trimmed, want, held, job>>
    /\ UNCHANGED sandboxVars

(* _flush_after_delay() *)
TimerFires ==
    /\ call["timer"] = "sleep"
    /\ IF buffer > 0
       THEN /\ Ask("timer", TokenFrame)
            /\ buffer' = 0
            /\ call' = [call EXCEPT !["timer"] = "publish"]
       ELSE /\ call' = [call EXCEPT !["timer"] = "idle"]
            /\ UNCHANGED <<buffer, queue>>
    /\ UNCHANGED <<seq, log, trimmed, spoken, want, held, job, left>>
    /\ UNCHANGED sandboxVars

\* A node's own frames, and the terminal frame of the job.
EmitFrame ==
    /\ job = "node"
    /\ call["node"] = "idle"
    /\ Spend("frame")
    /\ Emit("node", Marked("frame"))
    /\ UNCHANGED <<seq, log, trimmed, spoken, held, job>>
    /\ UNCHANGED sandboxVars

EmitEnd ==
    /\ job \in {"node", "cancelled"}
    /\ call["node"] = "idle"
    /\ Emit("node", Marked("end"))
    /\ job' = "ended"
    /\ UNCHANGED <<seq, log, trimmed, spoken, held, left>>
    /\ UNCHANGED sandboxVars

(* sandbox.started, then the container runs *)
AnnounceLaunch ==
    /\ job = "node"
    /\ call["node"] = "idle"
    /\ pump = "off"
    /\ Spend("sandbox")
    /\ Emit("node", Marked("start"))
    /\ job' = "sandbox"
    /\ pump' = "on"
    /\ UNCHANGED <<seq, log, trimmed, spoken, held, printed, scheduled, overran>>

(* The log thread hands over a complete line: run_coroutine_threadsafe. *)
HandOver ==
    /\ pump # "off"
    /\ pump = "on" => call["node"] = "idle"
    /\ Spend("line")
    /\ printed' = printed + 1
    /\ scheduled' = Append(scheduled, Frame("line", 0, printed + 1))
    /\ UNCHANGED <<seq, log, trimmed, held, job, pump, overran>>
    /\ UNCHANGED emitVars

(* The loop starts the coroutine: sandbox_line().  Bound: one of them at a *)
(* time waits for a flush.                                                 *)
LineStarts ==
    /\ scheduled # <<>>
    /\ call["line"] = "idle"
    /\ Emit("line", [Head(scheduled) EXCEPT !.mark = spoken])
    /\ scheduled' = Tail(scheduled)
    /\ UNCHANGED <<seq, log, trimmed, spoken, held, job, pump, printed, overran, left>>

\* Mutant: the exit is announced without joining the log thread.
AnnounceExitUnjoined ==
    /\ job = "sandbox"
    /\ call["node"] = "idle"
    /\ pump' = "off"
    /\ Emit("node", Frame("exit", spoken, printed))
    /\ job' = "node"
    /\ UNCHANGED <<seq, log, trimmed, spoken, held, printed, scheduled, overran, left>>

\* flush(): what the program wrote without ending its line, if anything, and
\* the notice of what was over the limit of bytes.
PartialLine == {<<>>, <<Frame("tail", 0, 0)>>}

(* _announce_exit(): the partial line is scheduled, and sandbox.exit asks   *)
(* for the lock in the same step.  Lines of a thread that was joined have   *)
(* been started: the loop takes up callbacks in order, and the join's is    *)
(* the last.  A thread that is still alive after LOG_DRAIN_TIMEOUT_S goes   *)
(* on handing over.                                                         *)
AnnounceExit ==
    /\ job = "sandbox"
    /\ call["node"] = "idle"
    /\ \/ /\ scheduled = <<>>
          /\ pump' = "off"
          /\ UNCHANGED <<overran, left>>
       \/ /\ Spend("late")
          /\ pump' = "late"
          /\ overran' = TRUE
    /\ \E tail \in PartialLine : scheduled' = scheduled \o tail
    /\ Emit("node", Frame("exit", spoken, printed))
    /\ job' = "node"
    /\ UNCHANGED <<seq, log, trimmed, spoken, held, printed>>

PumpEnds ==
    /\ pump = "late"
    /\ pump' = "off"
    /\ UNCHANGED <<seq, log, trimmed, held, job, printed, scheduled, overran, left>>
    /\ UNCHANGED emitVars

\* A task that is cancelled inside a publish leaves the queue; a number it
\* has taken is gone.
Withdrawn(t) ==
    \/ /\ \A i \in DOMAIN queue["worker"] : queue["worker"][i].task # t
       /\ UNCHANGED <<queue, held>>
    \/ \E i \in DOMAIN queue["worker"] :
         /\ queue["worker"][i].task = t
         /\ queue' = [queue EXCEPT !["worker"] = SubSeq(@, 1, i - 1)
                                                 \o SubSeq(@, i + 1, Len(@))]
         /\ held' = [held EXCEPT !["worker"] = IF i = 1 THEN 0 ELSE @]

(* The graph task is cancelled wherever it awaits. *)
Cancel ==
    /\ job \in {"node", "sandbox"}
    /\ Spend("cancel")
    /\ Withdrawn("node")
    /\ call' = [call EXCEPT !["node"] = "idle"]
    /\ want' = [want EXCEPT !["node"] = NoFrame]
    /\ job' = "cancelled"
    /\ pump' = IF pump = "on" THEN "late" ELSE pump
    /\ overran' = (overran \/ pump = "on")
    /\ UNCHANGED <<seq, log, trimmed, spoken, buffer, printed, scheduled>>

(* aclose(): the timer is cancelled, then what is buffered is flushed *)
Close ==
    /\ job = "ended"
    /\ call["node"] = "idle"
    /\ Withdrawn("timer")
    /\ call' = [call EXCEPT !["timer"] = "idle"]
    /\ job' = "closed"
    /\ UNCHANGED <<seq, log, trimmed, spoken, buffer, want, left>>
    /\ UNCHANGED sandboxVars

(* A request announces its run, or the reaper ends it. *)
EmitOutside ==
    /\ call["outside"] = "idle"
    /\ Spend("outside")
    /\ \E kind \in {"notice", "end"} : Emit("outside", Frame(kind, 0, 0))
    /\ UNCHANGED <<seq, log, trimmed, spoken, held, job>>
    /\ UNCHANGED sandboxVars

LogNext ==
    \/ \E e \in Emitters : Allocate(e) \/ Publish(e) \/ PublishFails(e)
    \/ \E t \in Tasks : EmitFlushed(t)
    \/ EmitToken \/ TimerFires \/ EmitFrame \/ EmitEnd
    \/ AnnounceLaunch \/ HandOver \/ LineStarts \/ AnnounceExit \/ PumpEnds
    \/ Cancel \/ Close \/ EmitOutside
    \/ Trim

LogSpec == LogInit /\ [][LogNext]_logVars

\* The tasks of the worker and of the request run, and so does Redis.
LogFairness ==
    /\ \A e \in Emitters : WF_logVars(Allocate(e)) /\ WF_logVars(Publish(e))
    /\ \A t \in Tasks : WF_logVars(EmitFlushed(t))
    /\ WF_logVars(EmitEnd) /\ WF_logVars(LineStarts) /\ WF_logVars(AnnounceExit)

-----------------------------------------------------------------------------
\* "A node.completed that overtook the tokens the node produced would render
\* the console out of order" (engine/events.py, line 18): no frame of the worker
\* precedes a token that was spoken before the frame was emitted, although the
\* timer takes tokens out of the buffer before it has the lock.
TokensBeforeFrames ==
    \A i, j \in DOMAIN log :
        i < j /\ log[i].by = "worker" /\ log[j].kind = "token"
              /\ log[i].kind # "token"
            => log[i].mark < log[j].mark

\* The sequence numbers in the log are distinct, and those of one emitter are
\* in the order of the log (engine/events.py, lines 7-13, which promise it of
\* the whole log: another emitter's frame may land out of order).
NumberedInOrder ==
    \A i, j \in DOMAIN log :
        i < j => /\ log[i].seq # log[j].seq
                 /\ log[i].by = log[j].by => log[i].seq < log[j].seq

\* The console reads in the order the programs printed, and the complete lines
\* of an execution precede its sandbox.exit, unless a log thread outlived its
\* execution.  (The last partial line comes after sandbox.exit: AnnounceExit.)
ConsoleInOrder ==
    ~overran =>
        \A i, j \in DOMAIN log :
            i < j /\ log[i].kind \in {"line", "exit"} /\ log[j].kind = "line"
                => log[i].n < log[j].n
=============================================================================
