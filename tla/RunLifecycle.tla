---------------------------- MODULE RunLifecycle ----------------------------
(***************************************************************************)
(* One run from dispatch to its terminal status: the API endpoints that    *)
(* write its row (api/v1/tasks.py, api/v1/runs.py), the arq job that       *)
(* carries it (worker/queue.py), the worker that executes it               *)
(* (worker/jobs.py) under the run lock (RunLease), and the reaper that     *)
(* finds a dead worker (worker/cron.py).  Postgres, Redis and arq survive  *)
(* every crash; a process loses its memory.                                *)
(*                                                                         *)
(* Each step is one await of the code: a database statement, a Redis       *)
(* command, or the graph.  What the graph does is AgentGraph's subject:    *)
(* here it ends with an outcome.                                           *)
(***************************************************************************)
EXTENDS RunLease, Integers

CONSTANTS
    Requests,   \* concurrent HTTP requests
    Budgets,    \* how often each kind of event may happen (the model's bounds)
    NoJob       \* no arq job of this run

\* dispatch, resume and cancel are requests; crash kills a worker or an API
\* process, shutdown stops a worker, stall keeps a live worker from renewing
\* its lock, io fails a database statement or the subscription of a worker.
Kinds == {"dispatch", "resume", "cancel", "crash", "shutdown", "stall", "io"}

ASSUME BudgetsAssumption == Budgets \subseteq [Kinds -> Nat]
ASSUME NoJobAssumption == NoJob \notin [resume : BOOLEAN, tries : 0..1]

VARIABLES
    row,        \* tasks.status
    lastEvent,  \* type of the newest frame of the event stream
    job,        \* arq's job record of run:{id}: its argument and its job_try
    inProgress, \* arq's in-progress key: the worker that picked the job
    kept,       \* arq still keeps the result of a finished run:{id} job
    pc,         \* where each worker is in execute_run
    resume,     \* the `resume` argument of each worker's job
    outcome,    \* the local `outcome` of each worker's job
    subscribed, \* workers listening on run:{id}:control
    api,        \* where each request is in its endpoint
    loaded,     \* the status each request read at its start
    older,      \* history: requests in flight since before the kept result
    reaper,     \* where the reaper's sweep is
    used        \* how often each kind of event has happened

arqVars == <<job, inProgress, kept>>
workerVars == <<pc, resume, outcome, subscribed>>
apiVars == <<api, loaded, older>>
vars == <<row, lastEvent, leaseVars, arqVars, workerVars, apiVars, reaper, used>>

Statuses ==
    {"PENDING", "RUNNING", "COMPLETED", "FAILED", "CANCELLED", "INTERRUPTED"}
Terminal == {"COMPLETED", "FAILED", "CANCELLED"}
Resumable == {"INTERRUPTED", "FAILED"}

\* SHUTDOWN is outcome CANCELLED with the CancelledError re-raised.
Outcomes == {"SUCCEEDED", "PARTIAL", "FAILED", "CANCELLED", "SHUTDOWN"}

StatusOf ==
    [o \in Outcomes |->
        CASE o \in {"SUCCEEDED", "PARTIAL"}   -> "COMPLETED"
          [] o = "FAILED"                     -> "FAILED"
          [] o \in {"CANCELLED", "SHUTDOWN"}  -> "CANCELLED"]

\* The frame that announces each status; the reaper's is run.failed with
\* status INTERRUPTED.
EventFor ==
    [s \in Statuses |->
        CASE s = "COMPLETED"   -> "run.completed"
          [] s = "FAILED"      -> "run.failed"
          [] s = "CANCELLED"   -> "run.cancelled"
          [] s = "INTERRUPTED" -> "run.failed(INTERRUPTED)"
          [] s = "PENDING"     -> "run.queued"
          [] s = "RUNNING"     -> "run.started"]

Events == {EventFor[s] : s \in Statuses} \cup {"none"}

WorkerPCs ==
    {"idle", "acquire", "subscribe", "claim", "start", "graph", "finish",
     "announce", "unsubscribe", "release", "return", "down"}

\* Between the acquisition of the lock and its release.
Owning ==
    {"subscribe", "claim", "start", "graph", "finish", "announce",
     "unsubscribe", "release"}

ApiPCs ==
    {"idle", "dispatch_write", "dispatch_announce", "dispatch_enqueue",
     "resume_lock", "resume_write", "resume_enqueue", "cancel_publish",
     "cancel_write", "cancel_announce"}

ReaperPCs == {"idle", "selected", "unlocked", "announce"}

TypeOK ==
    /\ LeaseTypeOK
    /\ row \in Statuses
    /\ lastEvent \in Events
    /\ job \in [resume : BOOLEAN, tries : 0..1] \cup {NoJob}
    /\ inProgress \in Workers \cup {NoWorker}
    /\ kept \in BOOLEAN
    /\ pc \in [Workers -> WorkerPCs]
    /\ resume \in [Workers -> BOOLEAN]
    /\ outcome \in [Workers -> Outcomes]
    /\ subscribed \subseteq Workers
    /\ api \in [Requests -> ApiPCs]
    /\ loaded \in [Requests -> Statuses]
    /\ older \subseteq Requests
    /\ reaper \in ReaperPCs
    /\ used \in [Kinds -> Nat]

(* create_task inserted the row; nothing has been dispatched. *)
Init ==
    /\ LeaseInit
    /\ row = "PENDING"
    /\ lastEvent = "none"
    /\ job = NoJob
    /\ inProgress = NoWorker
    /\ kept = FALSE
    /\ pc = [w \in Workers |-> "idle"]
    /\ resume = [w \in Workers |-> FALSE]
    /\ outcome = [w \in Workers |-> "FAILED"]
    /\ subscribed = {}
    /\ api = [r \in Requests |-> "idle"]
    /\ loaded = [r \in Requests |-> "PENDING"]
    /\ older = {}
    /\ reaper = "idle"
    /\ used = [k \in Kinds |-> 0]

\* One more event of a kind, if some budget allows it after those so far.
Spend(kind) ==
    /\ used' = [used EXCEPT ![kind] = @ + 1]
    /\ \E b \in Budgets : \A k \in Kinds : used'[k] <= b[k]

Never(kind) == used[kind] = 0
AtMostOne(kind) == used[kind] <= 1

At(w, from, to) == pc[w] = from /\ pc' = [pc EXCEPT ![w] = to]

InFlight(r) == api[r] # "idle"

ApiAt(r, from, to) ==
    /\ api[r] = from
    /\ api' = [api EXCEPT ![r] = to]
    /\ older' = IF to = "idle" THEN older \ {r} ELSE older

\* arq stores the result of a job and forgets the job.
KeepResult ==
    /\ job' = NoJob
    /\ kept' = TRUE
    /\ older' = {r \in Requests : InFlight(r)}

-----------------------------------------------------------------------------
(* The queue: arq, from how worker/queue.py and worker/main.py use it *)

\* enqueue_job: refused while a job with this id is queued or in progress, and
\* while the result of a finished one is kept.
Enqueue(isResume) ==
    /\ job' = IF job = NoJob /\ ~kept
              THEN [resume |-> isResume, tries |-> 0]
              ELSE job
    /\ UNCHANGED <<inProgress, kept>>

\* Mutant: arq's own retries instead of max_tries = 1.
PickAgain(w) ==
    /\ At(w, "idle", "acquire")
    /\ job # NoJob
    /\ inProgress = NoWorker
    /\ job' = [job EXCEPT !.tries = @ + 1]
    /\ inProgress' = w
    /\ resume' = [resume EXCEPT ![w] = job.resume]
    /\ outcome' = [outcome EXCEPT ![w] = "FAILED"]
    /\ UNCHANGED <<row, lastEvent, leaseVars, kept, subscribed, apiVars,
                   reaper, used>>

(* A worker takes the job for the first time: max_tries = 1. *)
Pick(w) ==
    /\ At(w, "idle", "acquire")
    /\ job # NoJob
    /\ inProgress = NoWorker
    /\ job.tries = 0
    /\ job' = [job EXCEPT !.tries = 1]
    /\ inProgress' = w
    /\ resume' = [resume EXCEPT ![w] = job.resume]
    /\ outcome' = [outcome EXCEPT ![w] = "FAILED"]
    /\ UNCHANGED <<row, lastEvent, leaseVars, kept, subscribed, apiVars,
                   reaper, used>>

(* The job a dead or stopped worker left: its tries are spent, so arq fails *)
(* it without calling execute_run and keeps that as its result.             *)
PickExhausted ==
    /\ \E w \in Workers : pc[w] = "idle"
    /\ job # NoJob
    /\ inProgress = NoWorker
    /\ job.tries = 1
    /\ KeepResult
    /\ UNCHANGED <<row, lastEvent, leaseVars, inProgress, workerVars, api,
                   loaded, reaper, used>>

(* The in-progress key of a dead worker, or of one that lost Redis for as   *)
(* long as its lease, expires; no sweep of the reaper lasts that long.      *)
InProgressExpires ==
    /\ inProgress # NoWorker
    /\ pc[inProgress] \in {"idle", "down"} \/ inProgress \in lost
    /\ reaper = "idle"
    /\ inProgress' = NoWorker
    /\ UNCHANGED <<row, lastEvent, leaseVars, job, kept, workerVars, apiVars,
                   reaper, used>>

(* keep_result seconds after the job: longer than a sweep of the reaper, and *)
(* than a request that was in flight when the job ended.                     *)
ResultExpires ==
    /\ kept
    /\ older = {}
    /\ reaper = "idle"
    /\ kept' = FALSE
    /\ UNCHANGED <<row, lastEvent, leaseVars, job, inProgress, workerVars,
                   apiVars, reaper, used>>

-----------------------------------------------------------------------------
(* POST /tasks/{id}/runs: create_run *)

\* An ORM write emits an UPDATE only for a column that differs from what the
\* session loaded.
OrmWrite(r, status) == row' = IF loaded[r] = status THEN row ELSE status

DispatchLoad(r) ==
    /\ ApiAt(r, "idle", "dispatch_write")
    /\ row # "RUNNING"
    /\ loaded' = [loaded EXCEPT ![r] = row]
    /\ Spend("dispatch")
    /\ UNCHANGED <<row, lastEvent, leaseVars, arqVars, workerVars, reaper>>

DispatchWrite(r) ==
    /\ ApiAt(r, "dispatch_write", "dispatch_announce")
    /\ OrmWrite(r, "PENDING")
    /\ UNCHANGED <<lastEvent, leaseVars, arqVars, workerVars, loaded, reaper,
                   used>>

DispatchAnnounce(r) ==
    /\ ApiAt(r, "dispatch_announce", "dispatch_enqueue")
    /\ lastEvent' = "run.queued"
    /\ UNCHANGED <<row, leaseVars, arqVars, workerVars, loaded, reaper, used>>

DispatchEnqueue(r) ==
    /\ ApiAt(r, "dispatch_enqueue", "idle")
    /\ Enqueue(FALSE)
    /\ UNCHANGED <<row, lastEvent, leaseVars, workerVars, loaded, reaper, used>>

(* POST /runs/{id}/resume: resume_run_endpoint *)
ResumeLoad(r) ==
    /\ ApiAt(r, "idle", "resume_lock")
    /\ row \in Resumable
    /\ loaded' = [loaded EXCEPT ![r] = row]
    /\ Spend("resume")
    /\ UNCHANGED <<row, lastEvent, leaseVars, arqVars, workerVars, reaper>>

\* 409 while the lock is held.
ResumeCheckLock(r) ==
    /\ \/ lock = NoWorker /\ ApiAt(r, "resume_lock", "resume_write")
       \/ lock # NoWorker /\ ApiAt(r, "resume_lock", "idle")
    /\ UNCHANGED <<row, lastEvent, leaseVars, arqVars, workerVars, loaded,
                   reaper, used>>

ResumeWrite(r) ==
    /\ ApiAt(r, "resume_write", "resume_enqueue")
    /\ OrmWrite(r, "PENDING")
    /\ UNCHANGED <<lastEvent, leaseVars, arqVars, workerVars, loaded, reaper,
                   used>>

ResumeEnqueue(r) ==
    /\ ApiAt(r, "resume_enqueue", "idle")
    /\ Enqueue(TRUE)
    /\ UNCHANGED <<row, lastEvent, leaseVars, workerVars, loaded, reaper, used>>

(* POST /runs/{id}/cancel: cancel_run *)
CancelLoad(r) ==
    /\ ApiAt(r, "idle", "cancel_publish")
    /\ row \notin Terminal
    /\ loaded' = [loaded EXCEPT ![r] = row]
    /\ Spend("cancel")
    /\ UNCHANGED <<row, lastEvent, leaseVars, arqVars, workerVars, reaper>>

\* A subscriber owns the terminal write; without one the endpoint does.  What
\* the subscriber does with it is GraphStops.
CancelPublish(r) ==
    /\ \/ subscribed # {} /\ ApiAt(r, "cancel_publish", "idle")
       \/ subscribed = {} /\ ApiAt(r, "cancel_publish", "cancel_write")
    /\ UNCHANGED <<row, lastEvent, leaseVars, arqVars, workerVars, loaded,
                   reaper, used>>

CancelWrite(r) ==
    /\ ApiAt(r, "cancel_write", "cancel_announce")
    /\ OrmWrite(r, "CANCELLED")
    /\ UNCHANGED <<lastEvent, leaseVars, arqVars, workerVars, loaded, reaper,
                   used>>

CancelAnnounce(r) ==
    /\ ApiAt(r, "cancel_announce", "idle")
    /\ lastEvent' = "run.cancelled"
    /\ UNCHANGED <<row, leaseVars, arqVars, workerVars, loaded, reaper, used>>

ApiCrash(r) ==
    /\ InFlight(r)
    /\ ApiAt(r, api[r], "idle")
    /\ Spend("crash")
    /\ UNCHANGED <<row, lastEvent, leaseVars, arqVars, workerVars, loaded, reaper>>

-----------------------------------------------------------------------------
(* The worker: execute_run *)

TakeLock(w) ==
    /\ At(w, "acquire", "subscribe")
    /\ Acquire(w)
    /\ UNCHANGED <<row, lastEvent, arqVars, resume, outcome, subscribed,
                   apiVars, reaper, used>>

\* "Run is already held; skipping": nothing of the run is touched.
SkipLocked(w) ==
    /\ At(w, "acquire", "return")
    /\ lock # NoWorker
    /\ UNCHANGED <<row, lastEvent, leaseVars, arqVars, resume, outcome,
                   subscribed, apiVars, reaper, used>>

Subscribe(w) ==
    /\ At(w, "subscribe", "claim")
    /\ subscribed' = subscribed \cup {w}
    /\ UNCHANGED <<row, lastEvent, leaseVars, arqVars, resume, outcome,
                   apiVars, reaper, used>>

\* start() swallows the failure: a run without cancel is still a run.
SubscribeFails(w) ==
    /\ At(w, "subscribe", "claim")
    /\ Spend("io")
    /\ UNCHANGED <<row, lastEvent, leaseVars, arqVars, resume, outcome,
                   subscribed, apiVars, reaper>>

\* Mutant: _claim without its WHERE status = PENDING.
ClaimAnything(w) ==
    /\ At(w, "claim", "start")
    /\ ~resume[w]
    /\ row' = "RUNNING"
    /\ UNCHANGED <<lastEvent, leaseVars, arqVars, resume, outcome, subscribed,
                   apiVars, reaper, used>>

(* The conditional UPDATE of _claim finds the row PENDING. *)
Claim(w) ==
    /\ At(w, "claim", "start")
    /\ ~resume[w]
    /\ row = "PENDING"
    /\ row' = "RUNNING"
    /\ UNCHANGED <<lastEvent, leaseVars, arqVars, resume, outcome, subscribed,
                   apiVars, reaper, used>>

\* A resumed run is not claimed.
EnterResumed(w) ==
    /\ At(w, "claim", "start")
    /\ resume[w]
    /\ UNCHANGED <<row, lastEvent, leaseVars, arqVars, resume, outcome,
                   subscribed, apiVars, reaper, used>>

\* The stale-entry return inside the try: `outcome` is still FAILED, and the
\* finally block follows.
NotClaimable(w) ==
    /\ At(w, "claim", "finish")
    /\ ~resume[w]
    /\ row # "PENDING"
    /\ UNCHANGED <<row, lastEvent, leaseVars, arqVars, resume, outcome,
                   subscribed, apiVars, reaper, used>>

\* _load_task or _claim raises: outcome FAILED.
LoadFails(w) ==
    /\ At(w, "claim", "finish")
    /\ Spend("io")
    /\ UNCHANGED <<row, lastEvent, leaseVars, arqVars, resume, outcome,
                   subscribed, apiVars, reaper>>

Start(w) ==
    /\ At(w, "start", "graph")
    /\ lastEvent' = "run.started"
    /\ UNCHANGED <<row, leaseVars, arqVars, resume, outcome, subscribed,
                   apiVars, reaper, used>>

(* The graph returns its outcome or raises (FAILED); or a delivered cancel  *)
(* or the wall clock stops it (CANCELLED).                                  *)
GraphStops(w) ==
    /\ At(w, "graph", "finish")
    /\ \E o \in Outcomes \ {"SHUTDOWN"} :
         outcome' = [outcome EXCEPT ![w] = o]
    /\ UNCHANGED <<row, lastEvent, leaseVars, arqVars, resume, subscribed,
                   apiVars, reaper, used>>

\* arq cancels the job because the worker stops: CancelledError in the try.
\* At an await before or after it nothing catches the error, and what follows
\* is that of a Crash.
Shutdown(w) ==
    /\ \E from \in {"claim", "start", "graph"} : At(w, from, "finish")
    /\ outcome' = [outcome EXCEPT ![w] = "SHUTDOWN"]
    /\ Spend("shutdown")
    /\ UNCHANGED <<row, lastEvent, leaseVars, arqVars, resume, subscribed,
                   apiVars, reaper>>

(* _finish: unconditional; a failed statement is logged and swallowed. *)
Finish(w) ==
    /\ At(w, "finish", "announce")
    /\ \/ /\ row' = StatusOf[outcome[w]]
          /\ UNCHANGED used
       \/ /\ Spend("io")
          /\ UNCHANGED row
    /\ UNCHANGED <<lastEvent, leaseVars, arqVars, resume, outcome, subscribed,
                   apiVars, reaper>>

\* Mutant: the re-raised CancelledError skips the terminal frame.
AnnounceUnlessShutdown(w) ==
    /\ At(w, "announce", "unsubscribe")
    /\ lastEvent' = IF outcome[w] = "SHUTDOWN" THEN lastEvent
                    ELSE EventFor[StatusOf[outcome[w]]]
    /\ UNCHANGED <<row, leaseVars, arqVars, resume, outcome, subscribed,
                   apiVars, reaper, used>>

AnnounceOutcome(w) ==
    /\ At(w, "announce", "unsubscribe")
    /\ lastEvent' = EventFor[StatusOf[outcome[w]]]
    /\ UNCHANGED <<row, leaseVars, arqVars, resume, outcome, subscribed,
                   apiVars, reaper, used>>

Unsubscribe(w) ==
    /\ At(w, "unsubscribe", "release")
    /\ subscribed' = subscribed \ {w}
    /\ UNCHANGED <<row, lastEvent, leaseVars, arqVars, resume, outcome,
                   apiVars, reaper, used>>

\* Mutant: the lock is left to its TTL.
KeepLock(w) ==
    /\ At(w, "release", "return")
    /\ UNCHANGED <<row, lastEvent, leaseVars, arqVars, resume, outcome,
                   subscribed, apiVars, reaper, used>>

ReleaseLock(w) ==
    /\ At(w, "release", "return")
    /\ Release(w)
    /\ UNCHANGED <<row, lastEvent, arqVars, resume, outcome, subscribed,
                   apiVars, reaper, used>>

(* arq stores the result of a job that returned, and only then forgets the *)
(* job; a job that re-raised CancelledError stays queued, its try spent.   *)
Return(w) ==
    /\ \/ /\ outcome[w] # "SHUTDOWN"
          /\ At(w, "return", "idle")
          /\ KeepResult
       \/ /\ outcome[w] = "SHUTDOWN"
          /\ At(w, "return", "down")
          /\ UNCHANGED <<job, kept, older>>
    /\ inProgress' = NoWorker
    /\ UNCHANGED <<row, lastEvent, leaseVars, resume, outcome, subscribed, api,
                   loaded, reaper, used>>

Crash(w) ==
    /\ pc[w] \notin {"idle", "down"}
    /\ pc' = [pc EXCEPT ![w] = "down"]
    /\ subscribed' = subscribed \ {w}
    /\ Die(w)
    /\ Spend("crash")
    /\ UNCHANGED <<row, lastEvent, arqVars, resume, outcome, apiVars, reaper>>

\* The container restarts with the same hostname and pid.
Restart(w) ==
    /\ At(w, "down", "idle")
    /\ UNCHANGED <<row, lastEvent, leaseVars, arqVars, resume, outcome,
                   subscribed, apiVars, reaper, used>>

(* The key of a dead worker reaches its TTL; that of a live one only after  *)
(* a whole lease without a successful renewal (RunLock).                    *)
DeadLeaseExpires ==
    /\ lock # NoWorker
    /\ ~acquired[lock]
    /\ Expire
    /\ UNCHANGED <<row, lastEvent, arqVars, workerVars, apiVars, reaper, used>>

LiveLeaseExpires ==
    /\ lock # NoWorker
    /\ acquired[lock]
    /\ Expire
    /\ Spend("stall")
    /\ UNCHANGED <<row, lastEvent, arqVars, workerVars, apiVars, reaper>>

-----------------------------------------------------------------------------
(* The reaper: reap_interrupted_runs, one row of one sweep *)

ReaperAt(from, to) == reaper = from /\ reaper' = to

\* Mutant: the sweep selects runs already interrupted.
ReapSelectInterrupted ==
    /\ ReaperAt("idle", "selected")
    /\ row = "INTERRUPTED"
    /\ UNCHANGED <<row, lastEvent, leaseVars, arqVars, workerVars, apiVars, used>>

ReapSelect ==
    /\ ReaperAt("idle", "selected")
    /\ row = "RUNNING"
    /\ UNCHANGED <<row, lastEvent, leaseVars, arqVars, workerVars, apiVars, used>>

\* Mutant: the reaper does not look at the lock.
ReapIgnoreLock ==
    /\ ReaperAt("selected", "unlocked")
    /\ UNCHANGED <<row, lastEvent, leaseVars, arqVars, workerVars, apiVars, used>>

ReapCheckLock ==
    /\ \/ lock = NoWorker /\ ReaperAt("selected", "unlocked")
       \/ lock # NoWorker /\ ReaperAt("selected", "idle")
    /\ UNCHANGED <<row, lastEvent, leaseVars, arqVars, workerVars, apiVars, used>>

\* Mutant: the UPDATE without its WHERE status = RUNNING.
ReapUnconditionally ==
    /\ ReaperAt("unlocked", "announce")
    /\ row' = "INTERRUPTED"
    /\ UNCHANGED <<lastEvent, leaseVars, arqVars, workerVars, apiVars, used>>

ReapUpdate ==
    /\ \/ row = "RUNNING" /\ row' = "INTERRUPTED" /\ ReaperAt("unlocked", "announce")
       \/ row # "RUNNING" /\ UNCHANGED row /\ ReaperAt("unlocked", "idle")
    /\ UNCHANGED <<lastEvent, leaseVars, arqVars, workerVars, apiVars, used>>

ReapAnnounce ==
    /\ ReaperAt("announce", "idle")
    /\ lastEvent' = EventFor["INTERRUPTED"]
    /\ UNCHANGED <<row, leaseVars, arqVars, workerVars, apiVars, used>>

-----------------------------------------------------------------------------
WorkerStep(w) ==
    \/ TakeLock(w)
    \/ SkipLocked(w)
    \/ Subscribe(w)
    \/ SubscribeFails(w)
    \/ Claim(w)
    \/ EnterResumed(w)
    \/ NotClaimable(w)
    \/ LoadFails(w)
    \/ Start(w)
    \/ GraphStops(w)
    \/ Finish(w)
    \/ AnnounceOutcome(w)
    \/ Unsubscribe(w)
    \/ ReleaseLock(w)
    \/ Return(w)

RequestStep(r) ==
    \/ DispatchWrite(r)
    \/ DispatchAnnounce(r)
    \/ DispatchEnqueue(r)
    \/ ResumeCheckLock(r)
    \/ ResumeWrite(r)
    \/ ResumeEnqueue(r)
    \/ CancelPublish(r)
    \/ CancelWrite(r)
    \/ CancelAnnounce(r)

ReaperStep ==
    \/ ReapSelect
    \/ ReapCheckLock
    \/ ReapUpdate
    \/ ReapAnnounce

ArqStep ==
    \/ \E w \in Workers : Pick(w)
    \/ PickExhausted
    \/ InProgressExpires
    \/ ResultExpires

Next ==
    \/ \E w \in Workers :
         \/ WorkerStep(w)
         \/ Shutdown(w)
         \/ Crash(w)
         \/ Restart(w)
    \/ \E r \in Requests :
         \/ RequestStep(r)
         \/ DispatchLoad(r)
         \/ ResumeLoad(r)
         \/ CancelLoad(r)
         \/ ApiCrash(r)
    \/ ArqStep
    \/ ReaperStep
    \/ DeadLeaseExpires
    \/ LiveLeaseExpires

Spec == Init /\ [][Next]_vars

\* A live worker goes on (the wall clock bounds the graph), a request is
\* carried out, the cron job ticks and keys expire.  Nobody has to ask for
\* anything, and nothing has to fail or restart.
FairSpec ==
    /\ Spec
    /\ \A w \in Workers : WF_vars(WorkerStep(w))
    /\ \A r \in Requests : WF_vars(RequestStep(r))
    /\ WF_vars(ReaperStep)
    /\ WF_vars(ArqStep)
    /\ WF_vars(DeadLeaseExpires)

-----------------------------------------------------------------------------
Executing(w) == pc[w] \in {"start", "graph"}

\* Exactly one worker executes a run at a time (jobs.py docstring), except
\* beside one whose lease ran out while it could not renew it.
ExclusiveExecution ==
    \A v, w \in Workers :
        Executing(v) /\ Executing(w) /\ v # w => v \in lost \/ w \in lost

\* The reaper never interrupts a run that a lock holder is executing, even
\* though it reads the row, reads the lock and writes the row in three steps
\* (reap_interrupted_runs).  Excluded are a cancel and a worker that outlived
\* its lease: between the second step and the third either can free the row
\* for a dispatch and a new claim.  That no job starts in that time rests on
\* the result of the last one being kept (ResultExpires).
ReaperSparesHolder ==
    [][/\ Never("cancel") /\ Never("stall")
       /\ row' = "INTERRUPTED" /\ row # "INTERRUPTED"
       => ~\E w \in Workers : Executing(w) /\ Holds(w)]_vars

\* A run whose cancel was written to the row is not claimed out of it: the
\* conditional UPDATE of _claim stops the job that is still queued.
CancelledIsNotClaimed ==
    [][row = "CANCELLED" => row' # "RUNNING"]_vars

\* One dispatch, no cancel, no lapsed lease: while the worker that claimed the
\* run executes it, the row says RUNNING, whatever resumes, crashes and
\* sweeps go on.
OwnedExecutionIsRunning ==
    AtMostOne("dispatch") /\ Never("cancel") /\ Never("stall") =>
        \A w \in Workers :
            Executing(w) /\ ~resume[w] => row = "RUNNING"

\* The transitions of the run state machine (ARCHITECTURE.md, 5.3), QUEUED
\* being PENDING.
Diagram ==
    {<<"PENDING", "RUNNING">>, <<"PENDING", "CANCELLED">>,
     <<"RUNNING", "COMPLETED">>, <<"RUNNING", "FAILED">>,
     <<"RUNNING", "CANCELLED">>, <<"RUNNING", "INTERRUPTED">>}

\* A run dispatched once, never resumed or cancelled by a request, follows the
\* state machine through crashes, shutdowns and sweeps, as long as no database
\* statement fails and no live lease lapses.
FollowsDiagram ==
    [][/\ AtMostOne("dispatch") /\ Never("resume") /\ Never("cancel")
       /\ Never("stall") /\ Never("io")
       => <<row, row'>> \in Diagram]_row

AtRest ==
    /\ \A w \in Workers : pc[w] \in {"idle", "down"}
    /\ \A r \in Requests : ~InFlight(r)
    /\ reaper = "idle"

\* The row and the event stream tell the same end: when nothing is under way,
\* the newest frame announces the status of a run that ended.  Holds without
\* a crash, a failed statement, a lapsed lease, a cancel request or a second
\* dispatch; resumes, shutdowns and sweeps do not disturb it.
StreamAgreesWithRow ==
    /\ AtRest
    /\ AtMostOne("dispatch") /\ Never("cancel") /\ Never("crash")
    /\ Never("stall") /\ Never("io")
    /\ row \in Terminal \cup {"INTERRUPTED"}
    => lastEvent = EventFor[row]

\* A run that is RUNNING does not stay so: its worker finishes it or, if that
\* worker died, could not write or lost its lease, the reaper interrupts it.
RunningSettles == row = "RUNNING" ~> row # "RUNNING"

\* No death of a worker locks the run for ever: a later job can take it.
LockIsFreed == \A w \in Workers : lock = w ~> lock # w

-----------------------------------------------------------------------------
(* What the documentation says and the code does not do *)

\* CANCELLED is an end of the run state machine (ARCHITECTURE.md, 5.3): only a
\* new dispatch leaves it.  The job of a run cancelled while queued is still
\* picked up, finds the row not claimable, and its finally block writes FAILED.
CancelledIsFinal ==
    [][row = "CANCELLED" => row' = "PENDING"]_row

\* Resume leads from INTERRUPTED to RUNNING (ARCHITECTURE.md, 5.3).  The code
\* leaves the row PENDING for as long as the resumed run executes.
ResumedRunIsRunning ==
    \A w \in Workers : Executing(w) /\ resume[w] => row = "RUNNING"

\* When an enqueue returns, with a job id or with None, a job of this run is
\* queued or in progress (enqueue_run docstring).  While arq keeps the result
\* of an earlier job there is none, and the row stays PENDING.
EnqueueLeavesJob ==
    [][\A r \in Requests :
         DispatchEnqueue(r) \/ ResumeEnqueue(r) => job' # NoJob]_vars
=============================================================================
