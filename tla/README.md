# Verification of the agent platform's run engine

TLA+ models of the parts of this repository that decide what happens to a
*run*: who may execute it, what its row and its event stream say about it,
which way the agent graph takes through its nodes, what a browser sees of it,
and what the services around it (sandbox, MLflow, corpus, benchmarks, report)
leave behind. TLC checks the models on small instances; the `*_proofs` modules
prove almost all of the invariants, the action properties and both
implementations for every value of the constants with TLAPS. Paths below are relative to
`src/backend/app/` unless they start elsewhere.

## 1. The system

A user submits a task; a *dispatch* makes it a run. The API writes the row and
enqueues an arq job; a worker process picks the job, takes the run's lock in
Redis, claims the row and drives a LangGraph graph whose nodes call a language
model and a Docker sandbox. Everything the run does is appended to a Redis
stream that the browser follows over a WebSocket. Cron jobs in the worker
process find runs whose worker died, remove containers of ended runs, log to
MLflow what could not be logged, and trim the streams.

```
 browser --HTTP--> API --enqueue--> arq queue --job--> worker --invoke--> agent graph
    ^               |                                   |  \               |
    |               +------ tasks.status (Postgres) ----+   lock:run:{id}  sandbox, LLM,
    |               |                                   |                  MLflow, Qdrant
    +--WebSocket-- event stream (Redis) <---------------+        cron: reapers, backfill
```

| Part | State | Operations | What is hard | Correct when |
|---|---|---|---|---|
| Run lock, `core/redis.py` `RunLock` | key `lock:run:{id}` with TTL; `acquired` and a renewer task per holder | acquire (SET NX EX), renew every 60 s, release (compare-and-delete) | expiry while the holder works; blips; death of the holder | a holder with an unexpired key owns it; blips do not lose it; death frees it |
| Dispatch, cancel, resume, `api/v1/tasks.py`, `api/v1/runs.py` | row read into an ORM session | read, check, write, announce, enqueue or publish, each an await | status read early and written late; two requests; a request against the worker | a terminal row stays terminal until a new dispatch; an accepted dispatch is executed |
| arq queue, `worker/queue.py`, `worker/main.py` | job, in-progress key, kept result | enqueue with job id `run:{id}`, pick, fail exhausted job | deduplication by kept results; `max_tries = 1` | at most one job per run, and the row's way out of a dead worker |
| Worker job, `worker/jobs.py` | position in `execute_run`, outcome, control subscription | lock, subscribe, claim, start, graph, finish, announce, unsubscribe, release | crash between any two awaits; cancel, wall clock and shutdown racing the graph | one execution at a time; row, stream and lock agree at the end |
| Interrupted-run reaper, `worker/cron.py` | one sweep | select RUNNING rows, read lock, conditional UPDATE, announce | three separate steps against a live worker | never interrupts a holder; always settles an orphan |
| Agent graph, `engine/graph.py`, `engine/routing.py`, `engine/nodes/`, `engine/criteria.py` | `AgentState` channels, checkpointed after every node | ten nodes with failure policies, six routers | three loops sharing nodes and counters; nodes that degrade and keep stale channels; second dispatch on an old thread | terminates within budgets; no node without its inputs; verdict and outcome agree; a report on every path |
| Node envelope and structured output, `engine/nodes/base.py`, `engine/structured.py`, `engine/llm.py` | attempts, repairs, usage of one visit | run the body, retry, degrade, repair an answer | usage of calls inside attempts that are thrown away; promises of retries | the timeline entry is closed; the run is charged what was used |
| Event stream, `engine/events.py`, `core/redis.py` | sequence counter, stream, token buffers, the emitter's lock | emit, token coalescing, line streaming from a thread, trim, backlog and live reads | several emitters of one run; failed appends; a timer and a thread beside the node | tokens and console lines in order, distinct numbers |
| WebSocket, `api/v1/websockets.py`, `core/security.py` | connection, cursor, pongs, quota, ticket | admission; hello, replay, tail, heartbeat | backlog limit; failed replay; trimming under the tail; heartbeat against pong; quota in three calls | the client sees the log without a hole, and the end |
| Browser client, `src/frontend/src/hooks/useRunStream.ts`, `src/frontend/src/stores/runStore.ts` | cursor, `lastSeq`, folded slices | connect, fold, reconnect | cursor and `lastSeq` advance at different places | the fold is idempotent and complete |
| Sandbox, `services/sandbox.py`; container reaper, `worker/cron.py` | containers by name and label | create, start, poll, kill, remove; list, judge, reap | deadline against natural exit; names used again; cancellation inside blocking calls; reaper against resume | one result per execution, of its own container; no container outlives its run |
| MLflow, `services/mlflow_client.py`, `engine/nodes/mlops.py`, backfill in `worker/cron.py` | parent and child runs, versions, alias; `experiments` rows | log an attempt call by call; find rows without a run and log them | find and create are two calls; threads nobody awaits; crash between log and commit | one complete child run per attempt; rows heal; what is registered met its criteria |
| Failure classification, `engine/errors.py`, `services/validator.py`, `schemas/metrics.py`, `engine/nodes/sandbox_exec.py` | `errors`, `last_outcome`, the artifacts directory of a revision | gate the source, run it, read `metrics.json`, classify, record with a fingerprint; count the series | the identity of a failure is a slug of text made by the program that failed; files of an earlier execution | CLEAN is earned; a series of equal failures is one bug |
| Corpus, `services/ingestion.py`, `services/vector_store.py`, `api/v1/corpus.py` | documents in Postgres, points in Qdrant | upload, delete, search, retrieve; chunk a text | no transaction spans both stores; chunk arithmetic | the index holds what the store holds |
| Benchmarks, `services/benchmarks.py`, `api/v1/benchmarks.py` | background task, result rows | run a suite, score, persist, compute key figures | process restarts; rows lost; figures computed twice | endpoint and report say the same |
| Reporting, `engine/reporting.py`, `engine/nodes/reporter.py`, `engine/nodes/finalizer.py` | errors, diagnoses, revisions, verdicts; run memory; bundle | pair cycles, remember, bundle | three lists by three nodes paired by position; degraded nodes; a second dispatch | the report tells what happened |
| Observability, configuration, schemas, frontend views, infrastructure | - | - | no control others depend on | not modelled |

## 2. The modules

| Module | Models | Composition |
|---|---|---|
| `RunLease` | the lock without clocks: what the rest of the code may rely on | used by both modules below |
| `RunLock` | the lock with TTL, renewer tasks and failing calls | implements `RunLease` (checked as `ImplementsLease`) |
| `RunLifecycle` | endpoints, arq, `execute_run`, reaper | EXTENDS `RunLease`: the worker's lock steps are its actions |
| `AgentGraph` | the graph, its nodes and routers | what `RunLifecycle` calls `GraphStops` |
| `EventStream` | the emitters of one run and the log they append to | |
| `RunStream` | one browser: WebSocket, reconnecting hook, store | EXTENDS `EventStream`; implements `Feed` |
| `Feed` | what a reader of the stream may rely on | the abstract specification of `RunStream` |
| `NodeVisit` | one visit of one node: envelope, model calls, repairs | the inside of an action of `AgentGraph` |
| `Sandbox` | executions of one revision in Docker, container reaper | |
| `Tracking` | one run in MLflow: mlops node, service, backfill | |
| `Corpus` | documents in two stores, chunking, search | |
| `Benchmarks` | suites, their rows and key figures | |
| `Admission` | tickets and connection quotas | what precedes `RunStream!Connect`'s replay |
| `Fingerprint` | from stderr to an error's kind and fingerprint | pure, EXTENDED by `Contract` |
| `Contract` | the static gate and the checks of `metrics.json` | pure, EXTENDED by `Failures` |
| `Failures` | the attempts at one step: what is CLEAN, what is the same failure | what `AgentGraph` abstracts to "CLEAN" and to the length of a series |
| `Reporting` | the report, the episodic memory, the bundle | the records `AgentGraph` abstracts to counts |
| `MCRunLifecycle`, `MCAgentGraph`, `MCRunStream`, `MCServices` | instances | `MCServices` EXTENDS the eight service modules |
| `RunLock_proofs`, `AgentGraph_proofs`, `EventStream_proofs`, `RunStream_proofs` | the theorems of the module each is named after | `RunStream_proofs` EXTENDS `EventStream_proofs` and so gets its invariants |
| `RunLifecycle_proofs` | the theorems of `RunLease` and `RunLifecycle` | |
| `Services_proofs` | the theorems of `Admission`, `NodeVisit`, `Corpus` and `Benchmarks` | |
| `Tracking_proofs` | the theorems of `Tracking`, `Reporting` and `Sandbox` | |
| `Failures_proofs` | the theorems of `Failures` and `Contract`; the services together | EXTENDS `Services_proofs` for its induction lemmas, `Tracking_proofs` and `MCServices` for the composition |

### RunLease and RunLock

`lock` is the value of the key (`NoWorker` when absent), `acquired[w]` the flag
of the `RunLock` object in process `w`. `lost` is a history variable: the
processes whose key expired while they held it and who were not told.
`Holds(w)` is `acquired[w]` without that. In `RunLock` time is `Tick`, which
waits for every due renewal (asyncio wakes a sleeper on time; a stopped event
loop is a lapsed lease in `RunLifecycle`). A renewal finds its value and extends
(`Renew`), finds another and ends the task (`RenewLost`), or raises and sleeps
on (`RenewRaises`).

A process is taken to have one `RunLock` for the run: its value is
`hostname-pid`, and two objects of one process would be equal in Redis.

### RunLifecycle

Each action is the code between two awaits that other parties can observe.

| State | Code |
|---|---|
| `row` | `tasks.status`; `AWAITING_INPUT` has no writer in the code |
| `lastEvent` | type of the newest frame in the stream |
| `job`, `inProgress`, `kept` | arq's job (with `resume` and `job_try`), its in-progress key, its kept result |
| `pc[w]`, `resume[w]`, `outcome[w]` | where `execute_run` is, its argument, its local outcome |
| `subscribed` | listeners on `run:{id}:control`: a cancel reaches them or nobody |
| `api[r]`, `loaded[r]` | where a request is, and the status it read at its start |
| `reaper` | where the sweep is |
| `older` | history: requests in flight since before the result arq keeps was written; `ResultExpires` waits for them, because a kept result lasts an hour and a request does not |
| `used` | how often each kind of event has happened: the model's bound |

An ORM session writes a column only if it differs from what it loaded
(`OrmWrite`): a dispatch of a PENDING row writes nothing, whatever happened to
the row since. The early return of `execute_run` for a row that is not PENDING
goes through the same `finally` as every other end (`NotClaimable` leads to
`Finish`). `Shutdown` is `CancelledError` in the `try` block; at any other await
nothing catches it and what follows is what follows a `Crash`. `Crash` is
possible at every step of a worker, `ApiCrash` at every step of a request. A
failed database statement (`LoadFails`, the second disjunct of `Finish`) and a
failed subscription (`SubscribeFails`) are spent from one budget, `io`.

### AgentGraph

`state` is the `AgentState` record reduced to what routers, policies and the
verdict read: a revision is there or not, metrics are one of five measures
against the plan's required criteria, a context is thin or sufficient, a series
of equal errors is a number up to the stagnation window, a plan is one of
`Plans`. A node and the router after it are one action, because the checkpoint
is written after both: a node whose router raises leaves nothing behind, and a
resume runs it again (`raised`, `Resume`). `Counted` is `_finalise`, which counts
the visit of every node, degraded or not, and lets tokens or time run out
anywhere (`spent`).

Failure policies: `PlannerFails` and the second choice of `Coder` keep the old
channels; the researcher degrades to an insufficient context, the debugger to a
minimal diagnosis, the evaluator to its deterministic verdict; `mlops` and
`reporter` degrade without touching a modelled channel; `SandboxRaises` and
`ResearcherRaises` end the invocation. A second dispatch enters at `init` with
all channels of the first (`Redispatch`): `init` resets two counters only.

`kept` is a history variable: a planner failed and an old plan stayed in place.

### EventStream

One run's stream and those who write to it: the worker's `RunEmitter`, used by
the node's task, by the token timer and by one coroutine per line of sandbox
output; and the emitter of a request or of the reaper ("outside"). `queue[e]` is
the emitter's asyncio lock, which hands itself on in the order it was asked for.
`INCR` (`Allocate`) and `XADD` (`Publish`) are two calls under it, either may
fail (`PublishFails`), and a task cancelled in between leaves a number out
(`Withdrawn`). A line is scheduled by the driver's thread (`HandOver`) and
started by the loop later (`LineStarts`). Deltas are counted, not spelled:
`spoken` is how many were given to `emit_token`, and every frame carries the
count at which it was emitted (`mark`). Lines are counted likewise (`printed`,
over all executions); an exit frame carries the number of the last line printed
before it.

### RunStream and Feed

`log` is read by index: the index stands for the Redis stream id, `seq` is the
field in the entry. The server's cursor `tail` is a stream id, the client's
`cursor` and `lastSeq` are numbers; both worlds are kept apart because they
differ as soon as two emitters interleave. `Window` is what `read_backlog`
returns (the oldest `BacklogCount` entries retained), `Backlog` what `_replay`
forwards of it. What a read has returned and the browser has not yet is `outbox`, a
set of indices delivered in their order; `replay.gap` and `run.snapshot` are
frames without an index and are delivered before it (`DeliverGap`,
`DeliverSnapshot`). `owed` counts the pings a client has not answered.

`Feed` promises that what a reader has received has no hole unless it was told.
`RunStream` implements it with the refinement mapping `published <- Len(log)`,
`seen <- received`, `told <- excuses # {} \/ Reordered`. The excuses are the
notice `replay.gap`, and three circumstances the code does not report, below.

### NodeVisit

`point` is where the envelope is. `usage` is what the body has added up,
`callUsage` what the structured call under way has used, `sent` (history) what
the model answered. `Policy` is the table of failure policies, `Calls` the model
calls of each body.

### The services

`Sandbox` has one driver per execution of one revision, because a run that is
resumed executes its current revision again under the same container name.
`dropped` are drivers whose coroutine was cancelled while a thread goes on
creating the container; a state that cannot be read (`ReadStateFails`), because the
container is gone or the daemon does not answer, ends the execution. `Tracking` has three loggers: the node, the backfill,
and a thread nobody awaits any more (`old`); a child run's `stage` is how far
its data got; an alias that cannot be looked up is one that is not there
(`PromotedBlindly`). `batch` is the set of rows a tick still has to try, the oldest
first (`IsNext`). `Corpus` represents a text by the positions of its separators; a
chunk is the set of positions of its letters, so `ChunkText` is the arithmetic of
`chunk_text` and the question "is everything indexed" can be asked of it.
`Submit` refuses a text of which nothing but blanks is left.
`Benchmarks` scores a case by sets of metrics, artifacts and phrases and has
both computations of the key figures, `replan` among them. `Admission` has the sockets of one run.
`Reporting` keeps the lists a report is made from, and in `past` (history) what
really happened: which failure was diagnosed, and which revision was the first
after it. Files that cannot be written are one case, a copy that is missing,
whether the directory or the file failed.

`Failures` follows one step (`planned`) through revisions, executions, debugging,
a replan and a refinement. A program is a syntax tree for the gate and a set of
possible executions (`runs`); a repertoire is the programs a coder may come up
with. `shelf` is the artifacts directory, which a new revision gets empty and a
second execution of the same one finds as it was left. A message is a sequence of
tokens: words, numbers, addresses, paths and quote marks, so that
`NormalizeMessage`, the cut of the slug at 80 characters (`SlugWords`) and the
parsing of a traceback are what the code does to them. The words of `Contract`
are long enough that three fill a slug, so only the first of several problems is
part of the fingerprint, as in the code. The record of a failure carries its
`cause` (history): the bug, or the problem, it was made from; and whether its
message is `telling`, see below.

These eight share no state with one another. `MCServices` therefore moves one of
them at a time (`subject`): TLC explores the union of their state spaces, not
their product. Each has its own `...Init` and `...Next` and can be checked alone.

## 3. What the runs show

| Run | Bounds | Distinct states | Shows |
|---|---|---|---|
| `run_lock` | 2 workers, period 2, 3 renewals per lease | 1,517 | a live holder loses the key only after all but the last renewal of a lease failed in a row; a dead holder's key goes; the clocked lock implements the lease |
| `lifecycle_faults` | 2 workers, 2 requests, five scenarios | 274,798 | the safety properties below |
| `lifecycle_progress` | 2 workers, 1 request, five scenarios | 204,708 | RUNNING is always left; the lock is always freed |
| `agent_graph` | 4 plans, debug 2, replan 1, executions 4, rounds 2, window 2, visits 16, 2 dispatches | 803,649 | termination, budgets, inputs, verdict |
| `run_stream` | up to 3 deltas and 3 frames, retention 2, backlog 2, live read 1, seven scenarios | 212,403 | order of tokens and lines, numbers; the feed; the end arrives |
| `services` | eight subjects, bounds below | 574,351 | one property or more per service |
| `cancelled_final`, `resumed_running`, `enqueue_dedup`, `every_run_reports`, `fresh_client`, `backfill_registers` | as above, fewer events where they suffice | violated | section 5 |

**Why the bounds are enough.** Two workers give every pair of holder and
contender, dead worker and successor. The scenarios in `MCRunLifecycle` bound
how often each kind of event happens: each property of the lifecycle is about
one or two faults around one or two executions, and every scenario lets two
dispatches, or a dispatch and a resume, or a cancel, meet a crash, a shutdown,
a lapsed lease or a failed statement. The steps in between are not bounded. A
lease of three renewals has a first, a middle and a last one; a period of two
has a time inside the sleep. In `MCAgentGraph` 16 visits let every loop be
taken, and let each budget be the first to run out: three failures in a row
spend the debug iterations with an execution left, a failure, a refinement and
a replan spend the executions with a debug iteration left. The plans cover each
branch of the routers: skipped steps, two executable steps in sequence, an
evaluation step, no executable step, no required criterion, and a report that
is pending when a second dispatch keeps an old plan.

In `MCRunStream` a stream of two retained entries overflows with the third
frame; a backlog of two is shorter than a stream that was not trimmed in time
(XADD trims approximately, `MayTrim`); a live read of one makes every batch
partial. Three deltas fill a buffer of two and leave one for the timer. Two
drops are a reconnection that is broken again.

In `MCServices`: two executions of a revision are a predecessor and a successor,
and the reaper between them. Two attempts, one that met the criteria and one
that did not, and two rows in a batch of two let one row stand before another;
a scenario with two outages lets both loggers fail. A visit has up to three
attempts and one repair per structured call. Three requests give two uploads of
one text and a deletion of either; one of the texts is blank, the others have a
heading shorter than the overlap, a word longer than a chunk, and separators of all kinds. Three
sockets against a quota of two meet at the limit while a third leaves. Two
suites of two cases give rows of an older suite and rows of an interleaved one.
Three executions and two fingerprints give a report a repeated failure, a new
one and a clean end. A window of three equal failures, a warning at two, three debug
iterations, one replan and one refinement let a series reach the window, be
broken by another failure, and go on over a clean execution; the eight
repertoires have, each, a bug whose messages differ in what is normalised away
next to one that must not be confused with it. Every scenario names at most two
faults, two or three in `Tracking`; what is sought is always one fault in the
wrong place, or one before another.

**Safety, and the conditions it has.** `OwnedExecutionIsRunning`,
`ReaperSparesHolder`, `FollowsDiagram` and `StreamAgreesWithRow` hold only under
conditions that are part of their statement, each because the code gives up the
guarantee there:

- a cancel request: it writes CANCELLED from an old read (`api/v1/runs.py`,
  lines 188-219), over a run that completed or was just claimed;
- a lapsed lease: the worker goes on executing without its lock;
- a second dispatch: PENDING and terminal rows may be dispatched again at any
  time, also under a finishing worker;
- for the stream, a crash between the row's write and its frame, or a failed
  statement.

`HolderOwnsLock` and `CancelledIsNotClaimed` hold without any. In `AgentGraph`
`ExecutionsArePaidFor` excludes a second dispatch and a planner that failed
after a plan existed: the code then executes the remaining steps of the old
plan without spending a debug iteration, a refinement or a replan on it.
`VerdictAgreesWithOutcome` excludes plans without a required criterion, for
which the evaluator accepts a failed execution as SUCCEEDED and the finalizer
writes FAILED (`engine/criteria.py`, line 105). `LoopsWithinBudgets` is of every
step: the debug budget that loops 1 and 2 share is compared before a REFINE verdict
is counted (`decide`) and after it (`route_after_eval`), and what the first grants
the second must not refuse; only the number of replans is that of the first dispatch.

`NumberedInOrder` orders the numbers of one emitter only: two emitters allocate
and append independently (`engine/events.py:112`). `ImplementsFeed` and
`EndReachesClient` excuse a client in four cases: it was sent `replay.gap`; its
replay failed and the tail started at `$`, which skips what was appended before
the first read blocked (`api/v1/websockets.py:446`); the stream was trimmed past
its live cursor; or another emitter's frame landed out of order. Only the first
is announced to it. `ConsoleInOrder` excludes a log thread that outlives its
execution.

`CleanTrainIsUsable` and the first half of `VerdictTellsFate` (`CleanIsOwnExit`)
have no condition: CLEAN is said of an execution by its own container's exit, and
of a training step only with metrics that can be judged. The second half of
`VerdictTellsFate`, `CancelledReturnsNothing`, counts only the cancellations that
raise: those that arrive in `_suppressing` are swallowed
(`services/sandbox.py:850`). `StagnationIsOneBug` is about messages that tell: the
exception has a line `Type: message` of its own, no apostrophe in it shifts the
pairing of quote marks, and the memory of a killed container was sampled.
`ContainersEnd` lets a container stay while its run is INTERRUPTED. `OneChildPerAttempt` excludes attempts two loggers were at
together, `RowsHeal` rows whose files are spoiled and rows behind a full batch of
them, which are tried on every tick for ever. `VisitIsClosedAndCharged` charges
visits without a failed attempt; the evaluator's rubric, when it is given up, is
charged to nobody. `IndexFollowsStore` excludes documents a request failed on
between the two stores: nothing repairs them. `KpisMatchReport` compares a
complete suite whose rows are the newest (in either mode of `latest_only`, of all rows
only when there are no older ones), and the judgement cases only where
name and outcome identify them. `QuotaHolds` does not count sockets let in
because Redis failed, nor those that outlived the key. `RunIsTold` holds of a
run dispatched once, or whose lists were left in step; of the bundle, as long as
no revision follows one that wrote files; of run memory, that the run succeeded
and the failure did not come back only until it is dispatched again, because a
point that was written is never taken back.

**Liveness.** `RunningSettles`, `LockIsFreed`, `Terminates`,
`DeadHolderFreesLock`, `EndReachesClient`, `ContainersEnd` and `RowsHeal`.

**Fairness.** In `RunLifecycle`: weak fairness of a worker's steps (an event
loop runs what is ready, the wall clock of `_run_graph` bounds the graph), of a
request under way, of the reaper (a cron job every minute), of arq's polling,
and of the expiry of a dead worker's key. No fairness for users, faults,
restarts or lapses of a live lease. In `RunLock`: time passes and a due renewal
happens, in one of its three ways. In `AgentGraph`: the worker drives the graph;
resume and re-dispatch are not fair. In `RunStream`: the emitters publish what
was queued, the server's tasks run, the hook reconnects and answers pings
(`src/frontend/src/hooks/useRunStream.ts` retries until it is refused: three failed
authentications or a protocol error end it, and the model's run is one that may
be watched); the network, users and the
run itself are not fair. In `MCServices`: a driver and a logging thread go on
unless their process dies (a container either exits or meets its deadline, so
fairness of `Poll` and `Deadline` together suffices), the reaper, the
interrupted-run reaper and the backfill are cron jobs; a resume, a user, a fault
are not fair. Faults are finite in every scenario: "heals" means "once the
server is up from some time on".

`CHECK_DEADLOCK FALSE` is in every configuration whose system may stop: a run
that ended and that nobody dispatches again, a graph at its end, a client that
has seen the end, a service with nothing left to do.

## 4. What is proved

Every invariant that a passing run checks is a theorem, and so are the action
properties and the implementations, except what is listed at the end of this
section. No bound on
workers, requests, emitters, frames, reads, sockets, retries, attempts, failures
or faults of any kind: a theorem is about all values of the constants that meet
the assumptions.

Assumptions, all named and evaluated by TLC on every run: `NoWorker` is not a
worker and `NoJob` not a job; scenarios and budgets are functions to the
naturals; the lock's period and renewals, the size at which tokens are coalesced,
the retention of a stream, the limits of its reads, the batch of the backfill,
the graph's visit budget and its window are positive; every other budget is a
natural; plans are well formed (a step depends on earlier ones); a run has
finitely many sockets; a chunk has a size, a text a length and places of
separators, all naturals; `"none"` names no request; the criteria and what a
metrics.json holds are lists, an execution leaves at most one metrics.json, and a
plan binds at most one dataset to a step; the warning about a repeated failure
comes after the first and before the window is full; a suite has cases and debug
iterations are naturals. One assumption is of the data and not
of the code: no case of a suite has the id of another, which `load_suite` does
not check and the suite in `benchmarks/suites/` satisfies.

| Module | Theorem | Statement |
|---|---|---|
| `RunLock_proofs` | `TypeCorrect` | type invariant |
| | `BlipsAreSurvived` | `BlipsDoNotLoseLease` |
| | `ClockedLockIsHeld` | with clocks, too: an unexpired holder owns the key, and is the only one |
| | `LockImplementsLease` | `RunLock` implements `RunLease` |
| `RunLifecycle_proofs` | `LeaseIsHeld`, `LeaseIsExclusive` | the same two facts of the clockless lease |
| | `TypeCorrect` | type invariant |
| | `UsesLease` | the lifecycle implements the lease: `Spec => LeaseSpec` |
| | `LockIsHeld` | `HolderOwnsLock`, from the two above |
| | `OneExecutes` | two workers execute at the same time only if one has outlived its lease |
| | `CancelPreventsClaim` | `CancelledIsNotClaimed` |
| | `ReaperIsSafe` | `ReaperSparesHolder` |
| | `RunningIsRecorded` | `OwnedExecutionIsRunning` |
| | `RowFollowsDiagram` | `FollowsDiagram` |
| | `StreamTellsTheEnd` | `StreamAgreesWithRow` |
| `AgentGraph_proofs` | `TypeCorrect` | type invariant, with a status for every step of the plan |
| | `VisitsAreBounded` | `VisitsBounded`, which makes the graph terminate |
| | `InputsAreFound` | `NodesFindTheirInputs` |
| | `LoopsAreWithinBudgets` | `LoopsWithinBudgets` |
| | `ExecutionsAreCovered` | `ExecutionsArePaidFor` |
| | `VerdictsAgree` | `VerdictAgreesWithOutcome` |
| `EventStream_proofs` | `LogTypeCorrect` | type invariant |
| | `NumbersAreInOrder` | `NumberedInOrder` |
| | `TokensComeFirst` | `TokensBeforeFrames` |
| | `ConsoleIsInOrder` | `ConsoleInOrder` |
| `RunStream_proofs` | `LogIsInOrder` | the last three, while browsers come and go |
| | `TypeCorrect` | type invariant |
| | `ClientIsServedTheFeed` | `RunStream` implements `Feed` |
| `Services_proofs` | `CounterIsExact` | the server's counter is the number of sockets it holds |
| | `QuotaIsKept` | `QuotaHolds` |
| | `VisitsAreClosedAndCharged` | `VisitIsClosedAndCharged` |
| | `ChunkTextKeepsLetters` | the chunks of a text hold all its letters, and none is longer than `ChunkSize` |
| | `CorpusTypeCorrect` | type invariant; no content is stored twice |
| | `RetrievalFollowsStore` | `IndexFollowsStore` |
| | `BenchTypeCorrect` | type invariant |
| | `KpisTellTheReport` | `KpisMatchReport` |
| `Tracking_proofs` | `TypeCorrect` | type invariant |
| | `AttemptsAreLoggedOnce` | `OneChildPerAttempt` |
| | `RowsNameWholeRuns` | `NamedRunsAreComplete` |
| | `ReportTellsTheRun` | `RunIsTold` |
| | `ReportTypeCorrect` | type invariant |
| | `SandboxTypeCorrect` | type invariant; at most one container has the name |
| | `VerdictIsEarned` | `VerdictTellsFate` |
| | `ReaperLeavesCurrent` | `ReapingSparesCurrent` |
| `Failures_proofs` | `TrainingCanBeJudged` | `CleanTrainIsUsable` |
| | `FailureTypeCorrect` | type invariant, with the bound on failures |
| | `StagnationIsSeen` | `StagnationIsOneBug`, if fingerprints tell causes apart |
| | `ServicesTypeCorrect` | `ServicesTypeOK`: the types of all services, together |

**The lock.** `HolderOwnsLock` is inductive with the types. With clocks it is not:
that the key is still there rests on the renewer. `ClockInv` says that what is
left of a holder's TTL is exactly what its renewer has not yet slept through
(`Remaining`: the renewals that may still fail but one, and the sleep under way),
so it is used up only when all but the last have failed.

**The lifecycle.** Each of its actions is a lease step or leaves the three lease
variables alone (`LeaseStep`), so what is proved of the lease carries over.
`OwnersAcquired` adds that a worker between `subscribe` and `release` has
`acquired` set. The properties of the row say nothing of jobs and of requests and so
are not inductive; these invariants do, as long as nobody cancels and no lease
lapses:

- `OneJob`: a worker inside `execute_run` is the one of arq's in-progress key, its
  job is still recorded with its try spent, and a kept result leaves no job behind;
- `SweepIsQuiet`: while the row says RUNNING no job of the run waits to be picked or
  claimed, and no request can enqueue one, because those in flight are older than
  a kept result (`older`). So what the reaper sees as RUNNING and unlocked stays
  unlocked until it writes, although it reads and writes in three steps;
- `OneRun`: a run dispatched once is PENDING until its one claim, RUNNING from
  then to its end, and nothing is resumed before it has ended;
- `FinishesRunning` and `EndIsTold`: the row a worker finishes says RUNNING, and
  between the row's end and its frame the one worker of the run is at
  `announce`, with the same outcome.

**The graph.** `VisitsBounded` says nothing of where the graph is. The
strengthening `VisitCaps` gives every node its own cap: below the budget for the
nodes a guarded router leads to, at most the budget for the evaluator, whose edge
from `mlops` is not guarded, one to three above it for reporter, finalizer and
the end, and four more for each further dispatch, which enters at `init` whatever
the count is. The other four properties of the graph are proved together as
`GraphInv == InputsReady /\ LoopCaps /\ Paid /\ Judged`:
`InputsReady` adds that every node past the planner has a plan; `LoopCaps` that
at the debugger an iteration is left, and at a planner entered for a replan a
replan, from which, with the evaluator's step (`RefineStep`), `LoopsWithinBudgets`
follows; `Paid` that on the way to the sandbox the execution to come is paid for
already; `Judged` that metrics are those of a clean execution and that after a
final verdict only the reporter and the finalizer run, so nothing changes what
it was computed from.

**The stream.** Each of the three orders is about the log only, and what breaks
it later is on its way already. `Numbered` adds the numbers that were allocated
and not yet appended. `TokensAhead` follows a frame from the task that wants to
emit it through the emitter's queue into the log: none of them knows of a delta
that is still in the buffer. `LinesInOrder` does so for lines, from the driver's
thread through the loop's schedule, the queue and the log, and holds until a
log thread outlives its execution; it needs `Joined` (the buffer is empty while a program runs,
so a line asks for the lock at once and not after a flush).

**The client.** Until it was told that history is missing, what the browser has
and what is on its way to it is one piece of the log (`Served`): it begins no
later than what Redis retains, the live tail reads on inside it, and the cursor
is its last number. The last clause is what a reconnection needs, since it
resumes by number in a log read by position.

**The sandbox.** `VerdictInv` relates, per driver, the container's fate, the state
that was read and the verdict; `Stopping` names the three places where a cancelled
execution can be, and `Swept` says that what a sweep is about to remove is not the
newest execution unless its run has ended.

**Admission and visits.** The quota holds because a socket adds itself before it
counts: only one that finds no more than the quota in the set, itself included,
is let in (`CountedStep`), whoever else is in between. For a visit, `Metered`
relates what has been charged to what the model answered at every point of the
body, across retries and repairs; `LastFailed` that the timeline does not end with
a failure unless the visit failed the run.

**The corpus.** `ChunkText` is a recursion over a text. That it is defined at all, and
that no letter is lost where two chunks meet, is an induction from the end of
the text backwards: the first place from which it fails would be followed by one
from which it does not, because the next chunk starts further on, and not behind
the end of this one (`OnwardMoves`). `LeastNat`, that a set of naturals has a
least element, stands for the induction principle, which takes an operator and
so cannot be used. Of the two stores, `Place` says of each request what its
document's row and points are at that moment: a row is flushed exactly from
INSERT to commit, points are there at the commit, and a document somebody
deletes has been uploaded to the end, so that no upsert puts its points back
(`Follows`).

**Tracking.** Nothing stands between the search for a child run and its creation,
so `Unborn` says what the searcher may rely on: nobody has created one since,
unless two threads were at the attempt together (`Together`). `Working`, part of
the types, is what each stage of a logger knows of its child run; `Trying` that
what the backfill logs is the row it will write.

**The report.** Diagnoses are paired with failures by position, revisions by
number. `Paired` says the i-th diagnosis is of the i-th failure while the lists
are in step, `Followed` that in the first dispatch every failure but the last has
one, and `Answered` that what `debug_cycles` computes from numbers is the
revision that really came first (`FixMoves`). `Bundled` orders the revision of
the artifacts before that of the code. Run memory outlives what it was made
from: `Remembered` says that in the first dispatch nothing is written before the
reporter, after which no list changes, so what was true of a point when it was
written stays true, whether it was written once, again after a crash, or lost;
in a second dispatch the lists only grow, and a failure keeps its fingerprint
and the revision that answered it, once there is one. For the types, `Kept` adds
that the sandbox is entered with a revision only, so no failure is of revision 0.

**Benchmarks.** The rows say of a result which case it is, not which result of its
task. `Ranked` supplies that: the i-th row is the `rank[i]`-th result of its task,
a task's rows are in the order of its results, and while none was lost none is
missing. Rows that are all of one finished task are then its results in
order (`RowsAreResults`, two inductions over the rank), the newest first; an older
row of the same case is dropped and no other (`DeduplicateLeaves`); and a count
over a list read from its end is the count over the list (`MirrorCount`).

**CLEAN.** The checks of a metrics.json return lists of problems that are
concatenated, so the claim is that an empty concatenation is one of empty lists.
`FlattenSeq` is a recursive function: that it is defined at all and that the
last value is empty only if each part is are again inductions by `LeastNat` and
its twin `GreatestNat` (`FlatDefined`, `FlattenFindings`). The rest of
`JudgedInv` says that what lies on the shelf is lists, whichever attempt wrote it.

**Stagnation.** The router looks at the fingerprints from the end of the list, the
debugger warned of a shorter tail of them one visit earlier. `RepeatsCount` says
what the count over the tail means for any length, `OneCauseIsOnePrint` that for
a window of attempts it is the same to have one cause as to have one
fingerprint. `WarnedInv` ties the warning, which is older than the newest
failure, to the list as it was before that failure; that the warning comes first
then follows from the two thresholds. `Attempting` bounds the failures: away
from the reporter there is room for one more.

**Together.** The services share no variable, so a behaviour of `MCServices` is
one of each service (`ServicesAreTheirParts`). Every theorem about one of them
holds of the runs, among them the eight type invariants of which
`ServicesTypeOK` consists.

**Only model-checked.** Out of the provers' reach:

- liveness under fairness: `DeadHolderFreesLock`, `RunningSettles`, `LockIsFreed`,
  `Terminates` (its safety half, the bound on visits, is proved),
  `EndReachesClient`, `ContainersEnd`, `RowsHeal`; and anything with ENABLED;
- `PrintsTellCauses`, the half of `StagnationIsOneBug` that `StagnationIsSeen` takes
  as its hypothesis: two messages have one fingerprint if and only if they are of
  one cause. It is true of messages of a known syntax, not of any sequence of
  tokens, so it depends on the repertoires of the instance and on what folds and
  filters over tokens make of each.

## 5. Where the code and its documents disagree

Each of these is a run that TLC finds violated.

- `cancelled_final`: `docs/ARCHITECTURE.md:356` makes CANCELLED an end state. A run
  cancelled while queued leaves its job in the queue. The worker finds the row
  not claimable and returns from inside the `try` (`worker/jobs.py:332`); the
  `finally` writes the initial outcome, FAILED, and emits `run.failed`.
- `resumed_running`: `docs/ARCHITECTURE.md:350` leads from INTERRUPTED to RUNNING on
  resume. The endpoint writes PENDING and `execute_run(resume=True)` never claims
  (`worker/jobs.py:325`): the reaper cannot see the death of a resumed run.
- `enqueue_dedup`: the docstring of `enqueue_run` (`worker/queue.py:81`) takes None to
  mean queued or running. With `keep_result = 3600` (`worker/main.py:170`) it also
  means finished within the hour: the row is PENDING and nothing will execute it.
- `every_run_reports`: `engine/graph.py:39` promises a report on every terminating
  path. The guard on `route_after_research` may answer `reporter`, which the
  researcher's edges (`engine/graph.py:123`) do not have: the invocation raises.
- `fresh_client`: `hello` carries the newest number and the store raises `lastSeq` to
  it (`src/frontend/src/stores/runStore.ts:526`) before the replay arrives, which
  lines 491-492 then take for duplicates: a browser that opens a run with history
  folds none of it.
- `backfill_registers`: the backfill rebuilds an attempt without its plan
  (`services/mlflow_client.py:751`). No criteria are no failed criteria, so the model
  of an attempt that missed its target is registered, against lines 725-729 there.

Met while modelling; part of the models, or kept out of their instances, without
a run of their own:

- `engine/events.py:7` promises `seq` gapless and, over one process, in order. A
  failed or cancelled append leaves a gap, and emitters of two processes may
  append out of order (the conditions of `NumberedInOrder` and `ImplementsFeed`).
- The counter `run:{id}:seq` gets its TTL at its first increment only
  (`core/redis.py:188`): a stream older than that starts again at 1.
- `chunk_text` goes on by a single character when a separator lies closer to the
  start of a chunk than the overlap is long. A heading of 21 characters, a blank line and
  2000 characters give 24 chunks, the first 21 of which are suffixes of the
  heading, where `docs/ARCHITECTURE.md:966` has an overlap of 150. Text is not lost
  (`IndexFollowsStore`).
- `services/ingestion.py:3` says a Qdrant failure leaves a document Postgres knows.
  The upsert runs inside the transaction, which rolls back; if the commit fails
  instead, points stay without a document.
- Section 4 of the report is not in `DATA_SECTIONS` (`engine/reporting.py:66`), so
  the model's text may replace it, though the docstring of `debug_cycles` says a
  report can never omit an attempt.
- `_was_resolved` (`engine/reporting.py:673`) calls a failure resolved when the next
  one merely has another fingerprint. Points of run memory get fresh ids: a
  second dispatch, or a resume inside the reporter, writes them again, and the
  points of the first dispatch stay when the second one fails. A point may have
  no fix: when a coder that failed leaves the revision as it was and that revision
  then passes, what is remembered is the strategy of the diagnosis, which nobody
  carried out, with an empty diff (`engine/nodes/reporter.py`, lines 316-320).
- `bundle.zip` holds the newest code but the first file of each name
  (`engine/nodes/finalizer.py:274`): after a refinement, artifacts of the oldest
  revision.
- The directory of a revision is used again when it is executed again
  (`services/sandbox.py:271`), and INTERRUPTED is not terminal for the container
  reaper (`worker/cron.py:67`).
- Any failure to look up the alias `champion`, an outage too, is taken for "no champion
  yet" (`services/mlflow_client.py:653`): the version is promoted without a comparison.
- A child run logged first by the node and again by the backfill has its tag
  `criteria_passed` overwritten with true; a thread that fails between creating a
  version and setting its alias registers another when it is repeated.
- The task rows of a benchmark are RUNNING rows without a lock
  (`services/benchmarks.py:587`): the interrupted-run reaper ends them while the
  suite runs.
- Two failures of one bug may get two fingerprints: an OOM kill whose memory was
  not sampled says `unknown` where another says a number; an apostrophe in a
  message makes `_QUOTED` (`engine/errors.py:26`) remove the text between two
  literals and keep the literals; a bare `AssertionError` has no `Type: message`
  line, and then a log line such as `INFO: epoch 3` is taken for the exception
  (lines 140-173) and its kind is RUNTIME. And two bugs may get one: the imports of
  two missing modules differ in a literal only. Equal fingerprints may have
  different kinds, because the hints of a shape error are looked for in the
  literals too.
- The `errors` channel is not reset by a clean execution or a replan: a failure
  after either continues the series from before (`engine/errors.py:302-319`).
- An execution that writes no `metrics.json` is judged by the one that an earlier
  execution of the same revision left (`services/sandbox.py:271`); a coder that
  degraded leads to one.
- The driver names an OOM kill before a timeout, `classify`
  (`engine/nodes/sandbox_exec.py:203`) a timeout before an OOM kill.
- `EXPIRE` on the quota's set is refreshed by refused sockets too
  (`api/v1/websockets.py:361`), and not by open ones.
- The Idempotency-Key is not scoped to the task and is stored after the enqueue
  (`api/v1/tasks.py:173-204`).

## 6. Not modelled, and why

- PATCH of a task writes any status unconditionally and DELETE removes the row
  under a running worker: with them no property of the row holds.
- The approve endpoint publishes a message no worker acts on.
- The Idempotency-Key replay returns an earlier response and changes no run.
- Two jobs of one run inside one worker process (see `RunLease`).
- `cancel_requested`, which the guard of the routers reads and nothing writes.
- The order inside the `asyncio.wait` of `_await_with_control`
  (`worker/jobs.py:450`): `GraphStops` takes either outcome.
- A client's log filter and its `resync` request; back-off delays and frame
  batching of the browser; the derived slices of the store.
- The warnings of the static gate and the sandbox's security profile, JSON salvage, embeddings
  and ranking, the exemplar collection, the dataset manifest, the markdown
  scorecard: pure functions of data, with their own unit tests and no state.
- Text: prompts, code, reports, log lines, hit lists, metric values.
- Metrics, logging, settings, schemas, frontend views, dashboards and deployment
  files: no control that another part depends on.

## 7. What is left

1. Proofs: which properties a repertoire needs for `PrintsTellCauses`.
2. `RunStream` with two browsers, and with the row of `RunLifecycle` in place of
   the frame that ends the log.
