------------------------------- MODULE Tracking -------------------------------
(***************************************************************************)
(* What the attempts of one run leave in MLflow: the mlops node            *)
(* (engine/nodes/mlops.py), the service both loggers share                 *)
(* (services/mlflow_client.py) and the backfill cron job (worker/cron.py). *)
(* Each call of log_attempt is a thread that talks to the server call by   *)
(* call; find and create are two calls.  Whoever awaits the thread may be  *)
(* cancelled or time out, and the thread goes on: logger "old".            *)
(***************************************************************************)
EXTENDS Naturals, Sequences, FiniteSets

CONSTANTS
    Attempts,           \* the run logs attempts 1..Attempts
    Meeting,            \* those that met the plan's required criteria
    Improving,          \* pairs: the first's metric beats the second's by CHAMPION_MARGIN
    BatchLimit,         \* BACKFILL_BATCH_LIMIT
    TrackingScenarios   \* budgets: how often each fault may happen

TrackingFaults == {"down", "lost", "crash", "cancel", "prune", "spoil"}

ASSUME AttemptsAssumption == Attempts \in Nat /\ Meeting \subseteq 1..Attempts
ASSUME BatchLimitAssumption == BatchLimit \in Nat \ {0}
ASSUME TrackingScenariosAssumption == TrackingScenarios \subseteq [TrackingFaults -> Nat]

Loggers == {"node", "cron", "old"}

VARIABLES
    turn,       \* the attempt the graph is at
    logging,    \* each logger's thread
    children,   \* MLflow: child runs, in the order they were created
    parents,    \* MLflow: number of parent runs
    final,      \* MLflow: the attempt whose metrics the parent shows, or 0
    versions,   \* MLflow: the attempts of the registered versions
    champion,   \* MLflow: the attempt whose version has the alias, or 0
    rows,       \* the experiments table, oldest first
    batch,      \* the rows the tick still has to go through, the oldest first
    volume,     \* the run's directory exists
    spoiled,    \* attempts whose files cannot be logged any more
    twice,      \* history: attempts two loggers were at at the same time
    chances     \* what is left of the scenario

mlflowVars == <<children, parents, final, versions, champion>>
diskVars == <<volume, spoiled>>
trackingVars == <<turn, logging, mlflowVars, rows, batch, diskVars, twice, chances>>

Stages == {"idle", "parent", "newparent", "child", "newchild", "write", "upload",
           "register", "promote", "return", "failed", "persisted"}
IdleLogger == [at |-> "idle", attempt |-> 0, child |-> 0, plan |-> FALSE]

Threads == [at : Stages, attempt : 0..Attempts, child : Nat, plan : BOOLEAN]
ChildRuns == [attempt : 1..Attempts, criteria_passed : BOOLEAN, stage : 0..2]
Experiments == [attempt : 1..Attempts, run : Nat, dead : BOOLEAN]

TrackingTypeOK ==
    /\ turn \in 1..(Attempts + 1)
    /\ logging \in [Loggers -> Threads]
    /\ children \in Seq(ChildRuns)
    /\ parents \in Nat
    /\ final \in 0..Attempts
    /\ versions \in Seq(1..Attempts)
    /\ champion \in {0} \cup {versions[v] : v \in DOMAIN versions}
    /\ rows \in Seq(Experiments)
    /\ batch \subseteq DOMAIN rows
    /\ volume \in BOOLEAN
    /\ spoiled \subseteq 1..Attempts /\ twice \subseteq 1..Attempts
    /\ chances \in [TrackingFaults -> Nat]

TrackingInit ==
    /\ turn = 1
    /\ logging = [l \in Loggers |-> IdleLogger]
    /\ children = <<>>
    /\ parents = 0
    /\ final = 0
    /\ versions = <<>>
    /\ champion = 0
    /\ rows = <<>>
    /\ batch = {}
    /\ volume = TRUE
    /\ spoiled = {}
    /\ twice = {}
    /\ chances \in TrackingScenarios

Happens(fault) == chances[fault] > 0 /\ chances' = [chances EXCEPT ![fault] = @ - 1]

-----------------------------------------------------------------------------
\* log_attempt(), one call to the server at a time.

To(l, stage) == logging' = [logging EXCEPT ![l].at = stage]

Begin(l, a, plan) ==
    /\ logging' = [logging EXCEPT ![l] = [at |-> "parent", attempt |-> a, child |-> 0,
                                          plan |-> plan]]
    /\ twice' = IF \E k \in Loggers \ {l} : logging[k].attempt = a THEN twice \cup {a}
                                                                   ELSE twice

FindParent(l) ==
    /\ logging[l].at = "parent"
    /\ To(l, IF parents > 0 THEN "child" ELSE "newparent")
    /\ UNCHANGED <<turn, mlflowVars, rows, batch, diskVars, twice, chances>>

CreateParent(l) ==
    /\ logging[l].at = "newparent"
    /\ parents' = parents + 1
    /\ To(l, "child")
    /\ UNCHANGED <<turn, children, final, versions, champion, rows, batch, diskVars, twice, chances>>

\* Mutant: the search is for finished runs.
FindFinished(a) == {c \in DOMAIN children : children[c].attempt = a /\ children[c].stage = 2}

FindRuns(a) == {c \in DOMAIN children : children[c].attempt = a}

(* check_criteria(): a logger without a plan checks no criterion, and none fails *)
CriteriaPassed(l) == logging[l].plan => logging[l].attempt \in Meeting

\* child_tags(): what the attempt is found by, and whether its criteria passed;
\* on a run that has come as far as stage.
ChildTags(l, stage) ==
    [attempt |-> logging[l].attempt, criteria_passed |-> CriteriaPassed(l), stage |-> stage]

(* get_or_create_child_run(): the search, by run id and attempt *)
FindChild(l) ==
    LET found == FindRuns(logging[l].attempt) IN
    /\ logging[l].at = "child"
    /\ IF found = {}
       THEN To(l, "newchild")
       ELSE \E c \in found : logging' = [logging EXCEPT ![l].child = c, ![l].at = "write"]
    /\ UNCHANGED <<turn, mlflowVars, rows, batch, diskVars, twice, chances>>

CreateChild(l) ==
    /\ logging[l].at = "newchild"
    /\ children' = Append(children, ChildTags(l, 0))
    /\ logging' = [logging EXCEPT ![l].child = Len(children) + 1, ![l].at = "write"]
    /\ UNCHANGED <<turn, parents, final, versions, champion, rows, batch, diskVars, twice, chances>>

AtLeast(n, m) == IF n > m THEN n ELSE m

(* the tags once more, so that on a run that was found the newer values win; *)
(* then params, then metrics                                                 *)
Write(l) ==
    /\ logging[l].at = "write"
    /\ children' = [children EXCEPT ![logging[l].child] = ChildTags(l, AtLeast(@.stage, 1))]
    /\ To(l, "upload")
    /\ UNCHANGED <<turn, parents, final, versions, champion, rows, batch, diskVars, twice, chances>>

(* code, logs, declared artifacts; an MLmodel descriptor is or is not built *)
Upload(l) ==
    /\ logging[l].at = "upload"
    /\ children' = [children EXCEPT ![logging[l].child].stage = 2]
    /\ \/ CriteriaPassed(l) /\ To(l, "register")
       \/ To(l, "promote")
    /\ UNCHANGED <<turn, parents, final, versions, champion, rows, batch, diskVars, twice, chances>>

\* _maybe_promote_champion(), by the incumbent that was found: a logger without a
\* plan has no metric to compare.
MaybePromoteChampion(l, incumbent) ==
    IF logging[l].plan /\ (incumbent = 0 \/ <<logging[l].attempt, incumbent>> \in Improving)
    THEN logging[l].attempt ELSE champion

\* What the alias may be after a promotion some call of which failed: a champion
\* that cannot be looked up is taken for none.
PromotedBlindly(l) == {MaybePromoteChampion(l, incumbent) : incumbent \in {0, champion}}

(* _register_model(): a version that cannot be created is given up; an alias *)
(* or a tag that cannot be set ends the thread, and what was set stays       *)
Register(l) ==
    /\ logging[l].at = "register"
    /\ \/ /\ versions' = Append(versions, logging[l].attempt)
          /\ \/ /\ To(l, "promote")
                /\ champion' = MaybePromoteChampion(l, champion)
                /\ UNCHANGED chances
             \/ /\ Happens("down")
                /\ To(l, "promote")
                /\ champion' \in PromotedBlindly(l)
             \/ /\ Happens("down")
                /\ To(l, "failed")
                /\ champion' \in {champion} \cup PromotedBlindly(l)
       \/ /\ Happens("down")
          /\ To(l, "promote")
          /\ UNCHANGED <<versions, champion>>
    /\ UNCHANGED <<turn, children, parents, final, rows, batch, diskVars, twice>>

(* _promote_to_parent(): the newest attempt that passed *)
Promote(l) ==
    /\ logging[l].at = "promote"
    /\ final' = IF CriteriaPassed(l) THEN logging[l].attempt ELSE final
    /\ To(l, "return")
    /\ UNCHANGED <<turn, children, parents, versions, champion, rows, batch, diskVars, twice, chances>>

InThread(l) == logging[l].at \notin {"idle", "return", "failed", "persisted"}

-----------------------------------------------------------------------------
\* The node.

Row(a, run) == [attempt |-> a, run |-> run, dead |-> FALSE]

StartNode ==
    /\ turn <= Attempts
    /\ logging["node"].at = "idle"
    /\ Begin("node", turn, TRUE)
    /\ UNCHANGED <<turn, mlflowVars, rows, batch, diskVars, chances>>

\* Mutant: the row names the run that was reached.
RunReached(l) == logging[l].child

\* The run a row names: none, unless log_attempt returned.
RunOf(l) == IF logging[l].at = "return" THEN logging[l].child ELSE 0

(* _persist_experiment(): a row is inserted whether or not the server was *)
(* reached; an insert that fails is logged.                               *)
Persist ==
    /\ logging["node"].at \in {"return", "failed"}
    /\ To("node", "persisted")
    /\ \/ /\ rows' = Append(rows, Row(logging["node"].attempt, RunOf("node")))
          /\ UNCHANGED chances
       \/ Happens("lost") /\ UNCHANGED rows
    /\ UNCHANGED <<turn, mlflowVars, batch, diskVars, twice>>

\* The checkpoint after the node: the graph goes on.
Checkpoint ==
    /\ logging["node"].at = "persisted"
    /\ turn' = turn + 1
    /\ logging' = [logging EXCEPT !["node"] = IdleLogger]
    /\ UNCHANGED <<mlflowVars, rows, batch, diskVars, twice, chances>>

-----------------------------------------------------------------------------
\* The backfill.

\* _list_missing_mlflow_run(): the oldest, at most BatchLimit
Missing == {r \in DOMAIN rows : rows[r].run = 0 /\ ~rows[r].dead}
ListMissing == {r \in Missing : Cardinality({q \in Missing : q < r}) < BatchLimit}

Tick ==
    /\ logging["cron"].at = "idle" /\ batch = {}
    /\ Missing # {}
    /\ batch' = ListMissing
    /\ UNCHANGED <<turn, logging, mlflowVars, rows, diskVars, twice, chances>>

\* The row of the batch that is tried next, or is being tried.
IsNext(r) == r \in batch /\ \A q \in batch : r <= q

\* Mutant: a row that cannot be logged ends the tick.
AbortTick(r) == {}

\* What a failing row leaves of the tick.
AfterFailure(r) == batch \ {r}

MarkDead(r) ==
    /\ logging["cron"].at = "idle" /\ IsNext(r)
    /\ ~volume
    /\ rows' = [rows EXCEPT ![r].dead = TRUE]
    /\ batch' = batch \ {r}
    /\ UNCHANGED <<turn, logging, mlflowVars, diskVars, twice, chances>>

TryRow(r) ==
    /\ logging["cron"].at = "idle" /\ IsNext(r)
    /\ volume
    /\ IF rows[r].attempt \in spoiled
       THEN batch' = AfterFailure(r) /\ UNCHANGED <<logging, twice>>
       ELSE Begin("cron", rows[r].attempt, FALSE) /\ UNCHANGED batch
    /\ UNCHANGED <<turn, mlflowVars, rows, diskVars, chances>>

CronReturns(r) ==
    /\ logging["cron"].at \in {"return", "failed"} /\ IsNext(r)
    /\ IF logging["cron"].at = "return"
       THEN /\ rows' = [rows EXCEPT ![r].run = RunOf("cron")]
            /\ batch' = batch \ {r}
       ELSE /\ batch' = AfterFailure(r)
            /\ UNCHANGED rows
    /\ logging' = [logging EXCEPT !["cron"] = IdleLogger]
    /\ UNCHANGED <<turn, mlflowVars, diskVars, twice, chances>>

-----------------------------------------------------------------------------
\* Threads nobody awaits, and faults.

OldEnds ==
    /\ logging["old"].at \in {"return", "failed"}
    /\ logging' = [logging EXCEPT !["old"] = IdleLogger]
    /\ UNCHANGED <<turn, mlflowVars, rows, batch, diskVars, twice, chances>>

(* A call to the server raises. *)
ServerDown(l) ==
    /\ InThread(l)
    /\ Happens("down")
    /\ To(l, "failed")
    /\ UNCHANGED <<turn, mlflowVars, rows, batch, diskVars, twice>>

(* The run is cancelled and later resumed at the same node, or the tick is   *)
(* over its timeout: the thread goes on.  Bound: one such thread at a time.  *)
Abandon(l) ==
    /\ l \in {"node", "cron"} /\ InThread(l)
    /\ logging["old"].at = "idle"
    /\ Happens("cancel")
    /\ logging' = [logging EXCEPT !["old"] = logging[l], ![l] = IdleLogger]
    /\ batch' = IF l = "cron" THEN {} ELSE batch
    /\ UNCHANGED <<turn, mlflowVars, rows, diskVars, twice>>

(* The worker process dies; the run is resumed at its last checkpoint. *)
CrashWorker ==
    /\ Happens("crash")
    /\ logging' = [l \in Loggers |-> IdleLogger]
    /\ batch' = {}
    /\ UNCHANGED <<turn, mlflowVars, rows, diskVars, twice>>

Prune ==
    /\ turn > Attempts
    /\ Happens("prune")
    /\ volume' = FALSE
    /\ UNCHANGED <<turn, logging, mlflowVars, rows, batch, spoiled, twice>>

(* metrics.json is gone, or names a parameter the run was logged with before *)
(* with another value.                                                       *)
Spoil(a) ==
    /\ Happens("spoil")
    /\ spoiled' = spoiled \cup {a}
    /\ UNCHANGED <<turn, logging, mlflowVars, rows, batch, volume, twice>>

LogStep(l) ==
    \/ FindParent(l) \/ CreateParent(l) \/ FindChild(l) \/ CreateChild(l)
    \/ Write(l) \/ Upload(l) \/ Register(l) \/ Promote(l)

NodeStep == StartNode \/ Persist \/ Checkpoint
CronStep == Tick \/ \E r \in batch : MarkDead(r) \/ TryRow(r) \/ CronReturns(r)

TrackingNext ==
    \/ \E l \in Loggers : LogStep(l) \/ ServerDown(l) \/ Abandon(l)
    \/ NodeStep \/ CronStep \/ OldEnds
    \/ CrashWorker \/ Prune \/ \E a \in 1..Attempts : Spoil(a)

TrackingSpec == TrackingInit /\ [][TrackingNext]_trackingVars

-----------------------------------------------------------------------------
\* An attempt has one child run, however often it is logged again after an
\* outage, a crash or a resume (mlflow_client.py, "idempotent lookup"): unless
\* two loggers were at it at the same time, between whose find and create
\* nothing stands.
OneChildPerAttempt ==
    \A b, c \in DOMAIN children :
        b # c /\ children[b].attempt = children[c].attempt
            => children[b].attempt \in twice

\* The run a row of experiments names is the run of its attempt, and complete:
\* a failure half way, a crash or a thread that outlived its tick never leaves a
\* row that the backfill passes over although something is missing in MLflow.
NamedRunsAreComplete ==
    \A r \in DOMAIN rows : rows[r].run # 0 =>
        /\ children[rows[r].run].attempt = rows[r].attempt
        /\ children[rows[r].run].stage = 2

\* The rows without a run are all healed or written off, if the server is up from some
\* time on, whatever other rows cannot be logged, as long as those do not fill
\* the batch: the oldest are tried first, on every tick.
Settled(r) ==
    \/ rows[r].run # 0 \/ rows[r].dead
    \/ rows[r].attempt \in spoiled
    \/ Cardinality({q \in DOMAIN rows : rows[q].attempt \in spoiled}) >= BatchLimit

RowsHeal ==
    (\E r \in DOMAIN rows : ~Settled(r)) ~> (\A r \in DOMAIN rows : Settled(r))

\* "The original `Plan` is not persisted to disk in this phase, so criteria (and
\* therefore registry promotion) cannot be recomputed here" (mlflow_client.py,
\* line 726): what is registered met the criteria of its run.
RegisteredMetCriteria == \A v \in DOMAIN versions : versions[v] \in Meeting
=============================================================================
