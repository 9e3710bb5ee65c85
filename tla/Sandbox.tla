------------------------------- MODULE Sandbox -------------------------------
(***************************************************************************)
(* Executions of one code revision in Docker: the driver of                *)
(* services/sandbox.py and the container reaper of worker/cron.py.  A      *)
(* revision is executed again when its run is resumed; the container has   *)
(* the same name each time, so an execution first removes what it finds    *)
(* under it.  An earlier driver may be dead, or alive without its lease.   *)
(* Blocking calls run in a thread: a coroutine cancelled there is gone     *)
(* while the call goes on, except under _suppressing, which swallows the   *)
(* cancellation with everything else.                                      *)
(***************************************************************************)
EXTENDS Naturals, FiniteSets

CONSTANTS
    Executions,         \* how often the revision may be executed
    SandboxScenarios    \* budgets: how often each fault may happen

SandboxFaults == {"crash", "stall", "early", "cancel", "blip"}

ASSUME ExecutionsAssumption == Executions \in Nat \ {0}
ASSUME SandboxScenariosAssumption == SandboxScenarios \subseteq [SandboxFaults -> Nat]

Drivers == 1..Executions

VARIABLES
    row,        \* the run's status, as far as the reaper tells
    latest,     \* the execution the run is at
    step,       \* where each driver is in execute()
    box,        \* its container
    fate,       \* how the container's program ended
    seen,       \* the State record the driver read last
    overtime,   \* timed_out
    verdict,    \* what execute() returned or raised
    dropped,    \* cancelled while a thread goes on with the create
    cancelled,  \* history: cancelled at an await that raises
    sweep,      \* the container reaper: listed containers, then the doomed
    spare       \* what is left of the scenario

sandboxRunVars == <<row, latest, step, box, fate, seen, overtime, verdict,
                    dropped, cancelled, sweep, spare>>

Steps == {"idle", "create", "start", "poll", "kill", "reread", "remove",
          "finished", "dead"}
Fates == {"none", "zero", "nonzero", "oom", "killed"}
Verdicts == {"none", "CLEAN", "RUNTIME_ERROR", "OOM", "TIMEOUT", "UNKNOWN_FAILURE",
             "VALIDATION_REJECTED", "LAUNCH_ERROR", "EXCEPTION", "CANCELLED"}

Exists(d) == box[d] \in {"created", "running", "exited"}
Live(d) == step[d] \notin {"idle", "finished", "dead"}

SandboxTypeOK ==
    /\ row \in {"RUNNING", "INTERRUPTED", "TERMINAL"}
    /\ latest \in 0..Executions
    /\ step \in [Drivers -> Steps]
    /\ box \in [Drivers -> {"none", "created", "running", "exited", "removed"}]
    /\ fate \in [Drivers -> Fates]
    /\ seen \in [Drivers -> Fates]
    /\ overtime \subseteq Drivers
    /\ verdict \in [Drivers -> Verdicts]
    /\ dropped \subseteq cancelled /\ cancelled \subseteq Drivers
    /\ sweep \in [at : {"idle", "listed", "removing"}, boxes : SUBSET Drivers]
    /\ spare \in [SandboxFaults -> Nat]
    /\ Cardinality({d \in Drivers : Exists(d)}) <= 1

SandboxInit ==
    /\ row = "RUNNING"
    /\ latest = 1
    /\ step = [d \in Drivers |-> "idle"]
    /\ box = [d \in Drivers |-> "none"]
    /\ fate = [d \in Drivers |-> "none"]
    /\ seen = [d \in Drivers |-> "none"]
    /\ overtime = {}
    /\ verdict = [d \in Drivers |-> "none"]
    /\ dropped = {}
    /\ cancelled = {}
    /\ sweep = [at |-> "idle", boxes |-> {}]
    /\ spare \in SandboxScenarios

Suffer(fault) == spare[fault] > 0 /\ spare' = [spare EXCEPT ![fault] = @ - 1]

Goto(d, s) == step' = [step EXCEPT ![d] = s]
Return(d, v) == Goto(d, "finished") /\ verdict' = [verdict EXCEPT ![d] = v]
Raise(d, v) == Goto(d, "remove") /\ verdict' = [verdict EXCEPT ![d] = v]

rowVars == <<row, latest>>
dockerVars == <<box, fate>>
readVars == <<seen, overtime>>
cancelVars == <<dropped, cancelled>>

-----------------------------------------------------------------------------
\* The driver.

(* execute(): a rejected program costs no container; neither does a revision *)
(* directory that cannot be prepared.                                       *)
Execute(d) ==
    /\ row = "RUNNING" /\ d = latest
    /\ step[d] = "idle"
    /\ \/ Return(d, "VALIDATION_REJECTED")
       \/ Return(d, "LAUNCH_ERROR")
       \/ Goto(d, "create") /\ UNCHANGED verdict
    /\ UNCHANGED <<rowVars, dockerVars, readVars, cancelVars, sweep, spare>>

(* _create_container(), in a thread: what has the name is removed, and the *)
(* create fails on what could not be.  If nobody waits for it any more,    *)
(* nobody removes it either.                                               *)
CreateContainer(d) ==
    LET namesakes == {e \in Drivers : Exists(e)} IN
    /\ step[d] = "create"
    /\ \/ /\ box' = [e \in Drivers |-> CASE e = d -> "created"
                                         [] e \in namesakes -> "removed"
                                         [] OTHER -> box[e]]
          /\ IF d \in dropped THEN Return(d, "CANCELLED")
                              ELSE Goto(d, "start") /\ UNCHANGED verdict
          /\ UNCHANGED spare
       \/ /\ Suffer("blip")
          /\ box' \in {box, [e \in Drivers |->
                                IF e \in namesakes THEN "removed" ELSE box[e]]}
          /\ Return(d, IF d \in dropped THEN "CANCELLED" ELSE "LAUNCH_ERROR")
    /\ UNCHANGED <<rowVars, fate, readVars, cancelVars, sweep>>

(* The log thread has attached, or ATTACH_TIMEOUT_S is over: start(). *)
Start(d) ==
    /\ step[d] = "start"
    /\ \/ /\ box[d] = "created"
          /\ box' = [box EXCEPT ![d] = "running"]
          /\ Goto(d, "poll")
          /\ UNCHANGED <<verdict, spare>>
       \/ /\ (box[d] = "removed" /\ UNCHANGED spare) \/ Suffer("blip")
          /\ Raise(d, "LAUNCH_ERROR")
          /\ UNCHANGED box
    /\ UNCHANGED <<rowVars, fate, readVars, cancelVars, sweep>>

\* The program ends by itself.
Exit(d) ==
    /\ box[d] = "running"
    /\ box' = [box EXCEPT ![d] = "exited"]
    /\ \E f \in {"zero", "nonzero", "oom"} : fate' = [fate EXCEPT ![d] = f]
    /\ UNCHANGED <<rowVars, step, readVars, verdict, cancelVars, sweep, spare>>

\* Mutant: the container is looked up by its name, not by the handle.
HandleByName(d) ==
    IF \E e \in Drivers : Exists(e) THEN CHOOSE e \in Drivers : Exists(e) ELSE d

\* The container a driver's handle reaches.
Handle(d) == d

(* _read_state() raises when the container is gone, or the daemon does not *)
(* answer; nothing tries again.                                             *)
ReadStateFails(d) ==
    /\ (box[Handle(d)] = "removed" /\ UNCHANGED spare) \/ Suffer("blip")
    /\ Raise(d, "EXCEPTION")
    /\ UNCHANGED seen

(* _await_exit() *)
Poll(d) ==
    /\ step[d] = "poll"
    /\ \/ /\ box[Handle(d)] = "exited"
          /\ seen' = [seen EXCEPT ![d] = fate[Handle(d)]]
          /\ Goto(d, "remove")
          /\ UNCHANGED <<verdict, spare>>
       \/ ReadStateFails(d)
    /\ UNCHANGED <<rowVars, dockerVars, overtime, cancelVars, sweep>>

(* It was still running, and the deadline has passed. *)
Deadline(d) ==
    /\ step[d] = "poll"
    /\ box[Handle(d)] = "running"
    /\ Goto(d, "kill")
    /\ overtime' = overtime \cup {d}
    /\ UNCHANGED <<rowVars, dockerVars, seen, verdict, cancelVars, sweep, spare>>

(* kill("SIGKILL"): the container may have exited, or be gone, by now *)
Kill(d) ==
    /\ step[d] = "kill"
    /\ IF box[Handle(d)] = "running"
       THEN \/ /\ box' = [box EXCEPT ![Handle(d)] = "exited"]
               /\ fate' = [fate EXCEPT ![Handle(d)] = "killed"]
               /\ UNCHANGED spare
            \/ Suffer("blip") /\ UNCHANGED dockerVars
       ELSE UNCHANGED <<dockerVars, spare>>
    /\ Goto(d, "reread")
    /\ UNCHANGED <<rowVars, readVars, verdict, cancelVars, sweep>>

Reread(d) ==
    /\ step[d] = "reread"
    /\ \/ /\ box[Handle(d)] # "removed"
          /\ seen' = [seen EXCEPT ![d] = fate[Handle(d)]]
          /\ Goto(d, "remove")
          /\ UNCHANGED <<verdict, spare>>
       \/ ReadStateFails(d)
    /\ UNCHANGED <<rowVars, dockerVars, overtime, cancelVars, sweep>>

(* _classification(); exit_code is 137 when the deadline was enforced *)
Classification(d) ==
    CASE seen[d] = "oom" -> "OOM"
      [] seen[d] # "oom" /\ d \in overtime -> "TIMEOUT"
      [] seen[d] = "zero" /\ d \notin overtime -> "CLEAN"
      [] seen[d] = "none" /\ d \notin overtime -> "UNKNOWN_FAILURE"
      [] OTHER -> "RUNTIME_ERROR"

(* The finally: remove(force=True), best effort; then the result, or what *)
(* was raised.                                                            *)
RemoveContainer(d) ==
    /\ step[d] = "remove"
    /\ \/ box' = [box EXCEPT ![d] = "removed"] /\ UNCHANGED spare
       \/ Exists(d) /\ Suffer("blip") /\ UNCHANGED box
    /\ Return(d, IF verdict[d] = "none" THEN Classification(d) ELSE verdict[d])
    /\ UNCHANGED <<rowVars, fate, readVars, cancelVars, sweep>>

\* Mutant: the deadline's loop retries what is raised in it.
CancelRetried(d) ==
    /\ step[d] \in {"start", "poll", "reread"}
    /\ Suffer("cancel")
    /\ cancelled' = cancelled \cup {d}
    /\ UNCHANGED <<rowVars, dockerVars, readVars, step, verdict, dropped, sweep>>

(* The graph task is cancelled at an await of execute().  Inside the create *)
(* the coroutine ends at once and the thread goes on; under _suppressing    *)
(* the cancellation is ignored.                                             *)
CancelExecution(d) ==
    /\ Suffer("cancel")
    /\ \/ /\ step[d] = "create"
          /\ dropped' = dropped \cup {d}
          /\ cancelled' = cancelled \cup {d}
          /\ UNCHANGED <<step, verdict>>
       \/ /\ step[d] \in {"start", "poll", "reread"}
          /\ Raise(d, "CANCELLED")
          /\ cancelled' = cancelled \cup {d}
          /\ UNCHANGED dropped
       \/ /\ step[d] \in {"kill", "remove"}
          /\ UNCHANGED <<step, verdict, cancelVars>>
    /\ UNCHANGED <<rowVars, dockerVars, readVars, sweep>>

\* The worker process dies; its containers do not.
CrashDriver(d) ==
    /\ Live(d)
    /\ Suffer("crash")
    /\ Goto(d, "dead")
    /\ UNCHANGED <<rowVars, dockerVars, readVars, verdict, cancelVars, sweep>>

-----------------------------------------------------------------------------
\* The run's row, as RunLifecycle moves it.

EndRow ==
    /\ row = "RUNNING" /\ step[latest] = "finished"
    /\ row' = "TERMINAL"
    /\ UNCHANGED <<latest, step, dockerVars, readVars, verdict, cancelVars, sweep, spare>>

\* A cancel that raced the worker's claim.
EndEarly ==
    /\ row = "RUNNING" /\ Suffer("early")
    /\ row' = "TERMINAL"
    /\ UNCHANGED <<latest, step, dockerVars, readVars, verdict, cancelVars, sweep>>

Interrupt ==
    /\ row = "RUNNING" /\ step[latest] = "dead"
    /\ row' = "INTERRUPTED"
    /\ UNCHANGED <<latest, step, dockerVars, readVars, verdict, cancelVars, sweep, spare>>

\* The lease is lost, the worker is not.
LoseLease ==
    /\ row = "RUNNING" /\ Suffer("stall")
    /\ row' = "INTERRUPTED"
    /\ UNCHANGED <<latest, step, dockerVars, readVars, verdict, cancelVars, sweep>>

Resume ==
    /\ row # "RUNNING"
    /\ latest < Executions
    /\ row' = "RUNNING"
    /\ latest' = latest + 1
    /\ UNCHANGED <<step, dockerVars, readVars, verdict, cancelVars, sweep, spare>>

-----------------------------------------------------------------------------
\* reap_sandbox_containers().

\* Mutant: the list is of running containers.
ListRunning ==
    /\ sweep.at = "idle"
    /\ \E d \in Drivers : box[d] = "running"
    /\ sweep' = [at |-> "listed", boxes |-> {d \in Drivers : box[d] = "running"}]
    /\ UNCHANGED <<rowVars, step, dockerVars, readVars, verdict, cancelVars, spare>>

(* client.containers.list(all=True) *)
ListContainers ==
    /\ sweep.at = "idle"
    /\ \E d \in Drivers : Exists(d)
    /\ sweep' = [at |-> "listed", boxes |-> {d \in Drivers : Exists(d)}]
    /\ UNCHANGED <<rowVars, step, dockerVars, readVars, verdict, cancelVars, spare>>

\* Mutant: the containers are those of after the query, and a resumed run's
\* status is remembered.
JudgeLate ==
    /\ sweep.at = "listed"
    /\ sweep' = IF row = "TERMINAL" \/ latest > 1
                THEN [at |-> "removing", boxes |-> {d \in Drivers : Exists(d)}]
                ELSE [at |-> "idle", boxes |-> {}]
    /\ UNCHANGED <<rowVars, step, dockerVars, readVars, verdict, cancelVars, spare>>

(* _terminal_run_ids(): an interrupted run is not terminal *)
JudgeRuns ==
    /\ sweep.at = "listed"
    /\ sweep' = IF row = "TERMINAL" THEN [sweep EXCEPT !.at = "removing"]
                ELSE [at |-> "idle", boxes |-> {}]
    /\ UNCHANGED <<rowVars, step, dockerVars, readVars, verdict, cancelVars, spare>>

(* What cannot be removed is left to the next sweep. *)
ReapContainer ==
    /\ sweep.at = "removing"
    /\ \E d \in sweep.boxes :
         /\ sweep' = [at |-> IF sweep.boxes = {d} THEN "idle" ELSE "removing",
                      boxes |-> sweep.boxes \ {d}]
         /\ \/ box' = [box EXCEPT ![d] = "removed"] /\ UNCHANGED spare
            \/ Exists(d) /\ Suffer("blip") /\ UNCHANGED box
    /\ UNCHANGED <<rowVars, step, fate, readVars, verdict, cancelVars>>

-----------------------------------------------------------------------------
DriverStep(d) ==
    \/ Execute(d) \/ CreateContainer(d) \/ Start(d) \/ Poll(d) \/ Deadline(d)
    \/ Kill(d) \/ Reread(d) \/ RemoveContainer(d)

ReaperStep == ListContainers \/ JudgeRuns \/ ReapContainer

SandboxNext ==
    \/ \E d \in Drivers :
          DriverStep(d) \/ Exit(d) \/ CancelExecution(d) \/ CrashDriver(d)
    \/ EndRow \/ EndEarly \/ Interrupt \/ LoseLease \/ Resume
    \/ ReaperStep

SandboxSpec == SandboxInit /\ [][SandboxNext]_sandboxRunVars

-----------------------------------------------------------------------------
\* An execution is reported clean only if its own container exited with 0,
\* whatever a second driver of the revision, the reaper or the deadline did to
\* containers of that name meanwhile.
CleanIsOwnExit == \A d \in Drivers : verdict[d] = "CLEAN" => fate[d] = "zero"

\* "A container whose run is not terminal is left alone" (worker/cron.py, line
\* 261): between the list, the query and the removal the run may be resumed, and
\* still no container of the execution it is then at is removed.
ReapingSparesCurrent ==
    [][\A d \in Drivers : ReapContainer /\ Exists(d) /\ box'[d] = "removed"
          => row = "TERMINAL" \/ d # latest]_sandboxRunVars

\* A cancelled execution returns no result (worker/jobs.py, line 454: "Both
\* stop the graph the same way").  A cancellation that arrives while a container
\* is killed or removed is no such: _suppressing swallows it, and the graph goes
\* on.
CancelledReturnsNothing ==
    \A d \in cancelled : step[d] = "finished" => verdict[d] = "CANCELLED"

\* What an execution returns is what became of it: CLEAN is said of its own
\* container's exit with 0 alone, and an execution that was cancelled, wherever
\* the cancellation reached it, returns no result of its container at all.
VerdictTellsFate == CleanIsOwnExit /\ CancelledReturnsNothing

\* "Sandbox containers never outlive their run" (worker/cron.py, line 255): a
\* container is removed by its driver, by the next execution or by the reaper.
\* It stays while its run is interrupted, which the reaper does not count as an
\* end.
ContainersEnd ==
    (\E d \in Drivers : Exists(d))
        ~> (\A d \in Drivers : ~Exists(d)) \/ row = "INTERRUPTED"
=============================================================================
