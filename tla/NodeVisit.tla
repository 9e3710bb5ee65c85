------------------------------ MODULE NodeVisit ------------------------------
(***************************************************************************)
(* One visit of one graph node: the envelope every node is wrapped in      *)
(* (engine/nodes/base.py: retries, failure policy, timeline frames) around *)
(* the model calls of its body, down to the repair ladder of               *)
(* engine/structured.py.  AgentGraph takes the result of a visit as a      *)
(* choice; this is how it comes about and what the run is charged for it.  *)
(***************************************************************************)
EXTENDS Naturals, Sequences

CONSTANTS
    MaxAgentRetries,    \* settings.MAX_AGENT_RETRIES
    MaxRepairs          \* call_structured's max_repairs

ASSUME MaxAgentRetriesAssumption == MaxAgentRetries \in Nat
ASSUME MaxRepairsAssumption == MaxRepairs \in Nat

VARIABLES
    visitor,    \* the node
    point,      \* where the visit is
    attempt,    \* the attempt of the envelope's loop
    answers,    \* calls of the body that have returned
    repairs,    \* repairs of the structured call under way
    callUsage,  \* llm_calls the call under way has used
    usage,      \* llm_calls the body has added up
    sent,       \* history: responses the model gave this visit
    frames      \* the visit's entries on the timeline

visitVars == <<visitor, point, attempt, answers, repairs, callUsage, usage, sent, frames>>

Policy == [
    init |-> "FAIL_RUN", sandbox_exec |-> "FAIL_RUN",
    planner |-> "RETRY_THEN_REPORT", coder |-> "RETRY_THEN_REPORT",
    researcher |-> "DEGRADE", debugger |-> "DEGRADE", mlops |-> "DEGRADE",
    evaluator |-> "DEGRADE_DETERMINISTIC", reporter |-> "SYNTHESISE_FALLBACK",
    finalizer |-> "BEST_EFFORT"]

Visitors == DOMAIN Policy

AttemptsAllowed ==
    IF Policy[visitor] = "RETRY_THEN_REPORT" THEN 1 + MaxAgentRetries ELSE 1

(* The model calls of a body, in order: "json" through call_structured(),  *)
(* "text" through call_text().                                             *)
Calls == [v \in Visitors |->
    CASE v \in {"planner", "researcher"} -> <<"json", "json">>
      [] v = "coder" -> <<"text", "text">>
      [] v \in {"debugger", "evaluator"} -> <<"json">>
      [] v = "reporter" -> <<"text">>
      [] OTHER -> <<>>]

(* The second call of the planner and of the coder is the one re-prompt of *)
(* an answer that is rejected: the plan has problems; there is no code, or *)
(* the previous revision's, or code that does not pass validation.  What   *)
(* the re-prompt returns is taken as it is.                                *)
Required == IF visitor \in {"planner", "coder"} THEN 1 ELSE Len(Calls[visitor])

Points == {"enter", "body", "calling", "failed", "done", "raised", "cancelled"}

\* The entries of a visit on the timeline.
Entries ==
    [type : {"started"}]
    \cup [type : {"failed"}, will_retry : BOOLEAN]
    \cup [type : {"retrying"}, attempt : Nat]
    \cup [type : {"completed"}, degraded : BOOLEAN, calls : Nat]

VisitTypeOK ==
    /\ visitor \in Visitors
    /\ point \in Points
    /\ attempt \in 1..AttemptsAllowed
    /\ answers \in 0..Len(Calls[visitor])
    /\ point = "calling" => answers < Len(Calls[visitor])
    /\ repairs \in 0..MaxRepairs
    /\ callUsage \in 0..MaxRepairs
    /\ usage \in 0..sent
    /\ sent \in Nat
    /\ frames \in Seq(Entries)

VisitInit ==
    /\ visitor \in Visitors
    /\ point = "enter"
    /\ attempt = 1
    /\ answers = 0
    /\ repairs = 0
    /\ callUsage = 0
    /\ usage = 0
    /\ sent = 0
    /\ frames = <<>>

Show(frame) == frames' = Append(frames, frame)

bodyVars == <<answers, repairs, callUsage, usage>>

-----------------------------------------------------------------------------
\* The body: its model calls.

EnterNode ==
    /\ point = "enter"
    /\ Show([type |-> "started"])
    /\ point' = "body"
    /\ UNCHANGED <<visitor, attempt, bodyVars, sent>>

AskModel ==
    /\ point = "body"
    /\ answers < Len(Calls[visitor])
    /\ point' = "calling"
    /\ UNCHANGED <<visitor, attempt, bodyVars, sent, frames>>

\* usage_from_response(): one call, whatever the provider tells of its tokens.
UsageFromResponse == 1

\* Mutant: the usage of the last response, not of all.
LastResponse(n) == UsageFromResponse

\* _merge(): what a call that returns has used, this response included.
Merged(n) == n + UsageFromResponse

AsksFor(kind) == point = "calling" /\ Calls[visitor][answers + 1] = kind

(* call_text() returns what _invoke() returns, and call_structured() what of *)
(* it validates.  A stream that yields nothing is followed by a second       *)
(* request: one response either way.                                         *)
Respond ==
    /\ AsksFor("text") \/ AsksFor("json")
    /\ answers' = answers + 1
    /\ usage' = usage + Merged(callUsage)
    /\ sent' = sent + 1
    /\ repairs' = 0 /\ callUsage' = 0
    /\ point' = "body"
    /\ UNCHANGED <<visitor, attempt, frames>>

(* No JSON object, or one that does not validate: the errors go back. *)
Repair ==
    /\ AsksFor("json")
    /\ repairs < MaxRepairs
    /\ repairs' = repairs + 1
    /\ callUsage' = Merged(callUsage)
    /\ sent' = sent + 1
    /\ UNCHANGED <<visitor, point, attempt, answers, usage, frames>>

\* The model cannot be reached; or its last repair is no better, and the
\* StructuredOutputError takes the usage of the call with it.
CallIsLost ==
    /\ point = "calling"
    /\ \/ sent' = sent
       \/ AsksFor("json") /\ repairs = MaxRepairs /\ sent' = sent + 1
    /\ repairs' = 0 /\ callUsage' = 0

CallRaises ==
    /\ CallIsLost
    /\ visitor # "evaluator"
    /\ point' = "failed"
    /\ UNCHANGED <<visitor, attempt, answers, usage, frames>>

(* _assess(): the evaluator does without the rubric, and charges nothing for *)
(* it.                                                                       *)
Unassessed ==
    /\ CallIsLost
    /\ visitor = "evaluator"
    /\ answers' = answers + 1
    /\ point' = "body"
    /\ UNCHANGED <<visitor, attempt, usage, frames>>

\* Anything else in the body: a missing input, a reply without code, a bug.
BodyRaises ==
    /\ point = "body"
    /\ point' = "failed"
    /\ UNCHANGED <<visitor, attempt, bodyVars, sent, frames>>

-----------------------------------------------------------------------------
\* The envelope.

BodyReturns ==
    /\ point = "body"
    /\ answers >= Required
    /\ Show([type |-> "completed", degraded |-> FALSE, calls |-> usage])
    /\ point' = "done"
    /\ UNCHANGED <<visitor, attempt, bodyVars, sent>>

\* Mutant: one retry too many is promised.
RetryOnceMore == attempt <= AttemptsAllowed

WillRetry == attempt < AttemptsAllowed

FailRun ==
    /\ point = "failed" /\ Policy[visitor] = "FAIL_RUN"
    /\ Show([type |-> "failed", will_retry |-> WillRetry])
    /\ point' = "raised"
    /\ UNCHANGED <<visitor, attempt, bodyVars, sent>>

(* node.failed, node.retrying, and the body from its start *)
RetryBody ==
    /\ point = "failed" /\ attempt < AttemptsAllowed
    /\ frames' = frames \o <<[type |-> "failed", will_retry |-> WillRetry],
                             [type |-> "retrying", attempt |-> attempt + 1]>>
    /\ attempt' = attempt + 1
    /\ answers' = 0 /\ usage' = 0
    /\ point' = "body"
    /\ UNCHANGED <<visitor, repairs, callUsage, sent>>

(* _degrade() and _synthesise(): the fallback's update, or none if it raises *)
(* too, carries no usage; _finalise() counts the visit.                      *)
DegradeNode ==
    /\ point = "failed" /\ Policy[visitor] # "FAIL_RUN"
    /\ attempt = AttemptsAllowed
    /\ frames' = frames \o <<[type |-> "failed", will_retry |-> WillRetry],
                             [type |-> "completed", degraded |-> TRUE, calls |-> 0]>>
    /\ point' = "done"
    /\ UNCHANGED <<visitor, attempt, bodyVars, sent>>

(* CancelledError is no Exception: no policy sees it. *)
CancelVisit ==
    /\ point \in {"body", "calling", "failed"}
    /\ point' = "cancelled"
    /\ UNCHANGED <<visitor, attempt, bodyVars, sent, frames>>

VisitNext ==
    \/ EnterNode \/ AskModel \/ Respond \/ Repair \/ CallRaises \/ Unassessed \/ BodyRaises
    \/ BodyReturns \/ FailRun \/ RetryBody \/ DegradeNode \/ CancelVisit

VisitSpec == VisitInit /\ [][VisitNext]_visitVars

-----------------------------------------------------------------------------
\* A visit the graph goes on from has closed its entry on the timeline, "rather
\* than a timeline entry that simply never ends" (base.py, line 246): completed
\* comes last and once, and a retry follows exactly the failures that promised
\* one; a visit that fails the run promised none.
Closed ==
    /\ \A i \in DOMAIN frames : frames[i].type = "failed" =>
          (frames[i].will_retry <=> i < Len(frames) /\ frames[i + 1].type = "retrying")
    /\ \A i \in DOMAIN frames :
          frames[i].type = "completed" <=> (point = "done" /\ i = Len(frames))

\* What a visit is charged: every response the model gave it, repairs and the
\* re-prompt included, if no attempt of it failed and no rubric was given up.
\* The responses of failed attempts are charged to nobody.
Charged ==
    point = "done" /\ attempt = 1 /\ ~frames[Len(frames)].degraded
        /\ visitor # "evaluator"
            => frames[Len(frames)].calls = sent

VisitIsClosedAndCharged ==
    point \in {"done", "raised"} => Closed /\ Charged
=============================================================================
