---------------------------- MODULE Services_proofs ----------------------------
(* Proofs about parts of the system that share no state with one another     *)
(* (MCServices explores them side by side): the admission of sockets, the    *)
(* visit of a node, the corpus with its two stores, and the key figures of   *)
(* the benchmarks.                                                           *)
EXTENDS Admission, NodeVisit, Corpus, Benchmarks, FiniteSetTheorems, SequenceTheorems,
        WellFoundedInduction, TLAPS

-----------------------------------------------------------------------------
(* Admission *)

Holding == {s \in Sockets : socket[s] \in {"open", "ended"}}

\* The types without the server's counter.
SocketTypes ==
    /\ socket \in [Sockets -> SocketPoints]
    /\ tickets \subseteq Sockets
    /\ presented \in [Sockets -> Sockets \cup {"none"}]
    /\ conns \subseteq Sockets
    /\ unaccounted \subseteq Sockets

LEMMA SocketTypesStep == SocketTypes /\ [AdmissionNext]_admissionVars => SocketTypes'
<1> SUFFICES ASSUME SocketTypes, [AdmissionNext]_admissionVars
             PROVE  SocketTypes'
  OBVIOUS
<1> USE DEF SocketTypes, SocketPoints, Move
<1>1. ASSUME NEW s \in Sockets, Connect(s)
      PROVE  SocketTypes'
  BY <1>1 DEF Connect, IssueTicket
<1>2. ASSUME NEW s \in Sockets, TicketExpires(s) \/ RedeemTicket(s) \/ Authenticate(s)
      PROVE  SocketTypes'
  BY <1>2 DEF TicketExpires, RedeemTicket, Authenticate
<1>3. ASSUME NEW s \in Sockets, CheckServer(s) \/ AccountingFails(s) \/ ClaimSlot(s)
      PROVE  SocketTypes'
  BY <1>3 DEF CheckServer, AccountingFails, ClaimSlot, Open
<1>4. ASSUME NEW s \in Sockets, End(s) \/ ReleaseSlot(s) \/ Close(s)
      PROVE  SocketTypes'
  BY <1>4 DEF End, ReleaseSlot, Close
<1>5. CASE ConnsExpire \/ RebootApi \/ UNCHANGED admissionVars
  BY <1>5 DEF ConnsExpire, RebootApi, admissionVars
<1> QED
  BY <1>1, <1>2, <1>3, <1>4, <1>5 DEF AdmissionNext, ServeSocket

\* The server counts the sockets it holds: one more opened, one less ended, none
\* after a restart.
LEMMA HoldingStep ==
    ASSUME SocketTypes, [AdmissionNext]_admissionVars
    PROVE  \/ Holding' = Holding /\ openHere' = openHere
           \/ \E s \in Sockets \ Holding : /\ Holding' = Holding \cup {s}
                                           /\ openHere' = openHere + 1
           \/ \E s \in Holding : Holding' = Holding \ {s} /\ openHere' = openHere - 1
           \/ Holding' = {} /\ openHere' = 0
<1> USE DEF SocketTypes, Move, Holding
<1>1. ASSUME NEW s \in Sockets,
             \/ Connect(s) \/ TicketExpires(s) \/ RedeemTicket(s) \/ Authenticate(s)
             \/ CheckServer(s) \/ End(s) \/ Close(s)
      PROVE  Holding' = Holding /\ openHere' = openHere
  BY <1>1 DEF Connect, IssueTicket, TicketExpires, RedeemTicket, Authenticate, CheckServer,
     End, Close
<1>2. ASSUME NEW s \in Sockets, AccountingFails(s)
      PROVE  Holding' = Holding \cup {s} /\ s \notin Holding /\ openHere' = openHere + 1
  BY <1>2 DEF AccountingFails, Open
<1>3. ASSUME NEW s \in Sockets, ClaimSlot(s)
      PROVE  \/ Holding' = Holding /\ openHere' = openHere
             \/ Holding' = Holding \cup {s} /\ s \notin Holding /\ openHere' = openHere + 1
  BY <1>3 DEF ClaimSlot, Open
<1>4. ASSUME NEW s \in Sockets, ReleaseSlot(s)
      PROVE  s \in Holding /\ Holding' = Holding \ {s} /\ openHere' = openHere - 1
  BY <1>4 DEF ReleaseSlot
<1>5. CASE ConnsExpire \/ UNCHANGED admissionVars
  BY <1>5 DEF ConnsExpire, admissionVars
<1>6. CASE RebootApi
  BY <1>6 DEF RebootApi
<1> QED
  BY <1>1, <1>2, <1>3, <1>4, <1>5, <1>6 DEF AdmissionNext, ServeSocket

LEMMA AdmissionTypeStep ==
    AdmissionTypeOK /\ [AdmissionNext]_admissionVars => AdmissionTypeOK'
<1> SUFFICES ASSUME AdmissionTypeOK, [AdmissionNext]_admissionVars
             PROVE  AdmissionTypeOK'
  OBVIOUS
<1>1. SocketTypes /\ openHere = Cardinality(Holding)
  BY DEF AdmissionTypeOK, SocketTypes, Holding
<1>2. SocketTypes'
  BY <1>1, SocketTypesStep
<1>3. IsFiniteSet(Holding)
  BY SocketsAssumption, FS_Subset DEF Holding
<1>4. openHere' = Cardinality(Holding')
  <2>1. ASSUME NEW s \in Sockets \ Holding
        PROVE  Cardinality(Holding \cup {s}) = Cardinality(Holding) + 1
    BY <1>3, <2>1, FS_AddElement
  <2>2. ASSUME NEW s \in Holding
        PROVE  Cardinality(Holding \ {s}) = Cardinality(Holding) - 1
    BY <1>3, <2>2, FS_RemoveElement
  <2>3. CASE Holding' = Holding /\ openHere' = openHere
    BY <1>1, <2>3
  <2>4. CASE \E s \in Sockets \ Holding : /\ Holding' = Holding \cup {s}
                                          /\ openHere' = openHere + 1
    BY <1>1, <2>1, <2>4
  <2>5. CASE \E s \in Holding : Holding' = Holding \ {s} /\ openHere' = openHere - 1
    BY <1>1, <2>2, <2>5
  <2>6. CASE Holding' = {} /\ openHere' = 0
    BY <2>6, FS_EmptySet
  <2> QED
    BY <1>1, <2>3, <2>4, <2>5, <2>6, HoldingStep
<1> QED
  BY <1>2, <1>4 DEF AdmissionTypeOK, SocketTypes, Holding

LEMMA AdmissionTypeInit == AdmissionInit => AdmissionTypeOK
<1> SUFFICES ASSUME AdmissionInit
             PROVE  AdmissionTypeOK
  OBVIOUS
<1>1. {s \in Sockets : socket[s] \in {"open", "ended"}} = {}
  BY DEF AdmissionInit
<1> QED
  BY <1>1, FS_EmptySet DEF AdmissionInit, AdmissionTypeOK, SocketPoints

\* The server's counter is the number of sockets it holds, through failures of
\* Redis, clients that leave at any point and restarts.
THEOREM CounterIsExact == AdmissionSpec => []AdmissionTypeOK
BY AdmissionTypeInit, AdmissionTypeStep, PTL DEF AdmissionSpec

Counted == {s \in conns \ unaccounted : socket[s] = "open"}

\* Only a socket that found no more than the quota in the set, itself included,
\* is added to those that are open and counted.
LEMMA CountedStep ==
    ASSUME SocketTypes, [AdmissionNext]_admissionVars
    PROVE  Counted' \subseteq Counted \/ (conns' = conns /\ Cardinality(conns) <= MaxPerRun)
<1> USE DEF SocketTypes, Move, Counted
<1>1. ASSUME NEW s \in Sockets,
             \/ Connect(s) \/ TicketExpires(s) \/ RedeemTicket(s) \/ Authenticate(s)
             \/ CheckServer(s) \/ End(s) \/ Close(s) \/ ReleaseSlot(s)
      PROVE  Counted' \subseteq Counted
  BY <1>1 DEF Connect, IssueTicket, TicketExpires, RedeemTicket, Authenticate, CheckServer,
     End, Close, ReleaseSlot
<1>2. ASSUME NEW s \in Sockets, AccountingFails(s)
      PROVE  Counted' \subseteq Counted
  BY <1>2 DEF AccountingFails, Open
<1>3. ASSUME NEW s \in Sockets, ClaimSlot(s), socket[s] # "added"
      PROVE  Counted' \subseteq Counted
  BY <1>3 DEF ClaimSlot
<1>4. ASSUME NEW s \in Sockets, ClaimSlot(s), socket[s] = "added"
      PROVE  Counted' \subseteq Counted \/ (conns' = conns /\ Cardinality(conns) <= MaxPerRun)
  <2>1. IsFiniteSet(conns)
    BY SocketsAssumption, FS_Subset
  <2>2. Cardinality(conns) \in Nat /\ MaxPerRun \in Nat
    BY <2>1, FS_CardinalityType, QuotasAssumption
  <2> QED
    BY <1>4, <2>2 DEF ClaimSlot
<1>5. CASE ConnsExpire \/ RebootApi \/ UNCHANGED admissionVars
  BY <1>5 DEF ConnsExpire, RebootApi, admissionVars
<1> QED
  BY <1>1, <1>2, <1>3, <1>4, <1>5 DEF AdmissionNext, ServeSocket

QuotaInv == AdmissionTypeOK /\ QuotaHolds

LEMMA QuotaStep == QuotaInv /\ [AdmissionNext]_admissionVars => QuotaInv'
<1> SUFFICES ASSUME QuotaInv, [AdmissionNext]_admissionVars
             PROVE  QuotaInv'
  OBVIOUS
<1>1. AdmissionTypeOK' /\ SocketTypes /\ SocketTypes'
  BY AdmissionTypeStep DEF QuotaInv, AdmissionTypeOK, SocketTypes
<1>2. IsFiniteSet(Counted) /\ IsFiniteSet(conns)
  BY <1>1, SocketsAssumption, FS_Subset DEF SocketTypes, Counted
<1>3. Cardinality(Counted) <= MaxPerRun /\ Cardinality(Counted) \in Nat /\ MaxPerRun \in Nat
  BY <1>2, FS_CardinalityType, QuotasAssumption DEF QuotaInv, QuotaHolds, Counted
<1>4. Cardinality(Counted') <= MaxPerRun
  <2>1. CASE Counted' \subseteq Counted
    <3>1. IsFiniteSet(Counted') /\ Cardinality(Counted') <= Cardinality(Counted)
      BY <1>2, <2>1, FS_Subset
    <3>2. Cardinality(Counted') \in Nat
      BY <3>1, FS_CardinalityType
    <3> QED
      BY <1>3, <3>1, <3>2
  <2>2. CASE conns' = conns /\ Cardinality(conns) <= MaxPerRun
    <3>1. Counted' \subseteq conns
      BY <2>2 DEF Counted
    <3>2. IsFiniteSet(Counted') /\ Cardinality(Counted') <= Cardinality(conns)
      BY <1>2, <3>1, FS_Subset
    <3>3. Cardinality(Counted') \in Nat /\ Cardinality(conns) \in Nat
      BY <1>2, <3>2, FS_CardinalityType
    <3> QED
      BY <1>3, <2>2, <3>2, <3>3
  <2> QED
    BY <1>1, <2>1, <2>2, CountedStep
<1> QED
  BY <1>1, <1>4 DEF QuotaInv, QuotaHolds, Counted

LEMMA QuotaInit == AdmissionInit => QuotaInv
<1> SUFFICES ASSUME AdmissionInit
             PROVE  QuotaInv
  OBVIOUS
<1>1. {s \in conns \ unaccounted : socket[s] = "open"} = {}
  BY DEF AdmissionInit
<1> QED
  BY <1>1, FS_EmptySet, QuotasAssumption, AdmissionTypeInit DEF QuotaInv, QuotaHolds

\* However many sockets are being admitted at the same time, no more than
\* MaxPerRun of the run's set are open and were counted: for any quotas and any
\* number of sockets.
THEOREM QuotaIsKept == AdmissionSpec => []QuotaHolds
<1>1. QuotaInv => QuotaHolds
  BY DEF QuotaInv
<1> QED
  BY <1>1, QuotaInit, QuotaStep, PTL DEF AdmissionSpec

-----------------------------------------------------------------------------
(* The visit of a node *)

LEMMA VisitorsAre ==
    Visitors = {"init", "sandbox_exec", "planner", "coder", "researcher", "debugger",
                "mlops", "evaluator", "reporter", "finalizer"}
BY DEF Visitors, Policy

LEMMA CallsType ==
    ASSUME NEW v \in Visitors
    PROVE  Len(Calls[v]) \in Nat
<1>1. Calls[v] \in {<<"json", "json">>, <<"text", "text">>, <<"json">>, <<"text">>, <<>>}
  <2>1. CASE v \in {"planner", "researcher"}
    BY <2>1 DEF Calls
  <2>2. CASE v = "coder"
    BY <2>2 DEF Calls
  <2>3. CASE v \in {"debugger", "evaluator"}
    BY <2>3 DEF Calls
  <2>4. CASE v = "reporter"
    BY <2>4 DEF Calls
  <2>5. CASE v \in {"init", "sandbox_exec", "mlops", "finalizer"}
    BY <2>5 DEF Calls
  <2> QED
    BY <2>1, <2>2, <2>3, <2>4, <2>5, VisitorsAre
<1>2. /\ Len(<<"json", "json">>) = 2 /\ Len(<<"text", "text">>) = 2 /\ Len(<<"json">>) = 1
      /\ Len(<<"text">>) = 1 /\ Len(<<>>) = 0
  OBVIOUS
<1> QED
  BY <1>1, <1>2

LEMMA AttemptsType ==
    ASSUME visitor \in Visitors
    PROVE  /\ AttemptsAllowed \in Nat /\ 1 <= AttemptsAllowed
           /\ Policy[visitor] = "FAIL_RUN" => AttemptsAllowed = 1
BY MaxAgentRetriesAssumption DEF AttemptsAllowed

LEMMA EntriesHave ==
    /\ [type |-> "started"] \in Entries
    /\ \A b \in BOOLEAN : [type |-> "failed", will_retry |-> b] \in Entries
    /\ \A n \in Nat : [type |-> "retrying", attempt |-> n] \in Entries
    /\ \A b \in BOOLEAN, n \in Nat :
          [type |-> "completed", degraded |-> b, calls |-> n] \in Entries
BY DEF Entries

LEMMA OneEntry ==
    ASSUME NEW s \in Seq(Entries), NEW a \in Entries
    PROVE  /\ Append(s, a) \in Seq(Entries) /\ Len(Append(s, a)) = Len(s) + 1
           /\ Len(s) \in Nat /\ DOMAIN s = 1..Len(s)
           /\ DOMAIN Append(s, a) = 1..(Len(s) + 1)
           /\ \A i \in 1..Len(s) : Append(s, a)[i] = s[i]
           /\ Append(s, a)[Len(s) + 1] = a
  OBVIOUS

LEMMA TwoEntries ==
    ASSUME NEW s \in Seq(Entries), NEW a \in Entries, NEW b \in Entries
    PROVE  /\ s \o <<a, b>> \in Seq(Entries) /\ Len(s \o <<a, b>>) = Len(s) + 2
           /\ Len(s) \in Nat /\ DOMAIN s = 1..Len(s)
           /\ DOMAIN (s \o <<a, b>>) = 1..(Len(s) + 2)
           /\ \A i \in 1..Len(s) : (s \o <<a, b>>)[i] = s[i]
           /\ (s \o <<a, b>>)[Len(s) + 1] = a
           /\ (s \o <<a, b>>)[Len(s) + 2] = b
  OBVIOUS

\* Each failure promised a retry exactly if one follows.
Promised(s) ==
    \A i \in DOMAIN s : s[i].type = "failed" =>
        (s[i].will_retry <=> i < Len(s) /\ s[i + 1].type = "retrying")

LEMMA PromisedOne ==
    ASSUME NEW s \in Seq(Entries), NEW a \in Entries, Promised(s),
           s # <<>> => s[Len(s)].type # "failed",
           a.type = "failed" => ~a.will_retry
    PROVE  Promised(Append(s, a))
<1> DEFINE n == Len(s)  t == Append(s, a)
<1>1. /\ n \in Nat /\ DOMAIN s = 1..n /\ DOMAIN t = 1..(n + 1) /\ Len(t) = n + 1
      /\ \A i \in 1..n : t[i] = s[i]
      /\ t[n + 1] = a
  BY OneEntry
<1>2. n > 0 => s[n].type # "failed"
  OBVIOUS
<1>3. \A i \in 1..n : s[i].type = "failed" =>
          (s[i].will_retry <=> i < n /\ s[i + 1].type = "retrying")
  BY <1>1 DEF Promised
<1> HIDE DEF n, t
<1> SUFFICES ASSUME NEW i \in 1..(n + 1), t[i].type = "failed"
             PROVE  t[i].will_retry <=> i < n + 1 /\ t[i + 1].type = "retrying"
  BY <1>1 DEF Promised, t
<1>4. CASE i = n + 1
  BY <1>1, <1>4
<1>5. CASE i # n + 1
  <2>1. i \in 1..n /\ i # n
    BY <1>1, <1>2, <1>5
  <2>2. i + 1 \in 1..n
    BY <1>1, <2>1
  <2> QED
    BY <1>1, <1>3, <2>1, <2>2
<1> QED
  BY <1>4, <1>5

LEMMA PromisedTwo ==
    ASSUME NEW s \in Seq(Entries), NEW a \in Entries, NEW b \in Entries, Promised(s),
           s # <<>> => s[Len(s)].type # "failed",
           a.type = "failed", a.will_retry <=> b.type = "retrying", b.type # "failed"
    PROVE  Promised(s \o <<a, b>>)
<1> DEFINE n == Len(s)  t == s \o <<a, b>>
<1>1. /\ n \in Nat /\ DOMAIN s = 1..n /\ DOMAIN t = 1..(n + 2) /\ Len(t) = n + 2
      /\ \A i \in 1..n : t[i] = s[i]
      /\ t[n + 1] = a /\ t[n + 2] = b
  BY TwoEntries
<1>2. n > 0 => s[n].type # "failed"
  OBVIOUS
<1>3. \A i \in 1..n : s[i].type = "failed" =>
          (s[i].will_retry <=> i < n /\ s[i + 1].type = "retrying")
  BY <1>1 DEF Promised
<1> HIDE DEF n, t
<1> SUFFICES ASSUME NEW i \in 1..(n + 2), t[i].type = "failed"
             PROVE  t[i].will_retry <=> i < n + 2 /\ t[i + 1].type = "retrying"
  BY <1>1 DEF Promised, t
<1>4. CASE i = n + 1
  <2>1. i < n + 2 /\ t[i + 1] = b /\ t[i] = a
    BY <1>1, <1>4
  <2> QED
    BY <2>1
<1>5. CASE i \in 1..n
  <2>1. i # n
    BY <1>1, <1>2, <1>5
  <2>2. i + 1 \in 1..n
    BY <1>1, <1>5, <2>1
  <2> QED
    BY <1>1, <1>3, <1>5, <2>2
<1>6. i # n + 2
  BY <1>1
<1> QED
  BY <1>1, <1>4, <1>5, <1>6

\* What a call has used it adds up, and never more than the model gave.
Metered ==
    /\ callUsage = repairs /\ usage + callUsage <= sent
    /\ point \in {"enter", "body", "failed"} => repairs = 0
    /\ point = "enter" => frames = <<>>
    /\ (attempt = 1 /\ visitor # "evaluator" /\ point \in {"enter", "body", "calling"})
          => usage + callUsage = sent

\* A failure is the last entry only of a visit that fails the run.
LastFailed == frames # <<>> /\ frames[Len(frames)].type = "failed" => point = "raised"

VisitInv ==
    /\ VisitTypeOK
    /\ Metered
    /\ Closed
    /\ LastFailed
    /\ Charged

LEMMA VisitTypeStep == VisitInv /\ [VisitNext]_visitVars => VisitTypeOK'
<1> SUFFICES ASSUME VisitInv, [VisitNext]_visitVars
             PROVE  VisitTypeOK'
  OBVIOUS
<1> DEFINE calls == Len(Calls[visitor])
<1>1. /\ visitor \in Visitors /\ point \in Points /\ attempt \in 1..AttemptsAllowed
      /\ answers \in 0..calls /\ (point = "calling" => answers < calls)
      /\ repairs \in 0..MaxRepairs /\ callUsage = repairs /\ usage \in 0..sent /\ sent \in Nat
      /\ usage + callUsage <= sent /\ frames \in Seq(Entries)
  BY DEF VisitInv, VisitTypeOK, Metered
<1>2. /\ calls \in Nat /\ AttemptsAllowed \in Nat /\ 1 <= AttemptsAllowed /\ MaxRepairs \in Nat
  BY <1>1, CallsType, AttemptsType, MaxRepairsAssumption
<1>3. visitor' = visitor /\ AttemptsAllowed' = AttemptsAllowed /\ calls' = calls
  <2>1. visitor' = visitor
    BY DEF VisitNext, visitVars, EnterNode, AskModel, Respond, Repair, CallRaises, Unassessed,
       BodyRaises, BodyReturns, FailRun, RetryBody, DegradeNode, CancelVisit
  <2> QED
    BY <2>1 DEF AttemptsAllowed
<1> HIDE DEF calls
<1> USE DEF Points
<1>4. frames' \in Seq(Entries)
  <2>1. ASSUME NEW a \in Entries, Show(a)
        PROVE  frames' \in Seq(Entries)
    BY <1>1, <2>1, OneEntry DEF Show
  <2>2. CASE EnterNode
    BY <2>1, <2>2, EntriesHave DEF EnterNode
  <2>3. CASE BodyReturns
    <3>1. [type |-> "completed", degraded |-> FALSE, calls |-> usage] \in Entries
      <4>1. usage \in Nat /\ FALSE \in BOOLEAN
        BY <1>1
      <4> QED
        BY <4>1, EntriesHave, Zenon
    <3> QED
      BY <2>1, <2>3, <3>1 DEF BodyReturns
  <2>4. CASE FailRun
    <3>1. [type |-> "failed", will_retry |-> WillRetry] \in Entries
      <4>1. WillRetry \in BOOLEAN
        BY DEF WillRetry
      <4> QED
        BY <4>1, EntriesHave, Zenon
    <3> QED
      BY <2>1, <2>4, <3>1 DEF FailRun
  <2>5. CASE RetryBody
    <3>1. /\ [type |-> "failed", will_retry |-> WillRetry] \in Entries
          /\ [type |-> "retrying", attempt |-> attempt + 1] \in Entries
      <4>1. WillRetry \in BOOLEAN /\ attempt + 1 \in Nat
        BY <1>1, <1>2 DEF WillRetry
      <4> QED
        BY <4>1, EntriesHave, Zenon
    <3> QED
      BY <1>1, <2>5, <3>1, TwoEntries DEF RetryBody
  <2>6. CASE DegradeNode
    <3>1. /\ [type |-> "failed", will_retry |-> WillRetry] \in Entries
          /\ [type |-> "completed", degraded |-> TRUE, calls |-> 0] \in Entries
      <4>1. WillRetry \in BOOLEAN /\ TRUE \in BOOLEAN /\ 0 \in Nat
        BY DEF WillRetry
      <4> QED
        BY <4>1, EntriesHave, Zenon
    <3> QED
      BY <1>1, <2>6, <3>1, TwoEntries DEF DegradeNode
  <2>7. CASE \/ AskModel \/ Respond \/ Repair \/ CallRaises \/ Unassessed \/ BodyRaises
             \/ CancelVisit \/ UNCHANGED visitVars
    BY <1>1, <2>7 DEF AskModel, Respond, Repair, CallRaises, Unassessed, BodyRaises,
       CancelVisit, visitVars
  <2> QED
    BY <2>2, <2>3, <2>4, <2>5, <2>6, <2>7 DEF VisitNext
<1>5. /\ point' \in Points /\ attempt' \in 1..AttemptsAllowed
      /\ answers' \in 0..calls /\ (point' = "calling" => answers' < calls)
      /\ repairs' \in 0..MaxRepairs /\ callUsage' \in 0..MaxRepairs /\ usage' \in 0..sent'
      /\ sent' \in Nat
  <2>1. CASE EnterNode
    BY <1>1, <2>1 DEF EnterNode, bodyVars
  <2>2. CASE AskModel
    BY <1>1, <2>2 DEF AskModel, bodyVars, calls
  <2>3. CASE Respond
    BY <1>1, <1>2, <2>3 DEF Respond, AsksFor, Merged, UsageFromResponse
  <2>4. CASE Repair
    BY <1>1, <1>2, <2>4 DEF Repair, AsksFor, Merged, UsageFromResponse
  <2>5. CASE CallRaises
    BY <1>1, <1>2, <2>5 DEF CallRaises, CallIsLost
  <2>6. CASE Unassessed
    BY <1>1, <1>2, <2>6 DEF Unassessed, CallIsLost
  <2>7. CASE BodyRaises \/ BodyReturns \/ FailRun \/ DegradeNode \/ CancelVisit
    BY <1>1, <2>7 DEF BodyRaises, BodyReturns, FailRun, DegradeNode, CancelVisit, bodyVars
  <2>8. CASE RetryBody
    BY <1>1, <1>2, <2>8 DEF RetryBody
  <2>9. CASE UNCHANGED visitVars
    BY <1>1, <2>9 DEF visitVars
  <2> QED
    BY <2>1, <2>2, <2>3, <2>4, <2>5, <2>6, <2>7, <2>8, <2>9 DEF VisitNext
<1> QED
  BY <1>1, <1>3, <1>4, <1>5 DEF VisitTypeOK, calls

LEMMA MeteredStep ==
    ASSUME VisitInv, [VisitNext]_visitVars
    PROVE  Metered'
<1>1. /\ attempt \in Nat \ {0} /\ usage \in Nat /\ sent \in Nat /\ repairs \in Nat /\ Metered
      /\ callUsage \in Nat
  <2>1. AttemptsAllowed \in Nat
    BY AttemptsType DEF VisitInv, VisitTypeOK
  <2> QED
    BY <2>1, MaxRepairsAssumption DEF VisitInv, VisitTypeOK, Metered
<1> USE DEF Metered, bodyVars
<1>2. CASE EnterNode
  BY <1>1, <1>2 DEF EnterNode
<1>3. CASE AskModel
  BY <1>1, <1>3 DEF AskModel
<1>4. CASE Respond
  BY <1>1, <1>4 DEF Respond, AsksFor, Merged, UsageFromResponse
<1>5. CASE Repair
  BY <1>1, <1>5 DEF Repair, AsksFor, Merged, UsageFromResponse
<1>6. CASE CallRaises
  BY <1>1, <1>6 DEF CallRaises, CallIsLost
<1>7. CASE Unassessed
  BY <1>1, <1>7 DEF Unassessed, CallIsLost
<1>8. CASE BodyRaises \/ BodyReturns \/ FailRun \/ DegradeNode \/ CancelVisit
  <2>1. /\ point' \in {"done", "raised", "cancelled"} \/ (point = "body" /\ point' = "failed")
        /\ UNCHANGED <<callUsage, repairs, usage, sent>>
    BY <1>8 DEF BodyRaises, BodyReturns, FailRun, DegradeNode, CancelVisit
  <2> QED
    BY <1>1, <2>1
<1>9. CASE RetryBody
  <2>1. /\ point' = "body" /\ attempt' = attempt + 1 /\ usage' = 0 /\ point = "failed"
        /\ UNCHANGED <<callUsage, repairs, sent>>
    BY <1>9 DEF RetryBody
  <2> QED
    BY <1>1, <2>1
<1>10. CASE UNCHANGED visitVars
  BY <1>1, <1>10 DEF visitVars
<1> QED
  BY <1>2, <1>3, <1>4, <1>5, <1>6, <1>7, <1>8, <1>9, <1>10 DEF VisitNext

LEMMA ClosedStep ==
    ASSUME VisitInv, [VisitNext]_visitVars
    PROVE  (Closed /\ LastFailed /\ Charged)'
<1> DEFINE n == Len(frames)
<1>1. /\ frames \in Seq(Entries) /\ n \in Nat /\ DOMAIN frames = 1..n
      /\ visitor \in Visitors /\ attempt \in 1..AttemptsAllowed /\ usage \in Nat /\ sent \in Nat
      /\ callUsage \in Nat /\ Promised(frames)
  BY MaxRepairsAssumption DEF VisitInv, VisitTypeOK, Closed, Promised
<1>2. /\ AttemptsAllowed \in Nat /\ attempt \in Nat
      /\ Policy[visitor] = "FAIL_RUN" => AttemptsAllowed = 1
  BY <1>1, AttemptsType
<1>3. ASSUME point \notin {"done", "raised"}
      PROVE  /\ \A i \in 1..n : frames[i].type # "completed"
             /\ frames # <<>> => frames[n].type # "failed"
  BY <1>1, <1>3 DEF VisitInv, Closed, LastFailed
<1> HIDE DEF n
<1>4. ASSUME point \notin {"done", "raised"}, point' \notin {"done", "raised"},
             frames' = frames
      PROVE  (Closed /\ LastFailed /\ Charged)'
  BY <1>1, <1>3, <1>4 DEF Closed, LastFailed, Charged, Promised, n
<1>5. CASE UNCHANGED visitVars
  BY <1>5 DEF visitVars, VisitInv, Closed, LastFailed, Charged
<1>6. CASE EnterNode
  <2>1. frames = <<>> /\ frames' = Append(frames, [type |-> "started"]) /\ point' = "body"
    BY <1>6 DEF EnterNode, Show, VisitInv, Metered
  <2>2. Len(frames') = 1 /\ DOMAIN frames' = {1} /\ frames'[1].type = "started"
    <3>1. frames' = <<[type |-> "started"]>>
      BY <2>1
    <3> QED
      BY <3>1
  <2> QED
    BY <2>1, <2>2 DEF Closed, LastFailed, Charged
<1>7. CASE BodyReturns
  <2> DEFINE a == [type |-> "completed", degraded |-> FALSE, calls |-> usage]
  <2>1. point = "body" /\ frames' = Append(frames, a) /\ point' = "done" /\ a \in Entries
    <3>1. usage \in Nat /\ FALSE \in BOOLEAN
      BY <1>1
    <3>2. a \in Entries
      BY <3>1, EntriesHave, Zenon
    <3> QED
      BY <1>7, <3>2 DEF BodyReturns, Show
  <2>2. a.type = "completed" /\ a.calls = usage
    OBVIOUS
  <2> HIDE DEF a
  <2>3. /\ Len(frames') = n + 1 /\ DOMAIN frames' = 1..(n + 1)
        /\ \A i \in 1..n : frames'[i] = frames[i]
        /\ frames'[n + 1] = a
    BY <1>1, <2>1, OneEntry DEF n
  <2>4. Promised(frames')
    BY <1>1, <1>3, <2>1, <2>2, PromisedOne DEF n
  <2>5. \A i \in 1..(n + 1) : frames'[i].type = "completed" <=> i = n + 1
    BY <1>1, <1>3, <2>1, <2>2, <2>3
  <2>6. attempt' = 1 /\ visitor' # "evaluator" => usage = sent'
    BY <1>1, <1>7, <2>1 DEF BodyReturns, VisitInv, Metered
  <2>7. Charged'
    BY <2>2, <2>3, <2>6 DEF Charged
  <2>8. Closed' /\ LastFailed'
    BY <2>1, <2>2, <2>3, <2>4, <2>5 DEF Closed, LastFailed, Promised
  <2> QED
    BY <2>7, <2>8
<1>8. CASE FailRun
  <2> DEFINE a == [type |-> "failed", will_retry |-> WillRetry]
  <2>1. point = "failed" /\ frames' = Append(frames, a) /\ point' = "raised" /\ a \in Entries
    <3>1. WillRetry \in BOOLEAN
      BY DEF WillRetry
    <3>2. a \in Entries
      BY <3>1, EntriesHave, Zenon
    <3> QED
      BY <1>8, <3>2 DEF FailRun, Show
  <2>2. a.type = "failed" /\ ~a.will_retry
    <3>1. ~WillRetry
      BY <1>1, <1>2, <1>8 DEF FailRun, WillRetry
    <3> QED
      BY <3>1
  <2> HIDE DEF a
  <2>3. /\ Len(frames') = n + 1 /\ DOMAIN frames' = 1..(n + 1)
        /\ \A i \in 1..n : frames'[i] = frames[i]
        /\ frames'[n + 1] = a
    BY <1>1, <2>1, OneEntry DEF n
  <2>4. Promised(frames')
    BY <1>1, <1>3, <2>1, <2>2, PromisedOne DEF n
  <2>5. \A i \in 1..(n + 1) : frames'[i].type # "completed"
    BY <1>1, <1>3, <2>1, <2>2, <2>3
  <2> QED
    BY <2>1, <2>3, <2>4, <2>5 DEF Closed, LastFailed, Charged, Promised
<1>9. CASE RetryBody
  <2> DEFINE a == [type |-> "failed", will_retry |-> WillRetry]
             b == [type |-> "retrying", attempt |-> attempt + 1]
  <2>1. point = "failed" /\ frames' = frames \o <<a, b>> /\ point' = "body"
        /\ a \in Entries /\ b \in Entries
    <3>1. WillRetry \in BOOLEAN /\ attempt + 1 \in Nat
      BY <1>2 DEF WillRetry
    <3>2. a \in Entries /\ b \in Entries
      BY <3>1, EntriesHave, Zenon
    <3> QED
      BY <1>9, <3>2 DEF RetryBody
  <2>2. a.type = "failed" /\ a.will_retry /\ b.type = "retrying"
    BY <1>9 DEF RetryBody, WillRetry
  <2> HIDE DEF a, b
  <2>3. /\ Len(frames') = n + 2 /\ DOMAIN frames' = 1..(n + 2)
        /\ \A i \in 1..n : frames'[i] = frames[i]
        /\ frames'[n + 1] = a /\ frames'[n + 2] = b
    BY <1>1, <2>1, TwoEntries DEF n
  <2>4. Promised(frames')
    BY <1>1, <1>3, <2>1, <2>2, PromisedTwo DEF n
  <2>5. \A i \in 1..(n + 2) : frames'[i].type # "completed"
    BY <1>1, <1>3, <2>1, <2>2, <2>3
  <2> QED
    BY <2>1, <2>2, <2>3, <2>4, <2>5 DEF Closed, LastFailed, Charged, Promised
<1>10. CASE DegradeNode
  <2> DEFINE a == [type |-> "failed", will_retry |-> WillRetry]
             b == [type |-> "completed", degraded |-> TRUE, calls |-> 0]
  <2>1. point = "failed" /\ frames' = frames \o <<a, b>> /\ point' = "done"
        /\ a \in Entries /\ b \in Entries
    <3>1. WillRetry \in BOOLEAN /\ TRUE \in BOOLEAN /\ 0 \in Nat
      BY DEF WillRetry
    <3>2. a \in Entries /\ b \in Entries
      BY <3>1, EntriesHave, Zenon
    <3> QED
      BY <1>10, <3>2 DEF DegradeNode
  <2>2. a.type = "failed" /\ ~a.will_retry /\ b.type = "completed" /\ b.degraded
    <3>1. ~WillRetry
      BY <1>2, <1>10 DEF DegradeNode, WillRetry
    <3> QED
      BY <3>1
  <2> HIDE DEF a, b
  <2>3. /\ Len(frames') = n + 2 /\ DOMAIN frames' = 1..(n + 2)
        /\ \A i \in 1..n : frames'[i] = frames[i]
        /\ frames'[n + 1] = a /\ frames'[n + 2] = b
    BY <1>1, <2>1, TwoEntries DEF n
  <2>4. Promised(frames')
    BY <1>1, <1>3, <2>1, <2>2, PromisedTwo DEF n
  <2>5. \A i \in 1..(n + 2) : frames'[i].type = "completed" <=> i = n + 2
    BY <1>1, <1>3, <2>1, <2>2, <2>3
  <2>6. Charged'
    BY <2>2, <2>3 DEF Charged
  <2>7. Closed'
    BY <2>1, <2>3, <2>4, <2>5 DEF Closed, Promised
  <2>8. LastFailed'
    BY <2>2, <2>3 DEF LastFailed
  <2> QED
    BY <2>6, <2>7, <2>8
<1>11. CASE \/ AskModel \/ Respond \/ Repair \/ CallRaises \/ Unassessed \/ BodyRaises
            \/ CancelVisit
  <2>1. point \notin {"done", "raised"} /\ point' \notin {"done", "raised"} /\ frames' = frames
    BY <1>11 DEF AskModel, Respond, Repair, CallRaises, Unassessed, BodyRaises, CancelVisit,
       AsksFor, CallIsLost
  <2> QED
    BY <1>4, <2>1
<1> QED
  BY <1>5, <1>6, <1>7, <1>8, <1>9, <1>10, <1>11 DEF VisitNext

LEMMA VisitInvInit == VisitInit => VisitInv
<1> SUFFICES ASSUME VisitInit
             PROVE  VisitInv
  OBVIOUS
<1>1. /\ visitor \in Visitors /\ point = "enter" /\ attempt = 1 /\ answers = 0
      /\ repairs = 0 /\ callUsage = 0 /\ usage = 0 /\ sent = 0 /\ frames = <<>>
  BY DEF VisitInit
<1>2. AttemptsAllowed \in Nat /\ 1 <= AttemptsAllowed /\ Len(Calls[visitor]) \in Nat
  BY <1>1, AttemptsType, CallsType
<1>3. VisitTypeOK
  BY <1>1, <1>2, MaxRepairsAssumption DEF VisitTypeOK, Points
<1>4. Metered /\ LastFailed /\ Charged
  BY <1>1 DEF Metered, LastFailed, Charged
<1>5. Closed
  BY <1>1 DEF Closed
<1> QED
  BY <1>3, <1>4, <1>5 DEF VisitInv

\* A visit the graph goes on from, or that fails the run, has closed its entry
\* on the timeline and is charged for every response the model gave it, however
\* many retries and repairs are allowed.
THEOREM VisitsAreClosedAndCharged == VisitSpec => [](VisitTypeOK /\ VisitIsClosedAndCharged)
<1>1. VisitInv /\ [VisitNext]_visitVars => VisitInv'
  BY VisitTypeStep, MeteredStep, ClosedStep DEF VisitInv
<1>2. VisitInv => VisitTypeOK /\ VisitIsClosedAndCharged
  BY DEF VisitInv, VisitIsClosedAndCharged
<1> QED
  BY <1>1, <1>2, VisitInvInit, PTL DEF VisitSpec

-----------------------------------------------------------------------------
(* Corpus *)

\* Every set of naturals has a least element: what an induction over a text is
\* done with, since it needs no operator as a parameter.
LEMMA LeastNat ==
    ASSUME NEW S \in SUBSET Nat, S # {}
    PROVE  \E m \in S : \A n \in S : m <= n
<1>1. PICK m \in S : \A n \in S : ~(<<n, m>> \in OpToRel(<, Nat))
  BY NatLessThanWellFounded, WFMin, Zenon
<1>2. \A n \in S : ~(n < m)
  BY <1>1, Zenon DEF OpToRel
<1> QED
  BY <1>2

\* What chunk_text does from `start` on, if `f` says what it does from later on.
Step(text, f, start) ==
    ({Piece(text, start)} \ {{}}) \cup
    IF Cut(text, start) >= Layout[text].length THEN {} ELSE f[Onward(text, start)]

Chunks(text) == CHOOSE f : f = [start \in 0..Layout[text].length |-> Step(text, f, start)]

LEMMA ChunkTextIs == \A text \in Texts : ChunkText[text] = Chunks(text)[0]
BY DEF ChunkText, Chunks, Step

LEMMA GreatestNat ==
    ASSUME NEW S \in SUBSET Nat, S # {}, NEW b \in Nat, \A n \in S : n <= b
    PROVE  \E m \in S : \A n \in S : n <= m
<1> DEFINE T == {t \in Nat : \E n \in S : n + t = b}
<1>1. \A n \in S : n \in Nat /\ b - n \in Nat /\ n + (b - n) = b
  OBVIOUS
<1>2. T \in SUBSET Nat /\ T # {}
  BY <1>1
<1>3. PICK t \in T : \A u \in T : t <= u
  <2> HIDE DEF T
  <2> QED
    BY <1>2, LeastNat
<1>4. PICK m \in S : m + t = b
  BY <1>3
<1>5. ASSUME NEW n \in S
      PROVE  n <= m
  <2>1. b - n \in T
    BY <1>1
  <2>2. t <= b - n
    BY <1>3, <2>1
  <2>3. n \in Nat /\ m \in Nat /\ t \in Nat
    BY <1>2, <1>3
  <2> HIDE DEF T
  <2> QED
    BY <1>4, <2>2, <2>3
<1> QED
  BY <1>5

Length(text) == Layout[text].length

Within(text, start, k) ==
    {p \in Separators(text)[k] : start < p /\ p + Width[k] <= start + ChunkSize}

LEMMA WithinType ==
    ASSUME NEW text \in Texts, NEW start \in Nat, NEW k \in 1..3
    PROVE  /\ Within(text, start, k) \in SUBSET Nat
           /\ \A p \in Within(text, start, k) : start < p /\ p < start + ChunkSize
<1>1. /\ Separators(text)[k] \subseteq Nat
      /\ Width[k] \in Nat /\ Width[k] > 0
  <2>1. CASE k = 1
    BY <2>1, LayoutAssumption DEF Separators, Width
  <2>2. CASE k = 2
    BY <2>2, LayoutAssumption DEF Separators, Width
  <2>3. CASE k = 3
    BY <2>3, LayoutAssumption DEF Separators, Width
  <2> QED
    BY <2>1, <2>2, <2>3
<1> QED
  BY <1>1, ChunkAssumption DEF Within

\* A chunk is not empty unless the text is, and not longer than it may be.
LEMMA CutMoves ==
    ASSUME NEW text \in Texts, NEW start \in 0..Length(text)
    PROVE  /\ Cut(text, start) \in start..Length(text)
           /\ Cut(text, start) <= start + ChunkSize
           /\ Cut(text, start) < Length(text) => start < Cut(text, start)
<1> DEFINE found == {k \in 1..3 : Within(text, start, k) # {}}
           kind == CHOOSE k \in found : \A l \in found : k <= l
           last == CHOOSE p \in Within(text, start, kind) :
                      \A q \in Within(text, start, kind) : q <= p
<1>1. Length(text) \in Nat /\ start \in Nat
  BY LayoutAssumption DEF Length
<1>2. Cut(text, start) = IF start + ChunkSize >= Length(text) THEN Length(text)
                         ELSE IF found = {} THEN start + ChunkSize ELSE last
  BY DEF Cut, Within, Length
<1>3. ASSUME found # {}
      PROVE  start < last /\ last < start + ChunkSize /\ last \in Nat
  <2>1. kind \in found
    <3>1. \E k \in found : \A l \in found : k <= l
      BY <1>3, LeastNat
    <3> QED
      BY <3>1
  <2>2. kind \in 1..3 /\ Within(text, start, kind) # {}
    BY <2>1
  <2> HIDE DEF kind
  <2> DEFINE set == Within(text, start, kind)
  <2>3. /\ set \in SUBSET Nat /\ set # {}
        /\ \A p \in set : start < p /\ p < start + ChunkSize
    BY <1>1, <2>2, WithinType
  <2>4. last \in set
    <3> HIDE DEF set
    <3>1. \A p \in set : p <= start + ChunkSize
      BY <1>1, <2>3, ChunkAssumption
    <3>2. start + ChunkSize \in Nat
      BY <1>1, ChunkAssumption
    <3>3. \E p \in set : \A q \in set : q <= p
      BY <2>3, <3>1, <3>2, GreatestNat
    <3>4. (CHOOSE p \in set : \A q \in set : q <= p) \in set
      BY <3>3
    <3> QED
      BY <3>4 DEF set
  <2> QED
    BY <2>3, <2>4
<1> HIDE DEF found, last
<1> QED
  BY <1>1, <1>2, <1>3, ChunkAssumption

LEMMA OnwardMoves ==
    ASSUME NEW text \in Texts, NEW start \in 0..Length(text),
           Cut(text, start) < Length(text)
    PROVE  Onward(text, start) \in (start + 1)..Cut(text, start)
<1> DEFINE cut == Cut(text, start)
<1>1. /\ Length(text) \in Nat /\ start \in Nat /\ ChunkOverlap \in Nat
      /\ cut \in Nat /\ start < cut
  BY LayoutAssumption, CutMoves, ChunkAssumption DEF Length
<1>2. Onward(text, start) = IF cut > start + ChunkOverlap THEN cut - ChunkOverlap ELSE start + 1
  BY DEF Onward
<1> HIDE DEF cut
<1>3. Onward(text, start) \in (start + 1)..cut
  BY <1>1, <1>2
<1> QED
  BY <1>3 DEF cut

Starts(text) == 0..Length(text)

LEMMA StepType ==
    ASSUME NEW text \in Texts, NEW start \in Starts(text),
           NEW f \in [Starts(text) -> SUBSET SUBSET Nat]
    PROVE  Step(text, f, start) \in SUBSET SUBSET Nat
<1>1. Length(text) \in Nat /\ start \in 0..Length(text) /\ start \in Nat
  BY LayoutAssumption DEF Length, Starts
<1>2. Piece(text, start) \in SUBSET Nat
  BY <1>1 DEF Piece
<1>3. CASE Cut(text, start) >= Layout[text].length
  BY <1>2, <1>3 DEF Step
<1>4. CASE ~(Cut(text, start) >= Layout[text].length)
  <2>1. Cut(text, start) \in Nat
    BY <1>1, CutMoves
  <2>2. Onward(text, start) \in Starts(text)
    BY <1>1, <1>4, <2>1, CutMoves, OnwardMoves DEF Length, Starts
  <2> QED
    BY <1>2, <1>4, <2>2 DEF Step
<1> QED
  BY <1>3, <1>4

\* Two functions that agree later on agree about what chunk_text does here.
LEMMA StepAgrees ==
    ASSUME NEW text \in Texts, NEW start \in Starts(text), NEW f, NEW g,
           \A n \in (start + 1)..Length(text) : f[n] = g[n]
    PROVE  Step(text, f, start) = Step(text, g, start)
<1>1. Length(text) \in Nat /\ start \in 0..Length(text) /\ start \in Nat
  BY LayoutAssumption DEF Length, Starts
<1>2. Cut(text, start) \in Nat /\ Cut(text, start) <= Length(text)
  BY <1>1, CutMoves
<1>3. CASE Cut(text, start) >= Layout[text].length
  BY <1>3 DEF Step
<1>4. CASE ~(Cut(text, start) >= Layout[text].length)
  <2>1. Onward(text, start) \in (start + 1)..Length(text)
    BY <1>1, <1>2, <1>4, OnwardMoves DEF Length
  <2> QED
    BY <1>4, <2>1 DEF Step
<1> QED
  BY <1>3, <1>4

\* Recursion on a text ends: there is a function that does what chunk_text
\* does from every place of it.
LEMMA ChunksDefined ==
    ASSUME NEW text \in Texts
    PROVE  \A start \in Starts(text) : Chunks(text)[start] = Step(text, Chunks(text), start)
<1> DEFINE L == Length(text)
           F == [Starts(text) -> SUBSET SUBSET Nat]
           Good(f, k) == \A start \in k..L : f[start] = Step(text, f, start)
           S == {k \in Starts(text) : \E f \in F : Good(f, k)}
<1>1. L \in Nat /\ Starts(text) = 0..L
  BY LayoutAssumption DEF Length, Starts
<1>2. L \in S
  <2> DEFINE none == [n \in Starts(text) |-> {}]
             f == [n \in Starts(text) |-> Step(text, none, L)]
  <2>1. L \in Starts(text) /\ none \in F
    BY <1>1
  <2>2. f \in F /\ f[L] = Step(text, none, L)
    BY <2>1, StepType
  <2>3. Step(text, f, L) = Step(text, none, L)
    <3> HIDE DEF f, none
    <3>1. \A n \in (L + 1)..L : f[n] = none[n]
      BY <1>1
    <3> QED
      BY <2>1, <3>1, StepAgrees
  <2>4. \A n \in L..L : n = L
    BY <1>1
  <2> QED
    BY <2>1, <2>2, <2>3, <2>4
<1>3. PICK m \in S : \A n \in S : m <= n
  <2>1. S \in SUBSET Nat /\ S # {}
    BY <1>1, <1>2
  <2> HIDE DEF S
  <2> QED
    BY <2>1, LeastNat
<1>4. PICK f \in F : Good(f, m)
  BY <1>3
<1>5. m \in Nat /\ m <= L
  BY <1>1, <1>3
<1>6. m = 0
  <2> SUFFICES ASSUME m # 0 PROVE FALSE
    OBVIOUS
  <2>1. PICK k \in Nat : k + 1 = m
    BY <1>5, m - 1 \in Nat
  <2> DEFINE g == [f EXCEPT ![k] = Step(text, f, k)]
  <2>2. k \in Starts(text)
    BY <1>1, <1>5, <2>1
  <2>3. g \in F
    BY <2>2, <1>4, StepType
  <2>4. g[k] = Step(text, f, k) /\ \A n \in Starts(text) : n # k => g[n] = f[n]
    BY <2>2, <1>4
  <2> HIDE DEF g
  <2>5. ASSUME NEW start \in k..L
        PROVE  g[start] = Step(text, g, start)
    <3>1. start \in Starts(text) /\ start \in Nat /\ k <= start
      BY <1>1, <2>5
    <3>2. \A n \in (start + 1)..L : n \in Starts(text) /\ n # k
      BY <1>1, <3>1
    <3>3. \A n \in (start + 1)..L : f[n] = g[n]
      BY <2>4, <3>2
    <3>4. Step(text, f, start) = Step(text, g, start)
      BY <3>1, <3>3, StepAgrees
    <3>5. CASE start = k
      BY <2>4, <3>4, <3>5
    <3>6. CASE start # k
      <4>1. start \in m..L
        BY <1>1, <1>5, <2>1, <3>1, <3>6
      <4>2. f[start] = Step(text, f, start)
        BY <1>4, <4>1
      <4> QED
        BY <2>4, <3>1, <3>4, <3>6, <4>2
    <3> QED
      BY <3>5, <3>6
  <2>6. k \in S
    BY <2>2, <2>3, <2>5
  <2>7. m <= k
    BY <1>3, <2>6
  <2> QED
    BY <2>1, <2>7
<1>7. f = [start \in 0..Layout[text].length |-> Step(text, f, start)]
  BY <1>1, <1>4, <1>6 DEF Length
<1>8. Chunks(text) = [start \in 0..Layout[text].length |-> Step(text, Chunks(text), start)]
  BY <1>7 DEF Chunks
<1> HIDE DEF L, F, S, Good
<1> QED
  BY <1>8 DEF Starts, Length

\* Every letter is in a chunk, wherever the text is cut.
LEMMA ChunksCover ==
    ASSUME NEW text \in Texts
    PROVE  \A start \in Starts(text) :
              UNION Chunks(text)[start] = (start..(Length(text) - 1)) \cap Letters[text]
<1> DEFINE Rest(start) == (start..(Length(text) - 1)) \cap Letters[text]
           S == {start \in Starts(text) : UNION Chunks(text)[start] # Rest(start)}
<1> SUFFICES ASSUME S # {} PROVE FALSE
  OBVIOUS
<1>1. Length(text) \in Nat /\ Starts(text) = 0..Length(text)
  BY LayoutAssumption DEF Length, Starts
<1>2. PICK m \in S : \A n \in S : n <= m
  <2>1. S \in SUBSET Nat /\ \A n \in S : n <= Length(text)
    BY <1>1
  <2> HIDE DEF S
  <2> QED
    BY <1>1, <2>1, GreatestNat
<1>3. m \in Starts(text) /\ m \in Nat
  BY <1>1, <1>2
<1>4. Cut(text, m) \in Nat /\ m <= Cut(text, m) /\ Cut(text, m) <= Length(text)
  BY <1>1, <1>3, CutMoves
<1>5. Chunks(text)[m] = Step(text, Chunks(text), m)
  BY <1>3, ChunksDefined
<1>6. CASE Cut(text, m) >= Layout[text].length
  <2>1. Cut(text, m) = Length(text)
    BY <1>1, <1>4, <1>6 DEF Length
  <2>2. UNION Chunks(text)[m] = Piece(text, m)
    BY <1>5, <1>6 DEF Step
  <2>3. Piece(text, m) = Rest(m)
    BY <2>1 DEF Piece
  <2> QED
    BY <1>2, <2>2, <2>3
<1>7. CASE ~(Cut(text, m) >= Layout[text].length)
  <2> DEFINE next == Onward(text, m)
             cut == Cut(text, m)
  <2>1. cut < Length(text)
    BY <1>1, <1>4, <1>7 DEF Length
  <2>2. next \in (m + 1)..cut
    BY <1>1, <1>3, <2>1, OnwardMoves
  <2>3. next \in Starts(text) /\ next \in Nat /\ m < next /\ next <= cut
    BY <1>1, <1>3, <1>4, <2>2
  <2>4. next \notin S
    BY <1>2, <1>3, <2>3
  <2>5. UNION Chunks(text)[next] = Rest(next)
    BY <2>3, <2>4
  <2>6. UNION Chunks(text)[m] = Piece(text, m) \cup UNION Chunks(text)[next]
    BY <1>5, <1>7 DEF Step
  <2>7. Piece(text, m) = (m..(cut - 1)) \cap Letters[text]
    BY DEF Piece
  <2>8. (m..(cut - 1)) \cup (next..(Length(text) - 1)) = m..(Length(text) - 1)
    <3> HIDE DEF next, cut
    <3> QED
      BY <1>1, <1>3, <1>4, <2>1, <2>3 DEF cut
  <2>9. UNION Chunks(text)[m] = Rest(m)
    <3> HIDE DEF next, cut
    <3> QED
      BY <2>5, <2>6, <2>7, <2>8
  <2> QED
    BY <1>2, <2>9
<1> QED
  BY <1>6, <1>7

\* Every chunk holds at most ChunkSize letters.
LEMMA ChunksFit ==
    ASSUME NEW text \in Texts
    PROVE  \A start \in Starts(text) : \A piece \in Chunks(text)[start] :
              Cardinality(piece) <= ChunkSize
<1> DEFINE Fit(start) == \A piece \in Chunks(text)[start] : Cardinality(piece) <= ChunkSize
           S == {start \in Starts(text) : ~Fit(start)}
<1> SUFFICES ASSUME S # {} PROVE FALSE
  OBVIOUS
<1>1. Length(text) \in Nat /\ Starts(text) = 0..Length(text)
  BY LayoutAssumption DEF Length, Starts
<1>2. PICK m \in S : \A n \in S : n <= m
  <2>1. S \in SUBSET Nat /\ \A n \in S : n <= Length(text)
    BY <1>1
  <2> HIDE DEF S
  <2> QED
    BY <1>1, <2>1, GreatestNat
<1>3. m \in Starts(text) /\ m \in Nat
  BY <1>1, <1>2
<1>4. /\ Cut(text, m) \in Nat /\ m <= Cut(text, m) /\ Cut(text, m) <= Length(text)
      /\ Cut(text, m) <= m + ChunkSize
  BY <1>1, <1>3, CutMoves
<1>5. Chunks(text)[m] = Step(text, Chunks(text), m)
  BY <1>3, ChunksDefined
<1>6. Cardinality(Piece(text, m)) <= ChunkSize
  <2> DEFINE last == Cut(text, m) - 1
             window == m..last
  <2>1. last \in Int
    BY <1>4
  <2>2. /\ IsFiniteSet(window)
        /\ Cardinality(window) = IF m > last THEN 0 ELSE last - m + 1
    BY <1>3, <2>1, FS_Interval
  <2>3. Cardinality(window) \in Nat /\ Cardinality(window) <= ChunkSize
    BY <1>3, <1>4, <2>2, ChunkAssumption
  <2>4. Piece(text, m) \subseteq window
    BY DEF Piece
  <2>5. Cardinality(Piece(text, m)) <= Cardinality(window) /\ Cardinality(Piece(text, m)) \in Nat
    <3> HIDE DEF window
    <3> QED
      BY <2>2, <2>4, FS_Subset, FS_CardinalityType
  <2> QED
    BY <2>3, <2>5, ChunkAssumption
<1>7. CASE Cut(text, m) >= Layout[text].length
  BY <1>2, <1>5, <1>6, <1>7 DEF Step
<1>8. CASE ~(Cut(text, m) >= Layout[text].length)
  <2>1. Cut(text, m) < Length(text)
    BY <1>1, <1>4, <1>8 DEF Length
  <2>2. Onward(text, m) \in Starts(text) /\ Onward(text, m) \in Nat /\ m < Onward(text, m)
    BY <1>1, <1>3, <1>4, <2>1, OnwardMoves
  <2>3. Fit(Onward(text, m))
    BY <1>2, <1>3, <2>2
  <2> QED
    BY <1>2, <1>5, <1>6, <1>8, <2>3 DEF Step
<1> QED
  BY <1>7, <1>8

\* Whatever a text is made of, its chunks hold all its letters, and none is
\* longer than CHUNK_SIZE: chunk_text of services/ingestion.py.
THEOREM ChunkTextKeepsLetters ==
    \A text \in Texts : Found[text] = Letters[text] /\ Fits(text)
<1> SUFFICES ASSUME NEW text \in Texts
             PROVE  Found[text] = Letters[text] /\ Fits(text)
  OBVIOUS
<1>1. Length(text) \in Nat /\ 0 \in Starts(text)
  BY LayoutAssumption DEF Length, Starts
<1>2. ChunkText[text] = Chunks(text)[0]
  BY ChunkTextIs
<1>3. UNION Chunks(text)[0] = (0..(Length(text) - 1)) \cap Letters[text]
  BY <1>1, ChunksCover
<1>4. Letters[text] \subseteq 0..(Length(text) - 1)
  BY DEF Letters, Length
<1>5. Fits(text)
  BY <1>1, <1>2, ChunksFit DEF Fits
<1> QED
  BY <1>2, <1>3, <1>4, <1>5 DEF Found

-----------------------------------------------------------------------------
(* The two stores *)

CorpusTypes ==
    /\ request \in [Requests -> [at : RequestPoints, text : Texts \cup {"none"},
                                doc : Requests \cup {"none"}]]
    /\ stored \subseteq Requests /\ flushed \subseteq Requests
    /\ points \subseteq Requests /\ torn \subseteq Requests
    /\ collected \in BOOLEAN /\ ensured \in BOOLEAN
    /\ mishaps \in [CorpusFaults -> Nat]

\* Where a request is, and what that says of the document it brought or deletes.
Place(r) ==
    /\ request[r].at = "idle" => request[r].doc = "none"
    /\ request[r].at = "flush" => request[r].doc = r /\ request[r].text \in Texts
    /\ request[r].at \in {"ensure", "create"} => request[r].doc = "none" \/ r \in flushed
    /\ request[r].at \in {"upsert", "commit"} => r \in flushed
    /\ request[r].at = "upsert" => collected
    /\ request[r].at = "commit" => r \in points
    /\ request[r].at \in {"unindex", "delete"} =>
          request[r].doc \in Requests /\ request[request[r].doc].at = "done"
    /\ request[r].at = "delete" => request[r].doc \notin points
    /\ r \in flushed => /\ request[r].at \in {"ensure", "create", "upsert", "commit"}
                        /\ request[r].doc = r /\ request[r].text \in Texts
    /\ r \in stored => request[r].at = "done" /\ request[r].text \in Texts
    /\ r \in points => /\ request[r].at \in {"commit", "done", "failed"}
                       /\ request[r].text \in Texts

Places == \A r \in Requests : Place(r)

Distinct ==
    \A d, e \in stored \cup flushed : request[d].text = request[e].text => d = e

Gathered == (points # {} => collected) /\ (ensured => collected)

\* IndexFollowsStore, of the points and not of the letters.
Follows(d) == (d \in points <=> d \in stored) \/ UnderWay(d) \/ d \in torn

CorpusInv ==
    /\ CorpusTypes
    /\ Places
    /\ Distinct
    /\ Gathered
    /\ \A d \in Requests : Follows(d)

\* The other requests of a step of `r`.
Aside(r) == \A q \in Requests \ {r} : request'[q] = request[q]

LEMMA AdvanceMoves ==
    ASSUME CorpusTypes, NEW r \in Requests, NEW p \in RequestPoints, Advance(r, p)
    PROVE  /\ request' \in [Requests -> [at : RequestPoints, text : Texts \cup {"none"},
                                         doc : Requests \cup {"none"}]]
           /\ request'[r].at = p
           /\ request'[r].text = request[r].text /\ request'[r].doc = request[r].doc
           /\ Aside(r)
BY DEF CorpusTypes, Advance, Aside

LEMMA MishapType ==
    ASSUME CorpusTypes, NEW fault \in CorpusFaults, Mishap(fault)
    PROVE  mishaps' \in [CorpusFaults -> Nat]
BY DEF CorpusTypes, Mishap

LEMMA PlacesAside ==
    ASSUME Places, NEW r \in Requests, request[r].at # "done", Aside(r),
           collected => collected',
           \A q \in Requests \ {r} : q \in flushed' <=> q \in flushed,
           \A q \in Requests : q # r => (q \in stored' => q \in stored),
           \A q \in Requests : q # r => (q \in points' => q \in points),
           \A q \in Requests \ {r} :
               request[q].at = "commit" /\ q \in points => q \in points'
    PROVE  \A q \in Requests \ {r} : Place(q)'
<1> SUFFICES ASSUME NEW q \in Requests \ {r} PROVE Place(q)'
  OBVIOUS
<1>1. Place(q) /\ request'[q] = request[q]
  BY DEF Places, Aside
<1>2. ASSUME request[q].at \in {"unindex", "delete"}
      PROVE  /\ request[q].doc # r /\ request[q].doc \in Requests
             /\ request'[request[q].doc] = request[request[q].doc]
  BY <1>1, <1>2 DEF Place, Aside
<1> QED
  BY <1>1, <1>2 DEF Place

LEMMA PlacesTogether ==
    ASSUME NEW r \in Requests, \A q \in Requests \ {r} : Place(q)', Place(r)'
    PROVE  Places'
BY DEF Places

LEMMA DistinctStays ==
    ASSUME Distinct,
           \A q \in stored' \cup flushed' :
               q \in stored \cup flushed /\ request'[q].text = request[q].text
    PROVE  Distinct'
BY DEF Distinct

LEMMA FollowsAside ==
    ASSUME NEW r \in Requests, Aside(r), NEW d \in Requests, Follows(d),
           request[r].at \in {"commit", "delete"} => d # request[r].doc,
           d \in points' <=> d \in points,
           d \in stored' <=> d \in stored,
           torn \subseteq torn'
    PROVE  Follows(d)'
<1>1. CASE d \in torn \/ (d \in points <=> d \in stored)
  BY <1>1 DEF Follows
<1>2. CASE UnderWay(d)
  <2>1. PICK q \in Requests : request[q].doc = d /\ request[q].at \in {"commit", "delete"}
    BY <1>2 DEF UnderWay
  <2>2. q # r
    BY <2>1
  <2>3. UnderWay(d)'
    BY <2>1, <2>2 DEF Aside, UnderWay
  <2> QED
    BY <2>3 DEF Follows
<1> QED
  BY <1>1, <1>2 DEF Follows

LEMMA CorpusInvInit == CorpusInit => CorpusInv
<1> SUFFICES ASSUME CorpusInit PROVE CorpusInv
  OBVIOUS
<1>1. CorpusTypes
  BY CorpusScenariosAssumption DEF CorpusInit, CorpusTypes, RequestPoints
<1>2. Places
  BY DEF CorpusInit, Places, Place
<1>3. Distinct /\ Gathered /\ \A d \in Requests : Follows(d)
  BY DEF CorpusInit, Distinct, Gathered, Follows
<1> QED
  BY <1>1, <1>2, <1>3 DEF CorpusInv

\* A step that touches neither store.
LEMMA SameStores ==
    ASSUME CorpusInv, NEW r \in Requests, Aside(r),
           request[r].at \notin {"done", "commit", "delete"},
           UNCHANGED <<stored, points, torn>>, collected => collected', Gathered',
           \A q \in Requests \ {r} : q \in flushed' <=> q \in flushed,
           CorpusTypes', Place(r)', Distinct'
    PROVE  CorpusInv'
<1>1. Places'
  BY PlacesAside, PlacesTogether DEF CorpusInv
<1>2. \A d \in Requests : Follows(d)'
  BY FollowsAside DEF CorpusInv
<1> QED
  BY <1>1, <1>2 DEF CorpusInv

LEMMA SubmitStep ==
    ASSUME CorpusInv, NEW r \in Requests, NEW text \in Texts, Submit(r, text)
    PROVE  CorpusInv'
<1> DEFINE refused == (\E d \in stored : request[d].text = text) \/ ChunkText[text] = {}
           at == IF refused THEN "refused" ELSE "flush"
           new == [at |-> at, text |-> text, doc |-> r]
<1>1. /\ at \in {"refused", "flush"} /\ new.at = at /\ new.text = text /\ new.doc = r
      /\ new \in [at : RequestPoints, text : Texts \cup {"none"}, doc : Requests \cup {"none"}]
  BY DEF RequestPoints
<1>2. /\ request[r].at = "idle" /\ request' = [request EXCEPT ![r] = new]
      /\ UNCHANGED <<stored, flushed, points, collected, ensured, torn, mishaps>>
  BY DEF Submit, indexVars
<1>3. CorpusTypes /\ Place(r) /\ Distinct /\ Gathered
  BY DEF CorpusInv, Places
<1> HIDE DEF new, at
<1>4. CorpusTypes' /\ Aside(r) /\ request'[r] = new
  BY <1>1, <1>2, <1>3 DEF CorpusTypes, Aside
<1>5. r \notin stored /\ r \notin flushed /\ r \notin points
  BY <1>2, <1>3 DEF Place
<1>6. Place(r)' /\ Gathered'
  BY <1>1, <1>2, <1>3, <1>4, <1>5 DEF Place, Gathered
<1>7. Distinct'
  <2>1. \A q \in stored' \cup flushed' : q \in Requests \ {r} /\ q \in stored \cup flushed
    BY <1>2, <1>3, <1>5 DEF CorpusTypes
  <2> QED
    BY <1>3, <1>4, <2>1, DistinctStays DEF Aside
<1> QED
  BY <1>2, <1>4, <1>6, <1>7, SameStores

LEMMA FlushDocumentStep ==
    ASSUME CorpusInv, NEW r \in Requests, FlushDocument(r)
    PROVE  CorpusInv'
<1>1. /\ request[r].at = "flush"
      /\ UNCHANGED <<stored, points, collected, ensured, torn, mishaps>>
  BY DEF FlushDocument, indexVars
<1>2. CorpusTypes /\ Place(r) /\ Distinct /\ Gathered
  BY DEF CorpusInv, Places
<1>3. CASE \E d \in stored : request[d].text = request[r].text
  <2>1. Advance(r, "failed") /\ flushed' = flushed
    BY <1>3 DEF FlushDocument
  <2>2. /\ CorpusTypes' /\ Aside(r) /\ request'[r].at = "failed"
        /\ request'[r].text = request[r].text
    BY <1>1, <1>2, <2>1, AdvanceMoves DEF CorpusTypes, RequestPoints
  <2>3. Place(r)' /\ Gathered'
    BY <1>1, <1>2, <2>1, <2>2 DEF Place, Gathered
  <2>4. Distinct'
    BY <1>1, <1>2, <2>1, <2>2, DistinctStays DEF Aside, CorpusTypes
  <2> QED
    BY <1>1, <2>1, <2>2, <2>3, <2>4, SameStores
<1>4. CASE ~\E d \in stored : request[d].text = request[r].text
  <2>1. /\ Advance(r, "ensure") /\ flushed' = flushed \cup {r}
        /\ \A d \in stored \cup flushed : request[d].text # request[r].text
    BY <1>4 DEF FlushDocument
  <2>2. /\ CorpusTypes' /\ Aside(r) /\ request'[r].at = "ensure"
        /\ request'[r].text = request[r].text /\ request'[r].doc = request[r].doc
    BY <1>1, <1>2, <2>1, AdvanceMoves DEF CorpusTypes, RequestPoints
  <2>3. Place(r)' /\ Gathered'
    BY <1>1, <1>2, <2>1, <2>2 DEF Place, Gathered
  <2>4. Distinct'
    <3>1. \A q \in Requests : request'[q].text = request[q].text
      BY <2>2 DEF Aside
    <3> QED
      BY <1>1, <1>2, <2>1, <3>1 DEF Distinct, CorpusTypes
  <2> QED
    BY <1>1, <2>1, <2>2, <2>3, <2>4, SameStores
<1> QED
  BY <1>3, <1>4

LEMMA EnsureCollectionStep ==
    ASSUME CorpusInv, NEW r \in Requests, EnsureCollection(r)
    PROVE  CorpusInv'
<1> DEFINE at == IF ensured \/ collected THEN AfterEnsure(r) ELSE "create"
<1>1. /\ request[r].at = "ensure" /\ Advance(r, at) /\ ensured' = (ensured \/ collected)
      /\ UNCHANGED <<stored, flushed, points, collected, torn, mishaps>>
  BY DEF EnsureCollection
<1>2. CorpusTypes /\ Place(r) /\ Distinct /\ Gathered
  BY DEF CorpusInv, Places
<1>3. at \in RequestPoints
  BY DEF AfterEnsure, RequestPoints
<1>4. /\ at \in {"search", "upsert", "create"}
      /\ at = "search" => request[r].doc = "none"
      /\ at = "upsert" => request[r].doc # "none" /\ (ensured \/ collected)
  BY DEF AfterEnsure
<1> HIDE DEF at
<1>5. /\ CorpusTypes' /\ Aside(r) /\ request'[r].at = at
      /\ request'[r].text = request[r].text /\ request'[r].doc = request[r].doc
  BY <1>1, <1>2, <1>3, AdvanceMoves DEF CorpusTypes
<1>6. Gathered'
  BY <1>1, <1>2 DEF Gathered
<1>7. Place(r)'
  BY <1>1, <1>2, <1>4, <1>5, NoneAssumption DEF Place, Gathered
<1>8. Distinct'
  BY <1>1, <1>2, <1>5, DistinctStays DEF Aside, CorpusTypes
<1> QED
  BY <1>1, <1>5, <1>6, <1>7, <1>8, SameStores

\* A request that fails before it touched the index.
LEMMA RollbackStep ==
    ASSUME CorpusInv, NEW r \in Requests, Rollback(r),
           request[r].at \in {"create", "upsert"},
           UNCHANGED <<stored, points, collected, ensured, torn>>,
           mishaps' \in [CorpusFaults -> Nat]
    PROVE  CorpusInv'
<1>1. CorpusTypes /\ Place(r) /\ Distinct /\ Gathered
  BY DEF CorpusInv, Places
<1>2. Advance(r, "failed") /\ flushed' = flushed \ {r}
  BY DEF Rollback
<1>3. /\ CorpusTypes' /\ Aside(r) /\ request'[r].at = "failed"
      /\ request'[r].text = request[r].text
  BY <1>1, <1>2, AdvanceMoves DEF CorpusTypes, RequestPoints
<1>4. Place(r)' /\ Gathered'
  BY <1>1, <1>2, <1>3 DEF Place, Gathered
<1>5. Distinct'
  BY <1>1, <1>2, <1>3, DistinctStays DEF Aside, CorpusTypes
<1> QED
  BY <1>2, <1>3, <1>4, <1>5, SameStores

LEMMA CreateCollectionStep ==
    ASSUME CorpusInv, NEW r \in Requests, CreateCollection(r)
    PROVE  CorpusInv'
<1>1. request[r].at = "create" /\ UNCHANGED <<stored, torn, mishaps>>
  BY DEF CreateCollection
<1>2. CorpusTypes /\ Place(r) /\ Distinct /\ Gathered
  BY DEF CorpusInv, Places
<1>3. CASE collected
  <2>1. Rollback(r) /\ UNCHANGED <<points, collected, ensured>>
    BY <1>3 DEF CreateCollection, indexVars
  <2> QED
    BY <1>1, <1>2, <2>1, RollbackStep DEF CorpusTypes
<1>4. CASE ~collected
  <2>1. /\ collected' = TRUE /\ ensured' = TRUE /\ UNCHANGED <<flushed, points>>
        /\ Advance(r, AfterEnsure(r))
    BY <1>4 DEF CreateCollection
  <2>2. AfterEnsure(r) \in RequestPoints
    BY DEF AfterEnsure, RequestPoints
  <2>3. /\ CorpusTypes' /\ Aside(r) /\ request'[r].at = AfterEnsure(r)
        /\ request'[r].text = request[r].text /\ request'[r].doc = request[r].doc
    BY <1>1, <1>2, <2>1, <2>2, AdvanceMoves DEF CorpusTypes
  <2>4. Place(r)' /\ Gathered'
    BY <1>1, <1>2, <2>1, <2>3, NoneAssumption DEF Place, Gathered, AfterEnsure
  <2>5. Distinct'
    BY <1>1, <1>2, <2>1, <2>3, DistinctStays DEF Aside, CorpusTypes
  <2> QED
    BY <1>1, <2>1, <2>3, <2>4, <2>5, SameStores
<1> QED
  BY <1>3, <1>4

LEMMA UpsertStep ==
    ASSUME CorpusInv, NEW r \in Requests, Upsert(r)
    PROVE  CorpusInv'
<1>1. request[r].at = "upsert" /\ UNCHANGED <<stored, collected, ensured>>
  BY DEF Upsert
<1>2. CorpusTypes /\ Place(r) /\ Distinct /\ Gathered
  BY DEF CorpusInv, Places
<1>3. /\ collected /\ r \in flushed /\ r \notin stored
      /\ request[r].doc = r /\ request[r].text \in Texts
  BY <1>1, <1>2 DEF Place
<1>4. CASE /\ points' = points \cup {r} /\ Advance(r, "commit")
           /\ UNCHANGED <<flushed, torn, mishaps>>
  <2>1. /\ CorpusTypes' /\ Aside(r) /\ request'[r].at = "commit"
        /\ request'[r].text = request[r].text /\ request'[r].doc = request[r].doc
    BY <1>1, <1>2, <1>4, AdvanceMoves DEF CorpusTypes, RequestPoints
  <2>2. Place(r)' /\ Gathered'
    BY <1>1, <1>2, <1>3, <1>4, <2>1 DEF Place, Gathered
  <2>3. Places'
    BY <1>1, <1>4, <2>1, <2>2, PlacesAside, PlacesTogether DEF CorpusInv
  <2>4. Distinct'
    BY <1>1, <1>2, <1>4, <2>1, DistinctStays DEF Aside, CorpusTypes
  <2>5. ASSUME NEW d \in Requests PROVE Follows(d)'
    <3>1. CASE d = r
      BY <1>3, <2>1, <3>1 DEF Follows, UnderWay
    <3>2. CASE d # r
      BY <1>1, <1>4, <2>1, <3>2, FollowsAside DEF CorpusInv
    <3> QED
      BY <3>1, <3>2
  <2> QED
    BY <2>1, <2>2, <2>3, <2>4, <2>5 DEF CorpusInv
<1>5. CASE Mishap("qdrant") /\ Rollback(r) /\ UNCHANGED <<points, torn>>
  <2>1. mishaps' \in [CorpusFaults -> Nat]
    BY <1>2, <1>5, MishapType DEF CorpusFaults
  <2> QED
    BY <1>1, <1>5, <2>1, RollbackStep
<1>6. CASE /\ Mishap("qdrant") /\ Rollback(r)
           /\ points' = points \cup {r} /\ torn' = torn \cup {r}
  <2>1. mishaps' \in [CorpusFaults -> Nat]
    BY <1>2, <1>6, MishapType DEF CorpusFaults
  <2>2. Advance(r, "failed") /\ flushed' = flushed \ {r}
    BY <1>6 DEF Rollback
  <2>3. /\ CorpusTypes' /\ Aside(r) /\ request'[r].at = "failed"
        /\ request'[r].text = request[r].text /\ request'[r].doc = request[r].doc
    BY <1>1, <1>2, <1>6, <2>1, <2>2, AdvanceMoves DEF CorpusTypes, RequestPoints
  <2>4. Place(r)' /\ Gathered'
    BY <1>1, <1>2, <1>3, <1>6, <2>2, <2>3 DEF Place, Gathered
  <2>5. Places'
    BY <1>1, <1>6, <2>2, <2>3, <2>4, PlacesAside, PlacesTogether DEF CorpusInv
  <2>6. Distinct'
    BY <1>1, <1>2, <2>2, <2>3, DistinctStays DEF Aside, CorpusTypes
  <2>7. ASSUME NEW d \in Requests PROVE Follows(d)'
    <3>1. CASE d = r
      BY <1>6, <3>1 DEF Follows
    <3>2. CASE d # r
      BY <1>1, <1>6, <2>3, <3>2, FollowsAside DEF CorpusInv
    <3> QED
      BY <3>1, <3>2
  <2> QED
    BY <2>3, <2>4, <2>5, <2>6, <2>7 DEF CorpusInv
<1> QED
  BY <1>4, <1>5, <1>6 DEF Upsert

LEMMA CommitDocumentStep ==
    ASSUME CorpusInv, NEW r \in Requests, CommitDocument(r)
    PROVE  CorpusInv'
<1>1. request[r].at = "commit" /\ UNCHANGED <<points, collected, ensured>>
  BY DEF CommitDocument, indexVars
<1>2. CorpusTypes /\ Place(r) /\ Distinct /\ Gathered
  BY DEF CorpusInv, Places
<1>3. /\ r \in points /\ r \in flushed /\ r \notin stored
      /\ request[r].doc = r /\ request[r].text \in Texts
  BY <1>1, <1>2 DEF Place
<1>4. CASE /\ stored' = stored \cup {r} /\ flushed' = flushed \ {r}
           /\ Advance(r, "done") /\ UNCHANGED <<torn, mishaps>>
  <2>1. /\ CorpusTypes' /\ Aside(r) /\ request'[r].at = "done"
        /\ request'[r].text = request[r].text /\ request'[r].doc = request[r].doc
    BY <1>1, <1>2, <1>4, AdvanceMoves DEF CorpusTypes, RequestPoints
  <2>2. Place(r)' /\ Gathered'
    BY <1>1, <1>2, <1>3, <1>4, <2>1 DEF Place, Gathered
  <2>3. Places'
    BY <1>1, <1>4, <2>1, <2>2, PlacesAside, PlacesTogether DEF CorpusInv
  <2>4. Distinct'
    BY <1>2, <1>3, <1>4, <2>1, DistinctStays DEF Aside, CorpusTypes
  <2>5. ASSUME NEW d \in Requests PROVE Follows(d)'
    <3>1. CASE d = r
      BY <1>1, <1>3, <1>4, <3>1 DEF Follows
    <3>2. CASE d # r
      BY <1>1, <1>3, <1>4, <2>1, <3>2, FollowsAside DEF CorpusInv
    <3> QED
      BY <3>1, <3>2
  <2> QED
    BY <2>1, <2>2, <2>3, <2>4, <2>5 DEF CorpusInv
<1>5. CASE Mishap("commit") /\ Rollback(r) /\ torn' = torn \cup {r} /\ UNCHANGED stored
  <2>1. mishaps' \in [CorpusFaults -> Nat]
    BY <1>2, <1>5, MishapType DEF CorpusFaults
  <2>2. Advance(r, "failed") /\ flushed' = flushed \ {r}
    BY <1>5 DEF Rollback
  <2>3. /\ CorpusTypes' /\ Aside(r) /\ request'[r].at = "failed"
        /\ request'[r].text = request[r].text /\ request'[r].doc = request[r].doc
    BY <1>1, <1>2, <1>5, <2>1, <2>2, AdvanceMoves DEF CorpusTypes, RequestPoints
  <2>4. Place(r)' /\ Gathered'
    BY <1>1, <1>2, <1>3, <1>5, <2>2, <2>3 DEF Place, Gathered
  <2>5. Places'
    BY <1>1, <1>5, <2>2, <2>3, <2>4, PlacesAside, PlacesTogether DEF CorpusInv
  <2>6. Distinct'
    BY <1>2, <1>5, <2>2, <2>3, DistinctStays DEF Aside, CorpusTypes
  <2>7. ASSUME NEW d \in Requests PROVE Follows(d)'
    <3>1. CASE d = r
      BY <1>5, <3>1 DEF Follows
    <3>2. CASE d # r
      BY <1>1, <1>3, <1>5, <2>3, <3>2, FollowsAside DEF CorpusInv
    <3> QED
      BY <3>1, <3>2
  <2> QED
    BY <2>3, <2>4, <2>5, <2>6, <2>7 DEF CorpusInv
<1> QED
  BY <1>4, <1>5 DEF CommitDocument

LEMMA LoadDocumentStep ==
    ASSUME CorpusInv, NEW r \in Requests, NEW d \in Requests \ {r}, LoadDocument(r, d)
    PROVE  CorpusInv'
<1> DEFINE at == IF d \in stored THEN "unindex" ELSE "refused"
<1>1. /\ request[r].at = "idle" /\ request' = [request EXCEPT ![r].doc = d, ![r].at = at]
      /\ UNCHANGED <<stored, flushed, points, collected, ensured, torn, mishaps>>
  BY DEF LoadDocument, indexVars
<1>2. CorpusTypes /\ Place(r) /\ Place(d) /\ Distinct /\ Gathered
  BY DEF CorpusInv, Places
<1>3. at \in RequestPoints /\ at \in {"unindex", "refused"} /\ (at = "unindex" => d \in stored)
  BY DEF RequestPoints
<1> HIDE DEF at
<1>4. /\ CorpusTypes' /\ Aside(r) /\ request'[r].at = at
      /\ request'[r].text = request[r].text /\ request'[r].doc = d
  BY <1>1, <1>2, <1>3 DEF CorpusTypes, Aside
<1>5. at = "unindex" => request'[d].at = "done"
  BY <1>2, <1>3, <1>4 DEF Place, Aside
<1>6. Place(r)' /\ Gathered'
  BY <1>1, <1>2, <1>3, <1>4, <1>5 DEF Place, Gathered
<1>7. Distinct'
  BY <1>1, <1>2, <1>4, DistinctStays DEF Aside, CorpusTypes
<1> QED
  BY <1>1, <1>4, <1>6, <1>7, SameStores

LEMMA UnindexStep ==
    ASSUME CorpusInv, NEW r \in Requests, Unindex(r)
    PROVE  CorpusInv'
<1> DEFINE d0 == request[r].doc
<1>1. request[r].at = "unindex" /\ UNCHANGED <<stored, flushed, collected, ensured>>
  BY DEF Unindex
<1>2. CorpusTypes /\ Place(r) /\ Distinct /\ Gathered
  BY DEF CorpusInv, Places
<1>3. d0 \in Requests /\ request[d0].at = "done"
  BY <1>1, <1>2 DEF Place
<1>4. PICK at \in {"delete", "failed"} :
         /\ Advance(r, at)
         /\ mishaps' \in [CorpusFaults -> Nat]
         /\ \/ points' = points \ {d0} /\ torn' = torn /\ at = "delete"
            \/ points' = points \ {d0} /\ torn' = torn \cup {d0}
            \/ points' = points /\ torn' = torn /\ at = "failed"
  <2>1. CASE /\ points' = points \ {d0} /\ Advance(r, "delete") /\ UNCHANGED <<torn, mishaps>>
    BY <1>2, <2>1 DEF CorpusTypes
  <2>2. CASE Mishap("qdrant") /\ Advance(r, "failed") /\ UNCHANGED <<points, torn>>
    BY <1>2, <2>2, MishapType DEF CorpusFaults
  <2>3. CASE /\ Mishap("qdrant") /\ Advance(r, "failed")
             /\ points' = points \ {d0} /\ torn' = torn \cup {d0}
    BY <1>2, <2>3, MishapType DEF CorpusFaults
  <2> QED
    BY <2>1, <2>2, <2>3 DEF Unindex
<1>5. points' \subseteq points /\ torn \subseteq torn' /\ torn' \subseteq torn \cup {d0}
  BY <1>4
<1>6. /\ CorpusTypes' /\ Aside(r) /\ request'[r].at = at
      /\ request'[r].text = request[r].text /\ request'[r].doc = d0
  BY <1>1, <1>2, <1>3, <1>4, <1>5, AdvanceMoves DEF CorpusTypes, RequestPoints
<1>7. request'[d0].at = "done"
  BY <1>1, <1>3, <1>6 DEF Aside
<1>8. Place(r)' /\ Gathered'
  BY <1>1, <1>2, <1>3, <1>4, <1>5, <1>6, <1>7 DEF Place, Gathered
<1>9. Places'
  <2>1. \A q \in Requests \ {r} : request[q].at = "commit" /\ q \in points => q \in points'
    BY <1>3, <1>4
  <2> QED
    BY <1>1, <1>5, <1>6, <1>8, <2>1, PlacesAside, PlacesTogether DEF CorpusInv
<1>10. Distinct'
  BY <1>1, <1>2, <1>6, DistinctStays DEF Aside, CorpusTypes
<1>11. ASSUME NEW d \in Requests PROVE Follows(d)'
  <2>1. CASE points' = points \/ d # d0
    <3>1. d \in points' <=> d \in points
      BY <1>4, <2>1
    <3> QED
      BY <1>1, <1>5, <1>6, <3>1, FollowsAside DEF CorpusInv
  <2>2. CASE d = d0 /\ points' # points
    <3>1. d \in torn' \/ at = "delete"
      BY <1>4, <2>2
    <3> QED
      BY <1>6, <2>2, <3>1 DEF Follows, UnderWay
  <2> QED
    BY <2>1, <2>2
<1> QED
  BY <1>6, <1>8, <1>9, <1>10, <1>11 DEF CorpusInv

LEMMA CommitDeleteStep ==
    ASSUME CorpusInv, NEW r \in Requests, CommitDelete(r)
    PROVE  CorpusInv'
<1> DEFINE d0 == request[r].doc
<1>1. request[r].at = "delete" /\ UNCHANGED <<flushed, points, collected, ensured>>
  BY DEF CommitDelete, indexVars
<1>2. CorpusTypes /\ Place(r) /\ Distinct /\ Gathered
  BY DEF CorpusInv, Places
<1>3. d0 \in Requests /\ d0 \notin points
  BY <1>1, <1>2 DEF Place
<1>4. PICK at \in {"done", "failed"} :
         /\ Advance(r, at)
         /\ mishaps' \in [CorpusFaults -> Nat]
         /\ \/ stored' = stored \ {d0} /\ torn' = torn
            \/ stored' = stored /\ torn' = torn \cup {d0}
  BY <1>2, MishapType DEF CommitDelete, CorpusFaults, CorpusTypes
<1>5. /\ CorpusTypes' /\ Aside(r) /\ request'[r].at = at
      /\ request'[r].text = request[r].text /\ request'[r].doc = d0
  BY <1>1, <1>2, <1>3, <1>4, AdvanceMoves DEF CorpusTypes, RequestPoints
<1>6. stored' \subseteq stored /\ torn \subseteq torn'
  BY <1>4
<1>7. Place(r)' /\ Gathered'
  BY <1>1, <1>2, <1>4, <1>5, <1>6 DEF Place, Gathered
<1>8. Places'
  BY <1>1, <1>5, <1>6, <1>7, PlacesAside, PlacesTogether DEF CorpusInv
<1>9. Distinct'
  <2>1. \A q \in stored \cup flushed : request'[q].text = request[q].text
    BY <1>2, <1>5 DEF Aside, CorpusTypes
  <2> QED
    BY <1>1, <1>2, <1>6, <2>1, DistinctStays
<1>10. ASSUME NEW d \in Requests PROVE Follows(d)'
  <2>1. CASE d # d0
    BY <1>1, <1>4, <1>5, <1>6, <2>1, FollowsAside DEF CorpusInv
  <2>2. CASE d = d0 /\ stored' = stored \ {d0}
    BY <1>1, <1>3, <2>2 DEF Follows
  <2>3. CASE d = d0 /\ torn' = torn \cup {d0}
    BY <2>3 DEF Follows
  <2> QED
    BY <1>4, <2>1, <2>2, <2>3
<1> QED
  BY <1>5, <1>7, <1>8, <1>9, <1>10 DEF CorpusInv

LEMMA BeginSearchStep ==
    ASSUME CorpusInv, NEW r \in Requests, BeginSearch(r)
    PROVE  CorpusInv'
<1>1. /\ request[r].at = "idle" /\ Advance(r, "ensure")
      /\ UNCHANGED <<stored, flushed, points, collected, ensured, torn, mishaps>>
  BY DEF BeginSearch, indexVars
<1>2. CorpusTypes /\ Place(r) /\ Distinct /\ Gathered
  BY DEF CorpusInv, Places
<1>3. /\ CorpusTypes' /\ Aside(r) /\ request'[r].at = "ensure"
      /\ request'[r].text = request[r].text /\ request'[r].doc = request[r].doc
  BY <1>1, <1>2, AdvanceMoves DEF CorpusTypes, RequestPoints
<1>4. Place(r)' /\ Gathered'
  BY <1>1, <1>2, <1>3 DEF Place, Gathered
<1>5. Distinct'
  BY <1>1, <1>2, <1>3, DistinctStays DEF Aside, CorpusTypes
<1> QED
  BY <1>1, <1>3, <1>4, <1>5, SameStores

LEMMA SearchStep ==
    ASSUME CorpusInv, NEW r \in Requests, Search(r) \/ Retrieve(r)
    PROVE  CorpusInv'
<1>1. /\ request[r].at = "search"
      /\ UNCHANGED <<stored, flushed, points, collected, ensured, torn>>
  BY DEF Search, Retrieve, indexVars
<1>2. CorpusTypes /\ Place(r) /\ Distinct /\ Gathered
  BY DEF CorpusInv, Places
<1>3. mishaps' \in [CorpusFaults -> Nat]
  BY <1>2, MishapType DEF Search, Retrieve, CorpusFaults, CorpusTypes
<1>4. /\ request' \in [Requests -> [at : RequestPoints, text : Texts \cup {"none"},
                                    doc : Requests \cup {"none"}]]
      /\ request'[r].at \in {"done", "failed"} /\ request'[r].text = request[r].text
      /\ Aside(r)
  <2>1. CASE Hit(r)
    <3>1. PICK hit \in points \cup {"none"} :
             request' = [request EXCEPT ![r].at = "done", ![r].doc = hit]
      BY <2>1 DEF Hit
    <3>2. hit \in Requests \cup {"none"}
      BY <1>2 DEF CorpusTypes
    <3> QED
      BY <1>2, <3>1, <3>2 DEF CorpusTypes, RequestPoints, Aside
  <2>2. CASE Advance(r, "failed")
    BY <1>2, <2>2, AdvanceMoves DEF RequestPoints
  <2> QED
    BY <2>1, <2>2 DEF Search, Retrieve
<1>5. CorpusTypes'
  BY <1>1, <1>2, <1>3, <1>4 DEF CorpusTypes
<1>6. Place(r)' /\ Gathered'
  BY <1>1, <1>2, <1>4 DEF Place, Gathered
<1>7. Distinct'
  BY <1>1, <1>2, <1>4, DistinctStays DEF Aside, CorpusTypes
<1> QED
  BY <1>1, <1>4, <1>5, <1>6, <1>7, SameStores

LEMMA RestartApiStep == CorpusInv /\ RestartApi => CorpusInv'
<1> SUFFICES ASSUME CorpusInv, RestartApi PROVE CorpusInv'
  OBVIOUS
<1>1. /\ flushed' = {} /\ ensured' = FALSE /\ UNCHANGED <<stored, points, collected>>
      /\ torn' = torn \cup {request[r].doc : r \in
                               {q \in Requests : request[q].at \in {"commit", "delete"}}}
  BY DEF RestartApi
<1>2. CorpusTypes /\ Places /\ Distinct /\ Gathered
  BY DEF CorpusInv
<1>3. \A r \in Requests :
         request'[r] = IF request[r].at \in Answered \cup {"idle"} THEN request[r]
                       ELSE [request[r] EXCEPT !.at = "failed"]
  BY DEF RestartApi
<1>4. \A r \in Requests :
         /\ request'[r].text = request[r].text /\ request'[r].doc = request[r].doc
         /\ request'[r].at = IF request[r].at \in Answered \cup {"idle"} THEN request[r].at
                             ELSE "failed"
  BY <1>2, <1>3 DEF CorpusTypes
<1>5. CorpusTypes'
  <2>1. mishaps' \in [CorpusFaults -> Nat]
    BY <1>2, MishapType DEF RestartApi, CorpusFaults
  <2>2. torn' \subseteq Requests
    BY <1>1, <1>2 DEF CorpusTypes, Places, Place
  <2>3. request' \in [Requests -> [at : RequestPoints, text : Texts \cup {"none"},
                                  doc : Requests \cup {"none"}]]
    BY <1>2 DEF RestartApi, CorpusTypes, RequestPoints
  <2> QED
    BY <1>1, <1>2, <2>1, <2>2, <2>3 DEF CorpusTypes
<1>6. Places'
  <2> SUFFICES ASSUME NEW q \in Requests PROVE Place(q)'
    BY DEF Places
  <2>1. Place(q)
    BY <1>2 DEF Places
  <2>2. request'[q].at \in Answered \cup {"idle"}
    BY <1>4 DEF Answered
  <2> QED
    BY <1>1, <1>4, <2>1, <2>2 DEF Place, Answered
<1>7. Distinct'
  BY <1>1, <1>2, <1>4, DistinctStays DEF CorpusTypes
<1>8. Gathered'
  BY <1>1, <1>2 DEF Gathered
<1>9. ASSUME NEW d \in Requests PROVE Follows(d)'
  <2>1. Follows(d)
    BY DEF CorpusInv
  <2>2. UnderWay(d) => d \in torn'
    BY <1>1 DEF UnderWay
  <2> QED
    BY <1>1, <2>1, <2>2 DEF Follows
<1> QED
  BY <1>5, <1>6, <1>7, <1>8, <1>9 DEF CorpusInv

LEMMA CorpusInvStep == CorpusInv /\ [CorpusNext]_corpusVars => CorpusInv'
<1> SUFFICES ASSUME CorpusInv, [CorpusNext]_corpusVars PROVE CorpusInv'
  OBVIOUS
<1>1. ASSUME NEW r \in Requests, NEW text \in Texts, Submit(r, text) PROVE CorpusInv'
  BY <1>1, SubmitStep
<1>2. ASSUME NEW r \in Requests, FlushDocument(r) PROVE CorpusInv'
  BY <1>2, FlushDocumentStep
<1>3. ASSUME NEW r \in Requests, EnsureCollection(r) PROVE CorpusInv'
  BY <1>3, EnsureCollectionStep
<1>4. ASSUME NEW r \in Requests, CreateCollection(r) PROVE CorpusInv'
  BY <1>4, CreateCollectionStep
<1>5. ASSUME NEW r \in Requests, Upsert(r) PROVE CorpusInv'
  BY <1>5, UpsertStep
<1>6. ASSUME NEW r \in Requests, CommitDocument(r) PROVE CorpusInv'
  BY <1>6, CommitDocumentStep
<1>7. ASSUME NEW r \in Requests, NEW d \in Requests \ {r}, LoadDocument(r, d) PROVE CorpusInv'
  BY <1>7, LoadDocumentStep
<1>8. ASSUME NEW r \in Requests, Unindex(r) PROVE CorpusInv'
  BY <1>8, UnindexStep
<1>9. ASSUME NEW r \in Requests, CommitDelete(r) PROVE CorpusInv'
  BY <1>9, CommitDeleteStep
<1>10. ASSUME NEW r \in Requests, BeginSearch(r) PROVE CorpusInv'
  BY <1>10, BeginSearchStep
<1>11. ASSUME NEW r \in Requests, Search(r) \/ Retrieve(r) PROVE CorpusInv'
  BY <1>11, SearchStep
<1>12. CASE RestartApi
  BY <1>12, RestartApiStep
<1>13. CASE UNCHANGED corpusVars
  BY <1>13 DEF corpusVars, indexVars, CorpusInv, CorpusTypes, Places, Place, Distinct, Gathered,
               Follows, UnderWay
<1> QED
  BY <1>1, <1>2, <1>3, <1>4, <1>5, <1>6, <1>7, <1>8, <1>9, <1>10, <1>11, <1>12, <1>13
  DEF CorpusNext

THEOREM CorpusInvariant == CorpusSpec => []CorpusInv
BY CorpusInvInit, CorpusInvStep, PTL DEF CorpusSpec

LEMMA CorpusInvTypes == CorpusInv => CorpusTypeOK
<1> SUFFICES ASSUME CorpusInv PROVE CorpusTypeOK
  OBVIOUS
<1>1. CorpusTypes /\ Places /\ Distinct /\ Gathered
  BY DEF CorpusInv
<1>2. flushed \cap stored = {}
  BY <1>1 DEF CorpusTypes, Places, Place
<1>3. \A d \in points : Fits(request[d].text)
  BY <1>1, ChunkTextKeepsLetters DEF CorpusTypes, Places, Place
<1> QED
  BY <1>1, <1>2, <1>3 DEF CorpusTypeOK, CorpusTypes, Distinct, Gathered

LEMMA CorpusInvFollows == CorpusInv => IndexFollowsStore
<1> SUFFICES ASSUME CorpusInv, NEW d \in Requests
             PROVE  \/ Indexed(d) = IF d \in stored THEN Letters[request[d].text] ELSE {}
                    \/ UnderWay(d) \/ d \in torn
  BY DEF IndexFollowsStore
<1>1. Place(d) /\ Follows(d)
  BY DEF CorpusInv, Places
<1>2. d \in points => Found[request[d].text] = Letters[request[d].text]
  BY <1>1, ChunkTextKeepsLetters DEF Place
<1> QED
  BY <1>1, <1>2 DEF Follows, Indexed

THEOREM CorpusTypeCorrect == CorpusSpec => []CorpusTypeOK
BY CorpusInvariant, CorpusInvTypes, PTL

\* Whatever the texts, however many requests and faults there are, retrieval
\* finds every letter of the documents that are stored and none of others,
\* save those a request is at or failed on between the two stores:
\* api/v1/corpus.py, services/ingestion.py and services/vector_store.py.
THEOREM RetrievalFollowsStore == CorpusSpec => []IndexFollowsStore
BY CorpusInvariant, CorpusInvFollows, PTL

-----------------------------------------------------------------------------
(* Benchmarks: what the endpoint computes from the rows. Counting a list from *)
(* its end. *)

LEMMA SameCardinality ==
    ASSUME NEW A, IsFiniteSet(A), NEW B, NEW f \in [A -> B],
           \A x, y \in A : f[x] = f[y] => x = y,
           \A z \in B : \E x \in A : f[x] = z
    PROVE  Cardinality(B) = Cardinality(A)
<1>1. f \in Bijection(A, B)
  BY DEF Bijection, Injection, Surjection, IsInjective
<1> QED
  BY <1>1, FS_Bijection DEF ExistsBijection

LEMMA Upside ==
    ASSUME NEW n \in Nat, NEW i \in 1..n
    PROVE  n + 1 - i \in 1..n /\ n + 1 - (n + 1 - i) = i
  OBVIOUS

LEMMA MirrorCount ==
    ASSUME NEW n \in Nat, NEW A, A \subseteq 1..n,
           NEW B, B = {i \in 1..n : n + 1 - i \in A}
    PROVE  Cardinality(B) = Cardinality(A)
<1> DEFINE f == [a \in A |-> n + 1 - a]
<1>1. IsFiniteSet(A)
  <2>1. IsFiniteSet(1..n)
    BY FS_Interval
  <2> QED
    BY <2>1, FS_Subset
<1>2. \A i \in 1..n : n + 1 - i \in 1..n /\ n + 1 - (n + 1 - i) = i
  OBVIOUS
<1>3. \A a \in A : a \in 1..n /\ n + 1 - a \in B
  BY <1>2
<1>4. f \in [A -> B]
  BY <1>3
<1>5. \A x, y \in A : f[x] = f[y] => x = y
  BY <1>3
<1>6. \A z \in B : \E x \in A : f[x] = z
  <2> SUFFICES ASSUME NEW z \in B PROVE \E x \in A : f[x] = z
    OBVIOUS
  <2>1. n + 1 - z \in A /\ n + 1 - (n + 1 - z) = z
    BY <1>2
  <2> QED
    BY <2>1
<1> HIDE DEF f
<1> QED
  BY <1>1, <1>4, <1>5, <1>6, SameCardinality

\* t is r read from its end.
Mirrors(t, r, n) ==
    /\ n \in Nat /\ DOMAIN r = 1..n /\ DOMAIN t = 1..n
    /\ \A i \in 1..n : t[i] = r[n + 1 - i]
    /\ \A i \in 1..n : r[i].debug_iterations \in Nat

LEMMA MirrorSets ==
    ASSUME NEW t, NEW r, NEW n, Mirrors(t, r, n)
    PROVE  /\ Met(t) = {i \in 1..n : n + 1 - i \in Met(r)}
           /\ Succeeded(t) = {i \in 1..n : n + 1 - i \in Succeeded(r)}
           /\ FirstPass(t) = {i \in 1..n : n + 1 - i \in FirstPass(r)}
           /\ Replans(t) = {i \in 1..n : n + 1 - i \in Replans(r)}
           /\ LooksJudging(t) = {i \in 1..n : n + 1 - i \in LooksJudging(r)}
<1>1. n \in Nat /\ \A i \in 1..n : n + 1 - i \in 1..n
  BY Upside DEF Mirrors
<1> QED
  BY <1>1 DEF Mirrors, Met, Succeeded, FirstPass, Replans, LooksJudging

Iterations(r) == UNION {{i} \X (1..r[i].debug_iterations) : i \in Succeeded(r)}

LEMMA IterationsFinite ==
    ASSUME NEW r, NEW n \in Nat, DOMAIN r = 1..n,
           \A i \in 1..n : r[i].debug_iterations \in Nat
    PROVE  IsFiniteSet(Iterations(r))
<1> DEFINE S == Succeeded(r)
           of(i) == {i} \X (1..r[i].debug_iterations)
           f == [i \in S |-> of(i)]
           T == {of(i) : i \in S}
<1>1. IsFiniteSet(S) /\ S \subseteq 1..n
  <2>1. IsFiniteSet(1..n)
    BY FS_Interval
  <2>2. S \subseteq 1..n
    BY DEF Succeeded
  <2> HIDE DEF S
  <2> QED
    BY <2>1, <2>2, FS_Subset
<1>2. \A i \in S : IsFiniteSet(of(i))
  <2> SUFFICES ASSUME NEW i \in S PROVE IsFiniteSet(of(i))
    OBVIOUS
  <2>1. IsFiniteSet(1..r[i].debug_iterations)
    <3>1. r[i].debug_iterations \in Nat
      BY <1>1
    <3> QED
      BY <3>1, FS_Interval
  <2>2. IsFiniteSet({i})
    BY FS_Singleton
  <2> HIDE DEF S
  <2> QED
    BY <2>1, <2>2, FS_Product
<1> HIDE DEF S, of
<1>3. f \in Surjection(S, T)
  BY DEF Surjection
<1>4. IsFiniteSet(T)
  <2> HIDE DEF f, T
  <2> QED
    BY <1>1, <1>3, FS_Surjection
<1>5. \A x \in T : IsFiniteSet(x)
  BY <1>2
<1>6. IsFiniteSet(UNION T)
  <2> HIDE DEF T
  <2> QED
    BY <1>4, <1>5, FS_UNION
<1> QED
  BY <1>6 DEF Iterations, S, of

LEMMA MirrorSum ==
    ASSUME NEW t, NEW r, NEW n, Mirrors(t, r, n)
    PROVE  DebugSum(t) = DebugSum(r)
<1> DEFINE A == Iterations(r)
           B == Iterations(t)
           f == [p \in A |-> <<n + 1 - p[1], p[2]>>]
<1>1. n \in Nat /\ \A i \in 1..n : n + 1 - i \in 1..n /\ n + 1 - (n + 1 - i) = i
  BY Upside DEF Mirrors
<1>2. IsFiniteSet(A)
  BY IterationsFinite DEF Mirrors
<1>3. \A p : p \in A <=> /\ p = <<p[1], p[2]>> /\ p[1] \in 1..n /\ r[p[1]].outcome = "SUCCEEDED"
                         /\ p[2] \in 1..r[p[1]].debug_iterations
  BY DEF Iterations, Succeeded, Mirrors
<1>4. \A p : p \in B <=> /\ p = <<p[1], p[2]>> /\ p[1] \in 1..n /\ t[p[1]].outcome = "SUCCEEDED"
                         /\ p[2] \in 1..t[p[1]].debug_iterations
  BY DEF Iterations, Succeeded, Mirrors
<1>5. \A i \in 1..n : t[i] = r[n + 1 - i] /\ r[i] = t[n + 1 - i]
  BY <1>1 DEF Mirrors
<1> HIDE DEF A, B
<1>6. f \in [A -> B]
  <2>1. ASSUME NEW p \in A PROVE <<n + 1 - p[1], p[2]>> \in B
    BY <1>1, <1>3, <1>4, <1>5
  <2> QED
    BY <2>1
<1>7. \A x, y \in A : f[x] = f[y] => x = y
  <2> SUFFICES ASSUME NEW x \in A, NEW y \in A, f[x] = f[y] PROVE x = y
    OBVIOUS
  <2>1. n + 1 - x[1] = n + 1 - y[1] /\ x[2] = y[2]
    OBVIOUS
  <2>2. x = <<x[1], x[2]>> /\ y = <<y[1], y[2]>> /\ x[1] \in 1..n /\ y[1] \in 1..n
    BY <1>3
  <2>3. x[1] = y[1]
    BY <1>1, <2>1, <2>2
  <2> QED
    BY <2>1, <2>2, <2>3
<1>8. ASSUME NEW z \in B PROVE \E x \in A : f[x] = z
  <2> DEFINE x == <<n + 1 - z[1], z[2]>>
  <2>1. z = <<z[1], z[2]>> /\ z[1] \in 1..n
    BY <1>4
  <2>2. x \in A
    <3>1. r[n + 1 - z[1]] = t[z[1]] /\ n + 1 - z[1] \in 1..n
      BY <1>1, <1>5, <2>1
    <3> QED
      BY <1>3, <1>4, <3>1
  <2>3. f[x] = <<n + 1 - (n + 1 - z[1]), z[2]>>
    BY <2>2
  <2> QED
    BY <1>1, <2>1, <2>2, <2>3
<1> HIDE DEF f
<1>9. Cardinality(B) = Cardinality(A)
  BY <1>2, <1>6, <1>7, <1>8, SameCardinality
<1> QED
  BY <1>9 DEF A, B, DebugSum, Iterations

LEMMA MirrorKpis ==
    ASSUME NEW r, NEW S, r \in Seq(S), NEW t, Mirrors(t, r, Len(r))
    PROVE  /\ \A figure \in DOMAIN ReportKpis(r) \ {"traps"} :
                  ComputeKpis(t)[figure] = ReportKpis(r)[figure]
           /\ Judging(r) = LooksJudging(r) => ComputeKpis(t).traps = ReportKpis(r).traps
<1> DEFINE n == Len(r)
<1>1. n \in Nat /\ DOMAIN r = 1..n /\ Mirrors(t, r, n) /\ DOMAIN t = 1..n
  BY DEF Mirrors
<1> HIDE DEF n
<1>2. Met(r) \subseteq 1..n /\ Succeeded(r) \subseteq 1..n /\ FirstPass(r) \subseteq 1..n
      /\ Replans(r) \subseteq 1..n /\ LooksJudging(r) \subseteq 1..n
  BY <1>1 DEF Met, Succeeded, FirstPass, Replans, LooksJudging
<1>3. Cardinality(Met(t)) = Cardinality(Met(r))
  BY <1>1, <1>2, MirrorSets, MirrorCount
<1>4. Cardinality(Succeeded(t)) = Cardinality(Succeeded(r))
  BY <1>1, <1>2, MirrorSets, MirrorCount
<1>5. Cardinality(FirstPass(t)) = Cardinality(FirstPass(r))
  BY <1>1, <1>2, MirrorSets, MirrorCount
<1>6. DebugSum(t) = DebugSum(r) /\ Cardinality(Replans(t)) = Cardinality(Replans(r))
  BY <1>1, <1>2, MirrorSum, MirrorSets, MirrorCount
<1>7. Cardinality(DOMAIN t) = Len(r)
  <2>1. Cardinality(1..n) = n
    BY <1>1, FS_Interval
  <2> QED
    BY <1>1, <2>1 DEF n
<1>8. {t[i].case : i \in LooksJudging(t)} = {r[i].case : i \in LooksJudging(r)}
  <2>1. \A i \in 1..n : n + 1 - i \in 1..n /\ n + 1 - (n + 1 - i) = i
    BY <1>1, Upside
  <2>2. LooksJudging(t) = {i \in 1..n : n + 1 - i \in LooksJudging(r)}
    BY <1>1, MirrorSets
  <2>3. \A i \in 1..n : t[i] = r[n + 1 - i]
    BY <1>1 DEF Mirrors
  <2>4. ASSUME NEW i \in LooksJudging(t)
        PROVE  \E j \in LooksJudging(r) : r[j].case = t[i].case
    BY <2>2, <2>3
  <2>5. ASSUME NEW j \in LooksJudging(r)
        PROVE  \E i \in LooksJudging(t) : r[j].case = t[i].case
    <3>1. j \in 1..n
      BY <1>2
    <3>2. n + 1 - j \in LooksJudging(t) /\ t[n + 1 - j] = r[j]
      BY <2>1, <2>2, <2>3, <3>1
    <3> QED
      BY <3>2
  <2> QED
    BY <2>4, <2>5
<1>9. /\ ComputeKpis(t).traps = {t[i].case : i \in LooksJudging(t)}
      /\ ReportKpis(r).traps = {r[i].case : i \in Judging(r)}
  BY DEF ComputeKpis, ReportKpis
<1>10. /\ DOMAIN ReportKpis(r) =
             {"total", "met", "succeeded", "debug", "first_pass", "replan", "traps"}
       /\ ComputeKpis(t).total = ReportKpis(r).total
       /\ ComputeKpis(t).met = ReportKpis(r).met
       /\ ComputeKpis(t).succeeded = ReportKpis(r).succeeded
       /\ ComputeKpis(t).debug = ReportKpis(r).debug
       /\ ComputeKpis(t).first_pass = ReportKpis(r).first_pass
       /\ ComputeKpis(t).replan = ReportKpis(r).replan
  BY <1>3, <1>4, <1>5, <1>6, <1>7 DEF ComputeKpis, ReportKpis
<1> QED
  BY <1>8, <1>9, <1>10

\* A rising sequence of n of the numbers up to n is that of all of them.
LEMMA RisingIsAll ==
    ASSUME NEW n \in Nat, NEW g \in [1..n -> 1..n],
           \A i, j \in 1..n : i < j => g[i] < g[j]
    PROVE  \A i \in 1..n : g[i] = i
<1>1. \A i \in 1..n : g[i] \in Nat /\ i \in Nat /\ g[i] <= n
  OBVIOUS
<1>2. ASSUME NEW i \in 1..n PROVE g[i] >= i
  <2> DEFINE U == {k \in 1..n : ~(g[k] >= k)}
  <2> SUFFICES ASSUME U # {} PROVE FALSE
    OBVIOUS
  <2>1. PICK m \in U : \A k \in U : m <= k
    <3>1. U \in SUBSET Nat
      OBVIOUS
    <3> HIDE DEF U
    <3> QED
      BY <3>1, LeastNat
  <2>2. m \in 1..n /\ ~(g[m] >= m) /\ g[m] \in 1..n
    BY <2>1
  <2>3. m - 1 \in 1..n /\ ~(m <= m - 1) /\ m - 1 < m
    BY <2>2
  <2>4. m - 1 \notin U
    BY <2>1, <2>3
  <2>5. g[m - 1] >= m - 1 /\ g[m - 1] < g[m] /\ g[m - 1] \in Nat
    BY <2>2, <2>3, <2>4
  <2> QED
    BY <2>2, <2>5
<1>3. ASSUME NEW i \in 1..n PROVE g[i] <= i
  <2> DEFINE U == {k \in 1..n : ~(g[k] <= k)}
  <2> SUFFICES ASSUME U # {} PROVE FALSE
    OBVIOUS
  <2>1. PICK m \in U : \A k \in U : k <= m
    <3>1. U \in SUBSET Nat /\ \A k \in U : k <= n
      OBVIOUS
    <3> HIDE DEF U
    <3> QED
      BY <3>1, GreatestNat
  <2>2. m \in 1..n /\ ~(g[m] <= m) /\ g[m] \in 1..n
    BY <2>1
  <2>3. m + 1 \in 1..n /\ ~(m + 1 <= m) /\ m < m + 1
    BY <2>2
  <2>4. m + 1 \notin U
    BY <2>1, <2>3
  <2>5. g[m + 1] <= m + 1 /\ g[m] < g[m + 1] /\ g[m + 1] \in Nat
    BY <2>2, <2>3, <2>4
  <2> QED
    BY <2>2, <2>5
<1> QED
  BY <1>1, <1>2, <1>3

\* r has a result for each case, and a table of n rows or more begins with its
\* results, read from the end.
OncePerCase(r, n) ==
    /\ n \in Nat /\ DOMAIN r = 1..n
    /\ \A i \in 1..n : r[i].debug_iterations \in Nat
    /\ \A i, j \in 1..n : r[i].case = r[j].case => i = j

BeginsWith(table, m, r, n) ==
    /\ m \in Nat /\ n <= m /\ DOMAIN table = 1..m
    /\ \A i \in 1..n : table[i] = r[n + 1 - i]
    /\ \A i \in 1..m : \E k \in 1..n : r[k].case = table[i].case

\* What is left of such a table is those results.
LEMMA DeduplicateLeaves ==
    ASSUME NEW r, NEW n, OncePerCase(r, n), NEW table, NEW m, BeginsWith(table, m, r, n)
    PROVE  Mirrors(Deduplicate(table), r, n)
<1> USE DEF OncePerCase, BeginsWith
<1> DEFINE kept == {i \in 1..m : \A j \in 1..m : table[j].case = table[i].case => i <= j}
<1>1. \A i \in 1..n : i \in 1..m /\ n + 1 - i \in 1..n /\ n + 1 - (n + 1 - i) = i
  OBVIOUS
<1>2. ASSUME NEW i \in 1..n PROVE i \in kept
  <2> SUFFICES ASSUME NEW j \in 1..m, table[j].case = table[i].case, ~(i <= j) PROVE FALSE
    BY <1>1
  <2>1. j \in 1..n
    OBVIOUS
  <2>2. n + 1 - i \in 1..n /\ n + 1 - j \in 1..n
    BY <1>1, <2>1
  <2>3. r[n + 1 - j].case = r[n + 1 - i].case
    <3>1. table[j] = r[n + 1 - j] /\ table[i] = r[n + 1 - i]
      BY <2>1
    <3> QED
      BY <3>1
  <2>4. n + 1 - j = n + 1 - i
    <3> DEFINE a == n + 1 - j
               b == n + 1 - i
    <3> HIDE DEF a, b
    <3>1. a \in 1..n /\ b \in 1..n /\ r[a].case = r[b].case
      BY <2>2, <2>3 DEF a, b
    <3>2. a = b
      BY <3>1
    <3> QED
      BY <3>2 DEF a, b
  <2> QED
    BY <2>4
<1>3. ASSUME NEW i \in kept PROVE i \in 1..n
  <2>1. PICK k \in 1..n : r[k].case = table[i].case
    OBVIOUS
  <2>2. n + 1 - k \in 1..n /\ table[n + 1 - k] = r[k]
    BY <1>1
  <2>3. i <= n + 1 - k
    BY <1>1, <2>1, <2>2
  <2> QED
    BY <2>2, <2>3
<1>4. kept = 1..n
  BY <1>2, <1>3
<1>5. Deduplicate(table) = [i \in kept |-> table[i]]
  BY DEF Deduplicate
<1> HIDE DEF kept
<1> QED
  BY <1>4, <1>5 DEF Mirrors

-----------------------------------------------------------------------------
(* The runner and its rows *)

Results ==
    {ScoreCase(c, state) : c \in CaseIds, state \in FinalStates} \cup {Raised(c) : c \in CaseIds}

Asked == {Cases} \cup {<<c>> : c \in CaseIds}

\* The cases that have run and those still to run are, in order, those asked for.
Along(q, asked) ==
    /\ Len(q.results) + Len(q.todo) = Len(asked)
    /\ \A i \in 1..Len(q.results) : q.results[i].case = asked[i]
    /\ \A i \in 1..Len(q.todo) : q.todo[i] = asked[Len(q.results) + i]

Task ==
    [at : {"idle", "create", "graph", "persist", "done", "dead"},
     todo : Seq(CaseIds), results : Seq(Results)]

SuiteInv(q) ==
    /\ q \in Task
    /\ q.at = "idle" => q.results = <<>>
    /\ q.at \in {"create", "graph"} => q.todo # <<>>
    /\ q.at = "persist" => q.results # <<>>
    /\ q.at # "idle" => \E asked \in Asked : Along(q, asked)

SuitesInv ==
    /\ DOMAIN suite = Suites /\ suite = [s \in Suites |-> suite[s]]
    /\ \A s \in Suites : SuiteInv(suite[s])

LEMMA AskedType ==
    ASSUME NEW asked \in Asked
    PROVE  /\ asked \in Seq(CaseIds) /\ asked # <<>>
           /\ \A i, j \in 1..Len(asked) : asked[i] = asked[j] => i = j
           /\ Len(asked) = Len(Cases) => \A c \in CaseIds : \E i \in 1..Len(asked) : asked[i] = c
<1>1. Cases \in Seq(CaseIds) /\ Cases # <<>> /\ DOMAIN Cases = 1..Len(Cases)
  BY CasesAssumption DEF CaseIds
<1>2. CASE asked = Cases
  BY <1>1, <1>2, CasesAssumption DEF CaseIds
<1>3. ASSUME NEW c \in CaseIds, asked = <<c>>
      PROVE  /\ asked \in Seq(CaseIds) /\ asked # <<>>
             /\ \A i, j \in 1..Len(asked) : asked[i] = asked[j] => i = j
             /\ Len(asked) = Len(Cases) =>
                    \A d \in CaseIds : \E i \in 1..Len(asked) : asked[i] = d
  <2>1. asked \in Seq(CaseIds) /\ asked # <<>> /\ Len(asked) = 1 /\ asked[1] = c
    BY <1>3
  <2>2. ASSUME Len(Cases) = 1, NEW d \in CaseIds PROVE d = c
    BY <1>1, <2>2 DEF CaseIds
  <2> QED
    BY <2>1, <2>2
<1> QED
  BY <1>2, <1>3 DEF Asked

LEMMA ResultCase ==
    /\ \A c, state : ScoreCase(c, state).case = c
    /\ \A c : Raised(c).case = c
    /\ \A r \in Results : r.debug_iterations \in Nat /\ r.case \in CaseIds
BY FinalStatesAssumption DEF ScoreCase, Raised, Results

LEMMA Started ==
    ASSUME NEW q, SuiteInv(q), q.at = "idle", NEW asked \in Asked
    PROVE  SuiteInv([q EXCEPT !.at = "create", !.todo = asked])
<1> DEFINE n == [q EXCEPT !.at = "create", !.todo = asked]
<1>1. asked \in Seq(CaseIds) /\ asked # <<>>
  BY AskedType
<1>2. n \in Task /\ n.at = "create" /\ n.todo = asked /\ n.results = <<>>
  BY <1>1 DEF SuiteInv, Task
<1> HIDE DEF n
<1>3. Along(n, asked)
  BY <1>1, <1>2 DEF Along
<1> QED
  BY <1>1, <1>2, <1>3 DEF SuiteInv, n

LEMMA Moved ==
    ASSUME NEW q, SuiteInv(q), q.at # "idle",
           NEW at \in {"create", "graph", "persist", "done", "dead"},
           at \in {"create", "graph"} => q.todo # <<>>,
           at = "persist" => q.results # <<>>
    PROVE  SuiteInv([q EXCEPT !.at = at])
<1> DEFINE n == [q EXCEPT !.at = at]
<1>1. n \in Task /\ n.at = at /\ n.todo = q.todo /\ n.results = q.results
  BY DEF SuiteInv, Task
<1> HIDE DEF n
<1> QED
  BY <1>1 DEF SuiteInv, Along, n

LEMMA Ran ==
    ASSUME NEW q, SuiteInv(q), q.at = "graph", NEW r \in Results, r.case = Head(q.todo)
    PROVE  SuiteInv([q EXCEPT !.at = "persist", !.todo = Tail(@), !.results = Append(@, r)])
<1> DEFINE n == [q EXCEPT !.at = "persist", !.todo = Tail(@), !.results = Append(@, r)]
<1>1. q \in Task /\ q.todo \in Seq(CaseIds) /\ q.todo # <<>> /\ q.results \in Seq(Results)
  BY DEF SuiteInv, Task
<1>2. Tail(q.todo) \in Seq(CaseIds) /\ Append(q.results, r) \in Seq(Results)
  BY <1>1
<1>3. n \in Task /\ n.at = "persist" /\ n.todo = Tail(q.todo) /\ n.results = Append(q.results, r)
  BY <1>1, <1>2 DEF Task
<1> HIDE DEF n
<1>4. PICK asked \in Asked : Along(q, asked)
  BY DEF SuiteInv
<1> DEFINE a == Len(q.results)
           b == Len(q.todo)
<1>5. /\ a \in Nat /\ b \in Nat /\ b > 0 /\ Head(q.todo) = q.todo[1]
      /\ Len(n.todo) = b - 1 /\ Len(n.results) = a + 1
      /\ \A i \in 1..a : n.results[i] = q.results[i]
      /\ n.results[a + 1] = r
      /\ \A i \in 1..(b - 1) : n.todo[i] = q.todo[i + 1]
  BY <1>1, <1>3
<1>6. /\ a + b = Len(asked)
      /\ \A i \in 1..a : q.results[i].case = asked[i]
      /\ \A i \in 1..b : q.todo[i] = asked[a + i]
  BY <1>4 DEF Along
<1> HIDE DEF a, b
<1>7. (a + 1) + (b - 1) = Len(asked)
  <2>1. a \in Nat /\ b \in Nat
    BY <1>5
  <2>2. (a + 1) + (b - 1) = a + b
    BY <2>1
  <2> QED
    BY <1>6, <2>2
<1>8. ASSUME NEW i \in 1..(a + 1) PROVE n.results[i].case = asked[i]
  <2>1. CASE i = a + 1
    BY <1>5, <1>6, <2>1
  <2>2. CASE i # a + 1
    <3>1. i \in 1..a
      BY <1>5, <2>2
    <3> QED
      BY <1>5, <1>6, <3>1
  <2> QED
    BY <2>1, <2>2
<1>9. ASSUME NEW i \in 1..(b - 1) PROVE n.todo[i] = asked[(a + 1) + i]
  <2>1. i + 1 \in 1..b /\ a + (i + 1) = (a + 1) + i
    BY <1>5
  <2> QED
    BY <1>5, <1>6, <2>1
<1>10. Along(n, asked)
  BY <1>5, <1>7, <1>8, <1>9 DEF Along
<1>11. n.results # <<>>
  BY <1>1, <1>3
<1> QED
  BY <1>3, <1>10, <1>11 DEF SuiteInv, n

LEMMA SuiteStep ==
    ASSUME SuitesInv, [BenchNext]_benchVars
    PROVE  SuitesInv'
<1> USE DEF SuitesInv
<1>1. ASSUME NEW s \in Suites, NEW asked \in Asked,
             suite[s].at = "idle",
             suite' = [suite EXCEPT ![s].at = "create", ![s].todo = asked]
      PROVE  SuitesInv'
  <2>1. SuiteInv([suite[s] EXCEPT !.at = "create", !.todo = asked])
    BY <1>1, Started
  <2>2. suite' = [suite EXCEPT ![s] = [suite[s] EXCEPT !.at = "create", !.todo = asked]]
    BY <1>1
  <2> QED
    BY <2>1, <2>2
<1>2. ASSUME NEW s \in Suites, CreateTaskRow(s)
      PROVE  SuitesInv'
  <2>1. SuiteInv([suite[s] EXCEPT !.at = "graph"])
    BY <1>2, Moved DEF CreateTaskRow, SuiteInv
  <2>2. suite' = [suite EXCEPT ![s] = [suite[s] EXCEPT !.at = "graph"]]
    BY <1>2 DEF CreateTaskRow
  <2> QED
    BY <2>1, <2>2
<1>3. ASSUME NEW s \in Suites, RunCase(s)
      PROVE  SuitesInv'
  <2>1. PICK r \in Results :
            /\ r.case = Head(suite[s].todo) /\ suite[s].at = "graph"
            /\ suite' = [suite EXCEPT ![s].at = "persist", ![s].todo = Tail(@),
                                      ![s].results = Append(@, r)]
    <3>1. Head(suite[s].todo) \in CaseIds
      <4>1. suite[s].todo \in Seq(CaseIds) /\ suite[s].todo # <<>>
        BY <1>3 DEF RunCase, SuiteInv, Task
      <4> QED
        BY <4>1
    <3>2. ASSUME NEW state \in FinalStates
          PROVE  /\ ScoreCase(Head(suite[s].todo), state) \in Results
                 /\ ScoreCase(Head(suite[s].todo), state).case = Head(suite[s].todo)
      BY <3>1, ResultCase DEF Results
    <3>3. /\ Raised(Head(suite[s].todo)) \in Results
          /\ Raised(Head(suite[s].todo)).case = Head(suite[s].todo)
      BY <3>1, ResultCase DEF Results
    <3> QED
      BY <1>3, <3>2, <3>3 DEF RunCase
  <2>2. SuiteInv([suite[s] EXCEPT !.at = "persist", !.todo = Tail(@), !.results = Append(@, r)])
    BY <2>1, Ran
  <2>3. suite' = [suite EXCEPT ![s] = [suite[s] EXCEPT !.at = "persist", !.todo = Tail(@),
                                                       !.results = Append(@, r)]]
    BY <2>1
  <2> QED
    BY <2>2, <2>3
<1>4. ASSUME NEW s \in Suites, PersistResult(s)
      PROVE  SuitesInv'
  <2> DEFINE at == IF suite[s].todo = <<>> THEN "done" ELSE "create"
  <2>1. SuiteInv([suite[s] EXCEPT !.at = at])
    BY <1>4, Moved DEF PersistResult
  <2>2. suite' = [suite EXCEPT ![s] = [suite[s] EXCEPT !.at = at]]
    BY <1>4 DEF PersistResult
  <2> QED
    BY <2>1, <2>2
<1>5. CASE RestartRunner
  <2>1. \A s \in Suites : suite[s].at # "idle" => SuiteInv([suite[s] EXCEPT !.at = "dead"])
    BY Moved
  <2> QED
    BY <1>5, <2>1 DEF RestartRunner
<1>6. ASSUME UNCHANGED suite
      PROVE  SuitesInv'
  BY <1>6
<1> QED
  BY <1>1, <1>2, <1>3, <1>4, <1>5, <1>6
  DEF BenchNext, PostRun, RunSuite, ReapTask, benchVars, Asked

\* How many of its results a task may have written a row for.
Told(q) == IF q.at = "persist" THEN Len(q.results) - 1 ELSE Len(q.results)

Alive == {"create", "graph", "persist", "done"}

BenchRow == [suite : Suites, result : Results]

\* The i-th row is the rank[i]-th result of its task; a task's rows are in the
\* order of its results, and while none was lost, none is missing.
Ranked(rank, rows, run, gone) ==
    /\ rows \in Seq(BenchRow)
    /\ rank \in [1..Len(rows) -> Nat]
    /\ \A i \in 1..Len(rows) :
          /\ rank[i] \in 1..Told(run[rows[i].suite])
          /\ rows[i].result = run[rows[i].suite].results[rank[i]]
    /\ \A i, j \in 1..Len(rows) :
          i < j /\ rows[i].suite = rows[j].suite => rank[i] < rank[j]
    /\ \A s \in Suites \ gone :
          run[s].at \in Alive =>
              \A k \in 1..Told(run[s]) :
                  \E i \in 1..Len(rows) : rows[i].suite = s /\ rank[i] = k

BenchInv == SuitesInv /\ \E rank : Ranked(rank, recorded, suite, lost)

\* What a step that writes no row does to a task.
Grows(q, n) == Told(n) >= Told(q) /\ \A k \in 1..Told(q) : n.results[k] = q.results[k]

Keeps(q, n) ==
    /\ Grows(q, n)
    /\ n.at \in Alive => Told(n) = 0 \/ (q.at \in Alive /\ Told(n) = Told(q))

LEMMA ToldType ==
    ASSUME NEW q, SuiteInv(q)
    PROVE  /\ Told(q) \in Nat /\ Told(q) <= Len(q.results) /\ Len(q.results) \in Nat
           /\ q.at = "idle" => Told(q) = 0
           /\ q.at = "persist" => Told(q) + 1 = Len(q.results)
<1>1. q.results \in Seq(Results) /\ Len(q.results) \in Nat
  BY DEF SuiteInv, Task
<1>2. q.results # <<>> => Len(q.results) > 0
  BY <1>1
<1> QED
  BY <1>1, <1>2 DEF Told, SuiteInv

LEMMA KeepsSelf == ASSUME NEW q, SuiteInv(q) PROVE Keeps(q, q)
BY ToldType DEF Keeps, Grows

LEMMA TaskKeeps ==
    ASSUME SuitesInv,
           \/ \E s \in Suites : PostRun(s) \/ CreateTaskRow(s) \/ RunCase(s)
           \/ \E s \in Suites, case \in CaseIds : ReapTask(s, case)
           \/ RestartRunner \/ UNCHANGED benchVars,
           NEW p \in Suites, NEW q, q = suite[p]
    PROVE  Keeps(q, suite'[p])
<1>1. SuiteInv(q) /\ q \in Task /\ suite = [s \in Suites |-> suite[s]]
  BY DEF SuitesInv, SuiteInv
<1>2. /\ Told(q) \in Nat /\ Told(q) <= Len(q.results) /\ Len(q.results) \in Nat
      /\ q.at = "idle" => Told(q) = 0
      /\ q.at = "persist" => Told(q) + 1 = Len(q.results)
  BY <1>1, ToldType
<1>3. CASE suite'[p] = q
  BY <1>1, <1>3, KeepsSelf
<1>4. ASSUME NEW asked, q.at = "idle",
             suite' = [suite EXCEPT ![p].at = "create", ![p].todo = asked]
      PROVE  Keeps(q, suite'[p])
  <2>1. suite'[p] = [q EXCEPT !.at = "create", !.todo = asked]
    BY <1>1, <1>4
  <2>2. suite'[p].at = "create" /\ suite'[p].results = q.results
    BY <1>1, <2>1 DEF Task
  <2>3. q.results = <<>> /\ Told(suite'[p]) = 0 /\ Told(q) = 0
    BY <1>1, <1>2, <1>4, <2>2 DEF SuiteInv, Told
  <2> QED
    BY <2>2, <2>3 DEF Keeps, Grows
<1>5. CASE q.at = "create" /\ suite' = [suite EXCEPT ![p].at = "graph"]
  <2>1. suite'[p].at = "graph" /\ suite'[p].results = q.results
    BY <1>1, <1>5 DEF Task
  <2> QED
    BY <1>2, <1>5, <2>1 DEF Keeps, Grows, Told, Alive
<1>6. ASSUME NEW r, q.at = "graph",
             suite' = [suite EXCEPT ![p].at = "persist", ![p].todo = Tail(@),
                                    ![p].results = Append(@, r)]
      PROVE  Keeps(q, suite'[p])
  <2>1. suite'[p] = [q EXCEPT !.at = "persist", !.todo = Tail(@), !.results = Append(@, r)]
    BY <1>1, <1>6
  <2>2. suite'[p].at = "persist" /\ suite'[p].results = Append(q.results, r)
    BY <1>1, <2>1 DEF Task
  <2>3. q.results \in Seq(Results)
    BY <1>1 DEF Task
  <2>4. /\ Len(suite'[p].results) = Len(q.results) + 1
        /\ \A k \in 1..Len(q.results) : suite'[p].results[k] = q.results[k]
    BY <2>2, <2>3
  <2>5. Told(q) = Len(q.results) /\ Told(suite'[p]) = Len(q.results)
    <3>1. (Len(q.results) + 1) - 1 = Len(q.results)
      BY <1>2
    <3>2. Told(q) = Len(q.results)
      BY <1>6 DEF Told
    <3>3. Told(suite'[p]) = (Len(q.results) + 1) - 1
      BY <2>2, <2>4 DEF Told
    <3> QED
      BY <3>1, <3>2, <3>3
  <2> QED
    BY <1>2, <1>6, <2>4, <2>5 DEF Keeps, Grows, Alive
<1>7. CASE RestartRunner /\ suite'[p] # q
  <2>1. suite'[p] = [q EXCEPT !.at = "dead"]
    BY <1>7 DEF RestartRunner
  <2>2. suite'[p].at = "dead" /\ suite'[p].results = q.results
    BY <1>1, <2>1 DEF Task
  <2> QED
    BY <1>2, <2>2 DEF Keeps, Grows, Told, Alive
<1>8. ASSUME NEW s \in Suites, s # p, PostRun(s) \/ CreateTaskRow(s) \/ RunCase(s)
      PROVE  suite'[p] = q
  BY <1>1, <1>8 DEF PostRun, CreateTaskRow, RunCase
<1>9. ASSUME PostRun(p) \/ CreateTaskRow(p) \/ RunCase(p)
      PROVE  Keeps(q, suite'[p])
  BY <1>4, <1>5, <1>6, <1>9 DEF PostRun, CreateTaskRow, RunCase
<1>10. CASE (\E s \in Suites, case \in CaseIds : ReapTask(s, case)) \/ UNCHANGED benchVars
  BY <1>3, <1>10 DEF ReapTask, benchVars
<1>11. ASSUME NEW s \in Suites, PostRun(s) \/ CreateTaskRow(s) \/ RunCase(s)
       PROVE  Keeps(q, suite'[p])
  BY <1>3, <1>8, <1>9, <1>11
<1> QED
  BY <1>3, <1>7, <1>10, <1>11

LEMMA BenchRowsType ==
    ASSUME NEW rows \in Seq(BenchRow)
    PROVE  \A i \in 1..Len(rows) : rows[i].suite \in Suites /\ rows[i].result \in Results
<1>1. \A i \in 1..Len(rows) : rows[i] \in BenchRow
  OBVIOUS
<1> QED
  BY <1>1 DEF BenchRow

LEMMA RankedKept ==
    ASSUME NEW rank, NEW rows, NEW gone, NEW old, Ranked(rank, rows, old, gone),
           NEW run,
           \A s \in Suites :
               Told(old[s]) \in Nat /\ Told(run[s]) \in Nat /\ Grows(old[s], run[s]),
           \A s \in Suites \ gone : Keeps(old[s], run[s])
    PROVE  Ranked(rank, rows, run, gone)
<1>1. \A i \in 1..Len(rows) : rows[i].suite \in Suites
  BY BenchRowsType DEF Ranked
<1>2. ASSUME NEW i \in 1..Len(rows)
      PROVE  /\ rank[i] \in 1..Told(run[rows[i].suite])
             /\ rows[i].result = run[rows[i].suite].results[rank[i]]
  <2> DEFINE a == Told(old[rows[i].suite])
             b == Told(run[rows[i].suite])
  <2>1. rank[i] \in 1..a /\ rows[i].result = old[rows[i].suite].results[rank[i]]
    BY DEF Ranked
  <2>2. a \in Nat /\ b \in Nat /\ b >= a
    BY <1>1 DEF Keeps, Grows
  <2>3. run[rows[i].suite].results[rank[i]] = old[rows[i].suite].results[rank[i]]
    BY <1>1, <2>1 DEF Keeps, Grows
  <2> HIDE DEF a, b
  <2>4. rank[i] \in 1..b
    BY <2>1, <2>2
  <2> QED
    BY <2>1, <2>3, <2>4 DEF b
<1>3. ASSUME NEW s \in Suites \ gone, run[s].at \in Alive, NEW k \in 1..Told(run[s])
      PROVE  \E i \in 1..Len(rows) : rows[i].suite = s /\ rank[i] = k
  <2>1. Keeps(old[s], run[s])
    OBVIOUS
  <2>2. Told(run[s]) # 0
    BY <1>3
  <2>3. old[s].at \in Alive /\ Told(run[s]) = Told(old[s])
    BY <1>3, <2>1, <2>2 DEF Keeps, Grows
  <2> QED
    BY <1>3, <2>3 DEF Ranked
<1> QED
  BY <1>2, <1>3 DEF Ranked

\* A row more: the last result of its task.
LEMMA RankedMore ==
    ASSUME NEW rank, NEW rows, NEW gone, NEW old, Ranked(rank, rows, old, gone),
           NEW s \in Suites, NEW run, NEW result \in Results, NEW n \in Nat,
           \A t \in Suites : t # s => run[t] = old[t],
           old[s].at = "persist", run[s].results = old[s].results,
           Told(old[s]) = n, Told(run[s]) = n + 1, result = run[s].results[n + 1]
    PROVE  \E new : Ranked(new, Append(rows, [suite |-> s, result |-> result]), run, gone)
<1> DEFINE m == Len(rows)
           row == [suite |-> s, result |-> result]
           more == Append(rows, row)
           new == [i \in 1..(m + 1) |-> IF i = m + 1 THEN n + 1 ELSE rank[i]]
<1>1. rows \in Seq(BenchRow) /\ rank \in [1..m -> Nat] /\ row \in BenchRow /\ m \in Nat
  BY DEF Ranked, BenchRow
<1> HIDE DEF row
<1>2. /\ more \in Seq(BenchRow) /\ Len(more) = m + 1 /\ more[m + 1] = row
      /\ \A i \in 1..m : more[i] = rows[i]
  BY <1>1
<1> HIDE DEF m, more
<1>3. \A i \in 1..(m + 1) : i = m + 1 \/ (i \in 1..m /\ i # m + 1)
  BY <1>1
<1>4. new \in [1..(m + 1) -> Nat]
  BY <1>1, <1>3
<1>5. \A i \in 1..m : new[i] = rank[i] /\ i \in 1..(m + 1)
  BY <1>1
<1>6. new[m + 1] = n + 1
  BY <1>1
<1> HIDE DEF new
<1>7. ASSUME NEW i \in 1..m
      PROVE  /\ new[i] \in 1..Told(run[more[i].suite])
             /\ more[i].result = run[more[i].suite].results[new[i]]
             /\ more[i].suite = s => new[i] < n + 1
  <2>1. /\ rank[i] \in 1..Told(old[rows[i].suite])
        /\ rows[i].result = old[rows[i].suite].results[rank[i]]
        /\ rows[i].suite \in Suites
    BY <1>1, BenchRowsType DEF Ranked, m
  <2>2. CASE rows[i].suite = s
    <3>1. rank[i] \in 1..n
      BY <2>1, <2>2
    <3>2. rank[i] \in 1..(n + 1) /\ rank[i] < n + 1
      BY <3>1
    <3> QED
      BY <1>2, <1>5, <2>1, <2>2, <3>2
  <2>3. CASE rows[i].suite # s
    BY <1>2, <1>5, <2>1, <2>3
  <2> QED
    BY <2>2, <2>3
<1>8. more[m + 1].suite = s /\ more[m + 1].result = result
  BY <1>2 DEF row
<1>9. n + 1 \in 1..(n + 1)
  OBVIOUS
<1>10. ASSUME NEW i \in 1..(m + 1)
       PROVE  /\ new[i] \in 1..Told(run[more[i].suite])
              /\ more[i].result = run[more[i].suite].results[new[i]]
  BY <1>3, <1>6, <1>7, <1>8, <1>9
<1>11. ASSUME NEW i \in 1..(m + 1), NEW j \in 1..(m + 1), i < j,
              more[i].suite = more[j].suite
       PROVE  new[i] < new[j]
  <2>1. i \in 1..m
    BY <1>1, <1>11
  <2>2. CASE j = m + 1
    BY <1>6, <1>7, <1>8, <1>11, <2>1, <2>2
  <2>3. CASE j \in 1..m
    BY <1>2, <1>5, <1>11, <2>1, <2>3 DEF Ranked, m
  <2> QED
    BY <1>3, <2>2, <2>3
<1>12. ASSUME NEW t \in Suites \ gone, run[t].at \in Alive, NEW k \in 1..Told(run[t])
       PROVE  \E i \in 1..(m + 1) : more[i].suite = t /\ new[i] = k
  <2>1. CASE t # s
    <3>1. \E i \in 1..m : rows[i].suite = t /\ rank[i] = k
      BY <1>12, <2>1 DEF Ranked, m
    <3> QED
      BY <1>2, <1>5, <3>1
  <2>2. CASE t = s /\ k = n + 1
    <3>1. m + 1 \in 1..(m + 1)
      BY <1>1
    <3> QED
      BY <1>6, <1>8, <2>2, <3>1
  <2>3. CASE t = s /\ k # n + 1
    <3>1. k \in 1..n
      BY <1>12, <2>3
    <3>2. \E i \in 1..m : rows[i].suite = t /\ rank[i] = k
      BY <2>3, <3>1 DEF Ranked, Alive, m
    <3> QED
      BY <1>2, <1>5, <3>2
  <2> QED
    BY <2>1, <2>2, <2>3
<1>13. Ranked(new, more, run, gone)
  BY <1>2, <1>4, <1>10, <1>11, <1>12 DEF Ranked
<1> QED
  BY <1>13 DEF more, row

LEMMA BenchStep == BenchInv /\ [BenchNext]_benchVars => BenchInv'
<1> SUFFICES ASSUME BenchInv, [BenchNext]_benchVars PROVE BenchInv'
  OBVIOUS
<1>1. SuitesInv /\ SuitesInv'
  BY SuiteStep DEF BenchInv
<1>2. PICK rank : Ranked(rank, recorded, suite, lost)
  BY DEF BenchInv
<1>3. \A s \in Suites : Told(suite[s]) \in Nat /\ Told(suite'[s]) \in Nat
  <2>1. ASSUME NEW s \in Suites PROVE Told(suite[s]) \in Nat
    BY <1>1, ToldType DEF SuitesInv
  <2>2. ASSUME NEW s \in Suites PROVE Told(suite'[s]) \in Nat
    BY <1>1, ToldType DEF SuitesInv
  <2> QED
    BY <2>1, <2>2
<1>4. CASE \/ \E s \in Suites : PostRun(s) \/ CreateTaskRow(s) \/ RunCase(s)
           \/ \E s \in Suites, case \in CaseIds : ReapTask(s, case)
           \/ RestartRunner \/ UNCHANGED benchVars
  <2>1. \A s \in Suites : Keeps(suite[s], suite'[s])
    BY <1>1, <1>4, TaskKeeps
  <2>2. recorded' = recorded /\ lost' = lost
    BY <1>4 DEF PostRun, CreateTaskRow, RunCase, ReapTask, RestartRunner, benchVars
  <2>3. Ranked(rank, recorded, suite', lost)
    BY <1>2, <1>3, <2>1, RankedKept DEF Keeps
  <2> QED
    BY <1>1, <2>2, <2>3 DEF BenchInv
<1>5. ASSUME NEW s \in Suites, PersistResult(s)
      PROVE  BenchInv'
  <2> DEFINE L == Len(suite[s].results)
             result == suite[s].results[L]
  <2>1. /\ suite[s].at = "persist" /\ suite[s] \in Task /\ suite[s].results \in Seq(Results)
        /\ suite = [t \in Suites |-> suite[t]]
    BY <1>1, <1>5 DEF PersistResult, SuitesInv, SuiteInv, Task
  <2>2. L \in Nat /\ L > 0 /\ Told(suite[s]) = L - 1
    BY <1>1, <2>1, ToldType DEF SuitesInv, Told
  <2>3. /\ \A t \in Suites : t # s => suite'[t] = suite[t]
        /\ suite'[s].results = suite[s].results
        /\ suite'[s].at \in {"done", "create"}
    BY <1>5, <2>1 DEF PersistResult, Task
  <2>4. Told(suite'[s]) = L
    BY <2>3 DEF Told
  <2>5. result \in Results /\ L - 1 \in Nat /\ (L - 1) + 1 = L
    BY <2>1, <2>2
  <2> HIDE DEF L
  <2>6. CASE recorded' = Append(recorded, [suite |-> s, result |-> result]) /\ lost' = lost
    <3>1. \E new : Ranked(new, Append(recorded, [suite |-> s, result |-> result]), suite', lost)
      BY <1>2, <2>1, <2>2, <2>3, <2>4, <2>5, RankedMore
    <3> QED
      BY <1>1, <2>6, <3>1 DEF BenchInv
  <2>7. CASE lost' = lost \cup {s} /\ recorded' = recorded
    <3>1. Ranked(rank, recorded, suite, lost \cup {s})
      BY <1>2 DEF Ranked
    <3>2. Ranked(rank, recorded, suite', lost \cup {s})
      <4>1. Grows(suite[s], suite'[s])
        BY <2>2, <2>3, <2>4 DEF Grows
      <4>2. \A t \in Suites : t # s => Keeps(suite[t], suite'[t])
        BY <1>1, <2>3, KeepsSelf DEF SuitesInv
      <4> QED
        BY <1>3, <3>1, <4>1, <4>2, RankedKept DEF Keeps
    <3> QED
      BY <1>1, <2>7, <3>2 DEF BenchInv
  <2> QED
    BY <1>5, <2>6, <2>7 DEF PersistResult, L
<1> QED
  BY <1>4, <1>5 DEF BenchNext, RunSuite

LEMMA BenchStart == BenchInit => BenchInv
<1> SUFFICES ASSUME BenchInit PROVE BenchInv
  OBVIOUS
<1>1. \A s \in Suites : suite[s] = [at |-> "idle", todo |-> <<>>, results |-> <<>>]
  BY DEF BenchInit
<1>2. SuiteInv([at |-> "idle", todo |-> <<>>, results |-> <<>>])
  BY DEF SuiteInv, Task
<1>3. SuitesInv
  BY <1>2 DEF SuitesInv, BenchInit
<1>4. \A s \in Suites : Told(suite[s]) = 0
  BY <1>1 DEF Told
<1>5. recorded = <<>> /\ recorded \in Seq(BenchRow) /\ Len(recorded) = 0
  BY DEF BenchInit
<1> DEFINE rank == [i \in 1..Len(recorded) |-> 0]
<1>6. Ranked(rank, recorded, suite, lost)
  BY <1>4, <1>5 DEF Ranked, Alive
<1> QED
  BY <1>3, <1>6 DEF BenchInv

\* A suite that ran to its end with all its rows written has a row for each case.
LEMMA RowForEach ==
    ASSUME NEW rank, NEW rows, NEW run, NEW gone, Ranked(rank, rows, run, gone),
           NEW s \in Suites \ gone, run[s].at = "done", NEW n \in Nat, Told(run[s]) = n
    PROVE  n <= Len(rows)
<1> DEFINE m == Len(rows)
           at(k) == CHOOSE i \in 1..m : rows[i].suite = s /\ rank[i] = k
           f == [k \in 1..n |-> at(k)]
<1>1. m \in Nat
  BY DEF Ranked
<1>2. \A k \in 1..n : \E i \in 1..m : rows[i].suite = s /\ rank[i] = k
  BY DEF Ranked, Alive
<1> HIDE DEF m
<1>3. \A k \in 1..n : f[k] \in 1..m /\ rank[f[k]] = k
  BY <1>2
<1>4. f \in [1..n -> 1..m]
  BY <1>3
<1> HIDE DEF f
<1>5. f \in Injection(1..n, 1..m)
  BY <1>3, <1>4 DEF Injection, IsInjective
<1>6. IsFiniteSet(1..m) /\ Cardinality(1..m) = m /\ Cardinality(1..n) = n
  BY <1>1, FS_Interval
<1>7. n <= m
  BY <1>5, <1>6, FS_Injection
<1> QED
  BY <1>7 DEF m

\* The last n of m rows are all of one task; or are the n results r.
LastAreOf(rows, m, n, s) == \A i \in (m + 1 - n)..m : rows[i].suite = s
ResultsAtEnd(rows, m, n, r) == \A i \in 1..n : rows[m + 1 - i].result = r[n + 1 - i]

\* Rows that are all of one task, as many as it has results, are its results in
\* order.
LEMMA RowsAreResults ==
    ASSUME NEW rank, NEW rows, NEW run, NEW gone, Ranked(rank, rows, run, gone),
           NEW s, NEW n \in Nat, Told(run[s]) = n, NEW m, m = Len(rows), n <= m,
           LastAreOf(rows, m, n, s)
    PROVE  ResultsAtEnd(rows, m, n, run[s].results)
<1> USE DEF LastAreOf, ResultsAtEnd
<1> DEFINE g == [i \in 1..n |-> rank[(m - n) + i]]
<1>1. m \in Nat /\ n <= m
  BY DEF Ranked
<1>2. ASSUME NEW i \in 1..m, i >= m + 1 - n
      PROVE  rows[i].suite = s /\ rank[i] \in 1..n /\ rows[i].result = run[s].results[rank[i]]
  <2>1. i \in (m + 1 - n)..m
    <3> QED
      BY <1>1, <1>2
  <2>2. rows[i].suite = s
    BY <2>1
  <2> QED
    BY <2>2 DEF Ranked
<1>3. ASSUME NEW i \in 1..m, NEW j \in 1..m, i < j, i >= m + 1 - n, j >= m + 1 - n
      PROVE  rank[i] < rank[j]
  BY <1>2, <1>3 DEF Ranked
<1>4. \A i \in 1..n : (m - n) + i \in 1..m /\ (m - n) + i >= m + 1 - n
  BY <1>1
<1>5. g \in [1..n -> 1..n]
  BY <1>2, <1>4
<1>6. ASSUME NEW i \in 1..n, NEW j \in 1..n, i < j PROVE g[i] < g[j]
  <2>1. (m - n) + i < (m - n) + j
    BY <1>1, <1>6
  <2> QED
    BY <1>3, <1>4, <2>1
<1> HIDE DEF g
<1>7. \A i \in 1..n : g[i] = i
  BY <1>5, <1>6, RisingIsAll
<1>8. ASSUME NEW i \in 1..n PROVE rows[m + 1 - i].result = run[s].results[n + 1 - i]
  <2>1. n + 1 - i \in 1..n /\ (m - n) + (n + 1 - i) = m + 1 - i
    BY <1>1
  <2>2. rank[m + 1 - i] = n + 1 - i
    BY <1>7, <2>1 DEF g
  <2>3. m + 1 - i \in 1..m /\ m + 1 - i >= m + 1 - n
    BY <1>1
  <2> QED
    BY <1>2, <2>2, <2>3
<1> QED
  BY <1>8

LEMMA FinishedSuite ==
    ASSUME NEW q, SuiteInv(q), q.at = "done", NEW n, n = Len(Cases), Len(q.results) = n
    PROVE  /\ n \in Nat /\ q.results \in Seq(Results) /\ DOMAIN q.results = 1..n /\ Told(q) = n
           /\ \A i \in 1..n : q.results[i].debug_iterations \in Nat
           /\ \A i, j \in 1..n : q.results[i].case = q.results[j].case => i = j
           /\ \A c \in CaseIds : \E i \in 1..n : q.results[i].case = c
<1>1. /\ q.results \in Seq(Results) /\ q.todo \in Seq(CaseIds) /\ DOMAIN q.results = 1..n
      /\ Told(q) = n
  BY DEF SuiteInv, Task, Told
<1>2. n \in Nat /\ n >= 1
  BY CasesAssumption
<1>3. PICK asked \in Asked : Along(q, asked)
  BY DEF SuiteInv
<1>4. asked \in Seq(CaseIds) /\ Len(asked) \in Nat
  BY AskedType
<1>5. n <= Len(asked) /\ \A i \in 1..n : q.results[i].case = asked[i]
  <2>1. Len(q.todo) \in Nat /\ n + Len(q.todo) = Len(asked)
    BY <1>1, <1>3 DEF Along
  <2>2. n <= Len(asked)
    BY <1>2, <2>1
  <2> QED
    BY <1>3, <2>2 DEF Along
<1>6. Len(asked) = n
  <2>1. Len(asked) = n \/ Len(asked) = 1
    BY DEF Asked
  <2>2. \A l \in Nat : n <= l /\ (l = n \/ l = 1) => l = n
    BY <1>2
  <2> QED
    BY <1>4, <1>5, <2>1, <2>2
<1>7. /\ \A i, j \in 1..n : asked[i] = asked[j] => i = j
      /\ \A c \in CaseIds : \E i \in 1..n : asked[i] = c
  BY <1>6, AskedType
<1>8. \A i \in 1..n : q.results[i].debug_iterations \in Nat
  BY <1>1, ResultCase
<1> QED
  BY <1>1, <1>2, <1>5, <1>7, <1>8

LEMMA NewestTell ==
    ASSUME BenchInv, NEW s \in Suites \ lost, suite[s].at = "done",
           NEW n, n = Len(Cases), Limit >= n,
           NEW r, r = suite[s].results, Len(r) = n,
           NEW m, m = Len(recorded),
           LastAreOf(recorded, m, n, s)
    PROVE  /\ Mirrors(Deduplicate(Newest), r, n)
           /\ Len(Newest) = n => Mirrors(Newest, r, n)
<1>1. /\ n \in Nat /\ DOMAIN r = 1..n /\ Told(suite[s]) = n
      /\ \A i \in 1..n : r[i].debug_iterations \in Nat
      /\ \A i, j \in 1..n : r[i].case = r[j].case => i = j
      /\ \A c \in CaseIds : \E i \in 1..n : r[i].case = c
  <2>1. SuiteInv(suite[s])
    BY DEF BenchInv, SuitesInv
  <2> QED
    BY <2>1, FinishedSuite
<1>2. PICK rank : Ranked(rank, recorded, suite, lost)
  BY DEF BenchInv
<1>3. recorded \in Seq(BenchRow) /\ m \in Nat /\ Limit \in Nat
  BY <1>2, LimitAssumption DEF Ranked
<1>4. n <= m
  BY <1>1, <1>2, RowForEach
<1>5. ResultsAtEnd(recorded, m, n, r)
  BY <1>1, <1>2, <1>4, RowsAreResults
<1>6. \A i \in 1..m : recorded[i].result \in Results
  BY <1>3, BenchRowsType
<1> DEFINE size == IF m < Limit THEN m ELSE Limit
<1>7. Newest = [i \in 1..size |-> recorded[m + 1 - i].result]
  BY DEF Newest
<1>8. size \in Nat /\ n <= size /\ size <= m
  BY <1>1, <1>3, <1>4
<1> HIDE DEF size
<1>9. ASSUME NEW i \in 1..size PROVE \E k \in 1..n : r[k].case = Newest[i].case
  <2>1. m + 1 - i \in 1..m
    BY <1>3, <1>8
  <2>2. Newest[i].case \in CaseIds
    BY <1>6, <1>7, <2>1, ResultCase
  <2> QED
    BY <1>1, <2>2
<1>10. DOMAIN Newest = 1..size /\ \A i \in 1..n : Newest[i] = r[n + 1 - i]
  <2>1. \A i \in 1..n : i \in 1..size
    BY <1>1, <1>8
  <2> QED
    BY <1>5, <1>7, <2>1 DEF ResultsAtEnd
<1>11. OncePerCase(r, n)
  BY <1>1 DEF OncePerCase
<1>12. BeginsWith(Newest, size, r, n)
  BY <1>8, <1>9, <1>10 DEF BeginsWith
<1>13. ASSUME Len(Newest) = n PROVE Mirrors(Newest, r, n)
  <2>1. Len(Newest) = size
    BY <1>7, <1>8
  <2> QED
    BY <1>1, <1>10, <1>13, <2>1 DEF Mirrors
<1> QED
  BY <1>11, <1>12, <1>13, DeduplicateLeaves

LEMMA BenchInvTells == BenchInv => KpisMatchReport
<1>1. ASSUME BenchInv, NEW s \in Suites, suite[s].at = "done",
             Len(suite[s].results) = Len(Cases), s \notin lost, Limit >= Len(Cases),
             NEW latest_only \in BOOLEAN, latest_only \/ Len(Newest) = Len(Cases),
             \A i \in (Len(recorded) + 1 - Len(Cases))..Len(recorded) : recorded[i].suite = s
      PROVE  /\ \A figure \in DOMAIN ReportKpis(suite[s].results) \ {"traps"} :
                   GetBenchmarkResults(latest_only)[figure] = ReportKpis(suite[s].results)[figure]
             /\ Judging(suite[s].results) = LooksJudging(suite[s].results)
                   => GetBenchmarkResults(latest_only).traps = ReportKpis(suite[s].results).traps
  <2> DEFINE scored == IF latest_only THEN Deduplicate(Newest) ELSE Newest
  <2>1. Mirrors(scored, suite[s].results, Len(suite[s].results))
    <3>1. LastAreOf(recorded, Len(recorded), Len(Cases), s)
      BY <1>1 DEF LastAreOf
    <3> QED
      BY <1>1, <3>1, NewestTell
  <2>2. suite[s].results \in Seq(Results)
    BY <1>1 DEF BenchInv, SuitesInv, SuiteInv, Task
  <2> QED
    BY <2>1, <2>2, MirrorKpis DEF GetBenchmarkResults
<1> QED
  BY <1>1 DEF KpisMatchReport

LEMMA TasksStep ==
    ASSUME SuitesInv, [BenchNext]_benchVars, lost \subseteq Suites,
           tasks \in [Suites \X CaseIds -> {"none", "RUNNING", "INTERRUPTED"}]
    PROVE  lost' \subseteq Suites
           /\ tasks' \in [Suites \X CaseIds -> {"none", "RUNNING", "INTERRUPTED"}]
<1>1. ASSUME NEW s \in Suites, CreateTaskRow(s)
      PROVE  lost' = lost /\ tasks' \in [Suites \X CaseIds -> {"none", "RUNNING", "INTERRUPTED"}]
  BY <1>1 DEF CreateTaskRow
<1>2. ASSUME NEW s \in Suites, NEW case \in CaseIds, ReapTask(s, case)
      PROVE  lost' = lost /\ tasks' \in [Suites \X CaseIds -> {"none", "RUNNING", "INTERRUPTED"}]
  BY <1>2 DEF ReapTask
<1>3. ASSUME NEW s \in Suites, PersistResult(s)
      PROVE  lost' \subseteq Suites /\ tasks' = tasks
  BY <1>3 DEF PersistResult
<1>4. ASSUME \/ \E s \in Suites : PostRun(s) \/ RunCase(s)
             \/ RestartRunner \/ UNCHANGED benchVars
      PROVE  lost' = lost /\ tasks' = tasks
  BY <1>4 DEF PostRun, RunCase, RestartRunner, benchVars
<1> QED
  BY <1>1, <1>2, <1>3, <1>4 DEF BenchNext, RunSuite

BenchTypes ==
    /\ BenchInv /\ lost \subseteq Suites
    /\ tasks \in [Suites \X CaseIds -> {"none", "RUNNING", "INTERRUPTED"}]

LEMMA BenchInvTypes == BenchTypes => BenchTypeOK
<1> SUFFICES ASSUME BenchTypes PROVE BenchTypeOK
  OBVIOUS
<1>1. ASSUME NEW s \in Suites
      PROVE  /\ suite[s].at \in {"idle", "create", "graph", "persist", "done", "dead"}
             /\ suite[s].todo = <<>> => suite[s].at \notin {"create", "graph"}
             /\ {suite[s].results[i].case : i \in DOMAIN suite[s].results} \subseteq CaseIds
  <2>1. SuiteInv(suite[s]) /\ suite[s] \in Task
    BY DEF BenchTypes, BenchInv, SuitesInv, SuiteInv
  <2>2. suite[s].results \in Seq(Results)
    BY <2>1 DEF Task
  <2>3. \A i \in DOMAIN suite[s].results : suite[s].results[i] \in Results
    BY <2>2
  <2> QED
    BY <2>1, <2>3, ResultCase DEF SuiteInv, Task
<1>2. \A i \in DOMAIN recorded : recorded[i].suite \in Suites
  <2>1. recorded \in Seq(BenchRow)
    BY DEF BenchTypes, BenchInv, Ranked
  <2> QED
    BY <2>1, BenchRowsType
<1> QED
  BY <1>1, <1>2 DEF BenchTypeOK, BenchTypes

\* The runner's variables have their types, whatever fails, is reaped or
\* restarted: every result is of a case of the suite.
THEOREM BenchTypeCorrect == BenchSpec => []BenchTypeOK
<1>1. BenchInit => BenchTypes
  <2>1. BenchInit => BenchInv
    BY BenchStart
  <2> QED
    BY <2>1 DEF BenchInit, BenchTypes
<1>2. BenchTypes /\ [BenchNext]_benchVars => BenchTypes'
  BY BenchStep, TasksStep DEF BenchTypes, BenchInv
<1> QED
  BY <1>1, <1>2, BenchInvTypes, PTL DEF BenchSpec

\* Whatever the suite, however many tasks run it side by side and whichever rows
\* of other tasks, reaped task rows and cases that raise there are: what the
\* endpoint computes from the newest rows is what the report of the task says.
THEOREM KpisTellTheReport == BenchSpec => []KpisMatchReport
<1>1. BenchSpec => []BenchInv
  BY BenchStart, BenchStep, PTL DEF BenchSpec
<1> QED
  BY <1>1, BenchInvTells, PTL
=============================================================================
