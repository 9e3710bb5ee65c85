------------------------------ MODULE Admission ------------------------------
(***************************************************************************)
(* How a WebSocket gets in: the ticket or the first frame (core/security.py), *)
(* the two connection quotas and their release (api/v1/websockets.py).     *)
(* The sockets are those of one run; the per-run quota is a set of Redis   *)
(* that is added to, counted and taken from in separate calls, the server's *)
(* is a counter of the process.  RunStream is what an admitted socket does. *)
(***************************************************************************)
EXTENDS Naturals, FiniteSets

CONSTANTS
    Sockets,                \* connections, each with its own conn_id and ticket
    MaxPerRun,              \* MAX_CONNECTIONS_PER_RUN
    MaxPerServer,           \* MAX_CONNECTIONS_PER_SERVER
    AdmissionScenarios      \* budgets: how often each fault may happen

AdmissionFaults == {"accounting", "expiry", "reboot", "reused"}

ASSUME SocketsAssumption == IsFiniteSet(Sockets)
ASSUME QuotasAssumption == MaxPerRun \in Nat /\ MaxPerServer \in Nat
ASSUME AdmissionScenariosAssumption == AdmissionScenarios \subseteq [AdmissionFaults -> Nat]

VARIABLES
    socket,         \* where each socket is
    tickets,        \* Redis: tickets nobody has redeemed, by the socket they are for
    presented,      \* the ticket each socket presents, or none
    conns,          \* Redis: ws:conns:{run_id}
    openHere,       \* _open_connections
    unaccounted,    \* history: admitted because a call to Redis raised
    incidents       \* what is left of the scenario

admissionVars == <<socket, tickets, presented, conns, openHere, unaccounted, incidents>>

SocketPoints == {"away", "accepted", "authenticated", "admitting", "added", "counted",
                 "over", "open", "ended", "closing", "closed"}

AdmissionTypeOK ==
    /\ socket \in [Sockets -> SocketPoints]
    /\ tickets \subseteq Sockets
    /\ presented \in [Sockets -> Sockets \cup {"none"}]
    /\ conns \subseteq Sockets
    /\ openHere = Cardinality({s \in Sockets : socket[s] \in {"open", "ended"}})
    /\ unaccounted \subseteq Sockets

AdmissionInit ==
    /\ socket = [s \in Sockets |-> "away"]
    /\ tickets = {}
    /\ presented = [s \in Sockets |-> "none"]
    /\ conns = {}
    /\ openHere = 0
    /\ unaccounted = {}
    /\ incidents \in AdmissionScenarios

Incident(fault) == incidents[fault] > 0 /\ incidents' = [incidents EXCEPT ![fault] = @ - 1]

Move(s, p) == socket' = [socket EXCEPT ![s] = p]

-----------------------------------------------------------------------------
\* create_ticket(), issue_ticket(): the ticket is for one socket.
IssueTicket(s) ==
    /\ tickets' = tickets \cup {s}
    /\ presented' = [presented EXCEPT ![s] = s]

(* A socket is opened with a ticket just issued, or without one, or with one *)
(* another socket has; _accept().                                            *)
Connect(s) ==
    /\ socket[s] = "away"
    /\ Move(s, "accepted")
    /\ \/ IssueTicket(s) /\ UNCHANGED incidents
       \/ UNCHANGED <<tickets, presented, incidents>>
       \/ /\ Incident("reused")
          /\ \E t \in Sockets \ {s} : presented' = [presented EXCEPT ![s] = t]
          /\ UNCHANGED tickets
    /\ UNCHANGED <<conns, openHere, unaccounted>>

\* TICKET_TTL_S is over.
TicketExpires(s) ==
    /\ s \in tickets
    /\ tickets' = tickets \ {s}
    /\ UNCHANGED <<socket, presented, conns, openHere, unaccounted, incidents>>

(* consume_ticket() is one GETDEL. *)
RedeemTicket(s) ==
    /\ socket[s] = "accepted" /\ presented[s] # "none"
    /\ Move(s, IF presented[s] \in tickets THEN "authenticated" ELSE "closing")
    /\ tickets' = tickets \ {presented[s]}
    /\ UNCHANGED <<presented, conns, openHere, unaccounted, incidents>>

(* _authenticate() without a ticket: no proof is asked for, or the first *)
(* frame has the token, or it has not, or not in time.                   *)
Authenticate(s) ==
    /\ socket[s] = "accepted" /\ presented[s] = "none"
    /\ Move(s, "authenticated") \/ Move(s, "closing")
    /\ UNCHANGED <<tickets, presented, conns, openHere, unaccounted, incidents>>

(* _run_exists(), then the server's half of _claim_slot(); the counter moves *)
(* only once the slot is claimed.                                            *)
CheckServer(s) ==
    /\ socket[s] = "authenticated"
    /\ Move(s, IF openHere >= MaxPerServer THEN "closing" ELSE "admitting")
    /\ UNCHANGED <<tickets, presented, conns, openHere, unaccounted, incidents>>

Open(s) == Move(s, "open") /\ openHere' = openHere + 1

\* Mutant: the set is counted before it is added to.
CountThenAdd(s) ==
    /\ \/ /\ socket[s] = "admitting"
          /\ Move(s, IF Cardinality(conns) >= MaxPerRun THEN "closing" ELSE "counted")
          /\ UNCHANGED <<conns, openHere>>
       \/ /\ socket[s] = "counted"
          /\ conns' = conns \cup {s}
          /\ Open(s)
    /\ UNCHANGED <<tickets, presented, unaccounted, incidents>>

(* SADD, EXPIRE, SCARD, and SREM if that was one too many. *)
ClaimSlot(s) ==
    /\ \/ /\ socket[s] = "admitting"
          /\ conns' = conns \cup {s}
          /\ Move(s, "added")
          /\ UNCHANGED openHere
       \/ /\ socket[s] = "added"
          /\ IF Cardinality(conns) > MaxPerRun
             THEN Move(s, "over") /\ UNCHANGED openHere
             ELSE Open(s)
          /\ UNCHANGED conns
       \/ /\ socket[s] = "over"
          /\ conns' = conns \ {s}
          /\ Move(s, "closing")
          /\ UNCHANGED openHere
    /\ UNCHANGED <<tickets, presented, unaccounted, incidents>>

(* "accounting failure must not deny service" *)
AccountingFails(s) ==
    /\ socket[s] \in {"admitting", "added", "over"}
    /\ Incident("accounting")
    /\ unaccounted' = unaccounted \cup {s}
    /\ Open(s)
    /\ UNCHANGED <<tickets, presented, conns>>

\* The client leaves, the run ends, pongs are missed: the finally begins.
End(s) ==
    /\ socket[s] = "open"
    /\ Move(s, "ended")
    /\ UNCHANGED <<tickets, presented, conns, openHere, unaccounted, incidents>>

(* The counter, then _release_slot(), whose failure is suppressed. *)
ReleaseSlot(s) ==
    /\ socket[s] = "ended"
    /\ openHere' = openHere - 1
    /\ Move(s, "closing")
    /\ \/ conns' = conns \ {s} /\ UNCHANGED incidents
       \/ Incident("accounting") /\ UNCHANGED conns
    /\ UNCHANGED <<tickets, presented, unaccounted>>

Close(s) ==
    /\ socket[s] = "closing"
    /\ Move(s, "closed")
    /\ UNCHANGED <<tickets, presented, conns, openHere, unaccounted, incidents>>

\* 3600 s without a claim: the key is gone, whoever is still connected.
ConnsExpire ==
    /\ Incident("expiry")
    /\ conns' = {}
    /\ UNCHANGED <<socket, tickets, presented, openHere, unaccounted>>

\* The process restarts; the set stays as it was.
RebootApi ==
    /\ Incident("reboot")
    /\ socket' = [s \in Sockets |-> IF socket[s] = "away" THEN "away" ELSE "closed"]
    /\ openHere' = 0
    /\ UNCHANGED <<tickets, presented, conns, unaccounted>>

(* run_stream(), in this order *)
ServeSocket(s) ==
    \/ RedeemTicket(s) \/ Authenticate(s) \/ CheckServer(s) \/ ClaimSlot(s)
    \/ AccountingFails(s) \/ End(s) \/ ReleaseSlot(s) \/ Close(s)

AdmissionNext ==
    \/ \E s \in Sockets : Connect(s) \/ TicketExpires(s) \/ ServeSocket(s)
    \/ ConnsExpire \/ RebootApi

AdmissionSpec == AdmissionInit /\ [][AdmissionNext]_admissionVars

-----------------------------------------------------------------------------
\* "Eight sockets per run" (api/v1/websockets.py, line 85): however many are
\* being admitted at the same time, no more than MaxPerRun of those that are
\* still in the run's set are open, those left out that were let in because
\* Redis could not be asked.  A socket open for longer than the key lives is no
\* longer in the set.
QuotaHolds ==
    Cardinality({s \in conns \ unaccounted : socket[s] = "open"}) <= MaxPerRun
=============================================================================
