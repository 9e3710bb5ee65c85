------------------------------- MODULE RunLock -------------------------------
(***************************************************************************)
(* `RunLock` (core/redis.py) with its clocks: the TTL of the key and the   *)
(* renewer task of each holder, which wakes every Period time units,       *)
(* extends the TTL if the key still names it, survives a failed call and   *)
(* stops for good when the key names somebody else.  Time is a Tick that   *)
(* waits for every due renewal: asyncio wakes a sleeper on time.           *)
(***************************************************************************)
EXTENDS Integers

CONSTANTS
    Workers, NoWorker,
    Period,     \* renew_every_s
    Renewals    \* renewals per lease: the TTL is Renewals * Period

ASSUME NoWorkerAssumption == NoWorker \notin Workers
ASSUME PeriodAssumption == Period \in Nat \ {0}
ASSUME RenewalsAssumption == Renewals \in Nat \ {0}

TTL == Renewals * Period    \* RUN_LOCK_TTL_S

VARIABLES
    lock, acquired, lost,   \* as in RunLease
    ttl,        \* time left before the key expires, 0 when absent
    timer,      \* each renewer's time to its next wake-up
    renewing,   \* the renewer task exists and has not returned
    fails       \* history: consecutive renewals that raised, capped at Renewals

vars == <<lock, acquired, lost, ttl, timer, renewing, fails>>

Lease == INSTANCE RunLease

TypeOK ==
    /\ Lease!LeaseTypeOK
    /\ ttl \in 0..TTL
    /\ timer \in [Workers -> 0..Period]
    /\ renewing \in [Workers -> BOOLEAN]
    /\ fails \in [Workers -> 0..Renewals]

Init ==
    /\ Lease!LeaseInit
    /\ ttl = 0
    /\ timer = [w \in Workers |-> 0]
    /\ renewing = [w \in Workers |-> FALSE]
    /\ fails = [w \in Workers |-> 0]

-----------------------------------------------------------------------------
\* Mutants of the acquisition: without NX, and without EX.
AcquireWithoutNX(w) ==
    /\ ~acquired[w]
    /\ lock' = w
    /\ acquired' = [acquired EXCEPT ![w] = TRUE]
    /\ ttl' = TTL
    /\ renewing' = [renewing EXCEPT ![w] = TRUE]
    /\ timer' = [timer EXCEPT ![w] = Period]
    /\ fails' = [fails EXCEPT ![w] = 0]
    /\ UNCHANGED lost

AcquireWithoutEX(w) ==
    /\ Lease!Acquire(w)
    /\ renewing' = [renewing EXCEPT ![w] = TRUE]
    /\ timer' = [timer EXCEPT ![w] = Period]
    /\ fails' = [fails EXCEPT ![w] = 0]
    /\ UNCHANGED ttl

(* acquire() followed by start_renewer() *)
Acquire(w) ==
    /\ Lease!Acquire(w)
    /\ ttl' = TTL
    /\ renewing' = [renewing EXCEPT ![w] = TRUE]
    /\ timer' = [timer EXCEPT ![w] = Period]
    /\ fails' = [fails EXCEPT ![w] = 0]

RenewDue(w) == renewing[w] /\ timer[w] = 0

\* Mutant: the renewal adds a lease to what is left of the last.
RenewAdds(w) ==
    /\ RenewDue(w)
    /\ lock = w
    /\ ttl' = ttl + TTL
    /\ timer' = [timer EXCEPT ![w] = Period]
    /\ fails' = [fails EXCEPT ![w] = 0]
    /\ UNCHANGED <<lock, acquired, lost, renewing>>

(* The script found this worker's value and extended the key. *)
Renew(w) ==
    /\ RenewDue(w)
    /\ lock = w
    /\ ttl' = TTL
    /\ timer' = [timer EXCEPT ![w] = Period]
    /\ fails' = [fails EXCEPT ![w] = 0]
    /\ UNCHANGED <<lock, acquired, lost, renewing>>

(* The script found another value, or none: the renewer gives up. *)
RenewLost(w) ==
    /\ RenewDue(w)
    /\ lock # w
    /\ renewing' = [renewing EXCEPT ![w] = FALSE]
    /\ UNCHANGED <<lock, acquired, lost, ttl, timer, fails>>

\* Mutant: the first exception ends the renewer.
RenewRaisesAndStops(w) ==
    /\ RenewDue(w)
    /\ renewing' = [renewing EXCEPT ![w] = FALSE]
    /\ UNCHANGED <<lock, acquired, lost, ttl, timer, fails>>

(* The call raised: logged, and the renewer sleeps again. *)
RenewRaises(w) ==
    /\ RenewDue(w)
    /\ timer' = [timer EXCEPT ![w] = Period]
    /\ fails' = [fails EXCEPT ![w] = IF @ < Renewals THEN @ + 1 ELSE @]
    /\ UNCHANGED <<lock, acquired, lost, ttl, renewing>>

Release(w) ==
    /\ Lease!Release(w)
    /\ ttl' = IF lock = w THEN 0 ELSE ttl
    /\ renewing' = [renewing EXCEPT ![w] = FALSE]
    /\ UNCHANGED <<timer, fails>>

Die(w) ==
    /\ acquired[w]
    /\ Lease!Die(w)
    /\ renewing' = [renewing EXCEPT ![w] = FALSE]
    /\ UNCHANGED <<ttl, timer, fails>>

(* One unit of time; Redis deletes the key when its TTL runs out. *)
Tick ==
    /\ \A w \in Workers : ~RenewDue(w)
    /\ \/ ttl > 0
       \/ \E w \in Workers : renewing[w]
    /\ timer' = [w \in Workers |->
                    IF renewing[w] THEN timer[w] - 1 ELSE timer[w]]
    /\ ttl' = IF ttl > 0 THEN ttl - 1 ELSE 0
    /\ IF ttl = 1
       THEN Lease!Expire
       ELSE UNCHANGED <<lock, acquired, lost>>
    /\ UNCHANGED <<renewing, fails>>

Next ==
    \/ \E w \in Workers :
         \/ Acquire(w)
         \/ Renew(w)
         \/ RenewLost(w)
         \/ RenewRaises(w)
         \/ Release(w)
         \/ Die(w)
    \/ Tick

Spec == Init /\ [][Next]_vars

\* Time passes and a due renewal is carried out.
FairSpec ==
    /\ Spec
    /\ WF_vars(Tick)
    /\ \A w \in Workers :
         WF_vars(Renew(w) \/ RenewLost(w) \/ RenewRaises(w))

-----------------------------------------------------------------------------
\* A live holder loses the key only after all but the last of the renewals of
\* a lease raised in a row: "roughly thirty renewals may fail in a row before
\* ownership is actually lost" (RunLock docstring).
BlipsDoNotLoseLease ==
    \A w \in lost : fails[w] >= Renewals - 1

\* The key of a process that died does not keep the run locked for ever: it is
\* the crash detector of the reaper (RunLock docstring).
DeadHolderFreesLock ==
    \A w \in Workers :
        lock = w /\ ~acquired[w] ~> lock # w

\* The clocked lock does nothing the clockless lease does not allow.
ImplementsLease == Lease!LeaseSpec
=============================================================================
