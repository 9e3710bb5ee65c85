------------------------------ MODULE RunLease ------------------------------
(***************************************************************************)
(* The execution lease of one run, without clocks: what `RunLock`          *)
(* (core/redis.py) promises to the code that holds it.  The Redis key      *)
(* lock:run:{id} holds the identity of a worker process or is absent;      *)
(* each process remembers in its RunLock object whether its acquire        *)
(* succeeded.  The memory and the key disagree after an expiry: the        *)
(* process is not told, it goes on executing.                              *)
(*                                                                         *)
(* A worker is one process with one execution of the run: two RunLock      *)
(* objects of one process would store the same value.                      *)
(***************************************************************************)

CONSTANTS
    Workers,    \* identities of the worker processes (host-pid)
    NoWorker    \* the key is absent

ASSUME NoWorkerAssumption == NoWorker \notin Workers

VARIABLES
    lock,       \* value of lock:run:{id}
    acquired,   \* RunLock.acquired of each process
    lost        \* history: processes whose key expired while they held it

leaseVars == <<lock, acquired, lost>>

LeaseTypeOK ==
    /\ lock \in Workers \cup {NoWorker}
    /\ acquired \in [Workers -> BOOLEAN]
    /\ lost \subseteq Workers

LeaseInit ==
    /\ lock = NoWorker
    /\ acquired = [w \in Workers |-> FALSE]
    /\ lost = {}

\* The process believes it holds the run, and does.
Holds(w) == acquired[w] /\ w \notin lost

-----------------------------------------------------------------------------
(* SET NX EX *)
Acquire(w) ==
    /\ ~acquired[w]
    /\ lock = NoWorker
    /\ lock' = w
    /\ acquired' = [acquired EXCEPT ![w] = TRUE]
    /\ lost' = lost \ {w}

\* What is left of the key after the release script: compare-and-delete, and
\* the unconditional deletion the script's comment rules out.
DeletedLock(w) == NoWorker
ReleasedLock(w) == IF lock = w THEN NoWorker ELSE lock

(* release(): a process that never acquired returns before the script *)
Release(w) ==
    /\ acquired[w]
    /\ acquired' = [acquired EXCEPT ![w] = FALSE]
    /\ lock' = ReleasedLock(w)
    /\ lost' = lost \ {w}

(* The key reaches its TTL.  The holder, if it still runs, is not told. *)
Expire ==
    /\ lock # NoWorker
    /\ lock' = NoWorker
    /\ lost' = IF acquired[lock] THEN lost \cup {lock} ELSE lost
    /\ UNCHANGED acquired

(* The process dies: its memory goes, the key stays until its TTL. *)
Die(w) ==
    /\ acquired' = [acquired EXCEPT ![w] = FALSE]
    /\ lost' = lost \ {w}
    /\ UNCHANGED lock

LeaseNext ==
    \/ \E w \in Workers : Acquire(w) \/ Release(w) \/ Die(w)
    \/ Expire

LeaseSpec == LeaseInit /\ [][LeaseNext]_leaseVars

-----------------------------------------------------------------------------
\* A process that acquired and whose key has not expired owns the key: no
\* other process's release or acquire can take it away (the comment on the
\* release and renew scripts, core/redis.py).
HolderOwnsLock == \A w \in Workers : Holds(w) => lock = w

\* Of two processes that believe they hold the run, one has outlived its key.
ExclusiveHolder ==
    \A v, w \in Workers : Holds(v) /\ Holds(w) => v = w
=============================================================================
