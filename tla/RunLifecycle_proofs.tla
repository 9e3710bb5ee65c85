------------------------ MODULE RunLifecycle_proofs ------------------------
(* Proofs about RunLifecycle and the lease it uses, for any sets of workers *)
(* and requests and any budgets of events: types, mutual exclusion of the   *)
(* executions of a run, the claim of a cancelled run, the reaper's sweep,   *)
(* the row's diagram and what the stream says of its end.                   *)
EXTENDS RunLifecycle, TLAPS

-----------------------------------------------------------------------------
(* The lease, of any set of worker processes: it has one holder at a time *)

\* The lease variables keep their types.
LEMMA LeaseTypeStep == LeaseTypeOK /\ [LeaseNext]_leaseVars => LeaseTypeOK'
<1> SUFFICES ASSUME LeaseTypeOK, [LeaseNext]_leaseVars
             PROVE  LeaseTypeOK'
  OBVIOUS
<1> USE NoWorkerAssumption DEF LeaseTypeOK
<1>1. ASSUME NEW w \in Workers, Acquire(w)
      PROVE  LeaseTypeOK'
  BY <1>1 DEF Acquire
<1>2. ASSUME NEW w \in Workers, Release(w)
      PROVE  LeaseTypeOK'
  BY <1>2 DEF Release, ReleasedLock
<1>3. ASSUME NEW w \in Workers, Die(w)
      PROVE  LeaseTypeOK'
  BY <1>3 DEF Die
<1>4. CASE Expire
  BY <1>4 DEF Expire
<1>5. CASE UNCHANGED leaseVars
  BY <1>5 DEF leaseVars
<1> QED
  BY <1>1, <1>2, <1>3, <1>4, <1>5 DEF LeaseNext

\* No step of the lease takes the key from a process that holds it: acquire
\* finds the key absent, release deletes the own value only, an expiry is
\* recorded in `lost`.
LEMMA HolderOwnsLockStep ==
    LeaseTypeOK /\ HolderOwnsLock /\ [LeaseNext]_leaseVars => HolderOwnsLock'
<1> SUFFICES ASSUME LeaseTypeOK, HolderOwnsLock, [LeaseNext]_leaseVars,
                    NEW v \in Workers, Holds(v)'
             PROVE  lock' = v
  BY DEF HolderOwnsLock
<1> USE NoWorkerAssumption DEF LeaseTypeOK, HolderOwnsLock, Holds
<1>1. ASSUME NEW w \in Workers, Acquire(w)
      PROVE  lock' = v
  \* Nobody held the key, so v is the process that acquires it.
  BY <1>1 DEF Acquire
<1>2. ASSUME NEW w \in Workers, Release(w)
      PROVE  lock' = v
  BY <1>2 DEF Release, ReleasedLock
<1>3. ASSUME NEW w \in Workers, Die(w)
      PROVE  lock' = v
  BY <1>3 DEF Die
<1>4. CASE Expire
  \* v would be the process whose key expired, and is in lost'.
  BY <1>4 DEF Expire
<1>5. CASE UNCHANGED leaseVars
  BY <1>5 DEF leaseVars
<1> QED
  BY <1>1, <1>2, <1>3, <1>4, <1>5 DEF LeaseNext

LEMMA LeaseInitially == LeaseInit => LeaseTypeOK /\ HolderOwnsLock
BY NoWorkerAssumption DEF LeaseInit, LeaseTypeOK, HolderOwnsLock, Holds

\* Whoever acquired the lock and did not outlive it owns the key: the release
\* and renew scripts of core/redis.py compare before they write.
THEOREM LeaseIsHeld == LeaseSpec => [](LeaseTypeOK /\ HolderOwnsLock)
<1>1. LeaseTypeOK /\ HolderOwnsLock /\ [LeaseNext]_leaseVars
        => (LeaseTypeOK /\ HolderOwnsLock)'
  BY LeaseTypeStep, HolderOwnsLockStep
<1> QED
  BY LeaseInitially, <1>1, PTL DEF LeaseSpec

\* Mutual exclusion: of two processes that believe they hold the run, one has
\* outlived its key.
THEOREM LeaseIsExclusive == LeaseSpec => []ExclusiveHolder
<1>1. HolderOwnsLock => ExclusiveHolder
  BY DEF HolderOwnsLock, ExclusiveHolder
<1> QED
  BY LeaseIsHeld, <1>1, PTL

USE DEF leaseVars, arqVars, workerVars, apiVars

-----------------------------------------------------------------------------
(* Types *)

LEMMA StatusOfType == StatusOf \in [Outcomes -> Statuses]
BY DEF StatusOf, Outcomes, Statuses

LEMMA EventForType == \A s \in Statuses : EventFor[s] \in Events
BY DEF EventFor, Events

LEMMA InitType == Init => TypeOK
<1> SUFFICES ASSUME Init
             PROVE  TypeOK
  OBVIOUS
<1>1. LeaseTypeOK
  BY LeaseInitially DEF Init
<1>2. lastEvent \in Events /\ row \in Statuses /\ reaper \in ReaperPCs
  BY DEF Init, Events, Statuses, ReaperPCs
<1>3. /\ pc \in [Workers -> WorkerPCs]
      /\ resume \in [Workers -> BOOLEAN]
      /\ outcome \in [Workers -> Outcomes]
      /\ subscribed \subseteq Workers
  BY DEF Init, WorkerPCs, Outcomes
<1>4. /\ api \in [Requests -> ApiPCs]
      /\ loaded \in [Requests -> Statuses]
      /\ used \in [Kinds -> Nat]
  BY DEF Init, ApiPCs, Statuses
<1> QED
  BY <1>1, <1>2, <1>3, <1>4 DEF Init, TypeOK

LEMMA SpendType ==
    ASSUME TypeOK, NEW kind \in Kinds, Spend(kind)
    PROVE  used' \in [Kinds -> Nat]
BY DEF TypeOK, Spend

\* The actions of arq and of the workers.
LEMMA WorkerTypeStep ==
    ASSUME TypeOK, NEW w \in Workers,
           \/ WorkerStep(w) \/ Pick(w)
           \/ Shutdown(w) \/ Crash(w) \/ Restart(w)
    PROVE  TypeOK'
<1> USE NoWorkerAssumption, NoJobAssumption
    DEF TypeOK, LeaseTypeOK, At, WorkerPCs, Outcomes
<1>1. CASE TakeLock(w)
  BY <1>1 DEF TakeLock, Acquire
<1>12. CASE SkipLocked(w) \/ EnterResumed(w) \/ NotClaimable(w) \/ Restart(w)
  BY <1>12 DEF SkipLocked, EnterResumed, NotClaimable, Restart
<1>13. CASE Subscribe(w) \/ SubscribeFails(w) \/ Unsubscribe(w)
  BY <1>13 DEF Subscribe, SubscribeFails, Unsubscribe, Spend
<1>14. CASE GraphStops(w)
  BY <1>14 DEF GraphStops
<1>2. CASE ReleaseLock(w)
  BY <1>2 DEF ReleaseLock, Release, ReleasedLock
<1>3. CASE Claim(w)
  BY <1>3 DEF Claim, Statuses
<1>4. CASE LoadFails(w)
  BY <1>4, SpendType DEF LoadFails, Kinds
<1>5. CASE Start(w)
  BY <1>5, EventForType DEF Start, EventFor, Statuses
<1>6. CASE Finish(w)
  BY <1>6, StatusOfType, SpendType DEF Finish, Kinds
<1>7. CASE AnnounceOutcome(w)
  BY <1>7, StatusOfType, EventForType DEF AnnounceOutcome
<1>8. CASE Return(w)
  BY <1>8 DEF Return, KeepResult
<1>9. CASE Pick(w)
  BY <1>9 DEF Pick
<1>10. CASE Shutdown(w)
  BY <1>10, SpendType DEF Shutdown, Kinds
<1>11. CASE Crash(w)
  BY <1>11, SpendType DEF Crash, Die, Kinds
<1> QED
  BY <1>1, <1>2, <1>3, <1>4, <1>5, <1>6, <1>7, <1>8, <1>9, <1>10, <1>11,
     <1>12, <1>13, <1>14
     DEF WorkerStep

\* The actions of the API.
LEMMA RequestTypeStep ==
    ASSUME TypeOK, NEW r \in Requests,
           \/ RequestStep(r)
           \/ DispatchLoad(r) \/ ResumeLoad(r) \/ CancelLoad(r) \/ ApiCrash(r)
    PROVE  TypeOK'
<1> USE DEF TypeOK, LeaseTypeOK, ApiAt, ApiPCs
<1>1. CASE DispatchLoad(r) \/ ResumeLoad(r) \/ CancelLoad(r) \/ ApiCrash(r)
  BY <1>1, SpendType DEF DispatchLoad, ResumeLoad, CancelLoad, ApiCrash, Kinds
<1>2. CASE DispatchWrite(r) \/ ResumeWrite(r) \/ CancelWrite(r)
  BY <1>2, EventForType
     DEF DispatchWrite, ResumeWrite, CancelWrite, OrmWrite, Statuses, EventFor
<1>3. CASE DispatchEnqueue(r) \/ ResumeEnqueue(r)
  <2>1. PICK b \in BOOLEAN : Enqueue(b)
    BY <1>3 DEF DispatchEnqueue, ResumeEnqueue
  <2>2. [resume |-> b, tries |-> 0] \in [resume : BOOLEAN, tries : 0..1]
    OBVIOUS
  <2>3. job' \in [resume : BOOLEAN, tries : 0..1] \cup {NoJob}
    BY <2>1, <2>2 DEF Enqueue
  <2> QED
    BY <1>3, <2>1, <2>3 DEF DispatchEnqueue, ResumeEnqueue, Enqueue
<1>4. CASE ResumeCheckLock(r) \/ CancelPublish(r)
  BY <1>4 DEF ResumeCheckLock, CancelPublish
<1>5. CASE DispatchAnnounce(r) \/ CancelAnnounce(r)
  BY <1>5, EventForType DEF DispatchAnnounce, CancelAnnounce, EventFor, Statuses
<1> QED
  BY <1>1, <1>2, <1>3, <1>4, <1>5 DEF RequestStep

\* The reaper, expiries, and what arq does by itself.
LEMMA OtherTypeStep ==
    ASSUME TypeOK,
           \/ ReaperStep \/ DeadLeaseExpires \/ LiveLeaseExpires
           \/ PickExhausted \/ InProgressExpires \/ ResultExpires
    PROVE  TypeOK'
<1> USE NoWorkerAssumption DEF TypeOK, LeaseTypeOK
<1>1. CASE ReaperStep
  BY <1>1, EventForType
     DEF ReaperStep, ReapSelect, ReapCheckLock, ReapUpdate, ReapAnnounce,
         ReaperAt, ReaperPCs, Statuses
<1>2. CASE DeadLeaseExpires
  BY <1>2 DEF DeadLeaseExpires, Expire
<1>3. CASE LiveLeaseExpires
  BY <1>3, SpendType DEF LiveLeaseExpires, Expire, Kinds
<1>4. CASE PickExhausted \/ InProgressExpires \/ ResultExpires
  BY <1>4 DEF PickExhausted, KeepResult, InProgressExpires, ResultExpires
<1> QED
  BY <1>1, <1>2, <1>3, <1>4

LEMMA TypeStep == TypeOK /\ [Next]_vars => TypeOK'
<1> SUFFICES ASSUME TypeOK, [Next]_vars
             PROVE  TypeOK'
  OBVIOUS
<1>1. CASE Next
  BY <1>1, WorkerTypeStep, RequestTypeStep, OtherTypeStep DEF Next, ArqStep
<1>2. CASE UNCHANGED vars
  BY <1>2 DEF vars, TypeOK, LeaseTypeOK
<1> QED
  BY <1>1, <1>2

\* Every variable keeps its type.
THEOREM TypeCorrect == Spec => []TypeOK
<1> QED
  BY InitType, TypeStep, PTL DEF Spec

-----------------------------------------------------------------------------
(* The lock *)

\* What a step of the system does to the lock is a step of the lease.
LEMMA LeaseStep == [Next]_vars => [LeaseNext]_leaseVars
<1> SUFFICES ASSUME [Next]_vars
             PROVE  [LeaseNext]_leaseVars
  OBVIOUS
<1>1. ASSUME NEW w \in Workers, WorkerStep(w)
      PROVE  [LeaseNext]_leaseVars
  <2>1. CASE TakeLock(w)
    BY <2>1 DEF TakeLock, LeaseNext
  <2>2. CASE ReleaseLock(w)
    BY <2>2 DEF ReleaseLock, LeaseNext
  <2>3. CASE UNCHANGED leaseVars
    BY <2>3
  <2> QED
    BY <1>1, <2>1, <2>2, <2>3
       DEF WorkerStep, SkipLocked, Subscribe, SubscribeFails, Claim, EnterResumed,
           NotClaimable, LoadFails, Start, GraphStops, Finish,
           AnnounceOutcome, Unsubscribe, Return
<1>2. ASSUME NEW w \in Workers, Crash(w)
      PROVE  [LeaseNext]_leaseVars
  BY <1>2 DEF Crash, LeaseNext
<1>3. CASE \E w \in Workers : Shutdown(w) \/ Restart(w)
  BY <1>3 DEF Shutdown, Restart
<1>4. CASE \E r \in Requests :
             \/ RequestStep(r)
             \/ DispatchLoad(r) \/ ResumeLoad(r) \/ CancelLoad(r) \/ ApiCrash(r)
  BY <1>4 DEF RequestStep, DispatchLoad, DispatchWrite, DispatchAnnounce, DispatchEnqueue,
              ResumeLoad, ResumeCheckLock, ResumeWrite, ResumeEnqueue,
              CancelLoad, CancelPublish, CancelWrite, CancelAnnounce, ApiCrash
<1>5. CASE ArqStep \/ ReaperStep
  BY <1>5 DEF ArqStep, Pick, PickExhausted, InProgressExpires, ResultExpires,
              ReaperStep, ReapSelect, ReapCheckLock, ReapUpdate, ReapAnnounce
<1>6. CASE DeadLeaseExpires \/ LiveLeaseExpires
  BY <1>6 DEF DeadLeaseExpires, LiveLeaseExpires, LeaseNext
<1>7. CASE UNCHANGED vars
  BY <1>7 DEF vars
<1> QED
  BY <1>1, <1>2, <1>3, <1>4, <1>5, <1>6, <1>7 DEF Next

\* The API, the workers, arq and the reaper use the lock as RunLease allows:
\* what holds of the lease holds of the run.
THEOREM UsesLease == Spec => LeaseSpec
<1>1. Init => LeaseInit
  BY DEF Init
<1> QED
  BY <1>1, LeaseStep, PTL DEF Spec, LeaseSpec

\* A worker that holds the run owns the key, whatever crashes, stalls and
\* requests come.
THEOREM LockIsHeld == Spec => []HolderOwnsLock
<1> QED
  BY UsesLease, LeaseIsHeld, PTL

-----------------------------------------------------------------------------
(* Mutual exclusion *)

\* A worker between the acquisition and the release knows that it acquired.
OwnersAcquired == \A w \in Workers : pc[w] \in Owning => acquired[w]

LEMMA OwnersAcquiredStep ==
    TypeOK /\ OwnersAcquired /\ [Next]_vars => OwnersAcquired'
<1> SUFFICES ASSUME TypeOK, OwnersAcquired, [Next]_vars,
                    NEW v \in Workers, pc'[v] \in Owning
             PROVE  acquired'[v]
  BY DEF OwnersAcquired
<1> USE DEF TypeOK, LeaseTypeOK, OwnersAcquired
<1>1. ASSUME NEW w \in Workers, WorkerStep(w)
      PROVE  acquired'[v]
  <2> USE DEF At
  <2>1. CASE TakeLock(w)
    BY <2>1 DEF TakeLock, Acquire, Owning
  <2>2. CASE ReleaseLock(w)
    BY <2>2 DEF ReleaseLock, Release, Owning
  <2>3. CASE SkipLocked(w) \/ Return(w)
    BY <2>3 DEF SkipLocked, Return, Owning
  <2>4. CASE \/ Subscribe(w) \/ SubscribeFails(w) \/ Claim(w) \/ EnterResumed(w) \/ NotClaimable(w)
             \/ LoadFails(w) \/ Start(w)
    BY <2>4 DEF Subscribe, SubscribeFails, Claim, EnterResumed, NotClaimable, LoadFails, Start,
                Owning
  <2>5. CASE GraphStops(w) \/ Finish(w) \/ AnnounceOutcome(w) \/ Unsubscribe(w)
    BY <2>5 DEF GraphStops, Finish, AnnounceOutcome, Unsubscribe, Owning
  <2> QED
    BY <1>1, <2>1, <2>2, <2>3, <2>4, <2>5 DEF WorkerStep
<1>2. ASSUME NEW w \in Workers, Crash(w) \/ Restart(w) \/ Pick(w)
      PROVE  acquired'[v]
  BY <1>2 DEF Crash, Die, Restart, Pick, At, Owning
<1>3. ASSUME NEW w \in Workers, Shutdown(w)
      PROVE  acquired'[v]
  BY <1>3 DEF Shutdown, At, Owning
<1>4. CASE UNCHANGED <<pc, acquired>>
  BY <1>4
<1>5. CASE \E r \in Requests :
             \/ RequestStep(r)
             \/ DispatchLoad(r) \/ ResumeLoad(r) \/ CancelLoad(r) \/ ApiCrash(r)
  BY <1>4, <1>5
     DEF RequestStep, DispatchLoad, DispatchWrite, DispatchAnnounce, DispatchEnqueue,
         ResumeLoad, ResumeCheckLock, ResumeWrite, ResumeEnqueue,
         CancelLoad, CancelPublish, CancelWrite, CancelAnnounce, ApiCrash
<1>6. CASE \/ ReaperStep \/ DeadLeaseExpires \/ LiveLeaseExpires
           \/ PickExhausted \/ InProgressExpires \/ ResultExpires
  BY <1>4, <1>6
     DEF ReaperStep, ReapSelect, ReapCheckLock, ReapUpdate, ReapAnnounce,
         DeadLeaseExpires, LiveLeaseExpires, Expire, PickExhausted,
         InProgressExpires, ResultExpires
<1>7. CASE UNCHANGED vars
  BY <1>4, <1>7 DEF vars
<1> QED
  BY <1>1, <1>2, <1>3, <1>5, <1>6, <1>7 DEF Next, ArqStep

LEMMA OwnersAcquiredAlways == Spec => []OwnersAcquired
<1>1. Init => OwnersAcquired
  BY DEF Init, OwnersAcquired, Owning
<1> QED
  BY <1>1, OwnersAcquiredStep, TypeCorrect, PTL DEF Spec

\* Exactly one worker executes a run at a time, as long as it renews its
\* lease: neither a duplicate job nor a crash, a resume or a sweep puts a
\* second one beside it.
THEOREM OneExecutes == Spec => []ExclusiveExecution
<1>1. OwnersAcquired /\ HolderOwnsLock => ExclusiveExecution
  BY DEF OwnersAcquired, HolderOwnsLock, ExclusiveExecution, Executing, Owning,
         Holds
<1> QED
  BY <1>1, OwnersAcquiredAlways, LockIsHeld, PTL

-----------------------------------------------------------------------------
(* The claim *)

LEMMA CancelledStep ==
    ASSUME TypeOK, [Next]_vars, row = "CANCELLED"
    PROVE  row' # "RUNNING"
<1>1. ASSUME NEW w \in Workers, WorkerStep(w)
      PROVE  row' # "RUNNING"
  <2>1. CASE Claim(w)
    BY <2>1 DEF Claim
  <2>2. CASE Finish(w)
    <3>1. outcome[w] \in Outcomes
      BY DEF TypeOK
    <3>2. \A o \in Outcomes : StatusOf[o] # "RUNNING"
      BY DEF StatusOf, Outcomes
    <3> QED
      BY <2>2, <3>1, <3>2 DEF Finish
  <2>3. CASE UNCHANGED row
    BY <2>3
  <2> QED
    BY <1>1, <2>1, <2>2, <2>3
       DEF WorkerStep, TakeLock, SkipLocked, Subscribe, SubscribeFails, EnterResumed,
           NotClaimable, LoadFails, Start, GraphStops, AnnounceOutcome,
           Unsubscribe, ReleaseLock, Return
<1>2. ASSUME NEW r \in Requests, RequestStep(r)
      PROVE  row' # "RUNNING"
  BY <1>2 DEF RequestStep, DispatchWrite, DispatchAnnounce, DispatchEnqueue, ResumeCheckLock,
              ResumeWrite, ResumeEnqueue, CancelPublish, CancelWrite,
              CancelAnnounce, OrmWrite
<1>3. CASE \E w \in Workers : Shutdown(w) \/ Crash(w) \/ Restart(w)
  BY <1>3 DEF Shutdown, Crash, Restart
<1>4. CASE \E r \in Requests :
             DispatchLoad(r) \/ ResumeLoad(r) \/ CancelLoad(r) \/ ApiCrash(r)
  BY <1>4 DEF DispatchLoad, ResumeLoad, CancelLoad, ApiCrash
<1>5. CASE ArqStep \/ ReaperStep
  BY <1>5 DEF ArqStep, Pick, PickExhausted, InProgressExpires, ResultExpires,
              ReaperStep, ReapSelect, ReapCheckLock, ReapUpdate, ReapAnnounce
<1>6. CASE DeadLeaseExpires \/ LiveLeaseExpires \/ UNCHANGED vars
  BY <1>6 DEF DeadLeaseExpires, LiveLeaseExpires, vars
<1> QED
  BY <1>1, <1>2, <1>3, <1>4, <1>5, <1>6 DEF Next

\* A queued job does not claim a run whose cancel was written meanwhile: the
\* conditional UPDATE of _claim is what makes the endpoint's write stand
\* against the worker.
THEOREM CancelPreventsClaim == Spec => CancelledIsNotClaimed
<1>1. TypeOK /\ [Next]_vars => [row = "CANCELLED" => row' # "RUNNING"]_vars
  BY CancelledStep
<1> QED
  BY <1>1, TypeCorrect, PTL DEF Spec, CancelledIsNotClaimed

-----------------------------------------------------------------------------
(* What the properties exclude (a stall, a cancel, a second dispatch) is    *)
(* counted in `used`, and a count never falls.                              *)

LEMMA SpendCounts ==
    ASSUME TypeOK, NEW kind \in Kinds, Spend(kind)
    PROVE  /\ used'[kind] > 0
           /\ \A k \in Kinds : used[k] <= used'[k]
BY DEF TypeOK, Spend

LEMMA UsedGrows ==
    ASSUME TypeOK, [Next]_vars
    PROVE  \A k \in Kinds : used[k] \in Nat /\ used'[k] \in Nat /\ used[k] <= used'[k]
<1> USE DEF Kinds
<1>1. CASE UNCHANGED used
  BY <1>1 DEF TypeOK
<1>2. CASE \E k \in Kinds : Spend(k)
  BY <1>2, SpendCounts, SpendType DEF TypeOK
<1>3. ASSUME NEW w \in Workers, WorkerStep(w) \/ Shutdown(w) \/ Crash(w) \/ Restart(w)
      PROVE  UNCHANGED used \/ \E k \in Kinds : Spend(k)
  BY <1>3
     DEF WorkerStep, TakeLock, SkipLocked, Subscribe, SubscribeFails, Claim,
         EnterResumed, NotClaimable, LoadFails, Start, GraphStops, Finish,
         AnnounceOutcome, Unsubscribe, ReleaseLock, Return, Shutdown, Crash, Restart
<1>4. ASSUME NEW r \in Requests,
             \/ RequestStep(r)
             \/ DispatchLoad(r) \/ ResumeLoad(r) \/ CancelLoad(r) \/ ApiCrash(r)
      PROVE  UNCHANGED used \/ \E k \in Kinds : Spend(k)
  BY <1>4
     DEF RequestStep, DispatchLoad, DispatchWrite, DispatchAnnounce, DispatchEnqueue,
         ResumeLoad, ResumeCheckLock, ResumeWrite, ResumeEnqueue,
         CancelLoad, CancelPublish, CancelWrite, CancelAnnounce, ApiCrash
<1>5. CASE ArqStep \/ ReaperStep \/ DeadLeaseExpires \/ LiveLeaseExpires
  BY <1>1, <1>2, <1>5
     DEF ArqStep, Pick, PickExhausted, InProgressExpires, ResultExpires,
         ReaperStep, ReapSelect, ReapCheckLock, ReapUpdate, ReapAnnounce,
         DeadLeaseExpires, LiveLeaseExpires
<1>6. CASE UNCHANGED vars
  BY <1>1, <1>6 DEF vars
<1> QED
  BY <1>1, <1>2, <1>3, <1>4, <1>5, <1>6 DEF Next

\* What has not happened after a step had not happened before it.
LEMMA StillNever ==
    ASSUME TypeOK, [Next]_vars, NEW k \in Kinds
    PROVE  /\ Never(k)' => Never(k)
           /\ AtMostOne(k)' => AtMostOne(k)
BY UsedGrows DEF Never, AtMostOne

-----------------------------------------------------------------------------
(* One job *)

Active(w) == pc[w] \notin {"idle", "down"}

\* arq runs one job of this run at a time, and knows who does: as long as no
\* lease lapses, a worker inside execute_run is the one of the in-progress
\* key, its job is still recorded, its try spent, and a kept result leaves no
\* job behind.
OneJob ==
    Never("stall") =>
        /\ lost = {}
        /\ \A w \in Workers : Active(w) => inProgress = w /\ resume[w] = job.resume
        /\ inProgress # NoWorker => job # NoJob /\ job.tries = 1
        /\ kept => job = NoJob

LEMMA OneJobStep == TypeOK /\ OneJob /\ [Next]_vars => OneJob'
<1> SUFFICES ASSUME TypeOK, OneJob, [Next]_vars, Never("stall")'
             PROVE  OneJob'
  BY DEF OneJob
<1>0. Never("stall")
  BY StillNever DEF Kinds
<1> USE NoWorkerAssumption, NoJobAssumption, <1>0 DEF TypeOK, LeaseTypeOK, OneJob, Active
<1>1. ASSUME NEW w \in Workers, Pick(w)
      PROVE  OneJob'
  BY <1>1 DEF Pick, At
<1>2. ASSUME NEW w \in Workers, Return(w)
      PROVE  OneJob'
  BY <1>2 DEF Return, KeepResult, At
<1>3. ASSUME NEW w \in Workers, Crash(w)
      PROVE  OneJob'
  BY <1>3 DEF Crash, Die
<1>4. ASSUME NEW w \in Workers, TakeLock(w) \/ ReleaseLock(w)
      PROVE  OneJob'
  BY <1>4 DEF TakeLock, Acquire, ReleaseLock, Release, At
<1>5. ASSUME NEW w \in Workers,
             \/ SkipLocked(w) \/ Subscribe(w) \/ SubscribeFails(w) \/ Claim(w)
             \/ EnterResumed(w) \/ NotClaimable(w) \/ LoadFails(w) \/ Start(w)
      PROVE  OneJob'
  BY <1>5 DEF SkipLocked, Subscribe, SubscribeFails, Claim, EnterResumed,
              NotClaimable, LoadFails, Start, At
<1>6. ASSUME NEW w \in Workers,
             \/ GraphStops(w) \/ Finish(w) \/ AnnounceOutcome(w) \/ Unsubscribe(w)
             \/ Shutdown(w) \/ Restart(w)
      PROVE  OneJob'
  BY <1>6 DEF GraphStops, Finish, AnnounceOutcome, Unsubscribe, Shutdown, Restart, At
<1>7. ASSUME NEW r \in Requests, DispatchEnqueue(r) \/ ResumeEnqueue(r)
      PROVE  OneJob'
  BY <1>7 DEF DispatchEnqueue, ResumeEnqueue, Enqueue
<1>8. CASE PickExhausted \/ InProgressExpires \/ ResultExpires
  BY <1>8 DEF PickExhausted, KeepResult, InProgressExpires, ResultExpires
<1>9. CASE DeadLeaseExpires
  BY <1>9 DEF DeadLeaseExpires, Expire
<1>10. ~LiveLeaseExpires
  BY SpendCounts DEF LiveLeaseExpires, Never, Kinds
<1>11. CASE UNCHANGED <<lost, pc, inProgress, resume, job, kept>>
  BY <1>11
<1>12. ASSUME NEW r \in Requests,
              \/ DispatchLoad(r) \/ DispatchWrite(r) \/ DispatchAnnounce(r)
              \/ ResumeLoad(r) \/ ResumeCheckLock(r) \/ ResumeWrite(r)
              \/ CancelLoad(r) \/ CancelPublish(r) \/ CancelWrite(r)
              \/ CancelAnnounce(r) \/ ApiCrash(r)
      PROVE  OneJob'
  BY <1>11, <1>12
     DEF DispatchLoad, DispatchWrite, DispatchAnnounce, ResumeLoad, ResumeCheckLock,
         ResumeWrite, CancelLoad, CancelPublish, CancelWrite, CancelAnnounce, ApiCrash
<1>13. CASE ReaperStep
  BY <1>11, <1>13
     DEF ReaperStep, ReapSelect, ReapCheckLock, ReapUpdate, ReapAnnounce
<1>14. CASE UNCHANGED vars
  BY <1>11, <1>14 DEF vars
<1> QED
  BY <1>1, <1>2, <1>3, <1>4, <1>5, <1>6, <1>7, <1>8, <1>9, <1>10, <1>12, <1>13,
     <1>14 DEF Next, WorkerStep, RequestStep, ArqStep

-----------------------------------------------------------------------------
(* The sweep of the reaper *)

Cancelling(r) == api[r] \in {"cancel_publish", "cancel_write", "cancel_announce"}
Unclaimed(w) == pc[w] \in {"acquire", "subscribe", "claim"}
Fresh == job # NoJob /\ job.tries = 0

\* While the row says RUNNING no job of the run waits to be picked or claimed,
\* and no request can enqueue one: those in flight are older than a kept
\* result.  So what the reaper sees as RUNNING and unlocked stays unlocked
\* until it writes.
SweepIsQuiet ==
    Never("cancel") /\ Never("stall") =>
        /\ \A r \in Requests : ~Cancelling(r)
        /\ Fresh => row # "RUNNING"
        /\ \A w \in Workers : Unclaimed(w) => row # "RUNNING"
        /\ \A r \in Requests :
             InFlight(r) /\ row = "RUNNING" /\ job = NoJob => kept /\ r \in older
        /\ reaper \in {"selected", "unlocked"} =>
             /\ ~Fresh
             /\ \A w \in Workers : ~Unclaimed(w)
             /\ job = NoJob /\ ~kept => row = "RUNNING"
        /\ reaper = "unlocked" => \A w \in Workers : pc[w] \notin Owning

\* What the steps of the worker and the reaper need from the lease.
LEMMA OwnerHasLock ==
    ASSUME TypeOK, OneJob, OwnersAcquired, HolderOwnsLock, Never("stall"),
           NEW w \in Workers, pc[w] \in Owning
    PROVE  lock = w
BY DEF TypeOK, LeaseTypeOK, OneJob, OwnersAcquired, HolderOwnsLock, Holds

LEMMA SweepIsQuietStep ==
    TypeOK /\ OneJob /\ OwnersAcquired /\ HolderOwnsLock /\ SweepIsQuiet /\ [Next]_vars
        => SweepIsQuiet'
<1> SUFFICES ASSUME TypeOK, OneJob, OwnersAcquired, HolderOwnsLock, SweepIsQuiet,
                    [Next]_vars, Never("cancel")', Never("stall")'
             PROVE  SweepIsQuiet'
  BY DEF SweepIsQuiet
<1>0. Never("cancel") /\ Never("stall")
  BY StillNever DEF Kinds
<1> USE NoWorkerAssumption, NoJobAssumption, <1>0
    DEF TypeOK, LeaseTypeOK, OneJob, Active, SweepIsQuiet, Fresh, Unclaimed,
        Cancelling, InFlight
<1>1. ASSUME NEW w \in Workers, Pick(w)
      PROVE  SweepIsQuiet'
  BY <1>1 DEF Pick, At, Owning
<1>2. ASSUME NEW w \in Workers, Return(w)
      PROVE  SweepIsQuiet'
  BY <1>2 DEF Return, KeepResult, At, Owning
<1>3. ASSUME NEW w \in Workers, Crash(w) \/ Restart(w)
      PROVE  SweepIsQuiet'
  BY <1>3 DEF Crash, Restart, At, Owning
<1>4. ASSUME NEW w \in Workers, TakeLock(w) \/ ReleaseLock(w) \/ SkipLocked(w)
      PROVE  SweepIsQuiet'
  BY <1>4 DEF TakeLock, ReleaseLock, SkipLocked, At, Owning
<1>5. ASSUME NEW w \in Workers, Claim(w) \/ Finish(w)
      PROVE  SweepIsQuiet'
  <2>1. \A o \in Outcomes : StatusOf[o] # "RUNNING"
    BY DEF StatusOf, Outcomes
  <2>2. Active(w) /\ job # NoJob /\ job.tries = 1 /\ inProgress = w
    BY <1>5 DEF Claim, Finish, At
  <2> QED
    BY <1>5, <2>1, <2>2 DEF Claim, Finish, At, Owning
<1>6. ASSUME NEW w \in Workers,
             \/ Subscribe(w) \/ SubscribeFails(w) \/ EnterResumed(w)
             \/ NotClaimable(w) \/ LoadFails(w) \/ Start(w)
      PROVE  SweepIsQuiet'
  BY <1>6 DEF Subscribe, SubscribeFails, EnterResumed, NotClaimable, LoadFails,
              Start, At, Owning
<1>7. ASSUME NEW w \in Workers,
             \/ GraphStops(w) \/ AnnounceOutcome(w) \/ Unsubscribe(w) \/ Shutdown(w)
      PROVE  SweepIsQuiet'
  BY <1>7 DEF GraphStops, AnnounceOutcome, Unsubscribe, Shutdown, At, Owning
<1>8. ASSUME NEW r \in Requests, DispatchEnqueue(r) \/ ResumeEnqueue(r)
      PROVE  SweepIsQuiet'
  BY <1>8 DEF DispatchEnqueue, ResumeEnqueue, Enqueue, ApiAt, Owning
<1>9. ASSUME NEW r \in Requests, DispatchLoad(r) \/ ResumeLoad(r) \/ ApiCrash(r)
      PROVE  SweepIsQuiet'
  BY <1>9 DEF DispatchLoad, ResumeLoad, ApiCrash, ApiAt, Resumable
<1>10. ASSUME NEW r \in Requests, DispatchWrite(r) \/ ResumeWrite(r)
       PROVE  SweepIsQuiet'
  BY <1>10 DEF DispatchWrite, ResumeWrite, OrmWrite, ApiAt
<1>11. ASSUME NEW r \in Requests, DispatchAnnounce(r) \/ ResumeCheckLock(r)
       PROVE  SweepIsQuiet'
  BY <1>11 DEF DispatchAnnounce, ResumeCheckLock, ApiAt
<1>12. ASSUME NEW r \in Requests
       PROVE  ~CancelLoad(r) /\ ~CancelPublish(r) /\ ~CancelWrite(r) /\ ~CancelAnnounce(r)
  BY SpendCounts DEF CancelLoad, CancelPublish, CancelWrite, CancelAnnounce, ApiAt,
                     Never, Kinds
<1>13. CASE PickExhausted \/ InProgressExpires \/ ResultExpires
  BY <1>13 DEF PickExhausted, KeepResult, InProgressExpires, ResultExpires
<1>14. CASE ReapCheckLock
  BY <1>14, OwnerHasLock DEF ReapCheckLock, ReaperAt
<1>15. CASE ReapSelect \/ ReapUpdate \/ ReapAnnounce
  BY <1>15 DEF ReapSelect, ReapUpdate, ReapAnnounce, ReaperAt
<1>16. CASE DeadLeaseExpires \/ LiveLeaseExpires
  BY <1>16 DEF DeadLeaseExpires, LiveLeaseExpires
<1>17. CASE UNCHANGED vars
  BY <1>17 DEF vars
<1> QED
  BY <1>1, <1>2, <1>3, <1>4, <1>5, <1>6, <1>7, <1>8, <1>9, <1>10, <1>11, <1>12,
     <1>13, <1>14, <1>15, <1>16, <1>17
     DEF Next, WorkerStep, RequestStep, ArqStep, ReaperStep

\* What holds whatever is dispatched, resumed or broken.
Carried ==
    TypeOK /\ OneJob /\ OwnersAcquired /\ HolderOwnsLock /\ SweepIsQuiet

LEMMA CarriedAlways == Spec => []Carried
<1>1. Init => OneJob
  BY DEF Init, LeaseInit, OneJob, Active
<1>2. Init => SweepIsQuiet
  BY DEF Init, SweepIsQuiet, Cancelling, Fresh, Unclaimed, InFlight, Owning
<1> QED
  BY <1>1, <1>2, OneJobStep, SweepIsQuietStep, TypeCorrect, OwnersAcquiredAlways,
     LockIsHeld, PTL DEF Spec, Carried

\* Only the reaper writes INTERRUPTED, and only over a row that says RUNNING.
LEMMA OnlyReaperInterrupts ==
    ASSUME TypeOK, [Next]_vars, row' = "INTERRUPTED", row # "INTERRUPTED"
    PROVE  ReapUpdate /\ reaper = "unlocked" /\ row = "RUNNING"
<1>1. \A o \in Outcomes : StatusOf[o] # "INTERRUPTED"
  BY DEF StatusOf, Outcomes
<1>2. ~UNCHANGED row
  OBVIOUS
<1>3. ASSUME NEW w \in Workers
      PROVE  /\ ~WorkerStep(w) /\ ~Shutdown(w) /\ ~Crash(w)
             /\ ~Restart(w) /\ ~Pick(w)
  BY <1>1, <1>2
     DEF TypeOK, WorkerStep, TakeLock, SkipLocked, Subscribe, SubscribeFails, Claim,
         EnterResumed, NotClaimable, LoadFails, Start, GraphStops, Finish,
         AnnounceOutcome, Unsubscribe, ReleaseLock, Return, Shutdown, Crash, Restart,
         Pick
<1>4. ASSUME NEW r \in Requests
      PROVE  /\ ~RequestStep(r) /\ ~DispatchLoad(r) /\ ~ResumeLoad(r)
             /\ ~CancelLoad(r) /\ ~ApiCrash(r)
  BY <1>2
     DEF RequestStep, DispatchLoad, DispatchWrite, DispatchAnnounce, DispatchEnqueue,
         ResumeLoad, ResumeCheckLock, ResumeWrite, ResumeEnqueue, CancelLoad,
         CancelPublish, CancelWrite, CancelAnnounce, ApiCrash, OrmWrite
<1>5. /\ ~PickExhausted /\ ~InProgressExpires /\ ~ResultExpires
      /\ ~ReapSelect /\ ~ReapCheckLock /\ ~ReapAnnounce
      /\ ~DeadLeaseExpires /\ ~LiveLeaseExpires /\ ~(UNCHANGED vars)
  BY <1>2 DEF PickExhausted, InProgressExpires, ResultExpires, ReapSelect,
              ReapCheckLock, ReapAnnounce, DeadLeaseExpires, LiveLeaseExpires, vars
<1>6. ReapUpdate
  BY <1>3, <1>4, <1>5 DEF Next, ArqStep, ReaperStep
<1> QED
  BY <1>2, <1>6 DEF ReapUpdate, ReaperAt

\* The reaper never interrupts a run that a live worker is executing, although
\* it reads the row, reads the lock and writes the row in three steps: the
\* kept result of the last job keeps every other job away meanwhile.
THEOREM ReaperIsSafe == Spec => ReaperSparesHolder
<1>1. Carried /\ [Next]_vars =>
        [/\ Never("cancel") /\ Never("stall")
         /\ row' = "INTERRUPTED" /\ row # "INTERRUPTED"
         => ~\E w \in Workers : Executing(w) /\ Holds(w)]_vars
  BY OnlyReaperInterrupts DEF Carried, SweepIsQuiet, Executing, Owning
<1> QED
  BY <1>1, CarriedAlways, PTL DEF Spec, ReaperSparesHolder

-----------------------------------------------------------------------------
(* One dispatch *)

Dispatching(r) ==
    api[r] \in {"dispatch_write", "dispatch_announce", "dispatch_enqueue"}
Resuming(r) == api[r] \in {"resume_lock", "resume_write", "resume_enqueue"}

\* The dispatch has not reached its claim: still to come, in its endpoint, in
\* the queue, or with a worker.
Pending ==
    \/ Never("dispatch")
    \/ \E r \in Requests : Dispatching(r)
    \/ Fresh /\ ~job.resume
    \/ \E w \in Workers : Unclaimed(w) /\ ~resume[w]

NothingResumed ==
    /\ \A r \in Requests : ~Resuming(r)
    /\ job # NoJob => ~job.resume

\* A run dispatched once is PENDING until its one claim and RUNNING from then
\* to its end, and nothing is resumed before it has ended.
OneRun ==
    AtMostOne("dispatch") /\ Never("cancel") /\ Never("stall") =>
        /\ Never("dispatch") =>
             /\ \A r \in Requests : ~Dispatching(r)
             /\ job # NoJob => job.resume
        /\ \A q, r \in Requests : Dispatching(q) /\ Dispatching(r) => q = r
        /\ \A r \in Requests :
             Dispatching(r) => loaded[r] = "PENDING" /\ job = NoJob
        /\ Pending => row = "PENDING" /\ NothingResumed
        /\ row = "RUNNING" => NothingResumed
        /\ \A w \in Workers : Executing(w) /\ ~resume[w] => row = "RUNNING"

LEMMA OneRunStep == Carried /\ OneRun /\ [Next]_vars => OneRun'
<1> SUFFICES ASSUME Carried, OneRun, [Next]_vars,
                    AtMostOne("dispatch")', Never("cancel")', Never("stall")'
             PROVE  OneRun'
  BY DEF OneRun
<1>0. /\ AtMostOne("dispatch") /\ Never("cancel") /\ Never("stall")
      /\ Never("dispatch")' => Never("dispatch")
      /\ used["dispatch"] \in Nat
  BY StillNever DEF Kinds, Carried, TypeOK
<1> USE NoWorkerAssumption, NoJobAssumption, <1>0
    DEF Carried, TypeOK, LeaseTypeOK, OneJob, Active, SweepIsQuiet, Fresh, Unclaimed,
        Cancelling, InFlight, OneRun, Pending, NothingResumed, Dispatching,
        Resuming, Executing
<1>1. ASSUME NEW w \in Workers, Pick(w)
      PROVE  OneRun'
  BY <1>1 DEF Pick, At, Never, AtMostOne
<1>2. ASSUME NEW w \in Workers, Return(w)
      PROVE  OneRun'
  BY <1>2 DEF Return, KeepResult, At, Never
<1>3. ASSUME NEW w \in Workers, Crash(w) \/ Restart(w)
      PROVE  OneRun'
  BY <1>3 DEF Crash, Restart, At
<1>4. ASSUME NEW w \in Workers, TakeLock(w) \/ ReleaseLock(w) \/ SkipLocked(w)
      PROVE  OneRun'
  BY <1>4 DEF TakeLock, ReleaseLock, SkipLocked, At, Never
<1>5. ASSUME NEW w \in Workers, Claim(w)
      PROVE  OneRun'
  BY <1>5 DEF Claim, At, Never
<1>6. ASSUME NEW w \in Workers, Finish(w)
      PROVE  OneRun'
  <2>1. \A o \in Outcomes : StatusOf[o] # "RUNNING"
    BY DEF StatusOf, Outcomes
  <2> QED
    BY <1>6, <2>1 DEF Finish, At
<1>7. ASSUME NEW w \in Workers,
             \/ Subscribe(w) \/ SubscribeFails(w) \/ EnterResumed(w)
             \/ NotClaimable(w) \/ LoadFails(w) \/ Start(w)
      PROVE  OneRun'
  BY <1>7 DEF Subscribe, SubscribeFails, EnterResumed, NotClaimable, LoadFails,
              Start, At
<1>8. ASSUME NEW w \in Workers,
             \/ GraphStops(w) \/ AnnounceOutcome(w) \/ Unsubscribe(w) \/ Shutdown(w)
      PROVE  OneRun'
  BY <1>8 DEF GraphStops, AnnounceOutcome, Unsubscribe, Shutdown, At
<1>9. ASSUME NEW r \in Requests, DispatchLoad(r)
      PROVE  OneRun'
  BY <1>9 DEF DispatchLoad, Spend, ApiAt, AtMostOne, Never, Kinds
<1>10. ASSUME NEW r \in Requests, DispatchEnqueue(r)
       PROVE  OneRun'
  BY <1>10 DEF DispatchEnqueue, Enqueue, ApiAt, Never
<1>11. ASSUME NEW r \in Requests, ResumeEnqueue(r)
       PROVE  OneRun'
  BY <1>11 DEF ResumeEnqueue, Enqueue, ApiAt, Never
<1>12. ASSUME NEW r \in Requests, DispatchWrite(r) \/ DispatchAnnounce(r)
       PROVE  OneRun'
  BY <1>12 DEF DispatchWrite, DispatchAnnounce, OrmWrite, ApiAt, Never
<1>13. ASSUME NEW r \in Requests, ResumeLoad(r) \/ ResumeCheckLock(r) \/ ResumeWrite(r)
       PROVE  OneRun'
  BY <1>13 DEF ResumeLoad, ResumeCheckLock, ResumeWrite, OrmWrite, ApiAt, Resumable
<1>14. ASSUME NEW r \in Requests, ApiCrash(r)
       PROVE  OneRun'
  BY <1>14 DEF ApiCrash, ApiAt
<1>15. ASSUME NEW r \in Requests
       PROVE  ~CancelLoad(r) /\ ~CancelPublish(r) /\ ~CancelWrite(r) /\ ~CancelAnnounce(r)
  BY SpendCounts DEF CancelLoad, CancelPublish, CancelWrite, CancelAnnounce, ApiAt,
                     Never, Kinds
<1>16. CASE PickExhausted \/ InProgressExpires \/ ResultExpires
  BY <1>16 DEF PickExhausted, KeepResult, InProgressExpires, ResultExpires, Never
<1>17. CASE ReapUpdate
  BY <1>17 DEF ReapUpdate, ReaperAt, Owning
<1>18. CASE UNCHANGED <<row, job, pc, resume, api, loaded>>
  BY <1>18
<1>19. CASE \/ ReapSelect \/ ReapCheckLock \/ ReapAnnounce
            \/ DeadLeaseExpires \/ LiveLeaseExpires \/ UNCHANGED vars
  BY <1>18, <1>19
     DEF ReapSelect, ReapCheckLock, ReapAnnounce, DeadLeaseExpires,
         LiveLeaseExpires, vars
<1> QED
  BY <1>1, <1>2, <1>3, <1>4, <1>5, <1>6, <1>7, <1>8, <1>9, <1>10, <1>11, <1>12,
     <1>13, <1>14, <1>15, <1>16, <1>17, <1>19
     DEF Next, WorkerStep, RequestStep, ArqStep, ReaperStep

LEMMA OneRunAlways == Spec => []OneRun
<1>1. Init => OneRun
  BY DEF Init, OneRun, Never, Pending, Dispatching, Resuming, NothingResumed,
         Fresh, Unclaimed, Executing
<1> QED
  BY <1>1, OneRunStep, CarriedAlways, PTL DEF Spec

\* While the worker that claimed the one dispatch executes it, the row says
\* RUNNING: no second write of the endpoint, no resume, no sweep and no other
\* worker's finish reaches it.
THEOREM RunningIsRecorded == Spec => []OwnedExecutionIsRunning
<1>1. OneRun => OwnedExecutionIsRunning
  BY DEF OneRun, OwnedExecutionIsRunning
<1> QED
  BY <1>1, OneRunAlways, PTL

-----------------------------------------------------------------------------
(* The state machine *)

\* The row a worker finishes says RUNNING, unless the worker was stopped
\* before its claim.
FinishesRunning ==
    AtMostOne("dispatch") /\ Never("resume") /\ Never("cancel")
        /\ Never("stall") /\ Never("io") =>
        /\ NothingResumed
        /\ \A w \in Workers :
             pc[w] = "finish" =>
                 \/ row = "RUNNING"
                 \/ row = "PENDING" /\ outcome[w] = "SHUTDOWN"

LEMMA FinishesRunningStep ==
    Carried /\ OneRun /\ FinishesRunning /\ [Next]_vars => FinishesRunning'
<1> SUFFICES ASSUME Carried, OneRun, FinishesRunning, [Next]_vars,
                    AtMostOne("dispatch")', Never("resume")', Never("cancel")',
                    Never("stall")', Never("io")'
             PROVE  FinishesRunning'
  BY DEF FinishesRunning
<1>0. /\ AtMostOne("dispatch") /\ Never("resume") /\ Never("cancel")
      /\ Never("stall") /\ Never("io")
  BY StillNever DEF Kinds, Carried
<1> USE NoWorkerAssumption, NoJobAssumption, <1>0
    DEF Carried, TypeOK, LeaseTypeOK, OneJob, Active, SweepIsQuiet, Fresh, Unclaimed,
        Cancelling, InFlight, OneRun, Pending, NothingResumed, Dispatching,
        Resuming, Executing, FinishesRunning
<1>1. ASSUME NEW w \in Workers, Pick(w) \/ Return(w)
      PROVE  FinishesRunning'
  BY <1>1 DEF Pick, Return, KeepResult, At
<1>2. ASSUME NEW w \in Workers, Crash(w) \/ Restart(w)
      PROVE  FinishesRunning'
  BY <1>2 DEF Crash, Restart, At
<1>3. ASSUME NEW w \in Workers, TakeLock(w) \/ ReleaseLock(w) \/ SkipLocked(w)
      PROVE  FinishesRunning'
  BY <1>3 DEF TakeLock, ReleaseLock, SkipLocked, At
<1>4. ASSUME NEW w \in Workers, Claim(w) \/ Finish(w)
      PROVE  FinishesRunning'
  BY <1>4 DEF Claim, Finish, At
<1>5. ASSUME NEW w \in Workers
      PROVE  ~SubscribeFails(w) /\ ~LoadFails(w)
  BY SpendCounts DEF SubscribeFails, LoadFails, Never, Kinds
<1>6. ASSUME NEW w \in Workers, NotClaimable(w) \/ Start(w) \/ EnterResumed(w)
      PROVE  FinishesRunning'
  BY <1>6 DEF NotClaimable, Start, EnterResumed, At
<1>7. ASSUME NEW w \in Workers, GraphStops(w) \/ Shutdown(w)
      PROVE  FinishesRunning'
  BY <1>7 DEF GraphStops, Shutdown, At
<1>8. ASSUME NEW w \in Workers, Subscribe(w) \/ AnnounceOutcome(w) \/ Unsubscribe(w)
      PROVE  FinishesRunning'
  BY <1>8 DEF Subscribe, AnnounceOutcome, Unsubscribe, At
<1>9. ASSUME NEW r \in Requests, DispatchWrite(r) \/ ResumeWrite(r)
      PROVE  FinishesRunning'
  BY <1>9 DEF DispatchWrite, ResumeWrite, OrmWrite, ApiAt
<1>10. ASSUME NEW r \in Requests, DispatchEnqueue(r) \/ ResumeEnqueue(r)
       PROVE  FinishesRunning'
  BY <1>10 DEF DispatchEnqueue, ResumeEnqueue, Enqueue, ApiAt
<1>11. ASSUME NEW r \in Requests, DispatchLoad(r) \/ DispatchAnnounce(r) \/ ApiCrash(r)
       PROVE  FinishesRunning'
  BY <1>11 DEF DispatchLoad, DispatchAnnounce, ApiCrash, ApiAt
<1>12. ASSUME NEW r \in Requests
       PROVE  /\ ~ResumeLoad(r) /\ ~ResumeCheckLock(r)
              /\ ~CancelLoad(r) /\ ~CancelPublish(r) /\ ~CancelWrite(r) /\ ~CancelAnnounce(r)
  BY SpendCounts
     DEF ResumeLoad, ResumeCheckLock, CancelLoad, CancelPublish, CancelWrite,
         CancelAnnounce, ApiAt, Never, Kinds
<1>13. CASE PickExhausted \/ InProgressExpires \/ ResultExpires
  BY <1>13 DEF PickExhausted, KeepResult, InProgressExpires, ResultExpires
<1>14. CASE ReapUpdate
  BY <1>14 DEF ReapUpdate, ReaperAt, Owning
<1>15. CASE UNCHANGED <<row, job, pc, outcome, api>>
  BY <1>15
<1>16. CASE \/ ReapSelect \/ ReapCheckLock \/ ReapAnnounce
            \/ DeadLeaseExpires \/ LiveLeaseExpires \/ UNCHANGED vars
  BY <1>15, <1>16
     DEF ReapSelect, ReapCheckLock, ReapAnnounce, DeadLeaseExpires,
         LiveLeaseExpires, vars
<1> QED
  BY <1>1, <1>2, <1>3, <1>4, <1>5, <1>6, <1>7, <1>8, <1>9, <1>10, <1>11, <1>12,
     <1>13, <1>14, <1>16
     DEF Next, WorkerStep, RequestStep, ArqStep, ReaperStep

LEMMA FinishesRunningAlways == Spec => []FinishesRunning
<1>1. Init => FinishesRunning
  BY DEF Init, FinishesRunning, NothingResumed, Resuming
<1> QED
  BY <1>1, FinishesRunningStep, OneRunAlways, CarriedAlways, PTL DEF Spec

\* A step that changes the row is one of the five writers.
LEMMA RowWriters ==
    ASSUME TypeOK, [Next]_vars, row' # row
    PROVE  \/ \E w \in Workers : Claim(w) \/ Finish(w)
           \/ \E r \in Requests : DispatchWrite(r) \/ ResumeWrite(r) \/ CancelWrite(r)
           \/ ReapUpdate
<1>1. ASSUME NEW w \in Workers
      PROVE  /\ WorkerStep(w) => Claim(w) \/ Finish(w)
             /\ ~Shutdown(w) /\ ~Crash(w) /\ ~Restart(w) /\ ~Pick(w)
  BY DEF WorkerStep, TakeLock, SkipLocked, Subscribe, SubscribeFails,
         EnterResumed, NotClaimable, LoadFails, Start, GraphStops,
         AnnounceOutcome, Unsubscribe, ReleaseLock, Return, Shutdown, Crash, Restart,
         Pick
<1>2. ASSUME NEW r \in Requests
      PROVE  /\ RequestStep(r) => DispatchWrite(r) \/ ResumeWrite(r) \/ CancelWrite(r)
             /\ ~DispatchLoad(r) /\ ~ResumeLoad(r) /\ ~CancelLoad(r) /\ ~ApiCrash(r)
  BY DEF RequestStep, DispatchLoad, DispatchAnnounce, DispatchEnqueue,
         ResumeLoad, ResumeCheckLock, ResumeEnqueue, CancelLoad,
         CancelPublish, CancelAnnounce, ApiCrash
<1>3. /\ ~PickExhausted /\ ~InProgressExpires /\ ~ResultExpires
      /\ ~ReapSelect /\ ~ReapCheckLock /\ ~ReapAnnounce
      /\ ~DeadLeaseExpires /\ ~LiveLeaseExpires /\ ~(UNCHANGED vars)
  BY DEF PickExhausted, InProgressExpires, ResultExpires, ReapSelect,
         ReapCheckLock, ReapAnnounce, DeadLeaseExpires, LiveLeaseExpires, vars
<1> QED
  BY <1>1, <1>2, <1>3 DEF Next, ArqStep, ReaperStep

\* A run dispatched once and left to itself moves along the arrows of the
\* documented state machine, through crashes, shutdowns and sweeps.
THEOREM RowFollowsDiagram == Spec => FollowsDiagram
<1>1. ASSUME Carried, OneRun, FinishesRunning, [Next]_vars, row' # row,
             AtMostOne("dispatch"), Never("resume"), Never("cancel"),
             Never("stall"), Never("io")
      PROVE  <<row, row'>> \in Diagram
  <2> USE DEF Carried, OneRun, FinishesRunning
  <2>1. ASSUME NEW w \in Workers, Claim(w)
        PROVE  <<row, row'>> \in Diagram
    BY <2>1 DEF Claim, Diagram
  <2>2. ASSUME NEW w \in Workers, Finish(w)
        PROVE  <<row, row'>> \in Diagram
    <3>1. outcome[w] \in Outcomes /\ pc[w] = "finish" /\ row' = StatusOf[outcome[w]]
      BY <1>1, <2>2 DEF TypeOK, Finish, At
    <3>2. \A o \in Outcomes : StatusOf[o] \in {"COMPLETED", "FAILED", "CANCELLED"}
      BY DEF StatusOf, Outcomes
    <3>3. "SHUTDOWN" \in Outcomes /\ StatusOf["SHUTDOWN"] = "CANCELLED"
      BY Zenon DEF StatusOf, Outcomes
    <3>4. \/ row = "RUNNING"
          \/ row = "PENDING" /\ outcome[w] = "SHUTDOWN"
      BY <1>1, <2>2, <3>1
    <3> QED
      BY <3>1, <3>2, <3>3, <3>4 DEF Diagram
  <2>3. ASSUME NEW r \in Requests
        PROVE  ~DispatchWrite(r) /\ ~ResumeWrite(r) /\ ~CancelWrite(r)
    BY <1>1 DEF DispatchWrite, ResumeWrite, CancelWrite, OrmWrite, ApiAt, Pending,
                NothingResumed, Dispatching, Resuming, SweepIsQuiet, Cancelling
  <2>4. CASE ReapUpdate
    BY <1>1, <2>4 DEF ReapUpdate, Diagram
  <2> QED
    BY <1>1, <2>1, <2>2, <2>3, <2>4, RowWriters
<1>2. Carried /\ OneRun /\ FinishesRunning /\ [Next]_vars =>
        [/\ AtMostOne("dispatch") /\ Never("resume") /\ Never("cancel")
         /\ Never("stall") /\ Never("io")
         => <<row, row'>> \in Diagram]_row
  BY <1>1
<1> QED
  BY <1>2, CarriedAlways, OneRunAlways, FinishesRunningAlways, PTL
     DEF Spec, FollowsDiagram

-----------------------------------------------------------------------------
(* The newest frame *)

Undisturbed ==
    AtMostOne("dispatch") /\ Never("cancel") /\ Never("crash")
        /\ Never("stall") /\ Never("io")

\* The row said so before the frame does: the one worker of the run is between
\* them, and nobody else writes an end.
EndIsTold ==
    Undisturbed =>
        /\ row = "RUNNING" =>
             \E w \in Workers : pc[w] \in {"start", "graph", "finish"}
        /\ row # "INTERRUPTED" /\ reaper # "announce"
        /\ row \in Terminal =>
             \A w \in Workers : pc[w] = "announce" => row = StatusOf[outcome[w]]
        /\ row \in Terminal
             /\ (\A w \in Workers : pc[w] \notin {"graph", "finish", "announce"})
             => lastEvent = EventFor[row]

LEMMA EndIsToldStep ==
    Carried /\ OneRun /\ EndIsTold /\ [Next]_vars => EndIsTold'
<1> SUFFICES ASSUME Carried, OneRun, EndIsTold, [Next]_vars, Undisturbed'
             PROVE  EndIsTold'
  BY DEF EndIsTold
<1>0. /\ AtMostOne("dispatch") /\ Never("cancel") /\ Never("crash")
      /\ Never("stall") /\ Never("io")
      /\ Never("crash")' /\ Never("io")' /\ Never("cancel")'
  BY StillNever DEF Kinds, Carried, Undisturbed
<1> USE NoWorkerAssumption, NoJobAssumption, <1>0
    DEF Carried, TypeOK, LeaseTypeOK, OneJob, Active, SweepIsQuiet, Unclaimed,
        Cancelling, OneRun, Dispatching, Undisturbed, EndIsTold
<1>1. ASSUME NEW w \in Workers, Pick(w) \/ Return(w)
      PROVE  EndIsTold'
  BY <1>1 DEF Pick, Return, KeepResult, At, Terminal
<1>2. ASSUME NEW w \in Workers
      PROVE  ~Crash(w) /\ ~SubscribeFails(w) /\ ~LoadFails(w)
  BY SpendCounts DEF Crash, SubscribeFails, LoadFails, Never, Kinds
<1>3. ASSUME NEW w \in Workers,
             \/ TakeLock(w) \/ ReleaseLock(w) \/ SkipLocked(w) \/ Restart(w)
      PROVE  EndIsTold'
  BY <1>3 DEF TakeLock, ReleaseLock, SkipLocked, Restart, At, Terminal
<1>4. ASSUME NEW w \in Workers, Claim(w)
      PROVE  EndIsTold'
  BY <1>4 DEF Claim, At, Terminal
<1>5. ASSUME NEW w \in Workers, Finish(w)
      PROVE  EndIsTold'
  <2>1. \A o \in Outcomes : StatusOf[o] \in Terminal
    BY DEF StatusOf, Outcomes, Terminal
  <2>2. row' = StatusOf[outcome[w]] /\ row' \in Terminal
    BY <1>5, <2>1, SpendCounts DEF Finish, Never, Kinds
  <2> QED
    BY <1>5, <2>2 DEF Finish, At, Terminal
<1>6. ASSUME NEW w \in Workers, AnnounceOutcome(w)
      PROVE  EndIsTold'
  BY <1>6 DEF AnnounceOutcome, At, Terminal
<1>7. ASSUME NEW w \in Workers, Start(w)
      PROVE  EndIsTold'
  BY <1>7 DEF Start, At, Terminal
<1>8. ASSUME NEW w \in Workers,
             \/ NotClaimable(w) \/ EnterResumed(w) \/ GraphStops(w) \/ Shutdown(w)
      PROVE  EndIsTold'
  BY <1>8 DEF NotClaimable, EnterResumed, GraphStops, Shutdown, At, Terminal
<1>9. ASSUME NEW w \in Workers, Subscribe(w) \/ Unsubscribe(w)
      PROVE  EndIsTold'
  BY <1>9 DEF Subscribe, Unsubscribe, At, Terminal
<1>10. ASSUME NEW r \in Requests, DispatchWrite(r) \/ ResumeWrite(r)
       PROVE  EndIsTold'
  BY <1>10 DEF DispatchWrite, ResumeWrite, OrmWrite, ApiAt, Terminal
<1>11. ASSUME NEW r \in Requests, DispatchAnnounce(r)
       PROVE  EndIsTold'
  BY <1>11 DEF DispatchAnnounce, ApiAt, Pending, Terminal
<1>12. ASSUME NEW r \in Requests
       PROVE  ~CancelLoad(r) /\ ~CancelPublish(r) /\ ~CancelWrite(r) /\ ~CancelAnnounce(r)
  BY SpendCounts DEF CancelLoad, CancelPublish, CancelWrite, CancelAnnounce, ApiAt,
                     Never, Kinds
<1>13. CASE ReapUpdate
  BY <1>13 DEF ReapUpdate, ReaperAt, Owning, Terminal
<1>14. CASE ReapSelect \/ ReapCheckLock \/ ReapAnnounce
  BY <1>14 DEF ReapSelect, ReapCheckLock, ReapAnnounce, ReaperAt, Terminal
<1>15. CASE UNCHANGED <<row, pc, outcome, reaper, lastEvent>>
  BY <1>15 DEF Terminal
<1>16. ASSUME NEW r \in Requests,
              \/ DispatchLoad(r) \/ DispatchEnqueue(r) \/ ResumeLoad(r)
              \/ ResumeCheckLock(r) \/ ResumeEnqueue(r) \/ ApiCrash(r)
       PROVE  EndIsTold'
  BY <1>15, <1>16
     DEF DispatchLoad, DispatchEnqueue, ResumeLoad, ResumeCheckLock, ResumeEnqueue,
         ApiCrash
<1>17. CASE \/ PickExhausted \/ InProgressExpires \/ ResultExpires
            \/ DeadLeaseExpires \/ LiveLeaseExpires \/ UNCHANGED vars
  BY <1>15, <1>17
     DEF PickExhausted, InProgressExpires, ResultExpires, DeadLeaseExpires,
         LiveLeaseExpires, vars
<1> QED
  BY <1>1, <1>2, <1>3, <1>4, <1>5, <1>6, <1>7, <1>8, <1>9, <1>10, <1>11, <1>12,
     <1>13, <1>14, <1>16, <1>17
     DEF Next, WorkerStep, RequestStep, ArqStep, ReaperStep

LEMMA EndIsToldAlways == Spec => []EndIsTold
<1>1. Init => EndIsTold
  BY DEF Init, EndIsTold, Terminal
<1> QED
  BY <1>1, EndIsToldStep, OneRunAlways, CarriedAlways, PTL DEF Spec

\* When nothing is under way, the newest frame of the stream announces the end
\* the row records, whatever was resumed, stopped and swept meanwhile.
THEOREM StreamTellsTheEnd == Spec => []StreamAgreesWithRow
<1>1. EndIsTold => StreamAgreesWithRow
  BY DEF EndIsTold, StreamAgreesWithRow, Undisturbed, AtRest
<1> QED
  BY <1>1, EndIsToldAlways, PTL
=============================================================================
