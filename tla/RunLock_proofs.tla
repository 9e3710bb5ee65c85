--------------------------- MODULE RunLock_proofs ---------------------------
(* Proofs about RunLock, for any set of worker processes, any renewal       *)
(* period and any number of renewals per lease: types, how long a holder    *)
(* keeps the key, and that the clocked lock is a lease.                     *)
EXTENDS RunLock, TLAPS

USE DEF Lease!Holds

-----------------------------------------------------------------------------
(* Types *)

LEMMA Distributes ==
    ASSUME NEW n \in Nat, NEW p \in Nat \ {0}
    PROVE  /\ n * p \in Nat
           /\ (n + 1) * p = n * p + p
           /\ n # 0 => n * p >= p
           /\ 0 * p = 0
OBVIOUS

LEMMA TTLType == TTL \in Nat /\ TTL > 0
BY PeriodAssumption, RenewalsAssumption, Distributes DEF TTL

LEMMA InitType == Init => TypeOK
BY TTLType, NoWorkerAssumption, PeriodAssumption, RenewalsAssumption
   DEF Init, TypeOK, Lease!LeaseInit, Lease!LeaseTypeOK

LEMMA TypeStep == TypeOK /\ [Next]_vars => TypeOK'
<1> SUFFICES ASSUME TypeOK, [Next]_vars
             PROVE  TypeOK'
  OBVIOUS
<1> USE NoWorkerAssumption, PeriodAssumption, RenewalsAssumption, TTLType
    DEF TypeOK, Lease!LeaseTypeOK
<1>1. ASSUME NEW w \in Workers, Acquire(w)
      PROVE  TypeOK'
  BY <1>1 DEF Acquire, Lease!Acquire
<1>2. ASSUME NEW w \in Workers, Renew(w)
      PROVE  TypeOK'
  BY <1>2 DEF Renew
<1>3. ASSUME NEW w \in Workers, RenewLost(w)
      PROVE  TypeOK'
  BY <1>3 DEF RenewLost
<1>4. ASSUME NEW w \in Workers, RenewRaises(w)
      PROVE  TypeOK'
  BY <1>4 DEF RenewRaises
<1>5. ASSUME NEW w \in Workers, Release(w)
      PROVE  TypeOK'
  BY <1>5 DEF Release, Lease!Release, Lease!ReleasedLock
<1>6. ASSUME NEW w \in Workers, Die(w)
      PROVE  TypeOK'
  BY <1>6 DEF Die, Lease!Die
<1>7. CASE Tick
  BY <1>7 DEF Tick, RenewDue, Lease!Expire
<1>8. CASE UNCHANGED vars
  BY <1>8 DEF vars
<1> QED
  BY <1>1, <1>2, <1>3, <1>4, <1>5, <1>6, <1>7, <1>8 DEF Next

\* The types of the key, its TTL and the renewer tasks.
THEOREM TypeCorrect == Spec => []TypeOK
BY InitType, TypeStep, PTL DEF Spec

-----------------------------------------------------------------------------
(* The clock of a holder *)

\* What is left of the lease of a holder is what its renewer has not yet slept
\* through: the renewals that may still fail but one, and the sleep under way.
Remaining(w) == (Renewals - 1 - fails[w]) * Period + timer[w]

\* A holder owns the key, its renewer runs, and the TTL is Remaining; a process
\* that lost its key was in it, does not own it, and had failed often enough.
ClockInv ==
    /\ \A w \in Workers : renewing[w] => acquired[w]
    /\ \A w \in Workers : Lease!Holds(w) =>
          /\ lock = w /\ renewing[w]
          /\ fails[w] < Renewals
          /\ ttl > 0 /\ ttl = Remaining(w)
    /\ \A w \in lost :
          acquired[w] /\ lock # w /\ fails[w] >= Renewals - 1

LEMMA InitClock == Init => ClockInv
BY DEF Init, Lease!LeaseInit, ClockInv

LEMMA ClockStep == TypeOK /\ ClockInv /\ [Next]_vars => ClockInv'
<1> SUFFICES ASSUME TypeOK, ClockInv, [Next]_vars
             PROVE  ClockInv'
  OBVIOUS
<1> USE NoWorkerAssumption, PeriodAssumption, RenewalsAssumption
    DEF TypeOK, Lease!LeaseTypeOK, ClockInv, Remaining, RenewDue
<1>1. ASSUME NEW w \in Workers, Acquire(w)
      PROVE  ClockInv'
  \* The key was absent, so nobody else holds it; a whole lease is Remaining.
  <2>1. (Renewals - 1 - 0) * Period + Period = TTL
    BY Distributes DEF TTL
  <2>2. TTL > 0
    BY TTLType
  <2> QED
    BY <1>1, <2>1, <2>2 DEF Acquire, Lease!Acquire
<1>2. ASSUME NEW w \in Workers, Renew(w)
      PROVE  ClockInv'
  <2>1. (Renewals - 1 - 0) * Period + Period = TTL
    BY Distributes DEF TTL
  <2>2. TTL > 0
    BY TTLType
  <2> QED
    BY <1>2, <2>1, <2>2 DEF Renew
<1>3. ASSUME NEW w \in Workers, RenewLost(w)
      PROVE  ClockInv'
  BY <1>3 DEF RenewLost
<1>4. ASSUME NEW w \in Workers, RenewRaises(w)
      PROVE  ClockInv'
  <2>1. ASSUME Lease!Holds(w)
        PROVE  /\ fails[w] + 1 < Renewals
               /\ ttl = (Renewals - 1 - (fails[w] + 1)) * Period + Period
    \* The TTL is positive at a wake-up, so a whole period of it is left.
    <3>1. ttl = (Renewals - 1 - fails[w]) * Period /\ ttl > 0
      BY <1>4, <2>1 DEF RenewRaises
    <3>2. Renewals - 1 - fails[w] \in Nat \ {0}
      BY <2>1, <3>1, Distributes
    <3> DEFINE n == Renewals - 1 - (fails[w] + 1)
    <3>3. n \in Nat /\ n + 1 = Renewals - 1 - fails[w] /\ fails[w] + 1 < Renewals
      BY <3>2
    <3>4. ttl = n * Period + Period
      BY <3>1, <3>3, Distributes
    <3> QED
      BY <3>3, <3>4
  <2> QED
    BY <1>4, <2>1 DEF RenewRaises
<1>5. ASSUME NEW w \in Workers, Release(w)
      PROVE  ClockInv'
  BY <1>5 DEF Release, Lease!Release, Lease!ReleasedLock
<1>6. ASSUME NEW w \in Workers, Die(w)
      PROVE  ClockInv'
  BY <1>6 DEF Die, Lease!Die
<1>7. CASE Tick
  <2>1. ASSUME NEW w \in Workers, Lease!Holds(w)
        PROVE  /\ timer[w] > 0
               /\ timer'[w] = timer[w] - 1
               /\ ttl' = ttl - 1
               /\ ttl = 1 => fails[w] >= Renewals - 1
    <3>1. timer[w] > 0 /\ timer'[w] = timer[w] - 1 /\ ttl' = ttl - 1
      BY <1>7, <2>1 DEF Tick
    <3>2. ASSUME Renewals - 1 - fails[w] # 0
          PROVE  ttl > 1
      <4>1. Renewals - 1 - fails[w] \in Nat \ {0}
        BY <2>1, <3>2
      <4>2. (Renewals - 1 - fails[w]) * Period >= Period
        BY <4>1, Distributes
      <4> QED
        BY <2>1, <3>1, <4>2
    <3> QED
      BY <3>1, <3>2
  <2>2. CASE ttl = 1
    \* The key expires: its owner, if it lives, joins lost.
    BY <1>7, <2>1, <2>2 DEF Tick, Lease!Expire
  <2>3. CASE ttl # 1
    <3>1. ASSUME NEW w \in Workers, Lease!Holds(w)
          PROVE  ttl' > 0 /\ ttl' = Remaining(w)'
      BY <1>7, <2>1, <2>3, <3>1, Distributes DEF Tick
    <3> QED
      BY <1>7, <2>3, <3>1 DEF Tick
  <2> QED
    BY <2>2, <2>3
<1>8. CASE UNCHANGED vars
  BY <1>8 DEF vars
<1> QED
  BY <1>1, <1>2, <1>3, <1>4, <1>5, <1>6, <1>7, <1>8 DEF Next

LEMMA ClockCorrect == Spec => []ClockInv
BY InitType, TypeStep, InitClock, ClockStep, PTL DEF Spec

\* A live holder loses its key only after all but the last renewal of a lease
\* raised in a row, however long the period and the lease are.
THEOREM BlipsAreSurvived == Spec => []BlipsDoNotLoseLease
<1>1. TypeOK /\ ClockInv => BlipsDoNotLoseLease
  BY DEF ClockInv, BlipsDoNotLoseLease
<1> QED
  BY <1>1, ClockCorrect, TypeCorrect, PTL

\* With its clocks, too, whoever acquired the lock and did not outlive its TTL
\* owns the key, and is the only one.
THEOREM ClockedLockIsHeld == Spec => [](Lease!HolderOwnsLock /\ Lease!ExclusiveHolder)
<1>1. ClockInv => Lease!HolderOwnsLock /\ Lease!ExclusiveHolder
  BY DEF ClockInv, Lease!HolderOwnsLock, Lease!ExclusiveHolder
<1> QED
  BY <1>1, ClockCorrect, PTL

-----------------------------------------------------------------------------
(* Refinement *)

LEMMA LeaseStep == Next => [Lease!LeaseNext]_(Lease!leaseVars)
<1> SUFFICES ASSUME Next
             PROVE  [Lease!LeaseNext]_(Lease!leaseVars)
  OBVIOUS
<1> USE DEF Lease!LeaseNext, Lease!leaseVars
<1>1. ASSUME NEW w \in Workers, Acquire(w) \/ Release(w) \/ Die(w)
      PROVE  Lease!LeaseNext
  BY <1>1 DEF Acquire, Release, Die
<1>2. ASSUME NEW w \in Workers, Renew(w) \/ RenewLost(w) \/ RenewRaises(w)
      PROVE  UNCHANGED Lease!leaseVars
  BY <1>2 DEF Renew, RenewLost, RenewRaises
<1>3. CASE Tick
  \* Either the TTL runs out, or nothing the lease knows changes.
  BY <1>3 DEF Tick
<1> QED
  BY <1>1, <1>2, <1>3 DEF Next

\* The clocked lock implements the lease: renewals stutter, the last unit of
\* the TTL is its expiry.
THEOREM LockImplementsLease == Spec => ImplementsLease
<1>1. Init => Lease!LeaseInit
  BY DEF Init
<1>2. [Next]_vars => [Lease!LeaseNext]_(Lease!leaseVars)
  BY LeaseStep DEF vars, Lease!leaseVars
<1> QED
  BY <1>1, <1>2, PTL DEF Spec, ImplementsLease, Lease!LeaseSpec
=============================================================================
