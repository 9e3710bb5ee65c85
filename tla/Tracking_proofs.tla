---------------------------- MODULE Tracking_proofs ----------------------------
(* Proofs about what a run leaves behind, its accounts of itself and its     *)
(* containers. Tracking, for any number of attempts, any size of a tick and  *)
(* any number of faults of every kind: an attempt has one child run unless   *)
(* two loggers were at it at the same time, and the run a row of experiments *)
(* names is the complete run of its attempt. Reporting, for any budget and   *)
(* any number of failures: the report tells what happened, the bundle holds  *)
(* the artifacts of its code, and run memory what was resolved in a run that *)
(* succeeded. Sandbox, for any number of executions of                       *)
(* a revision and any number of faults: one container at most has the name   *)
(* of the revision, what a verdict says is true of the container it is       *)
(* about, and the reaper spares the current one.                             *)
EXTENDS Tracking, Reporting, Sandbox, FiniteSetTheorems, SequenceTheorems, TLAPS

LOCAL INSTANCE Bags

-----------------------------------------------------------------------------
(* Sequences of child runs and of rows *)

LEMMA ChildrenType ==
    ASSUME NEW s \in Seq(ChildRuns)
    PROVE  /\ Len(s) \in Nat /\ DOMAIN s = 1..Len(s)
           /\ \A c \in 1..Len(s) : s[c] \in ChildRuns
  OBVIOUS

LEMMA ChildrenAppend ==
    ASSUME NEW s \in Seq(ChildRuns), NEW a \in ChildRuns
    PROVE  /\ Append(s, a) \in Seq(ChildRuns) /\ Len(Append(s, a)) = Len(s) + 1
           /\ DOMAIN Append(s, a) = 1..(Len(s) + 1)
           /\ \A c \in 1..Len(s) : Append(s, a)[c] = s[c]
           /\ Append(s, a)[Len(s) + 1] = a
  OBVIOUS

LEMMA ChildrenExcept ==
    ASSUME NEW s \in Seq(ChildRuns), NEW b \in 1..Len(s), NEW a \in ChildRuns
    PROVE  /\ [s EXCEPT ![b] = a] \in Seq(ChildRuns)
           /\ Len([s EXCEPT ![b] = a]) = Len(s)
           /\ [s EXCEPT ![b] = a][b] = a
           /\ \A c \in 1..Len(s) : c # b => [s EXCEPT ![b] = a][c] = s[c]
  OBVIOUS

LEMMA RowsType ==
    ASSUME NEW s \in Seq(Experiments)
    PROVE  /\ Len(s) \in Nat /\ DOMAIN s = 1..Len(s)
           /\ \A c \in 1..Len(s) : s[c] \in Experiments
  OBVIOUS

LEMMA RowsAppend ==
    ASSUME NEW s \in Seq(Experiments), NEW a \in Experiments
    PROVE  /\ Append(s, a) \in Seq(Experiments) /\ Len(Append(s, a)) = Len(s) + 1
           /\ DOMAIN Append(s, a) = 1..(Len(s) + 1)
           /\ \A c \in 1..Len(s) : Append(s, a)[c] = s[c]
           /\ Append(s, a)[Len(s) + 1] = a
  OBVIOUS

LEMMA RowsExcept ==
    ASSUME NEW s \in Seq(Experiments), NEW b \in 1..Len(s), NEW a \in Experiments
    PROVE  /\ [s EXCEPT ![b] = a] \in Seq(Experiments)
           /\ Len([s EXCEPT ![b] = a]) = Len(s)
           /\ [s EXCEPT ![b] = a][b] = a
           /\ \A c \in 1..Len(s) : c # b => [s EXCEPT ![b] = a][c] = s[c]
  OBVIOUS

LEMMA TagsType ==
    ASSUME NEW a \in 1..Attempts, NEW b \in BOOLEAN, NEW n \in 0..2
    PROVE  [attempt |-> a, criteria_passed |-> b, stage |-> n] \in ChildRuns
BY DEF ChildRuns

LEMMA RowType ==
    ASSUME NEW a \in 1..Attempts, NEW n \in Nat
    PROVE  [attempt |-> a, run |-> n, dead |-> FALSE] \in Experiments
BY DEF Experiments

LEMMA ThreadExcept ==
    ASSUME NEW t \in Threads, NEW st \in Stages, NEW c \in Nat
    PROVE  /\ [t EXCEPT !.at = st] \in Threads
           /\ [t EXCEPT !.at = st, !.child = c] \in Threads
           /\ [t EXCEPT !.child = c, !.at = st] \in Threads
BY DEF Threads

LEMMA IdleIsThread == IdleLogger \in Threads
BY AttemptsAssumption DEF IdleLogger, Threads, Stages

LEMMA BegunIsThread ==
    ASSUME NEW a \in 1..Attempts, NEW p \in BOOLEAN
    PROVE  [at |-> "parent", attempt |-> a, child |-> 0, plan |-> p] \in Threads
BY AttemptsAssumption DEF Threads, Stages

-----------------------------------------------------------------------------
(* Types *)

\* A thread that is at work is at one of the attempts, and at a child run of it
\* from the time it has found or created one; that run is complete before
\* anything is registered, promoted or returned.
AtItsRun(thread, runs) ==
    /\ thread.at # "idle" => thread.attempt # 0
    /\ thread.at \in {"write", "upload", "register", "promote", "return"} => thread.child # 0
    /\ thread.child # 0 =>
         thread.child \in DOMAIN runs /\ runs[thread.child].attempt = thread.attempt
    /\ thread.at \in {"register", "promote", "return"} => runs[thread.child].stage = 2

Working == \A l \in Loggers : AtItsRun(logging[l], children)

LEMMA ThreadsMove ==
    ASSUME TrackingTypeOK, NEW l \in Loggers, NEW t \in Threads
    PROVE  [logging EXCEPT ![l] = t] \in [Loggers -> Threads]
BY DEF TrackingTypeOK

LEMMA ToType ==
    ASSUME TrackingTypeOK, NEW l \in Loggers, NEW st \in Stages, To(l, st)
    PROVE  logging' \in [Loggers -> Threads]
<1>1. [logging[l] EXCEPT !.at = st] \in Threads
  BY ThreadExcept DEF TrackingTypeOK, Threads
<1>2. logging' = [logging EXCEPT ![l] = [logging[l] EXCEPT !.at = st]]
  BY DEF To
<1> QED
  BY <1>1, <1>2, ThreadsMove

LEMMA ChancesType ==
    ASSUME TrackingTypeOK, NEW fault \in TrackingFaults, Happens(fault)
    PROVE  chances' \in [TrackingFaults -> Nat]
BY DEF TrackingTypeOK, Happens

LEMMA TagsOfThread ==
    ASSUME TrackingTypeOK, NEW l \in Loggers, logging[l].attempt # 0, NEW n \in 0..2
    PROVE  /\ ChildTags(l, n) \in ChildRuns
           /\ ChildTags(l, n).attempt = logging[l].attempt
           /\ ChildTags(l, n).stage = n
<1>1. logging[l].attempt \in 1..Attempts
  BY AttemptsAssumption DEF TrackingTypeOK, Threads
<1>2. CriteriaPassed(l) \in BOOLEAN
  BY DEF CriteriaPassed
<1> QED
  BY <1>1, <1>2, TagsType DEF ChildTags

\* What a step may do to the child runs: none is lost, none changes its attempt,
\* and a complete one stays complete.
ChildrenKept ==
    /\ children' \in Seq(ChildRuns)
    /\ \A c \in DOMAIN children :
         /\ c \in DOMAIN children'
         /\ children'[c].attempt = children[c].attempt
         /\ children[c].stage = 2 => children'[c].stage = 2

LEMMA SameChildren ==
    ASSUME TrackingTypeOK, UNCHANGED children
    PROVE  ChildrenKept
BY DEF TrackingTypeOK, ChildrenKept

\* CreateChild adds one child run, of the logger's attempt, behind the others.
LEMMA CreateChildStep ==
    ASSUME TrackingTypeOK, Working, NEW l \in Loggers, CreateChild(l)
    PROVE  /\ ChildrenKept
           /\ DOMAIN children' = DOMAIN children \cup {Len(children) + 1}
           /\ Len(children) + 1 \notin DOMAIN children
           /\ children'[Len(children) + 1].attempt = logging[l].attempt
           /\ Len(children) \in Nat
<1>1. logging[l].attempt # 0
  BY DEF Working, AtItsRun, CreateChild
<1>2. /\ ChildTags(l, 0) \in ChildRuns
      /\ ChildTags(l, 0).attempt = logging[l].attempt
  BY <1>1, TagsOfThread
<1>3. children \in Seq(ChildRuns) /\ children' = Append(children, ChildTags(l, 0))
  BY DEF TrackingTypeOK, CreateChild
<1>4. /\ Len(children) \in Nat /\ DOMAIN children = 1..Len(children)
      /\ children' \in Seq(ChildRuns) /\ DOMAIN children' = 1..(Len(children) + 1)
      /\ \A c \in 1..Len(children) : children'[c] = children[c]
      /\ children'[Len(children) + 1] = ChildTags(l, 0)
  BY <1>2, <1>3, ChildrenType, ChildrenAppend
<1> QED
  BY <1>2, <1>4 DEF ChildrenKept

\* Write and Upload change the child run the logger is at.
LEMMA UpdateKeeps ==
    ASSUME TrackingTypeOK, NEW b \in DOMAIN children, NEW t \in ChildRuns,
           t.attempt = children[b].attempt, children[b].stage = 2 => t.stage = 2,
           children' = [children EXCEPT ![b] = t]
    PROVE  /\ ChildrenKept
           /\ DOMAIN children' = DOMAIN children
           /\ children'[b] = t
<1>1. children \in Seq(ChildRuns) /\ b \in 1..Len(children) /\ DOMAIN children = 1..Len(children)
  BY ChildrenType DEF TrackingTypeOK
<1>2. /\ children' \in Seq(ChildRuns) /\ DOMAIN children' = DOMAIN children
      /\ children'[b] = t
      /\ \A c \in 1..Len(children) : c # b => children'[c] = children[c]
  BY <1>1, ChildrenExcept
<1> QED
  BY <1>1, <1>2 DEF ChildrenKept

LEMMA WriteStep ==
    ASSUME TrackingTypeOK, Working, NEW l \in Loggers, Write(l)
    PROVE  ChildrenKept /\ DOMAIN children' = DOMAIN children
<1> DEFINE b == logging[l].child
           t == ChildTags(l, AtLeast(children[b].stage, 1))
<1>1. /\ logging[l].attempt # 0 /\ b \in DOMAIN children
      /\ children[b].attempt = logging[l].attempt
  BY DEF Working, AtItsRun, Write
<1>2. children[b] \in ChildRuns
  BY <1>1, ChildrenType DEF TrackingTypeOK
<1>3. /\ AtLeast(children[b].stage, 1) \in 0..2
      /\ children[b].stage = 2 => AtLeast(children[b].stage, 1) = 2
  BY <1>2 DEF ChildRuns, AtLeast
<1>4. t \in ChildRuns /\ t.attempt = children[b].attempt /\ (children[b].stage = 2 => t.stage = 2)
  BY <1>1, <1>3, TagsOfThread
<1>5. children' = [children EXCEPT ![b] = t]
  BY DEF Write
<1> HIDE DEF b, t
<1> QED
  BY <1>1, <1>4, <1>5, UpdateKeeps

LEMMA UploadStep ==
    ASSUME TrackingTypeOK, Working, NEW l \in Loggers, Upload(l)
    PROVE  /\ ChildrenKept /\ DOMAIN children' = DOMAIN children
           /\ children'[logging[l].child].stage = 2
<1> DEFINE b == logging[l].child
           t == [children[b] EXCEPT !.stage = 2]
<1>1. b \in DOMAIN children
  BY DEF Working, AtItsRun, Upload
<1>2. children[b] \in ChildRuns
  BY <1>1, ChildrenType DEF TrackingTypeOK
<1>3. t \in ChildRuns /\ t.attempt = children[b].attempt /\ t.stage = 2
  BY <1>2 DEF ChildRuns
<1>4. children' = [children EXCEPT ![b] = t]
  BY DEF Upload
<1>5. children' = [children EXCEPT ![b] = t] /\ b = logging[l].child
  BY <1>4
<1> HIDE DEF b, t
<1>6. ChildrenKept /\ DOMAIN children' = DOMAIN children /\ children'[b] = t
  BY <1>1, <1>3, <1>4, UpdateKeeps
<1> QED
  BY <1>3, <1>5, <1>6

\* Every other step leaves the child runs as they are.
LEMMA ChildrenStep ==
    ASSUME TrackingTypeOK, Working, [TrackingNext]_trackingVars
    PROVE  /\ ChildrenKept
           /\ (\A l \in Loggers : ~CreateChild(l)) => DOMAIN children' = DOMAIN children
<1>1. ASSUME NEW l \in Loggers, CreateChild(l)
      PROVE  ChildrenKept
  BY <1>1, CreateChildStep
<1>2. ASSUME NEW l \in Loggers, Write(l) \/ Upload(l)
      PROVE  ChildrenKept /\ DOMAIN children' = DOMAIN children
  BY <1>2, WriteStep, UploadStep
<1>3. ASSUME NEW l \in Loggers,
             \/ FindParent(l) \/ CreateParent(l) \/ FindChild(l) \/ Register(l) \/ Promote(l)
             \/ ServerDown(l) \/ Abandon(l)
      PROVE  UNCHANGED children
  BY <1>3 DEF FindParent, CreateParent, FindChild, Register, Promote, ServerDown, Abandon,
     mlflowVars
<1>4. CASE NodeStep \/ CronStep
  <2>1. UNCHANGED children
    BY <1>4 DEF NodeStep, CronStep, StartNode, Persist, Checkpoint, Tick, MarkDead, TryRow,
       CronReturns, mlflowVars
  <2> QED
    BY <2>1, SameChildren
<1>5. CASE \/ OldEnds \/ CrashWorker \/ Prune \/ (\E a \in 1..Attempts : Spoil(a))
           \/ UNCHANGED trackingVars
  <2>1. UNCHANGED children
    BY <1>5 DEF OldEnds, CrashWorker, Prune, Spoil, trackingVars, mlflowVars
  <2> QED
    BY <2>1, SameChildren
<1> QED
  BY <1>1, <1>2, <1>3, <1>4, <1>5, SameChildren DEF TrackingNext, LogStep

LEMMA StaysAtItsRun ==
    ASSUME TrackingTypeOK, ChildrenKept, NEW t \in Threads, AtItsRun(t, children)
    PROVE  AtItsRun(t, children')
BY DEF ChildrenKept, AtItsRun

\* What a step makes of the threads: one of them moves, to a point at which it is
\* at its run; or one is abandoned; or all are gone.
ThreadMoves(l, t) ==
    /\ logging' = [logging EXCEPT ![l] = t]
    /\ t \in Threads
    /\ AtItsRun(t, children')

LEMMA IdleIsAtItsRun == \A runs : AtItsRun(IdleLogger, runs)
BY DEF AtItsRun, IdleLogger

LEMMA LoggerMoves ==
    ASSUME TrackingTypeOK, Working, NEW l \in Loggers, LogStep(l) \/ ServerDown(l)
    PROVE  \E t \in Threads : ThreadMoves(l, t) /\ t.attempt = logging[l].attempt /\ t.at # "idle"
<1> DEFINE t(st) == [logging[l] EXCEPT !.at = st]
<1>1. logging[l] \in Threads /\ logging \in [Loggers -> Threads] /\ AtItsRun(logging[l], children)
  BY DEF TrackingTypeOK, Working
<1>2. ASSUME NEW st \in Stages
      PROVE  /\ t(st) \in Threads /\ t(st).at = st /\ t(st).child = logging[l].child
             /\ t(st).attempt = logging[l].attempt
             /\ To(l, st) => logging' = [logging EXCEPT ![l] = t(st)]
  BY <1>1, <1>2, ThreadExcept DEF Threads, To
<1>3. ASSUME UNCHANGED children, logging[l].at # "idle", NEW st \in Stages,
             st \in {"child", "newparent", "newchild", "failed"}, To(l, st)
      PROVE  ThreadMoves(l, t(st)) /\ st # "idle"
  BY <1>1, <1>2, <1>3 DEF ThreadMoves, AtItsRun
<1>4. ASSUME UNCHANGED children, logging[l].at \in {"register", "promote"}, NEW st \in Stages,
             st \in {"promote", "return"}, To(l, st)
      PROVE  ThreadMoves(l, t(st)) /\ st # "idle"
  BY <1>1, <1>2, <1>4 DEF ThreadMoves, AtItsRun
<1>5. CASE FindParent(l) \/ CreateParent(l) \/ ServerDown(l)
  <2>1. /\ UNCHANGED children /\ logging[l].at # "idle"
        /\ To(l, "child") \/ To(l, "newparent") \/ To(l, "failed")
    BY <1>5 DEF FindParent, CreateParent, ServerDown, InThread, mlflowVars
  <2>2. {"child", "newparent", "failed"} \subseteq Stages
    BY DEF Stages
  <2> QED
    BY <1>2, <1>3, <2>1, <2>2
<1>6. CASE FindChild(l)
  <2>1. UNCHANGED children /\ logging[l].at = "child" /\ "newchild" \in Stages /\ "write" \in Stages
    BY <1>6 DEF FindChild, mlflowVars, Stages
  <2>2. CASE To(l, "newchild")
    BY <1>2, <1>3, <2>1, <2>2
  <2>3. ASSUME NEW c \in FindRuns(logging[l].attempt),
               logging' = [logging EXCEPT ![l].child = c, ![l].at = "write"]
        PROVE  \E u \in Threads : ThreadMoves(l, u) /\ u.attempt = logging[l].attempt
                                  /\ u.at # "idle"
    <3> DEFINE u == [logging[l] EXCEPT !.child = c, !.at = "write"]
    <3>1. c \in DOMAIN children /\ children[c].attempt = logging[l].attempt
      BY DEF FindRuns
    <3>2. c \in Nat /\ c # 0
      BY <3>1, ChildrenType DEF TrackingTypeOK
    <3>3. u \in Threads
      BY <1>1, <2>1, <3>2, ThreadExcept
    <3>4. /\ u.attempt = logging[l].attempt /\ u.child = c /\ u.at = "write"
          /\ logging' = [logging EXCEPT ![l] = u]
      BY <1>1, <2>3 DEF Threads
    <3>5. AtItsRun(u, children')
      BY <1>1, <2>1, <3>1, <3>2, <3>4 DEF AtItsRun
    <3> QED
      BY <3>3, <3>4, <3>5 DEF ThreadMoves
  <2> QED
    BY <1>6, <2>2, <2>3 DEF FindChild
<1>7. CASE CreateChild(l)
  <2> DEFINE c == Len(children) + 1
             u == [logging[l] EXCEPT !.child = c, !.at = "write"]
  <2>1. /\ c \in DOMAIN children' /\ children'[c].attempt = logging[l].attempt
        /\ c \in Nat /\ c # 0
    BY <1>7, CreateChildStep
  <2>2. u \in Threads
    BY <1>1, <2>1, ThreadExcept DEF Stages
  <2>3. /\ u.attempt = logging[l].attempt /\ u.child = c /\ u.at = "write"
        /\ logging' = [logging EXCEPT ![l] = u] /\ logging[l].at = "newchild"
    BY <1>1, <1>7 DEF Threads, CreateChild
  <2>4. AtItsRun(u, children')
    BY <1>1, <2>1, <2>3 DEF AtItsRun
  <2> QED
    BY <2>2, <2>3, <2>4 DEF ThreadMoves
<1>8. CASE Write(l)
  <2>1. logging[l].at = "write" /\ To(l, "upload") /\ "upload" \in Stages
    BY <1>8 DEF Write, Stages
  <2>2. AtItsRun(logging[l], children')
    BY <1>1, <1>8, WriteStep, StaysAtItsRun
  <2>3. ThreadMoves(l, t("upload"))
    BY <1>2, <2>1, <2>2 DEF ThreadMoves, AtItsRun
  <2> QED
    BY <1>2, <2>1, <2>3
<1>9. CASE Upload(l)
  <2>1. /\ logging[l].at = "upload"
        /\ To(l, "register") \/ To(l, "promote")
        /\ "register" \in Stages /\ "promote" \in Stages
    BY <1>9 DEF Upload, Stages
  <2>2. AtItsRun(logging[l], children') /\ children'[logging[l].child].stage = 2
    BY <1>1, <1>9, UploadStep, StaysAtItsRun
  <2>3. ASSUME NEW st \in {"register", "promote"}, To(l, st)
        PROVE  ThreadMoves(l, t(st))
    BY <1>2, <1>9, <2>1, <2>2, <2>3 DEF ThreadMoves, AtItsRun, Upload
  <2> QED
    BY <1>2, <1>9, <2>1, <2>3 DEF Upload
<1>10. CASE Register(l)
  <2>1. /\ UNCHANGED children /\ logging[l].at = "register"
        /\ To(l, "promote") \/ To(l, "failed")
    BY <1>10 DEF Register
  <2>2. "promote" \in Stages /\ "failed" \in Stages
    BY DEF Stages
  <2> QED
    BY <1>2, <1>3, <1>4, <2>1, <2>2
<1>11. CASE Promote(l)
  <2>1. UNCHANGED children /\ logging[l].at = "promote" /\ To(l, "return") /\ "return" \in Stages
    BY <1>11 DEF Promote, Stages
  <2> QED
    BY <1>2, <1>4, <2>1
<1> QED
  BY <1>5, <1>6, <1>7, <1>8, <1>9, <1>10, <1>11 DEF LogStep

\* A thread that begins takes an attempt nobody else is at, or one that from then
\* on is known to have been logged twice at a time.
LEMMA BeginMoves ==
    ASSUME TrackingTypeOK, NEW l \in Loggers, NEW a \in 1..Attempts, NEW p \in BOOLEAN,
           Begin(l, a, p), UNCHANGED children
    PROVE  /\ \E t \in Threads : ThreadMoves(l, t) /\ t.attempt = a /\ t.at = "parent"
           /\ twice \subseteq twice' /\ twice' \subseteq 1..Attempts
           /\ (\E k \in Loggers \ {l} : logging[k].attempt = a) => a \in twice'
<1> DEFINE t == [at |-> "parent", attempt |-> a, child |-> 0, plan |-> p]
<1>1. t \in Threads /\ t.attempt = a /\ t.at = "parent"
  BY BegunIsThread
<1>2. AtItsRun(t, children')
  BY AttemptsAssumption DEF AtItsRun
<1> QED
  BY <1>1, <1>2 DEF ThreadMoves, Begin, TrackingTypeOK

Resets(l) == logging' = [logging EXCEPT ![l] = IdleLogger]

LEMMA ResetMoves ==
    ASSUME TrackingTypeOK, NEW l \in Loggers, Resets(l)
    PROVE  ThreadMoves(l, IdleLogger)
BY IdleIsThread, IdleIsAtItsRun DEF Resets, ThreadMoves

\* Every step that changes the threads is one of these.
LEMMA ThreadsStep ==
    ASSUME TrackingTypeOK, Working, [TrackingNext]_trackingVars
    PROVE  \/ UNCHANGED <<logging, twice>>
           \/ /\ UNCHANGED twice
              /\ \E l \in Loggers, t \in Threads :
                   /\ ThreadMoves(l, t)
                   /\ LogStep(l) \/ ServerDown(l) \/ (l = "node" /\ Persist)
                   /\ t.attempt = logging[l].attempt /\ t.at # "idle"
           \/ /\ UNCHANGED twice
              /\ \E l \in Loggers : ThreadMoves(l, IdleLogger) /\ Resets(l)
           \/ \E l \in {"node", "cron"}, t \in Threads, a \in 1..Attempts :
                /\ ThreadMoves(l, t) /\ t.attempt = a /\ t.at = "parent"
                /\ twice \subseteq twice' /\ twice' \subseteq 1..Attempts
                /\ (\E k \in Loggers \ {l} : logging[k].attempt = a) => a \in twice'
                /\ l = "cron" => /\ UNCHANGED <<rows, batch>>
                                 /\ \E r \in batch : IsNext(r) /\ rows[r].attempt = a
           \/ /\ UNCHANGED twice
              /\ \E l \in {"node", "cron"} : Abandon(l)
           \/ UNCHANGED twice /\ CrashWorker
<1>1. ASSUME NEW l \in Loggers, LogStep(l) \/ ServerDown(l)
      PROVE  /\ UNCHANGED twice
             /\ \E t \in Threads : /\ ThreadMoves(l, t)
                                   /\ t.attempt = logging[l].attempt /\ t.at # "idle"
  <2>1. UNCHANGED twice
    BY <1>1 DEF LogStep, FindParent, CreateParent, FindChild, CreateChild, Write, Upload,
       Register, Promote, ServerDown
  <2> QED
    BY <1>1, <2>1, LoggerMoves
<1>2. CASE StartNode
  <2>1. turn \in 1..Attempts
    BY <1>2, AttemptsAssumption DEF StartNode, TrackingTypeOK
  <2>2. Begin("node", turn, TRUE) /\ UNCHANGED children /\ "node" \in Loggers
    BY <1>2 DEF StartNode, mlflowVars, Loggers
  <2> QED
    BY <2>1, <2>2, BeginMoves
<1>3. CASE Persist
  <2>1. /\ To("node", "persisted") /\ UNCHANGED <<twice, children>>
        /\ logging["node"].at \in {"return", "failed"}
        /\ "persisted" \in Stages /\ "node" \in Loggers
    BY <1>3 DEF Persist, mlflowVars, Stages, Loggers
  <2> DEFINE t == [logging["node"] EXCEPT !.at = "persisted"]
  <2>2. logging["node"] \in Threads /\ AtItsRun(logging["node"], children)
    BY <2>1 DEF TrackingTypeOK, Working
  <2>3. /\ t \in Threads /\ t.attempt = logging["node"].attempt /\ t.at = "persisted"
        /\ t.child = logging["node"].child
    BY <2>1, <2>2, ThreadExcept DEF Threads
  <2>4. AtItsRun(t, children')
    BY <2>1, <2>2, <2>3 DEF AtItsRun
  <2>5. logging' = [logging EXCEPT !["node"] = t]
    BY <2>1 DEF To
  <2> HIDE DEF t
  <2>6. ThreadMoves("node", t) /\ t.at # "idle"
    BY <2>3, <2>4, <2>5 DEF ThreadMoves
  <2> QED
    BY <1>3, <2>1, <2>3, <2>6
<1>4. CASE Checkpoint
  <2>1. Resets("node") /\ UNCHANGED twice /\ "node" \in Loggers
    BY <1>4 DEF Checkpoint, Resets, Loggers
  <2> QED
    BY <2>1, ResetMoves
<1>5. CASE Tick \/ \E r \in batch : MarkDead(r)
  BY <1>5 DEF Tick, MarkDead
<1>6. ASSUME NEW r \in batch, TryRow(r)
      PROVE  \/ UNCHANGED <<logging, twice>>
             \/ \E t \in Threads, a \in 1..Attempts :
                  /\ ThreadMoves("cron", t) /\ t.attempt = a /\ t.at = "parent"
                  /\ twice \subseteq twice' /\ twice' \subseteq 1..Attempts
                  /\ (\E k \in Loggers \ {"cron"} : logging[k].attempt = a) => a \in twice'
                  /\ UNCHANGED <<rows, batch>> /\ IsNext(r) /\ rows[r].attempt = a
  <2>1. r \in DOMAIN rows /\ rows[r] \in Experiments
    BY RowsType DEF TrackingTypeOK
  <2>2. rows[r].attempt \in 1..Attempts
    BY <2>1 DEF Experiments
  <2>3. UNCHANGED <<rows, children>> /\ IsNext(r) /\ "cron" \in Loggers
    BY <1>6 DEF TryRow, mlflowVars, Loggers
  <2>4. CASE rows[r].attempt \in spoiled
    BY <1>6, <2>4 DEF TryRow
  <2>5. CASE rows[r].attempt \notin spoiled
    <3>1. Begin("cron", rows[r].attempt, FALSE) /\ UNCHANGED batch
      BY <1>6, <2>5 DEF TryRow
    <3> QED
      BY <2>2, <2>3, <3>1, BeginMoves
  <2> QED
    BY <2>4, <2>5
<1>7. ASSUME NEW r \in batch, CronReturns(r)
      PROVE  Resets("cron") /\ UNCHANGED twice /\ ThreadMoves("cron", IdleLogger)
  BY <1>7, ResetMoves DEF CronReturns, Resets, Loggers
<1>8. CASE OldEnds
  <2>1. Resets("old") /\ UNCHANGED twice /\ "old" \in Loggers
    BY <1>8 DEF OldEnds, Resets, Loggers
  <2> QED
    BY <2>1, ResetMoves
<1>9. ASSUME NEW l \in Loggers, Abandon(l)
      PROVE  l \in {"node", "cron"} /\ UNCHANGED twice
  BY <1>9 DEF Abandon
<1>10. CASE CrashWorker
  BY <1>10 DEF CrashWorker
<1>11. CASE Prune \/ (\E a \in 1..Attempts : Spoil(a)) \/ UNCHANGED trackingVars
  BY <1>11 DEF Prune, Spoil, trackingVars
<1>12. "cron" \in Loggers
  BY DEF Loggers
<1>13. CASE \E l \in Loggers : LogStep(l) \/ ServerDown(l)
  BY <1>1, <1>13
<1>14. CASE \E l \in Loggers : Abandon(l)
  BY <1>9, <1>14
<1>15. CASE CronStep
  <2>1. CASE \E r \in batch : TryRow(r)
    BY <1>6, <2>1
  <2>2. CASE \E r \in batch : CronReturns(r)
    BY <1>7, <1>12, <2>2
  <2> QED
    BY <1>5, <1>15, <2>1, <2>2 DEF CronStep
<1>16. CASE NodeStep
  BY <1>2, <1>4, <1>16, <1>3 DEF NodeStep
<1> QED
  BY <1>8, <1>10, <1>11, <1>13, <1>14, <1>15, <1>16 DEF TrackingNext

LEMMA ThreadsStepType ==
    ASSUME TrackingTypeOK, Working, [TrackingNext]_trackingVars
    PROVE  /\ logging' \in [Loggers -> Threads]
           /\ twice \subseteq twice' /\ twice' \subseteq 1..Attempts
           /\ Working'
<1>1. ChildrenKept
  BY ChildrenStep
<1>2. \A k \in Loggers : logging[k] \in Threads /\ AtItsRun(logging[k], children')
  BY <1>1, StaysAtItsRun DEF TrackingTypeOK, Working
<1>3. twice \subseteq 1..Attempts /\ logging \in [Loggers -> Threads]
  BY DEF TrackingTypeOK
<1>4. ASSUME NEW l \in Loggers, NEW t \in Threads, ThreadMoves(l, t)
      PROVE  logging' \in [Loggers -> Threads] /\ Working'
  BY <1>2, <1>3, <1>4 DEF ThreadMoves, Working
<1>5. CASE UNCHANGED <<logging, twice>>
  BY <1>2, <1>3, <1>5 DEF Working
<1>6. ASSUME NEW l \in {"node", "cron"}, Abandon(l)
      PROVE  logging' \in [Loggers -> Threads] /\ Working'
  <2>1. /\ logging' = [logging EXCEPT !["old"] = logging[l], ![l] = IdleLogger]
        /\ l \in Loggers /\ "old" \in Loggers /\ l # "old"
    BY <1>6 DEF Abandon, Loggers
  <2> QED
    BY <1>2, <1>3, <2>1, IdleIsThread, IdleIsAtItsRun DEF Working
<1>7. CASE CrashWorker
  <2>1. logging' = [l \in Loggers |-> IdleLogger] /\ UNCHANGED twice
    BY <1>7 DEF CrashWorker
  <2>2. \A l \in Loggers : AtItsRun(logging'[l], children')
    BY <2>1, IdleIsAtItsRun
  <2> QED
    BY <1>3, <2>1, <2>2, IdleIsThread DEF Working
<1>8. IdleLogger \in Threads /\ {"node", "cron"} \subseteq Loggers
  BY IdleIsThread DEF Loggers
<1> QED
  BY <1>3, <1>4, <1>5, <1>6, <1>7, <1>8, ThreadsStep

LEMMA TypeInit == TrackingInit => TrackingTypeOK /\ Working
BY AttemptsAssumption, TrackingScenariosAssumption, IdleIsThread, IdleIsAtItsRun
   DEF TrackingInit, TrackingTypeOK, Working

LEMMA RowsStepType ==
    ASSUME TrackingTypeOK, Working, [TrackingNext]_trackingVars
    PROVE  rows' \in Seq(Experiments) /\ batch' \subseteq DOMAIN rows'
<1>1. rows \in Seq(Experiments) /\ batch \subseteq DOMAIN rows
  BY DEF TrackingTypeOK
<1>2. ASSUME NEW l \in Loggers, LogStep(l) \/ ServerDown(l) \/ Abandon(l)
      PROVE  UNCHANGED rows /\ (batch' = batch \/ batch' = {})
  BY <1>2 DEF LogStep, FindParent, CreateParent, FindChild, CreateChild, Write, Upload,
     Register, Promote, ServerDown, Abandon
<1>3. CASE Persist
  <2> DEFINE a == Row(logging["node"].attempt, RunOf("node"))
  <2>1. logging["node"] \in Threads /\ AtItsRun(logging["node"], children)
    BY DEF TrackingTypeOK, Working, Loggers
  <2>2. logging["node"].attempt \in 1..Attempts /\ RunOf("node") \in Nat
    BY <1>3, <2>1, AttemptsAssumption DEF Persist, AtItsRun, Threads, RunOf
  <2>3. a \in Experiments
    BY <2>2, RowType DEF Row
  <2>4. (rows' = Append(rows, a) \/ UNCHANGED rows) /\ UNCHANGED batch
    BY <1>3 DEF Persist
  <2> HIDE DEF a
  <2> QED
    BY <1>1, <2>3, <2>4, RowsType, RowsAppend
<1>4. ASSUME NEW r \in batch, MarkDead(r)
      PROVE  rows' \in Seq(Experiments) /\ batch' \subseteq DOMAIN rows'
  <2> DEFINE a == [rows[r] EXCEPT !.dead = TRUE]
  <2>1. r \in 1..Len(rows) /\ rows[r] \in Experiments
    BY <1>1, RowsType
  <2>2. a \in Experiments
    BY <2>1 DEF Experiments
  <2>3. rows' = [rows EXCEPT ![r] = a] /\ batch' = batch \ {r}
    BY <1>4 DEF MarkDead
  <2> HIDE DEF a
  <2> QED
    BY <1>1, <2>1, <2>2, <2>3, RowsType, RowsExcept
<1>5. ASSUME NEW r \in batch, TryRow(r)
      PROVE  UNCHANGED rows /\ batch' \subseteq batch
  BY <1>5 DEF TryRow, AfterFailure
<1>6. ASSUME NEW r \in batch, CronReturns(r)
      PROVE  rows' \in Seq(Experiments) /\ batch' \subseteq DOMAIN rows'
  <2> DEFINE a == [rows[r] EXCEPT !.run = RunOf("cron")]
  <2>1. r \in 1..Len(rows) /\ rows[r] \in Experiments
    BY <1>1, RowsType
  <2>2. logging["cron"] \in Threads
    BY DEF TrackingTypeOK, Loggers
  <2>3. a \in Experiments
    BY <2>1, <2>2 DEF Experiments, RunOf, Threads
  <2>4. /\ rows' = [rows EXCEPT ![r] = a] \/ UNCHANGED rows
        /\ batch' = batch \ {r}
    BY <1>6 DEF CronReturns, AfterFailure
  <2> HIDE DEF a
  <2> QED
    BY <1>1, <2>1, <2>3, <2>4, RowsType, RowsExcept
<1>7. CASE \/ StartNode \/ Checkpoint \/ OldEnds \/ CrashWorker \/ Prune
           \/ (\E a \in 1..Attempts : Spoil(a)) \/ UNCHANGED trackingVars \/ Tick
  <2>1. UNCHANGED rows /\ (batch' = batch \/ batch' \subseteq DOMAIN rows)
    BY <1>7 DEF StartNode, Checkpoint, OldEnds, CrashWorker, Prune, Spoil, trackingVars, Tick,
       ListMissing, Missing
  <2> QED
    BY <1>1, <2>1
<1> QED
  BY <1>1, <1>2, <1>3, <1>4, <1>5, <1>6, <1>7 DEF TrackingNext, NodeStep, CronStep

LEMMA ChampionStep ==
    ASSUME TrackingTypeOK, Working, NEW l \in Loggers, Register(l)
    PROVE  /\ versions' \in Seq(1..Attempts)
           /\ champion' \in {0} \cup {versions'[v] : v \in DOMAIN versions'}
<1> DEFINE a == logging[l].attempt
<1>1. logging[l] \in Threads /\ AtItsRun(logging[l], children) /\ logging[l].at = "register"
  BY DEF TrackingTypeOK, Working, Register
<1>2. a \in 1..Attempts
  BY <1>1, AttemptsAssumption DEF Threads, AtItsRun
<1>3. /\ versions \in Seq(1..Attempts)
      /\ champion \in {0} \cup {versions[v] : v \in DOMAIN versions}
  BY DEF TrackingTypeOK
<1>4. \/ versions' = Append(versions, a) /\ champion' \in {champion, a}
      \/ UNCHANGED <<versions, champion>>
  BY DEF Register, PromotedBlindly, MaybePromoteChampion
<1> HIDE DEF a
<1>5. ASSUME NEW s \in Seq(1..Attempts), NEW b \in 1..Attempts
      PROVE  /\ Append(s, b) \in Seq(1..Attempts)
             /\ DOMAIN Append(s, b) = 1..(Len(s) + 1) /\ DOMAIN s = 1..Len(s) /\ Len(s) \in Nat
             /\ \A c \in 1..Len(s) : Append(s, b)[c] = s[c]
             /\ Append(s, b)[Len(s) + 1] = b
  OBVIOUS
<1>6. ASSUME NEW s \in Seq(1..Attempts), NEW b \in 1..Attempts
      PROVE  /\ \A v \in DOMAIN s : v \in DOMAIN Append(s, b) /\ Append(s, b)[v] = s[v]
             /\ \E v \in DOMAIN Append(s, b) : Append(s, b)[v] = b
  BY <1>5
<1>7. CASE versions' = Append(versions, a) /\ champion' \in {champion, a}
  BY <1>2, <1>3, <1>5, <1>6, <1>7
<1> QED
  BY <1>3, <1>4, <1>7

\* The node logs the attempt the graph is at.
OnTurn == logging["node"].at # "idle" => logging["node"].attempt = turn

LEMMA OnTurnStep ==
    TrackingTypeOK /\ Working /\ OnTurn /\ [TrackingNext]_trackingVars => OnTurn'
<1> SUFFICES ASSUME TrackingTypeOK, Working, OnTurn, [TrackingNext]_trackingVars
             PROVE  OnTurn'
  OBVIOUS
<1>1. /\ logging \in [Loggers -> Threads] /\ {"node", "cron", "old"} = Loggers
      /\ IdleLogger.at = "idle"
  BY DEF TrackingTypeOK, Loggers, IdleLogger
<1>2. ASSUME NEW l \in Loggers, LogStep(l) \/ ServerDown(l)
      PROVE  OnTurn'
  <2>1. logging[l].at # "idle" /\ UNCHANGED turn
    BY <1>2 DEF LogStep, FindParent, CreateParent, FindChild, CreateChild, Write, Upload,
       Register, Promote, ServerDown, InThread
  <2>2. PICK t \in Threads : ThreadMoves(l, t) /\ t.attempt = logging[l].attempt /\ t.at # "idle"
    BY <1>2, LoggerMoves
  <2> QED
    BY <1>1, <2>1, <2>2 DEF OnTurn, ThreadMoves
<1>3. CASE StartNode
  BY <1>1, <1>3 DEF StartNode, Begin, OnTurn
<1>4. CASE Persist
  BY <1>1, <1>4 DEF Persist, To, OnTurn, Threads
<1>5. CASE Checkpoint \/ CrashWorker
  BY <1>1, <1>5 DEF Checkpoint, CrashWorker, OnTurn
<1>6. ASSUME NEW l \in Loggers, Abandon(l)
      PROVE  OnTurn'
  BY <1>1, <1>6 DEF Abandon, OnTurn
<1>7. ASSUME NEW r \in batch, MarkDead(r) \/ TryRow(r) \/ CronReturns(r)
      PROVE  OnTurn'
  <2>1. UNCHANGED turn /\ logging'["node"] = logging["node"]
    BY <1>1, <1>7 DEF MarkDead, TryRow, CronReturns, Begin
  <2> QED
    BY <2>1 DEF OnTurn
<1>8. CASE OldEnds
  BY <1>1, <1>8 DEF OldEnds, OnTurn
<1>9. CASE Tick \/ Prune \/ (\E a \in 1..Attempts : Spoil(a)) \/ UNCHANGED trackingVars
  BY <1>9 DEF Tick, Prune, Spoil, trackingVars, OnTurn
<1> QED
  BY <1>2, <1>3, <1>4, <1>5, <1>6, <1>7, <1>8, <1>9 DEF TrackingNext, NodeStep, CronStep

\* The types of what is neither a thread, nor a child run, nor a row.
RestTypes ==
    /\ turn \in 1..(Attempts + 1)
    /\ parents \in Nat
    /\ final \in 0..Attempts
    /\ versions \in Seq(1..Attempts)
    /\ champion \in {0} \cup {versions[v] : v \in DOMAIN versions}
    /\ volume \in BOOLEAN
    /\ spoiled \subseteq 1..Attempts
    /\ chances \in [TrackingFaults -> Nat]

MayHappen == UNCHANGED chances \/ \E f \in TrackingFaults : Happens(f)

LEMMA RestIsKept ==
    ASSUME TrackingTypeOK, MayHappen,
           UNCHANGED <<turn, parents, final, versions, champion, volume, spoiled>>
    PROVE  RestTypes'
<1>1. chances' \in [TrackingFaults -> Nat]
  BY ChancesType DEF TrackingTypeOK, MayHappen
<1> QED
  BY <1>1 DEF TrackingTypeOK, RestTypes

LEMMA RestTypesStep ==
    TrackingTypeOK /\ Working /\ OnTurn /\ [TrackingNext]_trackingVars => RestTypes'
<1> SUFFICES ASSUME TrackingTypeOK, Working, OnTurn, [TrackingNext]_trackingVars
             PROVE  RestTypes'
  OBVIOUS
<1> USE DEF mlflowVars, diskVars, TrackingFaults
<1>1. ASSUME NEW l \in Loggers,
             \/ FindParent(l) \/ FindChild(l) \/ CreateChild(l) \/ Write(l) \/ Upload(l)
             \/ ServerDown(l) \/ Abandon(l)
      PROVE  RestTypes'
  <2>1. /\ UNCHANGED <<turn, parents, final, versions, champion, volume, spoiled>>
        /\ MayHappen
    BY <1>1 DEF FindParent, FindChild, CreateChild, Write, Upload, ServerDown, Abandon, MayHappen
  <2> QED
    BY <2>1, RestIsKept
<1>2. CASE StartNode \/ Persist \/ OldEnds \/ CrashWorker \/ UNCHANGED trackingVars
  <2>1. /\ UNCHANGED <<turn, parents, final, versions, champion, volume, spoiled>>
        /\ MayHappen
    BY <1>2 DEF StartNode, Persist, OldEnds, CrashWorker, trackingVars, MayHappen
  <2> QED
    BY <2>1, RestIsKept
<1>3. CASE CronStep
  <2>1. /\ UNCHANGED <<turn, parents, final, versions, champion, volume, spoiled>>
        /\ MayHappen
    BY <1>3 DEF CronStep, Tick, MarkDead, TryRow, CronReturns, MayHappen
  <2> QED
    BY <2>1, RestIsKept
<1>4. ASSUME NEW l \in Loggers, CreateParent(l) \/ Promote(l)
      PROVE  RestTypes'
  <2>1. logging[l] \in Threads
    BY DEF TrackingTypeOK
  <2>2. /\ parents' \in Nat /\ final' \in 0..Attempts
        /\ UNCHANGED <<turn, versions, champion, volume, spoiled, chances>>
    BY <1>4, <2>1 DEF CreateParent, Promote, TrackingTypeOK, Threads
  <2> QED
    BY <2>2 DEF TrackingTypeOK, RestTypes
<1>5. ASSUME NEW l \in Loggers, Register(l)
      PROVE  RestTypes'
  <2>1. UNCHANGED <<turn, parents, final, volume, spoiled>> /\ MayHappen
    BY <1>5 DEF Register, MayHappen
  <2>2. chances' \in [TrackingFaults -> Nat]
    BY <2>1, ChancesType DEF TrackingTypeOK, MayHappen
  <2> QED
    BY <1>5, <2>1, <2>2, ChampionStep DEF TrackingTypeOK, RestTypes
<1>6. CASE Checkpoint
  <2>1. /\ logging["node"] \in Threads /\ turn \in 1..(Attempts + 1)
        /\ logging["node"].attempt = turn
    BY <1>6 DEF TrackingTypeOK, OnTurn, Loggers, Checkpoint
  <2>2. turn' \in 1..(Attempts + 1)
    BY <1>6, <2>1, AttemptsAssumption DEF Checkpoint, Threads
  <2> QED
    BY <1>6, <2>2 DEF TrackingTypeOK, RestTypes, Checkpoint
<1>7. CASE Prune \/ \E a \in 1..Attempts : Spoil(a)
  <2>1. /\ UNCHANGED <<turn, parents, final, versions, champion>> /\ MayHappen
        /\ volume' \in BOOLEAN /\ spoiled' \subseteq 1..Attempts
    BY <1>7 DEF Prune, Spoil, TrackingTypeOK, MayHappen
  <2>2. chances' \in [TrackingFaults -> Nat]
    BY <2>1, ChancesType DEF TrackingTypeOK, MayHappen
  <2> QED
    BY <2>1, <2>2 DEF TrackingTypeOK, RestTypes
<1> QED
  BY <1>1, <1>2, <1>3, <1>4, <1>5, <1>6, <1>7 DEF TrackingNext, LogStep, NodeStep

TypeInv == TrackingTypeOK /\ Working /\ OnTurn

LEMMA TypeInvInit == TrackingInit => TypeInv
BY TypeInit DEF TrackingInit, TypeInv, OnTurn, IdleLogger, Loggers

LEMMA TypeInvStep == TypeInv /\ [TrackingNext]_trackingVars => TypeInv'
<1> SUFFICES ASSUME TypeInv, [TrackingNext]_trackingVars
             PROVE  TypeInv'
  OBVIOUS
<1>1. TrackingTypeOK /\ Working /\ OnTurn
  BY DEF TypeInv
<1>2. /\ logging' \in [Loggers -> Threads] /\ twice' \subseteq 1..Attempts /\ Working'
      /\ children' \in Seq(ChildRuns) /\ rows' \in Seq(Experiments)
      /\ batch' \subseteq DOMAIN rows'
  BY <1>1, ThreadsStepType, ChildrenStep, RowsStepType DEF ChildrenKept
<1>3. RestTypes' /\ OnTurn'
  BY <1>1, RestTypesStep, OnTurnStep
<1> QED
  BY <1>2, <1>3 DEF TypeInv, TrackingTypeOK, RestTypes

-----------------------------------------------------------------------------
(* One child run *)

\* Two threads at one attempt: both were there at the same time.
Together ==
    \A k, l \in Loggers :
        k # l /\ logging[l].attempt # 0 /\ logging[k].attempt = logging[l].attempt
            => logging[l].attempt \in twice

RunsIn(runs, a) == {c \in DOMAIN runs : runs[c].attempt = a}

\* A thread that has looked for a child run and is about to create it: nobody has
\* created one since, unless somebody else was at the attempt.
Unborn ==
    \A l \in Loggers :
        logging[l].at = "newchild" /\ logging[l].attempt \notin twice
            => RunsIn(children, logging[l].attempt) = {}

LEMMA TogetherStep == TypeInv /\ Together /\ [TrackingNext]_trackingVars => Together'
<1> SUFFICES ASSUME TypeInv, Together, [TrackingNext]_trackingVars
             PROVE  Together'
  OBVIOUS
<1>1. TrackingTypeOK /\ Working
  BY DEF TypeInv
<1>2. /\ logging \in [Loggers -> Threads] /\ {"node", "cron", "old"} = Loggers
      /\ IdleLogger.attempt = 0
  BY <1>1 DEF TrackingTypeOK, Loggers, IdleLogger
<1>3. ASSUME NEW l \in Loggers, NEW t \in Threads, ThreadMoves(l, t), UNCHANGED twice,
             t.attempt = logging[l].attempt \/ t.attempt = 0
      PROVE  Together'
  <2>1. /\ logging'[l] = t
        /\ \A k \in Loggers : k # l => logging'[k] = logging[k]
    BY <1>2, <1>3 DEF ThreadMoves
  <2> QED
    BY <1>3, <2>1 DEF Together
<1>4. ASSUME NEW l \in {"node", "cron"}, NEW t \in Threads, ThreadMoves(l, t),
             twice \subseteq twice',
             (\E k \in Loggers \ {l} : logging[k].attempt = t.attempt) => t.attempt \in twice'
      PROVE  Together'
  <2>1. /\ logging'[l] = t /\ l \in Loggers
        /\ \A k \in Loggers : k # l => logging'[k] = logging[k]
    BY <1>2, <1>4 DEF ThreadMoves
  <2> QED
    BY <1>4, <2>1 DEF Together
<1>5. ASSUME NEW l \in {"node", "cron"}, Abandon(l), UNCHANGED twice
      PROVE  Together'
  <2>1. /\ logging'["old"] = logging[l] /\ logging'[l].attempt = 0
        /\ l \in Loggers /\ "old" \in Loggers /\ l # "old"
        /\ \A k \in Loggers : k # l /\ k # "old" => logging'[k] = logging[k]
    BY <1>2, <1>5 DEF Abandon
  <2> SUFFICES ASSUME NEW k \in Loggers, NEW m \in Loggers, k # m, logging'[m].attempt # 0,
                      logging'[k].attempt = logging'[m].attempt
               PROVE  logging'[m].attempt \in twice'
    BY DEF Together
  <2>2. CASE k = "old"
    BY <1>5, <2>1, <2>2 DEF Together
  <2>3. CASE m = "old"
    BY <1>5, <2>1, <2>3 DEF Together
  <2> QED
    BY <1>5, <2>1, <2>2, <2>3 DEF Together
<1>6. CASE CrashWorker
  BY <1>2, <1>6 DEF CrashWorker, Together
<1>7. CASE UNCHANGED <<logging, twice>>
  BY <1>7 DEF Together
<1>8. IdleLogger \in Threads
  BY IdleIsThread
<1> QED
  BY <1>1, <1>2, <1>3, <1>4, <1>5, <1>6, <1>7, <1>8, ThreadsStep

\* Which attempts have a child run only CreateChild changes.
LEMMA RunsStep ==
    ASSUME TrackingTypeOK, Working, [TrackingNext]_trackingVars,
           \A l \in Loggers : ~CreateChild(l)
    PROVE  \A a : RunsIn(children', a) = RunsIn(children, a)
<1>1. ChildrenKept /\ DOMAIN children' = DOMAIN children
  BY ChildrenStep
<1> QED
  BY <1>1 DEF ChildrenKept, RunsIn

LEMMA RunsBorn ==
    ASSUME TrackingTypeOK, Working, NEW l \in Loggers, CreateChild(l)
    PROVE  \A a : a # logging[l].attempt => RunsIn(children', a) = RunsIn(children, a)
<1>1. /\ ChildrenKept /\ DOMAIN children' = DOMAIN children \cup {Len(children) + 1}
      /\ children'[Len(children) + 1].attempt = logging[l].attempt
  BY CreateChildStep
<1> QED
  BY <1>1 DEF ChildrenKept, RunsIn

\* A thread goes to create a child run only from a search that found none.
LEMMA OnlyAfterSearch ==
    ASSUME TrackingTypeOK, NEW l \in Loggers,
           LogStep(l) \/ ServerDown(l) \/ (l = "node" /\ Persist),
           logging'[l].at = "newchild"
    PROVE  RunsIn(children, logging[l].attempt) = {}
<1>1. logging[l] \in Threads /\ logging \in [Loggers -> Threads]
  BY DEF TrackingTypeOK
<1>2. ASSUME NEW st, To(l, st)
      PROVE  logging'[l].at = st
  BY <1>1, <1>2 DEF To, Threads
<1>3. CASE FindChild(l)
  BY <1>1, <1>3 DEF FindChild, FindRuns, RunsIn, Threads
<1>4. CASE CreateChild(l)
  BY <1>1, <1>4 DEF CreateChild, Threads
<1>5. CASE FindParent(l) \/ CreateParent(l) \/ Write(l) \/ Upload(l)
  BY <1>2, <1>5 DEF FindParent, CreateParent, Write, Upload
<1>6. CASE Register(l) \/ Promote(l) \/ ServerDown(l) \/ (l = "node" /\ Persist)
  BY <1>2, <1>6 DEF Register, Promote, ServerDown, Persist
<1> QED
  BY <1>3, <1>4, <1>5, <1>6 DEF LogStep

LEMMA UnbornStep ==
    TypeInv /\ Together /\ Unborn /\ [TrackingNext]_trackingVars => Unborn'
<1> SUFFICES ASSUME TypeInv, Together, Unborn, [TrackingNext]_trackingVars
             PROVE  Unborn'
  OBVIOUS
<1>1. TrackingTypeOK /\ Working
  BY DEF TypeInv
<1>2. /\ logging \in [Loggers -> Threads] /\ {"node", "cron", "old"} = Loggers
      /\ IdleLogger.at = "idle" /\ IdleLogger.attempt = 0
  BY <1>1 DEF TrackingTypeOK, Loggers, IdleLogger
<1>3. twice \subseteq twice'
  BY <1>1, ThreadsStepType
<1>4. ASSUME NEW k \in Loggers, CreateChild(k)
      PROVE  Unborn'
  <2>1. /\ logging'[k].at = "write" /\ UNCHANGED twice
        /\ logging[k].at = "newchild"
        /\ \A l \in Loggers : l # k => logging'[l] = logging[l]
    BY <1>2, <1>4 DEF CreateChild, Threads
  <2>2. \A a : a # logging[k].attempt => RunsIn(children', a) = RunsIn(children, a)
    BY <1>1, <1>4, RunsBorn
  <2>3. ASSUME NEW l \in Loggers, logging'[l].at = "newchild", logging'[l].attempt \notin twice'
        PROVE  RunsIn(children', logging'[l].attempt) = {}
    <3>1. l # k /\ logging'[l] = logging[l]
      BY <2>1, <2>3
    <3>2. logging[l].attempt # 0
      BY <1>1, <2>3, <3>1 DEF Working, AtItsRun
    <3>3. logging[l].attempt # logging[k].attempt
      BY <2>1, <2>3, <3>1, <3>2 DEF Together
    <3>4. RunsIn(children, logging[l].attempt) = {}
      BY <2>1, <2>3, <3>1 DEF Unborn
    <3>5. RunsIn(children', logging'[l].attempt) = RunsIn(children, logging[l].attempt)
      BY <2>2, <3>1, <3>3
    <3> QED
      BY <3>1, <3>4, <3>5
  <2> QED
    BY <2>3 DEF Unborn
<1>5. CASE \A k \in Loggers : ~CreateChild(k)
  <2>1. \A a : RunsIn(children', a) = RunsIn(children, a)
    BY <1>1, <1>5, RunsStep
  <2>2. ASSUME NEW l \in Loggers, logging'[l].at = "newchild", logging'[l].attempt \notin twice'
        PROVE  RunsIn(children, logging'[l].attempt) = {}
    <3>1. ASSUME logging'[l] = logging[l]
          PROVE  RunsIn(children, logging'[l].attempt) = {}
      BY <1>3, <2>2, <3>1 DEF Unborn
    <3>2. ASSUME NEW k \in Loggers, NEW t \in Threads, ThreadMoves(k, t), t.at # "newchild"
          PROVE  RunsIn(children, logging'[l].attempt) = {}
      <4>1. l # k /\ logging'[l] = logging[l]
        BY <1>2, <2>2, <3>2 DEF ThreadMoves
      <4> QED
        BY <3>1, <4>1
    <3>3. ASSUME NEW k \in Loggers, NEW t \in Threads, ThreadMoves(k, t),
                 LogStep(k) \/ ServerDown(k) \/ (k = "node" /\ Persist),
                 t.attempt = logging[k].attempt
          PROVE  RunsIn(children, logging'[l].attempt) = {}
      <4>1. CASE l # k
        BY <1>2, <3>1, <3>3, <4>1 DEF ThreadMoves
      <4>2. CASE l = k
        <5>1. RunsIn(children, logging[l].attempt) = {}
          BY <1>1, <2>2, <3>3, <4>2, OnlyAfterSearch
        <5>2. logging'[l].attempt = logging[l].attempt
          BY <1>2, <3>3, <4>2 DEF ThreadMoves
        <5> QED
          BY <5>1, <5>2
      <4> QED
        BY <4>1, <4>2
    <3>4. ASSUME NEW k \in {"node", "cron"}, Abandon(k), UNCHANGED twice
          PROVE  RunsIn(children, logging'[l].attempt) = {}
      <4>1. /\ k \in Loggers /\ "old" \in Loggers /\ k # "old"
            /\ logging' = [logging EXCEPT !["old"] = logging[k], ![k] = IdleLogger]
        BY <1>2, <3>4 DEF Abandon
      <4>2. l # k
        BY <1>2, <2>2, <4>1
      <4>3. CASE l = "old"
        <5>1. logging'[l] = logging[k]
          BY <1>2, <4>1, <4>3
        <5> QED
          BY <2>2, <3>4, <4>1, <5>1 DEF Unborn
      <4>4. CASE l # "old"
        BY <1>2, <3>1, <4>1, <4>2, <4>4
      <4> QED
        BY <4>3, <4>4
    <3>5. CASE CrashWorker
      BY <1>2, <2>2, <3>5 DEF CrashWorker
    <3>6. IdleLogger \in Threads /\ IdleLogger.at # "newchild" /\ {"node", "cron"} \subseteq Loggers
      BY <1>2, IdleIsThread
    <3> QED
      BY <1>1, <3>1, <3>2, <3>3, <3>4, <3>5, <3>6, ThreadsStep
  <2>3. ASSUME NEW l \in Loggers, logging'[l].at = "newchild", logging'[l].attempt \notin twice'
        PROVE  RunsIn(children', logging'[l].attempt) = {}
    <3>1. RunsIn(children, logging'[l].attempt) = {}
      BY <2>2, <2>3
    <3>2. RunsIn(children', logging'[l].attempt) = RunsIn(children, logging'[l].attempt)
      BY <2>1
    <3> QED
      BY <3>1, <3>2
  <2> QED
    BY <2>3 DEF Unborn
<1> QED
  BY <1>4, <1>5

LEMMA OneChildStep ==
    TypeInv /\ Unborn /\ OneChildPerAttempt /\ [TrackingNext]_trackingVars => OneChildPerAttempt'
<1> SUFFICES ASSUME TypeInv, Unborn, OneChildPerAttempt, [TrackingNext]_trackingVars
             PROVE  OneChildPerAttempt'
  OBVIOUS
<1>1. TrackingTypeOK /\ Working
  BY DEF TypeInv
<1>2. twice \subseteq twice' /\ ChildrenKept
  BY <1>1, ThreadsStepType, ChildrenStep
<1>3. ASSUME NEW l \in Loggers, CreateChild(l)
      PROVE  OneChildPerAttempt'
  <2> DEFINE n == Len(children) + 1
  <2>1. /\ DOMAIN children' = DOMAIN children \cup {n} /\ n \notin DOMAIN children
        /\ children'[n].attempt = logging[l].attempt /\ logging[l].at = "newchild"
    BY <1>1, <1>3, CreateChildStep DEF CreateChild
  <2> HIDE DEF n
  <2>2. ASSUME NEW b \in DOMAIN children, children[b].attempt = logging[l].attempt
        PROVE  logging[l].attempt \in twice
    <3>1. RunsIn(children, logging[l].attempt) # {}
      BY <2>2 DEF RunsIn
    <3> QED
      BY <2>1, <3>1 DEF Unborn
  <2> SUFFICES ASSUME NEW b \in DOMAIN children', NEW c \in DOMAIN children', b # c,
                      children'[b].attempt = children'[c].attempt
               PROVE  children'[b].attempt \in twice'
    BY DEF OneChildPerAttempt
  <2>3. CASE b \in DOMAIN children /\ c \in DOMAIN children
    BY <1>2, <2>3 DEF OneChildPerAttempt, ChildrenKept
  <2>4. CASE b = n \/ c = n
    BY <1>2, <2>1, <2>2, <2>4 DEF ChildrenKept
  <2> QED
    BY <2>1, <2>3, <2>4
<1>4. CASE \A l \in Loggers : ~CreateChild(l)
  <2>1. DOMAIN children' = DOMAIN children
    BY <1>1, <1>4, ChildrenStep
  <2> QED
    BY <1>2, <2>1 DEF OneChildPerAttempt, ChildrenKept
<1> QED
  BY <1>3, <1>4

-----------------------------------------------------------------------------
(* The runs rows name *)

\* While the backfill is logging, it is logging the oldest row of its batch.
Trying ==
    logging["cron"].at # "idle" =>
        \A r \in batch : IsNext(r) => rows[r].attempt = logging["cron"].attempt

NamesCompleteRun(named, runs) ==
    named.run # 0 => /\ named.run \in DOMAIN runs
                     /\ runs[named.run].attempt = named.attempt
                     /\ runs[named.run].stage = 2

RowsNameCompleteRuns == \A r \in DOMAIN rows : NamesCompleteRun(rows[r], children)

\* What log_attempt returned is complete.
LEMMA ReturnedIsComplete ==
    ASSUME Working, NEW l \in Loggers, RunOf(l) # 0
    PROVE  /\ RunOf(l) \in DOMAIN children
           /\ children[RunOf(l)].attempt = logging[l].attempt
           /\ children[RunOf(l)].stage = 2
BY DEF Working, AtItsRun, RunOf

LEMMA PersistRows ==
    ASSUME TrackingTypeOK, Working, Persist
    PROVE  /\ UNCHANGED <<children, batch>>
           /\ UNCHANGED rows
              \/ \E a \in Experiments : /\ rows' = Append(rows, a)
                                        /\ NamesCompleteRun(a, children)
<1> DEFINE a == Row(logging["node"].attempt, RunOf("node"))
<1>1. "node" \in Loggers /\ logging["node"] \in Threads /\ AtItsRun(logging["node"], children)
  BY DEF TrackingTypeOK, Working, Loggers
<1>2. logging["node"].attempt \in 1..Attempts /\ RunOf("node") \in Nat
  BY <1>1, AttemptsAssumption DEF Persist, AtItsRun, Threads, RunOf
<1>3. a \in Experiments /\ a.run = RunOf("node") /\ a.attempt = logging["node"].attempt
  BY <1>2, RowType DEF Row
<1>4. UNCHANGED <<children, batch>> /\ (rows' = Append(rows, a) \/ UNCHANGED rows)
  BY DEF Persist, mlflowVars
<1> HIDE DEF a
<1>5. NamesCompleteRun(a, children)
  BY <1>1, <1>3, ReturnedIsComplete DEF NamesCompleteRun
<1> QED
  BY <1>3, <1>4, <1>5

LEMMA MarkDeadRows ==
    ASSUME TrackingTypeOK, Working, NEW r \in batch, MarkDead(r)
    PROVE  /\ UNCHANGED children /\ r \in 1..Len(rows)
           /\ \E a \in Experiments :
                /\ rows' = [rows EXCEPT ![r] = a] /\ a.attempt = rows[r].attempt
                /\ NamesCompleteRun(rows[r], children) => NamesCompleteRun(a, children)
<1> DEFINE a == [rows[r] EXCEPT !.dead = TRUE]
<1>1. r \in 1..Len(rows) /\ rows[r] \in Experiments
  BY RowsType DEF TrackingTypeOK
<1>2. a \in Experiments /\ a.attempt = rows[r].attempt /\ a.run = rows[r].run
  BY <1>1 DEF Experiments
<1>3. rows' = [rows EXCEPT ![r] = a] /\ UNCHANGED children
  BY DEF MarkDead, mlflowVars
<1> HIDE DEF a
<1> QED
  BY <1>1, <1>2, <1>3 DEF NamesCompleteRun

LEMMA CronReturnsRows ==
    ASSUME TrackingTypeOK, Working, Trying, NEW r \in batch, CronReturns(r)
    PROVE  /\ UNCHANGED children /\ r \in 1..Len(rows)
           /\ \/ UNCHANGED rows
              \/ \E a \in Experiments :
                   /\ rows' = [rows EXCEPT ![r] = a] /\ a.attempt = rows[r].attempt
                   /\ NamesCompleteRun(a, children)
<1> DEFINE a == [rows[r] EXCEPT !.run = RunOf("cron")]
<1>1. r \in 1..Len(rows) /\ rows[r] \in Experiments
  BY RowsType DEF TrackingTypeOK
<1>2. "cron" \in Loggers /\ logging["cron"] \in Threads
  BY DEF TrackingTypeOK, Loggers
<1>3. a \in Experiments /\ a.attempt = rows[r].attempt /\ a.run = RunOf("cron")
  BY <1>1, <1>2 DEF Experiments, RunOf, Threads
<1>4. /\ UNCHANGED children /\ IsNext(r) /\ logging["cron"].at # "idle"
      /\ rows' = [rows EXCEPT ![r] = a] \/ UNCHANGED rows
  BY DEF CronReturns, mlflowVars
<1> HIDE DEF a
<1>5. rows[r].attempt = logging["cron"].attempt
  BY <1>4 DEF Trying
<1>6. NamesCompleteRun(a, children)
  BY <1>2, <1>3, <1>5, ReturnedIsComplete DEF NamesCompleteRun
<1> QED
  BY <1>1, <1>3, <1>4, <1>6

\* The rest leave the rows as they are.
LEMMA OtherRows ==
    ASSUME [TrackingNext]_trackingVars
    PROVE  \/ UNCHANGED rows
           \/ Persist
           \/ \E r \in batch : MarkDead(r) \/ CronReturns(r)
<1> USE DEF LogStep, NodeStep, CronStep
<1>1. ASSUME NEW l \in Loggers, LogStep(l) \/ ServerDown(l) \/ Abandon(l)
      PROVE  UNCHANGED rows
  BY <1>1 DEF FindParent, CreateParent, FindChild, CreateChild, Write, Upload, Register,
     Promote, ServerDown, Abandon
<1>2. CASE StartNode \/ Checkpoint \/ Tick \/ (\E r \in batch : TryRow(r)) \/ OldEnds
  BY <1>2 DEF StartNode, Checkpoint, Tick, TryRow, OldEnds
<1>3. CASE \/ CrashWorker \/ Prune \/ (\E a \in 1..Attempts : Spoil(a))
           \/ UNCHANGED trackingVars
  BY <1>3 DEF CrashWorker, Prune, Spoil, trackingVars
<1> QED
  BY <1>1, <1>2, <1>3 DEF TrackingNext

\* No step loses a row or changes its attempt, and a run it names is complete.
LEMMA RowsStep ==
    ASSUME TypeInv, Trying, RowsNameCompleteRuns, [TrackingNext]_trackingVars
    PROVE  /\ \A r \in DOMAIN rows : r \in DOMAIN rows' /\ rows'[r].attempt = rows[r].attempt
           /\ RowsNameCompleteRuns'
<1>1. /\ TrackingTypeOK /\ Working /\ rows \in Seq(Experiments)
      /\ DOMAIN rows = 1..Len(rows) /\ Len(rows) \in Nat
  BY RowsType DEF TypeInv, TrackingTypeOK
<1>2. ASSUME UNCHANGED rows
      PROVE  RowsNameCompleteRuns'
  <2>1. ChildrenKept
    BY <1>1, ChildrenStep
  <2> QED
    BY <1>2, <2>1 DEF ChildrenKept, RowsNameCompleteRuns, NamesCompleteRun
<1>3. CASE Persist
  <2>1. UNCHANGED children
    BY <1>1, <1>3, PersistRows
  <2>2. ASSUME NEW a \in Experiments, rows' = Append(rows, a), NamesCompleteRun(a, children)
        PROVE  /\ \A r \in DOMAIN rows : r \in DOMAIN rows' /\ rows'[r] = rows[r]
               /\ RowsNameCompleteRuns'
    <3>1. /\ DOMAIN rows' = 1..(Len(rows) + 1)
          /\ \A c \in 1..Len(rows) : rows'[c] = rows[c]
          /\ rows'[Len(rows) + 1] = a
      BY <1>1, <2>2, RowsAppend
    <3>2. \A r \in DOMAIN rows' : NamesCompleteRun(rows'[r], children')
      BY <1>1, <2>1, <2>2, <3>1 DEF RowsNameCompleteRuns
    <3> QED
      BY <1>1, <3>1, <3>2 DEF RowsNameCompleteRuns
  <2> QED
    BY <1>1, <1>2, <1>3, <2>2, PersistRows
<1>4. ASSUME NEW r \in 1..Len(rows), NEW a \in Experiments, UNCHANGED children,
             rows' = [rows EXCEPT ![r] = a], a.attempt = rows[r].attempt,
             NamesCompleteRun(rows[r], children) => NamesCompleteRun(a, children)
      PROVE  /\ \A q \in DOMAIN rows : q \in DOMAIN rows' /\ rows'[q].attempt = rows[q].attempt
             /\ RowsNameCompleteRuns'
  <2>1. /\ DOMAIN rows' = DOMAIN rows /\ rows'[r] = a
        /\ \A q \in DOMAIN rows : q # r => rows'[q] = rows[q]
    BY <1>1, <1>4
  <2>2. \A q \in DOMAIN rows' : NamesCompleteRun(rows'[q], children')
    BY <1>1, <1>4, <2>1 DEF RowsNameCompleteRuns
  <2> QED
    BY <1>4, <2>1, <2>2 DEF RowsNameCompleteRuns
<1>5. CASE \E r \in batch : MarkDead(r)
  <2> PICK r \in batch : MarkDead(r)
    BY <1>5
  <2> QED
    BY <1>1, <1>4, MarkDeadRows
<1>6. CASE \E r \in batch : CronReturns(r)
  <2> PICK r \in batch : CronReturns(r)
    BY <1>6
  <2> QED
    BY <1>1, <1>2, <1>4, CronReturnsRows
<1> QED
  BY <1>2, <1>3, <1>5, <1>6, OtherRows

\* The batch of a thread of the backfill: it ends with the thread.
LEMMA BatchStep ==
    ASSUME TrackingTypeOK, [TrackingNext]_trackingVars,
           logging["cron"].at # "idle", logging'["cron"].at # "idle"
    PROVE  batch' = batch
<1>1. /\ logging \in [Loggers -> Threads] /\ {"node", "cron", "old"} = Loggers
      /\ IdleLogger.at = "idle"
  BY DEF TrackingTypeOK, Loggers, IdleLogger
<1>2. ASSUME NEW l \in Loggers, LogStep(l) \/ ServerDown(l) \/ (Abandon(l) /\ l # "cron")
      PROVE  batch' = batch
  BY <1>2 DEF LogStep, FindParent, CreateParent, FindChild, CreateChild, Write, Upload,
     Register, Promote, ServerDown, Abandon
<1>3. ~Abandon("cron") /\ ~CrashWorker
  BY <1>1 DEF Abandon, CrashWorker
<1>4. ~Tick /\ \A r \in batch : ~MarkDead(r) /\ ~TryRow(r) /\ ~CronReturns(r)
  BY <1>1 DEF Tick, MarkDead, TryRow, CronReturns
<1>5. CASE NodeStep \/ OldEnds \/ Prune \/ (\E a \in 1..Attempts : Spoil(a))
           \/ UNCHANGED trackingVars
  BY <1>5 DEF NodeStep, StartNode, Persist, Checkpoint, OldEnds, Prune, Spoil, trackingVars
<1> QED
  BY <1>2, <1>3, <1>4, <1>5 DEF TrackingNext, CronStep

LEMMA TryingStep ==
    TypeInv /\ Trying /\ RowsNameCompleteRuns /\ [TrackingNext]_trackingVars => Trying'
<1> SUFFICES ASSUME TypeInv, Trying, RowsNameCompleteRuns, [TrackingNext]_trackingVars,
                    logging'["cron"].at # "idle",
                    NEW r \in batch', IsNext(r)'
             PROVE  rows'[r].attempt = logging'["cron"].attempt
  BY DEF Trying
<1>1. TrackingTypeOK /\ Working /\ batch \subseteq DOMAIN rows /\ DOMAIN rows = 1..Len(rows)
  BY RowsType DEF TypeInv, TrackingTypeOK
<1>2. /\ logging \in [Loggers -> Threads] /\ {"node", "cron", "old"} = Loggers
      /\ IdleLogger.at = "idle"
  BY <1>1 DEF TrackingTypeOK, Loggers, IdleLogger
<1>3. ASSUME logging["cron"].at # "idle", logging'["cron"].attempt = logging["cron"].attempt
      PROVE  rows'[r].attempt = logging'["cron"].attempt
  <2>1. batch' = batch
    BY <1>1, <1>3, BatchStep
  <2>2. r \in batch /\ IsNext(r)
    BY <2>1 DEF IsNext
  <2>3. rows[r].attempt = logging["cron"].attempt
    BY <1>3, <2>2 DEF Trying
  <2>4. rows'[r].attempt = rows[r].attempt
    BY <1>1, <2>2, RowsStep
  <2> QED
    BY <1>3, <2>3, <2>4
<1>4. ASSUME NEW l \in Loggers, NEW t \in Threads, ThreadMoves(l, t),
             logging[l].at # "idle", t.attempt = logging[l].attempt
      PROVE  rows'[r].attempt = logging'["cron"].attempt
  <2>1. logging["cron"].at # "idle" /\ logging'["cron"].attempt = logging["cron"].attempt
    BY <1>2, <1>4 DEF ThreadMoves
  <2> QED
    BY <1>3, <2>1
<1>5. ASSUME NEW l \in Loggers, LogStep(l) \/ ServerDown(l) \/ (l = "node" /\ Persist)
      PROVE  logging[l].at # "idle"
  BY <1>5 DEF LogStep, FindParent, CreateParent, FindChild, CreateChild, Write, Upload,
     Register, Promote, ServerDown, InThread, Persist
<1>6. ASSUME NEW l \in Loggers, NEW t \in Threads, ThreadMoves(l, t),
             l # "cron" \/ t = IdleLogger
      PROVE  rows'[r].attempt = logging'["cron"].attempt
  <2>1. logging'["cron"] = logging["cron"]
    BY <1>2, <1>6 DEF ThreadMoves
  <2> QED
    BY <1>3, <2>1
<1>7. ASSUME NEW t \in Threads, ThreadMoves("cron", t), UNCHANGED <<rows, batch>>,
             NEW q \in batch, IsNext(q), rows[q].attempt = t.attempt
      PROVE  rows'[r].attempt = logging'["cron"].attempt
  <2>1. r \in batch /\ IsNext(r)
    BY <1>7 DEF IsNext
  <2>2. r \in Nat /\ q \in Nat /\ r <= q /\ q <= r
    BY <1>1, <1>7, <2>1 DEF IsNext
  <2>3. r = q
    BY <2>2
  <2>4. logging'["cron"] = t
    BY <1>2, <1>7 DEF ThreadMoves
  <2> QED
    BY <1>7, <2>3, <2>4
<1>8. ASSUME NEW l \in {"node", "cron"}, Abandon(l)
      PROVE  rows'[r].attempt = logging'["cron"].attempt
  <2>1. logging'["cron"] = logging["cron"]
    BY <1>2, <1>8 DEF Abandon
  <2> QED
    BY <1>3, <2>1
<1>9. ~CrashWorker
  BY <1>2 DEF CrashWorker
<1>10. CASE UNCHANGED <<logging, twice>>
  BY <1>3, <1>10
<1>11. ASSUME NEW l \in {"node", "cron"}, NEW t \in Threads, NEW a \in 1..Attempts,
              ThreadMoves(l, t), t.attempt = a,
              l = "cron" => /\ UNCHANGED <<rows, batch>>
                            /\ \E q \in batch : IsNext(q) /\ rows[q].attempt = a
       PROVE  rows'[r].attempt = logging'["cron"].attempt
  <2>1. CASE l = "cron"
    BY <1>7, <1>11, <2>1
  <2>2. CASE l # "cron"
    BY <1>2, <1>6, <1>11, <2>2
  <2> QED
    BY <2>1, <2>2
<1> QED
  BY <1>1, <1>4, <1>5, <1>6, <1>8, <1>9, <1>10, <1>11, IdleIsThread, ThreadsStep

-----------------------------------------------------------------------------
(* The theorems *)

TrackingInv ==
    TypeInv /\ Together /\ Unborn /\ OneChildPerAttempt /\ Trying /\ RowsNameCompleteRuns

LEMMA TrackingInvInit == TrackingInit => TrackingInv
<1> SUFFICES ASSUME TrackingInit
             PROVE  TrackingInv
  OBVIOUS
<1>1. /\ logging = [l \in Loggers |-> IdleLogger] /\ IdleLogger.at = "idle"
      /\ IdleLogger.attempt = 0 /\ DOMAIN children = {} /\ DOMAIN rows = {} /\ batch = {}
      /\ "cron" \in Loggers
  BY DEF TrackingInit, IdleLogger, Loggers
<1>2. TypeInv
  BY TypeInvInit
<1>3. Together /\ Unborn /\ Trying
  BY <1>1 DEF Together, Unborn, Trying
<1>4. OneChildPerAttempt /\ RowsNameCompleteRuns
  BY <1>1 DEF OneChildPerAttempt, RowsNameCompleteRuns
<1> QED
  BY <1>2, <1>3, <1>4 DEF TrackingInv

LEMMA TrackingInvStep == TrackingInv /\ [TrackingNext]_trackingVars => TrackingInv'
BY TypeInvStep, TogetherStep, UnbornStep, OneChildStep, TryingStep, RowsStep DEF TrackingInv

LEMMA TrackingInvariant == TrackingSpec => []TrackingInv
BY TrackingInvInit, TrackingInvStep, PTL DEF TrackingSpec

\* The types, in every reachable state: in particular no attempt is past the last
\* one, and the champion is the attempt of a registered version
\* (_maybe_promote_champion).
THEOREM TypeCorrect == TrackingSpec => []TrackingTypeOK
<1>1. TrackingInv => TrackingTypeOK
  BY DEF TrackingInv, TypeInv
<1> QED
  BY <1>1, TrackingInvariant, PTL

\* However often an attempt is logged again after an outage, a crash or a resume,
\* it has one child run, unless two threads were at it at the same time: nothing
\* stands between the search and the creation (get_or_create_child_run).
THEOREM AttemptsAreLoggedOnce == TrackingSpec => []OneChildPerAttempt
<1>1. TrackingInv => OneChildPerAttempt
  BY DEF TrackingInv
<1> QED
  BY <1>1, TrackingInvariant, PTL

\* The run a row of experiments names is the run of its attempt, and complete, no
\* matter where a server, an insert, a worker or a tick failed on the way
\* (_persist_experiment, backfill_mlflow_for_experiments).
THEOREM RowsNameWholeRuns == TrackingSpec => []NamedRunsAreComplete
<1>1. TrackingInv => NamedRunsAreComplete
  BY DEF TrackingInv, RowsNameCompleteRuns, NamesCompleteRun, NamedRunsAreComplete
<1> QED
  BY <1>1, TrackingInvariant, PTL

-----------------------------------------------------------------------------
(* Reports *)

LEMMA FunctionIsSequence ==
    ASSUME NEW S, NEW n \in Nat, NEW f \in [1..n -> S]
    PROVE  f \in Seq(S) /\ Len(f) = n
  OBVIOUS

LEMMA ErrorsType ==
    ASSUME NEW s \in Seq(ErrorRecords)
    PROVE  /\ Len(s) \in Nat /\ DOMAIN s = 1..Len(s)
           /\ \A i \in 1..Len(s) : s[i] \in ErrorRecords
  OBVIOUS

LEMMA ErrorsAppend ==
    ASSUME NEW s \in Seq(ErrorRecords), NEW e \in ErrorRecords
    PROVE  /\ Append(s, e) \in Seq(ErrorRecords) /\ Len(Append(s, e)) = Len(s) + 1
           /\ \A i \in 1..Len(s) : Append(s, e)[i] = s[i]
           /\ Append(s, e)[Len(s) + 1] = e
  OBVIOUS

LEMMA FailingsType ==
    ASSUME NEW s \in Seq(Failings)
    PROVE  /\ Len(s) \in Nat /\ DOMAIN s = 1..Len(s)
           /\ \A i \in 1..Len(s) : s[i] \in Failings
  OBVIOUS

LEMMA FailingsAppend ==
    ASSUME NEW s \in Seq(Failings), NEW e \in Failings
    PROVE  /\ Append(s, e) \in Seq(Failings) /\ Len(Append(s, e)) = Len(s) + 1
           /\ \A i \in 1..Len(s) : Append(s, e)[i] = s[i]
           /\ Append(s, e)[Len(s) + 1] = e
  OBVIOUS

LEMMA FailingsExcept ==
    ASSUME NEW s \in Seq(Failings), NEW i \in 1..Len(s), NEW e \in Failings
    PROVE  /\ [s EXCEPT ![i] = e] \in Seq(Failings)
           /\ Len([s EXCEPT ![i] = e]) = Len(s)
           /\ [s EXCEPT ![i] = e][i] = e
           /\ \A j \in 1..Len(s) : j # i => [s EXCEPT ![i] = e][j] = s[j]
  OBVIOUS

LEMMA NumbersAppend ==
    ASSUME NEW s \in Seq(Nat), NEW e \in Nat
    PROVE  /\ Len(s) \in Nat /\ DOMAIN s = 1..Len(s)
           /\ Append(s, e) \in Seq(Nat) /\ Len(Append(s, e)) = Len(s) + 1
           /\ \A i \in 1..Len(s) : Append(s, e)[i] = s[i]
           /\ Append(s, e)[Len(s) + 1] = e
  OBVIOUS

LEMMA VerdictsAppend ==
    ASSUME NEW s \in Seq(Decisions), NEW e \in Decisions
    PROVE  Append(s, e) \in Seq(Decisions)
  OBVIOUS

\* The types of what the report is made from, and of the bundle.
Recorded ==
    /\ records \in Channels
    /\ past \in Seq(Failings)
    /\ bundle \in [code : Nat, artifacts : Nat]

LEMMA ErrorIsTyped ==
    ASSUME Recorded, NEW print \in Prints
    PROVE  BuildError(print) \in ErrorRecords /\ BuildError(print).revision = records.revisions
BY DEF Recorded, Channels, ErrorRecords, BuildError

LEMMA AnswersAreTyped ==
    ASSUME Recorded, NEW n \in Nat, past' = AnsweredBy(n)
    PROVE  /\ past' \in Seq(Failings) /\ Len(past') = Len(past)
           /\ \A i \in 1..Len(past) :
                /\ past'[i].diagnosed = past[i].diagnosed
                /\ past'[i].answer = IF past[i].answer # 0 THEN past[i].answer ELSE n
<1>1. /\ Len(past) \in Nat /\ DOMAIN past = 1..Len(past)
      /\ \A i \in 1..Len(past) : past[i] \in Failings
  BY FailingsType DEF Recorded
<1>2. \A i \in 1..Len(past) : [past[i] EXCEPT !.answer = n] \in Failings
  BY <1>1 DEF Failings
<1>3. \A i \in 1..Len(past) :
        /\ past'[i] = IF past[i].answer # 0 THEN past[i] ELSE [past[i] EXCEPT !.answer = n]
        /\ past'[i] \in Failings
  BY <1>1, <1>2 DEF AnsweredBy
<1>4. past' \in [1..Len(past) -> Failings]
  BY <1>1, <1>3 DEF AnsweredBy
<1>5. past' \in Seq(Failings) /\ Len(past') = Len(past)
  BY <1>1, <1>4, FunctionIsSequence
<1>6. ASSUME NEW i \in 1..Len(past)
      PROVE  /\ past'[i].diagnosed = past[i].diagnosed
             /\ past'[i].answer = IF past[i].answer # 0 THEN past[i].answer ELSE n
  BY <1>1, <1>3 DEF Failings
<1> QED
  BY <1>5, <1>6

\* Updates of the channels.
KeepsLists(q, r) ==
    q.errors = r.errors /\ q.diagnoses = r.diagnoses /\ q.revisions = r.revisions

LEMMA ChannelsRevised ==
    ASSUME NEW r \in Channels, NEW k \in Nat, NEW q, q = [r EXCEPT !.revisions = k]
    PROVE  /\ q \in Channels /\ q.errors = r.errors /\ q.diagnoses = r.diagnoses
           /\ q.revisions = k /\ q.delivered = r.delivered
BY DEF Channels

LEMMA ChannelsSpent ==
    ASSUME NEW r \in Channels, NEW k \in Nat, NEW q,
           q = [r EXCEPT !.runs = k] \/ q = [r EXCEPT !.iterations = k]
    PROVE  q \in Channels /\ KeepsLists(q, r) /\ q.delivered = r.delivered
BY DEF Channels, KeepsLists

LEMMA ChannelsCount ==
    ASSUME NEW r \in Channels
    PROVE  /\ r.revisions \in Nat /\ r.delivered \in Nat
           /\ r.revisions + 1 \in Nat /\ r.runs + 1 \in Nat /\ r.iterations + 1 \in Nat
           /\ r.errors \in Seq(ErrorRecords) /\ r.diagnoses \in Seq(Nat)
           /\ r.verdicts \in Seq(Decisions) /\ r.met \in BOOLEAN
BY DEF Channels

\* What a step leaves of the lists the report pairs up.
SameLists == KeepsLists(records', records) /\ UNCHANGED past

LEMMA WriteRevisionEffect ==
    ASSUME Recorded, WriteRevision
    PROVE  /\ Recorded' /\ UNCHANGED <<report, bundle, dispatched>>
           /\ records'.delivered = records.delivered
           /\ stage = "coder" /\ stage' \in {"sandbox_exec", "reporter"}
           /\ \/ SameLists
              \/ /\ records'.errors = records.errors /\ records'.diagnoses = records.diagnoses
                 /\ records'.revisions = records.revisions + 1
                 /\ past' = AnsweredBy(records.revisions + 1)
<1>1. records \in Channels /\ UNCHANGED <<report, bundle, dispatched>> /\ stage = "coder"
  BY DEF Recorded, WriteRevision
<1>2. stage' \in {"sandbox_exec", "reporter"}
  BY DEF WriteRevision
<1>3. CASE /\ records' = [records EXCEPT !.revisions = @ + 1]
           /\ past' = AnsweredBy(records.revisions + 1)
  <2>1. /\ records' \in Channels
        /\ records'.errors = records.errors /\ records'.diagnoses = records.diagnoses
        /\ records'.revisions = records.revisions + 1
        /\ records'.delivered = records.delivered
        /\ records.revisions + 1 \in Nat
    BY <1>1, <1>3, ChannelsCount, ChannelsRevised
  <2>2. past' \in Seq(Failings)
    BY <1>3, <2>1, AnswersAreTyped
  <2> QED
    BY <1>1, <1>2, <1>3, <2>1, <2>2 DEF Recorded
<1>4. CASE UNCHANGED <<records, past>>
  BY <1>1, <1>2, <1>4 DEF Recorded, SameLists, KeepsLists
<1> QED
  BY <1>3, <1>4 DEF WriteRevision

LEMMA RunFailsEffect ==
    ASSUME Recorded, NEW print \in Prints, RunFails(print)
    PROVE  /\ Recorded' /\ UNCHANGED <<report, bundle, dispatched>>
           /\ stage = "sandbox_exec" /\ stage' \in {"debugger", "reporter"}
           /\ records'.delivered \in Deliverables
           /\ records'.diagnoses = records.diagnoses /\ records'.revisions = records.revisions
           /\ records'.errors = Append(records.errors, BuildError(print))
           /\ past' = Append(past, [diagnosed |-> FALSE, answer |-> 0])
<1>1. records \in Channels /\ UNCHANGED <<report, bundle, dispatched>> /\ stage = "sandbox_exec"
  BY DEF Recorded, RunFails
<1>2. stage' \in {"debugger", "reporter"}
  BY DEF RunFails
<1>3. PICK d \in Deliverables :
        records' = [records EXCEPT !.errors = Append(@, BuildError(print)), !.delivered = d,
                                   !.last = print, !.met = FALSE, !.runs = @ + 1]
  BY DEF RunFails
<1>4. d \in Nat
  BY <1>1, ChannelsCount DEF Deliverables
<1>5. Append(records.errors, BuildError(print)) \in Seq(ErrorRecords)
  BY <1>1, ErrorIsTyped, ErrorsAppend, ChannelsCount
<1> DEFINE e == Append(records.errors, BuildError(print))
           k == records.runs + 1
<1>10. k \in Nat /\ e \in Seq(ErrorRecords)
  BY <1>1, <1>5, ChannelsCount
<1>11. /\ records' = [records EXCEPT !.errors = e, !.delivered = d, !.last = print,
                                     !.met = FALSE, !.runs = k]
       /\ e = Append(records.errors, BuildError(print))
  BY <1>3
<1> HIDE DEF e, k
<1>12. /\ records' \in Channels
       /\ records'.diagnoses = records.diagnoses /\ records'.revisions = records.revisions
       /\ records'.errors = e /\ records'.delivered = d
  BY <1>1, <1>4, <1>10, <1>11 DEF Channels
<1>6. /\ records' \in Channels
      /\ records'.diagnoses = records.diagnoses /\ records'.revisions = records.revisions
      /\ records'.errors = Append(records.errors, BuildError(print))
      /\ records'.delivered = d
  BY <1>11, <1>12
<1>7. [diagnosed |-> FALSE, answer |-> 0] \in Failings
  BY DEF Failings
<1>8. past' = Append(past, [diagnosed |-> FALSE, answer |-> 0])
  BY DEF RunFails
<1>9. past' \in Seq(Failings)
  BY <1>7, <1>8, FailingsAppend DEF Recorded
<1> QED
  BY <1>1, <1>2, <1>6, <1>8, <1>9 DEF Recorded

LEMMA DiagnoseEffect ==
    ASSUME Recorded, past # <<>>, Diagnose
    PROVE  /\ Recorded' /\ UNCHANGED <<report, bundle, dispatched>>
           /\ stage = "debugger" /\ stage' = "coder"
           /\ records'.errors = records.errors /\ records'.revisions = records.revisions
           /\ records'.delivered = records.delivered
           /\ records'.diagnoses = Append(records.diagnoses, Len(past))
           /\ past' = [past EXCEPT ![Len(past)].diagnosed = TRUE]
           /\ Len(past) \in 1..Len(past) /\ Len(past') = Len(past)
           /\ past'[Len(past)].diagnosed /\ past'[Len(past)].answer = past[Len(past)].answer
           /\ \A i \in 1..Len(past) : i # Len(past) => past'[i] = past[i]
<1>1. /\ records \in Channels /\ UNCHANGED <<report, bundle, dispatched>>
      /\ stage = "debugger" /\ stage' = "coder"
      /\ past' = [past EXCEPT ![Len(past)].diagnosed = TRUE]
  BY DEF Recorded, Diagnose
<1>2. past \in Seq(Failings) /\ Len(past) \in Nat /\ Len(past) # 0
  BY DEF Recorded
<1>3. Append(records.diagnoses, Len(past)) \in Seq(Nat)
  BY <1>1, <1>2, NumbersAppend, ChannelsCount
<1>4. records' = [records EXCEPT !.diagnoses = Append(@, Len(past)), !.iterations = @ + 1]
  BY DEF Diagnose, Reconciled
<1> DEFINE g == Append(records.diagnoses, Len(past))
           k == records.iterations + 1
<1>11. k \in Nat /\ g \in Seq(Nat) /\ g = Append(records.diagnoses, Len(past))
  BY <1>1, <1>3, ChannelsCount
<1>12. records' = [records EXCEPT !.diagnoses = g, !.iterations = k]
  BY <1>4
<1> HIDE DEF g, k
<1>5. /\ records' \in Channels
      /\ records'.errors = records.errors /\ records'.revisions = records.revisions
      /\ records'.delivered = records.delivered
      /\ records'.diagnoses = Append(records.diagnoses, Len(past))
  BY <1>1, <1>11, <1>12 DEF Channels
<1> DEFINE e == [past[Len(past)] EXCEPT !.diagnosed = TRUE]
<1>6. past' = [past EXCEPT ![Len(past)] = e] /\ Len(past) \in 1..Len(past)
  BY <1>1, <1>2
<1>7. past[Len(past)] \in Failings
  BY <1>2, <1>6, FailingsType
<1>8. e \in Failings /\ e.diagnosed = TRUE /\ e.answer = past[Len(past)].answer
  BY <1>7 DEF Failings
<1> HIDE DEF e
<1>9. /\ past' \in Seq(Failings) /\ Len(past') = Len(past) /\ past'[Len(past)] = e
      /\ \A i \in 1..Len(past) : i # Len(past) => past'[i] = past[i]
  BY <1>2, <1>6, <1>8, FailingsExcept
<1>10. Recorded'
  BY <1>1, <1>5, <1>9 DEF Recorded
<1> QED
  BY <1>1, <1>5, <1>6, <1>8, <1>9, <1>10

\* The other steps leave the lists alone.
LEMMA OtherEffects ==
    ASSUME Recorded,
           \/ RunIsClean \/ DivertToReport \/ DispatchAgain
           \/ \E decision \in Decisions : Judge(decision)
    PROVE  /\ Recorded' /\ SameLists /\ UNCHANGED <<report, bundle>>
           /\ \/ records'.delivered = records.delivered
              \/ RunIsClean /\ records'.delivered \in Deliverables
<1>1. records \in Channels
  BY DEF Recorded
<1>2. CASE RunIsClean
  <2>1. PICK m \in BOOLEAN, d \in Deliverables :
          records' = [records EXCEPT !.last = "CLEAN", !.met = m, !.runs = @ + 1,
                                     !.delivered = d]
    BY <1>2 DEF RunIsClean
  <2>2. d \in Nat
    BY <1>1, ChannelsCount DEF Deliverables
  <2> DEFINE k == records.runs + 1
  <2>3. k \in Nat
    BY <1>1, ChannelsCount
  <2>4. records' = [records EXCEPT !.last = "CLEAN", !.met = m, !.runs = k, !.delivered = d]
    BY <2>1
  <2> HIDE DEF k
  <2>5. records' \in Channels /\ KeepsLists(records', records) /\ records'.delivered = d
    BY <1>1, <2>1, <2>2, <2>3, <2>4 DEF Channels, KeepsLists
  <2> QED
    BY <1>2, <2>5 DEF RunIsClean, Recorded, SameLists
<1>3. CASE DivertToReport \/ DispatchAgain
  <2>1. \/ records' = [records EXCEPT !.runs = MaxRuns]
        \/ records' = [records EXCEPT !.iterations = 0]
    BY <1>3 DEF DivertToReport, DispatchAgain
  <2>2. /\ records' \in Channels
        /\ KeepsLists(records', records) /\ records'.delivered = records.delivered
    BY <1>1, <2>1, ReportBoundsAssumption, ChannelsSpent
  <2> QED
    BY <1>3, <2>2 DEF DivertToReport, DispatchAgain, Recorded, SameLists
<1>4. ASSUME NEW decision \in Decisions, Judge(decision)
      PROVE  /\ Recorded' /\ SameLists /\ UNCHANGED <<report, bundle>>
             /\ records'.delivered = records.delivered
  <2>1. PICK m \in BOOLEAN :
          records' = [records EXCEPT !.verdicts = Append(@, decision), !.met = m]
    BY <1>1, <1>4, ChannelsCount DEF Judge
  <2>2. Append(records.verdicts, decision) \in Seq(Decisions)
    BY <1>1, VerdictsAppend, ChannelsCount
  <2> DEFINE v == Append(records.verdicts, decision)
  <2>4. v \in Seq(Decisions) /\ m \in BOOLEAN
    BY <2>1, <2>2
  <2>5. records' = [records EXCEPT !.verdicts = v, !.met = m]
    BY <2>1
  <2> HIDE DEF v
  <2>3. /\ records' \in Channels
        /\ KeepsLists(records', records) /\ records'.delivered = records.delivered
    BY <1>1, <2>2, <2>4, <2>5 DEF Channels, KeepsLists
  <2> QED
    BY <1>4, <2>3 DEF Judge, Recorded, SameLists
<1> QED
  BY <1>2, <1>3, <1>4

\* The revision that answers a failure of revision r once there are n revisions.
FixAt(r, n) == IF r < n THEN r + 1 ELSE 0

LEMMA FixMoves ==
    ASSUME NEW r \in Nat, NEW n \in Nat, r <= n
    PROVE  /\ FixAt(r, n + 1) = IF FixAt(r, n) # 0 THEN FixAt(r, n) ELSE n + 1
           /\ r <= n + 1 /\ FixAt(n, n) = 0
BY DEF FixAt

\* One error record for each failure, and no failure is answered by another
\* revision than the one after it.
AnsweredInTurn ==
    /\ Len(records.errors) = Len(past)
    /\ \A i \in 1..Len(past) :
         /\ records.errors[i].revision <= records.revisions
         /\ past[i].answer = FixAt(records.errors[i].revision, records.revisions)

LEMMA AnsweredWhenSame == AnsweredInTurn /\ SameLists => AnsweredInTurn'
BY DEF AnsweredInTurn, SameLists, KeepsLists

LEMMA AnsweredWhenRevised ==
    ASSUME Recorded, AnsweredInTurn, past' = AnsweredBy(records.revisions + 1),
           records'.errors = records.errors, records'.revisions = records.revisions + 1
    PROVE  AnsweredInTurn'
<1> DEFINE n == records.revisions
           e == records.errors
<1>1. /\ n \in Nat /\ n + 1 \in Nat /\ Len(e) = Len(past)
      /\ \A i \in 1..Len(past) : e[i].revision <= n /\ past[i].answer = FixAt(e[i].revision, n)
  BY ChannelsCount DEF Recorded, AnsweredInTurn
<1>2. \A i \in 1..Len(past) : e[i].revision \in Nat
  BY <1>1, ErrorsType, ChannelsCount DEF Recorded, ErrorRecords
<1>3. /\ Len(past') = Len(past)
      /\ \A i \in 1..Len(past) :
           past'[i].answer = IF past[i].answer # 0 THEN past[i].answer ELSE n + 1
  BY <1>1, AnswersAreTyped
<1>4. records'.errors = e /\ records'.revisions = n + 1
  OBVIOUS
<1> HIDE DEF n, e
<1>5. \A i \in 1..Len(past) :
        e[i].revision <= n + 1 /\ past'[i].answer = FixAt(e[i].revision, n + 1)
  <2> TAKE i \in 1..Len(past)
  <2>1. PICK r \in Nat : r = e[i].revision
    BY <1>2
  <2>2. r <= n /\ past[i].answer = FixAt(r, n)
    BY <1>1, <2>1
  <2>3. r <= n + 1
    BY <1>1, <2>2
  <2>4. past'[i].answer = FixAt(r, n + 1)
    BY <1>1, <1>3, <2>2, FixMoves
  <2> QED
    BY <2>1, <2>3, <2>4
<1> QED
  BY <1>1, <1>3, <1>4, <1>5 DEF AnsweredInTurn

LEMMA AnsweredWhenFailed ==
    ASSUME Recorded, AnsweredInTurn, NEW print \in Prints, RunFails(print)
    PROVE  AnsweredInTurn'
<1> DEFINE n == records.revisions
           e == records.errors
           b == BuildError(print)
           f == [diagnosed |-> FALSE, answer |-> 0]
<1>1. /\ records'.errors = Append(e, b) /\ records'.revisions = n /\ past' = Append(past, f)
  BY RunFailsEffect
<1>2. b \in ErrorRecords /\ b.revision = n /\ f \in Failings /\ f.answer = 0 /\ n \in Nat
  BY ErrorIsTyped, ChannelsCount DEF Failings, Recorded
<1>3. /\ Len(e) = Len(past) /\ e \in Seq(ErrorRecords) /\ past \in Seq(Failings)
      /\ \A i \in 1..Len(past) : e[i].revision <= n /\ past[i].answer = FixAt(e[i].revision, n)
  BY ChannelsCount DEF Recorded, AnsweredInTurn
<1> HIDE DEF n, e, b, f
<1>4. /\ Len(Append(e, b)) = Len(past) + 1 /\ Append(e, b)[Len(past) + 1] = b
      /\ \A i \in 1..Len(past) : Append(e, b)[i] = e[i]
  BY <1>2, <1>3, ErrorsAppend
<1>5. /\ Len(Append(past, f)) = Len(past) + 1 /\ Append(past, f)[Len(past) + 1] = f
      /\ \A i \in 1..Len(past) : Append(past, f)[i] = past[i]
      /\ Len(past) \in Nat
  BY <1>2, <1>3, FailingsAppend, FailingsType
<1>6. b.revision <= n /\ f.answer = FixAt(b.revision, n)
  BY <1>2, FixMoves
<1>7. ASSUME NEW i \in 1..(Len(past) + 1)
      PROVE  /\ Append(e, b)[i].revision <= n
             /\ Append(past, f)[i].answer = FixAt(Append(e, b)[i].revision, n)
  <2>1. CASE i \in 1..Len(past)
    BY <1>3, <1>4, <1>5, <2>1
  <2>2. CASE i = Len(past) + 1
    BY <1>4, <1>5, <1>6, <2>2
  <2>3. Len(past) \in Nat
    BY <1>5
  <2>4. i \in 1..Len(past) \/ i = Len(past) + 1
    BY <2>3
  <2> QED
    BY <2>1, <2>2, <2>4
<1> QED
  BY <1>1, <1>4, <1>5, <1>7 DEF AnsweredInTurn

LEMMA AnsweredWhenDiagnosed ==
    ASSUME Recorded, AnsweredInTurn, past # <<>>, Diagnose
    PROVE  AnsweredInTurn'
<1>1. /\ records'.errors = records.errors /\ records'.revisions = records.revisions
      /\ Len(past') = Len(past) /\ past'[Len(past)].answer = past[Len(past)].answer
      /\ \A i \in 1..Len(past) : i # Len(past) => past'[i] = past[i]
  BY DiagnoseEffect
<1> QED
  BY <1>1 DEF AnsweredInTurn

\* The debugger has a failure in front of it that nobody has diagnosed.
Waiting == stage = "debugger" => past # <<>> /\ ~past[Len(past)].diagnosed

\* In the first dispatch every failure but the last has a diagnosis, and the last
\* one too once the loop goes on.
Followed ==
    dispatched = 1 =>
        \A i \in 1..Len(past) :
            i # Len(past) \/ stage \in {"coder", "sandbox_exec", "evaluator"}
                => past[i].diagnosed

\* As long as the two lists are in step, the i-th diagnosis is of the i-th failure.
Paired ==
    InLockstep =>
        /\ Len(records.diagnoses) <= Len(past)
        /\ \A i \in 1..Len(past) : past[i].diagnosed <=> i <= Len(records.diagnoses)
        /\ \A i \in 1..Len(records.diagnoses) : records.diagnoses[i] = i

StageType ==
    /\ stage \in {"coder", "sandbox_exec", "debugger", "evaluator", "reporter",
                 "finalizer", "end"}
    /\ dispatched \in 1..2

PairInv == Recorded /\ StageType /\ Waiting /\ Followed /\ Paired

\* A step that diagnoses nothing and adds no failure.
SameDiagnoses ==
    /\ records'.diagnoses = records.diagnoses
    /\ Len(past') = Len(past) /\ past' \in Seq(Failings)
    /\ \A i \in 1..Len(past) : past'[i].diagnosed = past[i].diagnosed

LEMMA PairedWhenSame == Recorded /\ Paired /\ SameDiagnoses => Paired'
<1> SUFFICES ASSUME Recorded, Paired, SameDiagnoses
             PROVE  Paired'
  OBVIOUS
<1>1. DOMAIN past = 1..Len(past) /\ DOMAIN past' = 1..Len(past) /\ Len(past') = Len(past)
  BY FailingsType DEF Recorded, SameDiagnoses
<1>2. InLockstep' => InLockstep
  BY <1>1 DEF InLockstep, SameDiagnoses
<1> QED
  BY <1>1, <1>2 DEF Paired, SameDiagnoses

LEMMA PairedWhenFailed ==
    ASSUME PairInv, NEW print \in Prints, RunFails(print)
    PROVE  Waiting' /\ Followed' /\ Paired'
<1> DEFINE f == [diagnosed |-> FALSE, answer |-> 0]
           d == records.diagnoses
<1>1. /\ records'.diagnoses = d /\ past' = Append(past, f) /\ UNCHANGED dispatched
      /\ stage = "sandbox_exec" /\ stage' \in {"debugger", "reporter"}
  BY RunFailsEffect DEF PairInv
<1>2. past \in Seq(Failings) /\ f \in Failings /\ ~f.diagnosed
  BY DEF PairInv, Recorded, Failings
<1>3. d \in Seq(Nat)
  BY ChannelsCount DEF PairInv, Recorded
<1> HIDE DEF f, d
<1>4. /\ Len(past') = Len(past) + 1 /\ past'[Len(past) + 1] = f /\ past' \in Seq(Failings)
      /\ \A i \in 1..Len(past) : past'[i] = past[i]
      /\ Len(past) \in Nat /\ DOMAIN past = 1..Len(past)
  BY <1>1, <1>2, FailingsAppend, FailingsType
<1>5. DOMAIN past' = 1..(Len(past) + 1)
  BY <1>4, FailingsType
<1>6. Waiting'
  BY <1>2, <1>4 DEF Waiting
<1>7. Followed'
  <2> SUFFICES ASSUME dispatched' = 1, NEW i \in 1..Len(past'), i # Len(past')
               PROVE  past'[i].diagnosed
    BY <1>1 DEF Followed
  <2>1. i \in 1..Len(past) /\ past'[i] = past[i]
    BY <1>4
  <2> QED
    BY <1>1, <2>1 DEF PairInv, Followed
<1>8. ASSUME InLockstep'
      PROVE  /\ Len(d) <= Len(past) + 1
             /\ \A i \in 1..(Len(past) + 1) : past'[i].diagnosed <=> i <= Len(d)
             /\ \A i \in 1..Len(d) : d[i] = i
  <2>1. InLockstep
    BY <1>4, <1>5, <1>8 DEF InLockstep
  <2>2. /\ Len(d) <= Len(past) /\ Len(d) \in Nat
        /\ \A i \in 1..Len(past) : past[i].diagnosed <=> i <= Len(d)
        /\ \A i \in 1..Len(d) : d[i] = i
    BY <1>3, <2>1 DEF PairInv, Paired, d
  <2>3. ~past'[Len(past) + 1].diagnosed /\ ~(Len(past) + 1 <= Len(d))
    BY <1>2, <1>4, <2>2
  <2>4. ASSUME NEW i \in 1..(Len(past) + 1)
        PROVE  past'[i].diagnosed <=> i <= Len(d)
    <3>1. CASE i = Len(past) + 1
      BY <2>3, <3>1
    <3>2. CASE i \in 1..Len(past)
      BY <1>4, <2>2, <3>2
    <3> QED
      BY <1>4, <2>4, <3>1, <3>2
  <2> QED
    BY <1>4, <2>2, <2>4
<1>9. Paired'
  BY <1>1, <1>4, <1>8 DEF Paired
<1> QED
  BY <1>6, <1>7, <1>9

LEMMA PairedWhenDiagnosed ==
    ASSUME PairInv, Diagnose
    PROVE  Waiting' /\ Followed' /\ Paired'
<1> DEFINE n == Len(past)
           d == records.diagnoses
<1>1. Recorded /\ past # <<>> /\ ~past[n].diagnosed
  BY DEF PairInv, Waiting, Diagnose
<1>2. /\ records'.diagnoses = Append(d, n) /\ stage' = "coder" /\ UNCHANGED dispatched
      /\ n \in 1..n /\ Len(past') = n /\ past'[n].diagnosed /\ past' \in Seq(Failings)
      /\ \A i \in 1..n : i # n => past'[i] = past[i]
  BY <1>1, DiagnoseEffect DEF Recorded
<1>3. /\ n \in Nat /\ DOMAIN past = 1..n /\ d \in Seq(Nat)
      /\ Len(d) \in Nat /\ Len(Append(d, n)) = Len(d) + 1
      /\ \A i \in 1..Len(d) : Append(d, n)[i] = d[i]
      /\ Append(d, n)[Len(d) + 1] = n
  BY <1>1, FailingsType, NumbersAppend, ChannelsCount DEF Recorded
<1>4. DOMAIN past' = 1..n
  BY <1>2, FailingsType
<1>5. Waiting'
  BY <1>2 DEF Waiting
<1>6. Followed'
  <2> SUFFICES ASSUME dispatched' = 1, NEW i \in 1..n
               PROVE  past'[i].diagnosed
    BY <1>2 DEF Followed
  <2>1. CASE i = n
    BY <1>2, <2>1
  <2>2. CASE i # n
    BY <1>2, <2>2 DEF PairInv, Followed
  <2> QED
    BY <2>1, <2>2
<1>7. ASSUME InLockstep'
      PROVE  /\ Len(d) + 1 = n
             /\ \A i \in 1..n : past'[i].diagnosed
             /\ \A i \in 1..(Len(d) + 1) : Append(d, n)[i] = i
  <2>1. \A i \in 1..n : i < n => past'[i].diagnosed
    BY <1>2, <1>3, <1>4, <1>7 DEF InLockstep
  <2>2. \A i \in 1..n : i # n => past[i].diagnosed
    BY <1>2, <1>3, <2>1
  <2>8. n \in Nat
    BY <1>3
  <2>3. InLockstep
    <3> SUFFICES ASSUME NEW i \in 1..n, NEW j \in 1..n, i < j
                 PROVE  past[i].diagnosed
      BY <1>3 DEF InLockstep
    <3> HIDE DEF n
    <3>1. i # n
      BY <2>8
    <3> QED
      BY <2>2, <3>1
  <2>4. /\ Len(d) <= n
        /\ \A i \in 1..n : past[i].diagnosed <=> i <= Len(d)
        /\ \A i \in 1..Len(d) : d[i] = i
    BY <2>3 DEF PairInv, Paired
  <2> HIDE DEF d, n
  <2>5. ~(n <= Len(d)) /\ \A i \in 1..n : i # n => i <= Len(d)
    BY <1>1, <1>2, <2>2, <2>4
  <2>6. n = 1 \/ n - 1 <= Len(d)
    BY <1>2, <1>3, <2>5
  <2>7. Len(d) + 1 = n
    BY <1>2, <1>3, <2>5, <2>6
  <2> QED
    BY <1>2, <1>3, <2>1, <2>4, <2>7
<1> HIDE DEF d, n
<1>8. ASSUME InLockstep'
      PROVE  /\ Len(records'.diagnoses) <= Len(past')
             /\ \A i \in 1..Len(past') : past'[i].diagnosed <=> i <= Len(records'.diagnoses)
             /\ \A i \in 1..Len(records'.diagnoses) : records'.diagnoses[i] = i
  BY <1>2, <1>3, <1>7, <1>8
<1>9. Paired'
  BY <1>8 DEF Paired
<1> QED
  BY <1>5, <1>6, <1>9

\* A report is of the state as it is, until the run goes on.
Reported == stage \in {"finalizer", "end"} => report.cycles = DebugCycles

\* The artifacts in the bundle are of the first revision that wrote files, and the
\* code beside them is not older.
Bundled ==
    /\ records.delivered <= records.revisions
    /\ bundle.artifacts \in {0, records.delivered}
    /\ bundle.artifacts # 0 => bundle.artifacts <= bundle.code
    /\ bundle.code <= records.revisions

TellInv == PairInv /\ AnsweredInTurn /\ Reported /\ Bundled

\* What the steps that leave the lists alone do to the rest.
LEMMA OtherStages ==
    ASSUME \/ RunIsClean \/ DivertToReport \/ DispatchAgain
           \/ \E decision \in Decisions : Judge(decision)
    PROVE  /\ stage' \in {"coder", "evaluator", "reporter"} /\ dispatched' \in {dispatched, 2}
           /\ \/ dispatched' = 2
              \/ stage \in {"coder", "sandbox_exec", "evaluator"}
              \/ stage' = "reporter"
BY DEF RunIsClean, DivertToReport, DispatchAgain, Judge

LEMMA OtherStepsTell ==
    ASSUME TellInv,
           \/ RunIsClean \/ DivertToReport \/ DispatchAgain
           \/ \E decision \in Decisions : Judge(decision)
    PROVE  TellInv'
<1>1. /\ Recorded' /\ SameLists /\ UNCHANGED <<report, bundle>>
      /\ \/ records'.delivered = records.delivered
         \/ records'.delivered \in Deliverables
  BY OtherEffects DEF TellInv, PairInv
<1>2. /\ stage' \in {"coder", "evaluator", "reporter"} /\ dispatched' \in {dispatched, 2}
      /\ \/ dispatched' = 2
         \/ stage \in {"coder", "sandbox_exec", "evaluator"}
         \/ stage' = "reporter"
  BY OtherStages
<1>3. SameDiagnoses
  BY <1>1 DEF SameLists, KeepsLists, SameDiagnoses, Recorded
<1>4. StageType' /\ Waiting' /\ Reported'
  BY <1>2 DEF TellInv, PairInv, StageType, Waiting, Reported
<1>5. Followed'
  BY <1>1, <1>2 DEF TellInv, PairInv, Followed, SameLists
<1>6. Paired' /\ AnsweredInTurn'
  BY <1>1, <1>3, PairedWhenSame, AnsweredWhenSame DEF TellInv, PairInv
<1>7. /\ records.delivered \in Nat /\ records.revisions \in Nat /\ bundle.artifacts \in Nat
      /\ bundle.code \in Nat
  BY ChannelsCount DEF TellInv, PairInv, Recorded
<1>8. Bundled'
  BY <1>1, <1>7 DEF TellInv, Bundled, SameLists, KeepsLists, Deliverables
<1> QED
  BY <1>1, <1>4, <1>5, <1>6, <1>8 DEF TellInv, PairInv

LEMMA WriteRevisionTells == TellInv /\ WriteRevision => TellInv'
<1> SUFFICES ASSUME TellInv, WriteRevision
             PROVE  TellInv'
  OBVIOUS
<1>1. /\ Recorded' /\ UNCHANGED <<report, bundle, dispatched>>
      /\ records'.delivered = records.delivered
      /\ stage = "coder" /\ stage' \in {"sandbox_exec", "reporter"}
      /\ \/ SameLists
         \/ /\ records'.errors = records.errors /\ records'.diagnoses = records.diagnoses
            /\ records'.revisions = records.revisions + 1
            /\ past' = AnsweredBy(records.revisions + 1)
  BY WriteRevisionEffect DEF TellInv, PairInv
<1>2. /\ records.revisions \in Nat /\ records.revisions + 1 \in Nat /\ records.delivered \in Nat
      /\ bundle.code \in Nat
  BY ChannelsCount DEF TellInv, PairInv, Recorded
<1>3. SameDiagnoses
  <2>1. CASE SameLists
    BY <1>1, <2>1 DEF SameLists, KeepsLists, SameDiagnoses, Recorded
  <2>2. CASE ~SameLists
    BY <1>1, <1>2, <2>2, AnswersAreTyped DEF TellInv, PairInv, SameDiagnoses
  <2> QED
    BY <2>1, <2>2
<1>4. StageType' /\ Waiting' /\ Reported'
  BY <1>1 DEF TellInv, PairInv, StageType, Waiting, Reported
<1>5. Followed'
  BY <1>1, <1>3 DEF TellInv, PairInv, Followed, SameDiagnoses
<1>6. Paired'
  BY <1>3, PairedWhenSame DEF TellInv, PairInv
<1>7. AnsweredInTurn'
  BY <1>1, AnsweredWhenSame, AnsweredWhenRevised DEF TellInv, PairInv
<1>8. Bundled'
  BY <1>1, <1>2 DEF TellInv, Bundled, SameLists, KeepsLists
<1> QED
  BY <1>1, <1>4, <1>5, <1>6, <1>7, <1>8 DEF TellInv, PairInv

LEMMA RunFailsTells ==
    ASSUME TellInv, NEW print \in Prints, RunFails(print)
    PROVE  TellInv'
<1>1. /\ Recorded' /\ UNCHANGED <<report, bundle, dispatched>>
      /\ stage' \in {"debugger", "reporter"}
      /\ records'.delivered \in Deliverables /\ records'.revisions = records.revisions
  BY RunFailsEffect DEF TellInv, PairInv
<1>2. Waiting' /\ Followed' /\ Paired' /\ AnsweredInTurn'
  BY PairedWhenFailed, AnsweredWhenFailed DEF TellInv, PairInv
<1>3. StageType' /\ Reported'
  BY <1>1 DEF TellInv, PairInv, StageType, Reported
<1>4. /\ records.delivered \in Nat /\ records.revisions \in Nat /\ bundle.artifacts \in Nat
  BY ChannelsCount DEF TellInv, PairInv, Recorded
<1>5. Bundled'
  BY <1>1, <1>4 DEF TellInv, Bundled, Deliverables
<1> QED
  BY <1>1, <1>2, <1>3, <1>5 DEF TellInv, PairInv

LEMMA DiagnoseTells == TellInv /\ Diagnose => TellInv'
<1> SUFFICES ASSUME TellInv, Diagnose
             PROVE  TellInv'
  OBVIOUS
<1>1. Recorded /\ past # <<>>
  BY DEF TellInv, PairInv, Waiting, Diagnose
<1>2. /\ Recorded' /\ UNCHANGED <<report, bundle, dispatched>> /\ stage' = "coder"
      /\ records'.delivered = records.delivered /\ records'.revisions = records.revisions
  BY <1>1, DiagnoseEffect
<1>3. Waiting' /\ Followed' /\ Paired' /\ AnsweredInTurn'
  BY <1>1, PairedWhenDiagnosed, AnsweredWhenDiagnosed DEF TellInv
<1>4. StageType' /\ Reported'
  BY <1>2 DEF TellInv, PairInv, StageType, Reported
<1>5. Bundled'
  BY <1>2 DEF TellInv, Bundled
<1> QED
  BY <1>2, <1>3, <1>4, <1>5 DEF TellInv, PairInv

\* The ends: the report, the bundle, and a crash before the checkpoint.
LEMMA EndTells ==
    ASSUME TellInv,
           WriteReport \/ Finalise \/ CrashInReporter \/ UNCHANGED reportVars
    PROVE  TellInv'
<1>1. UNCHANGED <<records, past, dispatched>>
  BY DEF WriteReport, Finalise, CrashInReporter, reportVars
<1>2. SameLists /\ SameDiagnoses
  BY <1>1 DEF TellInv, PairInv, Recorded, SameLists, KeepsLists, SameDiagnoses
<1>3. \/ stage = "reporter" /\ stage' = "finalizer"
      \/ stage = "finalizer" /\ stage' = "end"
      \/ stage' = stage
  BY DEF WriteReport, Finalise, CrashInReporter, reportVars
<1>4. StageType' /\ Waiting' /\ Followed'
  BY <1>1, <1>3 DEF TellInv, PairInv, StageType, Waiting, Followed
<1>5. Paired' /\ AnsweredInTurn'
  BY <1>2, PairedWhenSame, AnsweredWhenSame DEF TellInv, PairInv
<1>6. DebugCycles' = DebugCycles
  BY <1>1 DEF DebugCycles, Fix, WasResolved
<1>7. Reported'
  <2>1. CASE WriteReport
    <3>1. report' = [cycles |-> DebugCycles, quality |-> QualityCycles]
      BY <2>1 DEF WriteReport, AssembleReport, ReportContext
    <3>2. report'.cycles = DebugCycles
      BY <3>1
    <3> QED
      BY <1>6, <3>2 DEF Reported
  <2>2. CASE ~WriteReport
    <3>1. UNCHANGED report /\ (stage = "finalizer" \/ stage' = stage)
      BY <2>2 DEF Finalise, CrashInReporter, reportVars
    <3> QED
      BY <1>6, <3>1 DEF TellInv, Reported
  <2> QED
    BY <2>1, <2>2
<1>8. /\ records.delivered \in Nat /\ records.revisions \in Nat
      /\ \/ UNCHANGED bundle
         \/ bundle' = [code |-> records.revisions, artifacts |-> records.delivered]
  BY ChannelsCount DEF TellInv, PairInv, Recorded, WriteReport, Finalise, CrashInReporter,
     reportVars, WriteBundle
<1>9. Bundled'
  BY <1>1, <1>8 DEF TellInv, Bundled
<1>10. Recorded'
  BY <1>1, <1>8 DEF TellInv, PairInv, Recorded
<1> QED
  BY <1>4, <1>5, <1>7, <1>9, <1>10 DEF TellInv, PairInv

LEMMA TellInvInit == ReportInit => TellInv
<1> SUFFICES ASSUME ReportInit
             PROVE  TellInv
  OBVIOUS
<1>1. Recorded
  BY DEF ReportInit, Recorded, Channels
<1>2. /\ past = <<>> /\ records.errors = <<>> /\ records.diagnoses = <<>>
      /\ Len(past) = 0 /\ DOMAIN past = {} /\ Len(records.diagnoses) = 0
      /\ stage = "coder" /\ dispatched = 1
  BY DEF ReportInit
<1>3. StageType /\ Waiting /\ Followed /\ Paired /\ Reported
  BY <1>2 DEF StageType, Waiting, Followed, Paired, Reported
<1>4. AnsweredInTurn /\ Bundled
  BY DEF ReportInit, AnsweredInTurn, Bundled
<1> QED
  BY <1>1, <1>3, <1>4 DEF TellInv, PairInv

LEMMA TellInvStep == TellInv /\ [ReportNext]_reportVars => TellInv'
BY OtherStepsTell, WriteRevisionTells, RunFailsTells, DiagnoseTells, EndTells DEF ReportNext

LEMMA TellInvImplies == TellInv => CyclesTellHistory /\ BundleIsOfItsCode
<1> SUFFICES ASSUME TellInv
             PROVE  CyclesTellHistory /\ BundleIsOfItsCode
  OBVIOUS
<1> DEFINE e == records.errors
           d == records.diagnoses
           n == Len(past)
<1>1. /\ e \in Seq(ErrorRecords) /\ d \in Seq(Nat) /\ Len(e) = n
      /\ n \in Nat /\ DOMAIN past = 1..n /\ records.revisions \in Nat
      /\ Len(d) \in Nat
  BY ChannelsCount, FailingsType, NumbersAppend
     DEF TellInv, PairInv, Recorded, AnsweredInTurn
<1>2. DOMAIN e = 1..n
  BY <1>1, ErrorsType
<1>3. ASSUME dispatched = 1
      PROVE  InLockstep
  <2>1. Len(past) \in Nat /\ DOMAIN past = 1..Len(past)
    BY <1>1
  <2> SUFFICES ASSUME NEW i \in 1..Len(past), NEW j \in 1..Len(past), i < j
               PROVE  past[i].diagnosed
    BY <2>1 DEF InLockstep
  <2> PICK m \in Nat : m = Len(past)
    BY <2>1
  <2>2. i # Len(past)
    <3>1. i \in 1..m /\ j \in 1..m
      OBVIOUS
    <3>2. i # m
      BY <3>1
    <3> QED
      BY <3>2
  <2>3. Followed
    BY DEF TellInv, PairInv
  <2> QED
    BY <1>3, <2>2, <2>3 DEF Followed
<1>4. ASSUME stage = "end", InLockstep
      PROVE  /\ Len(report.cycles) = n
             /\ \A i \in 1..n :
                  /\ report.cycles[i].diagnosis = IF past[i].diagnosed THEN i ELSE 0
                  /\ report.cycles[i].fix = past[i].answer
  <2>1. report.cycles = DebugCycles
    BY <1>4 DEF TellInv, Reported
  <2>2. DebugCycles \in [1..n -> {DebugCycles[i] : i \in 1..n}]
    BY <1>2 DEF DebugCycles
  <2>3. Len(DebugCycles) = n
    BY <1>1, <2>2, FunctionIsSequence
  <2>4. ASSUME NEW i \in 1..n
        PROVE  /\ DebugCycles[i].diagnosis = IF i <= Len(d) THEN d[i] ELSE 0
               /\ DebugCycles[i].fix = FixAt(e[i].revision, records.revisions)
    BY <1>2 DEF DebugCycles, Fix, FixAt
  <2>5. /\ Len(d) <= n
        /\ \A i \in 1..n : past[i].diagnosed <=> i <= Len(d)
        /\ \A i \in 1..Len(d) : d[i] = i
    BY <1>4 DEF TellInv, PairInv, Paired
  <2>6. \A i \in 1..n : past[i].answer = FixAt(e[i].revision, records.revisions)
    BY DEF TellInv, AnsweredInTurn
  <2> HIDE DEF e, d, n
  <2>7. ASSUME NEW i \in 1..n
        PROVE  DebugCycles[i].diagnosis = IF past[i].diagnosed THEN i ELSE 0
    <3>1. CASE i <= Len(d)
      BY <1>1, <2>4, <2>5, <3>1
    <3>2. CASE ~(i <= Len(d))
      BY <2>4, <2>5, <3>2
    <3> QED
      BY <3>1, <3>2
  <2> QED
    BY <2>1, <2>3, <2>4, <2>6, <2>7
<1>5. CyclesTellHistory
  BY <1>1, <1>3, <1>4 DEF CyclesTellHistory
<1>6. BundleIsOfItsCode
  <2>1. /\ records.delivered \in Nat /\ records.revisions \in Nat /\ bundle.artifacts \in Nat
        /\ bundle.code \in Nat
    BY ChannelsCount DEF TellInv, PairInv, Recorded
  <2> QED
    BY <2>1 DEF TellInv, Bundled, BundleIsOfItsCode
<1> QED
  BY <1>5, <1>6

-----------------------------------------------------------------------------
(* The points of run memory, and the rest of the types. *)

Remembered ==
    /\ IsABag(memory)
    /\ \A p \in DOMAIN memory :
         /\ p \in MemoryPoints /\ p.cycle \in 1..Len(past)
         /\ p.print = records.errors[p.cycle].print
         /\ p.fix \in {0, past[p.cycle].answer}
         /\ dispatched = 1 =>
               /\ stage \in {"reporter", "finalizer", "end"}
               /\ Status = "SUCCEEDED" /\ WasResolved(p.cycle)
               /\ p.fix = past[p.cycle].answer

\* What is written is added to what was there.
LEMMA WrittenAdds ==
    ASSUME IsABag(memory), NEW points, Written(points)
    PROVE  IsABag(memory') /\ DOMAIN memory' = DOMAIN memory \cup points
BY DEF Written, (+), SetToBag, IsABag

\* A point is of a resolved failure of a run that succeeded, with the revision
\* that answered it.
LEMMA PointsAreResolved ==
    ASSUME TellInv, NEW p \in EpisodicPoints
    PROVE  /\ p \in MemoryPoints /\ p.cycle \in 1..Len(past)
           /\ p.print = records.errors[p.cycle].print
           /\ p.fix = past[p.cycle].answer
           /\ Status = "SUCCEEDED" /\ WasResolved(p.cycle)
<1> DEFINE e == records.errors
<1>1. /\ e \in Seq(ErrorRecords) /\ Len(e) = Len(past)
      /\ \A i \in 1..Len(past) : past[i].answer = FixAt(e[i].revision, records.revisions)
  BY ChannelsCount DEF TellInv, PairInv, Recorded, AnsweredInTurn
<1>2. DOMAIN DebugCycles = DOMAIN e /\ DOMAIN e = 1..Len(past)
  BY <1>1, ErrorsType DEF DebugCycles
<1>3. PICK i \in 1..Len(past) :
        /\ p = [cycle |-> i, print |-> DebugCycles[i].print, fix |-> DebugCycles[i].fix]
        /\ DebugCycles[i].resolved /\ Status = "SUCCEEDED"
  BY <1>2 DEF EpisodicPoints
<1>4. /\ DebugCycles[i].print = e[i].print
      /\ DebugCycles[i].fix = FixAt(e[i].revision, records.revisions)
      /\ DebugCycles[i].resolved = WasResolved(i)
  BY <1>2 DEF DebugCycles, Fix, FixAt
<1>5. Len(past) \in Nat /\ past[i] \in Failings
  BY FailingsType DEF TellInv, PairInv, Recorded
<1>6. e[i] \in ErrorRecords
  BY <1>1, ErrorsType
<1>7. p.cycle = i /\ p.print = e[i].print /\ p.fix = past[i].answer
  BY <1>1, <1>3, <1>4
<1>8. p \in MemoryPoints
  <2>1. i \in Nat /\ e[i].print \in Prints /\ past[i].answer \in Nat
    BY <1>5, <1>6 DEF ErrorRecords, Failings
  <2>2. p = [cycle |-> i, print |-> e[i].print, fix |-> past[i].answer]
    BY <1>1, <1>3, <1>4
  <2> QED
    BY <2>1, <2>2 DEF MemoryPoints
<1> QED
  BY <1>3, <1>4, <1>7, <1>8

\* The reporter writes some of the points, whether it ends or dies.
LEMMA PointsWritten ==
    ASSUME TellInv, Remembered, NEW points \in SUBSET EpisodicPoints, Written(points),
           UNCHANGED <<records, past, dispatched>>,
           stage' \in {"reporter", "finalizer"}
    PROVE  Remembered'
<1>1. IsABag(memory') /\ DOMAIN memory' = DOMAIN memory \cup points
  BY WrittenAdds DEF Remembered
<1>2. Status' = Status /\ \A i : WasResolved(i)' = WasResolved(i)
  BY DEF Status, WasResolved
<1>3. ASSUME NEW p \in points
      PROVE  /\ p \in MemoryPoints /\ p.cycle \in 1..Len(past)
             /\ p.print = records.errors[p.cycle].print
             /\ p.fix = past[p.cycle].answer
             /\ Status = "SUCCEEDED" /\ WasResolved(p.cycle)
  BY PointsAreResolved
<1> QED
  BY <1>1, <1>2, <1>3 DEF Remembered

LEMMA ReporterRemembers ==
    ASSUME TellInv, Remembered,
           WriteReport \/ Finalise \/ CrashInReporter \/ UNCHANGED reportVars
    PROVE  Remembered'
<1>1. CASE (WriteReport /\ UNCHANGED memory) \/ Finalise \/ UNCHANGED reportVars
  <2>1. /\ UNCHANGED <<memory, records, past, dispatched>>
        /\ stage' = stage \/ stage' \in {"finalizer", "end"}
    BY <1>1 DEF WriteReport, Finalise, reportVars
  <2>2. Status' = Status /\ \A i : WasResolved(i)' = WasResolved(i)
    BY <2>1 DEF Status, WasResolved
  <2> QED
    BY <2>1, <2>2 DEF Remembered
<1>2. CASE WriteReport /\ Remember
  <2>1. UNCHANGED <<records, past, dispatched>> /\ stage' = "finalizer"
    BY <1>2 DEF WriteReport
  <2>2. \E points \in SUBSET EpisodicPoints : Written(points)
    BY <1>2 DEF Remember
  <2> QED
    BY <2>1, <2>2, PointsWritten
<1>3. CASE CrashInReporter
  <2>1. UNCHANGED <<records, past, dispatched>> /\ stage' = "reporter"
    BY <1>3 DEF CrashInReporter
  <2>2. \E points \in SUBSET EpisodicPoints : Written(points)
    BY <1>3 DEF CrashInReporter
  <2> QED
    BY <2>1, <2>2, PointsWritten
<1> QED
  BY <1>1, <1>2, <1>3 DEF WriteReport

\* What was remembered stays true of the failures while the run goes on, which it
\* does only after a second dispatch.
LEMMA RunRemembers ==
    ASSUME Remembered, UNCHANGED memory, Len(past) \in Nat, Len(past') \in Nat,
           Len(past) <= Len(past'),
           \A i \in 1..Len(past) :
               /\ records'.errors[i].print = records.errors[i].print
               /\ past[i].answer \in {0, past'[i].answer},
           \/ dispatched' # 1
           \/ UNCHANGED dispatched /\ stage \notin {"reporter", "finalizer", "end"},
           UNCHANGED dispatched \/ dispatched' # 1
    PROVE  Remembered'
<1> SUFFICES ASSUME NEW p \in DOMAIN memory
             PROVE  /\ p \in MemoryPoints /\ p.cycle \in 1..Len(past')
                    /\ p.print = records'.errors[p.cycle].print
                    /\ p.fix \in {0, past'[p.cycle].answer}
                    /\ dispatched' # 1
  BY DEF Remembered
<1>1. /\ p \in MemoryPoints /\ p.cycle \in 1..Len(past)
      /\ p.print = records.errors[p.cycle].print
      /\ p.fix \in {0, past[p.cycle].answer}
  BY DEF Remembered
<1>2. p.cycle \in 1..Len(past')
  BY <1>1
<1>3. dispatched' # 1
  BY DEF Remembered
<1> QED
  BY <1>1, <1>2, <1>3

LEMMA RunningRemembers ==
    ASSUME TellInv, Remembered,
           \/ WriteRevision \/ Diagnose
           \/ RunIsClean \/ DivertToReport \/ DispatchAgain
           \/ \E decision \in Decisions : Judge(decision)
           \/ \E print \in Prints : RunFails(print)
    PROVE  Remembered'
<1>1. /\ Recorded /\ Len(records.errors) = Len(past) /\ Len(past) \in Nat
      /\ records.errors \in Seq(ErrorRecords) /\ past \in Seq(Failings)
      /\ records.revisions + 1 \in Nat
  BY ChannelsCount, FailingsType DEF TellInv, PairInv, Recorded, AnsweredInTurn
<1>2. UNCHANGED memory
  BY DEF WriteRevision, Diagnose, RunIsClean, DivertToReport, DispatchAgain, Judge, RunFails
<1>3. /\ UNCHANGED dispatched \/ dispatched' # 1
      /\ \/ dispatched' # 1
         \/ UNCHANGED dispatched /\ stage \notin {"reporter", "finalizer", "end"}
  <2>1. CASE DispatchAgain
    BY <2>1 DEF DispatchAgain
  <2>2. CASE ~DispatchAgain
    <3>1. UNCHANGED dispatched
      BY <2>2 DEF WriteRevision, Diagnose, RunIsClean, DivertToReport, Judge, RunFails
    <3>2. stage \in {"coder", "sandbox_exec", "debugger", "evaluator"}
      BY <2>2 DEF WriteRevision, Diagnose, RunIsClean, DivertToReport, Judge, RunFails
    <3> QED
      BY <3>1, <3>2
  <2> QED
    BY <2>1, <2>2
<1>4. ASSUME KeepsLists(records', records), UNCHANGED past
      PROVE  Remembered'
  BY <1>1, <1>2, <1>3, <1>4, RunRemembers DEF KeepsLists
<1>5. CASE WriteRevision
  <2>1. \/ SameLists
        \/ records'.errors = records.errors /\ past' = AnsweredBy(records.revisions + 1)
    BY <1>1, <1>5, WriteRevisionEffect
  <2>2. CASE records'.errors = records.errors /\ past' = AnsweredBy(records.revisions + 1)
    <3>1. /\ Len(past') = Len(past)
          /\ \A i \in 1..Len(past) : past[i].answer \in {0, past'[i].answer}
      BY <1>1, <2>2, AnswersAreTyped
    <3> QED
      BY <1>1, <1>2, <1>3, <2>2, <3>1, RunRemembers
  <2> QED
    BY <1>4, <2>1, <2>2 DEF SameLists
<1>6. CASE Diagnose
  <2>1. past # <<>>
    BY <1>6 DEF TellInv, PairInv, Waiting, Diagnose
  <2>2. /\ records'.errors = records.errors /\ Len(past') = Len(past)
        /\ past'[Len(past)].answer = past[Len(past)].answer
        /\ \A i \in 1..Len(past) : i # Len(past) => past'[i] = past[i]
    BY <1>1, <1>6, <2>1, DiagnoseEffect
  <2>3. \A i \in 1..Len(past) : past[i].answer \in {0, past'[i].answer}
    BY <2>2
  <2> QED
    BY <1>1, <1>2, <1>3, <2>2, <2>3, RunRemembers
<1>7. CASE \/ RunIsClean \/ DivertToReport \/ DispatchAgain
           \/ \E decision \in Decisions : Judge(decision)
  BY <1>1, <1>4, <1>7, OtherEffects DEF SameLists
<1>8. ASSUME NEW print \in Prints, RunFails(print)
      PROVE  Remembered'
  <2>1. /\ records'.errors = Append(records.errors, BuildError(print))
        /\ past' = Append(past, [diagnosed |-> FALSE, answer |-> 0])
    BY <1>1, <1>8, RunFailsEffect
  <2>2. BuildError(print) \in ErrorRecords /\ [diagnosed |-> FALSE, answer |-> 0] \in Failings
    BY <1>1, ErrorIsTyped DEF Failings
  <2>3. \A i \in 1..Len(past) : records'.errors[i] = records.errors[i]
    BY <1>1, <2>1, <2>2, ErrorsAppend
  <2>4. Len(past') = Len(past) + 1 /\ \A i \in 1..Len(past) : past'[i] = past[i]
    BY <1>1, <2>1, <2>2, FailingsAppend
  <2>5. Len(past') \in Nat /\ Len(past) <= Len(past')
    BY <1>1, <2>4
  <2> QED
    BY <1>1, <1>2, <1>3, <2>3, <2>4, <2>5, RunRemembers
<1> QED
  BY <1>5, <1>6, <1>7, <1>8

LEMMA RememberedStep ==
    TellInv /\ Remembered /\ [ReportNext]_reportVars => Remembered'
BY RunningRemembers, ReporterRemembers DEF ReportNext

LEMMA RememberedInit == ReportInit => Remembered
BY DEF ReportInit, Remembered, EmptyBag, SetToBag, IsABag

LEMMA RememberedTells == TellInv /\ Remembered => MemoryIsOfSuccess
<1>1. TellInv => DOMAIN past = 1..Len(past)
  BY FailingsType DEF TellInv, PairInv, Recorded
<1> QED
  BY <1>1 DEF Remembered, MemoryIsOfSuccess, BagToSet

\* Report, bundle and run memory say of a run what happened in it, however many
\* failures there are and whichever node fails or is skipped: each failure stands
\* with the diagnosis made of it and the first revision after it (debug_cycles),
\* the files in bundle.zip are of the code beside them (_write_bundle), and what is
\* remembered is of failures that were resolved (_episodic_points).
THEOREM ReportTellsTheRun == ReportSpec => []RunIsTold
<1>1. TellInv /\ Remembered => RunIsTold
  BY TellInvImplies, RememberedTells DEF RunIsTold
<1>2. ReportSpec => [](TellInv /\ Remembered)
  BY TellInvInit, TellInvStep, RememberedInit, RememberedStep, PTL DEF ReportSpec
<1> QED
  BY <1>1, <1>2, PTL

\* What the types of the report rest on: only code that was written is run, so a
\* failure is of a revision there is and a diagnosis of a failure there was.
Kept ==
    /\ stage = "sandbox_exec" => records.revisions # 0
    /\ \A i \in 1..Len(records.errors) : records.errors[i].revision # 0
    /\ \A i \in 1..Len(records.diagnoses) : records.diagnoses[i] \in 1..Len(past)
    /\ Len(report.cycles) <= Len(records.errors)
    /\ misfortune \in [ReportFaults -> Nat]

LEMMA MisfortuneStep ==
    ASSUME misfortune \in [ReportFaults -> Nat], [ReportNext]_reportVars
    PROVE  misfortune' \in [ReportFaults -> Nat]
<1>1. \/ UNCHANGED misfortune
      \/ \E f \in ReportFaults : Befalls(f)
  BY DEF ReportNext, WriteRevision, RunIsClean, Diagnose, DivertToReport, WriteReport, Remember,
     Finalise, CrashInReporter, DispatchAgain, RunFails, Judge, ReportFaults, reportVars
<1>2. ASSUME NEW f \in ReportFaults, Befalls(f)
      PROVE  misfortune' \in [ReportFaults -> Nat]
  <2>1. misfortune[f] \in Nat /\ misfortune[f] > 0
    BY <1>2 DEF Befalls
  <2>2. misfortune[f] - 1 \in Nat
    BY <2>1
  <2> QED
    BY <1>2, <2>2 DEF Befalls
<1> QED
  BY <1>1, <1>2

\* A step that adds no failure and no diagnosis.
LEMMA KeptWhenSame ==
    ASSUME Kept, misfortune' \in [ReportFaults -> Nat],
           records'.errors = records.errors, records'.diagnoses = records.diagnoses,
           Len(past') = Len(past), UNCHANGED report,
           stage' = "sandbox_exec" => records'.revisions # 0
    PROVE  Kept'
BY DEF Kept

LEMMA KeptWhenFailed ==
    ASSUME TellInv, Kept, misfortune' \in [ReportFaults -> Nat],
           NEW print \in Prints, RunFails(print)
    PROVE  Kept'
<1> DEFINE e == records.errors
           n == Len(past)
<1>1. /\ Recorded /\ Len(e) = n /\ n \in Nat /\ e \in Seq(ErrorRecords)
      /\ past \in Seq(Failings) /\ records.revisions # 0
  BY ChannelsCount, FailingsType DEF TellInv, PairInv, Recorded, AnsweredInTurn, Kept, RunFails
<1>2. /\ UNCHANGED report /\ stage' \in {"debugger", "reporter"}
      /\ records'.diagnoses = records.diagnoses
      /\ records'.errors = Append(e, BuildError(print))
      /\ past' = Append(past, [diagnosed |-> FALSE, answer |-> 0])
  BY <1>1, RunFailsEffect
<1>3. /\ BuildError(print) \in ErrorRecords /\ BuildError(print).revision # 0
      /\ [diagnosed |-> FALSE, answer |-> 0] \in Failings
  BY <1>1, ErrorIsTyped DEF Failings
<1>4. /\ Len(records'.errors) = n + 1 /\ records'.errors[n + 1].revision # 0
      /\ \A i \in 1..n : records'.errors[i] = e[i]
  BY <1>1, <1>2, <1>3, ErrorsAppend
<1>5. Len(past') = n + 1
  BY <1>1, <1>2, <1>3, FailingsAppend
<1>6. \A i \in 1..(n + 1) : i \in 1..n \/ i = n + 1
  BY <1>1
<1>7. \A i \in 1..Len(records'.errors) : records'.errors[i].revision # 0
  BY <1>1, <1>4, <1>6 DEF Kept
<1>8. \A i \in 1..Len(records'.diagnoses) : records'.diagnoses[i] \in 1..Len(past')
  BY <1>1, <1>2, <1>5 DEF Kept
<1>9. Len(report'.cycles) <= Len(records'.errors)
  <2>1. Len(report.cycles) <= n
    BY <1>1 DEF Kept
  <2> QED
    BY <1>1, <1>2, <1>4, <2>1
<1> QED
  BY <1>2, <1>7, <1>8, <1>9 DEF Kept

LEMMA KeptWhenDiagnosed ==
    ASSUME TellInv, Kept, misfortune' \in [ReportFaults -> Nat], Diagnose
    PROVE  Kept'
<1> DEFINE d == records.diagnoses
<1>1. Recorded /\ past # <<>> /\ d \in Seq(Nat)
  BY ChannelsCount DEF TellInv, PairInv, Waiting, Diagnose, Recorded
<1>2. /\ UNCHANGED report /\ stage' = "coder" /\ records'.errors = records.errors
      /\ records'.diagnoses = Append(d, Len(past))
      /\ Len(past) \in 1..Len(past) /\ Len(past') = Len(past)
  BY <1>1, DiagnoseEffect
<1>3. Len(past) \in Nat
  BY <1>1, FailingsType DEF Recorded
<1>4. /\ Len(d) \in Nat /\ Len(records'.diagnoses) = Len(d) + 1
      /\ \A i \in 1..Len(d) : records'.diagnoses[i] = d[i]
      /\ records'.diagnoses[Len(d) + 1] = Len(past)
  BY <1>1, <1>2, <1>3, NumbersAppend
<1>5. \A i \in 1..(Len(d) + 1) : i \in 1..Len(d) \/ i = Len(d) + 1
  BY <1>4
<1>6. \A i \in 1..Len(records'.diagnoses) : records'.diagnoses[i] \in 1..Len(past')
  BY <1>2, <1>4, <1>5 DEF Kept
<1> QED
  BY <1>2, <1>6 DEF Kept

LEMMA KeptWhenReported ==
    ASSUME TellInv, Kept, misfortune' \in [ReportFaults -> Nat], WriteReport
    PROVE  Kept'
<1>1. records.errors \in Seq(ErrorRecords)
  BY ChannelsCount DEF TellInv, PairInv, Recorded
<1>2. Len(records.errors) \in Nat /\ DOMAIN records.errors = 1..Len(records.errors)
  BY <1>1, ErrorsType
<1>3. report' = [cycles |-> DebugCycles, quality |-> QualityCycles]
  BY DEF WriteReport, AssembleReport, ReportContext
<1>4. report'.cycles = DebugCycles
  BY <1>3
<1>5. DebugCycles \in [1..Len(records.errors) -> {DebugCycles[i] : i \in 1..Len(records.errors)}]
  BY <1>2 DEF DebugCycles
<1>6. Len(DebugCycles) = Len(records.errors)
  BY <1>2, <1>5, FunctionIsSequence
<1>7. UNCHANGED <<records, past>> /\ stage' = "finalizer"
  BY DEF WriteReport
<1> QED
  BY <1>2, <1>4, <1>6, <1>7 DEF Kept

LEMMA KeptStep == TellInv /\ Kept /\ [ReportNext]_reportVars => Kept'
<1> SUFFICES ASSUME TellInv, Kept, [ReportNext]_reportVars
             PROVE  Kept'
  OBVIOUS
<1>1. misfortune' \in [ReportFaults -> Nat]
  BY MisfortuneStep DEF Kept
<1>2. Recorded
  BY DEF TellInv, PairInv
<1>3. CASE WriteRevision
  <2>1. /\ records'.errors = records.errors /\ records'.diagnoses = records.diagnoses
        /\ Len(past') = Len(past) /\ UNCHANGED report
    BY <1>2, <1>3, WriteRevisionEffect, AnswersAreTyped, ChannelsCount
       DEF SameLists, KeepsLists, Recorded
  <2>2. stage' = "sandbox_exec" => records'.revisions # 0
    <3>1. CASE records' = [records EXCEPT !.revisions = @ + 1]
      <4>1. records.revisions + 1 # 0 /\ records.revisions + 1 \in Nat
        BY <1>2, ChannelsCount DEF Recorded
      <4> QED
        BY <1>2, <3>1, <4>1, ChannelsRevised DEF Recorded
    <3>2. CASE /\ stage' = IF records.revisions = 0 THEN "reporter" ELSE "sandbox_exec"
               /\ UNCHANGED records
      BY <3>2
    <3> QED
      BY <1>3, <3>1, <3>2 DEF WriteRevision
  <2> QED
    BY <1>1, <2>1, <2>2, KeptWhenSame
<1>4. CASE \/ RunIsClean \/ DivertToReport \/ DispatchAgain
           \/ \E decision \in Decisions : Judge(decision)
  <2>1. SameLists /\ UNCHANGED report /\ stage' \in {"coder", "evaluator", "reporter"}
    BY <1>2, <1>4, OtherEffects, OtherStages
  <2> QED
    BY <1>1, <2>1, KeptWhenSame DEF SameLists, KeepsLists
<1>5. CASE Finalise \/ CrashInReporter \/ UNCHANGED reportVars
  <2>1. UNCHANGED <<records, past, report>> /\ stage' \in {stage, "end"}
    BY <1>5 DEF Finalise, CrashInReporter, reportVars
  <2> QED
    BY <1>1, <2>1, KeptWhenSame DEF Kept
<1> QED
  BY <1>1, <1>3, <1>4, <1>5, KeptWhenFailed, KeptWhenDiagnosed, KeptWhenReported DEF ReportNext

LEMMA KeptInit == ReportInit => Kept
<1> SUFFICES ASSUME ReportInit
             PROVE  Kept
  OBVIOUS
<1>1. /\ Len(records.errors) = 0 /\ Len(records.diagnoses) = 0 /\ Len(report.cycles) = 0
      /\ stage = "coder"
  BY DEF ReportInit
<1>2. misfortune \in [ReportFaults -> Nat]
  BY ReportScenariosAssumption DEF ReportInit
<1> QED
  BY <1>1, <1>2 DEF Kept

LEMMA TypedReport == TellInv /\ Remembered /\ Kept => ReportTypeOK
<1> SUFFICES ASSUME TellInv, Remembered, Kept
             PROVE  ReportTypeOK
  OBVIOUS
<1> DEFINE e == records.errors
           n == Len(past)
           k == records.revisions
<1>1. /\ e \in Seq(ErrorRecords) /\ Len(e) = n /\ n \in Nat /\ k \in Nat
      /\ DOMAIN past = 1..n /\ DOMAIN records.diagnoses = 1..Len(records.diagnoses)
  BY ChannelsCount, FailingsType, NumbersAppend DEF TellInv, PairInv, Recorded, AnsweredInTurn
<1>2. DOMAIN e = 1..n /\ \A i \in 1..n : e[i].revision \in Nat
  BY <1>1, ErrorsType DEF ErrorRecords
<1>3. \A i \in 1..n :
        e[i].revision <= k /\ e[i].revision # 0 /\ past[i].answer = FixAt(e[i].revision, k)
  BY <1>1 DEF TellInv, AnsweredInTurn, Kept
<1>4. \A i \in 1..n : e[i].revision \in 1..k /\ past[i].answer <= k
  <2> HIDE DEF e, n, k
  <2> QED
    BY <1>1, <1>2, <1>3 DEF FixAt
<1>5. IsABag(memory) /\ BagToSet(memory) \subseteq MemoryPoints
  BY DEF Remembered, BagToSet
<1>6. /\ records \in Channels /\ past \in Seq(Failings)
      /\ bundle \in [code : Nat, artifacts : Nat]
      /\ stage \in {"coder", "sandbox_exec", "debugger", "evaluator", "reporter",
                   "finalizer", "end"}
      /\ dispatched \in 1..2 /\ records.delivered <= records.revisions
  BY DEF TellInv, PairInv, Recorded, StageType, Bundled
<1>7. /\ \A i \in DOMAIN records.diagnoses : records.diagnoses[i] \in DOMAIN past
      /\ Len(report.cycles) <= Len(records.errors)
      /\ misfortune \in [ReportFaults -> Nat]
  BY <1>1 DEF Kept
<1> QED
  BY <1>1, <1>2, <1>4, <1>5, <1>6, <1>7 DEF ReportTypeOK

\* What the channels, the report, the bundle and run memory hold: each failure is of
\* a revision that was written, each diagnosis of a failure there was, and the
\* artifacts and answers of revisions there are (engine/state.py, nodes/reporter.py).
THEOREM ReportTypeCorrect == ReportSpec => []ReportTypeOK
<1>1. ReportSpec => [](TellInv /\ Remembered /\ Kept)
  BY TellInvInit, TellInvStep, RememberedInit, RememberedStep, KeptInit, KeptStep, PTL
     DEF ReportSpec
<1> QED
  BY <1>1, TypedReport, PTL

-----------------------------------------------------------------------------
(* The containers of a revision, for any number of executions of it and any  *)
(* number of faults of every kind: types, and with them that there is never  *)
(* more than one container of that name; what a verdict says of the          *)
(* container it is about; and what the reaper removes.                       *)

USE DEF rowVars, dockerVars, readVars, cancelVars, Handle

\* The types without the number of containers.
PartTypes ==
    /\ row \in {"RUNNING", "INTERRUPTED", "TERMINAL"}
    /\ latest \in 0..Executions
    /\ step \in [Drivers -> Steps]
    /\ box \in [Drivers -> {"none", "created", "running", "exited", "removed"}]
    /\ fate \in [Drivers -> Fates]
    /\ seen \in [Drivers -> Fates]
    /\ overtime \subseteq Drivers
    /\ verdict \in [Drivers -> Verdicts]
    /\ dropped \subseteq cancelled /\ cancelled \subseteq Drivers
    /\ sweep \in [at : {"idle", "listed", "removing"}, boxes : SUBSET Drivers]
    /\ spare \in [SandboxFaults -> Nat]

LEMMA SufferType ==
    ASSUME spare \in [SandboxFaults -> Nat], NEW f \in SandboxFaults, Suffer(f)
    PROVE  spare' \in [SandboxFaults -> Nat]
BY DEF Suffer

LEMMA ReturnType ==
    ASSUME PartTypes, NEW d \in Drivers, NEW v \in Verdicts, Return(d, v) \/ Raise(d, v)
    PROVE  step' \in [Drivers -> Steps] /\ verdict' \in [Drivers -> Verdicts]
BY DEF Return, Raise, Goto, PartTypes, Steps

LEMMA GotoType ==
    ASSUME PartTypes, NEW d \in Drivers, NEW s \in Steps, Goto(d, s)
    PROVE  step' \in [Drivers -> Steps]
BY DEF Goto, PartTypes

LEMMA ClassificationType == \A d : Classification(d) \in Verdicts
BY DEF Classification, Verdicts

\* A cancellation or a fault is one the scenario has left.
LEMMA SpareStep ==
    ASSUME PartTypes, [SandboxNext]_sandboxRunVars
    PROVE  spare' \in [SandboxFaults -> Nat]
<1>1. spare' = spare \/ \E f \in SandboxFaults : Suffer(f)
  <2> USE DEF SandboxFaults
  <2>1. ASSUME NEW d \in Drivers,
               Execute(d) \/ Deadline(d) \/ Exit(d)
        PROVE  spare' = spare
    BY <2>1 DEF Execute, Deadline, Exit
  <2>2. ASSUME NEW d \in Drivers,
               \/ CreateContainer(d) \/ Start(d) \/ Poll(d) \/ Kill(d) \/ Reread(d)
               \/ RemoveContainer(d)
        PROVE  spare' = spare \/ Suffer("blip")
    BY <2>2 DEF CreateContainer, Start, Poll, Kill, Reread, ReadStateFails, RemoveContainer
  <2>3. ASSUME NEW d \in Drivers, CancelExecution(d) \/ CrashDriver(d)
        PROVE  Suffer("cancel") \/ Suffer("crash")
    BY <2>3 DEF CancelExecution, CrashDriver
  <2>4. CASE EndEarly \/ LoseLease
    BY <2>4 DEF EndEarly, LoseLease
  <2>5. CASE \/ EndRow \/ Interrupt \/ Resume \/ ListContainers \/ JudgeRuns
             \/ UNCHANGED sandboxRunVars
    BY <2>5 DEF EndRow, Interrupt, Resume, ListContainers, JudgeRuns, sandboxRunVars
  <2>6. CASE ReapContainer
    BY <2>6 DEF ReapContainer
  <2> QED
    BY <2>1, <2>2, <2>3, <2>4, <2>5, <2>6 DEF SandboxNext, DriverStep, ReaperStep
<1> QED
  BY <1>1, SufferType DEF PartTypes

LEMMA PartTypesStep == PartTypes /\ [SandboxNext]_sandboxRunVars => PartTypes'
<1> SUFFICES ASSUME PartTypes, [SandboxNext]_sandboxRunVars
             PROVE  PartTypes'
  OBVIOUS
<1>1. spare' \in [SandboxFaults -> Nat]
  BY SpareStep
<1>2. ASSUME NEW d \in Drivers, Execute(d)
      PROVE  PartTypes'
  <2>1. step' \in [Drivers -> Steps] /\ verdict' \in [Drivers -> Verdicts]
    BY <1>2, ReturnType, GotoType DEF Execute, PartTypes, Verdicts, Steps
  <2> QED
    BY <1>1, <1>2, <2>1 DEF Execute, PartTypes
<1>3. ASSUME NEW d \in Drivers, CreateContainer(d)
      PROVE  PartTypes'
  <2>1. step' \in [Drivers -> Steps] /\ verdict' \in [Drivers -> Verdicts]
    BY <1>3, ReturnType, GotoType DEF CreateContainer, PartTypes, Verdicts, Steps
  <2>2. box' \in [Drivers -> {"none", "created", "running", "exited", "removed"}]
    BY <1>3 DEF CreateContainer, PartTypes
  <2> QED
    BY <1>1, <1>3, <2>1, <2>2 DEF CreateContainer, PartTypes
<1>4. ASSUME NEW d \in Drivers, Start(d)
      PROVE  PartTypes'
  <2>1. step' \in [Drivers -> Steps] /\ verdict' \in [Drivers -> Verdicts]
    BY <1>4, ReturnType, GotoType DEF Start, PartTypes, Verdicts, Steps
  <2> QED
    BY <1>1, <1>4, <2>1 DEF Start, PartTypes
<1>5. ASSUME NEW d \in Drivers, Exit(d)
      PROVE  PartTypes'
  BY <1>1, <1>5 DEF Exit, PartTypes, Fates
<1>6. ASSUME NEW d \in Drivers, Poll(d) \/ Reread(d)
      PROVE  PartTypes'
  <2>1. step' \in [Drivers -> Steps] /\ verdict' \in [Drivers -> Verdicts]
    BY <1>6, ReturnType, GotoType DEF Poll, Reread, ReadStateFails, PartTypes,
       Verdicts, Steps
  <2> QED
    BY <1>1, <1>6, <2>1 DEF Poll, Reread, ReadStateFails, PartTypes
<1>7. ASSUME NEW d \in Drivers, Deadline(d)
      PROVE  PartTypes'
  BY <1>1, <1>7 DEF Deadline, Goto, PartTypes, Steps
<1>8. ASSUME NEW d \in Drivers, Kill(d)
      PROVE  PartTypes'
  BY <1>1, <1>8 DEF Kill, Goto, PartTypes, Steps, Fates
<1>9. ASSUME NEW d \in Drivers, RemoveContainer(d)
      PROVE  PartTypes'
  <2>1. step' \in [Drivers -> Steps] /\ verdict' \in [Drivers -> Verdicts]
    BY <1>9, ReturnType, ClassificationType DEF RemoveContainer, PartTypes
  <2> QED
    BY <1>1, <1>9, <2>1 DEF RemoveContainer, PartTypes
<1>10. ASSUME NEW d \in Drivers, CancelExecution(d)
       PROVE  PartTypes'
  <2>1. step' \in [Drivers -> Steps] /\ verdict' \in [Drivers -> Verdicts]
    BY <1>10, ReturnType DEF CancelExecution, PartTypes, Verdicts
  <2> QED
    BY <1>1, <1>10, <2>1 DEF CancelExecution, PartTypes
<1>11. ASSUME NEW d \in Drivers, CrashDriver(d)
       PROVE  PartTypes'
  BY <1>1, <1>11 DEF CrashDriver, Goto, PartTypes, Steps
<1>12. CASE EndRow \/ EndEarly \/ Interrupt \/ LoseLease \/ Resume
  BY <1>1, <1>12, ExecutionsAssumption
  DEF EndRow, EndEarly, Interrupt, LoseLease, Resume, PartTypes
<1>13. CASE ListContainers \/ JudgeRuns
  BY <1>1, <1>13 DEF ListContainers, JudgeRuns, PartTypes
<1>14. CASE ReapContainer
  BY <1>1, <1>14 DEF ReapContainer, PartTypes
<1>15. CASE UNCHANGED sandboxRunVars
  BY <1>15 DEF sandboxRunVars, PartTypes
<1> QED
  BY <1>2, <1>3, <1>4, <1>5, <1>6, <1>7, <1>8, <1>9, <1>10, <1>11, <1>12, <1>13, <1>14,
     <1>15 DEF SandboxNext, DriverStep, ReaperStep

\* The container of an execution has the name of the one before it: what is
\* created takes the place of what is there.
Boxes == {d \in Drivers : Exists(d)}

LEMMA BoxesStep ==
    ASSUME PartTypes, [SandboxNext]_sandboxRunVars
    PROVE  Boxes' \subseteq Boxes \/ \E d \in Drivers : Boxes' \subseteq {d}
<1> USE DEF Boxes, Exists
<1>1. ASSUME NEW d \in Drivers, CreateContainer(d)
      PROVE  Boxes' \subseteq Boxes \/ Boxes' \subseteq {d}
  BY <1>1 DEF CreateContainer, PartTypes
<1>2. ASSUME NEW d \in Drivers, Start(d) \/ Exit(d) \/ Kill(d) \/ RemoveContainer(d)
      PROVE  Boxes' \subseteq Boxes
  BY <1>2 DEF Start, Exit, Kill, RemoveContainer, PartTypes
<1>3. CASE ReapContainer
  BY <1>3 DEF ReapContainer, PartTypes
<1>4. ASSUME NEW d \in Drivers,
             \/ Execute(d) \/ Poll(d) \/ Deadline(d) \/ Reread(d) \/ CancelExecution(d)
             \/ CrashDriver(d)
      PROVE  box' = box
  BY <1>4 DEF Execute, Poll, Deadline, Reread, CancelExecution, CrashDriver
<1>5. CASE \/ EndRow \/ EndEarly \/ Interrupt \/ LoseLease \/ Resume \/ ListContainers
           \/ JudgeRuns \/ UNCHANGED sandboxRunVars
  BY <1>5 DEF EndRow, EndEarly, Interrupt, LoseLease, Resume, ListContainers, JudgeRuns,
     sandboxRunVars
<1> QED
  BY <1>1, <1>2, <1>3, <1>4, <1>5 DEF SandboxNext, DriverStep, ReaperStep

LEMMA AtMostOne ==
    ASSUME NEW S, NEW d, S \subseteq {d}
    PROVE  Cardinality(S) <= 1
<1>1. IsFiniteSet({d}) /\ Cardinality({d}) = 1
  BY FS_Singleton
<1> QED
  BY <1>1, FS_Subset

LEMMA SandboxTypeStep == SandboxTypeOK /\ [SandboxNext]_sandboxRunVars => SandboxTypeOK'
<1> SUFFICES ASSUME SandboxTypeOK, [SandboxNext]_sandboxRunVars
             PROVE  SandboxTypeOK'
  OBVIOUS
<1>1. PartTypes /\ Cardinality(Boxes) <= 1
  BY DEF SandboxTypeOK, PartTypes, Boxes
<1>2. PartTypes'
  BY <1>1, PartTypesStep
<1>3. Cardinality(Boxes') <= 1
  <2>1. CASE Boxes' \subseteq Boxes
    <3>1. IsFiniteSet(Boxes)
      <4>1. IsFiniteSet(Drivers)
        BY FS_Interval, ExecutionsAssumption DEF Drivers
      <4> QED
        BY <4>1, FS_Subset DEF Boxes
    <3>2. Cardinality(Boxes') <= Cardinality(Boxes) /\ IsFiniteSet(Boxes')
      BY <2>1, <3>1, FS_Subset
    <3> QED
      BY <1>1, <3>1, <3>2, FS_CardinalityType
  <2>2. CASE \E d \in Drivers : Boxes' \subseteq {d}
    BY <2>2, AtMostOne
  <2> QED
    BY <1>1, <2>1, <2>2, BoxesStep
<1> QED
  BY <1>2, <1>3 DEF SandboxTypeOK, PartTypes, Boxes

LEMMA SandboxTypeInit == SandboxInit => SandboxTypeOK
<1> SUFFICES ASSUME SandboxInit
             PROVE  SandboxTypeOK
  OBVIOUS
<1>1. Cardinality({d \in Drivers : Exists(d)}) <= 1
  <2>1. {d \in Drivers : Exists(d)} = {}
    BY DEF SandboxInit, Exists
  <2> QED
    BY <2>1, FS_EmptySet
<1>2. spare \in [SandboxFaults -> Nat]
  BY SandboxScenariosAssumption DEF SandboxInit
<1> QED
  BY <1>1, <1>2, ExecutionsAssumption
  DEF SandboxInit, SandboxTypeOK, Steps, Fates, Verdicts

\* The variables have their types; and however many executions of a revision
\* there are, drivers dead or alive, at most one container has their name.
THEOREM SandboxTypeCorrect == SandboxSpec => []SandboxTypeOK
BY SandboxTypeInit, SandboxTypeStep, PTL DEF SandboxSpec

-----------------------------------------------------------------------------
(* Verdicts *)

\* An execution that has not been started left no trace; a container that has
\* ended stays as it ended; what was read of it is how it ended.
Fresh ==
    \A d \in Drivers : step[d] \in {"idle", "create"} =>
        box[d] = "none" /\ fate[d] = "none" /\ seen[d] = "none" /\ verdict[d] = "none"

Ended == \A d \in Drivers : fate[d] # "none" => box[d] \in {"exited", "removed"}

Read == \A d \in Drivers : seen[d] # "none" => seen[d] = fate[d]

Judged == \A d \in Drivers : verdict[d] = "CLEAN" => step[d] = "finished" /\ seen[d] = "zero"

\* Where a cancelled execution is on its way to its end.
Stopping ==
    \A d \in cancelled :
        \/ step[d] = "create" /\ d \in dropped
        \/ step[d] \in {"remove", "finished"} /\ verdict[d] = "CANCELLED"
        \/ step[d] = "dead"

\* The container reaper goes on only with what it saw of an execution that is
\* over: the one a resume starts is a later one.
Swept ==
    /\ \A d \in Drivers : step[d] # "idle" => d <= latest
    /\ \A d \in sweep.boxes : box[d] # "none"
    /\ sweep.at = "removing" => row = "TERMINAL" \/ latest \notin sweep.boxes

VerdictInv == SandboxTypeOK /\ Fresh /\ Ended /\ Read /\ Judged /\ Stopping /\ Swept

LEMMA DriverKeeps ==
    ASSUME VerdictInv, PartTypes, NEW d \in Drivers, DriverStep(d)
    PROVE  (Fresh /\ Ended /\ Read /\ Judged /\ Stopping)'
<1> USE DEF VerdictInv, Fresh, Ended, Read, Judged, Stopping, PartTypes
<1>1. CASE Execute(d)
  BY <1>1 DEF Execute, Return, Goto
<1>2. CASE CreateContainer(d)
  BY <1>2 DEF CreateContainer, Return, Goto, Exists
<1>3. CASE Start(d)
  BY <1>3 DEF Start, Raise, Goto
<1>4. CASE Poll(d)
  BY <1>4 DEF Poll, ReadStateFails, Raise, Goto
<1>5. CASE Deadline(d)
  BY <1>5 DEF Deadline, Goto
<1>6. CASE Kill(d)
  BY <1>6 DEF Kill, Goto
<1>7. CASE Reread(d)
  BY <1>7 DEF Reread, ReadStateFails, Raise, Goto
<1>8. CASE RemoveContainer(d)
  BY <1>8 DEF RemoveContainer, Return, Goto, Classification, Exists
<1> QED
  BY <1>1, <1>2, <1>3, <1>4, <1>5, <1>6, <1>7, <1>8 DEF DriverStep

LEMMA OthersKeep ==
    ASSUME VerdictInv, PartTypes,
           \/ \E d \in Drivers : Exit(d) \/ CancelExecution(d) \/ CrashDriver(d)
           \/ EndRow \/ EndEarly \/ Interrupt \/ LoseLease \/ Resume \/ ReaperStep
           \/ UNCHANGED sandboxRunVars
    PROVE  (Fresh /\ Ended /\ Read /\ Judged /\ Stopping)'
<1> USE DEF VerdictInv, Fresh, Ended, Read, Judged, Stopping, PartTypes
<1>1. ASSUME NEW d \in Drivers, Exit(d)
      PROVE  (Fresh /\ Ended /\ Read /\ Judged /\ Stopping)'
  BY <1>1 DEF Exit
<1>2. ASSUME NEW d \in Drivers, CancelExecution(d)
      PROVE  (Fresh /\ Ended /\ Read /\ Judged /\ Stopping)'
  BY <1>2 DEF CancelExecution, Raise, Goto
<1>3. ASSUME NEW d \in Drivers, CrashDriver(d)
      PROVE  (Fresh /\ Ended /\ Read /\ Judged /\ Stopping)'
  BY <1>3 DEF CrashDriver, Goto, Live
<1>4. CASE EndRow \/ EndEarly \/ Interrupt \/ LoseLease \/ Resume \/ UNCHANGED sandboxRunVars
  BY <1>4 DEF EndRow, EndEarly, Interrupt, LoseLease, Resume, sandboxRunVars
<1>5. CASE ListContainers \/ JudgeRuns
  BY <1>5 DEF ListContainers, JudgeRuns
<1>6. CASE ReapContainer
  BY <1>6 DEF ReapContainer, Swept
<1> QED
  BY <1>1, <1>2, <1>3, <1>4, <1>5, <1>6 DEF ReaperStep

LEMMA SweptStep ==
    ASSUME VerdictInv, PartTypes, [SandboxNext]_sandboxRunVars
    PROVE  Swept'
<1> USE DEF VerdictInv, Swept, PartTypes
<1>1. ASSUME NEW d \in Drivers, DriverStep(d)
      PROVE  Swept'
  <2>1. UNCHANGED <<rowVars, sweep>>
    BY <1>1 DEF DriverStep, Execute, CreateContainer, Start, Poll, Deadline, Kill, Reread,
       RemoveContainer
  <2>2. \A e \in Drivers : step'[e] = step[e] \/ (e = d /\ (step[d] # "idle" \/ d = latest))
    BY <1>1 DEF DriverStep, Execute, CreateContainer, Start, Poll, Deadline, Kill, Reread,
       ReadStateFails, RemoveContainer, Return, Raise, Goto
  <2>3. \A e \in Drivers : box'[e] = "none" => box[e] = "none"
    BY <1>1 DEF DriverStep, Execute, CreateContainer, Start, Poll, Deadline, Kill, Reread,
       RemoveContainer, Exists
  <2> QED
    BY <2>1, <2>2, <2>3 DEF Drivers
<1>2. ASSUME NEW d \in Drivers, Exit(d) \/ CancelExecution(d) \/ CrashDriver(d)
      PROVE  Swept'
  BY <1>2 DEF Exit, CancelExecution, CrashDriver, Raise, Goto, Live
<1>3. CASE EndRow \/ EndEarly \/ Interrupt \/ LoseLease \/ UNCHANGED sandboxRunVars
  BY <1>3 DEF EndRow, EndEarly, Interrupt, LoseLease, sandboxRunVars
<1>4. CASE Resume
  <2>1. /\ latest' = latest + 1 /\ latest \in Nat /\ UNCHANGED <<step, box, sweep>>
    BY <1>4 DEF Resume
  <2>2. \A d \in sweep.boxes : d \in Drivers /\ step[d] # "idle" /\ d <= latest /\ d \in Nat
    BY DEF Fresh, Drivers
  <2>3. latest' \notin sweep.boxes
    BY <2>1, <2>2
  <2>4. \A d \in Drivers : step[d] # "idle" => d <= latest'
    BY <2>1 DEF Drivers
  <2> QED
    BY <2>1, <2>3, <2>4
<1>5. CASE ListContainers
  BY <1>5 DEF ListContainers, Exists
<1>6. CASE JudgeRuns
  BY <1>6 DEF JudgeRuns
<1>7. CASE ReapContainer
  BY <1>7 DEF ReapContainer
<1> QED
  BY <1>1, <1>2, <1>3, <1>4, <1>5, <1>6, <1>7 DEF SandboxNext, ReaperStep

LEMMA VerdictInvStep == VerdictInv /\ [SandboxNext]_sandboxRunVars => VerdictInv'
<1> SUFFICES ASSUME VerdictInv, [SandboxNext]_sandboxRunVars
             PROVE  VerdictInv'
  OBVIOUS
<1>1. SandboxTypeOK /\ SandboxTypeOK' /\ PartTypes
  BY SandboxTypeStep DEF VerdictInv, SandboxTypeOK, PartTypes
<1>2. (Fresh /\ Ended /\ Read /\ Judged /\ Stopping)'
  BY <1>1, DriverKeeps, OthersKeep DEF SandboxNext
<1> QED
  BY <1>1, <1>2, SweptStep DEF VerdictInv

LEMMA VerdictInvInit == SandboxInit => VerdictInv
<1>1. SandboxInit => Fresh /\ Ended /\ Read /\ Judged /\ Stopping
  BY DEF SandboxInit, Fresh, Ended, Read, Judged, Stopping
<1>2. SandboxInit => Swept
  BY DEF SandboxInit, Swept
<1> QED
  BY <1>1, <1>2, SandboxTypeInit DEF VerdictInv

LEMMA VerdictInvAlways == SandboxSpec => []VerdictInv
BY VerdictInvInit, VerdictInvStep, PTL DEF SandboxSpec

LEMMA VerdictInvTells == VerdictInv => VerdictTellsFate
BY DEF VerdictInv, Judged, Read, Stopping, VerdictTellsFate, CleanIsOwnExit,
       CancelledReturnsNothing

\* An execution is reported clean only if its own container exited with 0,
\* whichever execution removed, created or read a container of that name since
\* (execute_python, services/sandbox.py), and one that was cancelled returns no
\* result, wherever the cancellation reached it (its `finally`, and the worker
\* above it).
THEOREM VerdictIsEarned == SandboxSpec => []VerdictTellsFate
BY VerdictInvAlways, VerdictInvTells, PTL

\* What the reaper removes is of a run that has ended, or of an execution the
\* run has left behind, whenever it is resumed.
THEOREM ReaperLeavesCurrent == SandboxSpec => ReapingSparesCurrent
<1>1. ASSUME VerdictInv, NEW d \in Drivers, ReapContainer, Exists(d), box'[d] = "removed"
      PROVE  row = "TERMINAL" \/ d # latest
  <2>1. PICK e \in sweep.boxes : box' = [box EXCEPT ![e] = "removed"] \/ box' = box
    BY <1>1 DEF ReapContainer
  <2>2. d = e
    BY <1>1, <2>1 DEF Exists, VerdictInv, SandboxTypeOK
  <2> QED
    BY <1>1, <2>1, <2>2 DEF ReapContainer, VerdictInv, Swept
<1>2. VerdictInv /\ [SandboxNext]_sandboxRunVars
        => [\A d \in Drivers : ReapContainer /\ Exists(d) /\ box'[d] = "removed"
              => row = "TERMINAL" \/ d # latest]_sandboxRunVars
  BY <1>1
<1> QED
  BY <1>2, VerdictInvAlways, PTL DEF SandboxSpec, ReapingSparesCurrent
=============================================================================
