---------------------------- MODULE Failures_proofs ----------------------------
(* Proofs about Failures. A training step whose execution is called clean    *)
(* can be judged, whatever the programs print and leave behind: this rests   *)
(* on what the checks of metrics.json return, a list of the problems of      *)
(* several checks that is empty only if each check found none. A window of   *)
(* failures of one cause, and nothing less, ends at the planner, as far as   *)
(* fingerprints tell causes apart. And, at the end, the services together:   *)
(* what is proved of each of them holds of the system of them all.           *)
EXTENDS Services_proofs, Tracking_proofs, MCServices

LOCAL INSTANCE SequencesExt

\* A check has found at most one problem with each thing it looked at.
Findings(s, n) ==
    /\ n \in Nat /\ DOMAIN s = 1..n /\ s = [i \in 1..n |-> s[i]]
    /\ \A i \in 1..n : s[i] = <<>> \/ \E x : s[i] = <<x>>

Listed(x) == \E S : x \in Seq(S)

LEMMA FindingsAreSeq ==
    ASSUME NEW s, NEW n, Findings(s, n)
    PROVE  \E S : s \in Seq(Seq(S)) /\ Len(s) = n
<1> DEFINE S == {s[i][1] : i \in 1..n}
<1>1. \A i \in 1..n : s[i] \in Seq(S)
  <2> SUFFICES ASSUME NEW i \in 1..n PROVE s[i] \in Seq(S)
    OBVIOUS
  <2>1. CASE s[i] = <<>>
    BY <2>1
  <2>2. CASE \E x : s[i] = <<x>>
    <3>1. PICK x : s[i] = <<x>>
      BY <2>2
    <3>2. x \in S
      <4>1. s[i][1] = x
        BY <3>1
      <4> QED
        BY <4>1
    <3> HIDE DEF S
    <3> QED
      BY <3>1, <3>2
  <2> QED
    BY <2>1, <2>2 DEF Findings
<1> HIDE DEF S
<1>2. s \in Seq(Seq(S)) /\ Len(s) = n
  BY <1>1 DEF Findings
<1> QED
  BY <1>2

Flat(s, f, i) == IF i = 1 THEN s[i] ELSE f[i - 1] \o s[i]
Flattened(s) == CHOOSE f : f = [i \in 1..Len(s) |-> Flat(s, f, i)]

LEMMA FlattenIs == ASSUME NEW s, Len(s) # 0 PROVE FlattenSeq(s) = Flattened(s)[Len(s)]
BY DEF FlattenSeq, Flattened, Flat

LEMMA FlatDefined ==
    ASSUME NEW S, NEW s \in Seq(Seq(S)), Len(s) # 0
    PROVE  /\ \A i \in 1..Len(s) : Flattened(s)[i] = Flat(s, Flattened(s), i)
           /\ \A i \in 1..Len(s) : Flattened(s)[i] \in Seq(S)
<1> DEFINE n == Len(s)
           F == [1..n -> Seq(S)]
           Good(f, k) == \A i \in 1..k : f[i] = Flat(s, f, i)
           T == {j \in 0..(n - 1) : \E f \in F : Good(f, n - j)}
<1>1. n \in Nat /\ n > 0 /\ \A i \in 1..n : s[i] \in Seq(S)
  OBVIOUS
<1> HIDE DEF n
<1>2. n - 1 \in T
  <2> DEFINE f == [i \in 1..n |-> s[1]]
  <2>1. f \in F
    BY <1>1
  <2>2. n - (n - 1) = 1 /\ n - 1 \in 0..(n - 1)
    BY <1>1
  <2>3. Good(f, 1)
    BY <1>1 DEF Flat
  <2> QED
    BY <2>1, <2>2, <2>3
<1>3. PICK j \in T : \A i \in T : j <= i
  <2>1. T \in SUBSET Nat /\ T # {}
    <3>1. 0..(n - 1) \subseteq Nat
      <4> HIDE DEF T
      <4> QED
        BY <1>1
    <3>2. T \subseteq 0..(n - 1)
      OBVIOUS
    <3> QED
      BY <1>2, <3>1, <3>2
  <2> HIDE DEF T
  <2> QED
    BY <2>1, LeastNat
<1>4. PICK f \in F : Good(f, n - j)
  BY <1>3
<1>5. j \in Nat /\ j <= n - 1
  BY <1>1, <1>3
<1>6. j = 0
  <2> SUFFICES ASSUME j # 0 PROVE FALSE
    OBVIOUS
  <2> DEFINE k == n - j
             new == f[k] \o s[k + 1]
             g == [f EXCEPT ![k + 1] = new]
  <2>1. k \in 1..n /\ k + 1 \in 1..n /\ k \in Nat
    BY <1>1, <1>5
  <2>2. new \in Seq(S)
    BY <1>1, <1>4, <2>1
  <2> HIDE DEF k, new
  <2>3. g \in F /\ g[k + 1] = new /\ \A i \in 1..n : i # k + 1 => g[i] = f[i]
    BY <1>4, <2>1, <2>2
  <2> HIDE DEF g
  <2>4. ASSUME NEW i \in 1..(k + 1) PROVE g[i] = Flat(s, g, i)
    <3>1. CASE i = k + 1
      <4>1. i # 1 /\ i - 1 = k /\ k # k + 1
        BY <2>1, <3>1
      <4> QED
        BY <2>1, <2>3, <3>1, <4>1 DEF Flat, new
    <3>2. CASE i # k + 1
      <4>1. i \in 1..k /\ i \in 1..n
        <5> HIDE DEF F, Good, T
        <5> QED
          BY <1>1, <2>1, <2>4, <3>2
      <4>2. f[i] = Flat(s, f, i)
        BY <1>4, <4>1 DEF k
      <4>3. i # 1 => i - 1 \in 1..n /\ i - 1 # k + 1
        <5> HIDE DEF F, Good, T
        <5> QED
          BY <1>1, <2>1, <4>1
      <4> QED
        BY <2>3, <3>2, <4>1, <4>2, <4>3 DEF Flat
    <3> QED
      BY <3>1, <3>2
  <2>5. n - (j - 1) = k + 1 /\ j - 1 \in 0..(n - 1)
    BY <1>1, <1>5 DEF k
  <2>6. j - 1 \in T
    BY <2>3, <2>4, <2>5
  <2>7. j <= j - 1
    BY <1>3, <2>6
  <2> QED
    BY <1>5, <2>7
<1>7. n - j = n
  BY <1>1, <1>6
<1>8. f = [i \in 1..n |-> Flat(s, f, i)]
  BY <1>4, <1>7
<1>9. Flattened(s) = [i \in 1..n |-> Flat(s, Flattened(s), i)]
  BY <1>8 DEF Flattened, n
<1>10. \A i \in 1..n : Flattened(s)[i] = Flat(s, Flattened(s), i)
  BY <1>9
<1>11. \A i \in 1..n : Flattened(s)[i] \in Seq(S)
  <2> DEFINE U == {i \in 1..n : Flattened(s)[i] \notin Seq(S)}
  <2> SUFFICES ASSUME U # {} PROVE FALSE
    OBVIOUS
  <2>1. PICK m \in U : \A i \in U : m <= i
    <3>1. U \in SUBSET Nat
      BY <1>1
    <3> HIDE DEF U
    <3> QED
      BY <3>1, LeastNat
  <2>2. CASE m = 1
    BY <1>1, <1>10, <2>1, <2>2 DEF Flat
  <2>3. CASE m # 1
    <3>1. m - 1 \in 1..n /\ ~(m <= m - 1)
      BY <1>1, <2>1, <2>3
    <3>2. Flattened(s)[m - 1] \in Seq(S)
      BY <2>1, <3>1
    <3>3. m \in 1..n /\ Flattened(s)[m] = Flattened(s)[m - 1] \o s[m]
      BY <1>10, <2>1, <2>3 DEF Flat
    <3>4. s[m] \in Seq(S)
      BY <1>1, <3>3
    <3>5. Flattened(s)[m] \in Seq(S)
      BY <3>2, <3>3, <3>4
    <3> QED
      BY <2>1, <3>5
  <2> QED
    BY <2>2, <2>3
<1> QED
  BY <1>10, <1>11 DEF n

LEMMA ConcatEmpty ==
    ASSUME NEW a, NEW b, Listed(a), Listed(b)
    PROVE  Listed(a \o b) /\ (a \o b = <<>> => a = <<>> /\ b = <<>>)
<1>1. PICK A : a \in Seq(A)
  BY DEF Listed
<1>2. PICK B : b \in Seq(B)
  BY DEF Listed
<1>3. a \in Seq(A \cup B) /\ b \in Seq(A \cup B)
  BY <1>1, <1>2
<1>4. a \o b \in Seq(A \cup B) /\ Len(a \o b) = Len(a) + Len(b)
  BY <1>3
<1>5. a \o b = <<>> => Len(a) = 0 /\ Len(b) = 0
  BY <1>3, <1>4
<1>6. a \o b = <<>> => a = <<>> /\ b = <<>>
  BY <1>3, <1>5
<1> QED
  BY <1>4, <1>6 DEF Listed

LEMMA FlattenFindings ==
    ASSUME NEW s, NEW n, Findings(s, n)
    PROVE  /\ Listed(FlattenSeq(s))
           /\ FlattenSeq(s) = <<>> => \A i \in 1..n : s[i] = <<>>
<1>1. PICK S : s \in Seq(Seq(S)) /\ Len(s) = n
  BY FindingsAreSeq
<1>2. n \in Nat
  BY DEF Findings
<1>3. CASE n = 0
  <2>1. FlattenSeq(s) = s
    BY <1>1, <1>3 DEF FlattenSeq
  <2> QED
    BY <1>1, <1>3, <2>1 DEF Listed
<1>4. CASE n # 0
  <2> DEFINE f == Flattened(s)
  <2>1. FlattenSeq(s) = f[n]
    BY <1>1, <1>4, FlattenIs
  <2>2. /\ \A i \in 1..n : f[i] = Flat(s, f, i)
        /\ \A i \in 1..n : f[i] \in Seq(S) /\ s[i] \in Seq(S)
    BY <1>1, <1>4, FlatDefined
  <2> HIDE DEF f
  <2>3. Listed(f[n])
    <3>1. n \in 1..n
      BY <1>2, <1>4
    <3>2. f[n] \in Seq(S)
      BY <2>2, <3>1
    <3> QED
      BY <3>2 DEF Listed
  <2>4. \A i \in 1..n : i # 1 =>
            /\ i - 1 \in 1..n /\ Listed(f[i - 1]) /\ Listed(s[i])
            /\ f[i] = f[i - 1] \o s[i]
    <3>1. \A i \in 1..n : i # 1 => i - 1 \in 1..n
      BY <1>2
    <3> QED
      BY <2>2, <3>1 DEF Flat, Listed
  <2>5. ASSUME f[n] = <<>>, NEW i \in 1..n PROVE f[i] = <<>>
    <3> DEFINE U == {j \in 1..n : f[j] # <<>>}
    <3> SUFFICES ASSUME U # {} PROVE FALSE
      BY <2>5
    <3>1. PICK m \in U : \A j \in U : j <= m
      <4>1. U \in SUBSET Nat /\ \A j \in U : j <= n
        BY <1>2
      <4> HIDE DEF U
      <4> QED
        BY <1>2, <4>1, GreatestNat
    <3>2. m \in 1..n /\ m # n /\ f[m] # <<>>
      BY <2>5, <3>1
    <3>3. m + 1 \in 1..n /\ m + 1 # 1 /\ (m + 1) - 1 = m /\ ~(m + 1 <= m)
      BY <1>2, <3>2
    <3>4. f[m + 1] = <<>>
      BY <3>1, <3>3
    <3>5. f[m + 1] = f[m] \o s[m + 1] /\ Listed(f[m]) /\ Listed(s[m + 1])
      BY <2>4, <3>3
    <3> QED
      BY <3>2, <3>4, <3>5, ConcatEmpty
  <2>6. ASSUME f[n] = <<>>, NEW i \in 1..n PROVE s[i] = <<>>
    <3>1. f[i] = <<>>
      BY <2>5, <2>6
    <3>2. CASE i = 1
      BY <2>2, <3>1, <3>2 DEF Flat
    <3>3. CASE i # 1
      BY <2>4, <3>1, <3>3, ConcatEmpty
    <3> QED
      BY <3>2, <3>3
  <2> QED
    BY <2>1, <2>3, <2>6
<1> QED
  BY <1>3, <1>4

LEMMA FiniteChecked ==
    ASSUME NEW d, IsList(d.metrics)
    PROVE  /\ Listed(CheckFinite(d))
           /\ CheckFinite(d) = <<>> => \A i \in DOMAIN d.metrics : d.metrics[i].finite
<1> DEFINE about(i) ==
               <<Problem(<<"not finite">>,
                   <<Word("metric")>> \o Literal(d.metrics[i].name) \o
                   <<Word("is nan"), Word("numerical failure")>>)>>
           s == [i \in DOMAIN d.metrics |-> IF d.metrics[i].finite THEN <<>> ELSE about(i)]
           n == Len(d.metrics)
<1>1. CheckFinite(d) = FlattenSeq(s)
  BY DEF CheckFinite
<1>2. \A i : \E x : about(i) = <<x>>
  OBVIOUS
<1>3. \A i : about(i) # <<>>
  OBVIOUS
<1> HIDE DEF about
<1>4. Findings(s, n)
  BY <1>2 DEF Findings, IsList
<1>5. \A i \in DOMAIN d.metrics : i \in 1..n /\ (s[i] = <<>> => d.metrics[i].finite)
  BY <1>3 DEF IsList
<1> HIDE DEF s, n
<1> QED
  BY <1>1, <1>4, <1>5, FlattenFindings

LEMMA DeclaredChecked ==
    ASSUME NEW d, NEW files, IsList(d.declared)
    PROVE  /\ Listed(CheckDeclaredFilesExist(d, files))
           /\ CheckDeclaredFilesExist(d, files) = <<>> =>
                 \A i \in DOMAIN d.declared : d.declared[i] \in files
<1> DEFINE about(i) ==
               <<Problem(<<"not written">>,
                   <<Word("declares artifact")>> \o Literal(d.declared[i]) \o
                   <<Word("but it"), Word("was not written")>>)>>
           s == [i \in DOMAIN d.declared |-> IF d.declared[i] \in files THEN <<>> ELSE about(i)]
           n == Len(d.declared)
<1>1. CheckDeclaredFilesExist(d, files) = FlattenSeq(s)
  BY DEF CheckDeclaredFilesExist
<1>2. \A i : \E x : about(i) = <<x>>
  OBVIOUS
<1>3. \A i : about(i) # <<>>
  OBVIOUS
<1> HIDE DEF about
<1>4. Findings(s, n)
  BY <1>2 DEF Findings, IsList
<1>5. \A i \in DOMAIN d.declared : i \in 1..n /\ (s[i] = <<>> => d.declared[i] \in files)
  BY <1>3 DEF IsList
<1> HIDE DEF s, n
<1> QED
  BY <1>1, <1>4, <1>5, FlattenFindings

LEMMA RequiredChecked ==
    ASSUME NEW d
    PROVE  /\ Listed(CheckRequiredMetrics(d))
           /\ CheckRequiredMetrics(d) = <<>> =>
                 \A i \in DOMAIN Criteria :
                     \E j \in DOMAIN d.metrics : d.metrics[j].name = Criteria[i].metric
<1> DEFINE produced == {d.metrics[i].name : i \in DOMAIN d.metrics}
           about(i) ==
               <<Problem(<<"missing", Criteria[i].id>>,
                   <<Word("missing required metric")>> \o Literal(Criteria[i].metric) \o
                   <<Word("success criterion"), Word(Criteria[i].id)>>)>>
           s == [i \in DOMAIN Criteria |->
                    IF Criteria[i].metric \in produced THEN <<>> ELSE about(i)]
           n == Len(Criteria)
<1>1. CheckRequiredMetrics(d) = FlattenSeq(s)
  BY DEF CheckRequiredMetrics
<1>2. \A i : \E x : about(i) = <<x>>
  OBVIOUS
<1>3. \A i : about(i) # <<>>
  OBVIOUS
<1> HIDE DEF about
<1>4. Findings(s, n)
  BY <1>2, CriteriaAssumption DEF Findings, IsList
<1>5. \A i \in DOMAIN Criteria :
         /\ i \in 1..n
         /\ s[i] = <<>> => \E j \in DOMAIN d.metrics : d.metrics[j].name = Criteria[i].metric
  BY <1>3, CriteriaAssumption DEF IsList
<1> HIDE DEF s, n
<1> QED
  BY <1>1, <1>4, <1>5, FlattenFindings

LEMMA BindingChecked ==
    ASSUME NEW d, NEW binding, \A b, c \in binding : b = c
    PROVE  /\ Listed(CheckDatasetBinding(d, binding))
           /\ CheckDatasetBinding(d, binding) = <<>> =>
                 \A b \in binding : d.dataset = b.dataset
<1> DEFINE bound == CHOOSE b \in binding : TRUE
           wrong(what, reported, expected) ==
               <<Problem(<<what>>,
                   <<Word(what)>> \o Literal(reported) \o
                   <<Word("but the plan bound")>> \o Literal(expected) \o
                   <<Word("wrong data")>>)>>
           name == IF d.dataset = bound.dataset THEN <<>>
                   ELSE wrong("reports dataset", d.dataset, bound.dataset)
           hash == IF "" \in {d.sha256, bound.sha256} \/ d.sha256 = bound.sha256 THEN <<>>
                   ELSE wrong("reports dataset sha256", d.sha256, bound.sha256)
<1>1. CheckDatasetBinding(d, binding) = IF binding = {} THEN <<>> ELSE name \o hash
  BY DEF CheckDatasetBinding
<1>2. \A w, r, e : (\E x : wrong(w, r, e) = <<x>>) /\ wrong(w, r, e) # <<>>
  OBVIOUS
<1> HIDE DEF wrong
<1>3. /\ name = <<>> \/ \E x : name = <<x>>
      /\ hash = <<>> \/ \E x : hash = <<x>>
      /\ name = <<>> => d.dataset = bound.dataset
  BY <1>2
<1>4. \A y : (y = <<>> \/ \E x : y = <<x>>) => Listed(y)
  <2>1. ASSUME NEW x PROVE <<x>> \in Seq({x})
    OBVIOUS
  <2>2. <<>> \in Seq({})
    OBVIOUS
  <2> QED
    BY <2>1, <2>2 DEF Listed
<1> HIDE DEF name, hash, bound
<1>5. CASE binding = {}
  BY <1>1, <1>4, <1>5
<1>6. CASE binding # {}
  <2>1. bound \in binding
    BY <1>6 DEF bound
  <2>2. Listed(name) /\ Listed(hash)
    BY <1>3, <1>4
  <2>3. \A b \in binding : b = bound
    BY <2>1
  <2> QED
    BY <1>1, <1>3, <1>6, <2>2, <2>3, ConcatEmpty
<1> QED
  BY <1>5, <1>6

-----------------------------------------------------------------------------
Usable(d, files) ==
    /\ \A i \in DOMAIN d.metrics : d.metrics[i].finite
    /\ \A i \in DOMAIN Criteria :
          \E j \in DOMAIN d.metrics : d.metrics[j].name = Criteria[i].metric
    /\ \A b \in planned.binding : d.dataset = b.dataset
    /\ \A i \in DOMAIN d.declared : d.declared[i] \in files

\* A directory has one metrics.json or none, and what that lists is lists.
Documents(metrics) ==
    \A d, e \in metrics : d = e /\ IsList(d.metrics) /\ IsList(d.declared)

\* A metrics.json without a problem can be judged.
LEMMA NoProblems ==
    ASSUME NEW leftover, Documents(leftover.metrics), planned \in PlanSteps,
           ParseMetricsFile(leftover).payload # {},
           ContractProblems(ParseMetricsFile(leftover), planned.binding) = <<>>
    PROVE  \E d \in ParseMetricsFile(leftover).payload : Usable(d, leftover.files)
<1> DEFINE d == CHOOSE d \in leftover.metrics : TRUE
           parsed == ParseMetricsFile(leftover)
<1>1. leftover.metrics # {} /\ d.form = "valid"
  BY DEF ParseMetricsFile, Unusable
<1>2. /\ parsed.payload = {d}
      /\ parsed.errors = CheckFinite(d) \o CheckDeclaredFilesExist(d, leftover.files)
  BY <1>1 DEF ParseMetricsFile
<1>3. d \in leftover.metrics
  BY <1>1
<1>4. IsList(d.metrics) /\ IsList(d.declared)
  BY <1>3 DEF Documents
<1> HIDE DEF d, parsed
<1>5. (CHOOSE x \in parsed.payload : TRUE) = d
  BY <1>2
<1>6. (parsed.errors \o CheckRequiredMetrics(d)) \o CheckDatasetBinding(d, planned.binding) = <<>>
  BY <1>2, <1>5 DEF ContractProblems, parsed
<1>7. \A b, c \in planned.binding : b = c
  BY PlanStepsAssumption
<1>8. /\ Listed(CheckFinite(d)) /\ Listed(CheckDeclaredFilesExist(d, leftover.files))
      /\ Listed(CheckRequiredMetrics(d)) /\ Listed(CheckDatasetBinding(d, planned.binding))
  BY <1>4, <1>7, FiniteChecked, DeclaredChecked, RequiredChecked, BindingChecked
<1>9. Listed(parsed.errors)
  BY <1>2, <1>8, ConcatEmpty
<1>10. Listed(parsed.errors \o CheckRequiredMetrics(d))
  BY <1>8, <1>9, ConcatEmpty
<1>11. /\ parsed.errors \o CheckRequiredMetrics(d) = <<>>
       /\ CheckDatasetBinding(d, planned.binding) = <<>>
  BY <1>6, <1>8, <1>10, ConcatEmpty
<1>12. parsed.errors = <<>> /\ CheckRequiredMetrics(d) = <<>>
  BY <1>8, <1>9, <1>11, ConcatEmpty
<1>13. CheckFinite(d) = <<>> /\ CheckDeclaredFilesExist(d, leftover.files) = <<>>
  BY <1>2, <1>8, <1>12, ConcatEmpty
<1>14. Usable(d, leftover.files)
  <2>1. \A i \in DOMAIN d.metrics : d.metrics[i].finite
    BY <1>4, <1>13, FiniteChecked
  <2>2. \A i \in DOMAIN Criteria :
           \E j \in DOMAIN d.metrics : d.metrics[j].name = Criteria[i].metric
    BY <1>12, RequiredChecked
  <2>3. \A b \in planned.binding : d.dataset = b.dataset
    BY <1>7, <1>11, BindingChecked
  <2>4. \A i \in DOMAIN d.declared : d.declared[i] \in leftover.files
    BY <1>4, <1>13, DeclaredChecked
  <2> QED
    BY <2>1, <2>2, <2>3, <2>4 DEF Usable
<1> QED
  BY <1>2, <1>14 DEF parsed

JudgedInv ==
    /\ planned \in PlanSteps /\ repertoire \in DOMAIN Repertoires
    /\ source = 0 \/ source \in DOMAIN Repertoires[repertoire]
    /\ hop = "sandbox_exec" => source \in DOMAIN Repertoires[repertoire]
    /\ Documents(shelf.metrics)
    /\ CleanTrainIsUsable

\* What the evaluator is given of a training step was looked at without a problem.
LEMMA RecordIsUsable ==
    ASSUME NEW rejections, NEW run, NEW leftover, Documents(leftover.metrics),
           planned \in PlanSteps, Record(rejections, run, leftover)
    PROVE  /\ hop' \in {"evaluator", "debugger", "reporter"}
           /\ hop' = "evaluator" /\ planned.train =>
                 \E d \in found'.metrics : rejections = <<>> /\ Usable(d, leftover.files)
<1> DEFINE parsed == ParseMetricsFile(leftover)
           problems == ContractProblems(parsed, planned.binding)
           class == Classify(rejections, run, parsed, problems)
<1>1. /\ found' = [classification |-> class,
                   metrics |-> IF class = "CLEAN" THEN parsed.payload ELSE {}]
      /\ hop' \in {"evaluator", "debugger", "reporter"}
      /\ hop' = "evaluator" => class = "CLEAN"
  BY DEF Record
<1>2. class = "CLEAN" /\ planned.train =>
         rejections = <<>> /\ parsed.payload # {} /\ problems = <<>>
  <2> HIDE DEF parsed, problems
  <2> QED
    BY DEF Classify
<1>3. parsed.payload # {} /\ problems = <<>> => \E d \in parsed.payload : Usable(d, leftover.files)
  BY NoProblems
<1> HIDE DEF class, problems, parsed
<1> QED
  BY <1>1, <1>2, <1>3

LEMMA JudgedInvStep == JudgedInv /\ [FailuresNext]_failureVars => JudgedInv'
<1> SUFFICES ASSUME JudgedInv, [FailuresNext]_failureVars PROVE JudgedInv'
  OBVIOUS
<1> USE DEF JudgedInv
<1>1. CASE NextRevision
  BY <1>1 DEF NextRevision, CleanTrainIsUsable, Documents, EmptyShelf
<1>2. CASE SameRevision
  BY <1>2 DEF SameRevision, CleanTrainIsUsable, Documents
<1>3. CASE SandboxExec
  <2> DEFINE program == Repertoires[repertoire][source]
             rejections == ValidateSource(program, planned.train)
  <2>1. /\ hop = "sandbox_exec" /\ UNCHANGED <<planned, repertoire, source>>
        /\ source \in DOMAIN Repertoires[repertoire]
    BY <1>3 DEF SandboxExec
  <2>2. CASE rejections # <<>> /\ Record(rejections, Refused, EmptyShelf) /\ UNCHANGED shelf
    <3>1. Documents(EmptyShelf.metrics)
      BY DEF Documents, EmptyShelf
    <3>2. hop' # "sandbox_exec" /\ ~(hop' = "evaluator" /\ planned.train)
      <4> HIDE DEF rejections, JudgedInv
      <4>1. planned \in PlanSteps
        BY DEF JudgedInv
      <4> QED
        BY <2>2, <3>1, <4>1, RecordIsUsable
    <3> QED
      BY <2>1, <2>2, <3>2 DEF CleanTrainIsUsable, Documents
  <2>3. ASSUME NEW run \in program.runs,
               shelf' = [metrics |-> IF run.metrics = {} THEN shelf.metrics ELSE run.metrics,
                         files |-> shelf.files \cup run.files],
               Record(rejections, run, shelf')
        PROVE  JudgedInv'
    <3>1. Documents(run.metrics)
      BY <2>1, <2>3, RepertoiresAssumption DEF Documents
    <3>2. Documents(shelf'.metrics)
      BY <2>3, <3>1 DEF Documents
    <3>3. /\ hop' # "sandbox_exec"
          /\ hop' = "evaluator" /\ planned.train => \E d \in found'.metrics : Usable(d, shelf'.files)
      <4> HIDE DEF rejections, JudgedInv
      <4>1. planned \in PlanSteps
        BY DEF JudgedInv
      <4> QED
        BY <2>3, <3>2, <4>1, RecordIsUsable
    <3>4. CleanTrainIsUsable'
      BY <2>1, <3>3 DEF CleanTrainIsUsable, Usable
    <3> QED
      BY <2>1, <3>2, <3>3, <3>4 DEF Documents
  <2> QED
    BY <1>3, <2>2, <2>3 DEF SandboxExec
<1>4. CASE DebugFailure
  BY <1>4 DEF DebugFailure, CleanTrainIsUsable, Documents
<1>5. CASE Replanned
  BY <1>5 DEF Replanned, CleanTrainIsUsable, Documents
<1>6. CASE Refine
  BY <1>6 DEF Refine, CleanTrainIsUsable, Documents
<1>7. CASE UNCHANGED failureVars
  BY <1>7 DEF failureVars, CleanTrainIsUsable, Documents
<1> QED
  BY <1>1, <1>2, <1>3, <1>4, <1>5, <1>6, <1>7 DEF FailuresNext

\* Whatever the programs print and leave behind, of whichever attempt the files
\* are, what the evaluator is given of a training step can be judged:
\* sandbox_exec_node, schemas/metrics.py.
THEOREM TrainingCanBeJudged == FailuresSpec => []CleanTrainIsUsable
<1>1. FailuresInit => JudgedInv
  BY DEF FailuresInit, JudgedInv, CleanTrainIsUsable, Documents, EmptyShelf
<1>2. JudgedInv => CleanTrainIsUsable
  BY DEF JudgedInv
<1> QED
  BY <1>1, <1>2, JudgedInvStep, PTL DEF FailuresSpec
-----------------------------------------------------------------------------
(* The types, and with them the length of the errors channel. *)

LEMMA KindIsTyped ==
    ASSUME NEW class, NEW rejections, NEW run, NEW problems
    PROVE  BuildErrorRecord(class, rejections, run, problems).kind \in ErrorKinds
<1> DEFINE error == BuildErrorRecord(class, rejections, run, problems)
<1>1. ASSUME NEW kind, NEW text PROVE Synthetic(kind, text).kind = kind
  BY DEF Synthetic
<1>2. CASE class = "RUNTIME_ERROR"
  <2>1. PICK type, text : error.kind = ClassifyException(type, text)
    BY <1>2 DEF BuildErrorRecord, FromTraceback
  <2>2. ClassifyException(type, text) \in ErrorKinds
    BY DEF ClassifyException, KindByType, ErrorKinds
  <2> QED
    BY <2>1, <2>2
<1>3. CASE class = "VALIDATION_REJECTED"
  BY <1>1, <1>3 DEF BuildErrorRecord, ValidationError, ErrorKinds
<1>4. CASE class \in {"CONTRACT_VIOLATION", "TIMEOUT", "OOM"}
  <2>1. error.kind = class
    BY <1>1, <1>4 DEF BuildErrorRecord
  <2> QED
    BY <1>4, <2>1 DEF ErrorKinds
<1>5. CASE class \notin {"RUNTIME_ERROR", "VALIDATION_REJECTED", "CONTRACT_VIOLATION",
                       "TIMEOUT", "OOM"}
  <2>1. error.kind = "UNKNOWN"
    BY <1>1, <1>5 DEF BuildErrorRecord
  <2> QED
    BY <2>1 DEF ErrorKinds
<1> QED
  BY <1>2, <1>3, <1>4, <1>5

\* Where the attempts are: as long as they go on the errors fit into the budget,
\* and the planner is reached only while a replan is left.
Attempting ==
    /\ Listed(failures)
    /\ hop # "reporter" => Len(failures) <= DebugBudget
    /\ hop = "planner" => replans < ReplanBudget

LEMMA AppendListed ==
    ASSUME NEW s, NEW x, Listed(s)
    PROVE  /\ Listed(Append(s, x)) /\ Len(s) \in Nat /\ Len(Append(s, x)) = Len(s) + 1
           /\ DOMAIN s = 1..Len(s) /\ DOMAIN Append(s, x) = 1..(Len(s) + 1)
           /\ Append(s, x)[Len(s) + 1] = x
           /\ \A i \in 1..Len(s) : Append(s, x)[i] = s[i]
<1>1. PICK S : s \in Seq(S)
  BY DEF Listed
<1>2. s \in Seq(S \cup {x}) /\ x \in S \cup {x}
  BY <1>1
<1>3. Append(s, x) \in Seq(S \cup {x})
  BY <1>2
<1>4. /\ Len(s) \in Nat /\ DOMAIN s = 1..Len(s)
      /\ Len(Append(s, x)) = Len(s) + 1 /\ DOMAIN Append(s, x) = 1..(Len(s) + 1)
      /\ Append(s, x)[Len(s) + 1] = x
      /\ \A i \in 1..Len(s) : Append(s, x)[i] = s[i]
  BY <1>2
<1> QED
  BY <1>3, <1>4 DEF Listed

\* What sandbox_exec writes: a clean outcome and no error, or an error of a known
\* kind after those there were.
LEMMA RecordEffect ==
    ASSUME NEW rejections, NEW run, NEW leftover, Record(rejections, run, leftover)
    PROVE  /\ found'.classification \in Classifications
           /\ found'.metrics # {} => found'.classification = "CLEAN"
           /\ \/ hop' = "evaluator" /\ UNCHANGED failures
              \/ /\ \E error : error.kind \in ErrorKinds /\ failures' = Append(failures, error)
                 /\ hop' = IF Len(failures) >= DebugBudget THEN "reporter" ELSE "debugger"
<1> DEFINE parsed == ParseMetricsFile(leftover)
           problems == ContractProblems(parsed, planned.binding)
           class == Classify(rejections, run, parsed, problems)
           built == BuildErrorRecord(class, rejections, run, problems)
           error == [kind |-> built.kind, fingerprint |-> built.fingerprint, line |-> built.line,
                     cause |-> Cause(class, rejections, run, problems),
                     telling |-> Telling(class, run)]
<1>1. /\ found' = [classification |-> class,
                   metrics |-> IF class = "CLEAN" THEN parsed.payload ELSE {}]
      /\ \/ hop' = "evaluator" /\ UNCHANGED failures
         \/ /\ failures' = Append(failures, error)
            /\ hop' = IF Len(failures) >= DebugBudget THEN "reporter" ELSE "debugger"
  BY DEF Record
<1>2. built.kind \in ErrorKinds
  BY KindIsTyped
<1>3. class \in Classifications
  <2> HIDE DEF parsed, problems
  <2> QED
    BY DEF Classify, Classifications
<1> HIDE DEF parsed, class, built
<1>4. error.kind \in ErrorKinds
  BY <1>2
<1> HIDE DEF error
<1> QED
  BY <1>1, <1>3, <1>4

FailureInv == JudgedInv /\ FailureTypeOK /\ Attempting

LEMMA SandboxExecTypes ==
    ASSUME FailureInv, SandboxExec
    PROVE  /\ found'.classification \in Classifications \cup {"none"}
           /\ found'.metrics # {} => found'.classification = "CLEAN"
           /\ Len(failures') <= DebugBudget + 1
           /\ \A i \in DOMAIN failures' : failures'[i].kind \in ErrorKinds
           /\ hop' \in {"debugger", "evaluator", "reporter"}
           /\ Attempting'
<1>1. PICK rejections, run, leftover : Record(rejections, run, leftover)
  BY DEF SandboxExec
<1>2. /\ hop = "sandbox_exec" /\ Listed(failures) /\ Len(failures) <= DebugBudget
      /\ \A i \in DOMAIN failures : failures[i].kind \in ErrorKinds
      /\ DebugBudget \in Nat
  BY FailureBudgetsAssumption DEF SandboxExec, FailureInv, FailureTypeOK, Attempting
<1>3. /\ found'.classification \in Classifications \cup {"none"}
      /\ found'.metrics # {} => found'.classification = "CLEAN"
      /\ \/ hop' = "evaluator" /\ UNCHANGED failures
         \/ /\ \E error : error.kind \in ErrorKinds /\ failures' = Append(failures, error)
            /\ hop' = IF Len(failures) >= DebugBudget THEN "reporter" ELSE "debugger"
  BY <1>1, RecordEffect
<1>4. Len(failures) \in Nat
  BY <1>2, AppendListed
<1>5. CASE hop' = "evaluator" /\ UNCHANGED failures
  BY <1>2, <1>3, <1>4, <1>5 DEF Attempting
<1>6. ASSUME NEW error, error.kind \in ErrorKinds, failures' = Append(failures, error),
             hop' = IF Len(failures) >= DebugBudget THEN "reporter" ELSE "debugger"
      PROVE  /\ Len(failures') <= DebugBudget + 1
             /\ \A i \in DOMAIN failures' : failures'[i].kind \in ErrorKinds
             /\ hop' \in {"debugger", "evaluator", "reporter"} /\ Attempting'
  <2>1. /\ Listed(failures') /\ Len(failures') = Len(failures) + 1
        /\ DOMAIN failures = 1..Len(failures) /\ DOMAIN failures' = 1..(Len(failures) + 1)
        /\ failures'[Len(failures) + 1] = error
        /\ \A i \in 1..Len(failures) : failures'[i] = failures[i]
    BY <1>2, <1>6, AppendListed
  <2>2. ASSUME NEW i \in DOMAIN failures' PROVE failures'[i].kind \in ErrorKinds
    <3>1. i \in 1..Len(failures) \/ i = Len(failures) + 1
      BY <1>4, <2>1
    <3> QED
      BY <1>2, <1>6, <2>1, <3>1
  <2>3. hop' # "reporter" => Len(failures') <= DebugBudget
    BY <1>2, <1>4, <1>6, <2>1
  <2>4. Len(failures') <= DebugBudget + 1
    BY <1>2, <1>4, <2>1
  <2> QED
    BY <1>6, <2>1, <2>2, <2>3, <2>4 DEF Attempting
<1> QED
  BY <1>3, <1>5, <1>6

LEMMA FailureInvStep == FailureInv /\ [FailuresNext]_failureVars => FailureInv'
<1> SUFFICES ASSUME FailureInv, [FailuresNext]_failureVars PROVE FailureInv'
  OBVIOUS
<1>1. JudgedInv'
  BY JudgedInvStep DEF FailureInv
<1>2. /\ planned' \in PlanSteps /\ repertoire' \in DOMAIN Repertoires
      /\ source' \in 0..Len(Repertoires[repertoire'])
      /\ \A d, e \in shelf'.metrics : d = e
  <2>1. IsList(Repertoires[repertoire'])
    BY <1>1, RepertoiresAssumption DEF JudgedInv
  <2> QED
    BY <1>1, <2>1 DEF JudgedInv, IsList, Documents
<1> SUFFICES /\ found'.classification \in Classifications \cup {"none"}
             /\ found'.metrics # {} => found'.classification = "CLEAN"
             /\ Len(failures') <= DebugBudget + 1
             /\ \A i \in DOMAIN failures' : failures'[i].kind \in ErrorKinds
             /\ hop' \in {"coder", "sandbox_exec", "debugger", "planner", "evaluator", "reporter"}
             /\ warned' \in BOOLEAN /\ replans' \in 0..ReplanBudget /\ refined' \in 0..Refinements
             /\ Attempting'
  BY <1>1, <1>2 DEF FailureInv, FailureTypeOK
<1> USE FailureBudgetsAssumption DEF FailureInv, FailureTypeOK, Attempting
<1>3. CASE NextRevision
  BY <1>3 DEF NextRevision
<1>4. CASE SameRevision
  BY <1>4 DEF SameRevision
<1>5. CASE SandboxExec
  BY <1>5, SandboxExecTypes DEF SandboxExec
<1>6. CASE DebugFailure
  BY <1>6 DEF DebugFailure, Stagnates
<1>7. CASE Replanned
  BY <1>7 DEF Replanned
<1>8. CASE Refine
  BY <1>8 DEF Refine
<1>9. CASE UNCHANGED failureVars
  BY <1>9 DEF failureVars
<1> QED
  BY <1>3, <1>4, <1>5, <1>6, <1>7, <1>8, <1>9 DEF FailuresNext

LEMMA FailureInvInit == FailuresInit => FailureInv
<1> SUFFICES ASSUME FailuresInit PROVE FailureInv
  OBVIOUS
<1>1. JudgedInv
  BY DEF FailuresInit, JudgedInv, CleanTrainIsUsable, Documents, EmptyShelf
<1>2. IsList(Repertoires[repertoire])
  BY RepertoiresAssumption DEF FailuresInit
<1>3. failures \in Seq({}) /\ Len(failures) = 0 /\ DOMAIN failures = {}
  BY DEF FailuresInit
<1>4. shelf.metrics = {}
  BY DEF FailuresInit, EmptyShelf
<1>5. /\ planned \in PlanSteps /\ repertoire \in DOMAIN Repertoires
      /\ source \in 0..Len(Repertoires[repertoire])
      /\ hop = "coder"
  BY <1>2 DEF FailuresInit, IsList
<1>9. warned \in BOOLEAN
  BY Zenon DEF FailuresInit
<1>7. /\ found.classification \in Classifications \cup {"none"} /\ found.metrics = {}
      /\ replans \in 0..ReplanBudget /\ refined \in 0..Refinements
  BY FailureBudgetsAssumption DEF FailuresInit
<1>8. FailureTypeOK
  BY <1>3, <1>4, <1>5, <1>7, <1>9, FailureBudgetsAssumption DEF FailureTypeOK
<1>6. Attempting
  BY <1>3, FailureBudgetsAssumption DEF FailuresInit, Attempting, Listed
<1> QED
  BY <1>1, <1>6, <1>8 DEF FailureInv

\* Types, whatever programs are written and however they end: in particular the
\* errors channel is at most one longer than the debug budget, and the replans
\* stay within theirs (route_after_exec, route_after_debug).
THEOREM FailureTypeCorrect == FailuresSpec => []FailureTypeOK
<1>1. FailureInv => FailureTypeOK
  BY DEF FailureInv
<1> QED
  BY <1>1, FailureInvInit, FailureInvStep, PTL DEF FailuresSpec
-----------------------------------------------------------------------------
(* What the router makes of a series of equal failures. *)

\* The newest k errors have one fingerprint.
Repeated(s, k) ==
    /\ k <= Len(s)
    /\ \A i \in (Len(s) - k + 1)..Len(s) : s[i].fingerprint = s[Len(s)].fingerprint

\* consecutive_repeats() counts the longest such series.
LEMMA RepeatsCount ==
    ASSUME NEW s, Len(s) \in Nat, NEW k \in Nat, k >= 1
    PROVE  ConsecutiveRepeats(s) >= k <=> Repeated(s, k)
<1> DEFINE n == Len(s)
           others == {i \in 1..n : s[i].fingerprint # s[n].fingerprint}
           last == Highest(others \cup {0})
<1>1. last \in others \cup {0} /\ \A j \in others \cup {0} : j <= last
  <2> DEFINE S == others \cup {0}
  <2>1. S \in SUBSET Nat /\ S # {} /\ \A j \in S : j <= n
    OBVIOUS
  <2> HIDE DEF S
  <2>2. \E i \in S : \A j \in S : j <= i
    BY <2>1, GreatestNat
  <2> QED
    BY <2>2 DEF Highest, S
<1>2. ConsecutiveRepeats(s) = n - last
  BY DEF ConsecutiveRepeats
<1>3. last \in 0..n /\ n \in Nat
  BY <1>1
<1> HIDE DEF last
<1>4. ASSUME n - last >= k PROVE Repeated(s, k)
  <2>1. \A i \in (n - k + 1)..n : i \in 1..n /\ ~(i <= last)
    BY <1>3, <1>4
  <2> QED
    BY <1>1, <1>3, <1>4, <2>1 DEF Repeated
<1>5. ASSUME Repeated(s, k) PROVE n - last >= k
  <2>1. \A i \in (n - k + 1)..n : i \notin others
    BY <1>5 DEF Repeated
  <2>2. k <= n
    BY <1>5 DEF Repeated
  <2>3. last <= n - k
    BY <1>1, <1>3, <2>1, <2>2
  <2> QED
    BY <1>3, <2>2, <2>3
<1> QED
  BY <1>2, <1>3, <1>4, <1>5
\* A series that ends the attempts was long enough for a warning one failure ago.
LEMMA RepeatedBefore ==
    ASSUME NEW s, NEW x, Listed(s), Repeated(Append(s, x), StagnationWindow)
    PROVE  Repeated(s, RepeatWarningAt)
<1> DEFINE n == Len(s)
           w == RepeatWarningAt
<1>1. /\ n \in Nat /\ Len(Append(s, x)) = n + 1 /\ Append(s, x)[n + 1] = x
      /\ \A i \in 1..n : Append(s, x)[i] = s[i]
  BY AppendListed
<1>2. w \in Nat /\ StagnationWindow \in Nat /\ 1 < w /\ w < StagnationWindow
  BY WindowAssumption
<1>3. /\ StagnationWindow <= n + 1
      /\ \A i \in ((n + 1) - StagnationWindow + 1)..(n + 1) :
            Append(s, x)[i].fingerprint = x.fingerprint
  BY <1>1 DEF Repeated
<1> HIDE DEF n, w
<1>4. w <= n
  BY <1>1, <1>2, <1>3
<1>5. ASSUME NEW i \in (n - w + 1)..n PROVE s[i].fingerprint = x.fingerprint
  <2>1. i \in 1..n /\ i \in ((n + 1) - StagnationWindow + 1)..(n + 1)
    BY <1>1, <1>2, <1>4
  <2> QED
    BY <1>1, <1>3, <2>1
<1>6. n \in (n - w + 1)..n
  BY <1>1, <1>2
<1> QED
  BY <1>4, <1>5, <1>6 DEF Repeated, n, w

\* The warning is about the failures the debugger last saw.
WarnedOf(s) == warned <=> ConsecutiveRepeats(s) >= RepeatWarningAt

WarnedInv ==
    /\ hop \in {"coder", "sandbox_exec", "planner", "evaluator"} => WarnedOf(failures)
    /\ hop = "debugger" =>
          \E s, error : Listed(s) /\ failures = Append(s, error) /\ WarnedOf(s)

LEMMA WarnedInvStep ==
    ASSUME FailureInv, WarnedInv, [FailuresNext]_failureVars
    PROVE  WarnedInv'
<1>1. CASE NextRevision \/ SameRevision \/ Replanned \/ Refine
  BY <1>1 DEF NextRevision, SameRevision, Replanned, Refine, WarnedInv, WarnedOf
<1>2. CASE SandboxExec
  <2>1. PICK rejections, run, leftover : Record(rejections, run, leftover)
    BY <1>2 DEF SandboxExec
  <2>2. hop = "sandbox_exec" /\ UNCHANGED warned /\ WarnedOf(failures) /\ Listed(failures)
    BY <1>2 DEF SandboxExec, WarnedInv, FailureInv, Attempting
  <2>3. \/ hop' = "evaluator" /\ UNCHANGED failures
        \/ /\ \E error : failures' = Append(failures, error)
           /\ hop' \in {"reporter", "debugger"}
    BY <2>1, RecordEffect
  <2> QED
    BY <2>2, <2>3 DEF WarnedInv, WarnedOf
<1>3. CASE DebugFailure
  BY <1>3 DEF DebugFailure, WarnedInv, WarnedOf
<1>4. CASE UNCHANGED failureVars
  BY <1>4 DEF failureVars, WarnedInv, WarnedOf
<1> QED
  BY <1>1, <1>2, <1>3, <1>4 DEF FailuresNext

LEMMA WarnedInvInit == FailuresInit => WarnedInv
<1> SUFFICES ASSUME FailuresInit PROVE WarnedInv
  OBVIOUS
<1>1. /\ failures = <<>> /\ hop = "coder" /\ warned = FALSE /\ Len(failures) = 0
      /\ Len(failures) \in Nat
  BY DEF FailuresInit
<1>2. RepeatWarningAt \in Nat /\ RepeatWarningAt >= 1 /\ ~Repeated(failures, RepeatWarningAt)
  BY <1>1, WindowAssumption DEF Repeated
<1>3. ~(ConsecutiveRepeats(failures) >= RepeatWarningAt)
  BY <1>1, <1>2, RepeatsCount
<1> QED
  BY <1>1, <1>3 DEF WarnedInv, WarnedOf

\* Of messages that tell, the newest failures have one cause if and only if they
\* have one fingerprint.
LEMMA OneCauseIsOnePrint ==
    ASSUME PrintsTellCauses, Listed(failures), \A i \in DOMAIN failures : failures[i].telling
    PROVE  OneCause <=> Repeated(failures, StagnationWindow)
<1> DEFINE n == Len(failures)
<1>1. n \in Nat /\ DOMAIN failures = 1..n
  BY AppendListed
<1>2. StagnationWindow \in Nat /\ 1 < StagnationWindow
  BY WindowAssumption
<1>3. \A i \in 1..n : failures[i].fingerprint = failures[n].fingerprint
                          <=> failures[i].cause = failures[n].cause
  <2> TAKE i \in 1..n
  <2>1. n \in 1..n
    BY <1>1
  <2> QED
    BY <1>1, <2>1 DEF PrintsTellCauses
<1> HIDE DEF n
<1>4. StagnationWindow <= n => \A i \in (n - StagnationWindow + 1)..n : i \in 1..n
  BY <1>1, <1>2
<1>5. OneCause <=> /\ StagnationWindow <= n
                   /\ \A i \in (n - StagnationWindow + 1)..n :
                         failures[i].cause = failures[n].cause
  BY <1>1, <1>2 DEF OneCause, n
<1> QED
  BY <1>3, <1>4, <1>5 DEF Repeated, n

LEMMA StagnationStep ==
    ASSUME FailureInv, WarnedInv, PrintsTellCauses, FailuresNext, hop = "debugger",
           replans < ReplanBudget, \A i \in DOMAIN failures : failures[i].telling
    PROVE  (hop' = "planner" <=> OneCause) /\ (hop' = "planner" => warned)
<1>1. DebugFailure
  BY DEF FailuresNext, NextRevision, SameRevision, SandboxExec, Replanned, Refine
<1>2. Listed(failures) /\ Len(failures) \in Nat
  BY AppendListed DEF FailureInv, Attempting
<1>3. /\ StagnationWindow \in Nat /\ StagnationWindow >= 1
      /\ RepeatWarningAt \in Nat /\ RepeatWarningAt >= 1
  BY WindowAssumption
<1>4. hop' = "planner" <=> Repeated(failures, StagnationWindow)
  BY <1>1, <1>2, <1>3, RepeatsCount DEF DebugFailure, Stagnates
<1>5. ASSUME hop' = "planner" PROVE warned
  <2>1. PICK s, error : Listed(s) /\ failures = Append(s, error) /\ WarnedOf(s)
    BY DEF WarnedInv
  <2>2. Repeated(s, RepeatWarningAt) /\ Len(s) \in Nat
    BY <1>4, <1>5, <2>1, RepeatedBefore, AppendListed
  <2>3. ConsecutiveRepeats(s) >= RepeatWarningAt
    BY <1>3, <2>2, RepeatsCount
  <2> QED
    BY <2>1, <2>3 DEF WarnedOf
<1> QED
  BY <1>2, <1>4, <1>5, OneCauseIsOnePrint

\* Where fingerprints tell causes apart, and no two for one, the attempts end at
\* the planner exactly when as many of them as the window has failed for one
\* reason, and never before the debugger was warned: debugger_node,
\* route_after_debug. Whether they do depends on the messages, and is the half of
\* the property that is checked on repertoires of them.
THEOREM StagnationIsSeen == FailuresSpec /\ []PrintsTellCauses => StagnationIsOneBug
<1> DEFINE Seen == /\ PrintsTellCauses'
                   /\ hop = "debugger" /\ replans < ReplanBudget
                        /\ (\A i \in DOMAIN failures : failures[i].telling) =>
                      /\ hop' = "planner" <=> OneCause
                      /\ hop' = "planner" => warned
<1>1. FailureInv /\ WarnedInv /\ PrintsTellCauses /\ PrintsTellCauses'
        /\ [FailuresNext]_failureVars => [Seen]_failureVars
  BY StagnationStep
<1>2. FailureInv /\ WarnedInv /\ [FailuresNext]_failureVars => (FailureInv /\ WarnedInv)'
  BY FailureInvStep, WarnedInvStep
<1>3. FailuresInit => FailureInv /\ WarnedInv
  BY FailureInvInit, WarnedInvInit
<1> HIDE DEF Seen
<1>4. FailuresSpec /\ []PrintsTellCauses => [][Seen]_failureVars
  BY <1>1, <1>2, <1>3, PTL DEF FailuresSpec
<1> QED
  BY <1>4 DEF StagnationIsOneBug, Seen

-----------------------------------------------------------------------------
(* The services together. *)

\* What the services do together is, of each of them, what it does by itself: none
\* reads or writes a variable of another.
THEOREM ServicesAreTheirParts ==
    ServicesSpec => /\ SandboxSpec /\ TrackingSpec /\ VisitSpec /\ CorpusSpec
                    /\ BenchSpec /\ AdmissionSpec /\ ReportSpec /\ FailuresSpec
<1>1. ServicesInit => /\ SandboxInit /\ TrackingInit /\ VisitInit /\ CorpusInit
                      /\ BenchInit /\ AdmissionInit /\ ReportInit /\ FailuresInit
  BY DEF ServicesInit
<1>2. [ServicesNext]_servicesVars => [SandboxNext]_sandboxRunVars
  BY DEF ServicesNext, servicesVars
<1>3. [ServicesNext]_servicesVars => [TrackingNext]_trackingVars
  BY DEF ServicesNext, servicesVars
<1>4. [ServicesNext]_servicesVars => [VisitNext]_visitVars
  BY DEF ServicesNext, servicesVars
<1>5. [ServicesNext]_servicesVars => [CorpusNext]_corpusVars
  BY DEF ServicesNext, servicesVars
<1>6. [ServicesNext]_servicesVars => [BenchNext]_benchVars
  BY DEF ServicesNext, servicesVars
<1>7. [ServicesNext]_servicesVars => [AdmissionNext]_admissionVars
  BY DEF ServicesNext, servicesVars
<1>8. [ServicesNext]_servicesVars => [ReportNext]_reportVars
  BY DEF ServicesNext, servicesVars
<1>9. [ServicesNext]_servicesVars => [FailuresNext]_failureVars
  BY DEF ServicesNext, servicesVars
<1> QED
  BY <1>1, <1>2, <1>3, <1>4, <1>5, <1>6, <1>7, <1>8, <1>9, PTL DEF ServicesSpec, SandboxSpec, TrackingSpec, VisitSpec, CorpusSpec,
     BenchSpec, AdmissionSpec, ReportSpec, FailuresSpec

\* Every variable of every service has its type, in all that they do together.
THEOREM ServicesTypeCorrect == ServicesSpec => []ServicesTypeOK
<1>1. ServicesSpec => /\ []SandboxTypeOK /\ []TrackingTypeOK /\ []CorpusTypeOK
                      /\ []BenchTypeOK /\ []AdmissionTypeOK /\ []ReportTypeOK
                      /\ []FailureTypeOK /\ [](VisitTypeOK /\ VisitIsClosedAndCharged)
  BY ServicesAreTheirParts, SandboxTypeCorrect, TypeCorrect, CorpusTypeCorrect,
     BenchTypeCorrect, CounterIsExact, ReportTypeCorrect, FailureTypeCorrect,
     VisitsAreClosedAndCharged
<1>2. ASSUME SandboxTypeOK, TrackingTypeOK, VisitTypeOK, CorpusTypeOK, BenchTypeOK,
             AdmissionTypeOK, ReportTypeOK, FailureTypeOK
      PROVE  ServicesTypeOK
  BY <1>2, Zenon DEF ServicesTypeOK
<1> QED
  BY <1>1, <1>2, PTL
=============================================================================
