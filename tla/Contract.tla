------------------------------- MODULE Contract -------------------------------
(***************************************************************************)
(* What a generated program has to satisfy before and after it runs: the   *)
(* static gate over its syntax tree (services/validator.py) and the        *)
(* contract of metrics.json (schemas/metrics.py, and the half of it that   *)
(* needs the plan, nodes/sandbox_exec.py).  A problem is a message, three  *)
(* words long beside its details, and what it is about.  The gate's        *)
(* warnings decide nothing and are left out.                               *)
(***************************************************************************)
EXTENDS Fingerprint

LOCAL INSTANCE SequencesExt

CONSTANTS
    Allowlist,      \* the modules installed in the sandbox
    Criteria        \* the plan's success criteria, in order: [id, metric]

IsList(x) == Len(x) \in Nat /\ DOMAIN x = 1..Len(x)

ASSUME CriteriaAssumption == IsList(Criteria)

Problem(about, text) == [about |-> about, text |-> text]

\* The texts of several problems, joined to one message.
Joined(problems) == FlattenSeq([i \in DOMAIN problems |-> problems[i].text])

-----------------------------------------------------------------------------
\* The gate.  A node of the tree is an import, a from-import, a call, an open, an
\* attribute of os or a string; the index of a node is its line.

NetworkModules == {"socket", "http", "urllib", "requests", "httpx", "ftplib",
                   "telnetlib", "smtplib", "aiohttp"}
ForbiddenModules == {"subprocess", "ctypes", "mmap", "pty", "resource", "signal",
                     "multiprocessing"}
AllowedOsAttrs == {"path", "environ", "getenv", "makedirs", "listdir", "sep"}
Writable == {"/artifacts", "/workspace", "/tmp"}

Refusal(line, subject, reason) ==
    <<Problem(<<subject, reason>>,
              <<Word("line"), Number(line), Word(subject), Word(reason)>>)>>

CheckModule(line, module) ==
    CASE module \in NetworkModules -> Refusal(line, module, "the sandbox has no network")
      [] module \in ForbiddenModules -> Refusal(line, module, "is not permitted")
      [] module \notin NetworkModules \cup ForbiddenModules \cup Allowlist ->
            Refusal(line, module, "is not installed")
      [] OTHER -> <<>>

CheckFrom(line, node) ==
    IF node.level > 0 THEN Refusal(line, "relative import", "no package")
    ELSE IF node.module # "os" THEN CheckModule(line, node.module)
    ELSE IF node.name \in AllowedOsAttrs THEN <<>>
    ELSE Refusal(line, node.name, "from os is not permitted")

CheckCall(line, node) ==
    IF \/ node.name = "input"
       \/ node.name \in {"eval", "exec", "compile", "__import__", "importlib.import_module"}
          /\ ~node.literal
    THEN Refusal(line, node.name, "is not permitted")
    ELSE <<>>

\* The one refusal that quotes what it is about, so that a fingerprint does not
\* have the path.
OpenRefusal(line, path, reason) ==
    <<Problem(<<"opening", reason>>,
              <<Word("line"), Number(line), Word("opening")>> \o Literal(path)
              \o <<Word(reason)>>)>>

\* A path or a mode computed at run time is not looked at.
CheckOpen(line, node) ==
    IF node.path = "computed" \/ node.mode \notin {"w", "a", "x", "+"} THEN <<>>
    ELSE IF node.path = "/datasets" THEN OpenRefusal(line, node.path, "is mounted read-only")
    ELSE IF node.absolute /\ node.path \notin Writable
         THEN OpenRefusal(line, node.path, "the rootfs is read-only")
    ELSE <<>>

Visit(line, node) ==
    CASE node.node = "import" -> CheckModule(line, node.module)
      [] node.node = "from" -> CheckFrom(line, node)
      [] node.node = "call" -> CheckCall(line, node)
      [] node.node = "open" -> CheckOpen(line, node)
      [] OTHER -> <<>>

AuditOsAttribute(line, node) ==
    IF node.node = "os" /\ node.attr \notin AllowedOsAttrs
    THEN Refusal(line, node.attr, "of os is not permitted")
    ELSE <<>>

WritesMetricsJson(tree) == \E i \in DOMAIN tree : tree[i].node = "metrics.json"

\* validate_source(): a program that is too long or does not parse is refused
\* for that alone; the attributes of os are audited after the visit.
ValidateSource(program, train) ==
    LET tree == program.tree
        visited == FlattenSeq([i \in DOMAIN tree |-> Visit(i, tree[i])])
        audited == FlattenSeq([i \in DOMAIN tree |-> AuditOsAttribute(i, tree[i])])
        unwritten == IF train /\ ~WritesMetricsJson(tree)
                     THEN <<Problem(<<"never references">>,
                              <<Word("never references"), File("metrics.json"),
                                Word("every training step"), Word("must write it")>>)>>
                     ELSE <<>>
    IN IF program.oversized
       THEN <<Problem(<<"oversized">>,
                <<Word("source is"), Number("size"), Word("over the limit"), Word("runaway")>>)>>
       ELSE IF ~program.parses
       THEN <<Problem(<<"SyntaxError">>,
                <<Word("main.py"), Number("1"), Word("SyntaxError"), Word("invalid")>>)>>
       ELSE visited \o audited \o unwritten

-----------------------------------------------------------------------------
\* metrics.json.  A document has its metrics in order, the dataset it says it
\* used, with a hash or "", and the files it says it wrote.

CheckFinite(document) ==
    FlattenSeq([i \in DOMAIN document.metrics |->
        LET m == document.metrics[i] IN
        IF m.finite THEN <<>>
        ELSE <<Problem(<<"not finite">>,
                 <<Word("metric")>> \o Literal(m.name) \o
                 <<Word("is nan"), Word("numerical failure")>>)>>])

CheckDeclaredFilesExist(document, files) ==
    FlattenSeq([i \in DOMAIN document.declared |->
        IF document.declared[i] \in files THEN <<>>
        ELSE <<Problem(<<"not written">>,
                 <<Word("declares artifact")>> \o Literal(document.declared[i]) \o
                 <<Word("but it"), Word("was not written")>>)>>])

CheckRequiredMetrics(document) ==
    LET produced == {document.metrics[i].name : i \in DOMAIN document.metrics} IN
    FlattenSeq([i \in DOMAIN Criteria |->
        IF Criteria[i].metric \in produced THEN <<>>
        ELSE <<Problem(<<"missing", Criteria[i].id>>,
                 <<Word("missing required metric")>> \o Literal(Criteria[i].metric) \o
                 <<Word("success criterion"), Word(Criteria[i].id)>>)>>])

\* No binding, nothing to compare; an empty hash on either side neither.
CheckDatasetBinding(document, binding) ==
    IF binding = {} THEN <<>>
    ELSE LET bound == CHOOSE b \in binding : TRUE
             Wrong(what, reported, expected) ==
                <<Problem(<<what>>,
                    <<Word(what)>> \o Literal(reported) \o
                    <<Word("but the plan bound")>> \o Literal(expected) \o
                    <<Word("wrong data")>>)>>
         IN (IF document.dataset = bound.dataset THEN <<>>
             ELSE Wrong("reports dataset", document.dataset, bound.dataset))
            \o (IF "" \in {document.sha256, bound.sha256} \/ document.sha256 = bound.sha256
                THEN <<>>
                ELSE Wrong("reports dataset sha256", document.sha256, bound.sha256))

Unusable(what) ==
    [payload |-> {},
     errors |-> <<Problem(<<what>>, <<Word("metrics.json"), Word(what), Word("unusable")>>)>>]

\* parse_metrics_file(): a document that cannot be used, or one and its errors.
ParseMetricsFile(shelf) ==
    IF shelf.metrics = {} THEN Unusable("was not written")
    ELSE LET document == CHOOSE d \in shelf.metrics : TRUE IN
         IF document.form # "valid" THEN Unusable(document.form)
         ELSE [payload |-> {document},
               errors |-> CheckFinite(document)
                          \o CheckDeclaredFilesExist(document, shelf.files)]

\* Mutant: the plan is not consulted.
DriverErrors(parsed, binding) == parsed.errors

\* _contract_problems(): the driver's errors and the two checks that need the plan.
ContractProblems(parsed, binding) ==
    IF parsed.payload = {} THEN parsed.errors
    ELSE LET document == CHOOSE d \in parsed.payload : TRUE
         IN parsed.errors \o CheckRequiredMetrics(document)
            \o CheckDatasetBinding(document, binding)
=============================================================================
