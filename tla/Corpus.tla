-------------------------------- MODULE Corpus --------------------------------
(***************************************************************************)
(* The RAG corpus: documents are rows of Postgres and points of Qdrant,    *)
(* and no transaction spans the two.  Requests of api/v1/corpus.py go      *)
(* through services/ingestion.py and services/vector_store.py step by      *)
(* step; the Researcher and the search endpoint read what is indexed.  A   *)
(* document is named by the request that brought it; its chunks go into    *)
(* the index together.                                                     *)
(***************************************************************************)
EXTENDS Naturals, FiniteSets

CONSTANTS
    Requests,           \* the requests of a history
    Texts,              \* contents, told apart by their sha256
    Layout,             \* of each: its length, and where its separators are
    ChunkSize,          \* CHUNK_SIZE, in characters
    ChunkOverlap,       \* CHUNK_OVERLAP
    CorpusScenarios     \* budgets: how often each fault may happen

CorpusFaults == {"qdrant", "commit", "restart"}

ASSUME RequestsAssumption == IsFiniteSet(Requests)
ASSUME NoneAssumption == "none" \notin Requests
ASSUME LayoutAssumption ==
    \A text \in Texts : /\ Layout[text].length \in Nat
                        /\ Layout[text].paragraphs \subseteq Nat
                        /\ Layout[text].lines \subseteq Nat
                        /\ Layout[text].words \subseteq Nat
ASSUME ChunkAssumption == ChunkSize \in Nat \ {0} /\ ChunkOverlap \in Nat
ASSUME CorpusScenariosAssumption == CorpusScenarios \subseteq [CorpusFaults -> Nat]

(* The separators of a text, the ones to cut at first, first: paragraphs, *)
(* lines, words.  A paragraph ends with two line breaks, each of which is  *)
(* a separator of lines.                                                   *)
Separators(text) ==
    LET breaks == Layout[text].paragraphs IN
    <<breaks, Layout[text].lines \cup breaks \cup {p + 1 : p \in breaks}, Layout[text].words>>
Width == <<2, 1, 1>>

Letters == [text \in Texts |->
    (0..(Layout[text].length - 1)) \ UNION {Separators(text)[k] : k \in 1..3}]

\* Where the chunk that starts at `start` ends: at the last of the separators
\* of the first kind there is in the window, else where the window ends.
Cut(text, start) ==
    LET within(k) == {p \in Separators(text)[k] :
                          start < p /\ p + Width[k] <= start + ChunkSize}
        found == {k \in 1..3 : within(k) # {}}
        kind == CHOOSE k \in found : \A l \in found : k <= l
    IN  IF start + ChunkSize >= Layout[text].length THEN Layout[text].length
        ELSE IF found = {} THEN start + ChunkSize
        ELSE CHOOSE p \in within(kind) : \A q \in within(kind) : q <= p

\* A chunk is the set of its letters.
Piece(text, start) == (start..(Cut(text, start) - 1)) \cap Letters[text]

\* The next one starts ChunkOverlap before its end, and at least one character on.
Onward(text, start) ==
    IF Cut(text, start) > start + ChunkOverlap THEN Cut(text, start) - ChunkOverlap
                                               ELSE start + 1

(* chunk_text() *)
ChunkText == [text \in Texts |->
    LET from[start \in 0..Layout[text].length] ==
            ({Piece(text, start)} \ {{}}) \cup
            IF Cut(text, start) >= Layout[text].length THEN {} ELSE from[Onward(text, start)]
    IN  from[0]]

Fits(text) == \A piece \in ChunkText[text] : Cardinality(piece) <= ChunkSize
Found == [text \in Texts |-> UNION ChunkText[text]]

VARIABLES
    request,    \* each request: where it is, the text and the document it is about
    stored,     \* Postgres: committed documents
    flushed,    \* Postgres: inserted, not yet committed
    points,     \* Qdrant: documents whose points are in the index
    collected,  \* Qdrant: the collection exists
    ensured,    \* _ENSURED, in this process
    torn,       \* history: documents a failed request left half done
    mishaps     \* what is left of the scenario

indexVars == <<points, collected, ensured>>
corpusVars == <<request, stored, flushed, indexVars, torn, mishaps>>

RequestPoints == {"idle", "flush", "ensure", "create", "upsert", "commit", "unindex",
                  "delete", "search", "done", "refused", "failed"}
Answered == {"done", "refused", "failed"}

CorpusTypeOK ==
    /\ request \in [Requests -> [at : RequestPoints, text : Texts \cup {"none"},
                                doc : Requests \cup {"none"}]]
    /\ stored \subseteq Requests /\ flushed \subseteq Requests \ stored
    /\ points \subseteq Requests
    /\ points # {} => collected
    /\ ensured => collected
    /\ torn \subseteq Requests /\ mishaps \in [CorpusFaults -> Nat]
    /\ \A d \in points : Fits(request[d].text)
    /\ \A d, e \in stored \cup flushed : request[d].text = request[e].text => d = e

CorpusInit ==
    /\ request = [r \in Requests |-> [at |-> "idle", text |-> "none", doc |-> "none"]]
    /\ stored = {}
    /\ flushed = {}
    /\ points = {}
    /\ collected \in BOOLEAN
    /\ ensured = FALSE
    /\ torn = {}
    /\ mishaps \in CorpusScenarios

Mishap(fault) == mishaps[fault] > 0 /\ mishaps' = [mishaps EXCEPT ![fault] = @ - 1]

Advance(r, p) == request' = [request EXCEPT ![r].at = p]

-----------------------------------------------------------------------------
\* POST /documents.

(* Identical content is refused, if it is already committed; so is a text *)
(* without a chunk.                                                       *)
Submit(r, text) ==
    LET refused == (\E d \in stored : request[d].text = text) \/ ChunkText[text] = {} IN
    /\ request[r].at = "idle"
    /\ request' = [request EXCEPT ![r] =
          [at |-> IF refused THEN "refused" ELSE "flush", text |-> text, doc |-> r]]
    /\ UNCHANGED <<stored, flushed, indexVars, torn, mishaps>>

\* Mutant: without the unique index, only Submit looks for identical content.
InsertUnchecked(r) ==
    /\ request[r].at = "flush"
    /\ Advance(r, "ensure") /\ flushed' = flushed \cup {r}
    /\ UNCHANGED <<stored, indexVars, torn, mishaps>>

(* The INSERT waits for another transaction's row of the same sha256, and *)
(* fails if that one committed.                                           *)
FlushDocument(r) ==
    /\ request[r].at = "flush"
    /\ ~\E d \in flushed : request[d].text = request[r].text
    /\ IF \E d \in stored : request[d].text = request[r].text
       THEN Advance(r, "failed") /\ UNCHANGED flushed
       ELSE Advance(r, "ensure") /\ flushed' = flushed \cup {r}
    /\ UNCHANGED <<stored, indexVars, torn, mishaps>>

AfterEnsure(r) == IF request[r].doc = "none" THEN "search" ELSE "upsert"

(* ensure_collections(): once per process.  The list is read before the *)
(* collection is created.                                               *)
EnsureCollection(r) ==
    /\ request[r].at = "ensure"
    /\ Advance(r, IF ensured \/ collected THEN AfterEnsure(r) ELSE "create")
    /\ ensured' = (ensured \/ collected)
    /\ UNCHANGED <<stored, flushed, points, collected, torn, mishaps>>

Rollback(r) == Advance(r, "failed") /\ flushed' = flushed \ {r}

(* create_collection() raises if another request was first. *)
CreateCollection(r) ==
    /\ request[r].at = "create"
    /\ IF collected
       THEN Rollback(r) /\ UNCHANGED indexVars
       ELSE /\ collected' = TRUE /\ ensured' = TRUE
            /\ Advance(r, AfterEnsure(r))
            /\ UNCHANGED <<flushed, points>>
    /\ UNCHANGED <<stored, torn, mishaps>>

(* add_documents(): embeddings, fresh point ids, one upsert.  The call may *)
(* raise before or after it took effect.                                   *)
Upsert(r) ==
    /\ request[r].at = "upsert"
    /\ \/ /\ points' = points \cup {r}
          /\ Advance(r, "commit")
          /\ UNCHANGED <<flushed, torn, mishaps>>
       \/ /\ Mishap("qdrant")
          /\ Rollback(r)
          /\ \/ UNCHANGED <<points, torn>>
             \/ points' = points \cup {r} /\ torn' = torn \cup {r}
    /\ UNCHANGED <<stored, collected, ensured>>

(* The caller's commit: the document and its chunk rows. *)
CommitDocument(r) ==
    /\ request[r].at = "commit"
    /\ \/ /\ stored' = stored \cup {r} /\ flushed' = flushed \ {r}
          /\ Advance(r, "done")
          /\ UNCHANGED <<torn, mishaps>>
       \/ /\ Mishap("commit")
          /\ Rollback(r)
          /\ torn' = torn \cup {r}
          /\ UNCHANGED stored
    /\ UNCHANGED indexVars

-----------------------------------------------------------------------------
\* DELETE /documents/{doc_id}.

LoadDocument(r, d) ==
    /\ request[r].at = "idle"
    /\ request' = [request EXCEPT ![r].doc = d,
                                  ![r].at = IF d \in stored THEN "unindex" ELSE "refused"]
    /\ UNCHANGED <<stored, flushed, indexVars, torn, mishaps>>

\* Mutant: points that cannot be deleted do not keep the row.
UnindexBestEffort(r) ==
    /\ request[r].at = "unindex"
    /\ \/ points' = points \ {request[r].doc} /\ UNCHANGED mishaps
       \/ Mishap("qdrant") /\ UNCHANGED points
    /\ Advance(r, "delete")
    /\ UNCHANGED <<stored, flushed, collected, ensured, torn>>

(* delete_points(), which may raise before or after it took effect *)
Unindex(r) ==
    /\ request[r].at = "unindex"
    /\ \/ /\ points' = points \ {request[r].doc}
          /\ Advance(r, "delete")
          /\ UNCHANGED <<torn, mishaps>>
       \/ /\ Mishap("qdrant")
          /\ Advance(r, "failed")
          /\ \/ UNCHANGED <<points, torn>>
             \/ /\ points' = points \ {request[r].doc}
                /\ torn' = torn \cup {request[r].doc}
    /\ UNCHANGED <<stored, flushed, collected, ensured>>

(* db.delete() and the commit; another request may have deleted the row. *)
CommitDelete(r) ==
    /\ request[r].at = "delete"
    /\ \/ /\ stored' = stored \ {request[r].doc}
          /\ Advance(r, "done")
          /\ UNCHANGED <<torn, mishaps>>
       \/ /\ Mishap("commit")
          /\ torn' = torn \cup {request[r].doc}
          /\ Advance(r, "failed")
          /\ UNCHANGED stored
    /\ UNCHANGED <<flushed, indexVars>>

-----------------------------------------------------------------------------
\* POST /search, and the Researcher's retrieval.

BeginSearch(r) ==
    /\ request[r].at = "idle"
    /\ Advance(r, "ensure")
    /\ UNCHANGED <<stored, flushed, indexVars, torn, mishaps>>

\* The best hit is any document in the index, or there is none.
Hit(r) ==
    \E hit \in points \cup {"none"} :
        request' = [request EXCEPT ![r].at = "done", ![r].doc = hit]

(* hybrid_search(), for the endpoint *)
Search(r) ==
    /\ request[r].at = "search"
    /\ \/ Hit(r) /\ UNCHANGED mishaps
       \/ Mishap("qdrant") /\ Advance(r, "failed")
    /\ UNCHANGED <<stored, flushed, indexVars, torn>>

(* _retrieve(), for the Researcher: a query that raises is one without hits *)
Retrieve(r) ==
    /\ request[r].at = "search"
    /\ Hit(r)
    /\ UNCHANGED mishaps \/ Mishap("qdrant")
    /\ UNCHANGED <<stored, flushed, indexVars, torn>>

(* The API process restarts: its transactions roll back, what Qdrant was *)
(* told stays.                                                           *)
RestartApi ==
    /\ Mishap("restart")
    /\ request' = [r \in Requests |->
          IF request[r].at \in Answered \cup {"idle"} THEN request[r]
          ELSE [request[r] EXCEPT !.at = "failed"]]
    /\ torn' = torn \cup {request[r].doc : r \in
                            {q \in Requests : request[q].at \in {"commit", "delete"}}}
    /\ flushed' = {}
    /\ ensured' = FALSE
    /\ UNCHANGED <<stored, points, collected>>

CorpusNext ==
    \/ \E r \in Requests :
          \/ \E text \in Texts : Submit(r, text)
          \/ FlushDocument(r) \/ EnsureCollection(r) \/ CreateCollection(r)
          \/ Upsert(r) \/ CommitDocument(r)
          \/ \E d \in Requests \ {r} : LoadDocument(r, d)
          \/ Unindex(r) \/ CommitDelete(r)
          \/ BeginSearch(r) \/ Search(r) \/ Retrieve(r)
    \/ RestartApi

CorpusSpec == CorpusInit /\ [][CorpusNext]_corpusVars

-----------------------------------------------------------------------------
\* "Postgres is authoritative; Qdrant is the derived vector index that is kept
\* in step with it" (api/v1/corpus.py, line 3): retrieval finds every letter of
\* the documents that are stored, wherever they are cut, and none of others,
\* save those a request is at, and those a request failed on between the two
\* stores.  Nothing repairs the latter.
UnderWay(d) ==
    \E r \in Requests : request[r].doc = d /\ request[r].at \in {"commit", "delete"}

Indexed(d) == IF d \in points THEN Found[request[d].text] ELSE {}

IndexFollowsStore ==
    \A d \in Requests :
        \/ Indexed(d) = IF d \in stored THEN Letters[request[d].text] ELSE {}
        \/ UnderWay(d) \/ d \in torn
=============================================================================
