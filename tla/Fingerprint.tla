----------------------------- MODULE Fingerprint -----------------------------
(***************************************************************************)
(* From what a failed program printed to the identity of the failure       *)
(* (engine/errors.py).  A message is a sequence of tokens: a word is a     *)
(* stretch of text, of which SlugWords fit into the 80 characters of a     *)
(* slug; numbers, addresses and paths are the details that differ between  *)
(* two occurrences of a bug, and so is what stands between quote marks.    *)
(***************************************************************************)
EXTENDS Naturals, Sequences, FiniteSets

LOCAL INSTANCE SequencesExt

CONSTANT SlugWords      \* words in a slug of 80 characters

ASSUME SlugWordsAssumption == SlugWords \in Nat \ {0}

Word(text) == <<"word", text>>
Number(digits) == <<"number", digits>>
Address(digits) == <<"hex", digits>>
File(path) == <<"path", path>>
Mark == <<"quote", "'">>
Literal(text) == <<Mark, Word(text), Mark>>

Incidental == {"number", "hex", "path"}

Marks(text, i) == Cardinality({j \in 1..i : text[j] = Mark})

\* _QUOTED.sub("", text): quote marks pair up from the left, an apostrophe like
\* any other; one that is left over at the end encloses nothing.
Unquoted(text) ==
    LET Kept(i) ==
            /\ text[i] # Mark
            /\ \/ Marks(text, i) % 2 = 0
               \/ Marks(text, i) = Marks(text, Len(text))
    IN FoldLeftDomain(LAMBDA rest, i : IF Kept(i) THEN Append(rest, text[i]) ELSE rest,
                      <<>>, text)

\* Mutant: numbers are left in.
NumbersKept(text) == SelectSeq(Unquoted(text), LAMBDA t : t[1] \notin {"hex", "path"})

NormalizeMessage(text) == SelectSeq(Unquoted(text), LAMBDA t : t[1] \notin Incidental)

Slugify(text) ==
    LET words == SelectSeq(text, LAMBDA t : t # Mark)
    IN SubSeq(words, 1, IF Len(words) < SlugWords THEN Len(words) ELSE SlugWords)

\* When normalising leaves nothing the literal was the message, and is kept.
FingerprintOf(type, text) ==
    LET slug == Slugify(NormalizeMessage(text))
    IN <<IF type = "" THEN "Unknown" ELSE type,
         IF slug # <<>> THEN slug ELSE Slugify(text)>>

KindByType(type) ==
    CASE type \in {"SyntaxError", "IndentationError", "TabError"} -> "SYNTAX"
      [] type \in {"ModuleNotFoundError", "ImportError"} -> "IMPORT"
      [] type \in {"NameError", "UnboundLocalError"} -> "NAME"
      [] type \in {"TypeError", "AttributeError"} -> "TYPE"
      [] type \in {"KeyError", "FileNotFoundError", "IsADirectoryError",
                   "PermissionError", "EmptyDataError"} -> "DATA"
      [] type = "IndexError" -> "SHAPE"
      [] type = "AssertionError" -> "ASSERTION"
      [] type = "MemoryError" -> "OOM"
      [] type = "TimeoutError" -> "TIMEOUT"
      [] type = "ValueError" -> "VALUE"
      [] OTHER -> "RUNTIME"

ShapeHints == {"shape", "dimension", "broadcast", "size mismatch", "n_features", "axis"}

\* The hints are looked for in the whole message, its literals included.
ClassifyException(type, text) ==
    IF KindByType(type) = "VALUE" /\ \E i \in DOMAIN text : text[i][2] \in ShapeHints
    THEN "SHAPE"
    ELSE KindByType(type)

\* A line of stderr: the traceback's header, a frame (of main.py, at a line, or
\* of a library, at 0), another indented line, "Type: message", or anything else.
Header == [shape |-> "header", type |-> "", text |-> <<Word("Traceback")>>, main |-> 0]
Frame(main) == [shape |-> "frame", type |-> "", text |-> <<>>, main |-> main]
Named(type, text) == [shape |-> "named", type |-> type, text |-> text, main |-> 0]
Plain(text) == [shape |-> "plain", type |-> "", text |-> text, main |-> 0]

Highest(S) == CHOOSE i \in S : \A j \in S : j <= i

\* The last line of the form "Type: message" names the exception; without one the
\* last line is the message.  The line is that of the last frame in main.py.
ParseTraceback(stderr) ==
    LET named == {i \in DOMAIN stderr : stderr[i].shape = "named"}
        mine == {i \in DOMAIN stderr : stderr[i].main # 0}
        at == IF named # {} THEN Highest(named) ELSE Len(stderr)
    IN [type |-> IF named # {} THEN stderr[at].type ELSE "",
        text |-> IF stderr = <<>> THEN <<>> ELSE stderr[at].text,
        line |-> IF mine = {} THEN 0 ELSE stderr[Highest(mine)].main]

LooksLikeTraceback(stderr) ==
    \E i \in DOMAIN stderr : stderr[i].shape \in {"header", "frame"}

\* consecutive_repeats(): the records from the end that share the newest identity.
ConsecutiveRepeats(errors) ==
    LET others == {i \in 1..Len(errors) :
                      errors[i].fingerprint # errors[Len(errors)].fingerprint}
    IN Len(errors) - Highest(others \cup {0})
=============================================================================
