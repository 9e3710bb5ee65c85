----------------------------- MODULE MCRunStream -----------------------------
(***************************************************************************)
(* Instances of RunStream.  Each scenario is a budget; one of them is      *)
(* picked initially.  The kinds a scenario does not name do not happen.    *)
(***************************************************************************)
EXTENDS RunStream

Budget(f) == [k \in Kinds |-> IF k \in DOMAIN f THEN f[k] ELSE 0]

MCScenarios == {
    \* the emitter: tokens against frames, a lost publish, a cancellation
    Budget([delta |-> 3, frame |-> 1, lost |-> 1, cancel |-> 1]),
    \* the sandbox's lines against tokens, a log thread that overruns
    Budget([delta |-> 1, sandbox |-> 1, line |-> 2, late |-> 1]),
    \* two executions one after the other
    Budget([sandbox |-> 2, line |-> 2]),
    \* an execution that is cancelled under the sandbox
    Budget([sandbox |-> 1, line |-> 2, cancel |-> 1, late |-> 1]),
    \* a second writer and a reconnection
    Budget([watch |-> 1, frame |-> 1, outside |-> 1, drop |-> 1]),
    \* trimming, reconnections and a backlog that cannot be read
    Budget([watch |-> 1, frame |-> 3, trim |-> 1, drop |-> 2]),
    Budget([watch |-> 1, frame |-> 2, trim |-> 1, drop |-> 1, blip |-> 1]),
    \* the heartbeat against a client that stops answering
    Budget([watch |-> 1, frame |-> 1, drop |-> 1, mute |-> 2])
    }

\* A run whose history is published before its only client connects.
MCFresh == {Budget([watch |-> 1, frame |-> 1, drop |-> 1])}
=============================================================================
