-------------------------------- MODULE Feed --------------------------------
(***************************************************************************)
(* What a reader of a run's event stream may rely on.  Frames are          *)
(* published one after the other; a reader sees them in any number of      *)
(* pieces, some of them twice, but what it has seen has no hole in it      *)
(* until it is excused: `told` is raised when the reader was sent a gap    *)
(* notice, or when one of the circumstances its user documents applies.    *)
(***************************************************************************)
EXTENDS Naturals

VARIABLES
    published,  \* number of frames published
    seen,       \* those the reader has received
    told        \* the reader's history is known to be incomplete

feedVars == <<published, seen, told>>

NoHole(S) == \A a, b \in S : a..b \subseteq S

FeedInit ==
    /\ published = 0
    /\ seen = {}
    /\ told = FALSE

Publish ==
    /\ published' = published + 1
    /\ told' \in {told, TRUE}
    /\ UNCHANGED seen

See(i) ==
    /\ seen' = seen \cup {i}
    /\ told \/ NoHole(seen')
    /\ UNCHANGED <<published, told>>

Tell ==
    /\ told' = TRUE
    /\ UNCHANGED <<published, seen>>

FeedNext ==
    \/ Publish
    \/ \E i \in 1..published : See(i)
    \/ Tell

FeedSpec == FeedInit /\ [][FeedNext]_feedVars
=============================================================================
