------------------------------ MODULE MCEngine ------------------------------
(***************************************************************************)
(* Instances of Engine for TLC.                                            *)
(***************************************************************************)
EXTENDS Engine, TLC

CONSTANTS w1, w2, app

MCBranches == {app}

OneWorker  == {w1}
TwoWorkers == {w1, w2}

\* Two rules.  The first is satisfied by either of two files, and its target
\* is the second of them, like CODEOWNERS and .github/CODEOWNERS.
RichPath    == {"a1", "a2", "b1"}
RichPathsOf == <<<<"a1", "a2">>, <<"b1">>>>
RichTarget  == <<"a2", "b1">>

\* Two rules with a path each.
PlainPath    == {"a", "b"}
PlainPathsOf == <<<<"a">>, <<"b">>>>
PlainTarget  == <<"a", "b">>

BothRules == {1, 2}

Live     == [archived |-> FALSE, fork |-> FALSE, hasBranch |-> TRUE]
Archived == [archived |-> TRUE, fork |-> FALSE, hasBranch |-> TRUE]
LiveOnly == {Live}
LiveOrArchived == {Live, Archived}

-----------------------------------------------------------------------------
(* Two workers.  To keep the instance small nobody adds files or opens pull *)
(* requests of their own, and no listing misses any; the single-worker      *)
(* instance has all of People and of Failure.                               *)

RaceNext ==
    \/ TouchOwn \/ Uncover
    \/ \E w \in Workers : Check(w) \/ CallFails(w) \/ AnswerLost(w)

RaceSpec == Init /\ [][RaceNext]_vars

RaceSymmetry == Permutations(Workers)

\* Nobody but the workers does anything, and no call fails.
AloneSpec == Init /\ [][\E w \in Workers : Check(w)]_vars
=============================================================================
