---------------------------- MODULE MCEngineCalm ----------------------------
(***************************************************************************)
(* Where the engine gets to once the disturbances stop.  Until `calm' is   *)
(* set people change the repository and calls fail, as often as they like  *)
(* and in every order; from then on the repository is live and only new    *)
(* checks run: it gets calm when no check is under way.                    *)
(***************************************************************************)
EXTENDS MCEngine

VARIABLE calm

Disturbance == People \/ \E w \in Workers : Failure(w)

CalmInit == Init /\ calm = FALSE

GetCalm ==
    /\ ~calm /\ \A w \in Workers : pc[w] = "idle"
    /\ calm' = TRUE
    /\ UNCHANGED vars

\* A check of a repository that was archived for a while.
Skips(w) == pc[w] = "repository" /\ pc'[w] = "idle"

CalmNext ==
    \/ \E w \in Workers : Check(w) /\ (calm => ~Skips(w)) /\ UNCHANGED calm
    \/ ~calm /\ Disturbance /\ UNCHANGED calm
    \/ GetCalm

\* From then on a worker keeps going, and the scheduler keeps handing it jobs for
\* the repository.  Calm need not come.
CalmSpec ==
    /\ CalmInit /\ [][CalmNext]_<<vars, calm>>
    /\ \A w \in Workers : WF_vars(calm /\ Check(w))

\* Each rule has its file, or somebody offers to add it: another person, or the
\* app's open pull request with a commit of that very file.
Settled ==
    \A r \in Rules :
        Covered(r) \/ (App \in open /\ Target[r] \in added[App])

\* If the app has no open pull request when it gets calm, the repository gets
\* settled and stays so, whatever state the failures and the people have left the
\* branch in: the next check cleans up after the last one (engine.go:225-234).  A
\* pull request that is open by then need not come to offer a file that has become
\* missing since: NewlyMissingIsAdded, below, is violated.
SelfHeals == calm /\ App \notin open ~> []Settled

-----------------------------------------------------------------------------
(* The gentlest disturbance: files of the default branch are removed and    *)
(* pull requests of others closed.  No call fails and nobody touches the    *)
(* app's branch.                                                            *)

GentleSpec ==
    /\ CalmInit
    /\ [][ \/ (\E w \in Workers : Check(w)) /\ UNCHANGED calm
           \/ ~calm /\ Uncover /\ UNCHANGED calm
           \/ GetCalm ]_<<vars, calm>>
    /\ \A w \in Workers : WF_vars(Check(w))

\* docs/RFC.md:282, "updates the existing PR ... with any newly missing files":
\* an open pull request of the app comes to offer each file that is missing.
Complete ==
    App \in open =>
        \A r \in Rules : Covered(r) \/ Target[r] \in base[App] \cup added[App]

NewlyMissingIsAdded == calm ~> []Complete
=============================================================================
