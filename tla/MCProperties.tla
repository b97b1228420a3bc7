---------------------------- MODULE MCProperties ----------------------------
(***************************************************************************)
(* Instances of Properties for TLC, and where repeated checks get to once  *)
(* the disturbances stop.                                                  *)
(***************************************************************************)
EXTENDS Properties, TLC

CONSTANTS w1, w2

OneWorker  == {w1}
TwoWorkers == {w1, w2}
SymWorkers == Permutations(TwoWorkers)

MCPath     == {Yaml, Yml, Workflow}
MCBranches == {PropertiesBranchName, CatalogInfoBranchName}
MCValues   == {"", "Unclassified", "team", "svc", "P"}
BothModes  == {"github-action", "api"}
GHAOnly    == {"github-action"}
APIOnly    == {"api"}

\* A catalog with a Jira project and no label, a template still without an
\* owner, and an empty file.
Full == [form |-> "component", owner |-> "team", name |-> "svc",
         project |-> "P", label |-> ""]
Todo == [Full EXCEPT !.owner = "", !.project = ""]

MCContents == {Full}

Unset == [Owner |-> "", Component |-> "", JiraProject |-> "", JiraLabel |-> ""]
MCSettings == {Unset, [Parse(Full) EXCEPT !.JiraLabel = "P"]}

-----------------------------------------------------------------------------
VARIABLE calm

CalmInit == Init /\ calm = FALSE

\* No check is under way.
GetCalm ==
    /\ ~calm /\ \A w \in Workers : pc[w] = "idle"
    /\ calm' = TRUE
    /\ UNCHANGED vars

CalmNext ==
    \/ (RunWorkflow \/ \E w \in Workers : Check(w)) /\ UNCHANGED calm
    \/ /\ ~calm /\ (People \/ \E w \in Workers : Failure(w))
       /\ UNCHANGED calm
    \/ GetCalm

CalmSpec ==
    /\ CalmInit /\ [][CalmNext]_<<vars, calm>>
    /\ \A w \in Workers : WF_vars(Check(w))

\* A pull request of the app sets what the catalog asks for.
Proposed == Own \in open /\ offered = Parse(CatalogContent)

\* Once it is calm, repeated checks make the properties what the catalog asks
\* for and keep them so (api mode, properties.go:187-200); or a pull request that
\* sets them to just that is open and stays so, unless the default branch has the
\* workflow file already (github-action mode, properties.go:112-160).  In
\* github-action mode a pull request that is open when it gets calm is the
\* exception: the program leaves it as it is, with the values of an earlier
\* catalog perhaps (properties.go:98-102).
Converges ==
    calm /\ (mode = "api" \/ Own \notin open) ~>
        [](Right \/ (mode = "github-action" /\ (Proposed \/ Workflow \in files)))

-----------------------------------------------------------------------------
(* Two workers on one repository, and people who write catalogs and act on  *)
(* the app's branch and pull request.                                      *)

RaceInit == CalmInit /\ props = Unset

RaceNext ==
    /\ \/ Merge \/ TouchOwn \/ EditCatalog
       \/ \E w \in Workers : Check(w) \/ Failure(w)
    /\ UNCHANGED calm

RaceSpec == RaceInit /\ [][RaceNext]_<<vars, calm>>

-----------------------------------------------------------------------------
(* A gentler world: nothing is set at first, no call fails and the workflow  *)
(* does its work; until it is calm people do only what is listed.          *)

GentleInit ==
    CalmInit /\ files = {} /\ props = Unset

WorkflowSucceeds == RunWorkflow /\ props' = script

Gentle(people) ==
    \/ (WorkflowSucceeds \/ \E w \in Workers : Check(w)) /\ UNCHANGED calm
    \/ ~calm /\ people /\ UNCHANGED calm
    \/ GetCalm

GentleFairness ==
    /\ \A w \in Workers : WF_vars(Check(w))
    /\ WF_vars(WorkflowSucceeds)

\* They close the app's pull request.
ClosingNext == Gentle(TouchOwn /\ Own \in open /\ refs' = refs)

ClosingSpec ==
    GentleInit /\ [][ClosingNext]_<<vars, calm>> /\ GentleFairness

\* docs/custom_properties.md:759, "If the team closes the PR without merging,
\* the engine will re-create it on the next cycle": a repository without a
\* catalog gets, and keeps, a pull request that adds one (api mode).
AsksForCatalog == calm ~> [](CatalogContent # Nothing \/ Own \in open)

\* They merge the app's pull request, and add the missing catalog.
AddCatalog == CatalogContent = Nothing /\ EditCatalog /\ catalog'[Yaml] = Full

MergingNext == Gentle(Merge \/ AddCatalog)

MergingSpec ==
    GentleInit /\ [][MergingNext]_<<vars, calm>> /\ GentleFairness

\* docs/custom_properties.md:716, "after the catalog-info.yaml is eventually
\* added by the team, a new PR is created with the real values": properties
\* that are not what the catalog asks for have a pull request that sets them
\* (github-action mode).
ProposesNewValues == calm ~> [](Right \/ Own \in open)
=============================================================================
