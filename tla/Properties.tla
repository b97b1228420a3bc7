----------------------------- MODULE Properties -----------------------------
(***************************************************************************)
(* CheckCustomProperties of internal/checker/properties.go: workers that   *)
(* check one repository, one GitHub call at a time, while people, the      *)
(* workflow the app has proposed and the other workers change it.          *)
(*                                                                         *)
(* A check begins with the listing of the pull requests.  It is made by    *)
(* CheckRepo before the file rules are seen to: between the listing and    *)
(* the next step any time may pass, and the check may end there.  pc[w]    *)
(* names the call w makes next; the code between two calls is part of the  *)
(* step that takes the first one's reply.                                  *)
(*                                                                         *)
(* Definitions named Bug... are the mutations that show each property can  *)
(* fail: none of them is part of the specification.                        *)
(***************************************************************************)
EXTENDS GitHubRepo, Catalog, Naturals

CONSTANTS
    Workers,    \* the queue's workers, all given jobs for this repository
    Modes,      \* what CUSTOM_PROPERTIES_MODE may be, when it is set
    DryRun,     \* DRY_RUN
    Template,   \* the catalog-info template, rendered for the repository
    Contents,   \* what people write into catalog files
    Settings    \* what people set the properties to

Yaml     == "catalog-info.yaml"
Yml      == "catalog-info.yml"
Workflow == ".github/workflows/set-custom-properties.yml"

PropertiesBranchName  == "repo-guardian/set-custom-properties"
CatalogInfoBranchName == "repo-guardian/add-catalog-info"

ASSUME PropertiesAssumption ==
    /\ {Yaml, Yml, Workflow} \subseteq Path
    /\ {PropertiesBranchName, CatalogInfoBranchName} \subseteq Branches
    /\ Modes \subseteq {"github-action", "api"}
    /\ DryRun \in BOOLEAN
    /\ Template \in Content /\ Contents \subseteq Content
    /\ Settings \subseteq Properties

VARIABLES
    mode,       \* customPropertiesMode, read at start-up
    catalog,    \* contents of the catalog files on the default branch
    script,     \* the properties the default branch's workflow sets
    offered,    \* the properties the workflow on the app's branch would set
    due,        \* a push to the default branch has yet to run the workflow
    props,      \* the repository's custom properties
    pc,         \* pc[w]: the call worker w makes next, or "idle"
    job,        \* job[w]: the local variables of w's check
    disturbed,  \* history: workers whose snapshot of the app's branch and
                \* pull request is wrong: somebody else has since written
                \* over it, or the listing has missed the pull request
    faithful,   \* history: workers since whose start no catalog file changed
    settled     \* history: faithful workers that began with the properties
                \* as the catalog wants them, and no property changed since

ownRepo == <<files, refs, base, added, open>>
world   == <<ownRepo, catalog, script, offered, due, props>>
history == <<disturbed, faithful, settled>>
vars    == <<files, refs, base, added, open, mode, catalog, script, offered,
             due, props, pc, job, disturbed, faithful, settled>>

\* The one branch a program in this mode uses, and the file it adds with it.
Own == IF mode = "github-action" THEN PropertiesBranchName
                                 ELSE CatalogInfoBranchName

TargetPath == IF mode = "github-action" THEN Workflow ELSE Yaml

Writing == {"set", "ourBranch", "delete", "defaultBranch", "create", "commit",
            "openPR"}

\* The calls made with a snapshot of the pull requests in hand.
Deciding == {"yaml", "yml", "properties"} \cup Writing

Calls == {"list"} \cup Deciding

Job == [listed  : BOOLEAN,          \* the snapshot has a pull request of Own
        found   : BOOLEAN,          \* catalogFound
        desired : Properties,       \* what Parse made of the content
        from    : SUBSET Path]      \* TargetPath, if baseSHA's tree has it

NoJob == [listed |-> FALSE, found |-> FALSE, desired |-> Defaults,
          from |-> {}]

TypeOK ==
    /\ RepoTypeOK
    /\ mode \in Modes
    /\ catalog \in [{Yaml, Yml} -> Content]
    /\ script \in Properties /\ offered \in Properties /\ props \in Properties
    /\ due \in BOOLEAN
    /\ pc \in [Workers -> Calls \cup {"idle"}]
    /\ job \in [Workers -> Job]
    /\ disturbed \subseteq Workers
    /\ settled \subseteq faithful /\ faithful \subseteq Workers

\* Nothing set, or set by somebody; a workflow file from an earlier time.
Init ==
    /\ RepoInit
    /\ mode \in Modes
    /\ catalog \in [{Yaml, Yml} -> Contents \cup {Nothing}]
    /\ \A p \in {Yaml, Yml} : catalog[p] # Nothing => p \in files
    /\ script = Defaults /\ offered = Defaults /\ due = FALSE
    /\ props \in Settings
    /\ pc = [w \in Workers |-> "idle"]
    /\ job = [w \in Workers |-> NoJob]
    /\ disturbed = {} /\ faithful = {} /\ settled = {}

-----------------------------------------------------------------------------
\* What the catalog asks for: catalog-info.yaml, or catalog-info.yml if that
\* is missing or empty.
CatalogContent ==
    IF catalog[Yaml].form # "empty" THEN catalog[Yaml] ELSE catalog[Yml]

\* Every property the catalog asks for has the value that it asks for.
Right ==
    LET wanted == Parse(CatalogContent) IN
    \A name \in DOMAIN props : wanted[name] \in {"", props[name]}

Watchers == {w \in Workers : pc[w] \in Deciding}

\* The check returns; `seen' are the workers the last call disturbs.
Return(w, seen) ==
    /\ pc' = [pc EXCEPT ![w] = "idle"]
    /\ job' = [job EXCEPT ![w] = NoJob]
    /\ disturbed' = (disturbed \cup seen) \ {w}
    /\ faithful' = faithful \ {w}
    /\ settled' = settled \ {w}

\* w goes on to `call' with the local variables j, having written nothing.
Continue(w, call, j) ==
    /\ pc' = [pc EXCEPT ![w] = call]
    /\ job' = [job EXCEPT ![w] = j]
    /\ UNCHANGED history

\* w goes on to `call' after a write to its branch.
Wrote(w, call, j) ==
    /\ pc' = [pc EXCEPT ![w] = call]
    /\ job' = [job EXCEPT ![w] = j]
    /\ disturbed' = disturbed \cup (Watchers \ {w})
    /\ UNCHANGED <<faithful, settled>>

Start(w) ==
    /\ pc[w] = "idle"
    /\ pc' = [pc EXCEPT ![w] = "list"]
    /\ faithful' = faithful \cup {w}
    /\ settled' = IF Right THEN settled \cup {w} ELSE settled
    /\ UNCHANGED <<world, mode, job, disturbed>>

\* The branch of the other mode is looked for.
BugFindPropertiesPR == PropertiesBranchName \in open

FindPropertiesPR == Own \in open

ListPullRequests(w) ==
    /\ pc[w] = "list"
    /\ Continue(w, "yaml", [NoJob EXCEPT !.listed = FindPropertiesPR])
    /\ UNCHANGED <<world, mode>>

-----------------------------------------------------------------------------
(* CheckCustomProperties: the reads and the decision.                      *)

\* w has read the content c and moves on to the properties.
Parsed(w, c) ==
    LET j == [job[w] EXCEPT !.found = c.form # "empty"] IN
    Continue(w, "properties", [j EXCEPT !.desired = Parse(c)])

ReadYaml(w) ==
    /\ pc[w] = "yaml"
    /\ IF catalog[Yaml].form = "empty"
         THEN Continue(w, "yml", job[w])
         ELSE Parsed(w, catalog[Yaml])
    /\ UNCHANGED <<world, mode>>

\* The second name is not tried.
BugReadYml(w) ==
    /\ pc[w] = "yml"
    /\ Parsed(w, Nothing)
    /\ UNCHANGED <<world, mode>>

ReadYml(w) ==
    /\ pc[w] = "yml"
    /\ Parsed(w, catalog[Yml])
    /\ UNCHANGED <<world, mode>>

\* GetCustomPropertyValues, the comparison, and the first lines of
\* handleGHAMode and handleAPIMode.
ReadProperties(w) ==
    /\ pc[w] = "properties"
    /\ LET j == job[w]
           act == Differs(j.desired, props) /\ ~DryRun
       IN
       \/ /\ ~act \/ (mode = "github-action" /\ j.listed)
          /\ Return(w, {})
       \/ /\ act /\ mode = "github-action" /\ ~j.listed
          /\ Continue(w, "ourBranch", j)
       \/ /\ act /\ mode = "api"
          /\ Continue(w, "set", j)
    /\ UNCHANGED <<world, mode>>

\* handleAPIMode goes on to createCatalogInfoPR if there is no catalog.
SetProperties(w) ==
    /\ pc[w] = "set"
    /\ props' = With(props, job[w].desired)
    /\ LET j == job[w] IN
       IF j.found \/ j.listed
         THEN /\ pc' = [pc EXCEPT ![w] = "idle"]
              /\ job' = [job EXCEPT ![w] = NoJob]
              /\ disturbed' = disturbed \ {w}
              /\ faithful' = faithful \ {w}
         ELSE /\ pc' = [pc EXCEPT ![w] = "ourBranch"]
              /\ UNCHANGED <<job, disturbed, faithful>>
    /\ settled' = {}
    /\ UNCHANGED <<ownRepo, catalog, script, offered, due, mode>>

-----------------------------------------------------------------------------
(* The pull request: cleanupStaleBranch, then branch, file and request.    *)

Cleanup == IF GetBranchSHA(Own) THEN "delete" ELSE "defaultBranch"

LookForOurBranch(w) ==
    /\ pc[w] = "ourBranch"
    /\ Continue(w, Cleanup, job[w])
    /\ UNCHANGED <<world, mode>>

DeleteStaleBranch(w) ==
    /\ pc[w] = "delete"
    /\ DeleteBranch(Own)
    /\ Wrote(w, "defaultBranch", job[w])
    /\ UNCHANGED <<catalog, script, offered, due, props, mode>>

LookForDefaultBranch(w) ==
    /\ pc[w] = "defaultBranch"
    /\ Continue(w, "create",
                [job[w] EXCEPT !.from = files \cap {TargetPath}])
    /\ UNCHANGED <<world, mode>>

CreateOurBranch(w) ==
    /\ pc[w] = "create"
    /\ CreateBranch(Own, job[w].from)
    /\ Wrote(w, "commit", job[w])
    /\ UNCHANGED <<catalog, script, offered, due, props, mode>>

\* The template spells one placeholder differently, and it stays.
BugRendered(desired) == [desired EXCEPT !.JiraLabel = "JIRA_LABEL_VALUE"]

\* What a workflow sets once the template's four placeholders are replaced.
Rendered(desired) ==
    [Owner |-> desired.Owner, Component |-> desired.Component,
     JiraProject |-> desired.JiraProject, JiraLabel |-> desired.JiraLabel]

Commit(w) ==
    /\ CreateOrUpdateFile(Own, TargetPath)
    /\ offered' = IF mode = "github-action" THEN Rendered(job[w].desired)
                                            ELSE offered
    /\ UNCHANGED <<catalog, script, due, props, mode>>

CommitFile(w) ==
    /\ pc[w] = "commit"
    /\ Commit(w)
    /\ Wrote(w, "openPR", job[w])

OpenPullRequest(w) ==
    /\ pc[w] = "openPR"
    /\ CreatePullRequest(Own)
    /\ Return(w, Watchers)
    /\ UNCHANGED <<catalog, script, offered, due, props, mode>>

-----------------------------------------------------------------------------
(* Errors: the check ends at the first one, leaving what it has done.      *)

Refused(w) ==
    /\ \/ pc[w] = "delete" /\ ~CanDeleteBranch(Own)
       \/ pc[w] = "create" /\ ~CanCreateBranch(Own)
       \/ pc[w] = "commit" /\ ~CanCreateFile(Own, TargetPath)
       \/ pc[w] = "openPR" /\ ~CanCreatePullRequest(Own)
    /\ Return(w, {})
    /\ UNCHANGED <<world, mode>>

\* A call fails and has done nothing; or, at "yaml", the file rules' part of
\* CheckRepo has failed and the properties are not looked at.
CallFails(w) ==
    /\ pc[w] # "idle"
    /\ Return(w, {})
    /\ UNCHANGED <<world, mode>>

\* The app's open pull request is missing from the listing: one that came before
\* it closed when its page had been read, and it moved up across the boundary of
\* two pages.
ListingMisses(w) ==
    /\ pc[w] = "list" /\ Own \in open
    /\ pc' = [pc EXCEPT ![w] = "yaml"]
    /\ job' = [job EXCEPT ![w] = NoJob]
    /\ disturbed' = disturbed \cup {w}
    /\ UNCHANGED <<world, mode, faithful, settled>>

\* A write takes effect, but the answer that says so is lost.
AnswerLost(w) ==
    /\ \/ /\ \/ pc[w] = "delete" /\ DeleteBranch(Own)
             \/ pc[w] = "create" /\ CreateBranch(Own, job[w].from)
             \/ pc[w] = "openPR" /\ CreatePullRequest(Own)
          /\ UNCHANGED <<catalog, script, offered, due, props, mode>>
          /\ Return(w, Watchers)
       \/ /\ pc[w] = "commit" /\ Commit(w)
          /\ Return(w, Watchers)
       \/ /\ pc[w] = "set"
          /\ props' = With(props, job[w].desired)
          /\ pc' = [pc EXCEPT ![w] = "idle"]
          /\ job' = [job EXCEPT ![w] = NoJob]
          /\ disturbed' = disturbed \ {w}
          /\ faithful' = faithful \ {w}
          /\ settled' = {}
          /\ UNCHANGED <<ownRepo, catalog, script, offered, due, mode>>

-----------------------------------------------------------------------------
(* People, and the workflow once it is on the default branch.              *)

\* Every push to the default branch runs the workflow that it has then.
Pushed == due' = (due \/ Workflow \in files')

\* They merge the app's pull request; a catalog file they may fill in first.
Merge ==
    /\ MergeOwn(Own)
    /\ IF mode = "github-action"
         THEN /\ script' = offered
              /\ UNCHANGED <<catalog, faithful, settled>>
         ELSE /\ \E c \in Contents \cup {Template} :
                     catalog' = [catalog EXCEPT ![Yaml] = c]
              /\ script' = script
              /\ faithful' = {} /\ settled' = {}
    /\ Pushed
    /\ disturbed' = disturbed \cup Watchers
    /\ UNCHANGED <<offered, props, mode, pc, job>>

TouchOwn ==
    /\ CloseOwn(Own) \/ ReopenOwn(Own) \/ DeleteOwn(Own)
    /\ disturbed' = disturbed \cup Watchers
    /\ UNCHANGED <<catalog, script, offered, due, props, mode, pc, job,
                   faithful, settled>>

\* They write a catalog file, or remove one.
EditCatalog ==
    /\ \E p \in {Yaml, Yml} :
          \/ \E c \in Contents :
                /\ files' = files \cup {p}
                /\ catalog' = [catalog EXCEPT ![p] = c]
          \/ /\ p \in files
             /\ files' = files \ {p}
             /\ catalog' = [catalog EXCEPT ![p] = Nothing]
    /\ Pushed
    /\ faithful' = {} /\ settled' = {}
    /\ UNCHANGED <<ownRefs, script, offered, props, mode, pc, job, disturbed>>

RemoveWorkflow ==
    /\ RemoveFile(Workflow)
    /\ UNCHANGED <<catalog, script, offered, due, props, mode, pc, job,
                   history>>

SetByHand ==
    /\ \E s \in Settings : s # props /\ props' = s
    /\ settled' = {}
    /\ UNCHANGED <<ownRepo, catalog, script, offered, due, mode, pc, job,
                   disturbed, faithful>>

\* The workflow sets all four properties, or fails.
RunWorkflow ==
    /\ due /\ due' = FALSE
    /\ \/ props' = script /\ settled' = {}
       \/ UNCHANGED <<props, settled>>
    /\ UNCHANGED <<ownRepo, catalog, script, offered, mode, pc, job, disturbed,
                   faithful>>

People == Merge \/ TouchOwn \/ EditCatalog \/ RemoveWorkflow \/ SetByHand

-----------------------------------------------------------------------------
Check(w) ==
    \/ Start(w) \/ ListPullRequests(w) \/ ReadYaml(w) \/ ReadYml(w)
    \/ ReadProperties(w) \/ SetProperties(w) \/ LookForOurBranch(w)
    \/ DeleteStaleBranch(w) \/ LookForDefaultBranch(w) \/ CreateOurBranch(w)
    \/ CommitFile(w) \/ OpenPullRequest(w) \/ Refused(w)

Failure(w) == CallFails(w) \/ AnswerLost(w) \/ ListingMisses(w)

Next == People \/ RunWorkflow \/ \E w \in Workers : Check(w) \/ Failure(w)

Spec == Init /\ [][Next]_vars

-----------------------------------------------------------------------------
(* What the step has to keep true.                                         *)

\* A repository whose properties are what its catalog asks for is left alone,
\* whichever of the two files the catalog is in and whatever the properties
\* are that it says nothing of (properties.go:43-75, 315-340).
RightIsLeftAlone == \A w \in settled : pc[w] \notin Writing

\* A worker about to write has in hand what the catalog asks for, unless a
\* catalog file has changed since its check began (properties.go:43-62).
WritesWhatIsAsked ==
    \A w \in faithful : pc[w] \in Writing =>
        job[w].desired = Parse(CatalogContent)

\* The branch a worker deletes has no open pull request, unless somebody else
\* wrote to the branch or its pull request after the listing
\* (properties.go:278, "if it exists but has no open PR").
DeletesOnlyStale ==
    \A w \in Workers \ disturbed : pc[w] = "delete" => Own \notin open

\* The pull request a worker opens adds one file, and a workflow in it sets
\* what the worker found the catalog to ask for, unless somebody else
\* interfered (properties.go:112-156, 222-267).
OffersWhatItRead ==
    \A w \in Workers \ disturbed : pc[w] = "openPR" =>
        /\ Own \notin open /\ added[Own] = {TargetPath}
        /\ mode = "github-action" => offered = job[w].desired

\* When the program sets the properties itself, a catalog that has not changed
\* since the check began has what it asks for, and what it does not ask for is as
\* it was: a check that follows finds nothing to do (properties.go:43-75,
\* 190-198, 315-342, 353-376).
SetsWhatIsAsked ==
    [][\A w \in faithful :
          (SetProperties(w) \/ AnswerLost(w)) /\ props' # props =>
              /\ Right'
              /\ \A name \in DOMAIN props :
                     Parse(CatalogContent)[name] = "" =>
                         props'[name] = props[name]]_vars

-----------------------------------------------------------------------------
(* Statements that PropertiesStepProofs proves and no run checks.          *)

\* A dry run writes nothing (properties.go:104, 177, 220).
WritesNothing ==
    [][\A w \in Workers : Check(w) \/ Failure(w) => UNCHANGED world]_vars

\* In github-action mode the program sets no property itself: the repository's
\* workflow does, once people have merged it (properties.go:78-84).
LeavesSettingToWorkflow ==
    [][\A w \in Workers :
          mode = "github-action" /\ (Check(w) \/ Failure(w)) =>
              props' = props]_vars

\* Nobody but the workers touches the app's branch and pull request.
UntouchedSpec ==
    /\ Init
    /\ [][\/ EditCatalog \/ RemoveWorkflow \/ SetByHand \/ RunWorkflow
          \/ \E w \in Workers : Check(w) \/ Failure(w)]_vars

\* The app's open pull request is closed only by a check whose listing has missed
\* it: a snapshot gets wrong in no other way, and whoever deletes the branch under
\* an open pull request has a wrong one (engine.go:75, properties.go:278-299).
ClosesOnlyWhatItMissed ==
    [][/\ \A w \in disturbed' \ disturbed : ListingMisses(w)
       /\ \/ open \subseteq open'
          \/ \E w \in disturbed : pc[w] = "delete"]_vars
=============================================================================
