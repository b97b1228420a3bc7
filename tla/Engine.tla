------------------------------- MODULE Engine -------------------------------
(***************************************************************************)
(* CheckRepo of internal/checker/engine.go: workers that each check the    *)
(* same repository, one GitHub call at a time, while people and the other  *)
(* workers change it.                                                      *)
(*                                                                         *)
(* A worker reads the open pull requests once, and decides by that         *)
(* snapshot: which rules somebody already works on, whether the app's own  *)
(* pull request is open, and with that whether the app's branch is a       *)
(* leftover to delete.  pc[w] names the call w makes next; the code        *)
(* between two calls is part of the step that takes the first one's reply. *)
(*                                                                         *)
(* Definitions named Bug... are the mutations that show each property can  *)
(* fail: none of them is part of the specification.                        *)
(***************************************************************************)
EXTENDS FileRules

CONSTANTS
    Workers,        \* the queue's workers, all given jobs for this repository
    App,            \* BranchName
    HasTemplate,    \* rules whose template the store has
    RepoInfos,      \* metadata GetRepository may return
    SkipForks, SkipArchived, DryRun     \* the configuration

ASSUME EngineAssumption ==
    /\ App \in Branches
    /\ HasTemplate \subseteq Rules
    /\ RepoInfos \subseteq
           [archived : BOOLEAN, fork : BOOLEAN, hasBranch : BOOLEAN]
    /\ {SkipForks, SkipArchived, DryRun} \subseteq BOOLEAN

\* No two rules create the same file.
ASSUME TargetAssumption ==
    \A r, s \in Rules : Target[r] = Target[s] => r = s

VARIABLES
    pc,         \* pc[w]: the call worker w makes next, or "idle"
    job,        \* job[w]: the local variables of w's CheckRepo
    disturbed,  \* history: workers whose snapshot of the app's branch and
                \* pull request is wrong: somebody else has since written
                \* over it, or the listing has missed the pull request
    steady      \* history: steady[w], from the beginning of w's check until it
                \* acts, the rules that nothing has happened to: one that had a
                \* file, or a pull request of others that w's listing shows,
                \* has lost none, and one that had neither still has neither

history == <<disturbed, steady>>
vars    == <<files, refs, base, added, open, others,
             pc, job, disturbed, steady>>

\* The calls made with a snapshot of the pull requests in hand.
Deciding == {"contents", "ourBranch", "delete", "defaultBranch", "create",
             "commit", "openPR"}

Calls == {"repository", "list"} \cup Deciding

Job == [at      : Rules \X (Nat \ {0}), \* the rule, and the index of its path,
                                    \* that findMissingFiles has come to
        missing : SUBSET Rules,     \* findMissingFiles' result
        todo    : SUBSET Rules,     \* missing rules not yet committed
        own     : BOOLEAN,          \* findOurPR found one in the snapshot
        others  : SUBSET Rules,     \* hasExistingPR on the snapshot
        branch  : BOOLEAN,          \* branchSHA # ""
        from    : SUBSET Path]      \* what baseSHA's tree holds

NoJob == [at |-> <<1, 1>>, missing |-> {}, todo |-> {}, own |-> FALSE,
          others |-> {}, branch |-> FALSE, from |-> {}]

TypeOK ==
    /\ RulesTypeOK
    /\ pc \in [Workers -> Calls \cup {"idle"}]
    /\ job \in [Workers -> Job]
    /\ disturbed \subseteq Workers
    /\ steady \in [Workers -> SUBSET Rules]

Init ==
    /\ RulesInit
    /\ pc = [w \in Workers |-> "idle"]
    /\ job = [w \in Workers |-> NoJob]
    /\ disturbed = {}
    /\ steady = [w \in Workers |-> {}]

-----------------------------------------------------------------------------
(* Steps that end a check, or that others have to know of.                 *)

Watchers == {w \in Workers : pc[w] \in Deciding}

\* CheckRepo returns, with an error or without; `seen' are the workers the
\* last call disturbs.
Return(w, seen) ==
    /\ pc' = [pc EXCEPT ![w] = "idle"]
    /\ job' = [job EXCEPT ![w] = NoJob]
    /\ disturbed' = (disturbed \cup seen) \ {w}
    /\ steady' = [steady EXCEPT ![w] = {}]

\* w goes on to `call' with the local variables j, having written nothing.
Continue(w, call, j) ==
    /\ pc' = [pc EXCEPT ![w] = call]
    /\ job' = [job EXCEPT ![w] = j]
    /\ UNCHANGED history

\* So too, but from here on w acts on what it has found.
Act(w, call, j) ==
    /\ pc' = [pc EXCEPT ![w] = call]
    /\ job' = [job EXCEPT ![w] = j]
    /\ steady' = [steady EXCEPT ![w] = {}]
    /\ UNCHANGED disturbed

\* w goes on to `call' after a write.
Wrote(w, call, j) ==
    /\ pc' = [pc EXCEPT ![w] = call]
    /\ job' = [job EXCEPT ![w] = j]
    /\ disturbed' = disturbed \cup (Watchers \ {w})
    /\ UNCHANGED steady

Covered(r) == Satisfied(r) \/ r \in others

\* The queue hands w a job for this repository.
Start(w) ==
    /\ pc[w] = "idle"
    /\ pc' = [pc EXCEPT ![w] = "repository"]
    /\ steady' = [steady EXCEPT ![w] = Rules]
    /\ UNCHANGED <<repo, job, disturbed>>

ShouldSkip(info) ==
    \/ SkipArchived /\ info.archived
    \/ SkipForks /\ info.fork
    \/ ~info.hasBranch

GetRepository(w) ==
    /\ pc[w] = "repository"
    /\ \E info \in RepoInfos :
          \/ ShouldSkip(info) /\ Return(w, {})
          \/ ~ShouldSkip(info) /\ Continue(w, "list", NoJob)
    /\ UNCHANGED repo

ListPullRequests(w) ==
    /\ pc[w] = "list"
    /\ LET j == [NoJob EXCEPT !.own = App \in open] IN
       Continue(w, "contents", [j EXCEPT !.others = others])
    /\ UNCHANGED repo

-----------------------------------------------------------------------------
(* findMissingFiles: every path of every rule, in order.                   *)

\* The snapshot's pull requests are not looked at.
BugHasExistingPR(j, r) == FALSE

\* A pull request for one rule's file is taken for every rule's.
BugAnyExistingPR(j, r) == j.others # {}

HasExistingPR(j, r) == r \in j.others

\* The loop runs one rule too far.
BugPastLastRule(j) == j.at[1] > NumRules

\* The loop leaves the last rule out.
BugNextToLastRule(j) == j.at[1] + 1 >= NumRules

LastRule(j) == j.at[1] = NumRules

\* On to the next rule, or to what CheckRepo does with the missing ones.
NextRule(w, missing) ==
    LET j == [job[w] EXCEPT !.missing = missing] IN
    \/ /\ ~LastRule(j)
       /\ Continue(w, "contents", [j EXCEPT !.at = <<j.at[1] + 1, 1>>])
    \/ /\ LastRule(j) /\ (missing = {} \/ DryRun)
       /\ Return(w, {})
    \/ /\ LastRule(j) /\ missing # {} /\ ~DryRun
       /\ Continue(w, "ourBranch", [j EXCEPT !.at = <<1, 1>>])

LookForFile(w) ==
    LET j == job[w]
        r == j.at[1]
        i == j.at[2]
        found == GetContents(PathsOf[r][i])
    IN
    /\ pc[w] = "contents"
    /\ \/ /\ found
          /\ NextRule(w, j.missing)
       \/ /\ ~found /\ i < Len(PathsOf[r])
          /\ Continue(w, "contents", [j EXCEPT !.at = <<r, i + 1>>])
       \/ /\ ~found /\ i = Len(PathsOf[r])
          /\ NextRule(w, IF HasExistingPR(j, r) THEN j.missing
                                                ELSE j.missing \cup {r})
    /\ UNCHANGED repo

-----------------------------------------------------------------------------
(* createOrUpdatePR.                                                       *)

\* A branch without a pull request in the snapshot is kept, not deleted.
BugStale(j) == FALSE

\* Every branch found is taken for a leftover.
BugAlwaysStale(j) == TRUE

Stale(j) == ~j.own

LookForOurBranch(w) ==
    /\ pc[w] = "ourBranch"
    /\ LET j == [job[w] EXCEPT !.branch = GetBranchSHA(App)] IN
       Act(w, IF j.branch /\ Stale(j) THEN "delete" ELSE "defaultBranch", j)
    /\ UNCHANGED repo

DeleteStaleBranch(w) ==
    /\ pc[w] = "delete"
    /\ DeleteBranch(App)
    /\ Wrote(w, "defaultBranch", [job[w] EXCEPT !.branch = FALSE])
    /\ UNCHANGED others

LookForDefaultBranch(w) ==
    /\ pc[w] = "defaultBranch"
    /\ LET j == [job[w] EXCEPT !.from = files] IN
       IF j.branch
         THEN Continue(w, "commit", [j EXCEPT !.todo = j.missing])
         ELSE Continue(w, "create", j)
    /\ UNCHANGED repo

CreateOurBranch(w) ==
    /\ pc[w] = "create"
    /\ CreateBranch(App, job[w].from)
    /\ Wrote(w, "commit", [job[w] EXCEPT !.todo = job[w].missing])
    /\ UNCHANGED others

\* The rule whose file the loop commits next.
IsNext(r, j) == r \in j.todo /\ \A s \in j.todo : r <= s

\* Only the first missing file is committed.
BugRemaining(j, r) == {}

Remaining(j, r) == j.todo \ {r}

CommitFile(w) ==
    /\ pc[w] = "commit"
    /\ \E r \in HasTemplate :
          LET j == [job[w] EXCEPT !.todo = Remaining(job[w], r)] IN
          /\ IsNext(r, job[w])
          /\ CreateOrUpdateFile(App, Target[r])
          /\ \/ j.todo # {} /\ Wrote(w, "commit", j)
             \/ j.todo = {} /\ ~j.own /\ Wrote(w, "openPR", j)
             \/ j.todo = {} /\ j.own /\ Return(w, Watchers)
    /\ UNCHANGED others

OpenPullRequest(w) ==
    /\ pc[w] = "openPR"
    /\ CreatePullRequest(App)
    /\ Return(w, Watchers)
    /\ UNCHANGED others

-----------------------------------------------------------------------------
(* Errors: CheckRepo returns at the first one, leaving what it has done.   *)

\* GitHub refuses the write, or the template store has no such template.
Refused(w) ==
    /\ \/ pc[w] = "delete" /\ ~CanDeleteBranch(App)
       \/ pc[w] = "create" /\ ~CanCreateBranch(App)
       \/ pc[w] = "commit" /\ \E r \in Rules :
              IsNext(r, job[w])
                  /\ (r \notin HasTemplate \/ ~CanCreateFile(App, Target[r]))
       \/ pc[w] = "openPR" /\ ~CanCreatePullRequest(App)
    /\ Return(w, {})
    /\ UNCHANGED repo

\* A call fails for a reason of its own (network, rate limit, the context)
\* and has done nothing.
CallFails(w) ==
    /\ pc[w] # "idle"
    /\ Return(w, {})
    /\ UNCHANGED repo

\* A write takes effect, but the answer that says so is lost.
AnswerLost(w) ==
    /\ \/ pc[w] = "delete" /\ DeleteBranch(App)
       \/ pc[w] = "create" /\ CreateBranch(App, job[w].from)
       \/ pc[w] = "commit" /\ \E r \in HasTemplate :
              IsNext(r, job[w]) /\ CreateOrUpdateFile(App, Target[r])
       \/ pc[w] = "openPR" /\ CreatePullRequest(App)
    /\ Return(w, Watchers)
    /\ UNCHANGED others

\* Pull requests, of the app or of others, are missing from the listing: one
\* that came before them closed when its page had been read, and they moved up
\* across the boundary of two pages.
ListingMisses(w) ==
    /\ pc[w] = "list"
    /\ \E own \in BOOLEAN, seen \in SUBSET others :
          LET j == [NoJob EXCEPT !.own = own] IN
          /\ own => App \in open
          /\ pc' = [pc EXCEPT ![w] = "contents"]
          /\ job' = [job EXCEPT ![w] = [j EXCEPT !.others = seen]]
          /\ steady' = [steady EXCEPT ![w] =
                            {r \in @ : Covered(r) => Satisfied(r) \/ r \in seen}]
          /\ disturbed' = IF App \in open /\ ~own THEN disturbed \cup {w}
                                                 ELSE disturbed
    /\ UNCHANGED repo

-----------------------------------------------------------------------------
(* People.                                                                 *)

\* The rules that get covered by a step.
Gained == {r \in Rules : ~Covered(r) /\ Covered(r)'}

\* They change the app's branch or its pull request.
TouchOwn ==
    /\ MergeOwn(App) \/ CloseOwn(App) \/ ReopenOwn(App) \/ DeleteOwn(App)
    /\ disturbed' = disturbed \cup Watchers
    /\ UNCHANGED <<others, pc, job>>
    /\ steady' = [w \in Workers |-> steady[w] \ Gained]

\* They add to what covers the rules.
Cover ==
    /\ \/ \E r \in Rules : OpenOther(r) \/ MergeOther(r)
       \/ (\E p \in Path : AddFile(p)) /\ UNCHANGED others
    /\ steady' = [w \in Workers |-> steady[w] \ Gained]
    /\ UNCHANGED <<pc, job, disturbed>>

\* They take away from it.  Moving a file is a removal too.
Uncover ==
    /\ \E lost \in SUBSET Rules :
          /\ \/ \E r \in Rules : CloseOther(r) /\ lost = {r}
             \/ \E p \in Path :
                    /\ RemoveFile(p) /\ UNCHANGED others
                    /\ lost = {r \in Rules : p \in Range(PathsOf[r])}
          /\ steady' = [w \in Workers |-> steady[w] \ lost]
    /\ UNCHANGED <<pc, job, disturbed>>

People == TouchOwn \/ Cover \/ Uncover

-----------------------------------------------------------------------------
Check(w) ==
    \/ Start(w) \/ GetRepository(w) \/ ListPullRequests(w) \/ LookForFile(w)
    \/ LookForOurBranch(w) \/ DeleteStaleBranch(w) \/ LookForDefaultBranch(w)
    \/ CreateOurBranch(w) \/ CommitFile(w) \/ OpenPullRequest(w) \/ Refused(w)

Failure(w) == CallFails(w) \/ AnswerLost(w) \/ ListingMisses(w)

Next == People \/ \E w \in Workers : Check(w) \/ Failure(w)

Spec == Init /\ [][Next]_vars

-----------------------------------------------------------------------------
(* What the engine has to keep true.                                       *)

\* A pull request has a branch, and what a worker believes of the app's branch
\* and pull request is the truth for as long as nobody else writes to them:
\* the snapshot of the listing, the branch lookup and the worker's own writes
\* add up (engine.go:217-275).
ViewExact ==
    /\ open \subseteq refs
    /\ \A w \in Workers \ disturbed :
        LET j == job[w] IN
        /\ pc[w] \in Deciding => (j.own <=> App \in open)
        /\ pc[w] = "delete" => App \in refs /\ ~j.own
        /\ pc[w] = "defaultBranch" =>
               (j.branch <=> App \in refs) /\ (j.branch => j.own)
        /\ pc[w] = "create" => App \notin refs
        /\ pc[w] \in {"commit", "openPR"} =>
               /\ App \in refs
               /\ j.todo \subseteq j.missing
               /\ \/ j.own
                  \/ /\ base[App] = j.from
                     /\ added[App] = {Target[r] : r \in j.missing \ j.todo}
        /\ pc[w] = "openPR" => ~j.own /\ j.todo = {}

\* A worker about to delete the app's branch closes no open pull request,
\* unless somebody else wrote to the branch or its pull request after the
\* worker's listing (engine.go:225, "branch exists but no open PR").
DeletesOnlyStale ==
    \A w \in Workers \ disturbed : pc[w] = "delete" => App \notin open

\* The pull request a worker opens offers the files the worker found missing,
\* all of them and nothing left from an earlier attempt, unless somebody else
\* interfered (engine.go:226-275).
OffersWhatIsMissing ==
    [][\A w \in Workers \ disturbed :
          pc[w] = "openPR" /\ App \notin open /\ App \in open' =>
              added[App] = {Target[r] : r \in job[w].missing}]_vars

\* The commits to a branch that an undisturbed worker has cut itself are accepted,
\* however the previous attempts ended: GitHub has a reason to refuse one only if
\* the default branch had the file already when the worker looked its head up,
\* because somebody added it after the search (engine.go:236-266).
OwnBranchTakesCommits ==
    \A w \in Workers \ disturbed :
        \A r \in Rules : pc[w] = "commit" /\ ~job[w].own /\ IsNext(r, job[w]) =>
            CanCreateFile(App, Target[r]) \/ Target[r] \in job[w].from

\* A rule that had a file or somebody's pull request all through a worker's
\* search is not reported missing, even if that pull request is merged while
\* the worker searches: the pull requests are listed before the files are
\* looked for (engine.go:75-80, 130-143).
CoveredIsNotMissing ==
    \A w \in Workers : \A r \in steady[w] :
        Covered(r) => r \notin job[w].missing

\* A rule that had neither all through the search is found missing, and the
\* check goes on to offer it: nothing is overlooked by the loop over the rules
\* and their paths, nor for a pull request that concerns another rule
\* (engine.go:80-92, 127-148, 171-206).
UncoveredIsMissing ==
    [][\A w \in Workers :
          LookForFile(w) /\ pc'[w] # "contents" /\ ~DryRun =>
              \A r \in steady[w] :
                  \/ Covered(r)
                  \/ pc'[w] = "ourBranch" /\ r \in job'[w].missing]_vars

-----------------------------------------------------------------------------
(* Statements about configurations no run has: see EngineStepProofs.       *)

\* A dry run writes nothing (engine.go:88, config.go DryRun).
WritesNothing ==
    [][\A w \in Workers : Check(w) \/ Failure(w) => UNCHANGED repo]_vars

\* A pull request is opened only if there was a template for every rule found
\* missing: without one of them the check fails, and none is offered
\* (engine.go:256-260).
OffersOnlyTemplates ==
    \A w \in Workers : pc[w] = "openPR" => job[w].missing \subseteq HasTemplate

\* Nobody but the workers touches the app's branch and pull request.
UntouchedSpec ==
    /\ Init
    /\ [][Cover \/ Uncover \/ \E w \in Workers : Check(w) \/ Failure(w)]_vars

\* The app's open pull request is closed only by a check whose listing has missed
\* it: a snapshot gets wrong in no other way, and whoever deletes the branch under
\* an open pull request has a wrong one (engine.go:75, 225-231).
ClosesOnlyWhatItMissed ==
    [][/\ \A w \in disturbed' \ disturbed :
             ListingMisses(w) /\ App \in open /\ ~job'[w].own
       /\ \/ open \subseteq open'
          \/ \E w \in disturbed : pc[w] = "delete"]_vars

\* engine.go:225 and 227: the branch the engine deletes has no open pull
\* request, it is left over "from previously closed PR".  So with nobody else
\* around, a pull request of the app stays open.
NeverClosesOwnPR == [][open \subseteq open']_vars
=============================================================================
