---------------------------- MODULE EngineProofs ----------------------------
(***************************************************************************)
(* Proofs about Engine, for any number of workers, rules and paths.        *)
(***************************************************************************)
EXTENDS Engine, TLAPS

USE DEF Rules

-----------------------------------------------------------------------------
(* Types.                                                                  *)

LEMMA NoJobType == NoJob \in Job
  <1>1. NumRules \in Nat \ {0}
    BY RulesAssumption
  <1> QED BY <1>1 DEF NoJob, Job

LEMMA PathsType ==
  ASSUME NEW r \in Rules
  PROVE  /\ PathsOf[r] \in Seq(Path) /\ PathsOf[r] # <<>>
         /\ Range(PathsOf[r]) \subseteq Path
         /\ Target[r] \in Path
  <1>1. PathsOf[r] \in Seq(Path) /\ PathsOf[r] # <<>> /\ Target[r] \in Path
    BY RulesAssumption
  <1>2. \A i \in DOMAIN PathsOf[r] : PathsOf[r][i] \in Path
    BY <1>1
  <1> QED BY <1>1, <1>2 DEF Range

\* The ways a worker's step ends.
LEMMA ReturnType ==
  ASSUME TypeOK, NEW w \in Workers, NEW seen \in SUBSET Workers,
         Return(w, seen)
  PROVE  /\ pc' \in [Workers -> Calls \cup {"idle"}]
         /\ job' \in [Workers -> Job]
         /\ disturbed' \subseteq Workers
         /\ steady' \in [Workers -> SUBSET Rules]
  BY NoJobType DEF TypeOK, Return

LEMMA ContinueType ==
  ASSUME TypeOK, NEW w \in Workers, NEW call \in Calls, NEW j \in Job,
         Continue(w, call, j)
  PROVE  /\ pc' \in [Workers -> Calls \cup {"idle"}]
         /\ job' \in [Workers -> Job]
         /\ disturbed' \subseteq Workers
         /\ steady' \in [Workers -> SUBSET Rules]
  BY DEF TypeOK, Continue, history

LEMMA ActType ==
  ASSUME TypeOK, NEW w \in Workers, NEW call \in Calls, NEW j \in Job,
         Act(w, call, j)
  PROVE  /\ pc' \in [Workers -> Calls \cup {"idle"}]
         /\ job' \in [Workers -> Job]
         /\ disturbed' \subseteq Workers
         /\ steady' \in [Workers -> SUBSET Rules]
  BY DEF TypeOK, Act

LEMMA WroteType ==
  ASSUME TypeOK, NEW w \in Workers, NEW call \in Calls, NEW j \in Job,
         Wrote(w, call, j)
  PROVE  /\ pc' \in [Workers -> Calls \cup {"idle"}]
         /\ job' \in [Workers -> Job]
         /\ disturbed' \subseteq Workers
         /\ steady' \in [Workers -> SUBSET Rules]
  BY DEF TypeOK, Wrote, Watchers

\* The writes keep the repository's types.
LEMMA WritesType ==
  ASSUME TypeOK, UNCHANGED others,
         \/ DeleteBranch(App)
         \/ \E from \in SUBSET Path : CreateBranch(App, from)
         \/ \E p \in Path : CreateOrUpdateFile(App, p)
         \/ CreatePullRequest(App)
  PROVE  RulesTypeOK'
  <1> USE EngineAssumption DEF TypeOK, RulesTypeOK, RepoTypeOK
  <1>1. CASE DeleteBranch(App)
    BY <1>1 DEF DeleteBranch
  <1>2. CASE \E from \in SUBSET Path : CreateBranch(App, from)
    BY <1>2 DEF CreateBranch
  <1>3. CASE \E p \in Path : CreateOrUpdateFile(App, p)
    BY <1>3 DEF CreateOrUpdateFile
  <1>4. CASE CreatePullRequest(App)
    BY <1>4 DEF CreatePullRequest
  <1> QED BY <1>1, <1>2, <1>3, <1>4

LEMMA PeopleType ==
  ASSUME TypeOK, People
  PROVE  TypeOK'
  <1>1. CASE TouchOwn
    <2>1. RulesTypeOK'
      <3>1. CASE MergeOwn(App)
        BY <1>1, <3>1, EngineAssumption
        DEF TypeOK, RulesTypeOK, RepoTypeOK, TouchOwn, MergeOwn
      <3>2. CASE CloseOwn(App)
        BY <1>1, <3>2, EngineAssumption
        DEF TypeOK, RulesTypeOK, RepoTypeOK, TouchOwn, CloseOwn
      <3>3. CASE ReopenOwn(App)
        BY <1>1, <3>3, WritesType DEF TouchOwn, ReopenOwn
      <3>4. CASE DeleteOwn(App)
        BY <1>1, <3>4, WritesType DEF TouchOwn, DeleteOwn
      <3> QED BY <1>1, <3>1, <3>2, <3>3, <3>4 DEF TouchOwn
    <2> QED BY <1>1, <2>1 DEF TypeOK, TouchOwn, Watchers
  <1>2. CASE Cover
    <2>1. RulesTypeOK'
      BY <1>2, PathsType
      DEF TypeOK, RulesTypeOK, RepoTypeOK, Cover, OpenOther, MergeOther,
          AddFile, ownRefs
    <2> QED BY <1>2, <2>1 DEF TypeOK, Cover
  <1>3. CASE Uncover
    <2>1. RulesTypeOK'
      BY <1>3
      DEF TypeOK, RulesTypeOK, RepoTypeOK, Uncover, CloseOther, RemoveFile,
          ownRefs
    <2> QED BY <1>3, <2>1 DEF TypeOK, Uncover
  <1> QED BY <1>1, <1>2, <1>3 DEF People

LEMMA NextRuleType ==
  ASSUME TypeOK, NEW w \in Workers, NEW missing \in SUBSET Rules,
         NextRule(w, missing), UNCHANGED repo
  PROVE  TypeOK'
  <1> DEFINE j == [job[w] EXCEPT !.missing = missing]
  <1>1. j \in Job
    <2>1. job[w] \in Job
      BY DEF TypeOK
    <2> QED BY <2>1 DEF Job
  <1> HIDE DEF j
  <1>2. RulesTypeOK'
    BY DEF TypeOK, RulesTypeOK, RepoTypeOK, repo
  <1>3. CASE ~LastRule(j) /\ Continue(w, "contents", [j EXCEPT !.at = <<j.at[1] + 1, 1>>])
    <2>1. j.at[1] + 1 \in Rules
      BY <1>1, <1>3, RulesAssumption DEF LastRule, Job
    <2>2. [j EXCEPT !.at = <<j.at[1] + 1, 1>>] \in Job
      BY <1>1, <2>1 DEF Job
    <2> QED BY <1>2, <1>3, <2>2, ContinueType DEF TypeOK, Calls, Deciding
  <1>4. CASE Return(w, {})
    BY <1>2, <1>4, ReturnType DEF TypeOK
  <1>5. CASE Continue(w, "ourBranch", [j EXCEPT !.at = <<1, 1>>])
    <2>1. 1 \in Rules
      BY RulesAssumption
    <2>2. [j EXCEPT !.at = <<1, 1>>] \in Job
      BY <1>1, <2>1 DEF Job
    <2> QED BY <1>2, <1>5, <2>2, ContinueType DEF TypeOK, Calls, Deciding
  <1> QED BY <1>3, <1>4, <1>5 DEF NextRule, j

\* One step for each action.
LEMMA CheckType ==
  ASSUME TypeOK, NEW w \in Workers, Check(w)
  PROVE  TypeOK'
  <1>1. job[w] \in Job /\ NoJob \in Job
    BY NoJobType DEF TypeOK
  <1>2. (UNCHANGED repo) => RulesTypeOK'
    BY DEF TypeOK, RulesTypeOK, RepoTypeOK, repo
  <1>3. Watchers \in SUBSET Workers
    BY DEF Watchers
  <1>4. Deciding \subseteq Calls /\ {"repository", "list"} \subseteq Calls
    BY DEF Calls
  <1>5. CASE Start(w)
    BY <1>2, <1>4, <1>5 DEF Start, TypeOK
  <1>6. CASE GetRepository(w)
    <2>1. Return(w, {}) \/ Continue(w, "list", NoJob)
      BY <1>6 DEF GetRepository
    <2> QED BY <1>1, <1>2, <1>4, <1>6, <2>1, ReturnType, ContinueType
            DEF GetRepository, TypeOK
  <1>7. CASE ListPullRequests(w)
    <2> DEFINE i == [NoJob EXCEPT !.own = App \in open]
               j == [i EXCEPT !.others = others]
    <2>1. j \in Job
      <3>1. (App \in open) \in BOOLEAN
        OBVIOUS
      <3>2. i \in Job
        BY <1>1, <3>1 DEF Job
      <3> QED BY <3>2 DEF Job, TypeOK, RulesTypeOK, RepoTypeOK
    <2>2. Continue(w, "contents", j)
      BY <1>7 DEF ListPullRequests
    <2> QED BY <1>2, <1>4, <1>7, <2>1, <2>2, ContinueType
            DEF ListPullRequests, TypeOK, Deciding
  <1>8. CASE LookForFile(w)
    <2>1. CASE \E missing \in SUBSET Rules : NextRule(w, missing)
      BY <1>8, <2>1, NextRuleType DEF LookForFile
    <2> DEFINE j == [job[w] EXCEPT !.at = <<job[w].at[1], job[w].at[2] + 1>>]
    <2>2. CASE Continue(w, "contents", j)
      <3>1. j \in Job
        BY <1>1 DEF Job
      <3> QED BY <1>2, <1>4, <1>8, <2>2, <3>1, ContinueType
              DEF LookForFile, TypeOK, Deciding
    <2>3. job[w].missing \in SUBSET Rules /\ job[w].at[1] \in Rules
      BY <1>1 DEF Job
    <2> QED BY <1>8, <2>1, <2>2, <2>3 DEF LookForFile
  <1>9. CASE LookForOurBranch(w)
    <2> DEFINE j == [job[w] EXCEPT !.branch = GetBranchSHA(App)]
    <2>1. j \in Job
      <3>1. GetBranchSHA(App) \in BOOLEAN
        BY DEF GetBranchSHA
      <3> QED BY <1>1, <3>1 DEF Job
    <2>2. Act(w, "delete", j) \/ Act(w, "defaultBranch", j)
      BY <1>9 DEF LookForOurBranch
    <2> QED BY <1>2, <1>4, <1>9, <2>1, <2>2, ActType
            DEF LookForOurBranch, TypeOK, Deciding
  <1>10. CASE DeleteStaleBranch(w)
    <2>1. [job[w] EXCEPT !.branch = FALSE] \in Job
      BY <1>1 DEF Job
    <2> QED BY <1>4, <1>10, <2>1, WroteType, WritesType
            DEF DeleteStaleBranch, TypeOK, Deciding
  <1>11. CASE LookForDefaultBranch(w)
    <2> DEFINE j == [job[w] EXCEPT !.from = files]
    <2>1. j \in Job /\ [j EXCEPT !.todo = j.missing] \in Job
      BY <1>1 DEF Job, TypeOK, RulesTypeOK, RepoTypeOK
    <2>2. \/ Continue(w, "commit", [j EXCEPT !.todo = j.missing])
          \/ Continue(w, "create", j)
      BY <1>11 DEF LookForDefaultBranch
    <2> QED BY <1>2, <1>4, <1>11, <2>1, <2>2, ContinueType
            DEF LookForDefaultBranch, TypeOK, Deciding
  <1>12. CASE CreateOurBranch(w)
    <2>1. /\ job[w].from \in SUBSET Path
          /\ [job[w] EXCEPT !.todo = job[w].missing] \in Job
      BY <1>1 DEF Job
    <2> QED BY <1>4, <1>12, <2>1, WroteType, WritesType
            DEF CreateOurBranch, TypeOK, Deciding
  <1>13. CASE CommitFile(w)
    <2>1. PICK r \in HasTemplate :
             LET j == [job[w] EXCEPT !.todo = Remaining(job[w], r)] IN
             /\ CreateOrUpdateFile(App, Target[r])
             /\ \/ Wrote(w, "commit", j) \/ Wrote(w, "openPR", j)
                \/ Return(w, Watchers)
      BY <1>13 DEF CommitFile
    <2>2. r \in Rules /\ Target[r] \in Path
      BY EngineAssumption, PathsType
    <2>3. [job[w] EXCEPT !.todo = Remaining(job[w], r)] \in Job
      BY <1>1 DEF Job, Remaining
    <2>4. RulesTypeOK'
      BY <1>13, <2>1, <2>2, WritesType DEF CommitFile
    <2> QED BY <1>3, <1>4, <2>1, <2>3, <2>4, WroteType, ReturnType
            DEF TypeOK, Deciding
  <1>14. CASE OpenPullRequest(w)
    BY <1>3, <1>14, ReturnType, WritesType DEF OpenPullRequest, TypeOK
  <1>15. CASE Refused(w)
    BY <1>2, <1>15, ReturnType DEF Refused, TypeOK
  <1> QED BY <1>5, <1>6, <1>7, <1>8, <1>9, <1>10, <1>11, <1>12, <1>13, <1>14,
             <1>15 DEF Check

LEMMA FailureType ==
  ASSUME TypeOK, NEW w \in Workers, Failure(w)
  PROVE  TypeOK'
  <1>1. CASE CallFails(w)
    BY <1>1, ReturnType DEF CallFails, TypeOK, RulesTypeOK, RepoTypeOK, repo
  <1>2. CASE AnswerLost(w)
    <2>1. Watchers \in SUBSET Workers /\ job[w].from \in SUBSET Path
      BY DEF Watchers, TypeOK, Job
    <2>2. \A r \in HasTemplate : Target[r] \in Path
      BY EngineAssumption, PathsType
    <2>3. RulesTypeOK'
      BY <1>2, <2>1, <2>2, WritesType DEF AnswerLost
    <2> QED BY <1>2, <2>1, <2>3, ReturnType DEF AnswerLost, TypeOK
  <1>3. CASE ListingMisses(w)
    <2>1. PICK own \in BOOLEAN, seen \in SUBSET others :
             /\ pc' = [pc EXCEPT ![w] = "contents"]
             /\ job' = [job EXCEPT ![w] =
                           [[NoJob EXCEPT !.own = own] EXCEPT !.others = seen]]
             /\ steady' = [steady EXCEPT ![w] =
                               {r \in @ : Covered(r) => Satisfied(r) \/ r \in seen}]
             /\ disturbed' \in {disturbed, disturbed \cup {w}}
             /\ UNCHANGED repo
      BY <1>3 DEF ListingMisses
    <2> DEFINE i == [NoJob EXCEPT !.own = own]
               j == [i EXCEPT !.others = seen]
    <2>2. i \in Job
      BY NoJobType DEF Job
    <2>3. j \in Job
      BY <2>2 DEF Job, TypeOK, RulesTypeOK
    <2> HIDE DEF j
    <2>4. job' = [job EXCEPT ![w] = j]
      BY <2>1 DEF j
    <2> QED BY <2>1, <2>3, <2>4
            DEF TypeOK, RulesTypeOK, RepoTypeOK, repo, Calls, Deciding
  <1> QED BY <1>1, <1>2, <1>3 DEF Failure

\* Every variable has its type, in every reachable state.
THEOREM TypeCorrect == Spec => []TypeOK
  <1>1. Init => TypeOK
    BY NoJobType DEF Init, RulesInit, RepoInit, TypeOK, RulesTypeOK, RepoTypeOK
  <1>2. TypeOK /\ [Next]_vars => TypeOK'
    <2> SUFFICES ASSUME TypeOK, [Next]_vars PROVE TypeOK'
      OBVIOUS
    <2>1. CASE Next
      BY <2>1, PeopleType, CheckType, FailureType DEF Next
    <2>2. CASE UNCHANGED vars
      BY <2>2 DEF TypeOK, RulesTypeOK, RepoTypeOK, vars
    <2> QED BY <2>1, <2>2
  <1> QED BY <1>1, <1>2, PTL DEF Spec

-----------------------------------------------------------------------------
(* ViewExact: what an undisturbed worker believes is the truth.            *)

\* What one worker has to be right about.
View(w) ==
    LET j == job[w] IN
    /\ pc[w] \in Deciding => (j.own <=> App \in open)
    /\ pc[w] = "delete" => App \in refs /\ ~j.own
    /\ pc[w] = "defaultBranch" =>
           (j.branch <=> App \in refs) /\ (j.branch => j.own)
    /\ pc[w] = "create" => App \notin refs
    /\ pc[w] \in {"commit", "openPR"} =>
           /\ App \in refs
           /\ j.todo \subseteq j.missing
           /\ \/ j.own
              \/ /\ base[App] = j.from
                 /\ added[App] = {Target[r] : r \in j.missing \ j.todo}
    /\ pc[w] = "openPR" => ~j.own /\ j.todo = {}

LEMMA ViewExactIs ==
  ViewExact <=> open \subseteq refs /\ \A w \in Workers \ disturbed : View(w)
  BY DEF ViewExact, View

\* A step that leaves the repository alone disturbs no view but the view of
\* the worker that takes it.
LEMMA ReadersKeep ==
  ASSUME TypeOK, ViewExact, NEW w \in Workers, UNCHANGED repo,
         disturbed' \cup {w} = disturbed \cup {w},
         \A v \in Workers \ {w} : pc'[v] = pc[v] /\ job'[v] = job[v],
         w \notin disturbed' => View(w)'
  PROVE  ViewExact'
  BY ViewExactIs DEF repo, View, ViewExact

\* A step that writes to the app's branch or pull request spoils every view
\* but the writer's own.
LEMMA WritersKeep ==
  ASSUME TypeOK, NEW w \in Workers, (open \subseteq refs)',
         Watchers \ {w} \subseteq disturbed',
         \A v \in Workers \ {w} : pc'[v] = pc[v],
         w \notin disturbed' => View(w)'
  PROVE  ViewExact'
  BY ViewExactIs DEF Watchers, View, ViewExact, Deciding

LEMMA IdleView ==
  ASSUME TypeOK, ViewExact, NEW w \in Workers, UNCHANGED repo,
         NEW seen \in SUBSET {w}, Return(w, seen)
  PROVE  ViewExact'
  <1>1. View(w)'
    BY DEF Return, View, TypeOK, Deciding
  <1> QED BY <1>1, ReadersKeep DEF Return, TypeOK

\* A step that only reads goes on with a view that has to be right.
LEMMA ReadView ==
  ASSUME TypeOK, ViewExact, NEW w \in Workers, UNCHANGED repo,
         NEW call, NEW j, Continue(w, call, j),
         w \notin disturbed => View(w)'
  PROVE  ViewExact'
  BY ReadersKeep DEF Continue, history, TypeOK

LEMMA NextRuleView ==
  ASSUME TypeOK, ViewExact, NEW w \in Workers, UNCHANGED repo,
         pc[w] = "contents", NEW missing, NextRule(w, missing)
  PROVE  ViewExact'
  <1> DEFINE j == [job[w] EXCEPT !.missing = missing]
  <1>1. job[w] \in Job
    BY DEF TypeOK
  <1>2. j.own = job[w].own
    BY <1>1 DEF Job
  <1>3. \A at : [j EXCEPT !.at = at].own = job[w].own
    BY <1>1, <1>2 DEF Job
  <1> HIDE DEF j
  <1>4. ASSUME NEW call \in {"contents", "ourBranch"}, NEW at,
               Continue(w, call, [j EXCEPT !.at = at])
        PROVE  ViewExact'
    <2>1. pc'[w] = call /\ job'[w].own = job[w].own
      BY <1>3, <1>4 DEF Continue, TypeOK
    <2>2. w \notin disturbed => View(w)'
      BY <2>1, ViewExactIs DEF View, Deciding, repo
    <2> QED BY <1>4, <2>2, ReadView
  <1> QED BY <1>4, IdleView DEF NextRule, j

LEMMA CheckView ==
  ASSUME TypeOK, ViewExact, NEW w \in Workers, Check(w)
  PROVE  ViewExact'
  <1>1. job[w] \in Job /\ NoJob \in Job
    BY NoJobType DEF TypeOK
  <1>2. w \notin disturbed => View(w)
    BY ViewExactIs
  <1>3. App \in Branches /\ open \subseteq refs
    BY EngineAssumption DEF ViewExact
  <1>4. CASE Start(w)
    <2>1. View(w)'
      BY <1>4 DEF Start, View, TypeOK, Deciding
    <2> QED BY <1>4, <2>1, ReadersKeep DEF Start, TypeOK
  <1>5. CASE GetRepository(w)
    <2>1. CASE Return(w, {})
      BY <1>5, <2>1, IdleView DEF GetRepository
    <2>2. CASE Continue(w, "list", NoJob)
      <3>1. View(w)'
        BY <2>2 DEF Continue, View, TypeOK, Deciding
      <3> QED BY <1>5, <2>2, <3>1, ReadView DEF GetRepository
    <2> QED BY <1>5, <2>1, <2>2 DEF GetRepository
  <1>6. CASE ListPullRequests(w)
    <2> DEFINE i == [NoJob EXCEPT !.own = App \in open]
               j == [i EXCEPT !.others = others]
    <2>1. Continue(w, "contents", j)
      BY <1>6 DEF ListPullRequests
    <2>2. j.own = (App \in open)
      <3> DEFINE b == App \in open
      <3>1. b \in BOOLEAN
        OBVIOUS
      <3> HIDE DEF b
      <3>2. [NoJob EXCEPT !.own = b] \in Job
            /\ [NoJob EXCEPT !.own = b].own = b
        BY <1>1, <3>1 DEF Job
      <3>3. [[NoJob EXCEPT !.own = b] EXCEPT !.others = others].own = b
        BY <3>2 DEF Job
      <3> QED BY <3>3 DEF b
    <2>3. View(w)'
      BY <1>6, <2>1, <2>2 DEF ListPullRequests, Continue, View, TypeOK, Deciding, repo
    <2> QED BY <1>6, <2>1, <2>3, ReadView DEF ListPullRequests
  <1>7. CASE LookForFile(w)
    <2>1. CASE \E missing : NextRule(w, missing)
      BY <1>7, <2>1, NextRuleView DEF LookForFile
    <2> DEFINE j == [job[w] EXCEPT !.at = <<job[w].at[1], job[w].at[2] + 1>>]
    <2>2. CASE Continue(w, "contents", j)
      <3>1. j.own = job[w].own
        BY <1>1 DEF Job
      <3>2. w \notin disturbed => View(w)'
        BY <1>2, <1>7, <2>2, <3>1
        DEF LookForFile, Continue, View, TypeOK, Deciding, repo
      <3> QED BY <1>7, <2>2, <3>2, ReadView DEF LookForFile
    <2> QED BY <1>7, <2>1, <2>2 DEF LookForFile
  <1>8. CASE LookForOurBranch(w)
    <2> DEFINE j == [job[w] EXCEPT !.branch = GetBranchSHA(App)]
    <2>1. j.own = job[w].own /\ j.branch = (App \in refs)
      BY <1>1 DEF Job, GetBranchSHA
    <2>2. Act(w, IF j.branch /\ ~j.own THEN "delete" ELSE "defaultBranch", j)
      BY <1>8 DEF LookForOurBranch, Stale
    <2> HIDE DEF j
    <2>3. w \notin disturbed => View(w)'
      BY <1>2, <1>8, <2>1, <2>2
      DEF LookForOurBranch, Act, View, TypeOK, Deciding, repo
    <2> QED BY <1>8, <2>2, <2>3, ReadersKeep DEF LookForOurBranch, Act, TypeOK
  <1>9. CASE DeleteStaleBranch(w)
    <2>1. [job[w] EXCEPT !.branch = FALSE].branch = FALSE
          /\ [job[w] EXCEPT !.branch = FALSE].own = job[w].own
      BY <1>1 DEF Job
    <2>2. pc'[w] = "defaultBranch" /\ ~job'[w].branch
          /\ job'[w].own = job[w].own
      BY <1>9, <2>1 DEF DeleteStaleBranch, Wrote, TypeOK
    <2>3. App \notin refs' /\ App \notin open' /\ (open \subseteq refs)'
      BY <1>3, <1>9 DEF DeleteStaleBranch, DeleteBranch
    <2>4. w \notin disturbed' => View(w)'
      BY <1>2, <1>9, <2>2, <2>3 DEF DeleteStaleBranch, Wrote, View, Deciding
    <2> QED BY <1>9, <2>3, <2>4, WritersKeep
            DEF DeleteStaleBranch, Wrote, TypeOK
  <1>10. CASE LookForDefaultBranch(w)
    <2> DEFINE j == [job[w] EXCEPT !.from = files]
               k == [j EXCEPT !.todo = j.missing]
    <2>1. /\ j \in Job /\ j.own = job[w].own /\ j.branch = job[w].branch
      BY <1>1 DEF Job, TypeOK, RulesTypeOK, RepoTypeOK
    <2>2. k.own = j.own /\ k.missing = j.missing /\ k.todo = j.missing
      BY <2>1 DEF Job
    <2>3. IF j.branch THEN Continue(w, "commit", k)
                      ELSE Continue(w, "create", j)
      BY <1>10 DEF LookForDefaultBranch
    <2> HIDE DEF j, k
    <2>4. w \notin disturbed => View(w)'
      <3>1. CASE Continue(w, "commit", k) /\ j.branch
        BY <1>2, <1>10, <2>1, <2>2, <3>1
        DEF LookForDefaultBranch, Continue, View, TypeOK, Deciding, repo
      <3>2. CASE Continue(w, "create", j) /\ ~j.branch
        BY <1>2, <1>10, <2>1, <3>2
        DEF LookForDefaultBranch, Continue, View, TypeOK, Deciding, repo
      <3> QED BY <2>1, <2>3, <3>1, <3>2 DEF Job
    <2> QED BY <1>10, <2>3, <2>4, ReadView DEF LookForDefaultBranch
  <1>11. CASE CreateOurBranch(w)
    <2> DEFINE j == [job[w] EXCEPT !.todo = job[w].missing]
    <2>1. j.own = job[w].own /\ j.missing = j.todo /\ j.from = job[w].from
      BY <1>1 DEF Job
    <2>2. pc'[w] = "commit" /\ job'[w] = j
      BY <1>11 DEF CreateOurBranch, Wrote, TypeOK
    <2> HIDE DEF j
    <2>3. /\ App \in refs' /\ open' = open
          /\ added'[App] = {} /\ base'[App] = job[w].from
          /\ (open \subseteq refs)'
      BY <1>3, <1>11 DEF CreateOurBranch, CreateBranch, TypeOK, RulesTypeOK, RepoTypeOK
    <2>4. w \notin disturbed' => View(w)'
      BY <1>2, <1>11, <2>1, <2>2, <2>3
      DEF CreateOurBranch, Wrote, View, Deciding
    <2> QED BY <1>11, <2>3, <2>4, WritersKeep DEF CreateOurBranch, Wrote, TypeOK
  <1>12. CASE CommitFile(w)
    <2>1. PICK r \in HasTemplate :
             LET j == [job[w] EXCEPT !.todo = Remaining(job[w], r)] IN
             /\ pc[w] = "commit" /\ IsNext(r, job[w])
             /\ CreateOrUpdateFile(App, Target[r])
             /\ \/ j.todo # {} /\ Wrote(w, "commit", j)
                \/ j.todo = {} /\ ~j.own /\ Wrote(w, "openPR", j)
                \/ j.todo = {} /\ j.own /\ Return(w, Watchers)
      BY <1>12 DEF CommitFile
    <2> DEFINE j == [job[w] EXCEPT !.todo = Remaining(job[w], r)]
    <2>2. /\ j.own = job[w].own /\ j.missing = job[w].missing
          /\ j.from = job[w].from
          /\ j.todo = job[w].todo \ {r} /\ r \in job[w].todo
      BY <1>1, <2>1 DEF Job, Remaining, IsNext
    <2> HIDE DEF j
    <2>3. /\ added'[App] = added[App] \cup {Target[r]} /\ refs' = refs
          /\ base' = base /\ open' = open
      BY <1>3, <2>1 DEF CreateOrUpdateFile, TypeOK, RulesTypeOK, RepoTypeOK
    <2>4. CASE Return(w, Watchers)
      <3>1. View(w)'
        BY <2>4 DEF Return, View, TypeOK, Deciding
      <3> QED BY <1>3, <2>3, <2>4, <3>1, WritersKeep DEF Return, TypeOK
    <2>5. CASE \/ Wrote(w, "commit", j)
               \/ j.todo = {} /\ ~j.own /\ Wrote(w, "openPR", j)
      <3>1. /\ job'[w] = j /\ pc'[w] \in {"commit", "openPR"}
            /\ pc'[w] = "openPR" => ~j.own /\ j.todo = {}
            /\ disturbed' = disturbed \cup (Watchers \ {w})
        BY <2>5 DEF Wrote, TypeOK
      <3>2. w \notin disturbed' => View(w)'
        BY <1>2, <2>1, <2>2, <2>3, <3>1 DEF View, Deciding
      <3> QED BY <1>3, <2>3, <2>5, <3>1, <3>2, WritersKeep DEF Wrote, TypeOK
    <2> QED BY <2>1, <2>4, <2>5 DEF j
  <1>13. CASE OpenPullRequest(w)
    <2>1. View(w)'
      BY <1>13 DEF OpenPullRequest, Return, View, TypeOK, Deciding
    <2>2. (open \subseteq refs)'
      BY <1>3, <1>13
      DEF OpenPullRequest, CreatePullRequest, CanCreatePullRequest
    <2> QED BY <1>13, <2>1, <2>2, WritersKeep
            DEF OpenPullRequest, Return, TypeOK
  <1>14. CASE Refused(w)
    BY <1>14, IdleView DEF Refused
  <1> QED BY <1>4, <1>5, <1>6, <1>7, <1>8, <1>9, <1>10, <1>11, <1>12, <1>13,
             <1>14 DEF Check

LEMMA FailureView ==
  ASSUME TypeOK, ViewExact, NEW w \in Workers, Failure(w)
  PROVE  ViewExact'
  <1>1. CASE CallFails(w)
    BY <1>1, IdleView DEF CallFails
  <1>2. CASE AnswerLost(w)
    <2>1. View(w)'
      BY <1>2 DEF AnswerLost, Return, View, TypeOK, Deciding
    <2>2. (open \subseteq refs)'
      BY <1>2
      DEF AnswerLost, ViewExact, DeleteBranch, CreateBranch,
          CreateOrUpdateFile, CreatePullRequest, CanCreatePullRequest
    <2> QED BY <1>2, <2>1, <2>2, WritersKeep DEF AnswerLost, Return, TypeOK
  <1>3. CASE ListingMisses(w)
    <2>1. PICK own \in BOOLEAN, seen \in SUBSET others :
             /\ own => App \in open
             /\ pc' = [pc EXCEPT ![w] = "contents"]
             /\ job' = [job EXCEPT ![w] =
                           [[NoJob EXCEPT !.own = own] EXCEPT !.others = seen]]
             /\ disturbed' = IF App \in open /\ ~own THEN disturbed \cup {w}
                                                   ELSE disturbed
             /\ UNCHANGED repo
      BY <1>3 DEF ListingMisses
    <2> DEFINE i == [NoJob EXCEPT !.own = own]
               j == [i EXCEPT !.others = seen]
    <2>2. i \in Job /\ i.own = own
      BY NoJobType DEF Job
    <2>3. j.own = own
      BY <2>2 DEF Job
    <2> HIDE DEF j
    <2>4. job' = [job EXCEPT ![w] = j]
      BY <2>1 DEF j
    <2>5. w \notin disturbed' => View(w)'
      BY <2>1, <2>3, <2>4 DEF View, TypeOK, Deciding, repo
    <2>6. /\ disturbed' \cup {w} = disturbed \cup {w}
          /\ \A v \in Workers \ {w} : pc'[v] = pc[v] /\ job'[v] = job[v]
      BY <2>1, <2>4 DEF TypeOK
    <2> QED BY <2>1, <2>5, <2>6, ReadersKeep
  <1> QED BY <1>1, <1>2, <1>3 DEF Failure

LEMMA PeopleView ==
  ASSUME TypeOK, ViewExact, People
  PROVE  ViewExact'
  <1>1. CASE TouchOwn
    <2>1. (open \subseteq refs)'
      BY <1>1
      DEF TouchOwn, ViewExact, MergeOwn, CloseOwn, ReopenOwn, DeleteOwn,
          CreatePullRequest, CanCreatePullRequest, DeleteBranch
    <2>2. Watchers \subseteq disturbed' /\ pc' = pc
      BY <1>1 DEF TouchOwn
    <2> QED BY <2>1, <2>2 DEF ViewExact, Watchers, Deciding
  <1>2. CASE Cover \/ Uncover
    <2>1. UNCHANGED <<ownRefs, pc, job, disturbed>>
      BY <1>2
      DEF Cover, Uncover, OpenOther, MergeOther, AddFile, CloseOther,
          RemoveFile
    <2> QED BY <2>1 DEF ViewExact, ownRefs
  <1> QED BY <1>1, <1>2 DEF People

\* However many workers check the repository and whatever people do to it
\* meanwhile, what an undisturbed worker believes of the app's branch and pull
\* request is the truth.
THEOREM ViewIsExact == Spec => []ViewExact
  <1>1. Init => ViewExact
    BY DEF Init, RulesInit, RepoInit, ViewExact, Deciding
  <1>2. TypeOK /\ ViewExact /\ [Next]_vars => ViewExact'
    <2> SUFFICES ASSUME TypeOK, ViewExact, [Next]_vars PROVE ViewExact'
      OBVIOUS
    <2>1. CASE Next
      BY <2>1, PeopleView, CheckView, FailureView DEF Next
    <2>2. CASE UNCHANGED vars
      BY <2>2 DEF ViewExact, vars
    <2> QED BY <2>1, <2>2
  <1> QED BY <1>1, <1>2, TypeCorrect, PTL DEF Spec

\* The engine deletes its branch only while no pull request is open from it,
\* unless somebody else has interfered since it listed the pull requests.
THEOREM DeletesStale == Spec => []DeletesOnlyStale
  <1>1. ViewExact => DeletesOnlyStale
    BY DEF ViewExact, DeletesOnlyStale, Deciding
  <1> QED BY <1>1, ViewIsExact, PTL

\* GitHub accepts the commits to a branch the engine has cut itself, but for a file
\* that somebody has added to the default branch between search and lookup.
THEOREM OwnBranchIsFresh == Spec => []OwnBranchTakesCommits
  <1>1. TypeOK /\ ViewExact => OwnBranchTakesCommits
    <2> SUFFICES ASSUME TypeOK, ViewExact,
                        NEW w \in Workers \ disturbed, NEW r \in Rules,
                        pc[w] = "commit", ~job[w].own, IsNext(r, job[w]),
                        Target[r] \notin job[w].from
                 PROVE  CanCreateFile(App, Target[r])
      BY DEF OwnBranchTakesCommits
    <2>1. /\ App \in refs
          /\ base[App] = job[w].from
          /\ added[App] = {Target[s] : s \in job[w].missing \ job[w].todo}
      BY DEF ViewExact
    <2>2. r \in job[w].todo /\ job[w].missing \subseteq Rules
      BY DEF IsNext, TypeOK, Job
    <2> QED BY <2>1, <2>2, TargetAssumption DEF CanCreateFile
  <1> QED BY <1>1, TypeCorrect, ViewIsExact, PTL

\* The pull request it opens offers exactly the files it found missing.
THEOREM OffersMissing == Spec => OffersWhatIsMissing
  <1>1. ViewExact /\ [Next]_vars =>
          [\A w \in Workers \ disturbed :
             pc[w] = "openPR" /\ App \notin open /\ App \in open' =>
                 added[App] = {Target[r] : r \in job[w].missing}]_vars
    BY DEF ViewExact
  <1> QED BY <1>1, ViewIsExact, PTL DEF Spec, OffersWhatIsMissing

-----------------------------------------------------------------------------
(* The invariant of the search for missing files.                          *)

\* Rule r is still to be found covered by w's search: the snapshot has a pull
\* request for it, or one of the paths w has not looked at yet is present.
Ahead(w, r) ==
    \/ r \in job[w].others
    \/ \E i \in DOMAIN PathsOf[r] :
          /\ PathsOf[r][i] \in files
          /\ r = job[w].at[1] => i >= job[w].at[2]

Searching == {"contents", "ourBranch"}

\* What a search that is under way has found out about a rule that nothing has
\* happened to.
Searched(w, r) ==
    \/ /\ Covered(r)
       /\ r \notin job[w].missing
       /\ pc[w] = "contents" /\ r >= job[w].at[1] => Ahead(w, r)
    \/ /\ ~Covered(r)
       /\ r \notin job[w].others
       /\ pc[w] = "ourBranch" \/ r < job[w].at[1] => r \in job[w].missing

\* The search looks at a path that the rule has.
Within(w) == job[w].at[2] \in DOMAIN PathsOf[job[w].at[1]]

Search(w) ==
    /\ pc[w] = "contents" => Within(w)
    /\ pc[w] \notin Searching \cup {"repository", "list"} => steady[w] = {}
    /\ pc[w] \in {"repository", "list"} => job[w].missing = {}
    /\ pc[w] = "idle" => job[w].missing = {}
    /\ pc[w] \in Searching => \A r \in steady[w] : Searched(w, r)

SearchExact == \A w \in Workers : Search(w)

LEMMA IdleSearch ==
  ASSUME TypeOK, NEW w \in Workers, NEW seen, Return(w, seen)
  PROVE  Search(w)'
  BY DEF Return, Search, Searching, TypeOK, NoJob

\* A step that leaves the files and the others' pull requests alone disturbs no
\* search but its own worker's.
LEMMA SearchesGoOn ==
  ASSUME TypeOK, SearchExact, NEW w \in Workers, Search(w)',
         UNCHANGED <<files, others>>,
         \A v \in Workers \ {w} : /\ pc'[v] = pc[v] /\ job'[v] = job[v]
                                  /\ steady'[v] = steady[v]
  PROVE  SearchExact'
  BY DEF SearchExact, Search, Within, Searched, Ahead, Covered, Satisfied

\* A worker past its search has nothing to keep.
LEMMA DecidingSearch ==
  ASSUME TypeOK, NEW w \in Workers, NEW call,
         call \notin Searching \cup {"idle", "repository", "list"},
         pc'[w] = call, steady'[w] = {}
  PROVE  Search(w)'
  BY DEF Search, Searching

\* What LookForFile hands on as missing is right about the rule it has just come
\* to the end of.
Judged(w, missing) ==
    LET r == job[w].at[1] IN
    /\ job[w].missing \subseteq missing
    /\ missing \subseteq job[w].missing \cup {r}
    /\ r \in steady[w] => (Covered(r) <=> r \notin missing)

LEMMA SoFarSearched ==
  ASSUME TypeOK, SearchExact, NEW w \in Workers, pc[w] = "contents",
         NEW missing \in SUBSET Rules, Judged(w, missing)
  PROVE  \A r \in steady[w] :
             /\ r <= job[w].at[1] => (Covered(r) <=> r \notin missing)
             /\ Covered(r) => r \notin missing
             /\ r \in Rules
  <1> SUFFICES ASSUME NEW r \in steady[w]
               PROVE  /\ r <= job[w].at[1] => (Covered(r) <=> r \notin missing)
                      /\ Covered(r) => r \notin missing
                      /\ r \in Rules
    OBVIOUS
  <1>1. r \in Rules /\ job[w].at[1] \in Rules
    BY DEF TypeOK, Job
  <1>2. Searched(w, r)
    BY DEF SearchExact, Search, Searching
  <1>3. CASE r = job[w].at[1]
    BY <1>1, <1>3 DEF Judged
  <1>4. CASE r # job[w].at[1]
    <2>1. r \in missing <=> r \in job[w].missing
      BY <1>4 DEF Judged
    <2>2. r <= job[w].at[1] => r < job[w].at[1]
      BY <1>1, <1>4, RulesAssumption
    <2> QED BY <1>1, <1>2, <2>1, <2>2 DEF Searched
  <1> QED BY <1>3, <1>4

LEMMA NextRuleSearch ==
  ASSUME TypeOK, SearchExact, NEW w \in Workers, pc[w] = "contents",
         UNCHANGED repo, NEW missing \in SUBSET Rules, Judged(w, missing),
         NextRule(w, missing)
  PROVE  Search(w)'
  <1> DEFINE j == [job[w] EXCEPT !.missing = missing]
  <1>1. job[w] \in Job
    BY DEF TypeOK
  <1>2. /\ j \in Job /\ j.missing = missing /\ j.at = job[w].at
        /\ j.others = job[w].others
    BY <1>1 DEF Job
  <1>3. \A r \in Rules : Covered(r)' <=> Covered(r)
    BY DEF repo, Covered, Satisfied
  <1>4. \A r \in steady[w] :
            /\ r <= job[w].at[1] => (Covered(r) <=> r \notin missing)
            /\ Covered(r) => r \notin missing
            /\ r \in Rules
    BY SoFarSearched
  <1>5. job[w].at[1] \in Rules
    BY <1>1 DEF Job
  <1> HIDE DEF j
  <1>6. CASE Return(w, {})
    BY <1>6, IdleSearch
  <1>7. CASE ~LastRule(j) /\ Continue(w, "contents", [j EXCEPT !.at = <<j.at[1] + 1, 1>>])
    <2> DEFINE k == [j EXCEPT !.at = <<j.at[1] + 1, 1>>]
    <2>1. /\ k.missing = missing /\ k.at = <<j.at[1] + 1, 1>>
          /\ k.others = job[w].others
      BY <1>2 DEF Job
    <2> HIDE DEF k
    <2>2. pc'[w] = "contents" /\ job'[w] = k /\ steady' = steady
      BY <1>7 DEF Continue, TypeOK, history, k
    <2>3. ASSUME NEW r \in steady[w]
          PROVE  Searched(w, r)'
      <3>1. Searched(w, r) /\ r \in Rules /\ PathsOf[r] \in Seq(Path)
        BY <1>4, PathsType DEF SearchExact, Search, Searching
      <3>2. CASE Covered(r)
        <4>1. r >= k.at[1] => Ahead(w, r)'
          <5> SUFFICES ASSUME r >= k.at[1] PROVE Ahead(w, r)'
            OBVIOUS
          <5>1. r > job[w].at[1]
            BY <1>2, <1>5, <2>1, <3>1, RulesAssumption
          <5>2. Ahead(w, r)
            BY <1>5, <3>1, <3>2, <5>1, RulesAssumption DEF Searched
          <5> QED BY <2>1, <2>2, <3>1, <5>1, <5>2 DEF Ahead, repo
        <4> QED BY <1>3, <1>4, <2>1, <2>2, <3>1, <3>2, <4>1 DEF Searched
      <3>3. CASE ~Covered(r)
        <4>1. r < k.at[1] => r <= job[w].at[1]
          BY <1>2, <1>5, <2>1, <3>1, RulesAssumption
        <4> QED BY <1>3, <1>4, <2>1, <2>2, <3>1, <3>3, <4>1 DEF Searched
      <3> QED BY <3>2, <3>3
    <2>4. Within(w)'
      <3>1. k.at[1] \in Rules
        BY <1>2, <1>5, <1>7, <2>1, RulesAssumption DEF LastRule
      <3>2. PathsOf[k.at[1]] \in Seq(Path) /\ PathsOf[k.at[1]] # <<>>
        BY <3>1, PathsType
      <3> QED BY <2>1, <2>2, <3>2 DEF Within
    <2> QED BY <2>2, <2>3, <2>4 DEF Search, Searching
  <1>8. CASE LastRule(j) /\ Continue(w, "ourBranch", [j EXCEPT !.at = <<1, 1>>])
    <2> DEFINE k == [j EXCEPT !.at = <<1, 1>>]
    <2>1. k.missing = missing /\ k.others = job[w].others
      BY <1>2 DEF Job
    <2> HIDE DEF k
    <2>2. pc'[w] = "ourBranch" /\ job'[w] = k /\ steady' = steady
      BY <1>8 DEF Continue, TypeOK, history, k
    <2>3. \A r \in Rules : r <= job[w].at[1]
      BY <1>2, <1>8, RulesAssumption DEF LastRule
    <2>4. ASSUME NEW r \in steady[w]
          PROVE  Searched(w, r)'
      <3>1. Searched(w, r)
        BY DEF SearchExact, Search, Searching
      <3> QED BY <1>3, <1>4, <2>1, <2>2, <2>3, <3>1 DEF Searched
    <2> QED BY <2>2, <2>4 DEF Search, Searching
  <1> QED BY <1>6, <1>7, <1>8 DEF NextRule, j

\* The three ways in which a lookup ends.
LEMMA LookForFileCases ==
  ASSUME TypeOK, SearchExact, NEW w \in Workers, LookForFile(w)
  PROVE  /\ pc[w] = "contents" /\ UNCHANGED repo
         /\ LET j == job[w]
                r == j.at[1]
                i == j.at[2]
            IN \/ \E missing \in SUBSET Rules :
                      Judged(w, missing) /\ NextRule(w, missing)
               \/ /\ PathsOf[r][i] \notin files /\ i < Len(PathsOf[r])
                  /\ Continue(w, "contents", [j EXCEPT !.at = <<r, i + 1>>])
  <1> DEFINE j == job[w]
             r == j.at[1]
             i == j.at[2]
  <1>1. /\ j \in Job /\ r \in Rules /\ i \in Nat \ {0}
        /\ j.missing \in SUBSET Rules
    BY DEF TypeOK, Job
  <1>2. PathsOf[r] \in Seq(Path)
    BY <1>1, PathsType
  <1>3. pc[w] = "contents" /\ UNCHANGED repo
    BY DEF LookForFile
  <1>4. r \in steady[w] => Searched(w, r)
    BY <1>3 DEF SearchExact, Search, Searching
  <1>5. r \in steady[w] /\ Covered(r) => r \notin j.missing /\ Ahead(w, r)
    BY <1>1, <1>3, <1>4, RulesAssumption DEF Searched
  <1>6. r \in steady[w] /\ ~Covered(r) => ~Satisfied(r) /\ r \notin j.others
    BY <1>4 DEF Searched, Covered
  <1>7. CASE GetContents(PathsOf[r][i]) /\ NextRule(w, j.missing)
    <2>1. Satisfied(r)
      BY <1>3, <1>7 DEF SearchExact, Search, Within, Satisfied, Range, GetContents
    <2>2. Judged(w, j.missing)
      BY <1>5, <1>6, <2>1 DEF Judged
    <2> QED BY <1>1, <1>3, <1>7, <2>2
  <1>8. CASE /\ ~GetContents(PathsOf[r][i]) /\ i < Len(PathsOf[r])
             /\ Continue(w, "contents", [j EXCEPT !.at = <<r, i + 1>>])
    BY <1>3, <1>8 DEF GetContents
  <1>9. CASE /\ ~GetContents(PathsOf[r][i]) /\ i = Len(PathsOf[r])
             /\ NextRule(w, IF HasExistingPR(j, r) THEN j.missing
                                                   ELSE j.missing \cup {r})
    <2>1. CASE HasExistingPR(j, r)
      <3>1. Judged(w, j.missing)
        BY <1>5, <1>6, <2>1 DEF Judged, HasExistingPR
      <3> QED BY <1>1, <1>3, <1>9, <2>1, <3>1
    <2>2. CASE ~HasExistingPR(j, r)
      <3>1. ~Ahead(w, r)
        BY <1>1, <1>2, <1>9, <2>2 DEF Ahead, GetContents, HasExistingPR
      <3>2. Judged(w, j.missing \cup {r})
        BY <1>5, <3>1 DEF Judged
      <3>3. j.missing \cup {r} \in SUBSET Rules
        BY <1>1
      <3> QED BY <1>3, <1>9, <2>2, <3>2, <3>3
    <2> QED BY <2>1, <2>2
  <1> QED BY <1>7, <1>8, <1>9 DEF LookForFile

LEMMA LookForFileSearch ==
  ASSUME TypeOK, SearchExact, NEW w \in Workers, LookForFile(w)
  PROVE  Search(w)'
  <1> DEFINE j == job[w]
             r == j.at[1]
             i == j.at[2]
             k == [j EXCEPT !.at = <<r, i + 1>>]
  <1>1. /\ j \in Job /\ r \in Rules /\ i \in Nat \ {0}
        /\ j.missing \in SUBSET Rules
    BY DEF TypeOK, Job
  <1>2. PathsOf[r] \in Seq(Path)
    BY <1>1, PathsType
  <1>3. pc[w] = "contents" /\ UNCHANGED repo
    BY LookForFileCases
  <1>4. CASE \E missing \in SUBSET Rules :
                 Judged(w, missing) /\ NextRule(w, missing)
    BY <1>3, <1>4, NextRuleSearch
  <1>5. CASE /\ PathsOf[r][i] \notin files /\ i < Len(PathsOf[r])
             /\ Continue(w, "contents", k)
    <2>1. k.missing = j.missing /\ k.at = <<r, i + 1>> /\ k.others = j.others
      BY <1>1 DEF Job
    <2> HIDE DEF k
    <2>2. pc'[w] = "contents" /\ job'[w] = k /\ steady' = steady
      BY <1>5 DEF Continue, TypeOK, history
    <2>3. \A s \in Rules : Covered(s)' <=> Covered(s)
      BY <1>3 DEF repo, Covered, Satisfied
    <2>4. ASSUME NEW s \in steady[w]
          PROVE  Searched(w, s)'
      <3>1. Searched(w, s) /\ s \in Rules /\ PathsOf[s] \in Seq(Path)
        BY <1>3, PathsType DEF SearchExact, Search, Searching, TypeOK
      <3>2. Ahead(w, s) => Ahead(w, s)'
        <4>1. CASE s \in j.others
          BY <2>1, <2>2, <4>1 DEF Ahead
        <4>2. ASSUME NEW n \in DOMAIN PathsOf[s], PathsOf[s][n] \in files,
                     s = r => n >= i
              PROVE  Ahead(w, s)'
          <5>1. s = r => n >= i + 1
            BY <1>1, <1>5, <3>1, <4>2
          <5> QED BY <1>3, <2>1, <2>2, <4>2, <5>1 DEF Ahead, repo
        <4> QED BY <4>1, <4>2 DEF Ahead
      <3> QED BY <1>3, <2>1, <2>2, <2>3, <3>1, <3>2 DEF Searched
    <2>5. Within(w)'
      BY <1>1, <1>2, <1>5, <2>1, <2>2 DEF Within
    <2> QED BY <2>2, <2>4, <2>5 DEF Search, Searching
  <1> QED BY <1>4, <1>5, LookForFileCases

LEMMA ListSearch ==
  ASSUME TypeOK, SearchExact, NEW w \in Workers,
         ListPullRequests(w) \/ ListingMisses(w)
  PROVE  SearchExact'
  <1>1. PICK own \in BOOLEAN, seen \in SUBSET others :
           /\ pc[w] = "list" /\ pc' = [pc EXCEPT ![w] = "contents"]
           /\ job' = [job EXCEPT ![w] =
                         [[NoJob EXCEPT !.own = own] EXCEPT !.others = seen]]
           /\ steady' = [steady EXCEPT ![w] = steady'[w]]
           /\ steady'[w] \subseteq steady[w]
           /\ \A r \in steady'[w] : Covered(r) => Satisfied(r) \/ r \in seen
           /\ UNCHANGED repo
    <2>1. CASE ListPullRequests(w)
      <3> DEFINE own == App \in open
      <3>1. own \in BOOLEAN
        OBVIOUS
      <3> HIDE DEF own
      <3>2. /\ pc[w] = "list" /\ UNCHANGED repo
            /\ Continue(w, "contents",
                        [[NoJob EXCEPT !.own = own] EXCEPT !.others = others])
        BY <2>1 DEF ListPullRequests, own
      <3> QED BY <3>1, <3>2 DEF Continue, history, TypeOK, Covered
    <2>2. CASE ListingMisses(w)
      <3>1. PICK own \in BOOLEAN, seen \in SUBSET others :
               /\ pc' = [pc EXCEPT ![w] = "contents"]
               /\ job' = [job EXCEPT ![w] =
                             [[NoJob EXCEPT !.own = own] EXCEPT !.others = seen]]
               /\ steady' = [steady EXCEPT ![w] =
                       {r \in @ : Covered(r) => Satisfied(r) \/ r \in seen}]
               /\ UNCHANGED repo
        BY <2>2 DEF ListingMisses
      <3>2. pc[w] = "list"
        BY <2>2 DEF ListingMisses
      <3> QED BY <3>1, <3>2 DEF TypeOK
    <2> QED BY <2>1, <2>2
  <1> DEFINE fresh == [NoJob EXCEPT !.own = own]
             j == [fresh EXCEPT !.others = seen]
  <1>2. /\ j.missing = {} /\ j.others = seen /\ j.at = <<1, 1>>
    BY DEF NoJob
  <1> HIDE DEF j
  <1>3. job' = [job EXCEPT ![w] = j]
    BY <1>1 DEF j
  <1>4. pc'[w] = "contents" /\ job'[w] = j
    BY <1>1, <1>3 DEF TypeOK
  <1>5. ASSUME NEW r \in steady'[w]
        PROVE  Searched(w, r)'
    <2>1. r \in Rules /\ (Covered(r)' <=> Covered(r))
      BY <1>1 DEF TypeOK, repo, Covered, Satisfied
    <2>2. PathsOf[r] \in Seq(Path)
      BY <2>1, PathsType
    <2>3. CASE ~Covered(r)
      <3>1. r \notin seen /\ ~(r < 1)
        BY <1>1, <2>1, <2>3, RulesAssumption DEF Covered
      <3> QED BY <1>2, <1>4, <2>1, <2>3, <3>1 DEF Searched
    <2>4. CASE r \in seen
      BY <1>2, <1>4, <2>1, <2>4, <1>1 DEF Searched, Ahead, Covered
    <2>5. CASE Satisfied(r)
      <3>1. PICK i \in DOMAIN PathsOf[r] : PathsOf[r][i] \in files
        BY <2>5 DEF Satisfied, Range
      <3>2. i >= 1 /\ i \in DOMAIN PathsOf[r] /\ PathsOf[r][i] \in files'
        BY <3>1, <2>2, <1>1 DEF repo
      <3>3. Ahead(w, r)'
        BY <3>2, <1>2, <1>4 DEF Ahead
      <3> QED BY <3>3, <1>2, <1>4, <2>1, <2>5 DEF Searched, Covered
    <2> QED BY <1>1, <2>3, <2>4, <2>5
  <1>6. Within(w)'
    <2>1. 1 \in Rules
      BY RulesAssumption
    <2>2. PathsOf[1] \in Seq(Path) /\ PathsOf[1] # <<>>
      BY <2>1, PathsType
    <2> QED BY <2>2, <1>2, <1>4 DEF Within
  <1>7. Search(w)'
    BY <1>2, <1>4, <1>5, <1>6 DEF Search, Searching
  <1> QED BY <1>1, <1>7, SearchesGoOn DEF TypeOK, repo

LEMMA CheckSearch ==
  ASSUME TypeOK, SearchExact, NEW w \in Workers, Check(w) \/ Failure(w)
  PROVE  SearchExact'
  <1>1. job[w] \in Job
    BY DEF TypeOK
  <1>2. ASSUME UNCHANGED <<files, others>>, NEW seen, Return(w, seen)
        PROVE  SearchExact'
    BY <1>2, IdleSearch, SearchesGoOn DEF Return, TypeOK
  <1>3. CASE Start(w)
    <2>1. Search(w)'
      BY <1>3 DEF Start, Search, Searching, SearchExact, TypeOK
    <2> QED BY <1>3, <2>1, SearchesGoOn DEF Start, TypeOK, repo
  <1>4. CASE GetRepository(w)
    <2>1. CASE Continue(w, "list", NoJob)
      <3>1. Search(w)'
        BY <1>4, <2>1
        DEF GetRepository, Continue, Search, Searching, TypeOK, NoJob
      <3> QED BY <1>4, <2>1, <3>1, SearchesGoOn
              DEF GetRepository, Continue, TypeOK, repo, history
    <2>2. CASE Return(w, {})
      BY <1>2, <1>4, <2>2 DEF GetRepository, repo
    <2> QED BY <1>4, <2>1, <2>2 DEF GetRepository
  <1>5. CASE ListPullRequests(w) \/ ListingMisses(w)
    BY <1>5, ListSearch
  <1>6. CASE LookForFile(w)
    <2>1. Search(w)'
      BY <1>6, LookForFileSearch
    <2>2. /\ UNCHANGED repo
          /\ \A v \in Workers \ {w} : /\ pc'[v] = pc[v] /\ job'[v] = job[v]
                                      /\ steady'[v] = steady[v]
      BY <1>6 DEF LookForFile, NextRule, Continue, Return, TypeOK, history
    <2> QED BY <2>1, <2>2, SearchesGoOn DEF repo
  <1>7. CASE LookForOurBranch(w)
    <2>1. PICK call \in {"delete", "defaultBranch"} : \E j : Act(w, call, j)
      BY <1>7 DEF LookForOurBranch
    <2>2. Search(w)'
      BY <2>1, DecidingSearch DEF Act, TypeOK, Searching
    <2> QED BY <1>7, <2>1, <2>2, SearchesGoOn
            DEF LookForOurBranch, Act, TypeOK, repo
  <1>8. ASSUME pc[w] \notin Searching \cup {"idle", "repository", "list"},
               UNCHANGED <<files, others>>,
               \E call \in {"defaultBranch", "commit", "create", "openPR"} :
                   \E j : Wrote(w, call, j) \/ Continue(w, call, j)
        PROVE  SearchExact'
    <2>1. PICK call \in {"defaultBranch", "commit", "create", "openPR"} :
              \E j : Wrote(w, call, j) \/ Continue(w, call, j)
      BY <1>8
    <2>2. /\ pc' = [pc EXCEPT ![w] = call] /\ steady' = steady
          /\ \E j : job' = [job EXCEPT ![w] = j]
      BY <2>1 DEF Wrote, Continue, history
    <2>3. steady[w] = {}
      BY <1>8 DEF SearchExact, Search
    <2>4. Search(w)'
      BY <2>2, <2>3, DecidingSearch DEF TypeOK, Searching
    <2> QED BY <1>8, <2>2, <2>4, SearchesGoOn DEF TypeOK
  <1>9. CASE DeleteStaleBranch(w)
    BY <1>8, <1>9 DEF DeleteStaleBranch, DeleteBranch, Searching
  <1>10. CASE LookForDefaultBranch(w)
    <2>1. \E call \in {"commit", "create"} : \E j : Continue(w, call, j)
      <3> DEFINE i == [job[w] EXCEPT !.from = files]
                 k == [i EXCEPT !.todo = i.missing]
      <3>1. IF i.branch THEN Continue(w, "commit", k)
                        ELSE Continue(w, "create", i)
        BY <1>10 DEF LookForDefaultBranch
      <3> HIDE DEF i, k
      <3> QED BY <3>1
    <2> QED BY <1>8, <1>10, <2>1 DEF LookForDefaultBranch, Searching, repo
  <1>11. CASE CreateOurBranch(w)
    BY <1>8, <1>11 DEF CreateOurBranch, CreateBranch, Searching
  <1>12. CASE CommitFile(w)
    <2>1. /\ pc[w] = "commit" /\ UNCHANGED <<files, others>>
          /\ \/ Return(w, Watchers)
             \/ \E call \in {"commit", "openPR"} : \E j : Wrote(w, call, j)
      BY <1>12 DEF CommitFile, CreateOrUpdateFile
    <2> QED BY <1>2, <1>8, <2>1 DEF Searching
  <1>13. CASE OpenPullRequest(w)
    BY <1>2, <1>13 DEF OpenPullRequest, CreatePullRequest
  <1>14. CASE Refused(w) \/ CallFails(w)
    BY <1>2, <1>14 DEF Refused, CallFails, repo
  <1>15. CASE AnswerLost(w)
    BY <1>2, <1>15
    DEF AnswerLost, DeleteBranch, CreateBranch, CreateOrUpdateFile,
        CreatePullRequest
  <1> QED BY <1>3, <1>4, <1>5, <1>6, <1>7, <1>9, <1>10, <1>11, <1>12, <1>13,
             <1>14, <1>15 DEF Check, Failure

\* People who take nothing away.
LEMMA GainSearch ==
  ASSUME TypeOK, SearchExact, UNCHANGED <<pc, job>>, files \subseteq files',
         \A r \in Rules : Covered(r) => Covered(r)',
         steady' = [w \in Workers |-> steady[w] \ Gained]
  PROVE  SearchExact'
  <1>1. \A w \in Workers : \A r \in steady'[w] :
            /\ r \in steady[w] /\ (Covered(r)' <=> Covered(r))
            /\ Ahead(w, r) => Ahead(w, r)'
    BY DEF TypeOK, Gained, Ahead
  <1>2. \A w \in Workers : \A r \in steady'[w] : Searched(w, r) => Searched(w, r)'
    BY <1>1 DEF Searched
  <1> QED BY <1>1, <1>2 DEF SearchExact, Search, Within

LEMMA PeopleSearch ==
  ASSUME TypeOK, SearchExact, People
  PROVE  SearchExact'
  <1>1. CASE TouchOwn
    <2>1. files \subseteq files' /\ others' = others
      BY <1>1
      DEF TouchOwn, MergeOwn, CloseOwn, ReopenOwn, DeleteOwn,
          CreatePullRequest, DeleteBranch
    <2>2. \A r \in Rules : Covered(r) => Covered(r)'
      BY <2>1 DEF Covered, Satisfied
    <2> QED BY <1>1, <2>1, <2>2, GainSearch DEF TouchOwn
  <1>2. CASE Cover
    <2>1. files \subseteq files'
      BY <1>2 DEF Cover, OpenOther, MergeOther, AddFile
    <2>2. \A r \in Rules : Covered(r) => Covered(r)'
      <3>1. CASE \E r \in Rules : OpenOther(r)
        BY <3>1 DEF OpenOther, Covered, Satisfied
      <3>2. CASE \E r \in Rules : MergeOther(r)
        BY <3>2 DEF MergeOther, Covered, Satisfied
      <3>3. CASE (\E p \in Path : AddFile(p)) /\ UNCHANGED others
        BY <3>3 DEF AddFile, Covered, Satisfied
      <3> QED BY <1>2, <3>1, <3>2, <3>3 DEF Cover
    <2> QED BY <1>2, <2>1, <2>2, GainSearch DEF Cover
  <1>3. CASE Uncover
    <2>1. PICK lost \in SUBSET Rules :
             /\ \/ \E r \in Rules : CloseOther(r) /\ lost = {r}
                \/ \E p \in Path :
                      /\ RemoveFile(p) /\ UNCHANGED others
                      /\ lost = {r \in Rules : p \in Range(PathsOf[r])}
             /\ steady' = [w \in Workers |-> steady[w] \ lost]
             /\ UNCHANGED <<pc, job>>
      BY <1>3 DEF Uncover
    <2>2. \A r \in Rules \ lost :
             /\ \A i \in DOMAIN PathsOf[r] :
                    PathsOf[r][i] \in files <=> PathsOf[r][i] \in files'
             /\ r \in others <=> r \in others'
      BY <2>1 DEF CloseOther, RemoveFile, Range
    <2>3. \A r \in Rules \ lost : Covered(r)' <=> Covered(r)
      BY <2>2 DEF Covered, Satisfied, Range
    <2>4. \A w \in Workers : \A r \in steady'[w] :
             r \in steady[w] /\ r \in Rules \ lost
      BY <2>1 DEF TypeOK
    <2>5. \A w \in Workers : \A r \in steady'[w] :
             Searched(w, r) => Searched(w, r)'
      BY <2>1, <2>2, <2>3, <2>4 DEF Searched, Ahead
    <2> QED BY <2>1, <2>4, <2>5 DEF SearchExact, Search, Within
  <1> QED BY <1>1, <1>2, <1>3 DEF People

\* A search that is under way is right about every rule that nothing happens to.
THEOREM SearchIsExact == Spec => []SearchExact
  <1>1. Init => SearchExact
    BY DEF Init, SearchExact, Search, Searching, NoJob
  <1>2. TypeOK /\ SearchExact /\ [Next]_vars => SearchExact'
    <2> SUFFICES ASSUME TypeOK, SearchExact, [Next]_vars PROVE SearchExact'
      OBVIOUS
    <2>1. CASE Next
      BY <2>1, CheckSearch, PeopleSearch DEF Next
    <2>2. CASE UNCHANGED vars
      BY <2>2
      DEF SearchExact, Search, Within, Searched, Ahead, Covered, Satisfied, vars
    <2> QED BY <2>1, <2>2
  <1> QED BY <1>1, <1>2, TypeCorrect, PTL DEF Spec

\* A rule that had a file or somebody's pull request ever since a check began
\* is not reported missing by it.
THEOREM CoveredNotMissing == Spec => []CoveredIsNotMissing
  <1>1. SearchExact => CoveredIsNotMissing
    BY DEF SearchExact, Search, Searching, Searched, CoveredIsNotMissing
  <1> QED BY <1>1, SearchIsExact, PTL

\* A rule that had neither is found missing, and the check goes on to offer it.
THEOREM UncoveredMissing == Spec => UncoveredIsMissing
  <1>1. ASSUME TypeOK, SearchExact, NEW w \in Workers, LookForFile(w),
               pc'[w] # "contents", ~DryRun, NEW r \in steady[w], ~Covered(r)
        PROVE  pc'[w] = "ourBranch" /\ r \in job'[w].missing
    <2>1. pc[w] = "contents" /\ job[w] \in Job
      BY <1>1, LookForFileCases DEF TypeOK
    <2>2. PICK missing \in SUBSET Rules : Judged(w, missing) /\ NextRule(w, missing)
      BY <1>1, LookForFileCases DEF Continue, TypeOK
    <2> DEFINE j == [job[w] EXCEPT !.missing = missing]
               k == [j EXCEPT !.at = <<1, 1>>]
    <2>3. j \in Job /\ j.missing = missing /\ j.at = job[w].at
      BY <2>1 DEF Job
    <2>4. k.missing = missing
      BY <2>3 DEF Job
    <2> HIDE DEF j, k
    <2>5. LastRule(j)
      BY <1>1, <2>2 DEF NextRule, Continue, TypeOK, j
    <2>6. r \in Rules /\ r <= job[w].at[1]
      BY <1>1, <2>3, <2>5, RulesAssumption DEF LastRule, TypeOK
    <2>7. r \in missing
      <3>1. \A q \in steady[w] :
                q <= job[w].at[1] => (Covered(q) <=> q \notin missing)
        BY <1>1, <2>1, <2>2, SoFarSearched
      <3> QED BY <1>1, <2>6, <3>1
    <2>8. Continue(w, "ourBranch", k)
      BY <1>1, <2>2, <2>5, <2>7 DEF NextRule, j, k
    <2> QED BY <1>1, <2>4, <2>7, <2>8 DEF Continue, TypeOK
  <1>2. TypeOK /\ SearchExact /\ [Next]_vars =>
          [\A w \in Workers :
             LookForFile(w) /\ pc'[w] # "contents" /\ ~DryRun =>
                 \A r \in steady[w] :
                     \/ Covered(r)
                     \/ pc'[w] = "ourBranch" /\ r \in job'[w].missing]_vars
    BY <1>1
  <1> QED BY <1>2, TypeCorrect, SearchIsExact, PTL DEF Spec, UncoveredIsMissing
=============================================================================
