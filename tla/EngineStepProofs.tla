-------------------------- MODULE EngineStepProofs --------------------------
(***************************************************************************)
(* Proofs about the steps of Engine's checks: what they do under           *)
(* configurations that no run has, and with one worker.                    *)
(***************************************************************************)
EXTENDS EngineProofs

USE DEF Rules

-----------------------------------------------------------------------------
(* Dry runs.                                                               *)

\* The calls a check makes to find out what is missing.
Finding == {"repository", "list", "contents"}

\* A check never comes to a call that acts on what it found.
OnlyFinds == \A w \in Workers : pc[w] \in Finding \cup {"idle"}

LEMMA DryRunOnlyFinds ==
  ASSUME DryRun, TypeOK, OnlyFinds, NEW w \in Workers, Check(w) \/ Failure(w)
  PROVE  OnlyFinds' /\ UNCHANGED repo
  <1>1. pc[w] \in Finding \cup {"idle"}
    BY DEF OnlyFinds
  <1>2. ASSUME NEW new \in Finding \cup {"idle"}, pc' = [pc EXCEPT ![w] = new]
        PROVE  OnlyFinds'
    BY <1>2 DEF OnlyFinds, TypeOK
  <1>3. ASSUME NEW seen, Return(w, seen)
        PROVE  OnlyFinds'
    BY <1>2, <1>3 DEF Return
  <1>4. CASE Start(w)
    BY <1>2, <1>4 DEF Start, Finding
  <1>5. CASE GetRepository(w)
    <2>1. (Return(w, {}) \/ Continue(w, "list", NoJob)) /\ UNCHANGED repo
      BY <1>5 DEF GetRepository
    <2> QED BY <1>2, <1>3, <2>1 DEF Continue, Finding
  <1>6. CASE ListPullRequests(w) \/ ListingMisses(w)
    BY <1>2, <1>6 DEF ListPullRequests, ListingMisses, Continue, Finding
  <1>7. CASE LookForFile(w)
    <2>1. UNCHANGED repo
      BY <1>7 DEF LookForFile
    <2>2. \/ Return(w, {})
          \/ pc' = [pc EXCEPT ![w] = "contents"]
      BY <1>7 DEF LookForFile, NextRule, Continue
    <2> QED BY <1>2, <1>3, <2>1, <2>2 DEF Finding
  <1>8. CASE Refused(w) \/ CallFails(w)
    BY <1>3, <1>8 DEF Refused, CallFails
  <1> QED BY <1>1, <1>4, <1>5, <1>6, <1>7, <1>8
          DEF Check, Failure, Finding, LookForOurBranch, DeleteStaleBranch,
              LookForDefaultBranch, CreateOurBranch, CommitFile,
              OpenPullRequest, AnswerLost

\* A dry run never writes, not even after a failure or while somebody interferes.
THEOREM DryRunWritesNothing ==
  ASSUME DryRun
  PROVE  Spec => WritesNothing
  <1>1. Init => OnlyFinds
    BY DEF Init, OnlyFinds
  <1>2. TypeOK /\ OnlyFinds /\ [Next]_vars => OnlyFinds'
    <2>1. CASE People
      BY <2>1 DEF People, TouchOwn, Cover, Uncover, OnlyFinds
    <2>2. CASE UNCHANGED vars
      BY <2>2 DEF vars, OnlyFinds
    <2> QED BY <2>1, <2>2, DryRunOnlyFinds DEF Next
  <1>3. TypeOK /\ OnlyFinds /\ [Next]_vars =>
          [\A w \in Workers : Check(w) \/ Failure(w) => UNCHANGED repo]_vars
    BY DryRunOnlyFinds
  <1> QED BY <1>1, <1>2, <1>3, TypeCorrect, PTL DEF Spec, WritesNothing

-----------------------------------------------------------------------------
(* Rules without a template.                                               *)

\* What w has committed so far had a template.
FromTemplates(w) ==
    /\ pc[w] \in {"commit", "openPR"} =>
           job[w].missing \ job[w].todo \subseteq HasTemplate
    /\ pc[w] = "openPR" => job[w].todo = {}

AllFromTemplates == \A w \in Workers : FromTemplates(w)

LEMMA CheckFromTemplates ==
  ASSUME TypeOK, AllFromTemplates, NEW w \in Workers, Check(w) \/ Failure(w)
  PROVE  AllFromTemplates'
  <1>1. job[w] \in Job
    BY DEF TypeOK
  <1>2. ASSUME FromTemplates(w)',
               \A v \in Workers \ {w} : pc'[v] = pc[v] /\ job'[v] = job[v]
        PROVE  AllFromTemplates'
    BY <1>2 DEF AllFromTemplates, FromTemplates
  <1>3. ASSUME NEW seen, Return(w, seen)
        PROVE  AllFromTemplates'
    <2>1. FromTemplates(w)'
      BY <1>3 DEF Return, TypeOK, FromTemplates
    <2> QED BY <1>2, <1>3, <2>1 DEF Return, TypeOK
  <1>4. ASSUME NEW call \in Calls \ {"commit", "openPR"}, NEW j,
               Continue(w, call, j) \/ Act(w, call, j) \/ Wrote(w, call, j)
        PROVE  AllFromTemplates'
    <2>1. FromTemplates(w)'
      BY <1>4 DEF Continue, Act, Wrote, TypeOK, FromTemplates
    <2> QED BY <1>2, <1>4, <2>1 DEF Continue, Act, Wrote, TypeOK
  <1>5. ASSUME NEW call \in {"commit", "openPR"}, NEW j,
               Continue(w, call, j) \/ Wrote(w, call, j),
               j.missing \ j.todo \subseteq HasTemplate,
               call = "openPR" => j.todo = {}
        PROVE  AllFromTemplates'
    <2>1. FromTemplates(w)'
      BY <1>5 DEF Continue, Wrote, TypeOK, FromTemplates
    <2> QED BY <1>2, <1>5, <2>1 DEF Continue, Wrote, TypeOK
  <1>6. CASE Start(w)
    <2>1. pc' = [pc EXCEPT ![w] = "repository"] /\ job' = job
      BY <1>6 DEF Start
    <2>2. FromTemplates(w)'
      BY <2>1 DEF TypeOK, FromTemplates
    <2> QED BY <1>2, <2>1, <2>2 DEF TypeOK
  <1>7. CASE GetRepository(w)
    <2>1. Return(w, {}) \/ Continue(w, "list", NoJob)
      BY <1>7 DEF GetRepository
    <2> QED BY <1>3, <1>4, <2>1 DEF Calls
  <1>8. CASE ListPullRequests(w) \/ ListingMisses(w)
    <2>1. /\ pc' = [pc EXCEPT ![w] = "contents"]
          /\ \E j : job' = [job EXCEPT ![w] = j]
      BY <1>8 DEF ListPullRequests, ListingMisses, Continue
    <2>2. FromTemplates(w)'
      BY <2>1 DEF TypeOK, FromTemplates
    <2> QED BY <1>2, <2>1, <2>2 DEF TypeOK
  <1>9. CASE LookForFile(w)
    <2>1. \/ Return(w, {})
          \/ \E call \in {"contents", "ourBranch"} : \E j : Continue(w, call, j)
      BY <1>9 DEF LookForFile, NextRule
    <2> QED BY <1>3, <1>4, <2>1 DEF Calls, Deciding
  <1>10. CASE LookForOurBranch(w)
    <2> DEFINE j == [job[w] EXCEPT !.branch = GetBranchSHA(App)]
    <2>1. Act(w, "delete", j) \/ Act(w, "defaultBranch", j)
      BY <1>10 DEF LookForOurBranch
    <2> HIDE DEF j
    <2> QED BY <1>4, <2>1 DEF Calls, Deciding
  <1>11. CASE DeleteStaleBranch(w)
    BY <1>4, <1>11 DEF DeleteStaleBranch, Calls, Deciding
  <1>12. CASE LookForDefaultBranch(w)
    <2> DEFINE j == [job[w] EXCEPT !.from = files]
               k == [j EXCEPT !.todo = j.missing]
    <2>1. k.missing = j.missing /\ k.todo = j.missing
      BY <1>1 DEF Job, TypeOK, RulesTypeOK, RepoTypeOK
    <2>2. Continue(w, "commit", k) \/ Continue(w, "create", j)
      BY <1>12 DEF LookForDefaultBranch
    <2> HIDE DEF j, k
    <2> QED BY <1>4, <1>5, <2>1, <2>2 DEF Calls, Deciding
  <1>13. CASE CreateOurBranch(w)
    <2> DEFINE j == [job[w] EXCEPT !.todo = job[w].missing]
    <2>1. j.missing = job[w].missing /\ j.todo = job[w].missing
      BY <1>1 DEF Job
    <2>2. Wrote(w, "commit", j)
      BY <1>13 DEF CreateOurBranch
    <2> HIDE DEF j
    <2> QED BY <1>5, <2>1, <2>2
  <1>14. CASE CommitFile(w)
    <2>1. PICK r \in HasTemplate :
             LET j == [job[w] EXCEPT !.todo = Remaining(job[w], r)] IN
             /\ pc[w] = "commit"
             /\ \/ Wrote(w, "commit", j)
                \/ j.todo = {} /\ Wrote(w, "openPR", j)
                \/ Return(w, Watchers)
      BY <1>14 DEF CommitFile
    <2> DEFINE j == [job[w] EXCEPT !.todo = Remaining(job[w], r)]
    <2>2. j.missing = job[w].missing /\ j.todo = job[w].todo \ {r}
      BY <1>1 DEF Job, Remaining
    <2>3. job[w].missing \ job[w].todo \subseteq HasTemplate
      BY <2>1 DEF AllFromTemplates, FromTemplates
    <2> HIDE DEF j
    <2>4. j.missing \ j.todo \subseteq HasTemplate
      BY <2>1, <2>2, <2>3
    <2> QED BY <1>3, <1>5, <2>1, <2>4 DEF j
  <1>15. CASE OpenPullRequest(w) \/ Refused(w) \/ CallFails(w) \/ AnswerLost(w)
    BY <1>3, <1>15 DEF OpenPullRequest, Refused, CallFails, AnswerLost
  <1> QED BY <1>6, <1>7, <1>8, <1>9, <1>10, <1>11, <1>12, <1>13, <1>14, <1>15
          DEF Check, Failure

\* No pull request is opened while a rule that was found missing has no template,
\* whichever rules have one.
THEOREM OffersTemplates == Spec => []OffersOnlyTemplates
  <1>1. Init => AllFromTemplates
    BY DEF Init, AllFromTemplates, FromTemplates
  <1>2. TypeOK /\ AllFromTemplates /\ [Next]_vars => AllFromTemplates'
    <2>1. CASE People
      BY <2>1
      DEF People, TouchOwn, Cover, Uncover, AllFromTemplates, FromTemplates
    <2>2. CASE UNCHANGED vars
      BY <2>2 DEF vars, AllFromTemplates, FromTemplates
    <2> QED BY <2>1, <2>2, CheckFromTemplates DEF Next
  <1>3. AllFromTemplates => OffersOnlyTemplates
    BY DEF AllFromTemplates, FromTemplates, OffersOnlyTemplates
  <1> QED BY <1>1, <1>2, <1>3, TypeCorrect, PTL DEF Spec

-----------------------------------------------------------------------------
(* One worker, and an app's branch nobody else touches.                    *)

UntouchedNext ==
    Cover \/ Uncover \/ \E w \in Workers : Check(w) \/ Failure(w)

LEMMA UntouchedIsSpec == UntouchedSpec => Spec
  <1>1. [UntouchedNext]_vars => [Next]_vars
    BY DEF UntouchedNext, Next, People
  <1> QED BY <1>1, PTL DEF UntouchedSpec, UntouchedNext, Spec

\* A worker alone disturbs itself only by a listing that misses the open pull
\* request.
LEMMA MissingDisturbs ==
  ASSUME \A v, w \in Workers : v = w, TypeOK, UntouchedNext,
         NEW u \in disturbed' \ disturbed
  PROVE  ListingMisses(u) /\ App \in open /\ ~job'[u].own
  <1>1. ASSUME Cover \/ Uncover PROVE FALSE
    BY <1>1 DEF Cover, Uncover
  <1>2. PICK w \in Workers : Check(w) \/ Failure(w)
    BY <1>1 DEF UntouchedNext
  <1>3. Watchers \subseteq {w}
    BY DEF Watchers
  <1>4. ASSUME NEW seen \in SUBSET {w}, Return(w, seen)
        PROVE  FALSE
    BY <1>4 DEF Return
  <1>5. ASSUME NEW call, NEW j,
               Continue(w, call, j) \/ Act(w, call, j) \/ Wrote(w, call, j)
        PROVE  FALSE
    BY <1>3, <1>5 DEF Continue, Act, Wrote, history
  <1>6. CASE Start(w)
    BY <1>6 DEF Start
  <1>7. CASE GetRepository(w)
    BY <1>4, <1>5, <1>7 DEF GetRepository
  <1>8. CASE LookForFile(w)
    BY <1>4, <1>5, <1>8 DEF LookForFile, NextRule
  <1>9. CASE \/ ListPullRequests(w) \/ LookForOurBranch(w)
             \/ DeleteStaleBranch(w) \/ CreateOurBranch(w)
    BY <1>5, <1>9
    DEF ListPullRequests, LookForOurBranch, DeleteStaleBranch, CreateOurBranch
  <1>10. CASE LookForDefaultBranch(w)
    BY <1>5, <1>10 DEF LookForDefaultBranch
  <1>11. CASE CommitFile(w)
    BY <1>3, <1>4, <1>5, <1>11 DEF CommitFile
  <1>12. CASE OpenPullRequest(w) \/ Refused(w) \/ CallFails(w) \/ AnswerLost(w)
    BY <1>3, <1>4, <1>12 DEF OpenPullRequest, Refused, CallFails, AnswerLost
  <1>13. CASE ListingMisses(w)
    <2>1. PICK own \in BOOLEAN, seen \in SUBSET others :
             /\ job' = [job EXCEPT ![w] =
                           [[NoJob EXCEPT !.own = own] EXCEPT !.others = seen]]
             /\ disturbed' = IF App \in open /\ ~own THEN disturbed \cup {w}
                                                   ELSE disturbed
      BY <1>13 DEF ListingMisses
    <2> DEFINE i == [NoJob EXCEPT !.own = own]
               j == [i EXCEPT !.others = seen]
    <2>2. i \in Job /\ i.own = own
      BY NoJobType DEF Job
    <2>3. j.own = own
      BY <2>2 DEF Job
    <2> HIDE DEF j
    <2>4. job'[w] = j
      BY <2>1 DEF j, TypeOK
    <2>5. u = w /\ App \in open /\ ~own
      BY <2>1
    <2> QED BY <1>13, <2>3, <2>4, <2>5
  <1> QED BY <1>2, <1>6, <1>7, <1>8, <1>9, <1>10, <1>11, <1>12, <1>13
          DEF Check, Failure

\* A step that closes the pull request takes the deletion of a worker with a
\* wrong snapshot.
LEMMA DisturbedCloses ==
  ASSUME ViewExact, UntouchedNext, ~(open \subseteq open')
  PROVE  \E w \in disturbed : pc[w] = "delete"
  <1>1. ASSUME NEW w \in Workers, pc[w] = "delete", DeleteBranch(App)
        PROVE  w \in disturbed
    <2>1. App \in open
      BY <1>1 DEF DeleteBranch
    <2> QED BY <1>1, <2>1 DEF ViewExact, Deciding
  <1>2. ASSUME Cover \/ Uncover
        PROVE  FALSE
    BY <1>2
    DEF Cover, Uncover, OpenOther, MergeOther, AddFile, CloseOther, RemoveFile,
        ownRefs
  <1>3. PICK w \in Workers : Check(w) \/ Failure(w)
    BY <1>2 DEF UntouchedNext
  <1>4. CASE DeleteStaleBranch(w)
    BY <1>1, <1>4 DEF DeleteStaleBranch
  <1>5. CASE CreateOurBranch(w)
    BY <1>5 DEF CreateOurBranch, CreateBranch
  <1>6. CASE CommitFile(w)
    BY <1>6 DEF CommitFile, CreateOrUpdateFile
  <1>7. CASE OpenPullRequest(w)
    BY <1>7 DEF OpenPullRequest, CreatePullRequest
  <1>8. CASE AnswerLost(w)
    BY <1>1, <1>8
    DEF AnswerLost, CreateBranch, CreateOrUpdateFile, CreatePullRequest
  <1>9. CASE UNCHANGED repo
    BY <1>9 DEF repo, ownRefs
  <1> QED BY <1>3, <1>4, <1>5, <1>6, <1>7, <1>8, <1>9
          DEF Check, Failure, Start, GetRepository, ListPullRequests, LookForFile,
              LookForOurBranch, LookForDefaultBranch, Refused, CallFails,
              ListingMisses

\* With one worker, and nobody else at the app's branch, the app's pull request is
\* closed only by a check whose listing has missed it, whatever else fails: two
\* workers close it without (run engine_closes_pr).
THEOREM OneWorkerClosesOnlyMissed ==
  ASSUME \A v, w \in Workers : v = w
  PROVE  UntouchedSpec => ClosesOnlyWhatItMissed
  <1>1. TypeOK /\ ViewExact /\ [UntouchedNext]_vars =>
          [/\ \A w \in disturbed' \ disturbed :
                 ListingMisses(w) /\ App \in open /\ ~job'[w].own
           /\ \/ open \subseteq open'
              \/ \E w \in disturbed : pc[w] = "delete"]_vars
    BY MissingDisturbs, DisturbedCloses
  <1> QED BY <1>1, UntouchedIsSpec, TypeCorrect, ViewIsExact, PTL
          DEF UntouchedSpec, UntouchedNext, ClosesOnlyWhatItMissed
=============================================================================
