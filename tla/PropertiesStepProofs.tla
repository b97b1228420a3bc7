------------------------ MODULE PropertiesStepProofs ------------------------
(***************************************************************************)
(* Proofs about the steps of Properties' checks: where they lead, what     *)
(* they write, and what they do under configurations that no run has.      *)
(***************************************************************************)
EXTENDS PropertiesProofs

-----------------------------------------------------------------------------
(* Where a step leads.                                                     *)

\* The calls that may follow a call, and the first one.
Flow == {<<"idle", "list">>, <<"list", "yaml">>, <<"yaml", "yml">>,
         <<"yaml", "properties">>, <<"yml", "properties">>,
         <<"properties", "set">>, <<"properties", "ourBranch">>,
         <<"set", "ourBranch">>, <<"ourBranch", "delete">>,
         <<"ourBranch", "defaultBranch">>, <<"delete", "defaultBranch">>,
         <<"defaultBranch", "create">>, <<"create", "commit">>,
         <<"commit", "openPR">>}

\* w's step leads it from where it is to `call'.
Leads(w, call) ==
    /\ pc' = [pc EXCEPT ![w] = call]
    /\ call # "idle" => <<pc[w], call>> \in Flow
    /\ pc[w] = "properties" /\ call # "idle" => ~DryRun
    /\ call = "set" => mode = "api"

LEMMA StepLeads ==
  ASSUME TypeOK, NEW w \in Workers, Check(w) \/ Failure(w)
  PROVE  \E call \in Calls \cup {"idle"} : Leads(w, call)
  <1> USE DEF Leads, Flow, Calls, Deciding, Writing
  <1>1. ASSUME NEW seen, Return(w, seen)
        PROVE  Leads(w, "idle")
    BY <1>1 DEF Return
  <1>2. CASE Start(w)
    BY <1>2 DEF Start
  <1>3. CASE ListPullRequests(w) \/ ListingMisses(w)
    BY <1>3 DEF ListPullRequests, ListingMisses, Continue
  <1>4. CASE ReadYaml(w)
    <2>1. pc[w] = "yaml" /\ (pc' = [pc EXCEPT ![w] = "yml"]
                             \/ pc' = [pc EXCEPT ![w] = "properties"])
      BY <1>4 DEF ReadYaml, Parsed, Continue
    <2> QED BY <2>1
  <1>5. CASE ReadYml(w)
    BY <1>5 DEF ReadYml, Parsed, Continue
  <1>6. CASE ReadProperties(w)
    <2>1. /\ pc[w] = "properties"
          /\ \/ Return(w, {})
             \/ ~DryRun /\ pc' = [pc EXCEPT ![w] = "ourBranch"]
             \/ ~DryRun /\ mode = "api" /\ pc' = [pc EXCEPT ![w] = "set"]
      BY <1>6 DEF ReadProperties, Continue
    <2> QED BY <1>1, <2>1
  <1>7. CASE SetProperties(w)
    BY <1>7 DEF SetProperties
  <1>8. CASE LookForOurBranch(w)
    <2>1. Cleanup \in {"delete", "defaultBranch"}
      BY DEF Cleanup
    <2> QED BY <1>8, <2>1 DEF LookForOurBranch, Continue
  <1>9. CASE LookForDefaultBranch(w)
    BY <1>9 DEF LookForDefaultBranch, Continue
  <1>10. CASE DeleteStaleBranch(w) \/ CreateOurBranch(w) \/ CommitFile(w)
    BY <1>10 DEF DeleteStaleBranch, CreateOurBranch, CommitFile, Wrote
  <1>11. CASE OpenPullRequest(w) \/ Refused(w) \/ CallFails(w)
    BY <1>1, <1>11 DEF OpenPullRequest, Refused, CallFails
  <1>12. CASE AnswerLost(w)
    BY <1>1, <1>12 DEF AnswerLost
  <1> QED BY <1>2, <1>3, <1>4, <1>5, <1>6, <1>7, <1>8, <1>9, <1>10, <1>11,
             <1>12 DEF Check, Failure

-----------------------------------------------------------------------------
(* Dry runs.                                                               *)

\* A dry run's check never comes to a call that writes.
OnlyReads == \A w \in Workers : pc[w] \in {"idle", "list", "yaml", "yml", "properties"}

LEMMA DryRunOnlyReads ==
  ASSUME DryRun, TypeOK, OnlyReads, NEW w \in Workers, Check(w) \/ Failure(w)
  PROVE  OnlyReads' /\ UNCHANGED world
  <1>1. PICK call \in Calls \cup {"idle"} : Leads(w, call)
    BY StepLeads
  <1>2. pc[w] \in {"idle", "list", "yaml", "yml", "properties"}
    BY DEF OnlyReads
  <1>3. call \in {"idle", "list", "yaml", "yml", "properties"}
    BY <1>1, <1>2 DEF Leads, Flow
  <1>4. OnlyReads'
    BY <1>1, <1>3 DEF Leads, OnlyReads, TypeOK
  <1>5. UNCHANGED world
    BY <1>2
    DEF Check, Failure, Start, ListPullRequests, ReadYaml, ReadYml,
        ReadProperties, SetProperties, LookForOurBranch, DeleteStaleBranch,
        LookForDefaultBranch, CreateOurBranch, CommitFile, OpenPullRequest,
        Refused, CallFails, ListingMisses, AnswerLost
  <1> QED BY <1>4, <1>5

\* A dry run never writes, in either mode.
THEOREM DryRunWritesNothing ==
  ASSUME DryRun
  PROVE  Spec => WritesNothing
  <1>1. Init => OnlyReads
    BY DEF Init, OnlyReads
  <1>2. TypeOK /\ OnlyReads /\ [Next]_vars => OnlyReads'
    <2>1. CASE People \/ RunWorkflow
      BY <2>1
      DEF People, Merge, TouchOwn, EditCatalog, RemoveWorkflow, SetByHand,
          RunWorkflow, OnlyReads
    <2>2. CASE UNCHANGED vars
      BY <2>2 DEF vars, OnlyReads
    <2> QED BY <2>1, <2>2, DryRunOnlyReads DEF Next
  <1>3. TypeOK /\ OnlyReads /\ [Next]_vars =>
          [\A w \in Workers : Check(w) \/ Failure(w) => UNCHANGED world]_vars
    BY DryRunOnlyReads
  <1> QED BY <1>1, <1>2, <1>3, TypeCorrect, PTL DEF Spec, WritesNothing

-----------------------------------------------------------------------------
(* What is written to the properties.                                      *)

\* Only in api mode does a check come to the call that sets the properties.
SetsInAPIMode == \A w \in Workers : pc[w] = "set" => mode = "api"

LEMMA SetsInAPIModeHolds == Spec => []SetsInAPIMode
  <1>1. Init => SetsInAPIMode
    BY DEF Init, SetsInAPIMode
  <1>2. TypeOK /\ SetsInAPIMode /\ [Next]_vars => SetsInAPIMode'
    <2> SUFFICES ASSUME TypeOK, SetsInAPIMode, [Next]_vars PROVE SetsInAPIMode'
      OBVIOUS
    <2>1. ASSUME NEW w \in Workers, Check(w) \/ Failure(w)
          PROVE  SetsInAPIMode'
      <3>1. PICK call \in Calls \cup {"idle"} : Leads(w, call)
        BY <2>1, StepLeads
      <3>2. mode' = mode
        BY <2>1
        DEF Check, Failure, Start, ListPullRequests, ReadYaml, ReadYml,
            ReadProperties, SetProperties, LookForOurBranch,
            DeleteStaleBranch, LookForDefaultBranch, CreateOurBranch,
            CommitFile, OpenPullRequest, Refused, CallFails, ListingMisses,
            AnswerLost, Commit
      <3> QED BY <3>1, <3>2 DEF Leads, SetsInAPIMode, TypeOK
    <2>2. CASE People \/ RunWorkflow
      BY <2>2
      DEF People, Merge, TouchOwn, EditCatalog, RemoveWorkflow, SetByHand,
          RunWorkflow, SetsInAPIMode
    <2>3. CASE UNCHANGED vars
      BY <2>3 DEF vars, SetsInAPIMode
    <2> QED BY <2>1, <2>2, <2>3 DEF Next
  <1> QED BY <1>1, <1>2, TypeCorrect, PTL DEF Spec

\* Of a check's steps, only the call that sets the properties changes them.
LEMMA OnlySetSets ==
  ASSUME NEW w \in Workers, Check(w) \/ Failure(w), props' # props
  PROVE  /\ pc[w] = "set" /\ catalog' = catalog
         /\ props' = With(props, job[w].desired)
  BY DEF Check, Failure, Start, ListPullRequests, ReadYaml, ReadYml,
         ReadProperties, SetProperties, LookForOurBranch, DeleteStaleBranch,
         LookForDefaultBranch, CreateOurBranch, CommitFile, OpenPullRequest,
         Refused, CallFails, ListingMisses, AnswerLost, Commit, world

\* In github-action mode no step of a check changes a property.
THEOREM LeavesToWorkflow == Spec => LeavesSettingToWorkflow
  <1>1. SetsInAPIMode /\ [Next]_vars =>
          [\A w \in Workers :
             mode = "github-action" /\ (Check(w) \/ Failure(w)) =>
                 props' = props]_vars
    BY OnlySetSets DEF SetsInAPIMode
  <1> QED BY <1>1, SetsInAPIModeHolds, PTL DEF Spec, LeavesSettingToWorkflow

\* Setting the properties makes them right, and leaves alone what is not asked
\* for.
LEMMA WithIsRight ==
  ASSUME NEW c \in Content, NEW current \in Properties
  PROVE  LET new == With(current, Parse(c)) IN
         \A name \in DOMAIN current :
             /\ Parse(c)[name] \in {"", new[name]}
             /\ Parse(c)[name] = "" => new[name] = current[name]
  <1> DEFINE wanted == Parse(c)
             new == With(current, wanted)
  <1>1. wanted \in Properties /\ wanted.Owner # "" /\ wanted.Component # ""
    BY ParseType DEF Parse, Defaults, Or, DefaultOwner, DefaultComponent
  <1> HIDE DEF wanted
  <1>2. DOMAIN current = {"Owner", "Component", "JiraProject", "JiraLabel"}
    BY DEF Properties
  <1>3. /\ new.Owner = wanted.Owner /\ new.Component = wanted.Component
        /\ new.JiraProject = Or(wanted.JiraProject, current.JiraProject)
        /\ new.JiraLabel = Or(wanted.JiraLabel, current.JiraLabel)
    BY DEF With
  <1> HIDE DEF new
  <1>4. \A name \in {"Owner", "Component", "JiraProject", "JiraLabel"} :
            /\ wanted[name] \in {"", new[name]}
            /\ wanted[name] = "" => new[name] = current[name]
    BY <1>1, <1>3 DEF Or
  <1> QED BY <1>2, <1>4 DEF new, wanted

\* The program's own write makes the properties what the catalog asks for, for
\* any catalog and any properties before it.
THEOREM SetsAsked == Spec => SetsWhatIsAsked
  <1>1. ASSUME TypeOK, WritesWhatIsAsked, NEW w \in faithful,
               Check(w) \/ Failure(w), props' # props
        PROVE  /\ Right'
               /\ \A name \in DOMAIN props :
                      Parse(CatalogContent)[name] = "" =>
                          props'[name] = props[name]
    <2>1. /\ pc[w] = "set" /\ catalog' = catalog
          /\ props' = With(props, job[w].desired)
      BY <1>1, OnlySetSets DEF TypeOK
    <2>2. job[w].desired = Parse(CatalogContent)
      BY <1>1, <2>1 DEF WritesWhatIsAsked, Writing
    <2>3. CatalogContent \in Content /\ props \in Properties
      BY <1>1, NamesType DEF TypeOK, CatalogContent
    <2>4. \A name \in DOMAIN props :
              /\ Parse(CatalogContent)[name] \in {"", props'[name]}
              /\ Parse(CatalogContent)[name] = "" => props'[name] = props[name]
      BY <2>1, <2>2, <2>3, WithIsRight
    <2>5. props' \in Properties
      BY <2>1, <2>2, <2>3, ParseType, WithType
    <2>6. DOMAIN props' = DOMAIN props /\ CatalogContent' = CatalogContent
      BY <2>1, <2>3, <2>5 DEF Properties, CatalogContent
    <2> QED BY <2>4, <2>6 DEF Right
  <1>2. TypeOK /\ WritesWhatIsAsked /\ [Next]_vars =>
          [\A w \in faithful :
             (SetProperties(w) \/ AnswerLost(w)) /\ props' # props =>
                 /\ Right'
                 /\ \A name \in DOMAIN props :
                        Parse(CatalogContent)[name] = "" =>
                            props'[name] = props[name]]_vars
    BY <1>1 DEF Check, Failure
  <1> QED BY <1>2, TypeCorrect, WritesAsked, PTL DEF Spec, SetsWhatIsAsked

-----------------------------------------------------------------------------
(* One worker, and an app's branch nobody else touches.                    *)

UntouchedNext ==
    \/ EditCatalog \/ RemoveWorkflow \/ SetByHand \/ RunWorkflow
    \/ \E w \in Workers : Check(w) \/ Failure(w)

LEMMA UntouchedIsSpec == UntouchedSpec => Spec
  <1>1. [UntouchedNext]_vars => [Next]_vars
    BY DEF UntouchedNext, Next, People
  <1> QED BY <1>1, PTL DEF UntouchedSpec, UntouchedNext, Spec

\* A worker alone disturbs itself only by a listing that misses the open pull
\* request.
LEMMA MissingDisturbs ==
  ASSUME \A v, w \in Workers : v = w, TypeOK, UntouchedNext,
         NEW u \in disturbed' \ disturbed
  PROVE  ListingMisses(u)
  <1>1. ASSUME EditCatalog \/ RemoveWorkflow \/ SetByHand \/ RunWorkflow
        PROVE  FALSE
    BY <1>1 DEF EditCatalog, RemoveWorkflow, SetByHand, RunWorkflow, history
  <1>2. PICK w \in Workers : Check(w) \/ Failure(w)
    BY <1>1 DEF UntouchedNext
  <1>3. Watchers \subseteq {w}
    BY DEF Watchers
  <1>4. ASSUME NEW seen \in SUBSET {w}, Return(w, seen)
        PROVE  FALSE
    BY <1>4 DEF Return
  <1>5. ASSUME NEW call, NEW j, Continue(w, call, j) \/ Wrote(w, call, j)
        PROVE  FALSE
    BY <1>3, <1>5 DEF Continue, Wrote, history
  <1>6. CASE Start(w) \/ SetProperties(w)
    BY <1>6 DEF Start, SetProperties
  <1>7. CASE ReadYaml(w) \/ ReadYml(w)
    BY <1>5, <1>7 DEF ReadYaml, ReadYml, Parsed
  <1>8. CASE ReadProperties(w)
    BY <1>4, <1>5, <1>8 DEF ReadProperties
  <1>9. CASE \/ ListPullRequests(w) \/ LookForOurBranch(w)
             \/ DeleteStaleBranch(w) \/ LookForDefaultBranch(w)
             \/ CreateOurBranch(w) \/ CommitFile(w)
    BY <1>5, <1>9
    DEF ListPullRequests, LookForOurBranch, DeleteStaleBranch,
        LookForDefaultBranch, CreateOurBranch, CommitFile
  <1>10. CASE OpenPullRequest(w) \/ Refused(w) \/ CallFails(w)
    BY <1>3, <1>4, <1>10 DEF OpenPullRequest, Refused, CallFails
  <1>11. CASE AnswerLost(w)
    BY <1>3, <1>4, <1>11 DEF AnswerLost
  <1>12. CASE ListingMisses(w)
    <2>1. u = w
      BY <1>12 DEF ListingMisses
    <2> QED BY <1>12, <2>1
  <1> QED BY <1>2, <1>6, <1>7, <1>8, <1>9, <1>10, <1>11, <1>12
          DEF Check, Failure

\* A step that closes the pull request takes the deletion of a worker with a
\* wrong snapshot.
LEMMA DisturbedCloses ==
  ASSUME ViewExact, UntouchedNext, ~(open \subseteq open')
  PROVE  \E w \in disturbed : pc[w] = "delete"
  <1>1. ASSUME NEW w \in Workers, pc[w] = "delete", DeleteBranch(Own)
        PROVE  w \in disturbed
    <2>1. Own \in open
      BY <1>1 DEF DeleteBranch
    <2> QED BY <1>1, <2>1 DEF ViewExact, View, Deciding, Writing
  <1>2. ASSUME EditCatalog \/ RemoveWorkflow \/ SetByHand \/ RunWorkflow
        PROVE  FALSE
    BY <1>2
    DEF EditCatalog, RemoveWorkflow, RemoveFile, SetByHand, RunWorkflow,
        ownRefs, ownRepo
  <1>3. PICK w \in Workers : Check(w) \/ Failure(w)
    BY <1>2 DEF UntouchedNext
  <1>4. CASE DeleteStaleBranch(w)
    BY <1>1, <1>4 DEF DeleteStaleBranch
  <1>5. CASE CreateOurBranch(w)
    BY <1>5 DEF CreateOurBranch, CreateBranch
  <1>6. CASE CommitFile(w)
    BY <1>6 DEF CommitFile, Commit, CreateOrUpdateFile
  <1>7. CASE OpenPullRequest(w)
    BY <1>7 DEF OpenPullRequest, CreatePullRequest
  <1>8. CASE AnswerLost(w)
    BY <1>1, <1>8
    DEF AnswerLost, CreateBranch, Commit, CreateOrUpdateFile,
        CreatePullRequest, ownRepo
  <1>9. CASE UNCHANGED ownRepo
    BY <1>9 DEF ownRepo
  <1> QED BY <1>3, <1>4, <1>5, <1>6, <1>7, <1>8, <1>9
          DEF Check, Failure, Start, ListPullRequests, ReadYaml, ReadYml,
              ReadProperties, SetProperties, LookForOurBranch,
              LookForDefaultBranch, Refused, CallFails, ListingMisses, world

\* With one worker, and nobody else at the app's branch, the app's pull request is
\* closed only by a check whose listing has missed it, whatever else fails.
THEOREM OneWorkerClosesOnlyMissed ==
  ASSUME \A v, w \in Workers : v = w
  PROVE  UntouchedSpec => ClosesOnlyWhatItMissed
  <1>1. TypeOK /\ ViewExact /\ [UntouchedNext]_vars =>
          [/\ \A w \in disturbed' \ disturbed : ListingMisses(w)
           /\ \/ open \subseteq open'
              \/ \E w \in disturbed : pc[w] = "delete"]_vars
    BY MissingDisturbs, DisturbedCloses
  <1> QED BY <1>1, UntouchedIsSpec, TypeCorrect, ViewIsExact, PTL
          DEF UntouchedSpec, UntouchedNext, ClosesOnlyWhatItMissed
=============================================================================
