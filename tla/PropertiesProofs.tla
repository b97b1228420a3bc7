-------------------------- MODULE PropertiesProofs --------------------------
(***************************************************************************)
(* Proofs about Properties, for any number of workers, any paths and any   *)
(* strings in the catalog and the properties.                              *)
(***************************************************************************)
EXTENDS Properties, TLAPS

-----------------------------------------------------------------------------
(* What the catalog asks for.                                              *)

LEMMA ParseType ==
  ASSUME NEW c \in Content
  PROVE  Parse(c) \in Properties
  BY ValuesAssumption
  DEF Content, Properties, Parse, Defaults, Or, DefaultOwner, DefaultComponent

LEMMA WithType ==
  ASSUME NEW current \in Properties, NEW desired \in Properties
  PROVE  With(current, desired) \in Properties
  BY DEF Properties, With, Or

LEMMA RenderedType ==
  ASSUME NEW desired \in Properties
  PROVE  Rendered(desired) = desired
  BY DEF Properties, Rendered

LEMMA DefaultsType == Defaults \in Properties
  BY ValuesAssumption
  DEF Properties, Defaults, DefaultOwner, DefaultComponent

LEMMA NothingType == Nothing \in Content
  BY ValuesAssumption DEF Content, Nothing

LEMMA NoJobType == NoJob \in Job
  BY DefaultsType DEF NoJob, Job

LEMMA NamesType ==
  /\ Own \in Branches /\ TargetPath \in Path
  /\ {Yaml, Yml, Workflow} \subseteq Path
  /\ Yaml # Yml
  BY PropertiesAssumption DEF Own, TargetPath, Yaml, Yml, Workflow

\* Properties that are right do not differ from what is asked for.
LEMMA RightDoesNotDiffer ==
  ASSUME TypeOK, Right
  PROVE  ~Differs(Parse(CatalogContent), props)
  <1>1. CatalogContent \in Content
    BY NamesType DEF TypeOK, CatalogContent
  <1> DEFINE wanted == Parse(CatalogContent)
  <1>2. /\ wanted.Owner # "" /\ wanted.Component # ""
        /\ wanted \in Properties
    BY <1>1, ParseType
    DEF Parse, Defaults, Or, DefaultOwner, DefaultComponent
  <1> HIDE DEF wanted
  <1>3. \A name \in DOMAIN props : wanted[name] \in {"", props[name]}
    BY DEF Right, wanted
  <1>4. DOMAIN props = {"Owner", "Component", "JiraProject", "JiraLabel"}
    BY DEF TypeOK, Properties
  <1>5. /\ wanted.Owner = props.Owner /\ wanted.Component = props.Component
        /\ wanted.JiraProject \in {"", props.JiraProject}
        /\ wanted.JiraLabel \in {"", props.JiraLabel}
    BY <1>2, <1>3, <1>4
  <1> QED BY <1>5 DEF Differs, wanted

-----------------------------------------------------------------------------
(* Types.                                                                  *)

\* What a worker's step has to keep the types of, the repository left out.
WorkerTypeOK ==
    /\ pc \in [Workers -> Calls \cup {"idle"}]
    /\ job \in [Workers -> Job]
    /\ disturbed \subseteq Workers
    /\ settled \subseteq faithful /\ faithful \subseteq Workers

WorldTypeOK ==
    /\ RepoTypeOK
    /\ mode \in Modes
    /\ catalog \in [{Yaml, Yml} -> Content]
    /\ script \in Properties /\ offered \in Properties /\ props \in Properties
    /\ due \in BOOLEAN

LEMMA TypeOKIs ==
  ASSUME WorldTypeOK', WorkerTypeOK'
  PROVE  TypeOK'
  BY DEF TypeOK, WorldTypeOK, WorkerTypeOK

LEMMA StillTypeOK ==
  ASSUME TypeOK, UNCHANGED <<world, mode>>
  PROVE  WorldTypeOK'
  BY DEF TypeOK, WorldTypeOK, RepoTypeOK, world, ownRepo

\* The ways a worker's step ends.
LEMMA StepType ==
  ASSUME TypeOK, NEW w \in Workers,
         \/ \E seen \in SUBSET Workers : Return(w, seen)
         \/ \E call \in Calls, j \in Job : Continue(w, call, j)
         \/ \E call \in Calls, j \in Job : Wrote(w, call, j)
  PROVE  WorkerTypeOK'
  <1>1. CASE \E seen \in SUBSET Workers : Return(w, seen)
    BY <1>1, NoJobType DEF TypeOK, WorkerTypeOK, Return
  <1>2. CASE \E call \in Calls, j \in Job : Continue(w, call, j)
    BY <1>2 DEF TypeOK, WorkerTypeOK, Continue, history
  <1>3. CASE \E call \in Calls, j \in Job : Wrote(w, call, j)
    BY <1>3 DEF TypeOK, WorkerTypeOK, Wrote, Watchers
  <1> QED BY <1>1, <1>2, <1>3

\* The writes to the app's branch keep the repository's types.
LEMMA WritesType ==
  ASSUME TypeOK,
         \/ DeleteBranch(Own)
         \/ \E from \in SUBSET Path : CreateBranch(Own, from)
         \/ CreateOrUpdateFile(Own, TargetPath)
         \/ CreatePullRequest(Own)
  PROVE  RepoTypeOK'
  <1> USE NamesType DEF TypeOK, RepoTypeOK
  <1>1. CASE DeleteBranch(Own)
    BY <1>1 DEF DeleteBranch
  <1>2. CASE \E from \in SUBSET Path : CreateBranch(Own, from)
    BY <1>2 DEF CreateBranch
  <1>3. CASE CreateOrUpdateFile(Own, TargetPath)
    BY <1>3 DEF CreateOrUpdateFile
  <1>4. CASE CreatePullRequest(Own)
    BY <1>4 DEF CreatePullRequest
  <1> QED BY <1>1, <1>2, <1>3, <1>4

LEMMA CommitType ==
  ASSUME TypeOK, NEW w \in Workers, Commit(w)
  PROVE  WorldTypeOK'
  <1>1. RepoTypeOK'
    BY WritesType DEF Commit
  <1>2. offered' \in Properties
    <2>1. job[w].desired \in Properties
      BY DEF TypeOK, Job
    <2> QED BY <2>1, RenderedType DEF Commit, TypeOK
  <1> QED BY <1>1, <1>2 DEF Commit, TypeOK, WorldTypeOK

LEMMA CheckType ==
  ASSUME TypeOK, NEW w \in Workers, Check(w)
  PROVE  TypeOK'
  <1>1. job[w] \in Job /\ NoJob \in Job /\ {} \in SUBSET Workers
    BY NoJobType DEF TypeOK
  <1>2. Watchers \in SUBSET Workers
    BY DEF Watchers
  <1>3. Deciding \subseteq Calls /\ Writing \subseteq Calls /\ "list" \in Calls
    BY DEF Calls, Deciding
  <1>4. ASSUME NEW c \in Content, Parsed(w, c)
        PROVE  WorkerTypeOK'
    <2> DEFINE found == c.form # "empty"
               i == [job[w] EXCEPT !.found = found]
               j == [i EXCEPT !.desired = Parse(c)]
    <2>1. found \in BOOLEAN /\ Parse(c) \in Properties
      BY ParseType
    <2>2. i \in Job
      BY <1>1, <2>1 DEF Job
    <2>3. j \in Job
      BY <2>1, <2>2 DEF Job
    <2>4. Continue(w, "properties", j)
      BY <1>4 DEF Parsed
    <2> QED BY <1>3, <2>3, <2>4, StepType DEF Deciding
  <1>5. CASE Start(w)
    <2>1. WorkerTypeOK'
      BY <1>3, <1>5 DEF Start, TypeOK, WorkerTypeOK
    <2> QED BY <1>5, <2>1, StillTypeOK, TypeOKIs DEF Start
  <1>6. CASE ListPullRequests(w)
    <2> DEFINE j == [NoJob EXCEPT !.listed = FindPropertiesPR]
    <2>1. j \in Job
      <3>1. FindPropertiesPR \in BOOLEAN
        BY DEF FindPropertiesPR
      <3> QED BY <1>1, <3>1 DEF Job
    <2>2. Continue(w, "yaml", j)
      BY <1>6 DEF ListPullRequests
    <2>3. WorkerTypeOK'
      BY <1>3, <2>1, <2>2, StepType DEF Deciding
    <2> QED BY <1>6, <2>3, StillTypeOK, TypeOKIs DEF ListPullRequests
  <1>7. CASE ReadYaml(w)
    <2>1. catalog[Yaml] \in Content
      BY DEF TypeOK
    <2>2. CASE Continue(w, "yml", job[w])
      BY <1>1, <1>3, <1>7, <2>2, StepType, StillTypeOK, TypeOKIs
      DEF ReadYaml, Deciding
    <2>3. CASE Parsed(w, catalog[Yaml])
      BY <1>4, <1>7, <2>1, <2>3, StillTypeOK, TypeOKIs DEF ReadYaml
    <2> QED BY <1>7, <2>2, <2>3 DEF ReadYaml
  <1>8. CASE ReadYml(w)
    <2>1. catalog[Yml] \in Content
      BY DEF TypeOK
    <2> QED BY <1>4, <1>8, <2>1, StillTypeOK, TypeOKIs DEF ReadYml
  <1>9. CASE ReadProperties(w)
    <2>1. \/ Return(w, {}) \/ Continue(w, "ourBranch", job[w])
          \/ Continue(w, "set", job[w])
      BY <1>9 DEF ReadProperties
    <2>2. WorkerTypeOK'
      BY <1>1, <1>3, <2>1, StepType DEF Writing
    <2> QED BY <1>9, <2>2, StillTypeOK, TypeOKIs DEF ReadProperties
  <1>10. CASE SetProperties(w)
    <2>1. WorkerTypeOK'
      BY <1>1, <1>3, <1>10 DEF SetProperties, TypeOK, WorkerTypeOK, Writing
    <2>2. props' \in Properties
      BY <1>1, <1>10, WithType DEF SetProperties, TypeOK, Job
    <2>3. RepoTypeOK'
      BY <1>10 DEF SetProperties, ownRepo, TypeOK, RepoTypeOK
    <2> QED BY <1>10, <2>1, <2>2, <2>3, TypeOKIs
            DEF SetProperties, TypeOK, WorldTypeOK
  <1>11. CASE LookForOurBranch(w)
    <2>1. Cleanup \in Calls
      BY <1>3 DEF Cleanup, Writing
    <2> QED BY <1>1, <1>11, <2>1, StepType, StillTypeOK, TypeOKIs
            DEF LookForOurBranch
  <1>12. CASE DeleteStaleBranch(w)
    <2>1. WorkerTypeOK'
      BY <1>1, <1>3, <1>12, StepType DEF DeleteStaleBranch, Writing
    <2> QED BY <1>12, <2>1, WritesType, TypeOKIs
            DEF DeleteStaleBranch, TypeOK, WorldTypeOK
  <1>13. CASE LookForDefaultBranch(w)
    <2> DEFINE j == [job[w] EXCEPT !.from = files \cap {TargetPath}]
    <2>1. j \in Job
      <3>1. files \cap {TargetPath} \in SUBSET Path
        BY NamesType
      <3> QED BY <1>1, <3>1 DEF Job
    <2>2. Continue(w, "create", j)
      BY <1>13 DEF LookForDefaultBranch
    <2>3. WorkerTypeOK'
      BY <1>3, <2>1, <2>2, StepType DEF Writing
    <2> QED BY <1>13, <2>3, StillTypeOK, TypeOKIs DEF LookForDefaultBranch
  <1>14. CASE CreateOurBranch(w)
    <2>1. job[w].from \in SUBSET Path
      BY <1>1 DEF Job
    <2>2. WorkerTypeOK'
      BY <1>1, <1>3, <1>14, StepType DEF CreateOurBranch, Writing
    <2> QED BY <1>14, <2>1, <2>2, WritesType, TypeOKIs
            DEF CreateOurBranch, TypeOK, WorldTypeOK
  <1>15. CASE CommitFile(w)
    <2>1. WorkerTypeOK'
      BY <1>1, <1>3, <1>15, StepType DEF CommitFile, Writing
    <2> QED BY <1>15, <2>1, CommitType, TypeOKIs DEF CommitFile
  <1>16. CASE OpenPullRequest(w)
    <2>1. WorkerTypeOK'
      BY <1>2, <1>16, StepType DEF OpenPullRequest
    <2> QED BY <1>16, <2>1, WritesType, TypeOKIs
            DEF OpenPullRequest, TypeOK, WorldTypeOK
  <1>17. CASE Refused(w)
    BY <1>1, <1>17, StepType, StillTypeOK, TypeOKIs DEF Refused
  <1> QED BY <1>5, <1>6, <1>7, <1>8, <1>9, <1>10, <1>11, <1>12, <1>13, <1>14,
             <1>15, <1>16, <1>17 DEF Check

LEMMA FailureType ==
  ASSUME TypeOK, NEW w \in Workers, Failure(w)
  PROVE  TypeOK'
  <1>1. Watchers \in SUBSET Workers /\ {} \in SUBSET Workers
    BY DEF Watchers
  <1>2. job[w] \in Job /\ NoJob \in Job
    BY NoJobType DEF TypeOK
  <1>3. CASE CallFails(w)
    BY <1>1, <1>3, StepType, StillTypeOK, TypeOKIs DEF CallFails
  <1>4. CASE /\ \/ DeleteBranch(Own)
                \/ CreateBranch(Own, job[w].from)
                \/ CreatePullRequest(Own)
             /\ UNCHANGED <<catalog, script, offered, due, props, mode>>
             /\ Return(w, Watchers)
    <2>1. job[w].from \in SUBSET Path
      BY <1>2 DEF Job
    <2>2. WorkerTypeOK'
      BY <1>1, <1>4, StepType
    <2> QED BY <1>4, <2>1, <2>2, WritesType, TypeOKIs DEF TypeOK, WorldTypeOK
  <1>5. CASE Commit(w) /\ Return(w, Watchers)
    BY <1>1, <1>5, StepType, CommitType, TypeOKIs
  <1>6. CASE /\ props' = With(props, job[w].desired)
             /\ pc' = [pc EXCEPT ![w] = "idle"]
             /\ job' = [job EXCEPT ![w] = NoJob]
             /\ disturbed' = disturbed \ {w}
             /\ faithful' = faithful \ {w}
             /\ settled' = {}
             /\ UNCHANGED <<ownRepo, catalog, script, offered, due, mode>>
    <2>1. WorkerTypeOK'
      BY <1>2, <1>6 DEF TypeOK, WorkerTypeOK
    <2>2. props' \in Properties
      BY <1>2, <1>6, WithType DEF TypeOK, Job
    <2>3. RepoTypeOK'
      BY <1>6 DEF ownRepo, TypeOK, RepoTypeOK
    <2> QED BY <1>6, <2>1, <2>2, <2>3, TypeOKIs DEF TypeOK, WorldTypeOK
  <1>7. CASE ListingMisses(w)
    <2>1. WorkerTypeOK'
      <3>1. "yaml" \in Calls \cup {"idle"}
        BY DEF Calls, Deciding
      <3>2. pc' \in [Workers -> Calls \cup {"idle"}]
        BY <3>1, <1>7 DEF ListingMisses, TypeOK
      <3>3. job' \in [Workers -> Job]
        BY <1>2, <1>7 DEF ListingMisses, TypeOK
      <3> QED BY <1>7, <3>2, <3>3 DEF ListingMisses, TypeOK, WorkerTypeOK
    <2> QED BY <1>7, <2>1, StillTypeOK, TypeOKIs DEF ListingMisses
  <1> QED BY <1>3, <1>4, <1>5, <1>6, <1>7 DEF Failure, AnswerLost

LEMMA PeopleType ==
  ASSUME TypeOK, People \/ RunWorkflow
  PROVE  TypeOK'
  <1>1. Watchers \in SUBSET Workers
    BY DEF Watchers
  <1>2. \A p \in Path : p \in files \/ p \notin files
    OBVIOUS
  <1>3. ASSUME Pushed PROVE due' \in BOOLEAN
    BY <1>3 DEF Pushed, TypeOK
  <1>4. CASE Merge
    <2>1. RepoTypeOK'
      BY <1>4, NamesType DEF Merge, MergeOwn, TypeOK, RepoTypeOK
    <2>2. /\ script' \in Properties
          /\ catalog' \in [{Yaml, Yml} -> Content]
      BY <1>4, PropertiesAssumption DEF Merge, TypeOK
    <2>3. WorkerTypeOK'
      BY <1>1, <1>4 DEF Merge, TypeOK, WorkerTypeOK
    <2> QED BY <1>3, <1>4, <2>1, <2>2, <2>3, TypeOKIs
            DEF Merge, TypeOK, WorldTypeOK
  <1>5. CASE TouchOwn
    <2>1. RepoTypeOK'
      BY <1>5, WritesType, NamesType
      DEF TouchOwn, CloseOwn, ReopenOwn, DeleteOwn, TypeOK, RepoTypeOK
    <2>2. WorkerTypeOK'
      BY <1>1, <1>5 DEF TouchOwn, TypeOK, WorkerTypeOK
    <2> QED BY <1>5, <2>1, <2>2, TypeOKIs DEF TouchOwn, TypeOK, WorldTypeOK
  <1>6. CASE EditCatalog
    <2>1. /\ RepoTypeOK'
          /\ catalog' \in [{Yaml, Yml} -> Content]
      BY <1>6, NamesType, NothingType, PropertiesAssumption
      DEF EditCatalog, ownRefs, TypeOK, RepoTypeOK
    <2>2. WorkerTypeOK'
      BY <1>6 DEF EditCatalog, TypeOK, WorkerTypeOK
    <2> QED BY <1>3, <1>6, <2>1, <2>2, TypeOKIs
            DEF EditCatalog, TypeOK, WorldTypeOK
  <1>7. CASE RemoveWorkflow
    BY <1>7
    DEF RemoveWorkflow, RemoveFile, ownRefs, history, TypeOK, RepoTypeOK
  <1>8. CASE SetByHand
    BY <1>8, PropertiesAssumption DEF SetByHand, ownRepo, TypeOK, RepoTypeOK
  <1>9. CASE RunWorkflow
    BY <1>9 DEF RunWorkflow, ownRepo, TypeOK, RepoTypeOK
  <1> QED BY <1>4, <1>5, <1>6, <1>7, <1>8, <1>9 DEF People

\* Every variable has its type, in every reachable state.
THEOREM TypeCorrect == Spec => []TypeOK
  <1>1. Init => TypeOK
    <2> SUFFICES ASSUME Init PROVE TypeOK
      OBVIOUS
    <2>1. RepoTypeOK
      BY DEF Init, RepoInit, RepoTypeOK
    <2>2. catalog \in [{Yaml, Yml} -> Content]
      BY NothingType, PropertiesAssumption DEF Init
    <2>3. /\ script \in Properties /\ offered \in Properties
          /\ props \in Properties
      BY DefaultsType, PropertiesAssumption DEF Init
    <2>4. /\ pc \in [Workers -> Calls \cup {"idle"}]
          /\ job \in [Workers -> Job]
      BY NoJobType DEF Init
    <2> QED BY <2>1, <2>2, <2>3, <2>4 DEF Init, TypeOK
  <1>2. TypeOK /\ [Next]_vars => TypeOK'
    <2> SUFFICES ASSUME TypeOK, [Next]_vars PROVE TypeOK'
      OBVIOUS
    <2>1. CASE Next
      BY <2>1, PeopleType, CheckType, FailureType DEF Next
    <2>2. CASE UNCHANGED vars
      BY <2>2 DEF vars, TypeOK, RepoTypeOK
    <2> QED BY <2>1, <2>2
  <1> QED BY <1>1, <1>2, PTL DEF Spec

-----------------------------------------------------------------------------
(* What a worker nobody has disturbed believes of the app's branch.        *)

View(w) ==
    LET j == job[w] IN
    /\ pc[w] \in Deciding => (j.listed <=> Own \in open)
    /\ pc[w] \in Writing \ {"set"} => ~j.listed
    /\ pc[w] = "commit" => added[Own] = {}
    /\ pc[w] = "openPR" =>
           /\ added[Own] = {TargetPath}
           /\ mode = "github-action" => offered = j.desired

ViewExact == \A w \in Workers \ disturbed : View(w)

\* A step that leaves the app's branch alone can only spoil the view of the
\* worker that takes it.
LEMMA ReadersKeep ==
  ASSUME TypeOK, ViewExact, NEW w \in Workers,
         UNCHANGED <<added, open, offered, mode>>,
         disturbed \subseteq disturbed' \cup {w},
         \A v \in Workers \ {w} : pc'[v] = pc[v] /\ job'[v] = job[v],
         w \notin disturbed' => View(w)'
  PROVE  ViewExact'
  BY DEF View, ViewExact, Own, TargetPath

\* A step that writes to the branch or its pull request disturbs every other
\* worker that has a view of it.
LEMMA WritersKeep ==
  ASSUME TypeOK, NEW w \in Workers,
         Watchers \ {w} \subseteq disturbed',
         \A v \in Workers \ {w} : pc'[v] = pc[v],
         w \notin disturbed' => View(w)'
  PROVE  ViewExact'
  BY DEF Watchers, View, ViewExact, Deciding, Writing

LEMMA ReturnView ==
  ASSUME TypeOK, ViewExact, NEW w \in Workers, NEW seen \in SUBSET Workers,
         Return(w, seen),
         \/ Watchers \subseteq seen
         \/ UNCHANGED <<added, open, offered, mode>>
  PROVE  ViewExact'
  <1>1. View(w)'
    BY DEF Return, View, TypeOK, Deciding, Writing
  <1>2. CASE Watchers \subseteq seen
    BY <1>1, <1>2, WritersKeep DEF Return, TypeOK
  <1>3. CASE UNCHANGED <<added, open, offered, mode>>
    BY <1>1, <1>3, ReadersKeep DEF Return, TypeOK
  <1> QED BY <1>2, <1>3

LEMMA CheckView ==
  ASSUME TypeOK, ViewExact, NEW w \in Workers, Check(w)
  PROVE  ViewExact'
  <1>1. job[w] \in Job /\ NoJob \in Job /\ {} \in SUBSET Workers
    BY NoJobType DEF TypeOK
  <1>2. Watchers \in SUBSET Workers
    BY DEF Watchers
  <1>3. ASSUME UNCHANGED <<world, mode>>
        PROVE  UNCHANGED <<added, open, offered, mode>>
    BY <1>3 DEF world, ownRepo
  <1>4. ASSUME NEW call, NEW j, Continue(w, call, j), UNCHANGED <<world, mode>>,
               w \notin disturbed => View(w)'
        PROVE  ViewExact'
    BY <1>3, <1>4, ReadersKeep DEF Continue, history, TypeOK
  <1>5. ASSUME pc[w] \in {"yaml", "yml"}, NEW c \in Content, Parsed(w, c),
               UNCHANGED <<world, mode>>
        PROVE  ViewExact'
    <2> DEFINE i == [job[w] EXCEPT !.found = c.form # "empty"]
               j == [i EXCEPT !.desired = Parse(c)]
    <2>1. i \in Job /\ i.listed = job[w].listed
      <3>1. (c.form # "empty") \in BOOLEAN
        OBVIOUS
      <3> QED BY <1>1, <3>1 DEF Job
    <2>2. j.listed = job[w].listed
      BY <2>1 DEF Job
    <2>3. Continue(w, "properties", j)
      BY <1>5 DEF Parsed
    <2> HIDE DEF i, j
    <2>4. w \notin disturbed => View(w)'
      BY <1>3, <1>5, <2>2, <2>3
      DEF Continue, View, ViewExact, TypeOK, Deciding, Writing, Own
    <2> QED BY <1>4, <1>5, <2>3, <2>4
  <1>6. CASE Start(w)
    <2>1. View(w)'
      BY <1>6 DEF Start, View, TypeOK, Deciding, Writing
    <2> QED BY <1>3, <1>6, <2>1, ReadersKeep DEF Start, TypeOK
  <1>7. CASE ListPullRequests(w)
    <2> DEFINE j == [NoJob EXCEPT !.listed = FindPropertiesPR]
    <2>1. j.listed <=> Own \in open
      BY <1>1 DEF Job, FindPropertiesPR
    <2>2. Continue(w, "yaml", j)
      BY <1>7 DEF ListPullRequests
    <2> HIDE DEF j
    <2>3. View(w)'
      BY <1>3, <1>7, <2>1, <2>2
      DEF ListPullRequests, Continue, View, TypeOK, Deciding, Writing, Own
    <2> QED BY <1>4, <1>7, <2>2, <2>3 DEF ListPullRequests
  <1>8. CASE ReadYaml(w)
    <2>1. catalog[Yaml] \in Content
      BY DEF TypeOK
    <2>2. CASE Continue(w, "yml", job[w])
      <3>1. w \notin disturbed => View(w)'
        BY <1>3, <1>8, <2>2
        DEF ReadYaml, Continue, View, ViewExact, TypeOK, Deciding, Writing, Own
      <3> QED BY <1>4, <1>8, <2>2, <3>1 DEF ReadYaml
    <2>3. CASE Parsed(w, catalog[Yaml])
      BY <1>5, <1>8, <2>1, <2>3 DEF ReadYaml
    <2> QED BY <1>8, <2>2, <2>3 DEF ReadYaml
  <1>9. CASE ReadYml(w)
    <2>1. catalog[Yml] \in Content
      BY DEF TypeOK
    <2> QED BY <1>5, <1>9, <2>1 DEF ReadYml
  <1>10. CASE ReadProperties(w)
    <2>1. CASE Return(w, {})
      BY <1>1, <1>3, <1>10, <2>1, ReturnView DEF ReadProperties
    <2>2. ASSUME NEW call \in {"ourBranch", "set"}, Continue(w, call, job[w]),
                 call = "ourBranch" => ~job[w].listed
          PROVE  ViewExact'
      <3>1. w \notin disturbed => View(w)'
        BY <1>3, <1>10, <2>2
        DEF ReadProperties, Continue, View, ViewExact, TypeOK, Deciding,
            Writing, Own
      <3> QED BY <1>4, <1>10, <2>2, <3>1 DEF ReadProperties
    <2> QED BY <1>10, <2>1, <2>2 DEF ReadProperties
  <1>11. CASE SetProperties(w)
    <2>1. UNCHANGED <<added, open, offered, mode>>
      BY <1>11 DEF SetProperties, ownRepo
    <2>2. w \notin disturbed' /\ pc'[w] # "idle" =>
              w \notin disturbed /\ job'[w] = job[w] /\ ~job[w].listed
      BY <1>11 DEF SetProperties, TypeOK
    <2>3. pc'[w] \in {"idle", "ourBranch"}
      BY <1>11 DEF SetProperties, TypeOK
    <2>4. w \notin disturbed' => View(w)'
      BY <1>11, <2>1, <2>2, <2>3
      DEF SetProperties, View, ViewExact, Deciding, Writing, Own
    <2> QED BY <1>11, <2>1, <2>4, ReadersKeep DEF SetProperties, TypeOK
  <1>12. CASE LookForOurBranch(w)
    <2>1. Cleanup \in {"delete", "defaultBranch"}
      BY DEF Cleanup
    <2>2. w \notin disturbed => View(w)'
      BY <1>3, <1>12, <2>1
      DEF LookForOurBranch, Continue, View, ViewExact, TypeOK, Deciding,
          Writing, Own
    <2> QED BY <1>4, <1>12, <2>2 DEF LookForOurBranch
  <1>13. CASE DeleteStaleBranch(w)
    <2>1. w \notin disturbed' => View(w)'
      BY <1>13
      DEF DeleteStaleBranch, DeleteBranch, Wrote, View, ViewExact, TypeOK,
          Deciding, Writing, Own
    <2> QED BY <1>13, <2>1, WritersKeep DEF DeleteStaleBranch, Wrote, TypeOK
  <1>14. CASE LookForDefaultBranch(w)
    <2> DEFINE j == [job[w] EXCEPT !.from = files \cap {TargetPath}]
    <2>1. j.listed = job[w].listed
      BY <1>1 DEF Job
    <2>2. Continue(w, "create", j)
      BY <1>14 DEF LookForDefaultBranch
    <2> HIDE DEF j
    <2>3. w \notin disturbed => View(w)'
      BY <1>3, <1>14, <2>1, <2>2
      DEF LookForDefaultBranch, Continue, View, ViewExact, TypeOK, Deciding,
          Writing, Own
    <2> QED BY <1>4, <1>14, <2>2, <2>3 DEF LookForDefaultBranch
  <1>15. CASE CreateOurBranch(w)
    <2>1. added'[Own] = {} /\ open' = open /\ mode' = mode
      BY <1>15, NamesType
      DEF CreateOurBranch, CreateBranch, TypeOK, RepoTypeOK
    <2>2. w \notin disturbed' => View(w)'
      BY <1>15, <2>1
      DEF CreateOurBranch, Wrote, View, ViewExact, TypeOK, Deciding, Writing,
          Own
    <2> QED BY <1>15, <2>2, WritersKeep DEF CreateOurBranch, Wrote, TypeOK
  <1>16. CASE CommitFile(w)
    <2>1. /\ added'[Own] = added[Own] \cup {TargetPath}
          /\ open' = open /\ mode' = mode
      BY <1>16, NamesType
      DEF CommitFile, Commit, CreateOrUpdateFile, TypeOK, RepoTypeOK
    <2>2. mode = "github-action" => offered' = job[w].desired
      BY <1>1, <1>16, RenderedType DEF CommitFile, Commit, Job
    <2>3. pc'[w] = "openPR" /\ job'[w] = job[w]
      BY <1>16 DEF CommitFile, Wrote, TypeOK
    <2>4. w \notin disturbed' => View(w)'
      BY <1>16, <2>1, <2>2, <2>3
      DEF CommitFile, Wrote, View, ViewExact, Deciding, Writing, Own,
          TargetPath
    <2> QED BY <1>16, <2>4, WritersKeep DEF CommitFile, Wrote, TypeOK
  <1>17. CASE OpenPullRequest(w)
    BY <1>2, <1>17, ReturnView DEF OpenPullRequest
  <1>18. CASE Refused(w)
    BY <1>1, <1>3, <1>18, ReturnView DEF Refused
  <1> QED BY <1>6, <1>7, <1>8, <1>9, <1>10, <1>11, <1>12, <1>13, <1>14,
             <1>15, <1>16, <1>17, <1>18 DEF Check

LEMMA FailureView ==
  ASSUME TypeOK, ViewExact, NEW w \in Workers, Failure(w)
  PROVE  ViewExact'
  <1>1. Watchers \in SUBSET Workers /\ {} \in SUBSET Workers
    BY DEF Watchers
  <1>2. CASE CallFails(w)
    BY <1>1, <1>2, ReturnView DEF CallFails, world, ownRepo
  <1>3. CASE Return(w, Watchers)
    BY <1>1, <1>3, ReturnView
  <1>4. CASE /\ pc' = [pc EXCEPT ![w] = "idle"]
             /\ job' = [job EXCEPT ![w] = NoJob]
             /\ disturbed' = disturbed \ {w}
             /\ UNCHANGED <<ownRepo, catalog, script, offered, due, mode>>
    <2>1. View(w)'
      BY <1>4 DEF View, TypeOK, Deciding, Writing
    <2> QED BY <1>4, <2>1, ReadersKeep DEF ownRepo, TypeOK
  <1>5. CASE ListingMisses(w)
    <2>1. w \in disturbed' /\ disturbed \subseteq disturbed'
      BY <1>5 DEF ListingMisses
    <2> QED BY <1>5, <2>1, ReadersKeep DEF ListingMisses, world, ownRepo, TypeOK
  <1> QED BY <1>2, <1>3, <1>4, <1>5 DEF Failure, AnswerLost

LEMMA PeopleView ==
  ASSUME TypeOK, ViewExact, People \/ RunWorkflow
  PROVE  ViewExact'
  <1>1. CASE Merge \/ TouchOwn
    BY <1>1 DEF Merge, TouchOwn, Watchers, View, ViewExact, Deciding, Writing
  <1>2. CASE EditCatalog \/ RemoveWorkflow \/ SetByHand \/ RunWorkflow
    <2>1. UNCHANGED <<added, open, offered, mode, pc, job, disturbed>>
      BY <1>2
      DEF EditCatalog, RemoveWorkflow, RemoveFile, SetByHand, RunWorkflow,
          ownRefs, ownRepo, history
    <2> QED BY <2>1 DEF View, ViewExact, Own, TargetPath
  <1> QED BY <1>1, <1>2 DEF People

\* What a worker nobody has disturbed believes of its branch and pull request
\* is the truth.
THEOREM ViewIsExact == Spec => []ViewExact
  <1>1. Init => ViewExact
    BY DEF Init, View, ViewExact, Deciding, Writing
  <1>2. TypeOK /\ ViewExact /\ [Next]_vars => ViewExact'
    <2> SUFFICES ASSUME TypeOK, ViewExact, [Next]_vars PROVE ViewExact'
      OBVIOUS
    <2>1. CASE Next
      BY <2>1, CheckView, FailureView, PeopleView DEF Next
    <2>2. CASE UNCHANGED vars
      BY <2>2 DEF vars, View, ViewExact, Own, TargetPath
    <2> QED BY <2>1, <2>2
  <1> QED BY <1>1, <1>2, TypeCorrect, PTL DEF Spec

\* The branch a worker deletes has no open pull request, unless somebody else
\* wrote to the branch or its pull request after the listing.
THEOREM DeletesStale == Spec => []DeletesOnlyStale
  <1>1. ViewExact => DeletesOnlyStale
    BY DEF View, ViewExact, DeletesOnlyStale, Deciding, Writing
  <1> QED BY <1>1, ViewIsExact, PTL

\* The pull request a worker opens adds one file, and its workflow sets what
\* the worker found the catalog to ask for, unless somebody interfered.
THEOREM OffersWhatWasRead == Spec => []OffersWhatItRead
  <1>1. ViewExact => OffersWhatItRead
    BY DEF View, ViewExact, OffersWhatItRead, Deciding, Writing
  <1> QED BY <1>1, ViewIsExact, PTL

-----------------------------------------------------------------------------
(* What a worker knows of the catalog and the properties.                  *)

Reading(w) ==
    /\ w \in faithful /\ pc[w] = "yml" => catalog[Yaml].form = "empty"
    /\ w \in faithful /\ pc[w] \in Writing \cup {"properties"} =>
           job[w].desired = Parse(CatalogContent)
    /\ w \in settled => Right /\ pc[w] \notin Writing

ReadingExact == \A w \in Workers : Reading(w)

\* A step that leaves the catalog alone, and the properties unless it unsettles
\* everybody, can only spoil the knowledge of the worker that takes it.
LEMMA ReadingKeeps ==
  ASSUME TypeOK, ReadingExact, NEW w \in Workers, catalog' = catalog,
         props' = props \/ settled' = {},
         faithful' \subseteq faithful \cup {w},
         settled' \subseteq settled \cup {w},
         \A v \in Workers \ {w} : pc'[v] = pc[v] /\ job'[v] = job[v],
         Reading(w)'
  PROVE  ReadingExact'
  <1> SUFFICES ASSUME NEW v \in Workers \ {w} PROVE Reading(v)'
    BY DEF ReadingExact
  <1>1. Reading(v) /\ pc'[v] = pc[v] /\ job'[v] = job[v]
    BY DEF ReadingExact
  <1>2. (v \in faithful' => v \in faithful) /\ (v \in settled' => v \in settled)
    OBVIOUS
  <1>3. CatalogContent' = CatalogContent
    BY DEF CatalogContent
  <1>4. v \in settled' => (Right <=> Right')
    BY <1>3 DEF Right
  <1> QED BY <1>1, <1>2, <1>3, <1>4 DEF Reading

LEMMA ReturnReading ==
  ASSUME TypeOK, ReadingExact, NEW w \in Workers, NEW seen,
         Return(w, seen), catalog' = catalog, props' = props
  PROVE  ReadingExact'
  <1>1. Reading(w)'
    BY DEF Return, Reading, TypeOK, Writing
  <1> QED BY <1>1, ReadingKeeps DEF Return, TypeOK

LEMMA CheckReading ==
  ASSUME TypeOK, ReadingExact, NEW w \in Workers, Check(w)
  PROVE  ReadingExact'
  <1>1. job[w] \in Job /\ NoJob \in Job
    BY NoJobType DEF TypeOK
  <1>2. ASSUME UNCHANGED <<world, mode>>
        PROVE  catalog' = catalog /\ props' = props
    BY <1>2 DEF world
  <1>3. ASSUME NEW call, NEW j, Continue(w, call, j) \/ Wrote(w, call, j),
               catalog' = catalog, props' = props, Reading(w)'
        PROVE  ReadingExact'
    BY <1>3, ReadingKeeps DEF Continue, Wrote, history, TypeOK
  \* A worker that writes on writes what it wrote before.
  <1>4. ASSUME NEW call \in Writing, NEW j,
               Continue(w, call, j) \/ Wrote(w, call, j),
               catalog' = catalog, props' = props, pc[w] \in Writing,
               j.desired = job[w].desired
        PROVE  ReadingExact'
    <2>1. Reading(w)'
      BY <1>4
      DEF Continue, Wrote, history, Reading, ReadingExact, CatalogContent,
          Right, TypeOK, Writing
    <2> QED BY <1>3, <1>4, <2>1
  <1>5. ASSUME NEW c \in Content, Parsed(w, c), UNCHANGED <<world, mode>>,
               w \in faithful => c = CatalogContent
        PROVE  ReadingExact'
    <2> DEFINE i == [job[w] EXCEPT !.found = c.form # "empty"]
               j == [i EXCEPT !.desired = Parse(c)]
    <2>1. i \in Job
      <3>1. (c.form # "empty") \in BOOLEAN
        OBVIOUS
      <3> QED BY <1>1, <3>1 DEF Job
    <2>2. j.desired = Parse(c)
      BY <2>1 DEF Job
    <2>3. Continue(w, "properties", j)
      BY <1>5 DEF Parsed
    <2> HIDE DEF i, j
    <2>4. /\ pc'[w] = "properties" /\ job'[w] = j
          /\ faithful' = faithful /\ settled' = settled
      BY <2>3 DEF Continue, history, TypeOK
    <2>5. CatalogContent' = CatalogContent /\ (Right <=> Right')
      BY <1>2, <1>5 DEF CatalogContent, Right
    <2>6. Reading(w)'
      BY <1>5, <2>2, <2>4, <2>5 DEF Reading, ReadingExact, Writing
    <2> QED BY <1>2, <1>3, <1>5, <2>3, <2>6
  <1>6. CASE Start(w)
    <2>1. Reading(w)'
      BY <1>2, <1>6
      DEF Start, Reading, ReadingExact, Right, CatalogContent, TypeOK, Writing
    <2> QED BY <1>2, <1>6, <2>1, ReadingKeeps DEF Start, TypeOK
  <1>7. CASE ListPullRequests(w)
    <2>1. Reading(w)'
      BY <1>2, <1>7
      DEF ListPullRequests, Continue, history, Reading, ReadingExact, Right,
          CatalogContent, TypeOK, Writing
    <2> QED BY <1>2, <1>3, <1>7, <2>1 DEF ListPullRequests
  <1>8. CASE ReadYaml(w)
    <2>1. CASE catalog[Yaml].form = "empty"
      <3>1. Continue(w, "yml", job[w])
        BY <1>8, <2>1 DEF ReadYaml
      <3>2. Reading(w)'
        BY <1>2, <1>8, <2>1, <3>1
        DEF ReadYaml, Continue, history, Reading, ReadingExact, Right,
            CatalogContent, TypeOK, Writing
      <3> QED BY <1>2, <1>3, <1>8, <3>1, <3>2 DEF ReadYaml
    <2>2. CASE catalog[Yaml].form # "empty"
      <3>1. catalog[Yaml] \in Content /\ catalog[Yaml] = CatalogContent
        BY <2>2 DEF TypeOK, CatalogContent
      <3> QED BY <1>5, <1>8, <2>2, <3>1 DEF ReadYaml
    <2> QED BY <2>1, <2>2
  <1>9. CASE ReadYml(w)
    <2>1. catalog[Yml] \in Content
      BY DEF TypeOK
    <2>2. w \in faithful => catalog[Yml] = CatalogContent
      BY <1>9 DEF ReadYml, Reading, ReadingExact, CatalogContent
    <2> QED BY <1>5, <1>9, <2>1, <2>2 DEF ReadYml
  <1>10. CASE ReadProperties(w)
    <2>1. CASE Return(w, {})
      BY <1>2, <1>10, <2>1, ReturnReading DEF ReadProperties
    <2>2. ASSUME NEW call \in Writing, Continue(w, call, job[w]),
                 Differs(job[w].desired, props)
          PROVE  ReadingExact'
      <3>1. w \notin settled
        <4> SUFFICES ASSUME w \in settled PROVE FALSE
          OBVIOUS
        <4>1. Right /\ job[w].desired = Parse(CatalogContent)
          BY <1>10 DEF ReadProperties, Reading, ReadingExact, TypeOK
        <4> QED BY <2>2, <4>1, RightDoesNotDiffer
      <3>2. Reading(w)'
        BY <1>2, <1>10, <2>2, <3>1
        DEF ReadProperties, Continue, history, Reading, ReadingExact, Right,
            CatalogContent, TypeOK, Writing
      <3> QED BY <1>2, <1>3, <1>10, <2>2, <3>2 DEF ReadProperties
    <2> QED BY <1>10, <2>1, <2>2 DEF ReadProperties, Writing
  <1>11. CASE SetProperties(w)
    <2>1. pc'[w] # "idle" => job'[w] = job[w] /\ faithful' = faithful
      BY <1>11 DEF SetProperties, TypeOK
    <2>2. pc'[w] \in {"idle", "ourBranch"}
      BY <1>11 DEF SetProperties, TypeOK
    <2>3. Reading(w)'
      BY <1>11, <2>1, <2>2
      DEF SetProperties, Reading, ReadingExact, CatalogContent, Writing
    <2> QED BY <1>11, <2>3, ReadingKeeps DEF SetProperties, TypeOK
  <1>12. CASE LookForOurBranch(w)
    BY <1>2, <1>4, <1>12 DEF LookForOurBranch, Cleanup, Writing
  <1>13. CASE DeleteStaleBranch(w)
    BY <1>4, <1>13 DEF DeleteStaleBranch, Writing
  <1>14. CASE LookForDefaultBranch(w)
    <2> DEFINE j == [job[w] EXCEPT !.from = files \cap {TargetPath}]
    <2>1. j.desired = job[w].desired
      BY <1>1 DEF Job
    <2>2. Continue(w, "create", j)
      BY <1>14 DEF LookForDefaultBranch
    <2> HIDE DEF j
    <2> QED BY <1>2, <1>4, <1>14, <2>1, <2>2 DEF LookForDefaultBranch, Writing
  <1>15. CASE CreateOurBranch(w)
    BY <1>4, <1>15 DEF CreateOurBranch, Writing
  <1>16. CASE CommitFile(w)
    BY <1>4, <1>16 DEF CommitFile, Commit, Writing
  <1>17. CASE OpenPullRequest(w)
    BY <1>17, ReturnReading DEF OpenPullRequest
  <1>18. CASE Refused(w)
    BY <1>2, <1>18, ReturnReading DEF Refused
  <1> QED BY <1>6, <1>7, <1>8, <1>9, <1>10, <1>11, <1>12, <1>13, <1>14,
             <1>15, <1>16, <1>17, <1>18 DEF Check

LEMMA FailureReading ==
  ASSUME TypeOK, ReadingExact, NEW w \in Workers, Failure(w)
  PROVE  ReadingExact'
  <1>1. CASE /\ \E seen : Return(w, seen)
             /\ catalog' = catalog /\ props' = props
    BY <1>1, ReturnReading
  <1>2. CASE /\ pc' = [pc EXCEPT ![w] = "idle"]
             /\ job' = [job EXCEPT ![w] = NoJob]
             /\ faithful' = faithful \ {w} /\ settled' = {}
             /\ catalog' = catalog
    <2>1. Reading(w)'
      BY <1>2 DEF Reading, TypeOK, Writing
    <2> QED BY <1>2, <2>1, ReadingKeeps DEF TypeOK
  <1>3. CASE ListingMisses(w)
    <2>1. Reading(w)'
      BY <1>3 DEF ListingMisses, ReadingExact, Reading, TypeOK,
                                Writing, Right, CatalogContent, world
    <2> QED BY <1>3, <2>1, ReadingKeeps DEF ListingMisses, TypeOK, world
  <1> QED BY <1>1, <1>2, <1>3 DEF Failure, CallFails, AnswerLost, Commit, world

LEMMA PeopleReading ==
  ASSUME TypeOK, ReadingExact, People \/ RunWorkflow
  PROVE  ReadingExact'
  <1>1. /\ UNCHANGED <<pc, job>>
        /\ \/ faithful' = {} /\ settled' = {}
           \/ /\ faithful' = faithful /\ catalog' = catalog
              /\ \/ settled' = {}
                 \/ settled' = settled /\ props' = props
    BY DEF People, Merge, TouchOwn, EditCatalog, RemoveWorkflow, SetByHand,
           RunWorkflow, history
  <1> QED BY <1>1 DEF Reading, ReadingExact, Right, CatalogContent

\* What a worker has read is what the catalog asks for, and a worker that
\* began with right properties writes nothing, for as long as nobody changes
\* them.
THEOREM ReadingIsExact == Spec => []ReadingExact
  <1>1. Init => ReadingExact
    BY DEF Init, Reading, ReadingExact, Writing
  <1>2. TypeOK /\ ReadingExact /\ [Next]_vars => ReadingExact'
    <2> SUFFICES ASSUME TypeOK, ReadingExact, [Next]_vars PROVE ReadingExact'
      OBVIOUS
    <2>1. CASE Next
      BY <2>1, CheckReading, FailureReading, PeopleReading DEF Next
    <2>2. CASE UNCHANGED vars
      BY <2>2 DEF vars, Reading, ReadingExact, Right, CatalogContent
    <2> QED BY <2>1, <2>2
  <1> QED BY <1>1, <1>2, TypeCorrect, PTL DEF Spec

\* A repository whose properties are what its catalog asks for is left alone.
THEOREM RightLeftAlone == Spec => []RightIsLeftAlone
  <1>1. TypeOK /\ ReadingExact => RightIsLeftAlone
    BY DEF Reading, ReadingExact, RightIsLeftAlone, TypeOK
  <1> QED BY <1>1, TypeCorrect, ReadingIsExact, PTL

\* A worker about to write has in hand what the catalog asks for, unless a
\* catalog file has changed since its check began.
THEOREM WritesAsked == Spec => []WritesWhatIsAsked
  <1>1. TypeOK /\ ReadingExact => WritesWhatIsAsked
    BY DEF Reading, ReadingExact, WritesWhatIsAsked, TypeOK
  <1> QED BY <1>1, TypeCorrect, ReadingIsExact, PTL
=============================================================================
