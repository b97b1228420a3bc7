# repo-guardian in TLA+

repo-guardian is a GitHub App. It watches the repositories of its
installations, finds the ones that lack required files (CODEOWNERS,
Dependabot, Renovate), and opens a pull request that adds them; optionally it
keeps a repository's custom properties in step with its `catalog-info.yaml`.
This directory holds TLA+ modules that model the program, TLC configurations
that check them on small instances, and proofs of their main properties that
hold for every instance. All line numbers refer to the sources of this
repository.

## Inventory

| Component | State it keeps | Operations | How it interacts |
|---|---|---|---|
| Work queue, `internal/checker/queue.go` | buffered channel of jobs, `stopped`, mutex, WaitGroup, cancel function | `Enqueue`, `Start`, `Stop`, `Len`, `Accepting`, `worker`, `processJob` | producers (webhook handlers, the scheduler) call `Enqueue`; workers call the engine; `main` calls `Start` and `Stop` |
| Checker engine, `internal/checker/engine.go` | none between calls; its state is the repository at GitHub | `CheckRepo`, `findMissingFiles`, `createOrUpdatePR` | called by every worker, possibly twice at once for one repository; makes GitHub calls one at a time; decides by one listing of the open pull requests |
| Custom properties, `internal/checker/properties.go` | none between calls | `CheckCustomProperties`, `handleGHAMode`, `handleAPIMode`, `createCatalogInfoPR`, `cleanupStaleBranch`, `diffProperties`, `renderTemplate` | last step of `CheckRepo`; uses the listing made before the file rules were processed |
| Catalog parsing, `internal/catalog/catalog.go` | none | `Parse` | gives the properties step the values it wants |
| GitHub client, `internal/github/client.go` | map of installation clients under a mutex | the calls of the `Client` interface, paged listings, `getInstallClient` | shared by the scheduler; workers use a client scoped to an installation |
| Rate limit transport, `internal/github/ratelimit.go` | limit, remaining calls and reset time of one installation, under a mutex | `RoundTrip`, `waitIfNeeded`, `updateFromResponse` | under every GitHub call; shared by all workers of an installation |
| Scheduler, `internal/scheduler/scheduler.go` | a ticker | `Start`, `reconcileAll` | lists installations and repositories, enqueues each |
| Webhook handler, `internal/webhook/handler.go` | none | `ServeHTTP` and one handler per event | one goroutine per delivery; enqueues; answers 200 whatever `Enqueue` says |
| Program, `cmd/repo-guardian/main.go` | root context, two HTTP servers | `run`, `startServer`, `awaitShutdown`, `gracefulShutdown`, `handleReadyz` | starts everything; on a signal or a failed server cancels the root context, shuts the servers down, then stops the queue |
| File rules, `internal/rules/registry.go` | rules and templates, loaded once | `EnabledRules`, `Get`, `Load` | read by the engine |
| Configuration, `internal/config/config.go` | none after start-up | `Load` | constants of everything else |
| Metrics, deployment files, scripts | counters nobody reads; nothing | | |

What is hard in it:

* **Shutdown.** `Stop` closes the channel producers send on, cancels the
  context workers run under and waits for the workers, while producers and
  workers are at any of their steps.
* **Concurrent checks of one repository.** The queue does not remove
  duplicates: a webhook and a reconciliation, or two deliveries, put the same
  repository into the hands of two workers. `RFC.md:423` asks for one replica
  so that jobs are not duplicated, but one replica has several workers.
* **Decisions on a snapshot.** `CheckRepo` lists the pull requests once;
  everything it reads and writes later is decided by that list, while people
  and other workers change the repository.
* **Partial failure.** A check is a sequence of writes at GitHub without a
  transaction. It may stop after any of them, with the answer to the last one
  lost; the next check has to cope with what it left behind.
* **A shared budget.** Concurrent requests read, act on and overwrite one
  record of the rate limit, with answers in any order.

What makes each part correct:

* queue: no send on a closed channel, no job lost or processed twice, a refusal
  is immediate and final, workers leave only in a shutdown, `Stop` returns, and
  only after the workers;
* engine: deletes its branch only when no pull request is open from it; a pull
  request it opens has exactly the missing files; a covered rule is not
  reported; after any history repeated checks get each missing file offered, unless
  a pull request of an earlier check is still open;
* properties: the same for its two branches; a repository whose properties are
  right is left alone; one without a catalog file gets a pull request for it;
* rate limit: no call while the caller knows the budget to be spent; a refusal is
  waited out; nothing that was carried out is sent again; every call returns;
* scheduler, webhooks and program: a cycle reaches every repository that is
  installed all along; each is checked again and again, as long as a cycle fits into
  the queue and the workers keep up; the queue stops after the last delivery; the
  shutdown ends.

`PROJECT.json` lists the hazards line by line, with the properties that cover
each of them or the reason why none does.

## Modules

| Module | Models | Extends or uses |
|---|---|---|
| `JobLedger` | abstract: what the queue promises to those who submit jobs | |
| `FifoQueue` | abstract: the queue with atomic steps, as `Scheduler` and `Service` use it | |
| `WorkQueue` | `queue.go`, and the order in which `main.go` starts and stops it | instances of `JobLedger` and `FifoQueue` |
| `MCWorkQueue` | an instance for TLC | `WorkQueue` |
| `WorkQueueProofs` | proofs about the queue | `WorkQueue`, TLAPS |
| `GitHubRepo` | one repository at GitHub: the calls of `client.go`, and people | |
| `FileRules` | the rules of `registry.go` and the pull requests of others that match them | `GitHubRepo` |
| `Engine` | the file rules' part of `CheckRepo`, by several workers | `FileRules` |
| `MCEngine` | instances for TLC, and specifications that restrict who acts | `Engine` |
| `MCEngineCalm` | what repeated checks achieve once disturbances stop | `MCEngine` |
| `EngineProofs` | proofs about what the engine knows, finds and offers | `Engine`, TLAPS |
| `EngineStepProofs` | proofs about its steps: dry runs, missing templates, one worker | `EngineProofs` |
| `Catalog` | `catalog.Parse`, the comparison with the properties and the request that sets them | |
| `Properties` | `CheckCustomProperties` in both modes, by several workers | `GitHubRepo`, `Catalog` |
| `MCProperties` | instances for TLC, what repeated checks achieve, and gentler worlds | `Properties` |
| `PropertiesProofs` | proofs about what the custom properties step knows, writes and offers | `Properties`, TLAPS |
| `PropertiesStepProofs` | proofs about its steps: dry runs, the two modes, what a write achieves, one worker | `PropertiesProofs` |
| `RateLimit` | `ratelimit.go` under concurrent requests, GitHub's windows, the clock | |
| `MCRateLimit` | an instance for TLC | `RateLimit` |
| `RateLimitProofs` | proofs about the transport | `RateLimit`, TLAPS |
| `Scheduler` | `scheduler.go` over the paged listings of `client.go` | |
| `Service` | the program: scheduler, deliveries of `handler.go`, workers, `main.go` | `Scheduler`, instance of `FifoQueue` |
| `MCService` | an instance for TLC, and what the program gets to once disturbances stop | `Service` |
| `ServiceProofs` | proofs about the scheduler and the program | `Service`, TLAPS |

A definition whose name begins with `Bug` is a mutation: a plausible mistake in
the code that makes some property fail. None is used by a specification.

### WorkQueue

One variable per field of the queue (`mu`, `stopped`, `buffer` and `closed` for
the channel, `waiting` for the WaitGroup, `ctxDone` for the workers' context)
and a program counter per goroutine (`call` for producers, `pc` for workers,
`main`). `fate` records what has become of each job.

`Enqueue` and `Stop` are split into the steps between which another goroutine
can run: locking, reading the flag, the non-blocking send, unlocking; locking,
setting the flag, cancelling, closing, unlocking, waiting. Nothing in the model
says that a send and a close exclude each other: the mutex does.

| Action | Code |
|---|---|
| `Call`, `Lock`, `CheckStopped`, `TrySend`, `Unlock` | `Enqueue`, `queue.go:55-76` |
| `StartWorker`, `StartReturns` | `Start`, `queue.go:78-94` |
| `Receive`, `RangeEnds`, `Discard`, `Begin` | `worker`, `queue.go:125-143` |
| `ProcessJob` | `processJob`, `queue.go:145-182`: succeeds or fails |
| `StopLock` ... `StopWait` | `Stop`, `queue.go:96-110` |
| `CancelRoot` | the `cancel()` of `main.go:107`, or of a failed server, `main.go:143` |

`Start`'s comment says that it blocks until the context is cancelled
(`queue.go:79`). It returns as soon as the workers run, and `main.go` depends on
that; the model follows the code.

### GitHubRepo, FileRules and Engine

`GitHubRepo` keeps what the app's calls can tell about one repository: the
files of the default branch, for each branch the app uses whether it exists,
what it was cut from and what was committed to it, and whether a pull request is
open from it. `FileRules` adds which rules the pull requests of other people
match. The
operators named like methods of `client.go` say what a call returns or does.
What GitHub refuses is taken from how `client.go` calls it, and external:

* creating a file without naming the blob it replaces (`client.go:166-183`
  never names one) is refused if the branch has the file;
* creating a reference that exists, or deleting one that does not, is refused;
* a branch has at most one open pull request, and a pull request without a
  commit is refused;
* deleting a branch closes its pull request.

In `Engine` each GitHub call is one step of a worker, and `pc[w]` names the call
to come; the code between two calls is part of the step that takes the first
one's answer. `job[w]` holds the local variables. Four things can become of a
call: it is answered (the actions named after the code), refused by GitHub
(`Refused`), fails without effect (`CallFails`), or takes effect but the answer is
lost (`AnswerLost`); in the last three `CheckRepo` returns the error and leaves
what it has done. A fifth is peculiar to the listing of the pull requests, which
is paged (`client.go:83-103`): if one closes between two pages, another moves to a
page already read, and `ListingMisses` takes the answer without some of them. If the
app's own is among them, the worker counts as disturbed from then on. People
(`TouchOwn`, `Cover`, `Uncover`) may act between any two calls. A crash of the program is a `CallFails` or an `AnswerLost` of its workers:
the engine keeps nothing between checks.

Two variables are history and decide nothing. `disturbed` holds the workers
whose snapshot is wrong: somebody else has overtaken them, that is written to the
app's branch or pull request since the listing, or the listing has missed the app's
open pull request. `steady[w]` holds the rules that have been covered, by
a file or by a pull request of somebody else, or not covered, without a change
ever since the check of `w` began; it is emptied when `w` has found its missing
files and goes on to act on them.

### Catalog and Properties

A catalog file is empty or missing, something else than a Component, or a
Component with an owner, a name, a Jira project and a label, each of which may be
absent. `Parse` turns it into the four values the app wants; `Differs` is
`diffProperties`, which ignores a Jira property nobody asks for, and `With` is what
the properties are after the request of `desiredToPropertyValues`, which leaves
such a property out. `Rendered` gives what a workflow sets once its placeholders
are replaced: all four, the empty ones too.

`Properties` follows `Engine`: one call per step, the same outcomes of a call,
people between any two. A check starts with the listing of the pull requests, as
`CheckRepo` hands its own listing on to the step; the file rules, which come in
between, are an interval in which others act, and the step may not come at all
because they failed.

| Action | Code |
|---|---|
| `ListPullRequests` | `engine.go:75`, with `findPropertiesPR`, `properties.go:303` |
| `ReadYaml`, `ReadYml`, `ReadProperties` | `CheckCustomProperties`, `properties.go:39-86` |
| `SetProperties` | `handleAPIMode`, `properties.go:187-200` |
| `LookForOurBranch`, `DeleteStaleBranch` | `cleanupStaleBranch`, `properties.go:278-299` |
| `LookForDefaultBranch` ... `OpenPullRequest` | the rest of `handleGHAMode` or of `createCatalogInfoPR` |
| `Merge`, `TouchOwn`, `EditCatalog`, `RemoveWorkflow`, `SetByHand` | people, external |
| `RunWorkflow` | `set-custom-properties.tmpl` on the default branch: after a push it sets all four properties, or fails |

A merge of the app's pull request brings the offered workflow to the default
branch (github-action mode), or a catalog file that the person may have filled in
(api mode). `due` says that a push has yet to run the workflow: every push to the
default branch runs it, not only the merge that brought it.

History: `disturbed` as in `Engine`; `faithful` holds the workers since whose start
no catalog file has changed; `settled` the faithful ones that began with the
properties as the catalog wants them, and no property has changed since.

### RateLimit

A caller is a goroutine in `RoundTrip`. Reading the record, the sleep, the request at
GitHub, the arrival of the answer and the second sleep are steps of their own, as
the mutex covers only the reads and the writes of the record. GitHub (external)
counts requests in windows, refuses for an empty window (`RefusePrimary`) or for
haste (`RefuseSecondary`), and may forbid a request for another reason; its answers
arrive in any order, with or without rate limit headers, or not at all.

Time is counted in seconds. Each duration is kept as what is left of it, and one
action, `Tick`, counts all of them down, so that there is no clock to bound. The
local clock is `Ahead` seconds ahead of GitHub's: the reset time in an answer
seems that much nearer.

| Action | Code |
|---|---|
| `Enter`, with `Throttled` and `Delay` | `waitIfNeeded`, `ratelimit.go:99-148` |
| `Wake` | `sleepWithContext`, `ratelimit.go:236-246` |
| `Grant`, `RefusePrimary`, `RefuseSecondary` | GitHub's side of `t.next.RoundTrip` |
| `Receive`, with `Update`, `Limited`, `RetryDelay` | `ratelimit.go:50-73` and `92-94` |
| `Fail` | a cancelled sleep, a request or an answer that is lost |

History: `latest` is the caller GitHub answered last, `recorded` says that the record
holds that answer, `informed[c]` that `c` acts on it, `owed[c]` what is left of the
wait GitHub asked of `c`, `carried[c]` that GitHub has done what `c` asked.

### Scheduler and Service

`Scheduler` is `reconcileAll` with a step per page of a listing, so that repositories
can be added or removed between two pages, and a step per offered repository, so
that workers and deliveries take and use the queue's places in between. `Enqueue` is one
step here, and so are a worker's `Receive` and `Stop`. That the code's mutex and channel
make them so is not taken on trust: `WorkQueue`, which has the inner steps, implements
`FifoQueue`, and `Service` uses its queue as a `FifoQueue` (`FifoSpec` in both). `Service` adds
the other goroutines: one per delivery (`Arrive`, `Dispatch`, `HookOffer`, `Answer`),
the workers, for which a check is a step that ends, and `main` with the failure of a
server, `Shutdown` and its timeout, and `Stop`. After the cancellation listings fail and
workers drop what they receive, each at its own time.

| Action | Code |
|---|---|
| `ListInstallations`, `InstallationsFail` | `scheduler.go:71-75`, `client.go:209-235` |
| `ListRepos`, `ReposFail` | `scheduler.go:80-88`, one page of `client.go:248-270` |
| `Offer`, `LoopEnds` | `scheduler.go:90-121` |
| `Tick`, `StopTicker` | `Start`, `scheduler.go:55-63` |
| `Arrive` ... `Answer` | `ServeHTTP`, `handler.go:32-138` |
| `Receive`, `ProcessJob`, `RangeEnds` | `worker`, `queue.go:125-143` |
| `ServerFails`, `Leave`, `Shutdown`, `Stop`, `Return` | `main.go:105-111` and `137-174` |

History: `offered` and `steady` hold the repositories that this cycle has offered, and
those installed since it began; `excused` the installations whose listing failed, or
lost an entry while it was read.

## Runs

| Run | Instance | What it shows |
|---|---|---|
| `queue` | 2 producers, 2 workers, 3 jobs, buffer of 2 | the queue's invariants, freedom from deadlock (`NobodyWaitsInVain`), `EnqueueReturns`, and that the queue implements `JobLedger` with its fairness, and `FifoQueue` |
| `queue_drain` | the same, with a buffer of 1 | violation: `Stop` does not drain the queue |
| `engine` | 1 worker, 2 rules, 3 paths, one rule with two paths; archived repositories; everything people do and every failure, then calm | invariants; what was missing all along is found and what was covered is not (`UncoveredIsMissing`, `CoveredIsNotMissing`); commits to a branch of its own are accepted but for a file added meanwhile (`OwnBranchTakesCommits`); `SelfHeals`, for a repository without a pull request of the app when it gets calm |
| `engine_race` | 2 workers, 2 rules; nobody adds files or pull requests of their own, no listing misses any | `ViewExact`, `DeletesOnlyStale` and `OffersWhatIsMissing` under concurrent checks |
| `engine_closes_pr` | 2 workers, nobody else, no failures | violation: one worker closes the pull request of the other |
| `engine_newly_missing` | 1 worker; files removed and pull requests of others closed | violation: a newly missing file is never added to the open pull request |
| `properties` | 1 worker, both modes, everything people do and every failure, then calm | right properties are left alone, what is written is what the catalog asks for (`WritesWhatIsAsked`), after the program's own write nothing is left to do (`SetsWhatIsAsked`), and `Converges`, in github-action mode for a repository without a pull request of the app when it gets calm |
| `properties_race` | 2 workers, both modes, every failure, people at the catalog and the app's pull request | what a worker deletes is stale and what it offers is what it read, unless somebody has overtaken it |
| `properties_closed_pr` | 1 worker, api mode, no failures, people only close the app's pull request | violation: it is never opened again |
| `properties_new_values` | 1 worker, github-action mode, no failures, people only merge the app's pull request and add a catalog | violation: the catalog's values are never proposed |
| `rate_limit` | 2 callers, 3 requests and 3 seconds a window, threshold 2, Retry-After of 2, the local clock 1 s ahead | `RefusedOnlyWhenOvertaken`, `HonoursRefusal`, `NeverRepeats`, `SleepsAreBounded`, `RequestsGoForward`, `RequestsReturn` |
| `service` | 3 repositories, one of them skipped, in 2 installations; pages of 1, a queue of 2, 1 worker, 1 delivery | `CycleReachesAll`, `DeliveriesBeforeStop`, that the queue is used as a `FifoQueue`, `EveryRepositoryIsChecked` under its two conditions, `ShutdownEnds` |

### Why these bounds are enough

* Queue. With a buffer of two and three jobs the buffer fills, a job is refused
  by a full queue, two jobs in the buffer have an order to keep, both workers hold
  a job while a third waits, and a job is still in the buffer when `Stop` closes
  the channel. Two producers contend for
  the mutex with each other and with `Stop`. Each job is submitted once: jobs
  with the same content are two jobs to the queue, which compares none.
* Engine. Two rules are the fewest for which a check can stop between two
  commits, a pull request can have some of the missing files, and a file can
  become missing while another is offered. The rule with two paths has its target
  second, like `CODEOWNERS` and `.github/CODEOWNERS`: a person can satisfy the
  rule with one file and leave the target free. Two workers are enough for an
  interference, since `disturbed` does not count how many interfered.
  `engine_race` leaves out what people add to the repository, which `engine`
  has; the proofs have both at once.
* Properties. The full catalog of the instance has a Jira project and no label,
  and people may set a label: so there is a value that must be compared and one
  that must not. Catalogs may be in either file, in both or in none, and a file
  may be empty. The template of api mode has no owner, so that a pull request
  merged unchanged leaves the repository unclassified. `properties_race` starts
  with no property set and leaves out what happens to the properties by hand or
  by the workflow, which no branch depends on; `properties` has it.
* Rate limit. Two callers can be refused by what the other has used, get answers
  out of order, and pass the threshold together. Three requests a window with a
  threshold of two put the budget above the threshold, at it, and at zero, where
  the two delays differ; a window of three seconds is longer than either the delay
  for two requests, the Retry-After or the skew. The proofs have every skew, behind
  or ahead.
* Service. With pages of one and two repositories in one installation, a removal
  moves the other to a page already read. The queue has room for the jobs of one
  cycle and no more, so a webhook's job makes the scheduler's be refused, and the
  reverse. The ticker fires by time, whatever is still queued. Both conditions of
  `EveryRepositoryIsChecked` are needed: with a queue of one and without `CycleFits`,
  or with a queue of two and no tick that finds the earlier jobs done, TLC finds it
  violated, as a cycle offers its jobs at once and always in the same order, so that
  the last ones can be refused in every cycle. `ONE_PAGER.md:42` names neither
  condition. The default `QUEUE_SIZE` is 1000 whatever the number of repositories: an
  operator with more of them depends on the workers keeping pace with a cycle.
  `weather` bounds what goes on in one behaviour: either GitHub's listings change
  and fail, in one installation, or deliveries arrive and the program is shut
  down. The proofs have all of it at once.
* Every job of `Engine` and of `Properties` is for the same repository. Jobs for different ones
  share nothing but the queue and the rate limit.

### Fairness

* Queue (`Fairness` in `WorkQueue`). Goroutines are scheduled, so each goes on
  when it can. `sync.Mutex` hands over to a waiter after a millisecond, so a lock
  request is strongly fair. A job ends: its GitHub calls run under the workers'
  context and either return or are aborted with it. Nothing obliges a producer
  to call or an operator to stop the program; but once the root context is done,
  `awaitShutdown` returns and `main` goes on to `Stop`.
* Calm (`CalmSpec` of `MCEngineCalm` and of `MCProperties`, `GentleFairness`). The
  scheduler hands out the repository again in each cycle,
  so a worker always starts another check, and carries it on. It gets calm at a moment
  when no check is under way, and need not get calm at all: `SelfHeals` and
  `Converges` are about the behaviours in which it does. The workflow owes nothing in `CalmSpec`; in the gentler worlds of the two
  counterexamples it runs and succeeds.

* Transport (`FairSpec` of `RateLimit`). Time passes, timers fire, and GitHub
  answers each request that does not fail: the client sets no timeout
  (`client.go:376`), so this much is asked of GitHub. No caller has to send.
* Service (`CalmSpec` of `MCService`). Once it is calm the scheduler goes on, workers
  are scheduled and their checks end, and the ticker fires again, at any time. That
  again and again a tick finds the checks of the earlier cycles done is no fairness but
  a condition stated in `EveryRepositoryIsChecked`: with the default
  `SCHEDULE_INTERVAL` of a week it is to be expected, but nothing in the code sees to
  it. In a
  shutdown, calm or not, `main` goes on once the root context is done, and workers
  return: the calls of their checks are made under that context. Nothing is asked
  of GitHub's listings then, and a delivery may hang for ever, as
  `ReadHeaderTimeout` does not limit the body (`main.go:122`): `ShutdownEnds` holds
  because `Shutdown` has a timeout and nobody waits for the scheduler.

The runs of the queue and of the service turn deadlock checking off, as the
program ends. The engine, the properties step and the transport never stop, and TLC
checks that.

## What the runs found

* `queue_drain`: `docs/IMPLEMENTATION_PLAN.md:148` says that `Stop` "drains
  queue". `Stop` cancels the workers' context before it closes the channel
  (`queue.go:102`), and `main.go:107` cancels its parent even earlier, so a worker
  drops the next job it receives and leaves, and the rest stays in the buffer.
  The next reconciliation after a restart checks these repositories again, a
  webhook for a new repository included.
* `engine_closes_pr`: `engine.go:225` deletes a branch "with no open PR", going by
  a listing several calls old. Two workers that check the same repository with
  missing files can both list no pull request; the first creates the branch and
  opens the pull request, the second finds the branch, takes it for a leftover
  and deletes it, which closes the pull request.
* `engine_newly_missing`: `docs/RFC.md:282` says the open pull request is updated
  "with any newly missing files included". The update commits every missing
  file again, in the registry's order, with a request that GitHub refuses for a
  file the branch already has. If such a file comes before the new one, the new
  one is never added while the pull request is open. For the same reason a check
  of a repository whose pull request is open fails, as long as nothing changes
  (`engine.go:264`). This is why `SelfHeals` is about a repository without an open pull
  request of the app: an open one offers what was missing when it was made.
* `properties_closed_pr`: `docs/custom_properties.md:759` says that a catalog pull
  request that is closed is re-created on the next cycle. The check that opened
  it has set the defaults first, so that the next one finds nothing to change
  (`properties.go:65`) and does not come to the pull request. The same happens if
  the first check fails between the two (`properties.go:190`, `199`).
* `properties_new_values`: `docs/custom_properties.md:716` says that a new pull
  request brings the real values once a catalog has been added. The workflow of
  the first one is on the default branch by then, the commit would have to
  replace it and is refused (`properties.go:149`); each check leaves a branch
  behind and fails. Meanwhile the old workflow sets the old values again at each
  push to `main`, although its header says that it runs once.
  `Converges` states what is left, with two exceptions. In github-action mode
  properties get right, or a pull request with exactly the catalog's values is open,
  unless the default branch has the workflow already; and a pull request that is open
  when it gets calm stays as it is, with the values it was made with
  (`properties.go:98-102`), although a catalog may have been added since.

## Proofs

The proofs hold for any number of producers, workers, jobs, rules and paths, any
capacity and any strings in catalogs and properties, any number of callers, any budget, window,
Retry-After and skew, and any installations, listings and page size. They use the named assumptions of the
modules: the capacity is at least one, the goroutines and the placeholder
`Nobody` are distinct (`CapacityAssumption`, `ThreadsAssumption`); each rule has a
path and a target (`RulesAssumption`), no two rules have the same target
(`TargetAssumption`), and the configuration has its types (`EngineAssumption`,
`PropertiesAssumption`); the defaults are among the strings (`ValuesAssumption`); a window has a
length and a request, waits are positive (`BudgetAssumption`), nobody is a caller
(`NobodyAssumption`); a page and the queue have room (`SizesAssumption`), and the
installations have their types (`WorldAssumption`).

A `QUEUE_SIZE` of zero is left out: `make(chan RepoJob, 0)` is legal Go, and
`Enqueue` would then hand a job to a worker that waits at that moment or refuse it.

| Theorem | Statement | Argument |
|---|---|---|
| `WorkQueueProofs!TypeCorrect` | `Spec => []TypeOK` | with `Holding`: a thread has a job exactly in the states that use one |
| `SendsAreSafe` | `Spec => []NoSendOnClosed` | `Control` |
| `PoolStaysOn` | `Spec => []WorkersStayOn` | `Control` |
| `StopWaits` | `Spec => []StopWaitsForWorkers` | `Control` |
| `NoWaitInVain` | `Spec => []NobodyWaitsInVain` | `Control` |
| `JobsAreConserved` | `Spec => []JobsConserved` | `Control` and `Placed` |
| `ImplementsLedger` | `Spec => Ledger!Spec` | `Control` and `Placed` |
| `ImplementsFifo` | `Spec => FifoSpec` | `Control` |
| `EngineProofs!TypeCorrect` | `Spec => []TypeOK` | inductive |
| `ViewIsExact` | `Spec => []ViewExact` | inductive with `TypeOK` |
| `DeletesStale` | `Spec => []DeletesOnlyStale` | from `ViewExact` |
| `OwnBranchIsFresh` | `Spec => []OwnBranchTakesCommits` | from `ViewExact`: the branch holds the files of the default branch it was cut from, and what the worker has committed |
| `OffersMissing` | `Spec => OffersWhatIsMissing` | from `ViewExact` |
| `SearchIsExact` | `Spec => []SearchExact` | inductive with `TypeOK` |
| `CoveredNotMissing` | `Spec => []CoveredIsNotMissing` | from `SearchExact` |
| `UncoveredMissing` | `Spec => UncoveredIsMissing` | from `SearchExact` |
| `EngineStepProofs!DryRunWritesNothing` | with `DryRun`: `Spec => WritesNothing` | `OnlyFinds`: no check comes to a call that writes |
| `OffersTemplates` | `Spec => []OffersOnlyTemplates` | `AllFromTemplates`: what has been committed had a template |
| `OneWorkerClosesOnlyMissed` | with one worker: `UntouchedSpec => ClosesOnlyWhatItMissed` | only a listing disturbs, and `ViewExact` covers each other deletion |
| `PropertiesProofs!TypeCorrect` | `Spec => []TypeOK` | inductive |
| `ViewIsExact` | `Spec => []ViewExact` | inductive with `TypeOK` |
| `DeletesStale` | `Spec => []DeletesOnlyStale` | from `ViewExact` |
| `OffersWhatWasRead` | `Spec => []OffersWhatItRead` | from `ViewExact` |
| `ReadingIsExact` | `Spec => []ReadingExact` | inductive with `TypeOK` |
| `RightLeftAlone` | `Spec => []RightIsLeftAlone` | from `ReadingExact` |
| `WritesAsked` | `Spec => []WritesWhatIsAsked` | from `ReadingExact` |
| `PropertiesStepProofs!DryRunWritesNothing` | with `DryRun`: `Spec => WritesNothing` | `OnlyReads`: no check comes to a call that writes |
| `LeavesToWorkflow` | `Spec => LeavesSettingToWorkflow` | `SetsInAPIMode` |
| `SetsAsked` | `Spec => SetsWhatIsAsked` | from `WritesWhatIsAsked` and the lemma `WithIsRight` |
| `OneWorkerClosesOnlyMissed` | with one worker: `UntouchedSpec => ClosesOnlyWhatItMissed` | only a listing disturbs, and `ViewExact` covers each other deletion |
| `RateLimitProofs!TypeCorrect` | `Spec => []TypeOK` | with `Position`: how often a request was sent |
| `OvertakenCorrect` | `Spec => []RefusedOnlyWhenOvertaken` | `RecordExact`, `AnswerExact`, `SleepsEnough` |
| `RetryCorrect` | `Spec => []HonoursRefusal` | `SleepsOff` |
| `NoRepeatCorrect` | `Spec => []NeverRepeats` | `Position` |
| `SleepsBounded` | `Spec => []SleepsAreBounded` | `Bounds`, inductive with `TypeOK` |
| `GoesForward` | `Spec => RequestsGoForward` | `TypeOK`: one retry |
| `ServiceProofs!TypeCorrect` | `Spec => []TypeOK` | inductive |
| `CyclesReachAll` | `Spec => []CycleReachesAll` | `Cycling` and `Reaching` |
| `DeliveriesFirst` | `Spec => []DeliveriesBeforeStop` | `Closing` |
| `UsesFifo` | `Spec => FifoSpec` | the inductive invariant of the program |

**The queue.** `NoSendOnClosed` is not inductive: that the channel is open when a
producer is about to send depends on the producer holding the mutex, on Stop
having to take it before it sets the flag, and on the flag being set before the
channel is closed. `Control` says this: `Mutex` (the holder of the mutex is the
thread in its critical section), `StopProgress` (the flag, the channel and the
context follow Stop's position, and a producer past its check has seen the flag
unset) and `Counted` (the WaitGroup counts the workers that run; none is unborn
after `Start`; it is at zero once `Stop` has returned). `JobsConserved` counts
places, which no step keeps by counting alone; `Placed` says which fate each
place implies, that no job is in two places, and that an accepted one is in
some. The refinement needs both: a worker at its end drops or completes a job
that is `accepted` in the ledger, and `Stop` has not returned.
`NobodyWaitsInVain` is what remains of a deadlock argument once `Control` is there:
the holder of the mutex is at a step that waits for nothing, and while `Stop` waits,
the channel is closed, so that it wakes every worker the WaitGroup still counts.
`ImplementsFifo` maps the channel to the line, the flag to `shut` and the workers' hands
to what they hold: `TrySend`, `Receive`, `ProcessJob`, `StopMark` and the ways out of the
loop are steps of `FifoQueue`, and all locking is a stutter. A worker leaves
empty-handed only if the channel is closed, and by `Control` the flag is set by then.

**The engine.** `ViewExact` ties the worker's local variables to the repository:
as long as nobody has overtaken it, and its listing has not missed the app's pull
request, its snapshot says whether that is open, its branch lookup whether the branch exists, and the branch it cut
itself has exactly the files it has committed so far. Each write of anybody
else puts the worker into `disturbed`, so only the worker's own steps need an
argument, one per call. `SearchExact` is about a worker in its search and the rules
that nothing has happened to since its check began: one that the search is past is
among the missing files if and only if it is not covered, and for a covered one
still to come the snapshot has a pull request, or there is a file at a path ahead. The
reason is that the pull requests are listed before the files are looked for, so a
merge in between shows up as a file. `CoveredIsNotMissing` is half of it,
`UncoveredIsMissing` the other half at the step that ends the search.

`OwnBranchIsFresh` is about the branch such a worker has cut: GitHub refuses a commit
only if the file is there already, and then it came with the default branch, since a
worker commits the files of different rules and no two rules have the same target.

`EngineStepProofs` is about configurations no run has, dry runs and missing templates:
what the code promises there is proved for every rule set. Its
`OneWorkerClosesOnlyMissed` has one worker and nobody else at the app's branch, while
calls fail, listings miss pull requests, and people change everything else: then a
worker's snapshot gets wrong only when a listing misses the app's own pull request, and
whoever closes that pull request has a wrong snapshot. With `engine_closes_pr` this
names all the ways to lose an open pull request: a second worker, a person, the listing.

**The custom properties.** `ViewExact` is the engine's argument again, for the
branch of the mode: the snapshot says whether the pull request is open, and the
branch an undisturbed worker has cut holds nothing until its commit, then the one
file, with the values the worker read. `ReadingExact` follows what a worker has
read: past the first file it knows that file to be empty, past the second it
holds what the catalog asks for, and if it began with right properties they are
right still. A worker writes only if they differ, and the lemma
`RightDoesNotDiffer` says that right ones do not: the one place where the
comparison, the defaults of `Parse` and the meaning of right properties meet. Its
counterpart `WithIsRight` says that the request for what the catalog asks for makes the
properties right and leaves alone what it asks nothing of; with `WritesWhatIsAsked` it gives
`SetsAsked`: the check after a successful one finds nothing to change. The other
theorems of `PropertiesStepProofs` go over `Flow`, the pairs of calls that follow each
other in the two modes.

**The transport.** What a caller knows comes to it in two ways, through the record
or with its own answer. `RecordExact` and `AnswerExact` say that a record, or an answer on its
way, that stems from GitHub's latest answer shows the budget that is left and a
reset no further off than the skew; `SleepsEnough` that a caller who goes by such
knowledge sleeps past the end of an empty window; `SleepsOff` that a refused caller
sleeps for what it owes. The passing of time takes the same from both sides of each
of these inequalities (`DownKeepsOrder`, `DownKeepsBound`). In the other direction,
`Bounds` says that no reset time is further off than the local clock makes of a window,
hence no sleep, since a share of the time to the reset is no more than that time
(`DelayBound`). A later answer to anybody ends
what the others know, so that GitHub's actions only concern the caller they serve.

**The scheduler and the program.** `Reaching` says of each repository installed since
the cycle began how the cycle will reach it: it has been offered, its installation
is still to be listed, it has been found, or a page that is still to be read has it.
The lemmas `InsertKeeps` and `RemoveKeeps` carry the last case over a change of the
listing: an insertion moves entries only away from the pages read, so it costs
nothing (at worst a repository is found twice), while a removal may move one into
them, and then excuses the installation. `PageFinds` is the step from one page to the next.
`Closing` follows `main`: no listener after the cancellation, no active delivery after
a `Shutdown` that returned in time, and no new one since. `UsesFifo` shows each step of
the program to be a step of `FifoQueue` or none of the queue's business: whatever
`WorkQueue` is proved to do, `Service` relies on no more.

Only model-checked: `EnqueueReturns`, `SelfHeals`, `Converges`, `RequestsReturn`,
`EveryRepositoryIsChecked`, `ShutdownEnds` and the progress
part of `LedgerSpec` (liveness under fairness is out of the prover's reach), and
the findings, which are counterexamples. Of the queue's and the transport's liveness
the part that is about single steps is proved: `NoWaitInVain` and `RequestsGoForward`.

## Not modelled, and the plan

Left out for good:

* logging, metrics, the wording of pull requests, templates' loading at start-up,
  the signatures and the encoding of webhooks; `Len`, `Accepting` and the two probes,
  which only read;
* the configuration's parsing: it runs once, before anything else. `Validate`
  does not look at `WORKER_COUNT`, `QUEUE_SIZE` or `SCHEDULE_INTERVAL`, so that the
  assumptions on constants are the operator's to keep;
* the cache of installation clients (`client.go:362-380`): looked up and filled
  under one lock, it gives an installation one transport, which `RateLimit` takes
  for granted;
* in `RateLimit`, a refusal whose Retry-After is zero or not a number, which counts as
  a limit and is waited out by the reset time (`ratelimit.go:197`, `203-222`), and one
  with some of the rate limit headers only: headers are all there or none;
* go-github's own bookkeeping of rate limits, in the library, which may refuse a
  request before the transport sees it;
* the pages of the listing of installations, which `ListInstallations` takes as one
  step, and installations that come and go.

Could be added, in this order:

1. The two parts of `CheckRepo` one after the other: a failing update of the file
   rules' pull request keeps the custom properties from being checked
   (`engine.go:91`). `Engine` and `Properties` are each near the limit of what a
   run explores, so this needs a coarser model of both.
2. The step from one cycle to the next in the proofs: that a check which is not
   disturbed leaves every missing file offered, the safety half of `SelfHeals`, and
   its counterpart for `Converges`.
3. The pages of the listing of pull requests one by one, in place of
   `ListingMisses`.
