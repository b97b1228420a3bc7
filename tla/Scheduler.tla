----------------------------- MODULE Scheduler -----------------------------
(***************************************************************************)
(* The scheduler of internal/scheduler/scheduler.go: cycles over the       *)
(* paged listings of internal/github/client.go that offer repositories to  *)
(* the work queue, while repositories come and go on GitHub.               *)
(*                                                                         *)
(* WorkQueue has the queue's own interleavings; here its Enqueue is one    *)
(* step, as its mutex makes it.  Service composes the scheduler with the   *)
(* rest of the program.                                                    *)
(***************************************************************************)
EXTENDS Naturals, SequencesExt

CONSTANTS
    Repos, Installs,
    Home,          \* Home[r]: the installation r belongs to
    Initially,     \* Initially[i]: what GitHub lists for i at first
    Skipped,       \* archived or forked repositories the flags leave out
    PageSize,      \* per_page of the listing of repositories
    Capacity,      \* QUEUE_SIZE
    None           \* no installation, no repository

ASSUME SizesAssumption ==
    PageSize \in Nat \ {0} /\ Capacity \in Nat \ {0}
ASSUME WorldAssumption ==
    /\ Home \in [Repos -> Installs] /\ Skipped \subseteq Repos
    /\ Initially \in [Installs -> Seq(Repos)]
    /\ None \notin Repos \cup Installs

VARIABLES
    buffer,        \* the jobs in the queue
    stopped,       \* q.stopped
    ctxDone,       \* the root context is done
    listing,       \* listing[i]: what GitHub lists for i, in its order
    pc,            \* where the scheduler's goroutine is
    todo,          \* the installations it has still to list, and
    install,       \* the one it lists
    page,          \* opts.Page
    found,         \* what it has found there and not offered yet
    offered,       \* the repositories this cycle has offered to the queue
    steady,        \* those installed since the cycle began
    excused        \* the installations whose listing failed or lost an entry

queue     == <<buffer, stopped>>
local     == <<todo, install, page, found>>
cycle     == <<offered, steady, excused>>
scheduler == <<pc, todo, install, page, found, offered, steady, excused>>

States == {"installations", "repos", "offer", "ticker", "stopped"}

Listed(r) == r \in ToSet(listing[Home[r]])

\* Start runs a cycle before it waits for the ticker.
Init ==
    /\ buffer = <<>> /\ stopped = FALSE /\ ctxDone = FALSE
    /\ listing = Initially
    /\ pc = "installations" /\ todo = {} /\ install = None /\ page = 1
    /\ found = <<>> /\ offered = {} /\ steady = {r \in Repos : Listed(r)}
    /\ excused = {}

-----------------------------------------------------------------------------
(* GitHub (external): repositories are added to an installation and taken  *)
(* from it.  The code asks for no particular order.                        *)

AddRepo(r) ==
    /\ ~Listed(r)
    /\ \E k \in 1..(Len(listing[Home[r]]) + 1) :
           listing' = [listing EXCEPT ![Home[r]] = InsertAt(@, k, r)]
    /\ UNCHANGED <<queue, ctxDone, scheduler>>

\* What comes after it moves up, past the boundary of a page perhaps.
RemoveRepo(i, k) ==
    /\ listing' = [listing EXCEPT ![i] = RemoveAt(@, k)]
    /\ steady' = steady \ {listing[i][k]}
    /\ excused' = IF pc = "repos" /\ install = i THEN excused \cup {i} ELSE excused
    /\ UNCHANGED <<queue, ctxDone, pc, local, offered>>

-----------------------------------------------------------------------------
(* Enqueue: a send that does not block, refused when stopped or full.      *)

\* The buffer takes one job too many.
BugAcceptsOneMore == ~stopped /\ Len(buffer) <= Capacity

\* The last place of the buffer is never used.
BugAccepts == ~stopped /\ Len(buffer) + 1 < Capacity

\* The flag that Stop sets is not looked at.
BugAcceptsStopped == Len(buffer) < Capacity

Accepts == ~stopped /\ Len(buffer) < Capacity

Enqueue(r) ==
    /\ buffer' = IF Accepts THEN Append(buffer, r) ELSE buffer
    /\ UNCHANGED stopped

-----------------------------------------------------------------------------
(* reconcileAll.                                                           *)

\* To one of the installations that are left, or to the end of the cycle.
NextInstall(rest) ==
    /\ todo' = rest
    /\ IF rest = {} THEN install' = None /\ pc' = "ticker"
                    ELSE install' \in rest /\ pc' = "repos"
    /\ page' = 1 /\ found' = <<>>

ListInstallations ==
    /\ pc = "installations" /\ ~ctxDone
    /\ NextInstall(Installs)
    /\ UNCHANGED <<queue, ctxDone, listing, cycle>>

InstallationsFail ==
    /\ pc = "installations"
    /\ NextInstall({})
    /\ excused' = Installs
    /\ UNCHANGED <<queue, ctxDone, listing, offered, steady>>

\* resp.NextPage # 0.
MorePages == page * PageSize < Len(listing[install])

\* One page, as the listing is at that moment.
ListRepos ==
    /\ pc = "repos" /\ ~ctxDone
    /\ found' = found \o SubSeq(listing[install], (page - 1) * PageSize + 1,
                    IF MorePages THEN page * PageSize ELSE Len(listing[install]))
    /\ IF MorePages THEN page' = page + 1 /\ pc' = pc
                    ELSE page' = page /\ pc' = "offer"
    /\ UNCHANGED <<queue, ctxDone, listing, todo, install, cycle>>

\* The cycle ends with the first listing that fails.
BugReposFail ==
    /\ pc = "repos"
    /\ NextInstall({})
    /\ excused' = excused \cup {install}
    /\ UNCHANGED <<queue, ctxDone, listing, offered, steady>>

\* A page fails: what the ones before it held is lost, the cycle goes on.
ReposFail ==
    /\ pc = "repos"
    /\ NextInstall(todo \ {install})
    /\ excused' = excused \cup {install}
    /\ UNCHANGED <<queue, ctxDone, listing, offered, steady>>

\* One iteration of the loop over the repositories found: a job that is
\* refused is logged and forgotten.
Offer ==
    /\ pc = "offer" /\ found # <<>>
    /\ IF Head(found) \in Skipped
         THEN UNCHANGED <<queue, offered>>
         ELSE Enqueue(Head(found)) /\ offered' = offered \cup {Head(found)}
    /\ found' = Tail(found)
    /\ UNCHANGED <<ctxDone, listing, pc, todo, install, page, steady, excused>>

LoopEnds ==
    /\ pc = "offer" /\ found = <<>>
    /\ NextInstall(todo \ {install})
    /\ UNCHANGED <<queue, ctxDone, listing, cycle>>

-----------------------------------------------------------------------------
(* Start.                                                                  *)

\* The ticker fires.
Tick ==
    /\ pc = "ticker"
    /\ pc' = "installations"
    /\ offered' = {} /\ steady' = {r \in Repos : Listed(r)} /\ excused' = {}
    /\ UNCHANGED <<queue, ctxDone, listing, local>>

StopTicker ==
    /\ pc = "ticker" /\ ctxDone
    /\ pc' = "stopped"
    /\ UNCHANGED <<queue, ctxDone, listing, local, cycle>>

People ==
    \/ \E r \in Repos : AddRepo(r)
    \/ \E i \in Installs : \E k \in DOMAIN listing[i] : RemoveRepo(i, k)

Failure == InstallationsFail \/ ReposFail

Progress == ListInstallations \/ ListRepos \/ Offer \/ LoopEnds

-----------------------------------------------------------------------------
\* Every variable has its type.
SchedulerTypeOK ==
    /\ buffer \in Seq(Repos) /\ Len(buffer) <= Capacity
    /\ stopped \in BOOLEAN /\ ctxDone \in BOOLEAN
    /\ listing \in [Installs -> Seq(Repos)]
    /\ pc \in States /\ todo \subseteq Installs
    /\ install \in Installs \cup {None} /\ page \in Nat \ {0}
    /\ found \in Seq(Repos)
    /\ offered \subseteq Repos /\ steady \subseteq Repos
    /\ excused \subseteq Installs

\* A cycle offers to the queue every repository that was installed all along,
\* but for installations of which a listing failed or lost an entry to another
\* page: one failure costs one installation, and what is added meanwhile costs
\* nothing (scheduler.go:67-120, client.go:238-273).
CycleReachesAll ==
    pc = "ticker" =>
        \A r \in steady \ Skipped : r \in offered \/ Home[r] \in excused
=============================================================================
