----------------------------- MODULE WorkQueue -----------------------------
(***************************************************************************)
(* The buffered work queue of internal/checker/queue.go and the shutdown   *)
(* that cmd/repo-guardian/main.go drives.                                  *)
(*                                                                         *)
(* Producers (webhook handlers and the scheduler's goroutine) call         *)
(* Enqueue; worker goroutines range over the channel; the main goroutine   *)
(* calls Start, then, on a signal or a server error, cancels the root      *)
(* context and calls Stop.  Enqueue and Stop are split at the points where *)
(* other goroutines run, so that the mutex, and not the model, is what     *)
(* keeps a send away from a closed channel.                                *)
(*                                                                         *)
(* Definitions named Bug... are the mutations that show each property can  *)
(* fail: none of them is part of the specification.                        *)
(***************************************************************************)
EXTENDS Naturals, Sequences, FiniteSets

CONSTANTS
    Producers,  \* goroutines that call Enqueue
    Workers,    \* worker goroutines, WORKER_COUNT of them
    Jobs,       \* the jobs ever submitted, each of them once (a bound)
    Capacity,   \* QUEUE_SIZE, the channel's buffer
    Main,       \* the main goroutine
    Nobody      \* no holder of the mutex, no job in hand

ASSUME CapacityAssumption == Capacity \in Nat \ {0}
ASSUME ThreadsAssumption ==
    /\ Main \notin Producers
    /\ Nobody \notin Producers \cup Jobs \cup {Main}

VARIABLES
    mu,         \* holder of q.mu
    stopped,    \* q.stopped
    ctxDone,    \* the workers' context (a child of main's) is done
    buffer,     \* the channel's buffered jobs
    closed,     \* the channel is closed
    waiting,    \* the WaitGroup's goroutines: added and not yet Done
    fate,       \* what became of each job
    call,       \* call[p]: where producer p is in Enqueue
    arg,        \* arg[p]: the job p is enqueueing
    pc,         \* pc[w]: where worker w is in its loop
    hand,       \* hand[w]: the job w received from the channel
    main        \* where the main goroutine is

queue   == <<mu, stopped, ctxDone, buffer, closed, waiting>>
workers == <<pc, hand>>
callers == <<call, arg>>
vars    == <<mu, stopped, ctxDone, buffer, closed, waiting, fate,
             call, arg, pc, hand, main>>

Fates == {"new", "accepted", "refused", "completed", "failed", "dropped"}

CallStates   == {"outside", "lock", "check", "send", "unlock"}
WorkerStates == {"unborn", "receive", "select", "process", "exited"}
MainStates   == {"starting", "serving", "mark", "cancel", "close", "unlock",
                 "wait", "returned"}

Init ==
    /\ mu = Nobody /\ stopped = FALSE /\ ctxDone = FALSE
    /\ buffer = <<>> /\ closed = FALSE
    /\ waiting = {}
    /\ fate = [j \in Jobs |-> "new"]
    /\ call = [p \in Producers |-> "outside"]
    /\ arg = [p \in Producers |-> Nobody]
    /\ pc = [w \in Workers |-> "unborn"]
    /\ hand = [w \in Workers |-> Nobody]
    /\ main = "starting"

-----------------------------------------------------------------------------
(* Enqueue.                                                                *)

Call(p, j) ==
    /\ call[p] = "outside"
    /\ fate[j] = "new" /\ \A q \in Producers : arg[q] # j
    /\ call' = [call EXCEPT ![p] = "lock"]
    /\ arg' = [arg EXCEPT ![p] = j]
    /\ UNCHANGED <<queue, workers, fate, main>>

\* Enqueue without the mutex.
BugNoMutex(p) ==
    /\ call[p] = "lock"
    /\ call' = [call EXCEPT ![p] = "check"]
    /\ UNCHANGED <<queue, workers, fate, arg, main>>

Lock(p) ==
    /\ call[p] = "lock" /\ mu = Nobody
    /\ mu' = p
    /\ call' = [call EXCEPT ![p] = "check"]
    /\ UNCHANGED <<stopped, ctxDone, buffer, closed, waiting, workers, fate,
                   arg, main>>

\* The early return leaves the mutex locked.
BugNoUnlock(p) ==
    /\ call[p] = "check"
    /\ IF stopped
         THEN /\ fate' = [fate EXCEPT ![arg[p]] = "refused"]
              /\ call' = [call EXCEPT ![p] = "outside"]
         ELSE /\ call' = [call EXCEPT ![p] = "send"]
              /\ fate' = fate
    /\ UNCHANGED <<queue, workers, arg, main>>

CheckStopped(p) ==
    /\ call[p] = "check"
    /\ IF stopped
         THEN /\ fate' = [fate EXCEPT ![arg[p]] = "refused"]
              /\ call' = [call EXCEPT ![p] = "unlock"]
         ELSE /\ call' = [call EXCEPT ![p] = "send"]
              /\ fate' = fate
    /\ UNCHANGED <<queue, workers, arg, main>>

BugFullOffByOne == Len(buffer) > Capacity

Full == Len(buffer) >= Capacity

\* A full queue is reported as a success: the job is gone.
BugFullIsSuccess(p) ==
    /\ call[p] = "send"
    /\ fate' = [fate EXCEPT ![arg[p]] = "accepted"]
    /\ buffer' = IF Full THEN buffer ELSE Append(buffer, arg[p])
    /\ call' = [call EXCEPT ![p] = "unlock"]
    /\ UNCHANGED <<mu, stopped, ctxDone, closed, waiting, workers, arg, main>>

\* The select with a default: buffer the job or report a full queue.
TrySend(p) ==
    /\ call[p] = "send"
    /\ \/ /\ ~Full
          /\ buffer' = Append(buffer, arg[p])
          /\ fate' = [fate EXCEPT ![arg[p]] = "accepted"]
       \/ /\ Full
          /\ fate' = [fate EXCEPT ![arg[p]] = "refused"]
          /\ buffer' = buffer
    /\ call' = [call EXCEPT ![p] = "unlock"]
    /\ UNCHANGED <<mu, stopped, ctxDone, closed, waiting, workers, arg, main>>

Unlock(p) ==
    /\ call[p] = "unlock"
    /\ mu' = Nobody
    /\ call' = [call EXCEPT ![p] = "outside"]
    /\ arg' = [arg EXCEPT ![p] = Nobody]
    /\ UNCHANGED <<stopped, ctxDone, buffer, closed, waiting, workers, fate,
                   main>>

-----------------------------------------------------------------------------
(* The worker's loop.                                                      *)

\* The newest job is served first.
BugNewestFirst(w) ==
    /\ pc[w] = "receive" /\ buffer # <<>>
    /\ hand' = [hand EXCEPT ![w] = buffer[Len(buffer)]]
    /\ buffer' = SubSeq(buffer, 1, Len(buffer) - 1)
    /\ pc' = [pc EXCEPT ![w] = "select"]
    /\ UNCHANGED <<mu, stopped, ctxDone, closed, waiting, fate, callers, main>>

\* The receive of "for job := range q.ch".
Receive(w) ==
    /\ pc[w] = "receive" /\ buffer # <<>>
    /\ hand' = [hand EXCEPT ![w] = Head(buffer)]
    /\ buffer' = Tail(buffer)
    /\ pc' = [pc EXCEPT ![w] = "select"]
    /\ UNCHANGED <<mu, stopped, ctxDone, closed, waiting, fate, callers, main>>

\* wg.Done() runs when the loop returns.
Exit(w) ==
    /\ pc' = [pc EXCEPT ![w] = "exited"]
    /\ waiting' = waiting \ {w}

RangeEnds(w) ==
    /\ pc[w] = "receive" /\ buffer = <<>> /\ closed
    /\ Exit(w)
    /\ UNCHANGED <<mu, stopped, ctxDone, buffer, closed, fate, callers, hand,
                   main>>

\* A job received after the cancellation is consumed and never processed.
Discard(w) ==
    /\ pc[w] = "select" /\ ctxDone
    /\ fate' = [fate EXCEPT ![hand[w]] = "dropped"]
    /\ hand' = [hand EXCEPT ![w] = Nobody]
    /\ Exit(w)
    /\ UNCHANGED <<mu, stopped, ctxDone, buffer, closed, callers, main>>

Begin(w) ==
    /\ pc[w] = "select" /\ ~ctxDone
    /\ pc' = [pc EXCEPT ![w] = "process"]
    /\ UNCHANGED <<queue, callers, fate, hand, main>>

\* A failed job takes its worker with it.
BugExitOnFailure(w) ==
    /\ pc[w] = "process"
    /\ \E outcome \in {"completed", "failed"} :
           /\ fate' = [fate EXCEPT ![hand[w]] = outcome]
           /\ hand' = [hand EXCEPT ![w] = Nobody]
           /\ IF outcome = "failed"
                THEN Exit(w)
                ELSE /\ pc' = [pc EXCEPT ![w] = "receive"]
                     /\ waiting' = waiting
    /\ UNCHANGED <<mu, stopped, ctxDone, buffer, closed, callers, main>>

\* processJob logs an error and returns: a failed job is not retried.
ProcessJob(w) ==
    /\ pc[w] = "process"
    /\ \E outcome \in {"completed", "failed"} :
           fate' = [fate EXCEPT ![hand[w]] = outcome]
    /\ hand' = [hand EXCEPT ![w] = Nobody]
    /\ pc' = [pc EXCEPT ![w] = "receive"]
    /\ UNCHANGED <<queue, callers, main>>

-----------------------------------------------------------------------------
(* The main goroutine: Start, the cancellation and Stop.                   *)

\* The goroutine itself calls wg.Add, too late for a Wait that has passed.
BugLateAdd(w) ==
    /\ main = "starting" /\ pc[w] = "unborn"
    /\ pc' = [pc EXCEPT ![w] = "receive"]
    /\ UNCHANGED <<queue, callers, fate, hand, main>>

\* One iteration of Start's loop: wg.Add(1), go q.worker(...).
StartWorker(w) ==
    /\ main = "starting" /\ pc[w] = "unborn"
    /\ waiting' = waiting \cup {w}
    /\ pc' = [pc EXCEPT ![w] = "receive"]
    /\ UNCHANGED <<mu, stopped, ctxDone, buffer, closed, fate, callers, hand,
                   main>>

StartReturns ==
    /\ main = "starting" /\ \A w \in Workers : pc[w] # "unborn"
    /\ main' = "serving"
    /\ UNCHANGED <<queue, workers, callers, fate>>

\* main's cancel(), after a signal or from a server that failed.
CancelRoot ==
    /\ main = "serving" /\ ~ctxDone
    /\ ctxDone' = TRUE
    /\ UNCHANGED <<mu, stopped, buffer, closed, waiting, workers, callers,
                   fate, main>>

\* main.go cancels the root context first; queue_test.go calls Stop without.
StopLock ==
    /\ main = "serving" /\ mu = Nobody
    /\ mu' = Main
    /\ main' = "mark"
    /\ UNCHANGED <<stopped, ctxDone, buffer, closed, waiting, workers,
                   callers, fate>>

StopMark ==
    /\ main = "mark"
    /\ stopped' = TRUE
    /\ main' = "cancel"
    /\ UNCHANGED <<mu, ctxDone, buffer, closed, waiting, workers, callers,
                   fate>>

StopCancel ==
    /\ main = "cancel"
    /\ ctxDone' = TRUE
    /\ main' = "close"
    /\ UNCHANGED <<mu, stopped, buffer, closed, waiting, workers, callers,
                   fate>>

\* Stop relies on the context alone: an idle worker never wakes up.
BugNoClose ==
    /\ main = "close"
    /\ main' = "unlock"
    /\ UNCHANGED <<queue, workers, callers, fate>>

StopClose ==
    /\ main = "close"
    /\ closed' = TRUE
    /\ main' = "unlock"
    /\ UNCHANGED <<mu, stopped, ctxDone, buffer, waiting, workers, callers,
                   fate>>

StopUnlock ==
    /\ main = "unlock"
    /\ mu' = Nobody
    /\ main' = "wait"
    /\ UNCHANGED <<stopped, ctxDone, buffer, closed, waiting, workers,
                   callers, fate>>

StopWait ==
    /\ main = "wait" /\ waiting = {}
    /\ main' = "returned"
    /\ UNCHANGED <<queue, workers, callers, fate>>

-----------------------------------------------------------------------------
Enqueue(p) == Lock(p) \/ CheckStopped(p) \/ TrySend(p) \/ Unlock(p)

Worker(w) ==
    Receive(w) \/ RangeEnds(w) \/ Discard(w) \/ Begin(w) \/ ProcessJob(w)

Start == (\E w \in Workers : StartWorker(w)) \/ StartReturns

Stop == StopMark \/ StopCancel \/ StopClose \/ StopUnlock \/ StopWait

Next ==
    \/ \E p \in Producers : \E j \in Jobs : Call(p, j)
    \/ \E p \in Producers : Enqueue(p)
    \/ \E w \in Workers : Worker(w)
    \/ Start \/ CancelRoot \/ StopLock \/ Stop

Spec == Init /\ [][Next]_vars

(***************************************************************************)
(* Goroutines are scheduled, sync.Mutex does not starve a waiter (so a     *)
(* lock request is strongly fair), and a job ends: every GitHub call       *)
(* returns or is aborted when its context is done.  Nothing forces a       *)
(* producer to call, or main to be told to stop; but once the root context *)
(* is done awaitShutdown returns and main goes on to Stop.                 *)
(***************************************************************************)
Fairness ==
    /\ \A p \in Producers : SF_vars(Lock(p)) /\ WF_vars(Enqueue(p))
    /\ \A w \in Workers : WF_vars(Worker(w))
    /\ WF_vars(Start) /\ WF_vars(Stop) /\ SF_vars(ctxDone /\ StopLock)

FairSpec == Spec /\ Fairness

-----------------------------------------------------------------------------
(* What the queue has to keep true.                                        *)

\* Every variable has its type.
TypeOK ==
    /\ mu \in Producers \cup {Main, Nobody}
    /\ stopped \in BOOLEAN /\ ctxDone \in BOOLEAN /\ closed \in BOOLEAN
    /\ buffer \in Seq(Jobs) /\ Len(buffer) \in 0..Capacity
    /\ waiting \subseteq Workers
    /\ fate \in [Jobs -> Fates]
    /\ call \in [Producers -> CallStates]
    /\ arg \in [Producers -> Jobs \cup {Nobody}]
    /\ pc \in [Workers -> WorkerStates]
    /\ hand \in [Workers -> Jobs \cup {Nobody}]
    /\ main \in MainStates

\* No producer is about to send on a channel that Stop has closed, which
\* would panic: the stopped flag read under q.mu is still the truth when the
\* send is tried (queue.go:57-65 against queue.go:98-106).
NoSendOnClosed == \A p \in Producers : call[p] = "send" => ~closed

\* An accepted job that has not come to an end is in exactly one place: once
\* in the buffer, or in the hand of one worker (queue.go:131).
Places(j) ==
    Cardinality({i \in DOMAIN buffer : buffer[i] = j})
        + Cardinality({w \in Workers : hand[w] = j})

JobsConserved ==
    \A j \in Jobs : Places(j) = IF fate[j] = "accepted" THEN 1 ELSE 0

\* A worker leaves its loop only in a shutdown: a refused or failed job never
\* costs the pool a worker (queue.go:131-140).
WorkersStayOn == \A w \in Workers : pc[w] = "exited" => ctxDone

\* When Stop returns no worker is in the middle of a job, and none will pick
\* another one up (queue.go:96, "waits for in-flight work to complete").
StopWaitsForWorkers ==
    main = "returned" => \A w \in Workers : pc[w] = "exited"

\* Whoever is waited for can take its next step: the holder of the mutex waits
\* for nobody, and while Stop waits for the workers each of them has a job in
\* hand, or a channel that gives it one or tells it to leave
\* (queue.go:57-75, 98-107, 131-140).
NobodyWaitsInVain ==
    /\ mu # Nobody =>
           \/ mu = Main /\ main \in {"mark", "cancel", "close", "unlock"}
           \/ mu \in Producers /\ call[mu] \in {"check", "send", "unlock"}
    /\ main = "wait" => \A w \in waiting :
           \/ pc[w] \in {"select", "process"}
           \/ pc[w] = "receive" /\ (buffer # <<>> \/ closed)

\* Every call of Enqueue returns, whatever Stop and the other producers do.
EnqueueReturns ==
    \A p \in Producers : call[p] # "outside" ~> call[p] = "outside"

\* The queue keeps the promises of JobLedger, the ones about progress too.
Ledger ==
    INSTANCE JobLedger WITH ledger <- fate, closing <- ctxDone,
        shut <- stopped, over <- main = "returned"

LedgerSpec == Ledger!FairSpec

\* Enqueue and Receive are atomic to each other and to Stop, and jobs leave the
\* channel in the order they entered it: the queue is a FifoQueue, which is what
\* Scheduler and Service take it for (queue.go:57-75, 98-107, 131-140).
Fifo ==
    INSTANCE FifoQueue WITH Room <- Capacity, None <- Nobody,
        line <- buffer, shut <- stopped, cancelled <- ctxDone, holds <- hand,
        staff <- {w \in Workers : pc[w] # "exited"}

FifoSpec == Fifo!Spec

\* What docs/IMPLEMENTATION_PLAN.md:148 says of Stop, "drains queue": when it
\* returns, every accepted job has been processed.
StopDrains ==
    main = "returned" =>
        \A j \in Jobs : fate[j] \notin {"accepted", "dropped"}
=============================================================================
