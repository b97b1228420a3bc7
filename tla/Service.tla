------------------------------ MODULE Service ------------------------------
(***************************************************************************)
(* The program: the scheduler, the webhook deliveries of handler.go, the   *)
(* workers, and main's shutdown of the HTTP server and of the queue.       *)
(* A worker's check of a repository is in Engine and Properties.           *)
(***************************************************************************)
EXTENDS Scheduler

CONSTANTS
    Workers,
    Deliveries     \* webhook deliveries, each of them once (a bound)

VARIABLES
    hand,          \* hand[w]: the repository w checks
    alive,         \* the workers that have not left their loop
    hook,          \* hook[d]: where delivery d is
    payload,       \* payload[d]: the repositories d has still to offer
    listening,     \* the HTTP server accepts connections
    main,          \* where main is
    gaveUp         \* Shutdown timed out

workers  == <<hand, alive>>
webhooks == <<hook, payload>>
server   == <<listening, main, gaveUp>>
vars     == <<buffer, stopped, ctxDone, listing, pc, todo, install, page,
              found, offered, steady, excused, hand, alive, hook, payload,
              listening, main, gaveUp>>

HookStates == {"none", "reading", "offering", "answered"}
MainStates == {"serving", "shutdown", "stop", "wait", "returned"}

ServiceInit ==
    /\ Init
    /\ hand = [w \in Workers |-> None] /\ alive = Workers
    /\ hook = [d \in Deliveries |-> "none"]
    /\ payload = [d \in Deliveries |-> <<>>]
    /\ listening = TRUE /\ main = "serving" /\ gaveUp = FALSE

-----------------------------------------------------------------------------
(* ServeHTTP, in a goroutine per delivery.                                 *)

\* It reads the body, for as long as GitHub takes to send it.
Arrive(d) ==
    /\ listening /\ hook[d] = "none"
    /\ hook' = [hook EXCEPT ![d] = "reading"]
    /\ UNCHANGED <<queue, payload>>

\* One repository was created, or some were added to an installation.  Other
\* events, and a payload that is not valid, offer nothing.
Events ==
    {<<>>} \cup {<<r>> : r \in Repos}
           \cup {s \in Repos \X Repos : s[1] # s[2] /\ Home[s[1]] = Home[s[2]]}

Dispatch(d) ==
    /\ hook[d] = "reading"
    /\ hook' = [hook EXCEPT ![d] = "offering"]
    /\ \E s \in Events : payload' = [payload EXCEPT ![d] = s]
    /\ UNCHANGED queue

\* h.enqueue: a job that is refused is logged and forgotten.
HookOffer(d) ==
    /\ hook[d] = "offering" /\ payload[d] # <<>>
    /\ Enqueue(Head(payload[d]))
    /\ payload' = [payload EXCEPT ![d] = Tail(@)]
    /\ UNCHANGED hook

\* 200, whether the jobs were accepted or not (or 204, 400, 401).
Answer(d) ==
    /\ hook[d] = "offering" /\ payload[d] = <<>>
    /\ hook' = [hook EXCEPT ![d] = "answered"]
    /\ UNCHANGED <<queue, payload>>

Handle(d) == Dispatch(d) \/ HookOffer(d) \/ Answer(d)

-----------------------------------------------------------------------------
(* The workers.                                                            *)

\* A job received after the cancellation is dropped, and the worker leaves.
Receive(w) ==
    /\ w \in alive /\ hand[w] = None /\ buffer # <<>>
    /\ buffer' = Tail(buffer)
    /\ IF ctxDone
         THEN alive' = alive \ {w} /\ hand' = hand
         ELSE alive' = alive /\ hand' = [hand EXCEPT ![w] = Head(buffer)]
    /\ UNCHANGED stopped

ProcessJob(w) ==
    /\ hand[w] # None
    /\ hand' = [hand EXCEPT ![w] = None]
    /\ UNCHANGED <<queue, alive>>

RangeEnds(w) ==
    /\ w \in alive /\ hand[w] = None /\ buffer = <<>> /\ stopped
    /\ alive' = alive \ {w}
    /\ UNCHANGED <<queue, hand>>

Worker(w) == Receive(w) \/ ProcessJob(w) \/ RangeEnds(w)

-----------------------------------------------------------------------------
(* main.                                                                   *)

\* The server that fails is not missed.
BugServerFails ==
    /\ main = "serving" /\ listening
    /\ listening' = FALSE
    /\ UNCHANGED <<ctxDone, main, gaveUp, queue>>

\* ListenAndServe of one of the two servers returns an error, and startServer's
\* goroutine calls cancel().
ServerFails ==
    /\ main = "serving" /\ listening
    /\ ctxDone' = TRUE /\ listening' \in BOOLEAN
    /\ UNCHANGED <<main, gaveUp, queue>>

\* awaitShutdown returns, on a signal or because the context is done; cancel();
\* Shutdown closes the listeners.
Leave ==
    /\ main = "serving"
    /\ ctxDone' = TRUE /\ listening' = FALSE /\ main' = "shutdown"
    /\ UNCHANGED <<gaveUp, queue>>

Active == {d \in Deliveries : hook[d] \in {"reading", "offering"}}

\* The server is closed, its connections with it, and not shut down.
BugShutdown ==
    /\ main = "shutdown"
    /\ main' = "stop"
    /\ UNCHANGED <<ctxDone, listening, gaveUp, queue>>

\* Shutdown returns once no connection is active, or after shutdownTimeout.
Shutdown ==
    /\ main = "shutdown"
    /\ main' = "stop"
    /\ gaveUp' = (Active # {})
    /\ UNCHANGED <<ctxDone, listening, queue>>

\* queue.Stop() up to its wait.
Stop ==
    /\ main = "stop"
    /\ stopped' = TRUE /\ main' = "wait"
    /\ UNCHANGED <<ctxDone, listening, gaveUp, buffer>>

\* The process ends, with whatever else it was doing.
Return ==
    /\ main = "wait" /\ alive = {}
    /\ main' = "returned"
    /\ UNCHANGED <<ctxDone, listening, gaveUp, queue>>

Main == Leave \/ Shutdown \/ Stop \/ Return

-----------------------------------------------------------------------------
Running == main # "returned"

Schedule(step) == Running /\ step /\ UNCHANGED <<workers, webhooks, server>>

Hooks(step) ==
    Running /\ step /\ UNCHANGED <<ctxDone, listing, scheduler, workers, server>>

Check(w) ==
    /\ Running /\ Worker(w)
    /\ UNCHANGED <<ctxDone, listing, scheduler, webhooks, server>>

Serve(step) == step /\ UNCHANGED <<listing, scheduler, workers, webhooks>>

Next ==
    \/ Schedule(People) \/ Schedule(Failure) \/ Schedule(Progress)
    \/ Schedule(Tick) \/ Schedule(StopTicker)
    \/ \E d \in Deliveries : Hooks(Arrive(d)) \/ Hooks(Handle(d))
    \/ \E w \in Workers : Check(w)
    \/ Serve(ServerFails) \/ Serve(Main)

Spec == ServiceInit /\ [][Next]_vars

-----------------------------------------------------------------------------
(* What the program has to keep true.                                      *)

TypeOK ==
    /\ SchedulerTypeOK
    /\ hand \in [Workers -> Repos \cup {None}] /\ alive \subseteq Workers
    /\ hook \in [Deliveries -> HookStates]
    /\ payload \in [Deliveries -> Seq(Repos)]
    /\ listening \in BOOLEAN /\ main \in MainStates /\ gaveUp \in BOOLEAN

\* The queue stops when nobody delivers to it any more: unless Shutdown gave up
\* waiting for a slow delivery, none is refused because of the shutdown
\* (main.go:160-174 against handler.go:123-138).
DeliveriesBeforeStop == stopped /\ ~gaveUp => Active = {}

\* The scheduler, the deliveries, the workers and main use the queue as WorkQueue
\* lets them, as a FifoQueue (scheduler.go:110, handler.go:131, main.go:174).
Fifo ==
    INSTANCE FifoQueue WITH Jobs <- Repos, Room <- Capacity,
        line <- buffer, shut <- stopped, cancelled <- ctxDone, holds <- hand,
        staff <- alive

FifoSpec == Fifo!Spec
=============================================================================
