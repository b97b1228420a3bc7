----------------------------- MODULE MCService -----------------------------
(***************************************************************************)
(* An instance of Service for TLC, and what the program gets to once the   *)
(* disturbances stop.  Until `calm' is set repositories come and go,       *)
(* listings fail and deliveries arrive; from then on GitHub answers.  The  *)
(* ticker fires at any time, calm or not.                                  *)
(***************************************************************************)
EXTENDS Service, TLC

CONSTANTS r1, r2, r3, i1, i2, w1, d1

MCHome      == r1 :> i1 @@ r2 :> i1 @@ r3 :> i2
MCInitially == i1 :> <<r1, r2>> @@ i2 :> <<r3>>

VARIABLES
    calm,
    weather        \* what disturbs this behaviour: GitHub or webhooks (a bound)

mood == <<calm, weather>>

CalmInit == ServiceInit /\ calm = FALSE /\ weather \in {"GitHub", "webhooks"}

Idle == buffer = <<>> /\ \A w \in Workers : hand[w] = None

\* One installation changes.
Disturbance ==
    \/ weather = "GitHub" /\ Schedule(People) /\ listing'[i2] = listing[i2]
    \/ weather = "GitHub" /\ Schedule(Failure)
    \/ weather = "webhooks" /\ \E d \in Deliveries : Hooks(Arrive(d))

CalmNext ==
    \/ ~calm /\ Disturbance /\ UNCHANGED mood
    \/ Schedule(Tick) /\ UNCHANGED mood
    \/ (Schedule(Progress) \/ Schedule(StopTicker)) /\ UNCHANGED mood
    \/ \E d \in Deliveries : Hooks(Handle(d)) /\ UNCHANGED mood
    \/ \E w \in Workers : Check(w) /\ UNCHANGED mood
    \/ weather = "webhooks" /\ (Serve(ServerFails) \/ Serve(Main)) /\ UNCHANGED mood
    \/ ctxDone /\ Schedule(Failure) /\ UNCHANGED mood
    \/ ~calm /\ calm' = TRUE /\ UNCHANGED <<weather, vars>>

\* From then on, and in a shutdown, goroutines are scheduled, a call to GitHub and
\* a check end, the ticker fires again, and main goes on once the root context is
\* done.  Calm need not come, nor a signal, and a delivery may take for ever.
CalmSpec ==
    /\ CalmInit /\ [][CalmNext]_<<vars, mood>>
    /\ WF_vars(calm /\ Schedule(Progress)) /\ WF_vars(calm /\ Schedule(Tick))
    /\ \A w \in Workers : WF_vars((calm \/ ctxDone) /\ Check(w))
    /\ WF_vars(ctxDone /\ Serve(Main))

\* The queue has room for the jobs of a cycle.
CycleFits == Capacity >= Cardinality(Repos \ Skipped)

\* docs/ONE_PAGER.md:42, "A weekly scheduled scan catches any repositories that
\* were missed", holds under two conditions: a cycle's jobs fit into the queue, and
\* again and again a tick finds the jobs of earlier cycles done.  Then a job that
\* was refused, a listing that failed and an event that was lost cost no repository
\* its next check.  Otherwise a cycle fills the queue and drops the rest of its
\* jobs, the same ones each time perhaps (scheduler.go:110, handler.go:131).
EveryRepositoryIsChecked ==
    CycleFits /\ []<><<Idle /\ Schedule(Tick)>>_vars =>
        \A r \in Repos \ Skipped :
            calm /\ Listed(r) ~> ctxDone \/ \E w \in Workers : hand[w] = r

\* The program ends once one of its servers has failed or it was told to stop,
\* whatever deliveries, checks and the scheduler are doing (main.go:137-174).
ShutdownEnds == (ctxDone \/ ~listening) ~> main = "returned"
=============================================================================
