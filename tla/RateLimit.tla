----------------------------- MODULE RateLimit -----------------------------
(***************************************************************************)
(* The rate limit transport of internal/github/ratelimit.go: the requests  *)
(* of one installation's client, which the workers and the scheduler send  *)
(* concurrently, and the record of GitHub's budget that they share.        *)
(*                                                                         *)
(* GitHub grants Limit requests per window and starts a new window with    *)
(* the first request after the last one's end.  Time is counted in         *)
(* seconds, each duration as what is left of it, so that the passing of    *)
(* time is one action that counts all of them down.  The local clock is    *)
(* Ahead seconds ahead of GitHub's (behind, when negative).                *)
(*                                                                         *)
(* Sequence numbers are left out: `latest', `recorded' and `informed' keep *)
(* of them what the properties need.                                       *)
(***************************************************************************)
EXTENDS Integers

CONSTANTS
    Callers,       \* the goroutines that send requests
    Nobody,        \* no caller
    Limit,         \* X-RateLimit-Limit
    Threshold,     \* int(float64(limit) * t.threshold)
    Window,        \* the length of GitHub's window
    RetryAfters,   \* the values of Retry-After
    Ahead          \* local clock minus GitHub's

ASSUME BudgetAssumption ==
    /\ Limit \in Nat \ {0} /\ Window \in Nat \ {0}
    /\ Threshold \in Nat /\ Ahead \in Int
    /\ RetryAfters \subseteq Nat \ {0}
ASSUME NobodyAssumption == Nobody \notin Callers

VARIABLES
    left,          \* GitHub: requests left in the window
    windowLeft,    \* GitHub: what is left of the window
    latest,        \* GitHub: whose request it answered last
    limit,         \* t.limit, 0 before the first answer
    remaining,     \* t.remaining
    resetIn,       \* time.Until(t.resetAt), 0 when it has passed
    recorded,      \* the answer last put in the record is GitHub's latest
    pc,            \* pc[c]: where c is in RoundTrip
    tries,         \* tries[c]: how often GitHub has had c's request
    timer,         \* timer[c]: what is left of c's sleep
    answer,        \* answer[c]: the response on its way to c
    informed,      \* informed[c]: the answer c acts on is GitHub's latest
    owed,          \* owed[c]: what is left of the wait GitHub imposed on c
    carried        \* carried[c]: GitHub has carried out c's request

github == <<left, windowLeft, latest>>
record == <<limit, remaining, resetIn, recorded>>
vars   == <<left, windowLeft, latest, limit, remaining, resetIn, recorded,
            pc, tries, timer, answer, informed, owed, carried>>

States == {"outside", "throttle", "send", "answered", "backoff"}

Answers == [forbidden : BOOLEAN, headers : BOOLEAN, remaining : 0..Limit,
            resetIn : Nat, retryAfter : {0} \cup RetryAfters]

NoAnswer == [forbidden |-> FALSE, headers |-> FALSE, remaining |-> 0,
             resetIn |-> 0, retryAfter |-> 0]

NonNeg(n) == IF n > 0 THEN n ELSE 0

\* GitHub's window may have been used by an earlier run of the program.
Init ==
    /\ left \in 0..Limit /\ windowLeft \in 0..Window /\ latest = Nobody
    /\ limit = 0 /\ remaining = 0 /\ resetIn = 0 /\ recorded = FALSE
    /\ pc = [c \in Callers |-> "outside"]
    /\ tries = [c \in Callers |-> 0]
    /\ timer = [c \in Callers |-> 0]
    /\ answer = [c \in Callers |-> NoAnswer]
    /\ informed = [c \in Callers |-> FALSE]
    /\ owed = [c \in Callers |-> 0]
    /\ carried = [c \in Callers |-> FALSE]

-----------------------------------------------------------------------------
(* RoundTrip.                                                              *)

Throttled == limit # 0 /\ remaining <= Threshold /\ resetIn > 0

\* An exhausted budget is waited for like any other.
BugDelay == IF remaining = 0 THEN 1 ELSE (resetIn + remaining - 1) \div remaining

\* waitIfNeeded's delay.  The quotient is rounded up to a second, as is every
\* instant of this model; that takes in the floor.
Delay ==
    IF remaining = 0 THEN resetIn
    ELSE (resetIn + remaining - 1) \div remaining

\* waitIfNeeded: the record is read under t.mu, the sleep is outside it.
Enter(c) ==
    /\ pc[c] = "outside"
    /\ pc' = [pc EXCEPT ![c] = IF Throttled THEN "throttle" ELSE "send"]
    /\ timer' = [timer EXCEPT ![c] = IF Throttled THEN Delay ELSE 0]
    /\ informed' = [informed EXCEPT ![c] = recorded]
    /\ UNCHANGED <<github, record, tries, answer, owed, carried>>

\* After its sleep a request looks at the budget again.
BugWake(c) ==
    /\ pc[c] \in {"throttle", "backoff"} /\ timer[c] = 0
    /\ IF pc[c] = "throttle" /\ Throttled
         THEN pc' = pc /\ timer' = [timer EXCEPT ![c] = Delay]
         ELSE pc' = [pc EXCEPT ![c] = "send"] /\ timer' = timer
    /\ UNCHANGED <<github, record, tries, answer, informed, owed, carried>>

\* sleepWithContext returns nil.
Wake(c) ==
    /\ pc[c] \in {"throttle", "backoff"} /\ timer[c] = 0
    /\ pc' = [pc EXCEPT ![c] = "send"]
    /\ UNCHANGED <<github, record, tries, timer, answer, informed, owed,
                   carried>>

Budget == IF windowLeft = 0 THEN Limit ELSE left
Until  == IF windowLeft = 0 THEN Window ELSE windowLeft

\* A response: forbidden or not, with rate limit headers that say that r
\* requests remain or without them, with Retry-After or without (0).
Response(forbidden, headers, r, retryAfter) ==
    [forbidden  |-> forbidden,
     headers    |-> headers,
     remaining  |-> IF headers THEN r ELSE 0,
     resetIn    |-> IF headers THEN NonNeg(Until - Ahead) ELSE 0,
     retryAfter |-> retryAfter]

\* GitHub's side of next.RoundTrip: it sends c the response a, leaves r
\* requests in the window and asks c to wait for w.
Serve(c, a, r, w) ==
    /\ left' = r /\ windowLeft' = Until /\ latest' = c
    /\ answer' = [answer EXCEPT ![c] = a]
    /\ tries' = [tries EXCEPT ![c] = @ + 1]
    /\ pc' = [pc EXCEPT ![c] = "answered"]
    /\ informed' = [d \in Callers |-> FALSE]
    /\ recorded' = FALSE
    /\ owed' = [owed EXCEPT ![c] = w]
    /\ carried' = [carried EXCEPT ![c] = @ \/ ~a.forbidden]
    /\ UNCHANGED <<limit, remaining, resetIn, timer>>

\* The request is carried out, or forbidden for want of a permission.
Grant(c) ==
    /\ pc[c] = "send" /\ Budget > 0
    /\ \E forbidden, headers \in BOOLEAN :
           Serve(c, Response(forbidden, headers, Budget - 1, 0), Budget - 1, 0)

\* 403 with X-RateLimit-Remaining: 0.
RefusePrimary(c) ==
    /\ pc[c] = "send" /\ Budget = 0
    /\ Serve(c, Response(TRUE, TRUE, 0, 0), 0, Until)

\* 403 with Retry-After, whatever the budget: requests come too fast.
RefuseSecondary(c) ==
    /\ pc[c] = "send" /\ Budget > 0
    /\ \E headers \in BOOLEAN, s \in RetryAfters :
           Serve(c, Response(TRUE, headers, Budget, s), Budget, s)

\* The status code does not matter.
BugLimited(a) == a.retryAfter > 0 \/ (a.headers /\ a.remaining = 0)

\* isRateLimited.  (A Retry-After that is zero or no number would count too, and be
\* waited out by the reset time: GitHub sends none here.)
Limited(a) ==
    /\ a.forbidden
    /\ a.retryAfter > 0 \/ (a.headers /\ a.remaining = 0)

\* The end of the window is overlooked.
BugRetryDelay(a) == IF a.retryAfter > 0 THEN a.retryAfter ELSE 1

\* Retry-After counts from the end of the window.
BugRetryBoth(a) == a.retryAfter + a.resetIn

\* rateLimitDelay.
RetryDelay(a) ==
    IF a.retryAfter > 0 THEN a.retryAfter
    ELSE IF a.headers /\ a.resetIn > 0 THEN a.resetIn
    ELSE 1

\* updateFromResponse: the record takes the answer that arrives last, which
\* need not be the one GitHub sent last.
Update(c) ==
    IF answer[c].headers
      THEN /\ limit' = Limit
           /\ remaining' = answer[c].remaining
           /\ resetIn' = answer[c].resetIn
           /\ recorded' = (latest = c)
      ELSE UNCHANGED record

\* A refused request is tried until it is not refused.
BugRetries(c) == Limited(answer[c])

\* One retry.
Retries(c) == Limited(answer[c]) /\ tries[c] = 1

Return(c) ==
    /\ pc' = [pc EXCEPT ![c] = "outside"]
    /\ tries' = [tries EXCEPT ![c] = 0]
    /\ timer' = [timer EXCEPT ![c] = 0]
    /\ answer' = [answer EXCEPT ![c] = NoAnswer]
    /\ informed' = [informed EXCEPT ![c] = FALSE]
    /\ owed' = [owed EXCEPT ![c] = 0]
    /\ carried' = [carried EXCEPT ![c] = FALSE]

\* The response arrives: RoundTrip returns it or backs off.
Receive(c) ==
    /\ pc[c] = "answered"
    /\ Update(c)
    /\ IF Retries(c)
         THEN /\ pc' = [pc EXCEPT ![c] = "backoff"]
              /\ timer' = [timer EXCEPT ![c] = RetryDelay(answer[c])]
              /\ answer' = [answer EXCEPT ![c] = NoAnswer]
              /\ informed' = [informed EXCEPT ![c] = (latest = c)]
              /\ UNCHANGED <<tries, owed, carried>>
         ELSE Return(c)
    /\ UNCHANGED github

\* The context is done in a sleep, or the request or its response is lost: an
\* error, and no update.
Fail(c) ==
    /\ pc[c] # "outside"
    /\ Return(c)
    /\ UNCHANGED <<github, record>>

-----------------------------------------------------------------------------
Down(n) == IF n = 0 THEN 0 ELSE n - 1

\* A second passes, for GitHub and for the program.
Tick ==
    /\ windowLeft' = Down(windowLeft)
    /\ resetIn' = Down(resetIn)
    /\ timer' = [c \in Callers |-> Down(timer[c])]
    /\ answer' = [c \in Callers |->
                     [answer[c] EXCEPT !.resetIn = Down(answer[c].resetIn)]]
    /\ owed' = [c \in Callers |-> Down(owed[c])]
    /\ UNCHANGED <<left, latest, limit, remaining, recorded, pc, tries,
                   informed, carried>>

RoundTrip(c) ==
    Wake(c) \/ Grant(c) \/ RefusePrimary(c) \/ RefuseSecondary(c) \/ Receive(c)

Next ==
    \/ \E c \in Callers : Enter(c) \/ RoundTrip(c) \/ Fail(c)
    \/ Tick

Spec == Init /\ [][Next]_vars

\* Time passes, timers fire and GitHub answers: the HTTP client's transport
\* returns for every request.  Nothing makes a caller send, and no request
\* has to fail.
FairSpec ==
    /\ Spec
    /\ WF_vars(Tick) /\ \A c \in Callers : WF_vars(RoundTrip(c))

-----------------------------------------------------------------------------
(* What the transport has to keep true.                                    *)

\* Every variable has its type; a request is sent twice at most.
TypeOK ==
    /\ left \in 0..Limit /\ windowLeft \in 0..Window
    /\ latest \in Callers \cup {Nobody}
    /\ limit \in {0, Limit} /\ remaining \in 0..Limit /\ resetIn \in Nat
    /\ recorded \in BOOLEAN
    /\ pc \in [Callers -> States] /\ tries \in [Callers -> 0..2]
    /\ timer \in [Callers -> Nat] /\ owed \in [Callers -> Nat]
    /\ answer \in [Callers -> Answers]
    /\ informed \in [Callers -> BOOLEAN]
    /\ carried \in [Callers -> BOOLEAN]

\* A request goes out into an exhausted window only because another one was
\* answered after what it knew: as long as GitHub's latest answer is the one it
\* read (or, for a retry, got), there is budget left, or the window is over but
\* for the seconds the local clock is ahead (ratelimit.go:117-136 and 211-219).
RefusedOnlyWhenOvertaken ==
    \A c \in Callers :
        pc[c] = "send" /\ informed[c] =>
            left > 0 \/ windowLeft <= NonNeg(Ahead)

\* A refused request is not sent again before the time GitHub named in the
\* refusal, Retry-After or the end of the window, is up: by GitHub's clock, but
\* for the seconds the local clock is ahead (ratelimit.go:201-223).
HonoursRefusal ==
    \A c \in Callers :
        pc[c] = "send" /\ tries[c] > 0 => owed[c] <= NonNeg(Ahead)

\* A request that GitHub has carried out is not sent again, though the answer
\* may say that nothing remains: a write is not made twice
\* (ratelimit.go:195-198).
NeverRepeats ==
    \A c \in Callers : pc[c] \in {"backoff", "send"} => ~carried[c]

\* However little is left of the budget, no sleep is longer than what the local
\* clock makes of a whole window, or the wait GitHub named in Retry-After, or the
\* second that is the floor (ratelimit.go:97-140 and 201-223).
SleepsAreBounded ==
    \A c \in Callers :
        \/ timer[c] <= NonNeg(Window - Ahead)
        \/ timer[c] <= 1
        \/ \E s \in RetryAfters : timer[c] <= s

\* How far a request has come.
Place == [answered |-> 0, throttle |-> 1, backoff |-> 1, send |-> 2]
Progress(c) == 3 * tries[c] + Place[pc[c]]

\* A request under way returns, comes closer to its return, or stays where it
\* is with no more to sleep than before: nobody else's answer, and no look at a
\* budget that has shrunk in the meantime, sends it back (ratelimit.go:40-95).
RequestsGoForward ==
    [][\A c \in Callers :
          pc[c] # "outside" =>
              \/ pc'[c] = "outside"
              \/ Progress(c)' > Progress(c)
              \/ /\ pc'[c] = pc[c] /\ tries'[c] = tries[c]
                 /\ timer'[c] <= timer[c]]_vars

\* Every request returns, whatever GitHub answers and whoever else uses up the
\* budget: the sleeps end and there is one retry (ratelimit.go:40-95).
RequestsReturn == \A c \in Callers : pc[c] # "outside" ~> pc[c] = "outside"
=============================================================================
