----------------------------- MODULE JobLedger -----------------------------
(***************************************************************************)
(* What the work queue promises to those who submit jobs, with no channel, *)
(* mutex or goroutine in sight: a job is accepted or refused once; an      *)
(* accepted job is processed once, or dropped, but dropped only when the   *)
(* program is closing; nothing is accepted after the queue has shut and    *)
(* nothing happens to any job once shutdown is over.                       *)
(***************************************************************************)
CONSTANT Jobs

VARIABLES
    ledger,   \* what has become of each job
    closing,  \* the program has been told to stop
    shut,     \* the queue accepts nothing more
    over      \* shutdown has finished

vars == <<ledger, closing, shut, over>>

Init ==
    /\ ledger = [j \in Jobs |-> "new"]
    /\ closing = FALSE /\ shut = FALSE /\ over = FALSE

Enter(j, old, new) ==
    /\ ledger[j] = old
    /\ ledger' = [ledger EXCEPT ![j] = new]
    /\ UNCHANGED <<closing, shut, over>>

Accept(j) == ~shut /\ Enter(j, "new", "accepted")

Refuse(j) == Enter(j, "new", "refused")

Process(j) ==
    /\ ~over
    /\ Enter(j, "accepted", "completed") \/ Enter(j, "accepted", "failed")

Drop(j) == closing /\ ~over /\ Enter(j, "accepted", "dropped")

Close ==
    /\ ~closing
    /\ closing' = TRUE
    /\ UNCHANGED <<ledger, shut, over>>

Shut ==
    /\ ~shut
    /\ shut' = TRUE
    /\ UNCHANGED <<ledger, closing, over>>

Finish ==
    /\ closing /\ shut /\ ~over
    /\ over' = TRUE
    /\ UNCHANGED <<ledger, closing, shut>>

Next ==
    \/ \E j \in Jobs : Accept(j) \/ Refuse(j) \/ Process(j) \/ Drop(j)
    \/ Close \/ Shut \/ Finish

Spec == Init /\ [][Next]_vars

\* As long as the program is not closing, an accepted job gets processed;
\* once it is closing, it shuts and finishes.
Fairness ==
    /\ \A j \in Jobs : WF_vars(~closing /\ Process(j))
    /\ WF_vars(closing /\ Shut) /\ WF_vars(Finish)

FairSpec == Spec /\ Fairness
=============================================================================
