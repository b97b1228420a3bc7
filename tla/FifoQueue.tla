----------------------------- MODULE FifoQueue -----------------------------
(***************************************************************************)
(* A bounded queue and those who serve it, as one atomic object: what      *)
(* WorkQueue's mutex, channel and WaitGroup come to, and what Scheduler    *)
(* and Service take the queue for.  Jobs enter while the queue is open and *)
(* has room, and are handed out one at a time, oldest first; a worker      *)
(* leaves only in a shutdown, with at most the one job it drops.           *)
(***************************************************************************)
EXTENDS Naturals, Sequences

CONSTANTS Jobs, Workers, Room, None

VARIABLES
    line,        \* the jobs that wait, the oldest first
    shut,        \* nothing enters any more
    cancelled,   \* the workers have been told to leave
    holds,       \* holds[w]: the job w has
    staff        \* the workers that have not left

vars == <<line, shut, cancelled, holds, staff>>

Init ==
    /\ line = <<>> /\ shut = FALSE /\ cancelled = FALSE
    /\ holds = [w \in Workers |-> None] /\ staff = Workers

\* A job that finds the queue shut or full leaves no trace: a stuttering step.
Enter(j) ==
    /\ ~shut /\ Len(line) < Room
    /\ line' = Append(line, j)
    /\ UNCHANGED <<shut, cancelled, holds, staff>>

Take(w) ==
    /\ w \in staff /\ holds[w] = None /\ line # <<>>
    /\ holds' = [holds EXCEPT ![w] = Head(line)]
    /\ line' = Tail(line)
    /\ UNCHANGED <<shut, cancelled, staff>>

Finish(w) ==
    /\ holds[w] # None
    /\ holds' = [holds EXCEPT ![w] = None]
    /\ UNCHANGED <<line, shut, cancelled, staff>>

\* With nothing left to take; or, once cancelled, dropping the job in hand or
\* the one it takes to find out.
Leave(w) ==
    /\ w \in staff /\ staff' = staff \ {w}
    /\ \/ shut /\ line = <<>> /\ holds[w] = None /\ UNCHANGED <<line, holds>>
       \/ /\ cancelled /\ holds[w] # None
          /\ holds' = [holds EXCEPT ![w] = None] /\ UNCHANGED line
       \/ /\ cancelled /\ holds[w] = None /\ line # <<>>
          /\ line' = Tail(line) /\ UNCHANGED holds
    /\ UNCHANGED <<shut, cancelled>>

Cancel ==
    /\ cancelled' = TRUE
    /\ UNCHANGED <<line, shut, holds, staff>>

Shut ==
    /\ shut' = TRUE
    /\ UNCHANGED <<line, cancelled, holds, staff>>

Next ==
    \/ \E j \in Jobs : Enter(j)
    \/ \E w \in Workers : Take(w) \/ Finish(w) \/ Leave(w)
    \/ Cancel \/ Shut

Spec == Init /\ [][Next]_vars
=============================================================================
