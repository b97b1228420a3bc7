-------------------------- MODULE WorkQueueProofs --------------------------
(***************************************************************************)
(* Proofs about WorkQueue, for any number of producers, workers and jobs   *)
(* and any capacity.                                                       *)
(***************************************************************************)
EXTENDS WorkQueue, FiniteSetTheorems, TLAPS

-----------------------------------------------------------------------------
(* The inductive invariant.                                                *)

\* A thread holds a job exactly while it has one to take care of.
Holding ==
    /\ \A p \in Producers : call[p] = "outside" <=> arg[p] = Nobody
    /\ \A w \in Workers :
           pc[w] \in {"select", "process"} <=> hand[w] # Nobody

\* The mutex is held by the thread that is in its critical section, and by
\* nobody else.
Mutex ==
    /\ \A p \in Producers :
           call[p] \in {"check", "send", "unlock"} <=> mu = p
    /\ main \in {"mark", "cancel", "close", "unlock"} <=> mu = Main

\* What Stop has done is what its position says.
StopProgress ==
    /\ stopped <=> main \in {"cancel", "close", "unlock", "wait", "returned"}
    /\ closed <=> main \in {"unlock", "wait", "returned"}
    /\ main \in {"close", "unlock", "wait", "returned"} => ctxDone
    /\ \A p \in Producers : call[p] = "send" => ~stopped

\* The WaitGroup counts the workers that run.
Counted ==
    /\ \A w \in Workers : w \in waiting <=> pc[w] \notin {"unborn", "exited"}
    /\ main # "starting" => \A w \in Workers : pc[w] # "unborn"
    /\ main = "returned" => waiting = {}
    /\ WorkersStayOn

Control == TypeOK /\ Holding /\ Mutex /\ StopProgress /\ Counted

-----------------------------------------------------------------------------
(* Types.                                                                  *)

LEMMA InitControl == Init => Control
  <1> SUFFICES ASSUME Init PROVE Control
    OBVIOUS
  <1> USE DEF Init
  <1>1. buffer \in Seq(Jobs) /\ Len(buffer) \in 0..Capacity
    BY CapacityAssumption
  <1>2. TypeOK
    BY <1>1 DEF TypeOK, Fates, CallStates, WorkerStates, MainStates
  <1>3. Holding
    BY DEF Holding
  <1>4. Mutex
    BY ThreadsAssumption DEF Mutex
  <1>5. StopProgress
    BY DEF StopProgress
  <1>6. Counted
    BY DEF Counted, WorkersStayOn
  <1> QED BY <1>2, <1>3, <1>4, <1>5, <1>6 DEF Control

LEMMA BufferTypes ==
  ASSUME TypeOK
  PROVE  /\ \A j \in Jobs : ~Full =>
               /\ Append(buffer, j) \in Seq(Jobs)
               /\ Len(Append(buffer, j)) \in 0..Capacity
         /\ buffer # <<>> =>
               /\ Head(buffer) \in Jobs
               /\ Tail(buffer) \in Seq(Jobs)
               /\ Len(Tail(buffer)) \in 0..Capacity
  BY CapacityAssumption DEF TypeOK, Full

LEMMA EnqueueTypes ==
  ASSUME TypeOK, Holding, NEW p \in Producers,
         Enqueue(p) \/ \E j \in Jobs : Call(p, j)
  PROVE  TypeOK' /\ Holding'
  <1> USE ThreadsAssumption DEF TypeOK, Holding, queue, workers, callers
  <1>1. ASSUME NEW j \in Jobs, Call(p, j)
        PROVE  TypeOK' /\ Holding'
    BY <1>1 DEF Call, CallStates
  <1>2. CASE Lock(p)
    BY <1>2 DEF Lock, CallStates
  <1>3. CASE CheckStopped(p)
    BY <1>3 DEF CheckStopped, CallStates, Fates
  <1>4. CASE TrySend(p)
    <2>1. arg[p] \in Jobs
      BY <1>4 DEF TrySend
    <2>2. buffer' \in Seq(Jobs) /\ Len(buffer') \in 0..Capacity
      <3>1. CASE Full /\ buffer' = buffer
        BY <3>1
      <3>2. CASE ~Full /\ buffer' = Append(buffer, arg[p])
        BY <3>2, <2>1, BufferTypes
      <3> QED BY <1>4, <3>1, <3>2 DEF TrySend
    <2>3. fate' \in [Jobs -> Fates]
      BY <1>4, <2>1 DEF TrySend, Fates
    <2> QED BY <1>4, <2>2, <2>3 DEF TrySend, CallStates
  <1>5. CASE Unlock(p)
    BY <1>5 DEF Unlock, CallStates
  <1> QED BY <1>1, <1>2, <1>3, <1>4, <1>5 DEF Enqueue

LEMMA WorkerTypes ==
  ASSUME TypeOK, Holding, NEW w \in Workers, Worker(w)
  PROVE  TypeOK' /\ Holding'
  <1> USE ThreadsAssumption DEF TypeOK, Holding, queue, workers, callers
  <1>1. CASE Receive(w)
    BY <1>1, BufferTypes DEF Receive, WorkerStates
  <1>2. CASE RangeEnds(w)
    BY <1>2 DEF RangeEnds, Exit, WorkerStates
  <1>3. CASE Discard(w)
    BY <1>3 DEF Discard, Exit, WorkerStates, Fates
  <1>4. CASE Begin(w)
    BY <1>4 DEF Begin, WorkerStates
  <1>5. CASE ProcessJob(w)
    BY <1>5 DEF ProcessJob, WorkerStates, Fates
  <1> QED BY <1>1, <1>2, <1>3, <1>4, <1>5 DEF Worker

LEMMA MainTypes ==
  ASSUME TypeOK, Holding, Start \/ CancelRoot \/ StopLock \/ Stop
  PROVE  TypeOK' /\ Holding'
  <1> USE DEF TypeOK, Holding, queue, workers, callers
  <1>1. CASE Start
    BY <1>1 DEF Start, StartWorker, StartReturns, WorkerStates, MainStates
  <1>2. CASE CancelRoot
    BY <1>2 DEF CancelRoot
  <1>3. CASE StopLock
    BY <1>3 DEF StopLock, MainStates
  <1>4. CASE Stop
    BY <1>4 DEF Stop, StopMark, StopCancel, StopClose, StopUnlock, StopWait,
                MainStates
  <1> QED BY <1>1, <1>2, <1>3, <1>4

LEMMA NextTypes ==
  ASSUME TypeOK, Holding, [Next]_vars
  PROVE  TypeOK' /\ Holding'
  <1>1. CASE UNCHANGED vars
    BY <1>1 DEF vars, TypeOK, Holding
  <1> QED BY <1>1, EnqueueTypes, WorkerTypes, MainTypes DEF Next

\* Every variable has its type: the buffer never exceeds its capacity, and a
\* job is where the code has one (queue.go:37-53, 125-143).
THEOREM TypeCorrect == Spec => []TypeOK
  <1>1. Init => TypeOK /\ Holding
    BY InitControl DEF Control
  <1>2. TypeOK /\ Holding /\ [Next]_vars => (TypeOK /\ Holding)'
    BY NextTypes
  <1> QED BY <1>1, <1>2, PTL DEF Spec

-----------------------------------------------------------------------------
(* The mutex, Stop and the WaitGroup.                                      *)

LEMMA EnqueueControl ==
  ASSUME Control, NEW p \in Producers,
         Enqueue(p) \/ \E j \in Jobs : Call(p, j)
  PROVE  Mutex' /\ StopProgress' /\ Counted'
  <1> USE ThreadsAssumption DEF Control, TypeOK, CallStates
  <1>1. ASSUME NEW j \in Jobs, Call(p, j)
        PROVE  Mutex' /\ StopProgress' /\ Counted'
    BY <1>1 DEF Call, queue, workers, Mutex, StopProgress, Counted,
                WorkersStayOn
  <1>2. CASE Lock(p)
    BY <1>2 DEF Lock, workers, Mutex, StopProgress, Counted, WorkersStayOn
  <1>3. CASE CheckStopped(p)
    BY <1>3 DEF CheckStopped, queue, workers, Mutex, StopProgress, Counted,
                WorkersStayOn
  <1>4. CASE TrySend(p)
    BY <1>4 DEF TrySend, workers, Mutex, StopProgress, Counted, WorkersStayOn
  <1>5. CASE Unlock(p)
    BY <1>5 DEF Unlock, workers, Mutex, StopProgress, Counted, WorkersStayOn
  <1> QED BY <1>1, <1>2, <1>3, <1>4, <1>5 DEF Enqueue

LEMMA WorkerControl ==
  ASSUME Control, NEW w \in Workers, Worker(w)
  PROVE  Mutex' /\ StopProgress' /\ Counted'
  <1> USE DEF Control, TypeOK, WorkerStates, queue, callers, Mutex,
              StopProgress, Counted, WorkersStayOn
  <1>1. CASE Receive(w)
    BY <1>1 DEF Receive
  <1>2. CASE RangeEnds(w)
    BY <1>2 DEF RangeEnds, Exit
  <1>3. CASE Discard(w)
    BY <1>3 DEF Discard, Exit
  <1>4. CASE Begin(w)
    BY <1>4 DEF Begin
  <1>5. CASE ProcessJob(w)
    BY <1>5 DEF ProcessJob
  <1> QED BY <1>1, <1>2, <1>3, <1>4, <1>5 DEF Worker

LEMMA MainControl ==
  ASSUME Control, Start \/ CancelRoot \/ StopLock \/ Stop
  PROVE  Mutex' /\ StopProgress' /\ Counted'
  <1> USE ThreadsAssumption
      DEF Control, TypeOK, WorkerStates, MainStates, CallStates, queue,
          callers, workers, Mutex, StopProgress, Counted, WorkersStayOn
  <1>1. CASE Start
    BY <1>1 DEF Start, StartWorker, StartReturns
  <1>2. CASE CancelRoot
    BY <1>2 DEF CancelRoot
  <1>3. CASE StopLock
    BY <1>3 DEF StopLock
  <1>4. CASE StopMark
    BY <1>4 DEF StopMark
  <1>5. CASE StopCancel
    BY <1>5 DEF StopCancel
  <1>6. CASE StopClose
    BY <1>6 DEF StopClose
  <1>7. CASE StopUnlock
    BY <1>7 DEF StopUnlock
  <1>8. CASE StopWait
    BY <1>8 DEF StopWait
  <1> QED BY <1>1, <1>2, <1>3, <1>4, <1>5, <1>6, <1>7, <1>8 DEF Stop

\* Who has the mutex, how far Stop has come and what the WaitGroup counts agree at
\* every moment (queue.go:55-143).
THEOREM ControlHolds == Spec => []Control
  <1>1. ASSUME Control, [Next]_vars
        PROVE  Control'
    <2>1. TypeOK' /\ Holding'
      BY <1>1, NextTypes DEF Control
    <2>2. Mutex' /\ StopProgress' /\ Counted'
      <3>1. CASE UNCHANGED vars
        BY <1>1, <3>1 DEF vars, Control, Mutex, StopProgress, Counted,
                          WorkersStayOn
      <3> QED BY <1>1, <3>1, EnqueueControl, WorkerControl, MainControl
              DEF Next
    <2> QED BY <2>1, <2>2 DEF Control
  <1> QED BY InitControl, <1>1, PTL DEF Spec

\* Enqueue never sends on the closed channel, however calls of it interleave
\* with Stop (queue.go:57-65, 98-106).
THEOREM SendsAreSafe == Spec => []NoSendOnClosed
  <1>1. Control => NoSendOnClosed
    BY DEF Control, StopProgress, NoSendOnClosed
  <1> QED BY <1>1, ControlHolds, PTL

\* No refused, failed or discarded job costs the pool a worker before the
\* context is done (queue.go:131-140).
THEOREM PoolStaysOn == Spec => []WorkersStayOn
  <1>1. Control => WorkersStayOn
    BY DEF Control, Counted
  <1> QED BY <1>1, ControlHolds, PTL

\* Stop returns only after the last worker has left its loop (queue.go:107).
THEOREM StopWaits == Spec => []StopWaitsForWorkers
  <1>1. Control => StopWaitsForWorkers
    BY DEF Control, TypeOK, WorkerStates, Counted, StopWaitsForWorkers
  <1> QED BY <1>1, ControlHolds, PTL

\* Nobody waits for a goroutine that cannot go on: Enqueue and Stop do not wait
\* for each other in a circle, nor Stop for a worker that nothing wakes.
THEOREM NoWaitInVain == Spec => []NobodyWaitsInVain
  <1>1. Control => NobodyWaitsInVain
    <2> SUFFICES ASSUME Control PROVE NobodyWaitsInVain
      OBVIOUS
    <2>1. ASSUME mu # Nobody
          PROVE  \/ mu = Main /\ main \in {"mark", "cancel", "close", "unlock"}
                 \/ mu \in Producers /\ call[mu] \in {"check", "send", "unlock"}
      BY <2>1 DEF Control, TypeOK, Mutex
    <2>2. ASSUME main = "wait", NEW w \in waiting
          PROVE  \/ pc[w] \in {"select", "process"}
                 \/ pc[w] = "receive" /\ (buffer # <<>> \/ closed)
      BY <2>2 DEF Control, TypeOK, WorkerStates, Counted, StopProgress
    <2> QED BY <2>1, <2>2 DEF NobodyWaitsInVain
  <1> QED BY <1>1, ControlHolds, PTL

-----------------------------------------------------------------------------
(* Where each job is.                                                      *)

\* A job in the program's hands has the fate its place implies, and only one
\* producer submits it.
FateFits ==
    /\ \A p \in Producers : call[p] \in {"lock", "check", "send"} =>
           fate[arg[p]] = "new"
    /\ \A p, q \in Producers : arg[p] = arg[q] /\ arg[p] # Nobody => p = q
    /\ \A i \in 1..Len(buffer) : fate[buffer[i]] = "accepted"
    /\ \A w \in Workers : hand[w] # Nobody => fate[hand[w]] = "accepted"

\* No job is in two places.
Once ==
    /\ \A i, k \in 1..Len(buffer) : buffer[i] = buffer[k] => i = k
    /\ \A v, w \in Workers : hand[v] = hand[w] /\ hand[v] # Nobody => v = w
    /\ \A i \in 1..Len(buffer) : \A w \in Workers : buffer[i] # hand[w]

\* An accepted job is in one.
Found ==
    \A j \in Jobs : fate[j] = "accepted" =>
        \/ \E i \in 1..Len(buffer) : buffer[i] = j
        \/ \E w \in Workers : hand[w] = j

Placed == FateFits /\ Once /\ Found

LEMMA Appended ==
  ASSUME buffer \in Seq(Jobs), NEW j \in Jobs, buffer' = Append(buffer, j)
  PROVE  /\ Len(buffer) \in Nat /\ Len(buffer') = Len(buffer) + 1
         /\ \A i \in 1..Len(buffer) : buffer'[i] = buffer[i]
         /\ buffer'[Len(buffer) + 1] = j
  OBVIOUS

LEMMA Received ==
  ASSUME buffer \in Seq(Jobs), buffer # <<>>, buffer' = Tail(buffer)
  PROVE  /\ Len(buffer) \in Nat \ {0} /\ Len(buffer') = Len(buffer) - 1
         /\ \A i \in 1..Len(buffer') : buffer'[i] = buffer[i + 1]
         /\ Head(buffer) = buffer[1] /\ buffer[1] \in Jobs
  OBVIOUS

LEMMA SendPlaced ==
  ASSUME Control, Placed, NEW p \in Producers, TrySend(p)
  PROVE  Placed'
  <1> DEFINE j == arg[p]
  <1>1. /\ j \in Jobs /\ j # Nobody /\ fate[j] = "new"
        /\ \A i \in 1..Len(buffer) : buffer[i] \in Jobs /\ buffer[i] # j
        /\ \A w \in Workers : hand[w] # j
        /\ \A q \in Producers : q # p => arg[q] # j
        /\ buffer \in Seq(Jobs) /\ fate \in [Jobs -> Fates]
    BY ThreadsAssumption
    DEF TrySend, Control, TypeOK, Holding, Placed, FateFits
  <1>2. \A q \in Producers : call'[q] \in {"lock", "check", "send"} =>
            call'[q] = call[q] /\ q # p /\ arg[q] \in Jobs
    BY DEF TrySend, Control, TypeOK, Holding
  <1>3. UNCHANGED <<arg, hand>>
    BY DEF TrySend, workers
  <1>4. CASE ~Full /\ buffer' = Append(buffer, j)
                   /\ fate' = [fate EXCEPT ![j] = "accepted"]
    <2> HIDE DEF j
    <2>1. /\ Len(buffer) \in Nat /\ Len(buffer') = Len(buffer) + 1
          /\ \A i \in 1..Len(buffer) : buffer'[i] = buffer[i]
          /\ buffer'[Len(buffer) + 1] = j
      BY <1>1, <1>4, Appended
    <2>2. \A i \in 1..Len(buffer') :
              i \in 1..Len(buffer) \/ i = Len(buffer) + 1
      BY <2>1
    <2>3. /\ fate'[j] = "accepted"
          /\ \A k \in Jobs : k # j => fate'[k] = fate[k]
      BY <1>1, <1>4
    <2>4. FateFits'
      BY <1>1, <1>2, <1>3, <2>1, <2>2, <2>3, ThreadsAssumption
      DEF Control, TypeOK, Placed, FateFits
    <2>5. Once'
      BY <1>1, <1>3, <2>1, <2>2 DEF Placed, Once
    <2>6. Found'
      <3> SUFFICES ASSUME NEW k \in Jobs, fate'[k] = "accepted"
                   PROVE  \/ \E i \in 1..Len(buffer') : buffer'[i] = k
                          \/ \E w \in Workers : hand'[w] = k
        BY DEF Found
      <3>1. CASE k = j
        BY <3>1, <2>1
      <3>2. CASE k # j
        BY <3>2, <1>3, <2>1, <2>3 DEF Placed, Found
      <3> QED BY <3>1, <3>2
    <2> QED BY <2>4, <2>5, <2>6 DEF Placed
  <1>5. CASE Full /\ buffer' = buffer
                  /\ fate' = [fate EXCEPT ![j] = "refused"]
    <2> HIDE DEF j
    <2>1. \A k \in Jobs : k # j => fate'[k] = fate[k]
      BY <1>1, <1>5
    <2>2. FateFits'
      BY <1>1, <1>2, <1>3, <1>5, <2>1, ThreadsAssumption
      DEF Control, TypeOK, Placed, FateFits
    <2>3. Once' /\ Found'
      BY <1>1, <1>3, <1>5 DEF Placed, Once, Found
    <2> QED BY <2>2, <2>3 DEF Placed
  <1> QED BY <1>4, <1>5 DEF TrySend

LEMMA ReceivePlaced ==
  ASSUME Control, Placed, NEW w \in Workers, Receive(w)
  PROVE  Placed'
  <1> DEFINE j == Head(buffer)
  <1>1. /\ Len(buffer) \in Nat \ {0} /\ Len(buffer') = Len(buffer) - 1
        /\ \A i \in 1..Len(buffer') : buffer'[i] = buffer[i + 1]
        /\ j = buffer[1] /\ j \in Jobs /\ j # Nobody
    BY Received, ThreadsAssumption DEF Receive, Control, TypeOK
  <1>2. /\ hand'[w] = j /\ hand[w] = Nobody
        /\ \A v \in Workers : v # w => hand'[v] = hand[v]
    BY DEF Receive, Control, TypeOK, Holding
  <1>3. UNCHANGED <<fate, call, arg>>
    BY DEF Receive, callers
  <1> HIDE DEF j
  <1>4. /\ \A i \in 1..Len(buffer') : i + 1 \in 1..Len(buffer) /\ i + 1 # 1
        /\ 1 \in 1..Len(buffer)
    BY <1>1
  <1>5. \A i \in 1..Len(buffer') : buffer'[i] # j
    BY <1>1, <1>4 DEF Placed, Once
  <1>6. FateFits'
    BY <1>1, <1>2, <1>3, <1>4 DEF Placed, FateFits
  <1>7. Once'
    <2>1. \A i, k \in 1..Len(buffer') : buffer'[i] = buffer'[k] => i = k
      <3> SUFFICES ASSUME NEW i \in 1..Len(buffer'), NEW k \in 1..Len(buffer'),
                          buffer'[i] = buffer'[k]
                   PROVE  i = k
        OBVIOUS
      <3>1. i + 1 = k + 1
        BY <1>1, <1>4 DEF Placed, Once
      <3> QED BY <3>1, <1>1
    <2>2. \A v, u \in Workers : hand'[v] = hand'[u] /\ hand'[v] # Nobody => v = u
      BY <1>1, <1>2, <1>4 DEF Placed, Once
    <2>3. \A i \in 1..Len(buffer') : \A v \in Workers : buffer'[i] # hand'[v]
      BY <1>1, <1>2, <1>4, <1>5 DEF Placed, Once
    <2> QED BY <2>1, <2>2, <2>3 DEF Once
  <1>8. Found'
    <2> SUFFICES ASSUME NEW k \in Jobs, fate[k] = "accepted"
                 PROVE  \/ \E i \in 1..Len(buffer') : buffer'[i] = k
                        \/ \E v \in Workers : hand'[v] = k
      BY <1>3 DEF Found
    <2>1. CASE \E v \in Workers : hand[v] = k
      BY <2>1, <1>2, ThreadsAssumption
    <2>2. ASSUME NEW i \in 1..Len(buffer), buffer[i] = k
          PROVE  \/ i = 1 /\ hand'[w] = k
                 \/ i - 1 \in 1..Len(buffer') /\ buffer'[i - 1] = k
      BY <2>2, <1>1, <1>2
    <2> QED BY <2>1, <2>2 DEF Placed, Found
  <1> QED BY <1>6, <1>7, <1>8 DEF Placed

\* A worker is done with its job, one way or the other.
LEMMA PutDownPlaced ==
  ASSUME Control, Placed, NEW w \in Workers, hand[w] # Nobody,
         NEW end \in {"completed", "failed", "dropped"},
         fate' = [fate EXCEPT ![hand[w]] = end],
         hand' = [hand EXCEPT ![w] = Nobody],
         UNCHANGED <<buffer, call, arg>>
  PROVE  Placed'
  <1> DEFINE j == hand[w]
  <1>1. /\ j \in Jobs /\ fate[j] = "accepted"
        /\ \A i \in 1..Len(buffer) : buffer[i] \in Jobs /\ buffer[i] # j
        /\ \A v \in Workers : v # w =>
               /\ hand[v] # j /\ hand'[v] = hand[v]
               /\ hand[v] \in Jobs \cup {Nobody}
        /\ hand'[w] = Nobody
    BY DEF Control, TypeOK, Placed, FateFits, Once
  <1>2. /\ fate'[j] = end
        /\ \A k \in Jobs : k # j => fate'[k] = fate[k]
    BY <1>1 DEF Control, TypeOK
  <1> HIDE DEF j
  <1>3. \A p \in Producers : call[p] \in {"lock", "check", "send"} =>
            arg[p] \in Jobs /\ arg[p] # j
    BY <1>1 DEF Control, TypeOK, Holding, Placed, FateFits
  <1>4. FateFits'
    BY <1>1, <1>2, <1>3 DEF Placed, FateFits
  <1>5. Once'
    BY <1>1, ThreadsAssumption DEF Placed, Once
  <1>6. Found'
    BY <1>1, <1>2 DEF Placed, Found, j
  <1> QED BY <1>4, <1>5, <1>6 DEF Placed

LEMMA CallPlaced ==
  ASSUME Control, Placed, NEW p \in Producers,
         Enqueue(p) \/ \E j \in Jobs : Call(p, j)
  PROVE  Placed'
  <1> USE ThreadsAssumption
      DEF Control, TypeOK, Holding, CallStates, queue, workers, callers,
          Placed, FateFits, Once, Found
  <1>1. ASSUME NEW j \in Jobs, Call(p, j)
        PROVE  Placed'
    BY <1>1 DEF Call
  <1>2. CASE Lock(p)
    BY <1>2 DEF Lock
  <1>3. CASE CheckStopped(p)
    BY <1>3 DEF CheckStopped
  <1>4. CASE TrySend(p)
    BY <1>4, SendPlaced DEF Control
  <1>5. CASE Unlock(p)
    BY <1>5 DEF Unlock
  <1> QED BY <1>1, <1>2, <1>3, <1>4, <1>5 DEF Enqueue

LEMMA WorkerPlaced ==
  ASSUME Control, Placed, NEW w \in Workers, Worker(w)
  PROVE  Placed'
  <1>1. CASE Receive(w)
    BY <1>1, ReceivePlaced
  <1>2. CASE RangeEnds(w)
    BY <1>2 DEF RangeEnds, Exit, callers, Placed, FateFits, Once, Found
  <1>3. CASE Discard(w)
    BY <1>3, PutDownPlaced DEF Discard, Exit, callers, Control, Holding
  <1>4. CASE Begin(w)
    BY <1>4 DEF Begin, queue, callers, Placed, FateFits, Once, Found
  <1>5. CASE ProcessJob(w)
    BY <1>5, PutDownPlaced DEF ProcessJob, queue, callers, Control, Holding
  <1> QED BY <1>1, <1>2, <1>3, <1>4, <1>5 DEF Worker

LEMMA MainPlaced ==
  ASSUME Placed, Start \/ CancelRoot \/ StopLock \/ Stop
  PROVE  Placed'
  BY DEF Placed, FateFits, Once, Found, queue, workers, callers, Start,
         StartWorker, StartReturns, CancelRoot, StopLock, Stop, StopMark,
         StopCancel, StopClose, StopUnlock, StopWait

LEMMA InitPlaced == Init => Placed
  BY DEF Init, Placed, FateFits, Once, Found

\* Where a job is and what has become of it agree at every moment (queue.go:55-182).
THEOREM PlacedHolds == Spec => []Placed
  <1>1. ASSUME Control, Placed, [Next]_vars
        PROVE  Placed'
    <2>1. CASE UNCHANGED vars
      BY <1>1, <2>1 DEF vars, Placed, FateFits, Once, Found
    <2> QED BY <1>1, <2>1, CallPlaced, WorkerPlaced, MainPlaced DEF Next
  <1> QED BY InitPlaced, <1>1, ControlHolds, PTL DEF Spec

LEMMA OneOrNone ==
  ASSUME NEW S, \A x, y \in S : x = y
  PROVE  Cardinality(S) = IF S = {} THEN 0 ELSE 1
  <1>1. CASE S = {}
    BY <1>1, FS_EmptySet
  <1>2. ASSUME NEW x \in S
        PROVE  Cardinality(S) = 1
    <2>1. S = {x}
      BY <1>2
    <2> QED BY <2>1, FS_Singleton
  <1> QED BY <1>1, <1>2

\* An accepted job is in the buffer or in one worker's hand, and in one place
\* only, until it is processed or dropped; a job of any other fate is in none
\* (queue.go:64-75, 131-140).
THEOREM JobsAreConserved == Spec => []JobsConserved
  <1>1. ASSUME Control, Placed
        PROVE  JobsConserved
    <2> SUFFICES ASSUME NEW j \in Jobs
                 PROVE  Places(j) = IF fate[j] = "accepted" THEN 1 ELSE 0
      BY DEF JobsConserved
    <2> DEFINE B == {i \in DOMAIN buffer : buffer[i] = j}
               H == {w \in Workers : hand[w] = j}
    <2>1. DOMAIN buffer = 1..Len(buffer) /\ j # Nobody
      BY <1>1, ThreadsAssumption DEF Control, TypeOK
    <2>2. Cardinality(B) = IF B = {} THEN 0 ELSE 1
      <3>1. \A x, y \in B : x = y
        BY <1>1, <2>1 DEF Placed, Once
      <3> QED BY <3>1, OneOrNone
    <2>3. Cardinality(H) = IF H = {} THEN 0 ELSE 1
      <3>1. \A x, y \in H : x = y
        BY <1>1, <2>1 DEF Placed, Once
      <3> QED BY <3>1, OneOrNone
    <2>4. B = {} \/ H = {}
      BY <1>1, <2>1 DEF Placed, Once
    <2>5. fate[j] = "accepted" <=> B # {} \/ H # {}
      BY <1>1, <2>1 DEF Placed, FateFits, Found
    <2>6. Places(j) = Cardinality(B) + Cardinality(H)
      BY DEF Places
    <2> QED BY <2>2, <2>3, <2>4, <2>5, <2>6
  <1> QED BY <1>1, ControlHolds, PlacedHolds, PTL

-----------------------------------------------------------------------------
(* The queue implements JobLedger.                                         *)

LEMMA InitLedger == Init => Ledger!Init
  BY DEF Init, Ledger!Init

LEMMA EnqueueLedger ==
  ASSUME Control, Placed, NEW p \in Producers,
         Enqueue(p) \/ \E j \in Jobs : Call(p, j)
  PROVE  [Ledger!Next]_Ledger!vars
  <1> USE DEF Ledger!vars, Ledger!Next
  <1> DEFINE j == arg[p]
  <1>1. CASE CheckStopped(p)
    <2>1. CASE stopped
      <3>1. j \in Jobs /\ fate[j] = "new"
        BY <1>1 DEF Control, TypeOK, Holding, Placed, FateFits, CheckStopped
      <3>2. Ledger!Refuse(j)
        BY <1>1, <2>1, <3>1
        DEF CheckStopped, queue, Ledger!Refuse, Ledger!Enter
      <3> QED BY <3>1, <3>2
    <2>2. CASE ~stopped
      BY <1>1, <2>2 DEF CheckStopped, queue
    <2> QED BY <2>1, <2>2
  <1>2. CASE TrySend(p)
    <2>1. j \in Jobs /\ fate[j] = "new" /\ ~stopped
      BY <1>2 DEF Control, TypeOK, Holding, StopProgress, Placed, FateFits,
                  TrySend
    <2>2. Ledger!Accept(j) \/ Ledger!Refuse(j)
      BY <1>2, <2>1
      DEF TrySend, Ledger!Accept, Ledger!Refuse, Ledger!Enter
    <2> QED BY <2>1, <2>2
  <1>3. CASE Lock(p) \/ Unlock(p) \/ \E k \in Jobs : Call(p, k)
    BY <1>3 DEF Lock, Unlock, Call, queue
  <1> QED BY <1>1, <1>2, <1>3 DEF Enqueue

LEMMA WorkerLedger ==
  ASSUME Control, Placed, NEW w \in Workers, Worker(w)
  PROVE  [Ledger!Next]_Ledger!vars
  <1> USE DEF Ledger!vars, Ledger!Next
  <1> DEFINE j == hand[w]
  <1>1. pc[w] \in {"select", "process"} =>
            j \in Jobs /\ fate[j] = "accepted" /\ main # "returned"
    BY DEF Control, TypeOK, Holding, Counted, Placed, FateFits
  <1>2. CASE Discard(w)
    <2>1. Ledger!Drop(j)
      BY <1>1, <1>2 DEF Discard, Ledger!Drop, Ledger!Enter
    <2> QED BY <1>1, <1>2, <2>1 DEF Discard
  <1>3. CASE ProcessJob(w)
    <2>1. Ledger!Process(j)
      BY <1>1, <1>3 DEF ProcessJob, queue, Ledger!Process, Ledger!Enter
    <2> QED BY <1>1, <1>3, <2>1 DEF ProcessJob
  <1>4. CASE Receive(w) \/ RangeEnds(w) \/ Begin(w)
    BY <1>4 DEF Receive, RangeEnds, Begin, queue
  <1> QED BY <1>2, <1>3, <1>4 DEF Worker

LEMMA MainLedger ==
  ASSUME Control, Start \/ CancelRoot \/ StopLock \/ Stop
  PROVE  [Ledger!Next]_Ledger!vars
  <1> USE DEF Ledger!vars, Ledger!Next, queue
  <1>1. CASE CancelRoot \/ StopCancel
    BY <1>1 DEF Control, TypeOK, CancelRoot, StopCancel, Ledger!Close
  <1>2. CASE StopMark
    BY <1>2 DEF Control, TypeOK, StopProgress, StopMark, Ledger!Shut
  <1>3. CASE StopWait
    BY <1>3 DEF Control, StopProgress, StopWait, Ledger!Finish
  <1>4. CASE Start \/ StopLock \/ StopClose \/ StopUnlock
    BY <1>4 DEF Start, StartWorker, StartReturns, StopLock, StopClose,
                StopUnlock
  <1> QED BY <1>1, <1>2, <1>3, <1>4 DEF Stop

\* Seen from outside the queue is the ledger: a job is accepted or refused
\* once, processed or dropped once, dropped only in a shutdown, and nothing is
\* accepted once Stop has taken the mutex (queue.go:55-143).
THEOREM ImplementsLedger == Spec => Ledger!Spec
  <1>1. ASSUME Control, Placed, [Next]_vars
        PROVE  [Ledger!Next]_Ledger!vars
    <2>1. CASE UNCHANGED vars
      BY <2>1 DEF vars, Ledger!vars
    <2> QED BY <1>1, <2>1, EnqueueLedger, WorkerLedger, MainLedger DEF Next
  <1> QED BY InitLedger, <1>1, ControlHolds, PlacedHolds, PTL
          DEF Spec, Ledger!Spec

-----------------------------------------------------------------------------
(* The queue implements FifoQueue.                                         *)

Staff == {w \in Workers : pc[w] # "exited"}

LEMMA InitFifo == Init => Fifo!Init
  BY DEF Init, Fifo!Init

LEMMA EnqueueFifo ==
  ASSUME Control, NEW p \in Producers,
         Enqueue(p) \/ \E j \in Jobs : Call(p, j)
  PROVE  [Fifo!Next]_Fifo!vars
  <1> USE DEF Fifo!vars, Fifo!Next
  <1>1. CASE TrySend(p) /\ ~Full
    <2>1. arg[p] \in Jobs /\ ~stopped /\ Len(buffer) < Capacity
      BY <1>1, CapacityAssumption
      DEF Control, TypeOK, Holding, StopProgress, TrySend, Full
    <2>2. Fifo!Enter(arg[p])
      BY <1>1, <2>1 DEF TrySend, workers, Fifo!Enter
    <2> QED BY <2>1, <2>2
  <1>2. CASE TrySend(p) /\ Full
    BY <1>2 DEF TrySend, workers
  <1>3. CASE Lock(p) \/ CheckStopped(p) \/ Unlock(p) \/ \E k \in Jobs : Call(p, k)
    BY <1>3 DEF Lock, CheckStopped, Unlock, Call, queue, workers
  <1> QED BY <1>1, <1>2, <1>3 DEF Enqueue

\* A worker leaves empty-handed only when the closed channel is empty: the flag
\* was set before the channel was closed.
LEMMA WorkerFifo ==
  ASSUME Control, NEW w \in Workers, Worker(w)
  PROVE  [Fifo!Next]_Fifo!vars
  <1> USE DEF Fifo!vars, Fifo!Next
  <1>1. /\ pc[w] # "exited" <=> w \in Staff
        /\ Exit(w) => Staff' = Staff \ {w}
        /\ pc'[w] # "exited" /\ pc[w] # "exited"
             /\ (\A v \in Workers : v # w => pc'[v] = pc[v]) => Staff' = Staff
    BY DEF Control, TypeOK, Exit, Staff
  <1>2. pc[w] \in {"select", "process"} <=> hand[w] # Nobody
    BY DEF Control, Holding
  <1>3. pc \in [Workers -> WorkerStates]
    BY DEF Control, TypeOK
  <1>4. CASE Receive(w)
    <2>1. Staff' = Staff /\ w \in Staff
      BY <1>1, <1>3, <1>4 DEF Receive
    <2>2. Fifo!Take(w)
      BY <1>2, <1>4, <2>1 DEF Receive, Fifo!Take, Staff
    <2> QED BY <2>2
  <1>5. CASE RangeEnds(w)
    <2>1. Staff' = Staff \ {w} /\ w \in Staff /\ stopped
      BY <1>1, <1>5 DEF RangeEnds, Control, StopProgress
    <2>2. Fifo!Leave(w)
      BY <1>2, <1>5, <2>1 DEF RangeEnds, Fifo!Leave, Staff
    <2> QED BY <2>2
  <1>6. CASE Discard(w)
    <2>1. Staff' = Staff \ {w} /\ w \in Staff
      BY <1>1, <1>6 DEF Discard
    <2>2. Fifo!Leave(w)
      BY <1>2, <1>6, <2>1 DEF Discard, Fifo!Leave, Staff
    <2> QED BY <2>2
  <1>7. CASE Begin(w)
    <2>1. Staff' = Staff
      BY <1>1, <1>3, <1>7 DEF Begin
    <2> QED BY <1>7, <2>1 DEF Begin, queue, Staff
  <1>8. CASE ProcessJob(w)
    <2>1. Staff' = Staff
      BY <1>1, <1>3, <1>8 DEF ProcessJob
    <2>2. Fifo!Finish(w)
      BY <1>2, <1>8, <2>1 DEF ProcessJob, queue, Fifo!Finish, Staff
    <2> QED BY <2>2
  <1> QED BY <1>4, <1>5, <1>6, <1>7, <1>8 DEF Worker

LEMMA MainFifo ==
  ASSUME Control, Start \/ CancelRoot \/ StopLock \/ Stop
  PROVE  [Fifo!Next]_Fifo!vars
  <1> USE DEF Fifo!vars, Fifo!Next, queue, workers
  <1>1. CASE CancelRoot \/ StopCancel
    BY <1>1 DEF CancelRoot, StopCancel, Fifo!Cancel
  <1>2. CASE StopMark
    BY <1>2 DEF StopMark, Fifo!Shut
  <1>3. ASSUME NEW w \in Workers, StartWorker(w)
        PROVE  UNCHANGED Fifo!vars
    <2>1. Staff' = Staff
      BY <1>3 DEF StartWorker, Control, TypeOK, Staff
    <2> QED BY <1>3, <2>1 DEF StartWorker, Staff
  <1>4. CASE StartReturns \/ StopLock \/ StopClose \/ StopUnlock \/ StopWait
    BY <1>4 DEF StartReturns, StopLock, StopClose, StopUnlock, StopWait
  <1> QED BY <1>1, <1>2, <1>3, <1>4 DEF Start, Stop

\* Enqueue, Receive and the steps of Stop are atomic to each other, jobs leave
\* the channel oldest first, none enters once Stop has set its flag, and a worker
\* that leaves drops at most the job it has (queue.go:57-75, 98-107, 131-140).
THEOREM ImplementsFifo == Spec => FifoSpec
  <1>1. ASSUME Control, [Next]_vars
        PROVE  [Fifo!Next]_Fifo!vars
    <2>1. CASE UNCHANGED vars
      BY <2>1 DEF vars, Fifo!vars
    <2> QED BY <1>1, <2>1, EnqueueFifo, WorkerFifo, MainFifo DEF Next
  <1> QED BY InitFifo, <1>1, ControlHolds, PTL DEF Spec, FifoSpec, Fifo!Spec
=============================================================================
