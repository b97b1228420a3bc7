-------------------------- MODULE RateLimitProofs --------------------------
(***************************************************************************)
(* Proofs about RateLimit, for any number of callers, any budget, window   *)
(* and threshold, any values of Retry-After and any skew of the clocks.    *)
(***************************************************************************)
EXTENDS RateLimit, TLAPS

Skew == NonNeg(Ahead)

-----------------------------------------------------------------------------
(* The inductive invariant.                                                *)

\* How often a request has been sent follows from where its caller is, and
\* until the answer is there GitHub has not carried it out.
Position ==
    \A c \in Callers :
        /\ pc[c] \in {"outside", "throttle"} => tries[c] = 0
        /\ pc[c] = "send" => tries[c] \in {0, 1}
        /\ pc[c] = "backoff" => tries[c] = 1
        /\ pc[c] # "answered" => ~carried[c]
        /\ pc[c] = "answered" /\ carried[c] => ~answer[c].forbidden

\* A record that holds GitHub's latest answer shows its budget.
RecordExact ==
    recorded => /\ limit = Limit /\ remaining = left
                /\ windowLeft <= resetIn + Skew

\* So does that answer on its way.
AnswerExact(c) ==
    pc[c] = "answered" /\ latest = c =>
        /\ answer[c].headers =>
               /\ answer[c].remaining = left
               /\ windowLeft <= answer[c].resetIn + Skew
        /\ answer[c].retryAfter > 0 => left > 0

\* A caller that acts on it does not wake before the window is over, unless
\* there is budget left.
SleepsEnough(c) ==
    pc[c] \in {"throttle", "backoff"} /\ informed[c] =>
        left > 0 \/ windowLeft <= timer[c] + Skew

\* A caller sleeps for what it owes.
SleepsOff(c) ==
    /\ pc[c] = "answered" /\ Limited(answer[c]) =>
           owed[c] <= RetryDelay(answer[c]) + Skew
    /\ pc[c] = "backoff" => owed[c] <= timer[c] + Skew

IInv ==
    /\ TypeOK /\ Position /\ RecordExact
    /\ \A c \in Callers : AnswerExact(c) /\ SleepsEnough(c) /\ SleepsOff(c)
    /\ RefusedOnlyWhenOvertaken /\ HonoursRefusal

-----------------------------------------------------------------------------
(* Arithmetic.                                                             *)

LEMMA SkewNat == Skew \in Nat /\ Ahead <= Skew
  BY BudgetAssumption DEF Skew, NonNeg

LEMMA DownNat ==
  \A n \in Nat : Down(n) \in Nat /\ Down(n) <= n /\ n <= Down(n) + 1
  BY DEF Down

\* Counting both sides down keeps them in order.
LEMMA DownKeepsOrder ==
  \A m, n, k \in Nat : m <= n + k => Down(m) <= Down(n) + k
  BY DEF Down

LEMMA DownKeepsBound ==
  \A o, m, n, k \in Nat :
      m <= n + 1 /\ n > 0 /\ o <= m + k => Down(o) <= n + k
  BY DEF Down

LEMMA DelayNat == TypeOK => Delay \in Nat
  <1> SUFFICES ASSUME TypeOK PROVE Delay \in Nat
    OBVIOUS
  <1>1. resetIn \in Nat /\ remaining \in Nat
    BY BudgetAssumption DEF TypeOK
  <1>2. CASE remaining = 0
    BY <1>1, <1>2 DEF Delay
  <1>3. CASE remaining # 0
    <2>1. resetIn + remaining - 1 \in Nat /\ remaining \in Nat \ {0}
      BY <1>1, <1>3
    <2>2. \A m \in Nat, n \in Nat \ {0} : m \div n \in Nat
      OBVIOUS
    <2> QED BY <1>3, <2>1, <2>2 DEF Delay
  <1> QED BY <1>2, <1>3

LEMMA RetryDelayNat ==
  ASSUME NEW a \in Answers
  PROVE  RetryDelay(a) \in Nat \ {0}
  <1>1. a.retryAfter \in {0} \cup RetryAfters /\ a.resetIn \in Nat
    BY DEF Answers
  <1>2. \A s \in {0} \cup RetryAfters : s \in Nat
    BY BudgetAssumption
  <1>3. a.retryAfter \in Nat
    BY <1>1, <1>2
  <1> QED BY <1>1, <1>3 DEF RetryDelay

\* A second takes a second off the delay at most.
LEMMA RetryDelayStep ==
  ASSUME NEW a \in Answers, NEW b \in Answers, b.headers = a.headers,
         b.retryAfter = a.retryAfter, b.resetIn = Down(a.resetIn)
  PROVE  RetryDelay(a) <= RetryDelay(b) + 1 /\ RetryDelay(b) > 0
  <1>1. a.resetIn \in Nat /\ a.headers \in BOOLEAN
    BY DEF Answers
  <1>2. \A s \in {0} \cup RetryAfters : s \in Nat
    BY BudgetAssumption
  <1>3. a.retryAfter \in Nat
    BY <1>2 DEF Answers
  <1> QED BY <1>1, <1>3 DEF RetryDelay, Down

LEMMA ResponseType ==
  ASSUME NEW f \in BOOLEAN, NEW h \in BOOLEAN, NEW r \in 0..Limit,
         NEW s \in {0} \cup RetryAfters, Until \in Nat
  PROVE  /\ Response(f, h, r, s) \in Answers
         /\ Response(f, h, r, s).forbidden = f
         /\ Response(f, h, r, s).headers = h
         /\ Response(f, h, r, s).retryAfter = s
         /\ h => /\ Response(f, h, r, s).remaining = r
                 /\ Response(f, h, r, s).resetIn = NonNeg(Until - Ahead)
  <1> DEFINE m == IF h THEN r ELSE 0
             t == IF h THEN NonNeg(Until - Ahead) ELSE 0
  <1>1. m \in 0..Limit /\ t \in Nat
    BY BudgetAssumption DEF NonNeg
  <1>2. Response(f, h, r, s) =
          [forbidden |-> f, headers |-> h, remaining |-> m, resetIn |-> t,
           retryAfter |-> s]
    BY DEF Response
  <1>3. h => m = r /\ t = NonNeg(Until - Ahead)
    OBVIOUS
  <1> HIDE DEF m, t
  <1> QED BY <1>1, <1>2, <1>3 DEF Answers

-----------------------------------------------------------------------------
(* The steps of GitHub.                                                    *)

LEMMA BudgetType ==
  TypeOK => Budget \in 0..Limit /\ Until \in 1..Window
  BY BudgetAssumption DEF TypeOK, Budget, Until

\* Whatever the response, as long as what GitHub imposes is what it says.
LEMMA ServeKeeps ==
  ASSUME IInv, NEW c \in Callers, pc[c] = "send",
         NEW a \in Answers, NEW r \in 0..Limit, NEW w \in Nat,
         Serve(c, a, r, w),
         a.headers => a.remaining = r /\ a.resetIn = NonNeg(Until - Ahead),
         a.retryAfter > 0 => r > 0,
         Limited(a) => w <= RetryDelay(a) + Skew
  PROVE  IInv'
  <1>1. TypeOK /\ Position
    BY DEF IInv
  <1>2. tries[c] \in {0, 1} /\ ~carried[c]
    BY <1>1 DEF Position
  <1>3. TypeOK'
    <2>1. answer' \in [Callers -> Answers]
      BY <1>1 DEF TypeOK, Serve
    <2>2. tries' \in [Callers -> 0..2]
      BY <1>1, <1>2 DEF TypeOK, Serve
    <2>3. pc' \in [Callers -> States]
      BY <1>1 DEF TypeOK, Serve, States
    <2>4. carried' \in [Callers -> BOOLEAN] /\ informed' \in [Callers -> BOOLEAN]
      BY <1>1 DEF TypeOK, Serve, Answers
    <2>5. owed' \in [Callers -> Nat]
      BY <1>1 DEF TypeOK, Serve
    <2>6. left' \in 0..Limit /\ windowLeft' \in 0..Window
      BY <1>1, BudgetType, BudgetAssumption DEF Serve
    <2> QED BY <1>1, <2>1, <2>2, <2>3, <2>4, <2>5, <2>6 DEF TypeOK, Serve
  <1>4. answer'[c] = a /\ pc'[c] = "answered" /\ owed'[c] = w
    BY <1>1 DEF TypeOK, Serve
  <1>5. \A d \in Callers \ {c} :
            /\ pc'[d] = pc[d] /\ answer'[d] = answer[d] /\ tries'[d] = tries[d]
            /\ carried'[d] = carried[d] /\ owed'[d] = owed[d] /\ timer'[d] = timer[d]
    BY <1>1 DEF TypeOK, Serve
  <1>6. Position'
    <2>1. carried'[c] => ~a.forbidden
      BY <1>1, <1>2 DEF TypeOK, Serve
    <2> QED BY <1>1, <1>4, <1>5, <2>1 DEF Position
  <1>7. RecordExact' /\ \A d \in Callers : ~informed'[d]
    BY DEF RecordExact, Serve
  <1>8. \A d \in Callers : AnswerExact(d)'
    <2>1. latest' = c /\ left' = r /\ windowLeft' = Until
      BY DEF Serve
    <2>2. Until <= NonNeg(Until - Ahead) + Skew
      BY <1>1, BudgetType, BudgetAssumption DEF NonNeg, Skew
    <2>3. AnswerExact(c)'
      BY <1>4, <2>1, <2>2 DEF AnswerExact
    <2> QED BY <2>1, <2>3 DEF AnswerExact
  <1>9. \A d \in Callers : SleepsEnough(d)'
    BY <1>7 DEF SleepsEnough
  <1>10. \A d \in Callers : SleepsOff(d)'
    <2>1. SleepsOff(c)'
      BY <1>4 DEF SleepsOff
    <2>2. ASSUME NEW d \in Callers \ {c} PROVE SleepsOff(d)'
      <3>1. SleepsOff(d)
        BY DEF IInv
      <3> QED BY <1>5, <3>1 DEF SleepsOff
    <2> QED BY <2>1, <2>2
  <1>11. RefusedOnlyWhenOvertaken'
    BY <1>7 DEF RefusedOnlyWhenOvertaken
  <1>12. HonoursRefusal'
    BY <1>4, <1>5 DEF IInv, HonoursRefusal
  <1> QED
    BY <1>3, <1>6, <1>7, <1>8, <1>9, <1>10, <1>11, <1>12 DEF IInv

LEMMA GrantKeeps ==
  ASSUME IInv, NEW c \in Callers, Grant(c) PROVE IInv'
  <1>1. TypeOK /\ pc[c] = "send" /\ Budget \in 1..Limit /\ Until \in 1..Window
    BY BudgetType, BudgetAssumption DEF Grant, IInv
  <1>2. PICK f, h \in BOOLEAN :
            Serve(c, Response(f, h, Budget - 1, 0), Budget - 1, 0)
    BY DEF Grant
  <1>3. Budget - 1 \in 0..Limit /\ 0 \in {0} \cup RetryAfters /\ Until \in Nat
    BY <1>1, BudgetAssumption
  <1> DEFINE a == Response(f, h, Budget - 1, 0)
  <1>4. /\ a \in Answers /\ a.retryAfter = 0 /\ a.headers = h
        /\ h => a.remaining = Budget - 1 /\ a.resetIn = NonNeg(Until - Ahead)
    BY <1>3, ResponseType
  <1>5. Serve(c, a, Budget - 1, 0)
    BY <1>2
  <1>6. 0 <= RetryDelay(a) + Skew
    BY <1>4, RetryDelayNat, SkewNat
  <1> HIDE DEF a
  <1> QED BY <1>1, <1>3, <1>4, <1>5, <1>6, ServeKeeps

LEMMA RefusePrimaryKeeps ==
  ASSUME IInv, NEW c \in Callers, RefusePrimary(c) PROVE IInv'
  <1>1. TypeOK /\ pc[c] = "send" /\ Until \in 1..Window
    BY BudgetType, BudgetAssumption DEF RefusePrimary, IInv
  <1>2. 0 \in 0..Limit /\ 0 \in {0} \cup RetryAfters /\ Until \in Nat
    BY <1>1, BudgetAssumption
  <1>0. PICK yes \in BOOLEAN : yes = TRUE
    OBVIOUS
  <1> DEFINE a == Response(yes, yes, 0, 0)
  <1>3. /\ a \in Answers /\ a.retryAfter = 0 /\ a.headers = yes
        /\ yes => a.remaining = 0 /\ a.resetIn = NonNeg(Until - Ahead)
    BY <1>2, ResponseType
  <1>4. Serve(c, a, 0, Until)
    BY <1>0 DEF RefusePrimary
  <1> HIDE DEF a
  <1>5. Until <= RetryDelay(a) + Skew
    BY <1>0, <1>1, <1>3, BudgetAssumption DEF RetryDelay, NonNeg, Skew
  <1> QED BY <1>1, <1>2, <1>3, <1>4, <1>5, ServeKeeps

LEMMA RefuseSecondaryKeeps ==
  ASSUME IInv, NEW c \in Callers, RefuseSecondary(c) PROVE IInv'
  <1>1. TypeOK /\ pc[c] = "send" /\ Budget \in 1..Limit /\ Until \in 1..Window
    BY BudgetType, BudgetAssumption DEF RefuseSecondary, IInv
  <1>2. PICK h \in BOOLEAN, s \in RetryAfters :
            Serve(c, Response(TRUE, h, Budget, s), Budget, s)
    BY DEF RefuseSecondary
  <1>3. /\ Budget \in 0..Limit /\ s \in {0} \cup RetryAfters
        /\ s \in Nat \ {0} /\ Until \in Nat
    BY <1>1, BudgetAssumption
  <1>0. PICK yes \in BOOLEAN : yes = TRUE
    OBVIOUS
  <1> DEFINE a == Response(yes, h, Budget, s)
  <1>4. /\ a \in Answers /\ a.retryAfter = s /\ a.headers = h
        /\ h => a.remaining = Budget /\ a.resetIn = NonNeg(Until - Ahead)
    BY <1>3, ResponseType
  <1>5. Serve(c, a, Budget, s)
    BY <1>0, <1>2
  <1> HIDE DEF a
  <1>6. s <= RetryDelay(a) + Skew
    BY <1>3, <1>4, SkewNat DEF RetryDelay
  <1> QED BY <1>1, <1>3, <1>4, <1>5, <1>6, ServeKeeps

-----------------------------------------------------------------------------
(* The steps of a caller.                                                  *)

\* What the steps of c leave to prove about the other callers, for whom
\* nothing changes when GitHub's state stays the same.
Same(d) ==
    /\ pc'[d] = pc[d] /\ timer'[d] = timer[d] /\ answer'[d] = answer[d]
    /\ informed'[d] = informed[d] /\ owed'[d] = owed[d] /\ tries'[d] = tries[d]
    /\ carried'[d] = carried[d]

Good(c) ==
    /\ pc[c] \in {"outside", "throttle"} => tries[c] = 0
    /\ pc[c] = "send" => tries[c] \in {0, 1}
    /\ pc[c] = "backoff" => tries[c] = 1
    /\ pc[c] # "answered" => ~carried[c]
    /\ pc[c] = "answered" /\ carried[c] => ~answer[c].forbidden
    /\ AnswerExact(c) /\ SleepsEnough(c) /\ SleepsOff(c)
    /\ pc[c] = "send" /\ informed[c] => left > 0 \/ windowLeft <= Skew
    /\ pc[c] = "send" /\ tries[c] > 0 => owed[c] <= Skew

LEMMA IInvSplit == IInv <=> TypeOK /\ RecordExact /\ \A c \in Callers : Good(c)
  BY DEF IInv, Good, Position, RefusedOnlyWhenOvertaken, HonoursRefusal, Skew

LEMMA CallerKeeps ==
  ASSUME IInv, NEW c \in Callers, UNCHANGED github,
         \A d \in Callers \ {c} : Same(d), TypeOK', RecordExact', Good(c)'
  PROVE  IInv'
  <1>1. ASSUME NEW d \in Callers \ {c} PROVE Good(d)'
    <2>1. Good(d)
      BY IInvSplit
    <2> QED
      BY <1>1, <2>1
      DEF Good, Same, AnswerExact, SleepsEnough, SleepsOff, github
  <1>2. \A d \in Callers : Good(d)'
    BY <1>1
  <1> QED
    BY <1>2
    DEF IInv, Good, Position, RefusedOnlyWhenOvertaken, HonoursRefusal, Skew

LEMMA WakeKeeps ==
  ASSUME IInv, NEW c \in Callers, Wake(c) PROVE IInv'
  <1>1. TypeOK /\ RecordExact /\ Good(c)
    BY IInvSplit
  <1>2. TypeOK'
    BY <1>1 DEF TypeOK, Wake, github, record, States
  <1>3. RecordExact'
    BY <1>1 DEF RecordExact, Wake, github, record
  <1>4. pc'[c] = "send" /\ \A d \in Callers \ {c} : Same(d)
    BY <1>1 DEF TypeOK, Wake, Same
  <1>5. windowLeft <= timer[c] + Skew => windowLeft <= Skew
    BY <1>1, SkewNat DEF TypeOK, Wake
  <1>6. owed[c] <= timer[c] + Skew => owed[c] <= Skew
    BY <1>1, SkewNat DEF TypeOK, Wake
  <1>7. Good(c)'
    BY <1>1, <1>4, <1>5, <1>6
    DEF Good, AnswerExact, SleepsEnough, SleepsOff, Wake, github, record
  <1> QED BY <1>2, <1>3, <1>4, <1>7, CallerKeeps DEF Wake

LEMMA EnterKeeps ==
  ASSUME IInv, NEW c \in Callers, Enter(c) PROVE IInv'
  <1>1. TypeOK /\ RecordExact /\ Good(c)
    BY IInvSplit
  <1>2. TypeOK'
    <2>1. pc' \in [Callers -> States] /\ informed' \in [Callers -> BOOLEAN]
      BY <1>1 DEF TypeOK, Enter, States
    <2>2. timer' \in [Callers -> Nat]
      BY <1>1, DelayNat DEF TypeOK, Enter
    <2> QED BY <1>1, <2>1, <2>2 DEF TypeOK, Enter, github, record
  <1>3. RecordExact'
    BY <1>1 DEF RecordExact, Enter, github, record
  <1>4. \A d \in Callers \ {c} : Same(d)
    BY <1>1 DEF TypeOK, Enter, Same
  <1>5. /\ pc'[c] = IF Throttled THEN "throttle" ELSE "send"
        /\ timer'[c] = IF Throttled THEN Delay ELSE 0
        /\ informed'[c] = recorded
    BY <1>1 DEF TypeOK, Enter
  <1>6. /\ left \in Nat /\ windowLeft \in Nat /\ resetIn \in Nat
        /\ remaining \in Nat /\ Threshold \in Nat /\ Limit # 0
    BY <1>1, BudgetAssumption DEF TypeOK
  <1>7. recorded =>
          IF Throttled THEN left > 0 \/ windowLeft <= Delay + Skew
                       ELSE left > 0 \/ windowLeft <= Skew
    BY <1>1, <1>6, SkewNat DEF RecordExact, Throttled, Delay
  <1>8. Good(c)'
    BY <1>1, <1>5, <1>7
    DEF Good, AnswerExact, SleepsEnough, SleepsOff, Enter, github, record
  <1> QED BY <1>2, <1>3, <1>4, <1>8, CallerKeeps DEF Enter

LEMMA ReturnKeeps ==
  ASSUME IInv, NEW c \in Callers, Return(c), UNCHANGED github,
         limit' \in {0, Limit}, remaining' \in 0..Limit, resetIn' \in Nat,
         recorded' \in BOOLEAN, RecordExact'
  PROVE  IInv'
  <1>1. TypeOK /\ Good(c)
    BY IInvSplit
  <1>2. NoAnswer \in Answers
    BY BudgetAssumption DEF NoAnswer, Answers
  <1>3. TypeOK'
    <2>1. /\ pc' \in [Callers -> States] /\ tries' \in [Callers -> 0..2]
          /\ timer' \in [Callers -> Nat] /\ owed' \in [Callers -> Nat]
      BY <1>1 DEF TypeOK, Return, States
    <2>2. /\ answer' \in [Callers -> Answers]
          /\ informed' \in [Callers -> BOOLEAN]
          /\ carried' \in [Callers -> BOOLEAN]
      BY <1>1, <1>2 DEF TypeOK, Return
    <2> QED BY <1>1, <2>1, <2>2 DEF TypeOK, github
  <1>4. /\ pc'[c] = "outside" /\ tries'[c] = 0 /\ ~carried'[c]
        /\ \A d \in Callers \ {c} : Same(d)
    BY <1>1 DEF TypeOK, Return, Same
  <1>5. Good(c)'
    BY <1>4 DEF Good, AnswerExact, SleepsEnough, SleepsOff
  <1> QED BY <1>3, <1>4, <1>5, CallerKeeps

LEMMA FailKeeps ==
  ASSUME IInv, NEW c \in Callers, Fail(c) PROVE IInv'
  <1>1. TypeOK /\ RecordExact
    BY DEF IInv
  <1>2. RecordExact'
    BY <1>1 DEF RecordExact, Fail, github, record
  <1>3. /\ limit' \in {0, Limit} /\ remaining' \in 0..Limit /\ resetIn' \in Nat
        /\ recorded' \in BOOLEAN
    BY <1>1 DEF TypeOK, Fail, record
  <1> QED BY <1>2, <1>3, ReturnKeeps DEF Fail

LEMMA ReceiveKeeps ==
  ASSUME IInv, NEW c \in Callers, Receive(c) PROVE IInv'
  <1>1. TypeOK /\ RecordExact /\ Good(c) /\ AnswerExact(c) /\ SleepsOff(c)
    BY IInvSplit DEF Good
  <1>2. pc[c] = "answered" /\ UNCHANGED github /\ Update(c)
    BY DEF Receive
  <1>3. /\ answer[c].remaining \in 0..Limit /\ answer[c].resetIn \in Nat
        /\ answer[c].retryAfter \in {0} \cup RetryAfters /\ answer[c] \in Answers
    BY <1>1 DEF TypeOK, Answers
  <1>4. /\ limit' \in {0, Limit} /\ remaining' \in 0..Limit /\ resetIn' \in Nat
        /\ recorded' \in BOOLEAN
    BY <1>1, <1>2, <1>3 DEF TypeOK, Update, record
  <1>5. RecordExact'
    BY <1>1, <1>2 DEF RecordExact, AnswerExact, Update, github, record
  <1>6. CASE Retries(c)
    <2> DEFINE t == RetryDelay(answer[c])
    <2>1. t \in Nat
      BY <1>3, RetryDelayNat
    <2>2. /\ pc' = [pc EXCEPT ![c] = "backoff"]
          /\ timer' = [timer EXCEPT ![c] = t]
          /\ answer' = [answer EXCEPT ![c] = NoAnswer]
          /\ informed' = [informed EXCEPT ![c] = (latest = c)]
          /\ UNCHANGED <<tries, owed, carried>>
      BY <1>6 DEF Receive
    <2>3. latest = c => left > 0 \/ windowLeft <= t + Skew
      <3>1. left \in Nat /\ windowLeft \in Nat
        BY <1>1, BudgetAssumption DEF TypeOK
      <3>2. CASE answer[c].retryAfter > 0
        BY <1>1, <1>2, <3>2 DEF AnswerExact
      <3>3. CASE ~(answer[c].retryAfter > 0)
        BY <1>1, <1>2, <1>3, <1>6, <3>1, <3>3, SkewNat
        DEF AnswerExact, RetryDelay, Retries, Limited
      <3> QED BY <3>2, <3>3
    <2> HIDE DEF t
    <2>4. NoAnswer \in Answers
      BY BudgetAssumption DEF NoAnswer, Answers
    <2>5. TypeOK'
      <3>1. pc' \in [Callers -> States] /\ timer' \in [Callers -> Nat]
        BY <1>1, <2>1, <2>2 DEF TypeOK, States
      <3>2. answer' \in [Callers -> Answers] /\ informed' \in [Callers -> BOOLEAN]
        BY <1>1, <2>2, <2>4 DEF TypeOK
      <3> QED BY <1>1, <1>2, <1>4, <2>2, <3>1, <3>2 DEF TypeOK, github
    <2>6. /\ pc'[c] = "backoff" /\ timer'[c] = t /\ informed'[c] = (latest = c)
          /\ \A d \in Callers \ {c} : Same(d)
      BY <1>1, <2>2 DEF TypeOK, Same
    <2>7. owed[c] <= t + Skew
      BY <1>1, <1>2, <1>6 DEF SleepsOff, Retries, t
    <2>8. tries[c] = 1 /\ ~carried[c]
      BY <1>1, <1>2, <1>6 DEF Good, Retries, Limited
    <2>9. Good(c)'
      BY <1>2, <2>2, <2>3, <2>6, <2>7, <2>8
      DEF Good, AnswerExact, SleepsEnough, SleepsOff, github
    <2> QED BY <1>2, <1>5, <2>5, <2>6, <2>9, CallerKeeps
  <1>7. CASE ~Retries(c)
    BY <1>2, <1>4, <1>5, <1>7, ReturnKeeps DEF Receive
  <1> QED BY <1>6, <1>7

LEMMA TickKeeps == IInv /\ Tick => IInv'
  <1> SUFFICES ASSUME IInv, Tick PROVE IInv'
    OBVIOUS
  <1>1. TypeOK /\ RecordExact /\ Position
    BY DEF IInv
  <1>2. /\ windowLeft \in Nat /\ resetIn \in Nat
        /\ windowLeft' \in Nat /\ resetIn' \in Nat
        /\ windowLeft' <= windowLeft
    BY <1>1, DownNat, BudgetAssumption DEF TypeOK, Tick
  <1>3. ASSUME NEW c \in Callers
        PROVE  /\ timer[c] \in Nat /\ timer'[c] = Down(timer[c])
               /\ owed[c] \in Nat /\ owed'[c] = Down(owed[c])
               /\ answer[c] \in Answers
               /\ answer'[c] = [answer[c] EXCEPT !.resetIn = Down(answer[c].resetIn)]
    BY DEF Tick, TypeOK, IInv
  <1>4. ASSUME NEW a \in Answers, NEW b,
               b = [a EXCEPT !.resetIn = Down(a.resetIn)]
        PROVE  /\ b \in Answers /\ b.forbidden = a.forbidden /\ b.headers = a.headers
               /\ b.remaining = a.remaining /\ b.retryAfter = a.retryAfter
               /\ a.resetIn \in Nat /\ b.resetIn = Down(a.resetIn)
    <2> DEFINE n == Down(a.resetIn)
    <2>1. a.resetIn \in Nat /\ n \in Nat
      BY DownNat DEF Answers
    <2>2. b = [a EXCEPT !.resetIn = n]
      BY <1>4
    <2> HIDE DEF n
    <2>3. /\ b \in Answers /\ b.forbidden = a.forbidden /\ b.headers = a.headers
          /\ b.remaining = a.remaining /\ b.retryAfter = a.retryAfter
          /\ b.resetIn = n
      BY <2>1, <2>2 DEF Answers
    <2> QED BY <2>1, <2>3 DEF n
  <1>5. TypeOK'
    <2>1. windowLeft' \in 0..Window /\ resetIn' \in Nat
      BY <1>1, <1>2, BudgetAssumption DEF TypeOK
    <2>2. timer' \in [Callers -> Nat] /\ owed' \in [Callers -> Nat]
      BY <1>3, DownNat DEF Tick
    <2>3. answer' \in [Callers -> Answers]
      BY <1>3, <1>4 DEF Tick
    <2> QED BY <1>1, <2>1, <2>2, <2>3 DEF TypeOK, Tick
  <1>6. RecordExact'
    <2>1. windowLeft <= resetIn + Skew => windowLeft' <= resetIn' + Skew
      BY <1>2, SkewNat, DownKeepsOrder DEF Tick
    <2> QED BY <1>1, <2>1 DEF RecordExact, Tick
  <1>7. ASSUME NEW c \in Callers PROVE Good(c)'
    <2> DEFINE a == answer[c]
               b == answer'[c]
    <2>0. /\ timer[c] \in Nat /\ timer'[c] = Down(timer[c])
          /\ owed[c] \in Nat /\ owed'[c] = Down(owed[c])
      BY <1>3
    <2>1. Good(c)
      BY IInvSplit
    <2>2. /\ pc'[c] = pc[c] /\ tries'[c] = tries[c] /\ informed'[c] = informed[c]
          /\ carried'[c] = carried[c] /\ left' = left /\ latest' = latest
      BY DEF Tick
    <2>3. /\ a \in Answers /\ b \in Answers
          /\ b.forbidden = a.forbidden /\ b.headers = a.headers
          /\ b.remaining = a.remaining /\ b.retryAfter = a.retryAfter
          /\ a.resetIn \in Nat /\ b.resetIn = Down(a.resetIn)
      BY <1>3, <1>4
    <2>4. AnswerExact(c)'
      <3>1. windowLeft <= a.resetIn + Skew => windowLeft' <= b.resetIn + Skew
        BY <1>2, <2>3, SkewNat, DownKeepsOrder DEF Tick
      <3> QED BY <2>1, <2>2, <2>3, <3>1 DEF Good, AnswerExact
    <2>5. SleepsEnough(c)'
      <3>1. windowLeft <= timer[c] + Skew => windowLeft' <= timer'[c] + Skew
        BY <1>2, <1>3, SkewNat, DownKeepsOrder DEF Tick
      <3> QED BY <2>1, <2>2, <3>1 DEF Good, SleepsEnough
    <2>6. Limited(b) <=> Limited(a)
      BY <2>3 DEF Limited
    <2>7. Limited(a) /\ owed[c] <= RetryDelay(a) + Skew
             => owed'[c] <= RetryDelay(b) + Skew
      <3>1. RetryDelay(a) <= RetryDelay(b) + 1 /\ RetryDelay(b) > 0
        BY <2>3, RetryDelayStep
      <3>2. RetryDelay(a) \in Nat /\ RetryDelay(b) \in Nat
        BY <2>3, RetryDelayNat
      <3> QED BY <2>0, <3>1, <3>2, SkewNat, DownKeepsBound
    <2>8. SleepsOff(c)'
      <3>1. owed[c] <= timer[c] + Skew => owed'[c] <= timer'[c] + Skew
        BY <2>0, SkewNat, DownKeepsOrder
      <3>2. pc'[c] = "answered" /\ Limited(b) => owed'[c] <= RetryDelay(b) + Skew
        BY <2>1, <2>2, <2>6, <2>7 DEF Good, SleepsOff
      <3>3. pc'[c] = "backoff" => owed'[c] <= timer'[c] + Skew
        BY <2>1, <2>2, <3>1 DEF Good, SleepsOff
      <3> QED BY <3>2, <3>3 DEF SleepsOff
    <2>9. windowLeft <= Skew => windowLeft' <= Skew
      BY <1>2, SkewNat
    <2>10. owed[c] <= Skew => owed'[c] <= Skew
      BY <2>0, SkewNat DEF Down
    <2>11. carried'[c] /\ pc'[c] = "answered" => ~b.forbidden
      BY <2>1, <2>2, <2>3 DEF Good
    <2>12. pc'[c] = "send" /\ informed'[c] => left' > 0 \/ windowLeft' <= Skew
      BY <2>1, <2>2, <2>9 DEF Good
    <2>13. pc'[c] = "send" /\ tries'[c] > 0 => owed'[c] <= Skew
      BY <2>1, <2>2, <2>10 DEF Good
    <2> QED
      BY <2>1, <2>2, <2>4, <2>5, <2>8, <2>11, <2>12, <2>13 DEF Good
  <1> QED
    BY <1>5, <1>6, <1>7
    DEF IInv, Good, Position, RefusedOnlyWhenOvertaken, HonoursRefusal, Skew

LEMMA InitIInv == Init => IInv
  <1> SUFFICES ASSUME Init PROVE IInv
    OBVIOUS
  <1>1. NoAnswer \in Answers
    BY BudgetAssumption DEF NoAnswer, Answers
  <1>2. TypeOK
    <2>1. pc \in [Callers -> States] /\ tries \in [Callers -> 0..2]
      BY DEF Init, States
    <2>2. /\ timer \in [Callers -> Nat] /\ owed \in [Callers -> Nat]
          /\ answer \in [Callers -> Answers]
      BY <1>1 DEF Init
    <2>3. informed \in [Callers -> BOOLEAN] /\ carried \in [Callers -> BOOLEAN]
      BY DEF Init
    <2>4. /\ limit \in {0, Limit} /\ remaining \in 0..Limit /\ resetIn \in Nat
          /\ latest \in Callers \cup {Nobody}
      BY BudgetAssumption DEF Init
    <2>6. recorded \in BOOLEAN
      BY DEF Init
    <2>5. left \in 0..Limit /\ windowLeft \in 0..Window
      BY DEF Init
    <2> QED BY <2>1, <2>2, <2>3, <2>4, <2>5, <2>6 DEF TypeOK
  <1>3. RecordExact /\ \A c \in Callers : Good(c)
    BY DEF Init, RecordExact, Good, AnswerExact, SleepsEnough, SleepsOff
  <1> QED BY <1>2, <1>3, IInvSplit

-----------------------------------------------------------------------------
(* The theorems.                                                           *)

\* The invariant holds whatever the callers, GitHub and the clock do.
THEOREM Inductive == Spec => []IInv
  <1>1. Init => IInv
    BY InitIInv
  <1>2. IInv /\ [Next]_vars => IInv'
    <2> SUFFICES ASSUME IInv, [Next]_vars PROVE IInv'
      OBVIOUS
    <2>1. ASSUME NEW c \in Callers, Enter(c) PROVE IInv'
      BY <2>1, EnterKeeps
    <2>2. ASSUME NEW c \in Callers, RoundTrip(c) PROVE IInv'
      BY <2>2, WakeKeeps, GrantKeeps, RefusePrimaryKeeps, RefuseSecondaryKeeps,
         ReceiveKeeps DEF RoundTrip
    <2>3. ASSUME NEW c \in Callers, Fail(c) PROVE IInv'
      BY <2>3, FailKeeps
    <2>4. CASE Tick
      BY <2>4, TickKeeps
    <2>5. CASE UNCHANGED vars
      BY <2>5
      DEF vars, IInv, TypeOK, Position, RecordExact, AnswerExact, SleepsEnough,
          SleepsOff, RefusedOnlyWhenOvertaken, HonoursRefusal
    <2> QED BY <2>1, <2>2, <2>3, <2>4, <2>5 DEF Next
  <1> QED BY <1>1, <1>2, PTL DEF Spec

\* Types; in particular no request is sent three times (ratelimit.go:65-95).
THEOREM TypeCorrect == Spec => []TypeOK
  <1>1. IInv => TypeOK
    BY DEF IInv
  <1> QED BY <1>1, Inductive, PTL

\* Only a request that another one has overtaken runs into an exhausted budget,
\* but for the seconds the local clock is ahead (ratelimit.go:117-136).
THEOREM OvertakenCorrect == Spec => []RefusedOnlyWhenOvertaken
  <1>1. IInv => RefusedOnlyWhenOvertaken
    BY DEF IInv
  <1> QED BY <1>1, Inductive, PTL

\* A retry is not early, but for those seconds (ratelimit.go:201-223).
THEOREM RetryCorrect == Spec => []HonoursRefusal
  <1>1. IInv => HonoursRefusal
    BY DEF IInv
  <1> QED BY <1>1, Inductive, PTL

\* What GitHub has carried out is not sent again (ratelimit.go:195-198).
THEOREM NoRepeatCorrect == Spec => []NeverRepeats
  <1>1. IInv => NeverRepeats
    BY DEF IInv, Position, NeverRepeats
  <1> QED BY <1>1, Inductive, PTL
-----------------------------------------------------------------------------
(* How long a request sleeps.                                              *)

Span == NonNeg(Window - Ahead)

Short(n) == n <= Span \/ n <= 1 \/ \E s \in RetryAfters : n <= s

\* What the record and the answers say of the window's end is never further
\* away than a window, and no sleep is longer than what they say.
Bounds ==
    /\ resetIn <= Span
    /\ \A c \in Callers : answer[c].resetIn <= Span
    /\ \A c \in Callers : Short(timer[c])

LEMMA BoundsSleep == Bounds => SleepsAreBounded
  BY DEF Bounds, Short, Span, SleepsAreBounded

LEMMA SpanNat == Span \in Nat
  BY BudgetAssumption DEF Span, NonNeg

LEMMA ShortDown ==
  ASSUME NEW n \in Nat, Short(n) PROVE Short(Down(n))
  <1>1. Down(n) \in Nat /\ Down(n) <= n
    BY DownNat
  <1>2. ASSUME NEW s \in RetryAfters, n <= s PROVE Down(n) <= s
    <2>1. s \in Nat
      BY BudgetAssumption
    <2> QED BY <1>1, <1>2, <2>1
  <1> QED BY <1>1, <1>2, SpanNat DEF Short

\* A share of the time to the window's end is not longer than that time.
LEMMA DelayBound ==
  ASSUME TypeOK, resetIn > 0 PROVE Delay <= resetIn
  <1>1. resetIn \in Nat \ {0} /\ remaining \in Nat
    BY BudgetAssumption DEF TypeOK
  <1>2. CASE remaining = 0
    BY <1>1, <1>2 DEF Delay
  <1>3. CASE remaining # 0
    <2> DEFINE m == resetIn + remaining - 1
               d == m \div remaining
    <2>1. remaining \in Nat \ {0} /\ m \in Nat
      BY <1>1, <1>3
    <2>2. \A x \in Nat, y \in Nat \ {0} : x \div y \in Nat /\ y * (x \div y) <= x
      OBVIOUS
    <2>3. d \in Nat /\ remaining * d <= m
      BY <2>1, <2>2
    <2>4. \A x, y, z \in Nat :
              x > 0 /\ y > 0 /\ z >= x + 1 => y * z >= x + y
      <3> SUFFICES ASSUME NEW x \in Nat, NEW y \in Nat, NEW z \in Nat,
                          x > 0, y > 0, z >= x + 1
                   PROVE  y * z >= x + y
        OBVIOUS
      <3>1. PICK u \in Nat : z = x + 1 + u
        <4>1. z - x - 1 \in Nat /\ z = x + 1 + (z - x - 1)
          OBVIOUS
        <4> QED BY <4>1
      <3>2. PICK v \in Nat : y = v + 1
        <4>1. y - 1 \in Nat /\ y = (y - 1) + 1
          OBVIOUS
        <4> QED BY <4>1
      <3>3. y * z = y * x + y + y * u /\ y * x = v * x + x
        BY <3>1, <3>2
      <3>4. y * u \in Nat /\ v * x \in Nat
        OBVIOUS
      <3> QED BY <3>3, <3>4
    <2>5. Delay = d
      BY <1>3 DEF Delay
    <2>6. d >= resetIn + 1 => remaining * d >= resetIn + remaining
      BY <1>1, <2>1, <2>3, <2>4
    <2>7. remaining * d \in Nat
      BY <2>1, <2>3
    <2>8. remaining * d < resetIn + remaining
      BY <1>1, <2>3, <2>7
    <2> HIDE DEF d, m
    <2> QED BY <1>1, <2>3, <2>5, <2>6, <2>7, <2>8
  <1> QED BY <1>2, <1>3

LEMMA RetryDelayShort ==
  ASSUME NEW a \in Answers, a.resetIn <= Span
  PROVE  Short(RetryDelay(a))
  <1>1. CASE a.retryAfter > 0
    <2>1. a.retryAfter \in {0} \cup RetryAfters
      BY DEF Answers
    <2>2. \A s \in {0} \cup RetryAfters : s \in Nat
      BY BudgetAssumption
    <2>3. a.retryAfter \in Nat
      BY <2>1, <2>2
    <2>4. a.retryAfter \in RetryAfters
      BY <1>1, <2>1, <2>3
    <2> QED BY <1>1, <2>3, <2>4 DEF RetryDelay, Short
  <1>2. CASE ~(a.retryAfter > 0)
    BY <1>2 DEF RetryDelay, Short
  <1> QED BY <1>1, <1>2

LEMMA ResponseBound ==
  ASSUME TypeOK, NEW f, NEW h, NEW r, NEW s
  PROVE  Response(f, h, r, s).resetIn <= Span
  <1>1. NonNeg(Until - Ahead) <= Span
    BY BudgetType, BudgetAssumption DEF Span, NonNeg
  <1> QED BY <1>1, SpanNat DEF Response

LEMMA ServeBounds ==
  ASSUME TypeOK, Bounds, NEW c \in Callers, NEW a, NEW r, NEW w,
         Serve(c, a, r, w), a.resetIn <= Span
  PROVE  Bounds'
  <1>1. ASSUME NEW d \in Callers PROVE answer'[d].resetIn <= Span
    BY DEF TypeOK, Bounds, Serve
  <1> QED BY <1>1 DEF Bounds, Serve, Short, Span

LEMMA ReturnBounds ==
  ASSUME TypeOK, Bounds, NEW c \in Callers, Return(c), resetIn' <= Span
  PROVE  Bounds'
  <1>1. NoAnswer.resetIn <= Span /\ Short(0)
    BY SpanNat DEF NoAnswer, Short
  <1>2. ASSUME NEW d \in Callers
        PROVE  answer'[d].resetIn <= Span /\ Short(timer'[d])
    BY <1>1 DEF TypeOK, Bounds, Return
  <1> QED BY <1>2 DEF Bounds, Short, Span

LEMMA ReceiveBounds ==
  ASSUME TypeOK, Bounds, NEW c \in Callers, Receive(c) PROVE Bounds'
  <1>1. answer[c] \in Answers /\ answer[c].resetIn <= Span
    BY DEF TypeOK, Bounds
  <1>2. resetIn' <= Span
    BY <1>1 DEF Bounds, Receive, Update, record
  <1>3. CASE Retries(c)
    <2>1. NoAnswer.resetIn <= Span /\ Short(RetryDelay(answer[c]))
      BY <1>1, SpanNat, RetryDelayShort DEF NoAnswer
    <2>2. ASSUME NEW d \in Callers
          PROVE  answer'[d].resetIn <= Span /\ Short(timer'[d])
      <3>1. /\ answer' = [answer EXCEPT ![c] = NoAnswer]
            /\ timer' = [timer EXCEPT ![c] = RetryDelay(answer[c])]
        BY <1>3 DEF Receive
      <3>2. CASE d = c
        BY <2>1, <3>1, <3>2 DEF TypeOK
      <3>3. CASE d # c
        BY <3>1, <3>3 DEF TypeOK, Bounds
      <3> QED BY <3>2, <3>3
    <2> QED BY <1>2, <2>2 DEF Bounds, Short, Span
  <1>4. CASE ~Retries(c)
    BY <1>2, <1>4, ReturnBounds DEF Receive
  <1> QED BY <1>3, <1>4

LEMMA EnterBounds ==
  ASSUME TypeOK, Bounds, NEW c \in Callers, Enter(c) PROVE Bounds'
  <1>1. Throttled => Delay <= Span
    <2> SUFFICES ASSUME Throttled PROVE Delay <= Span
      OBVIOUS
    <2>1. Delay <= resetIn /\ Delay \in Nat /\ resetIn \in Nat
      BY DelayBound, DelayNat DEF Throttled, TypeOK
    <2> QED BY <2>1, SpanNat DEF Bounds
  <1>2. Throttled => Short(Delay)
    BY <1>1 DEF Short
  <1>3. Short(0)
    BY SpanNat DEF Short
  <1>4. ASSUME NEW d \in Callers PROVE Short(timer'[d])
    <2>1. timer' = [timer EXCEPT ![c] = IF Throttled THEN Delay ELSE 0]
      BY DEF Enter
    <2>2. CASE d = c
      BY <1>2, <1>3, <2>1, <2>2 DEF TypeOK
    <2>3. CASE d # c
      BY <2>1, <2>3 DEF TypeOK, Bounds
    <2> QED BY <2>2, <2>3
  <1> QED BY <1>4 DEF Bounds, Enter, record, Short, Span

LEMMA TickBounds ==
  ASSUME TypeOK, Bounds, Tick PROVE Bounds'
  <1>1. resetIn' <= Span
    <2>1. resetIn \in Nat /\ resetIn' = Down(resetIn)
      BY DEF TypeOK, Tick
    <2> QED BY <2>1, DownNat, SpanNat DEF Bounds
  <1>2. ASSUME NEW c \in Callers PROVE answer'[c].resetIn <= Span
    <2>1. answer[c].resetIn \in Nat /\ answer[c].resetIn <= Span
      BY DEF TypeOK, Answers, Bounds
    <2>2. answer'[c].resetIn = Down(answer[c].resetIn)
      <3>1. answer[c] \in Answers
        BY DEF TypeOK
      <3>2. answer'[c] =
              [answer[c] EXCEPT !.resetIn = Down(answer[c].resetIn)]
        BY DEF Tick
      <3> QED BY <3>1, <3>2 DEF Answers
    <2> QED BY <2>1, <2>2, DownNat, SpanNat
  <1>3. ASSUME NEW c \in Callers PROVE Short(timer'[c])
    BY ShortDown DEF TypeOK, Bounds, Tick
  <1> QED BY <1>1, <1>2, <1>3 DEF Bounds, Short, Span

\* No sleep is longer than what the local clock makes of a window, the wait
\* GitHub named, or a second: for any budget, however it is shared out
\* (ratelimit.go:97-140 and 201-223).
THEOREM SleepsBounded == Spec => []SleepsAreBounded
  <1>1. Init => Bounds
    BY SpanNat DEF Init, NoAnswer, Bounds, Short
  <1>2. TypeOK /\ Bounds /\ [Next]_vars => Bounds'
    <2> SUFFICES ASSUME TypeOK, Bounds, [Next]_vars PROVE Bounds'
      OBVIOUS
    <2>1. ASSUME NEW c \in Callers, Enter(c) PROVE Bounds'
      BY <2>1, EnterBounds
    <2>2. ASSUME NEW c \in Callers, RoundTrip(c) PROVE Bounds'
      <3>1. CASE Wake(c)
        BY <3>1 DEF Wake, record, Bounds, Short, Span
      <3>2. CASE Grant(c)
        BY <3>2, ResponseBound, ServeBounds DEF Grant
      <3>3. CASE RefusePrimary(c)
        BY <3>3, ResponseBound, ServeBounds DEF RefusePrimary
      <3>4. CASE RefuseSecondary(c)
        BY <3>4, ResponseBound, ServeBounds DEF RefuseSecondary
      <3>5. CASE Receive(c)
        BY <3>5, ReceiveBounds
      <3> QED BY <2>2, <3>1, <3>2, <3>3, <3>4, <3>5 DEF RoundTrip
    <2>3. ASSUME NEW c \in Callers, Fail(c) PROVE Bounds'
      <3>1. resetIn' <= Span
        BY <2>3 DEF Fail, record, Bounds
      <3> QED BY <2>3, <3>1, ReturnBounds DEF Fail
    <2>4. CASE Tick
      BY <2>4, TickBounds
    <2>5. CASE UNCHANGED vars
      BY <2>5 DEF vars, Bounds, Short, Span
    <2> QED BY <2>1, <2>2, <2>3, <2>4, <2>5 DEF Next
  <1> QED BY <1>1, <1>2, TypeCorrect, BoundsSleep, PTL DEF Spec

-----------------------------------------------------------------------------
(* How a request comes closer to its return.                               *)

\* No step sends a request back (ratelimit.go:40-95).
THEOREM GoesForward == Spec => RequestsGoForward
  <1> DEFINE Closer(d) ==
               pc[d] # "outside" =>
                   \/ pc'[d] = "outside"
                   \/ Progress(d)' > Progress(d)
                   \/ /\ pc'[d] = pc[d] /\ tries'[d] = tries[d]
                      /\ timer'[d] <= timer[d]
  <1>1. TypeOK /\ [Next]_vars => [\A d \in Callers : Closer(d)]_vars
    <2> SUFFICES ASSUME TypeOK, Next PROVE \A d \in Callers : Closer(d)
      OBVIOUS
    <2>0. ASSUME NEW d \in Callers
          PROVE  pc[d] \in States /\ tries[d] \in 0..2 /\ timer[d] \in Nat
      BY DEF TypeOK
    <2>1. ASSUME NEW d \in Callers, pc'[d] = pc[d], tries'[d] = tries[d],
                 timer'[d] = timer[d]
          PROVE  Closer(d)
      BY <2>0, <2>1
    <2>2. ASSUME NEW c \in Callers, Enter(c) PROVE \A d \in Callers : Closer(d)
      <3>1. Closer(c)
        BY <2>2 DEF Enter
      <3>2. \A d \in Callers \ {c} :
                pc'[d] = pc[d] /\ tries'[d] = tries[d] /\ timer'[d] = timer[d]
        BY <2>2 DEF TypeOK, Enter
      <3> QED BY <2>1, <3>1, <3>2
    <2>3. ASSUME NEW c \in Callers, Wake(c) PROVE \A d \in Callers : Closer(d)
      <3>1. /\ pc[c] \in {"throttle", "backoff"} /\ pc'[c] = "send"
            /\ tries'[c] = tries[c]
        BY <2>3 DEF TypeOK, Wake
      <3>2. Progress(c)' > Progress(c)
        BY <2>0, <3>1 DEF Progress, Place
      <3>3. \A d \in Callers \ {c} :
                pc'[d] = pc[d] /\ tries'[d] = tries[d] /\ timer'[d] = timer[d]
        BY <2>3 DEF TypeOK, Wake
      <3> QED BY <2>1, <3>2, <3>3
    <2>4. ASSUME NEW c \in Callers, NEW a, NEW r, NEW w, pc[c] = "send",
                 Serve(c, a, r, w)
          PROVE  \A d \in Callers : Closer(d)
      <3>1. pc'[c] = "answered" /\ tries'[c] = tries[c] + 1
        BY <2>4 DEF TypeOK, Serve
      <3>2. Progress(c)' > Progress(c)
        BY <2>0, <2>4, <3>1 DEF Progress, Place
      <3>3. \A d \in Callers \ {c} :
                pc'[d] = pc[d] /\ tries'[d] = tries[d] /\ timer'[d] = timer[d]
        BY <2>4 DEF TypeOK, Serve
      <3> QED BY <2>1, <3>2, <3>3
    <2>5. ASSUME NEW c \in Callers, Return(c)
          PROVE  \A d \in Callers : Closer(d)
      <3>1. pc'[c] = "outside"
        BY <2>5 DEF TypeOK, Return
      <3>2. \A d \in Callers \ {c} :
                pc'[d] = pc[d] /\ tries'[d] = tries[d] /\ timer'[d] = timer[d]
        BY <2>5 DEF TypeOK, Return
      <3> QED BY <2>1, <3>1, <3>2
    <2>6. ASSUME NEW c \in Callers, Receive(c), Retries(c)
          PROVE  \A d \in Callers : Closer(d)
      <3>1. pc[c] = "answered" /\ pc'[c] = "backoff" /\ tries'[c] = tries[c]
        BY <2>6 DEF TypeOK, Receive
      <3>2. Progress(c)' > Progress(c)
        BY <2>0, <3>1 DEF Progress, Place
      <3>3. \A d \in Callers \ {c} :
                pc'[d] = pc[d] /\ tries'[d] = tries[d] /\ timer'[d] = timer[d]
        BY <2>6 DEF TypeOK, Receive
      <3> QED BY <2>1, <3>2, <3>3
    <2>7. CASE Tick
      <3>1. ASSUME NEW d \in Callers PROVE Closer(d)
        BY <2>0, <2>7, DownNat DEF Tick
      <3> QED BY <3>1
    <2> HIDE DEF Closer
    <2>8. ASSUME NEW c \in Callers, RoundTrip(c)
          PROVE  \A d \in Callers : Closer(d)
      <3>1. CASE Grant(c)
        BY <2>4, <3>1 DEF Grant
      <3>2. CASE RefusePrimary(c)
        BY <2>4, <3>2 DEF RefusePrimary
      <3>3. CASE RefuseSecondary(c)
        BY <2>4, <3>3 DEF RefuseSecondary
      <3>4. CASE Receive(c)
        BY <2>5, <2>6, <3>4 DEF Receive
      <3> QED BY <2>3, <2>8, <3>1, <3>2, <3>3, <3>4 DEF RoundTrip
    <2>9. ASSUME NEW c \in Callers, Fail(c) PROVE \A d \in Callers : Closer(d)
      BY <2>5, <2>9 DEF Fail
    <2> QED BY <2>2, <2>7, <2>8, <2>9 DEF Next
  <1>2. [\A d \in Callers : Closer(d)]_vars <=>
        [\A c \in Callers :
          pc[c] # "outside" =>
              \/ pc'[c] = "outside"
              \/ Progress(c)' > Progress(c)
              \/ /\ pc'[c] = pc[c] /\ tries'[c] = tries[c]
                 /\ timer'[c] <= timer[c]]_vars
    OBVIOUS
  <1> HIDE DEF Closer
  <1> QED BY <1>1, <1>2, TypeCorrect, PTL DEF Spec, RequestsGoForward
=============================================================================
