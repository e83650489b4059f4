-------------------------- MODULE ExchangeClientProofs --------------------------
(* What ExchangeClient keeps, for any number of coroutines, any capacities,    *)
(* prices and delays.                                                          *)
EXTENDS ExchangeClient, TLAPS

\* What a bucket could let through at once and the level of what it has let
\* through are, together, always its capacity.
Balance == \A b \in Buckets : Refilled(b) + burst[b] = Capacity[b]

\* While a call goes on, whatever was carried out is behind a server error.
Unhidden == \A t \in Tasks : call[t].at # "ended" => call[t].done = call[t].hidden

IInv == TypeOK /\ Balance /\ Unhidden /\ OutcomeTold

LEMMA BucketFacts ==
  /\ Capacity \in [Buckets -> Nat] /\ Cost \in [Buckets -> Nat \ {0}]
  /\ \A op \in Ops : BucketOf(op) \in Buckets
  BY ClientAssumption DEF Capacity, Cost, Buckets, BucketOf

LEMMA DelayFacts == \A a \in 0..MaxRetries : Delays(a) \subseteq Nat
  BY ClientAssumption DEF Delays

LEMMA Initially == Init => IInv
<1> SUFFICES ASSUME Init PROVE IInv
  OBVIOUS
<1>1. /\ tokens = Capacity /\ lag = [b \in Buckets |-> 0] /\ call = [t \in Tasks |-> Idle]
      /\ burst = [b \in Buckets |-> 0]
  BY DEF Init
<1>2. Idle \in CallType
  BY ClientAssumption DEF Idle, CallType, Ops, Results
<1>3. TypeOK
  BY <1>1, <1>2, BucketFacts DEF TypeOK
<1>4. Balance
  BY <1>1, BucketFacts DEF Balance, Refilled, Least
<1>5. Unhidden /\ OutcomeTold
  BY <1>1 DEF Unhidden, OutcomeTold, Idle
<1> QED
  BY <1>3, <1>4, <1>5 DEF IInv

-----------------------------------------------------------------------------
(* The buckets *)

BucketType ==
  /\ tokens \in [Buckets -> Nat] /\ \A b \in Buckets : tokens[b] <= Capacity[b]
  /\ lag \in [Buckets -> Nat] /\ \A b \in Buckets : lag[b] <= Capacity[b]
  /\ burst \in [Buckets -> Nat]

LEMMA RefillFacts ==
  ASSUME BucketType, NEW b \in Buckets
  PROVE  Refilled(b) \in Nat /\ Refilled(b) <= Capacity[b] /\ Refilled(b) >= tokens[b]
  BY BucketFacts DEF BucketType, Refilled, Least

LEMMA AcquireBuckets ==
  ASSUME BucketType, Balance, NEW t \in Tasks, call[t].op \in Ops, Acquire(t)
  PROVE  BucketType' /\ Balance'
<1> DEFINE b == BucketOf(call[t].op)
           R == Refilled(b)
<1>1. b \in Buckets /\ R \in Nat /\ R <= Capacity[b] /\ Cost[b] \in Nat /\ Capacity[b] \in Nat
      /\ R + burst[b] = Capacity[b] /\ burst[b] \in Nat
  BY BucketFacts, RefillFacts DEF Balance, BucketType
<1>2. lag' = [lag EXCEPT ![b] = 0]
  BY DEF Acquire
<1> DEFINE n == IF R >= Cost[b] THEN R - Cost[b] ELSE R
           u == IF R >= Cost[b] THEN burst[b] + Cost[b] ELSE burst[b]
<1>3. n \in Nat /\ u \in Nat /\ n <= R /\ n + u = Capacity[b]
  BY <1>1
<1>4. tokens' = [tokens EXCEPT ![b] = n] /\ burst' = [burst EXCEPT ![b] = u]
  <2>1. CASE R >= Cost[b]
    BY <1>1, <2>1 DEF Acquire
  <2>2. CASE R < Cost[b]
    <3>1. tokens' = [tokens EXCEPT ![b] = R] /\ burst' = burst
      BY <1>1, <2>2 DEF Acquire
    <3>2. burst = [burst EXCEPT ![b] = burst[b]]
      BY DEF BucketType
    <3>3. n = R /\ u = burst[b]
      BY <1>1, <2>2
    <3> HIDE DEF n, u, R, b
    <3> QED
      BY <3>1, <3>2, <3>3
  <2> QED
    BY <1>1, <2>1, <2>2
<1> HIDE DEF n, u
<1>5. BucketType'
  BY <1>1, <1>2, <1>3, <1>4 DEF BucketType
<1>6. \A d \in Buckets : Refilled(d)' + burst'[d] = Capacity[d]
  BY <1>1, <1>2, <1>3, <1>4, BucketFacts DEF Balance, BucketType, Refilled, Least
<1> QED
  BY <1>5, <1>6 DEF Balance

LEMMA TickBuckets ==
  ASSUME BucketType, Balance, Tick
  PROVE  BucketType' /\ Balance'
<1>1. /\ lag' = [b \in Buckets |-> Least(Capacity[b], lag[b] + 1)]
      /\ burst' = [b \in Buckets |-> Less(burst[b], 1)] /\ tokens' = tokens
  BY DEF Tick
<1>2. BucketType'
  BY <1>1, BucketFacts DEF BucketType, Least, Less
<1>3. \A b \in Buckets : Refilled(b)' + burst'[b] = Capacity[b]
  BY <1>1, BucketFacts DEF Balance, BucketType, Refilled, Least, Less
<1> QED
  BY <1>2, <1>3 DEF Balance

-----------------------------------------------------------------------------
(* The calls *)

\* A call, as the properties see it.
Sound(c) ==
  /\ c \in CallType
  /\ c.at # "ended" => c.done = c.hidden
  /\ c.at = "ended" /\ c.op \in Effective =>
       /\ c.result = "ok" => c.done >= 1
       /\ c.done <= c.hidden + 1
       /\ c.result = "rejected" => c.done = c.hidden

Sounds == call \in [Tasks -> CallType] /\ \A t \in Tasks : Sound(call[t])

LEMMA Parts == IInv <=> BucketType /\ Balance /\ Sounds
  BY DEF IInv, TypeOK, BucketType, Sounds, Sound, Unhidden, OutcomeTold

LEMMA OneCall ==
  ASSUME Sounds, NEW t \in Tasks, NEW c, Sound(c), call' = [call EXCEPT ![t] = c]
  PROVE  Sounds'
<1>1. call' \in [Tasks -> CallType]
  BY DEF Sounds, Sound
<1>2. \A u \in Tasks : Sound(call'[u])
  BY DEF Sounds
<1> QED
  BY <1>1, <1>2 DEF Sounds, Sound

\* How a call ends, with n carried out and h of them hidden.
LEMMA Ending ==
  ASSUME NEW c \in CallType, NEW r \in Results, NEW n \in Nat, c.at = "send",
         c.done = c.hidden, n \in {c.done, c.done + 1},
         r = "ok" /\ c.op \in Effective => n >= 1,
         r = "rejected" => n = c.done
  PROVE  Sound(Ends([c EXCEPT !.done = n], r))
<1> DEFINE f == [c EXCEPT !.done = n]
           e == Ends(f, r)
<1>1. e = [at |-> "ended", op |-> c.op, timer |-> c.timer, attempt |-> c.attempt,
           done |-> n, hidden |-> c.hidden, result |-> r]
  <2>1. c = [at |-> c.at, op |-> c.op, timer |-> c.timer, attempt |-> c.attempt,
             done |-> c.done, hidden |-> c.hidden, result |-> c.result]
    BY DEF CallType
  <2>2. f =
          [at |-> c.at, op |-> c.op, timer |-> c.timer, attempt |-> c.attempt,
           done |-> n, hidden |-> c.hidden, result |-> c.result]
    BY <2>1
  <2>3. e = [f EXCEPT !.at = "ended", !.result = r]
    BY DEF Ends
  <2> HIDE DEF f, e
  <2> QED
    BY <2>2, <2>3
<1>2. e \in CallType
  BY <1>1 DEF CallType
<1> HIDE DEF e
<1>3. e.at = "ended" /\ e.op = c.op /\ e.done = n /\ e.hidden = c.hidden /\ e.result = r
  BY <1>1
<1>4. c.hidden \in Nat /\ c.done \in Nat
  BY DEF CallType
<1>5. Sound(e)
  BY <1>2, <1>3, <1>4 DEF Sound
<1> QED
  BY <1>5 DEF e

\* What Retry makes of a call that has carried out as many as are hidden.
LEMMA Retrying ==
  ASSUME NEW c \in CallType, c.at = "send", c.done = c.hidden,
         NEW D \in SUBSET Nat, NEW e \in Retry(c, D)
  PROVE  Sound(e)
<1>1. c = [at |-> "send", op |-> c.op, timer |-> c.timer, attempt |-> c.attempt,
           done |-> c.done, hidden |-> c.done, result |-> c.result]
  BY DEF CallType
<1>2. CASE c.attempt >= MaxRetries
  <2>1. e = [c EXCEPT !.at = "ended", !.result = "gave_up"]
    BY <1>2 DEF Retry, Ends
  <2>2. e = [at |-> "ended", op |-> c.op, timer |-> c.timer, attempt |-> c.attempt,
             done |-> c.done, hidden |-> c.done, result |-> "gave_up"]
    BY <1>1, <2>1
  <2>3. e \in CallType
    BY <2>2 DEF CallType, Results
  <2> QED
    BY <2>2, <2>3 DEF Sound, CallType
<1>3. CASE ~(c.attempt >= MaxRetries)
  <2>1. PICK d \in D : e = [c EXCEPT !.timer = d, !.attempt = c.attempt + 1]
    BY <1>3 DEF Retry
  <2>2. e = [at |-> "send", op |-> c.op, timer |-> d, attempt |-> c.attempt + 1,
             done |-> c.done, hidden |-> c.done, result |-> c.result]
    BY <1>1, <2>1
  <2>3. c.attempt + 1 \in 0..MaxRetries
    BY <1>3, ClientAssumption DEF CallType
  <2>4. e \in CallType
    BY <2>2, <2>3 DEF CallType
  <2> QED
    BY <2>2, <2>4 DEF Sound
<1> QED
  BY <1>2, <1>3

\* One attempt at the exchange.
LEMMA Attempt ==
  ASSUME NEW c \in CallType, c.at = "send", c.done = c.hidden,
         NEW e \in Good(c) \union ClientError(c) \union TooMany(c)
                   \union ServerError(c) \union NoAnswer(c)
  PROVE  Sound(e)
<1>1. c.done \in Nat /\ c.attempt \in 0..MaxRetries
      /\ c = [c EXCEPT !.done = c.done]
  BY DEF CallType
<1>2. Carried(c) \subseteq {c.done, c.done + 1} /\ Carried(c) \subseteq Nat
  BY <1>1 DEF Carried
<1>3. CASE e \in Good(c)
  <2>1. PICK n \in Carried(c) : e = Ends([c EXCEPT !.done = n], "ok")
                                /\ (c.op \in Effective => n > c.done)
    BY <1>3 DEF Good
  <2>2. n \in Nat /\ n \in {c.done, c.done + 1} /\ (c.op \in Effective => n >= 1)
    BY <1>1, <1>2, <2>1
  <2> QED
    BY <2>1, <2>2, Ending DEF Results
<1>4. CASE e \in ClientError(c)
  <2>1. e = Ends([c EXCEPT !.done = c.done], "rejected")
    BY <1>1, <1>4 DEF ClientError
  <2> QED
    BY <1>1, <2>1, Ending DEF Results
<1>5. CASE e \in TooMany(c)
  <2>1. UNION {IF r = 0 THEN Delays(c.attempt) ELSE {r} : r \in RetryAfters} \in SUBSET Nat
    BY <1>1, DelayFacts, ClientAssumption
  <2> QED
    BY <1>5, <2>1, Retrying DEF TooMany
<1>6. CASE e \in ServerError(c)
  <2>1. PICK n \in Carried(c) :
          e \in Retry([c EXCEPT !.done = n, !.hidden = c.hidden + (n - c.done)],
                      Delays(c.attempt))
    BY <1>6 DEF ServerError
  <2> DEFINE d == [c EXCEPT !.done = n, !.hidden = c.hidden + (n - c.done)]
  <2>2. c.hidden + (n - c.done) = n /\ n \in Nat
    BY <1>1, <1>2
  <2>3. d = [at |-> "send", op |-> c.op, timer |-> c.timer, attempt |-> c.attempt,
             done |-> n, hidden |-> n, result |-> c.result]
    <3>1. c = [at |-> "send", op |-> c.op, timer |-> c.timer, attempt |-> c.attempt,
               done |-> c.done, hidden |-> c.hidden, result |-> c.result]
      BY DEF CallType
    <3>2. d = [c EXCEPT !.done = n, !.hidden = n]
      BY <2>2
    <3> HIDE DEF d
    <3> QED
      BY <3>1, <3>2
  <2>4. d \in CallType /\ d.at = "send" /\ d.done = d.hidden
    BY <2>2, <2>3 DEF CallType
  <2>5. Delays(c.attempt) \in SUBSET Nat
    BY <1>1, DelayFacts
  <2> HIDE DEF d
  <2>6. e \in Retry(d, Delays(c.attempt))
    BY <2>1 DEF d
  <2> QED
    BY <2>4, <2>5, <2>6, Retrying
<1>7. CASE e \in NoAnswer(c)
  <2>1. PICK n \in Carried(c) : e = Ends([c EXCEPT !.done = n], "lost")
    BY <1>7 DEF NoAnswer
  <2> QED
    BY <1>2, <2>1, Ending DEF Results
<1> QED
  BY <1>3, <1>4, <1>5, <1>6, <1>7

\* A waiting or idle call whose step or timer alone changes.
LEMMA Moving ==
  ASSUME NEW c \in CallType, Sound(c), NEW n \in Nat, NEW l,
         l = c.at \/ (c.at = "acquire" /\ l = "send")
  PROVE  Sound([c EXCEPT !.at = l, !.timer = n])
<1> DEFINE e == [c EXCEPT !.at = l, !.timer = n]
<1>1. c = [at |-> c.at, op |-> c.op, timer |-> c.timer, attempt |-> c.attempt,
           done |-> c.done, hidden |-> c.hidden, result |-> c.result]
  BY DEF CallType
<1>2. e = [at |-> l, op |-> c.op, timer |-> n, attempt |-> c.attempt,
           done |-> c.done, hidden |-> c.hidden, result |-> c.result]
  <2>1. e = [c EXCEPT !.at = l, !.timer = n]
    OBVIOUS
  <2> HIDE DEF e
  <2> QED
    BY <1>1, <2>1
<1>3. e \in CallType
  BY <1>2 DEF Sound, CallType
<1> HIDE DEF e
<1>4. Sound(e)
  BY <1>2, <1>3 DEF Sound
<1> QED
  BY <1>4 DEF e

-----------------------------------------------------------------------------
(* The steps *)

LEMMA BeginKeeps ==
  ASSUME Sounds, NEW t \in Tasks, NEW op \in Ops, Begin(t, op)
  PROVE  Sounds'
<1> DEFINE c == [Idle EXCEPT !.at = "acquire", !.op = op]
<1>1. c = [at |-> "acquire", op |-> op, timer |-> 0, attempt |-> 0,
           done |-> 0, hidden |-> 0, result |-> "ok"]
  <2>1. c = [Idle EXCEPT !.at = "acquire", !.op = op]
    OBVIOUS
  <2> HIDE DEF c
  <2> QED
    BY <2>1 DEF Idle
<1>2. call' = [call EXCEPT ![t] = c]
  BY DEF Begin
<1> HIDE DEF c
<1>3. c \in CallType
  BY <1>1, ClientAssumption DEF CallType, Results
<1>4. Sound(c)
  BY <1>1, <1>3 DEF Sound
<1> QED
  BY <1>2, <1>4, OneCall

LEMMA AcquireKeeps ==
  ASSUME BucketType, Sounds, NEW t \in Tasks, Acquire(t)
  PROVE  Sounds'
<1> DEFINE b == BucketOf(call[t].op)
<1>1. call[t] \in CallType /\ Sound(call[t]) /\ call[t].at = "acquire" /\ call[t].timer = 0
  BY DEF Sounds, Acquire
<1>2. b \in Buckets
  BY <1>1, BucketFacts DEF CallType
<1>3. CASE Refilled(b) >= Cost[b]
  <2> DEFINE c == [call[t] EXCEPT !.at = "send", !.timer = 0]
  <2>1. call' = [call EXCEPT ![t].at = "send"]
    BY <1>2, <1>3, BucketFacts, RefillFacts DEF Acquire
  <2>2. c = [call[t] EXCEPT !.at = "send"]
    BY <1>1 DEF CallType
  <2>3. call' = [call EXCEPT ![t] = c]
    BY <2>1, <2>2 DEF Sounds
  <2>4. Sound(c)
    BY <1>1, Moving
  <2> QED
    BY <2>3, <2>4, OneCall
<1>4. CASE Refilled(b) < Cost[b]
  <2> DEFINE n == Cost[b] - Refilled(b)
             c == [call[t] EXCEPT !.at = call[t].at, !.timer = n]
  <2>1. call' = [call EXCEPT ![t].timer = n] /\ n \in Nat
    BY <1>2, <1>4, BucketFacts, RefillFacts DEF Acquire
  <2>2. c = [call[t] EXCEPT !.timer = n]
    <3> HIDE DEF n
    <3> QED
      BY <1>1 DEF CallType
  <2>3. call' = [call EXCEPT ![t] = c]
    <3> HIDE DEF n
    <3> QED
      BY <2>1, <2>2 DEF Sounds
  <2>4. Sound(c)
    <3> HIDE DEF n
    <3> QED
      BY <1>1, <2>1, Moving
  <2> QED
    BY <2>3, <2>4, OneCall
<1> QED
  BY <1>2, <1>3, <1>4, BucketFacts, RefillFacts

LEMMA AnsweredKeeps ==
  ASSUME Sounds, NEW t \in Tasks, Answered(t)
  PROVE  Sounds'
<1>1. call[t] \in CallType /\ call[t].at = "send" /\ call[t].done = call[t].hidden
  BY DEF Sounds, Sound, Answered
<1>2. PICK e \in Good(call[t]) \union ClientError(call[t]) \union TooMany(call[t])
               \union ServerError(call[t]) \union NoAnswer(call[t]) :
        call' = [call EXCEPT ![t] = e]
  BY DEF Answered
<1>3. Sound(e)
  BY <1>1, <1>2, Attempt
<1> QED
  BY <1>2, <1>3, OneCall

LEMMA ReturnKeeps ==
  ASSUME Sounds, NEW t \in Tasks, Return(t)
  PROVE  Sounds'
<1>1. Sound(Idle)
  BY ClientAssumption DEF Idle, Sound, CallType, Ops, Results
<1> QED
  BY <1>1, OneCall DEF Return

LEMMA TickKeeps == ASSUME Sounds, Tick PROVE Sounds'
<1>1. call' = [t \in Tasks |-> [call[t] EXCEPT !.timer = Less(call[t].timer, 1)]]
  BY DEF Tick
<1>2. ASSUME NEW t \in Tasks PROVE Sound(call'[t])
  <2> DEFINE n == Less(call[t].timer, 1)
             c == [call[t] EXCEPT !.at = call[t].at, !.timer = n]
  <2>1. call[t] \in CallType /\ Sound(call[t]) /\ n \in Nat
    BY DEF Sounds, CallType, Less
  <2> HIDE DEF n
  <2>2. c = [call[t] EXCEPT !.timer = n]
    BY <2>1 DEF CallType
  <2>3. Sound(c)
    BY <2>1, Moving
  <2>4. call'[t] = c
    BY <1>1, <2>2 DEF n
  <2> QED
    BY <2>3, <2>4
<1>3. call' \in [Tasks -> CallType]
  BY <1>1, <1>2 DEF Sound
<1> QED
  BY <1>2, <1>3 DEF Sounds

LEMMA Stepped == IInv /\ [Next]_vars => IInv'
<1> SUFFICES ASSUME BucketType, Balance, Sounds, [Next]_vars
             PROVE  BucketType' /\ Balance' /\ Sounds'
  <2>1. BucketType' /\ Balance' /\ Sounds' => IInv'
    BY DEF IInv, TypeOK, BucketType, Sounds, Sound, Unhidden, OutcomeTold
  <2> QED
    BY <2>1, Parts
<1> USE DEF Balance, BucketType
<1>1. CASE \E t \in Tasks : Acquire(t)
  <2>1. PICK t \in Tasks : Acquire(t)
    BY <1>1
  <2>2. call[t].op \in Ops
    BY DEF Sounds, CallType
  <2> QED
    BY <2>1, <2>2, AcquireBuckets, AcquireKeeps
<1>2. CASE \E t \in Tasks : Answered(t)
  <2>1. UNCHANGED <<tokens, lag, burst>>
    BY <1>2 DEF Answered
  <2> QED
    BY <1>2, <2>1, AnsweredKeeps DEF Refilled
<1>3. CASE \E t \in Tasks : Return(t)
  <2>1. UNCHANGED <<tokens, lag, burst>>
    BY <1>3 DEF Return
  <2> QED
    BY <1>3, <2>1, ReturnKeeps DEF Refilled
<1>4. CASE \E t \in Tasks, op \in Ops : Begin(t, op)
  <2>1. UNCHANGED <<tokens, lag, burst>>
    BY <1>4 DEF Begin
  <2> QED
    BY <1>4, <2>1, BeginKeeps DEF Refilled
<1>5. CASE Tick
  BY <1>5, TickBuckets, TickKeeps
<1>6. CASE UNCHANGED vars
  BY <1>6 DEF vars, Refilled, Sounds, Sound
<1> QED
  BY <1>1, <1>2, <1>3, <1>4, <1>5, <1>6 DEF Next

LEMMA Always == Spec => []IInv
  BY Initially, Stepped, PTL DEF Spec

\* The variables have their types, and no bucket overflows.
THEOREM TypeCorrect == Spec => []TypeOK
<1>1. IInv => TypeOK
  BY DEF IInv
<1> QED
  BY Always, <1>1, PTL

\* However many coroutines share a bucket, no stretch of time lets more calls
\* through than its capacity and its refill allow.
THEOREM BurstsAreBounded == Spec => []BurstBound
<1>1. IInv => BurstBound
  <2> SUFFICES ASSUME IInv, NEW b \in Buckets PROVE burst[b] <= Capacity[b]
    BY DEF BurstBound
  <2>1. Refilled(b) \in Nat /\ burst[b] \in Nat /\ Capacity[b] \in Nat
    BY RefillFacts, Parts, BucketFacts DEF BucketType
  <2> QED
    BY <2>1 DEF IInv, Balance
<1> QED
  BY Always, <1>1, PTL

\* How an order call ends tells what became of the order, but for what a server
\* error hides.
THEOREM OutcomesAreTold == Spec => []OutcomeTold
<1>1. IInv => OutcomeTold
  BY DEF IInv
<1> QED
  BY Always, <1>1, PTL
=============================================================================
