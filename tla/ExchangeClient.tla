---------------------------- MODULE ExchangeClient ----------------------------
(* How src/exchange/upbit_client.py sends a request: a token of a bucket       *)
(* (src/exchange/rate_limiter.py) for the first attempt, then attempts with    *)
(* waits between them. The exchange may carry out a request and lose its       *)
(* answer, or answer a server error for it.                                    *)
(*                                                                             *)
(* Time is discrete; the fraction of a token refilled in one tick is the unit  *)
(* tokens are counted in. What is asked for and answered is abstracted to      *)
(* whether an order request was carried out.                                   *)
EXTENDS Naturals

CONSTANTS Tasks,          \* the coroutines that call the client
          ExchangeBurst,  \* capacity of the exchange bucket, in units
          ExchangeCost,   \* ticks in which the exchange bucket gains one token
          QuoteBurst,     \* the same of the quotation bucket
          QuoteCost,
          BaseDelay,      \* backoff_base_seconds, in ticks
          MaxDelay,       \* backoff_max_seconds, in ticks
          MaxRetries,     \* backoff_max_retries
          RetryAfters     \* values of the Retry-After header, in ticks

ASSUME ClientAssumption ==
  /\ ExchangeCost \in Nat \ {0} /\ QuoteCost \in Nat \ {0}
  /\ ExchangeBurst \in Nat /\ ExchangeCost <= ExchangeBurst
  /\ QuoteBurst \in Nat /\ QuoteCost <= QuoteBurst
  /\ BaseDelay \in Nat /\ MaxDelay \in Nat /\ MaxRetries \in Nat
  /\ RetryAfters \subseteq Nat

VARIABLES
  tokens,  \* per bucket: _tokens
  lag,     \* per bucket: the time since _last_refill, as far as it matters
  call,    \* per task: the request it is making
  burst    \* history, per bucket: a level that rises by the price of each
           \* token taken and falls with time, never below 0

vars == <<tokens, lag, call, burst>>

Buckets == {"exchange", "quotation"}
Capacity == [b \in Buckets |-> IF b = "exchange" THEN ExchangeBurst ELSE QuoteBurst]
Cost == [b \in Buckets |-> IF b = "exchange" THEN ExchangeCost ELSE QuoteCost]

Ops == {"quote", "account", "order", "cancel"}
BucketOf(op) == IF op = "quote" THEN "quotation" ELSE "exchange"
\* The requests that change something at the exchange.
Effective == {"order", "cancel"}

Least(a, b) == IF a < b THEN a ELSE b
Less(a, b) == IF a > b THEN a - b ELSE 0

Results == {"ok", "rejected", "lost", "gave_up"}
Idle == [at |-> "idle", op |-> "quote", timer |-> 0, attempt |-> 0,
         done |-> 0, hidden |-> 0, result |-> "ok"]

Init ==
  /\ tokens = Capacity
  /\ lag = [b \in Buckets |-> 0]
  /\ call = [t \in Tasks |-> Idle]
  /\ burst = [b \in Buckets |-> 0]

-----------------------------------------------------------------------------
(* TokenBucket *)

\* Mutant: the bucket fills beyond its capacity.
RefilledOver(b) == tokens[b] + lag[b]

\* Mutant: a refill that is not worth a whole token is thrown away.
RefilledWhole(b) ==
  Least(Capacity[b], tokens[b] + IF lag[b] < Cost[b] THEN 0 ELSE lag[b])

\* _refill
Refilled(b) == Least(Capacity[b], tokens[b] + lag[b])

Begin(t, op) ==
  /\ call[t].at = "idle"
  /\ call' = [call EXCEPT ![t] = [Idle EXCEPT !.at = "acquire", !.op = op]]
  /\ UNCHANGED <<tokens, lag, burst>>

\* One pass of acquire under the lock: nothing is awaited between the refill
\* and the decision.
Acquire(t) ==
  LET b == BucketOf(call[t].op) IN
  /\ call[t].at = "acquire" /\ call[t].timer = 0
  /\ lag' = [lag EXCEPT ![b] = 0]
  /\ \/ /\ Refilled(b) >= Cost[b]
        /\ tokens' = [tokens EXCEPT ![b] = Refilled(b) - Cost[b]]
        /\ call' = [call EXCEPT ![t].at = "send"]
        /\ burst' = [burst EXCEPT ![b] = @ + Cost[b]]
     \/ /\ Refilled(b) < Cost[b]
        /\ tokens' = [tokens EXCEPT ![b] = Refilled(b)]
        /\ call' = [call EXCEPT ![t].timer = Cost[b] - Refilled(b)]
        /\ UNCHANGED burst

-----------------------------------------------------------------------------
(* ExponentialBackoff.execute around the request and _handle_response *)

\* get_delay: a tenth more or less than the delay, in whole ticks
Delays(attempt) ==
  LET d == Least(BaseDelay * 2^attempt, MaxDelay) IN
  {n \in 0..2 * MaxDelay : 9 * d <= 10 * n + 9 /\ 10 * n <= 11 * d + 9}

\* An order is carried out each time it is asked for, a cancellation once.
Carried(c) == IF c.op = "order" \/ (c.op = "cancel" /\ c.done = 0)
              THEN {c.done, c.done + 1} ELSE {c.done}

Ends(c, result) == [c EXCEPT !.at = "ended", !.result = result]

\* Mutant: a retry does not count as an attempt.
RetryUncounted(c, delays) == {[c EXCEPT !.timer = d] : d \in delays}

Retry(c, delays) ==
  IF c.attempt >= MaxRetries THEN {Ends(c, "gave_up")}
  ELSE {[c EXCEPT !.timer = d, !.attempt = c.attempt + 1] : d \in delays}

\* The answer is good: the request was carried out, if it can be.
Good(c) ==
  {Ends([c EXCEPT !.done = n], "ok") :
     n \in {n \in Carried(c) : c.op \in Effective => n > c.done}}

\* 4xx, a ValueError: it was not carried out.
ClientError(c) == {Ends(c, "rejected")}

\* 429: it was not carried out. A Retry-After of 0 means the own delay.
TooMany(c) ==
  Retry(c, UNION {IF r = 0 THEN Delays(c.attempt) ELSE {r} : r \in RetryAfters})

\* 5xx: it may have been carried out.
ServerError(c) ==
  UNION {Retry([c EXCEPT !.done = n, !.hidden = @ + (n - c.done)], Delays(c.attempt)) :
           n \in Carried(c)}

\* Mutant: whatever fails is tried again.
NoAnswerRetried(c) ==
  UNION {Retry([c EXCEPT !.done = n], Delays(c.attempt)) : n \in Carried(c)}

\* No answer in time, or none that can be read: not one of the two exceptions.
NoAnswer(c) == {Ends([c EXCEPT !.done = n], "lost") : n \in Carried(c)}

Answered(t) ==
  /\ call[t].at = "send" /\ call[t].timer = 0
  /\ \E c \in Good(call[t]) \union ClientError(call[t]) \union TooMany(call[t])
              \union ServerError(call[t]) \union NoAnswer(call[t]) :
       call' = [call EXCEPT ![t] = c]
  /\ UNCHANGED <<tokens, lag, burst>>

Return(t) ==
  /\ call[t].at = "ended"
  /\ call' = [call EXCEPT ![t] = Idle]
  /\ UNCHANGED <<tokens, lag, burst>>

Tick ==
  /\ lag' = [b \in Buckets |-> Least(Capacity[b], lag[b] + 1)]
  /\ burst' = [b \in Buckets |-> Less(burst[b], 1)]
  /\ call' = [t \in Tasks |-> [call[t] EXCEPT !.timer = Less(@, 1)]]
  /\ UNCHANGED tokens

Next ==
  \/ \E t \in Tasks : Acquire(t) \/ Answered(t) \/ Return(t) \/ \E op \in Ops : Begin(t, op)
  \/ Tick

Spec == Init /\ [][Next]_vars

\* The event loop runs what is due, a request ends within the session's total
\* timeout, and time passes.
FairSpec == /\ Spec /\ WF_vars(Tick)
            /\ \A t \in Tasks : WF_vars(Acquire(t)) /\ WF_vars(Answered(t))

-----------------------------------------------------------------------------
(* Properties *)

CallType ==
  [at : {"idle", "acquire", "send", "ended"}, op : Ops, timer : Nat,
   attempt : 0..MaxRetries, done : Nat, hidden : Nat, result : Results]

\* The variables have their types; no bucket holds more than its capacity.
TypeOK ==
  /\ tokens \in [Buckets -> Nat] /\ \A b \in Buckets : tokens[b] <= Capacity[b]
  /\ lag \in [Buckets -> Nat] /\ \A b \in Buckets : lag[b] <= Capacity[b]
  /\ call \in [Tasks -> CallType]
  /\ burst \in [Buckets -> Nat]

\* In any stretch of time, however many coroutines share the bucket, the calls
\* let through cost at most its capacity and what the stretch refills: the
\* level that each call raises by its price and time lowers never passes the
\* capacity. (Retries take no token and are not counted.)
BurstBound == \A b \in Buckets : burst[b] <= Capacity[b]

\* What the trader may conclude from how an order call ends: the order was
\* placed if it succeeds and was not if the exchange rejects it, and no call
\* places two, apart from orders the exchange took and answered with a server
\* error (done counts what was carried out, hidden that behind a server error).
\* An answer that is merely lost never doubles an order.
OutcomeTold ==
  \A t \in Tasks :
    LET c == call[t] IN
    c.at = "ended" /\ c.op \in Effective =>
      /\ c.result = "ok" => c.done >= 1
      /\ c.done <= c.hidden + 1
      /\ c.result = "rejected" => c.done = c.hidden

\* Whenever a coroutine waits for a token, one of those that share the bucket
\* is let through in the end.
BucketServes ==
  \A b \in Buckets :
    (\E t \in Tasks : call[t].at = "acquire" /\ BucketOf(call[t].op) = b)
      ~> (\E t \in Tasks : call[t].at = "send" /\ BucketOf(call[t].op) = b)

\* A call that has its token ends, with an answer or an exception.
CallEnds == \A t \in Tasks : call[t].at = "send" ~> call[t].at = "ended"
=============================================================================
