----------------------------- MODULE MarketRounds -----------------------------
(* The rounds of the market loop and the strategy loop of src/core/trader.py.  *)
(* Both take the active markets once, in the order of their names, and await   *)
(* something for each; an exception ends the round. Meanwhile the monitor loop *)
(* changes the lists (SurgeDetection), the kill switch blocks markets, and the *)
(* operator reloads the settings.                                              *)
(*                                                                             *)
(* What a decision rests on and what an order does are in Trader.              *)
EXTENDS Naturals, FiniteSets

CONSTANTS Markets,      \* numbered in the order of their names
          Broken,       \* held coins whose candles the exchange always refuses
          Listable,     \* markets that may be base markets
          Surgeable,    \* markets that may surge
          MaxReloads,   \* bound on reloads of the settings
          MaxFaults     \* bound on other exceptions

ASSUME RoundsAssumption ==
  /\ Markets \subseteq Nat /\ IsFiniteSet(Markets)
  /\ Broken \subseteq Markets /\ Listable \subseteq Markets /\ Surgeable \subseteq Markets
  /\ MaxReloads \in Nat /\ MaxFaults \in Nat

VARIABLES
  lists,    \* the base markets, the surge markets not expired, and whether
            \* the detection is active
  held,     \* _held_markets
  blocked,  \* the markets is_market_blocked answers yes for (Broken ones have
            \* no candles and are passed over in any case)
  candles,  \* the markets with 50 candles or more in _latest_candles
  mk,       \* the market loop: the markets left, the first being fetched
  st,       \* the strategy loop: the market in hand, and its local variables
  offered,  \* history: the buy targets at any time since the round began
  used      \* reloads and exceptions spent

vars == <<lists, held, blocked, candles, mk, st, offered, used>>

\* The first market in the order of the names.
First(S) == CHOOSE m \in S : \A n \in S : m <= n

\* _buy_target_markets
Target(l) == l.base \union IF l.on THEN l.surge ELSE {}

\* Mutant: markets that are only held are not active.
ActiveTargets == Target(lists)

\* _active_markets
Active == Target(lists) \union held

Resting == [at |-> "sleep", m |-> 0, todo |-> {}, target |-> {}]

Init ==
  /\ lists \in [base : SUBSET Listable, surge : {{}}, on : BOOLEAN]
  /\ held \in SUBSET Markets
  /\ blocked = {} /\ candles = {}
  /\ mk = {} /\ st = Resting
  /\ offered = {}
  /\ used = [reloads |-> 0, faults |-> 0]

Fault == used.faults < MaxFaults /\ used' = [used EXCEPT !.faults = @ + 1]

-----------------------------------------------------------------------------
(* The market loop *)

MarketRound ==
  /\ mk = {} /\ mk' = Active
  /\ UNCHANGED <<lists, held, blocked, candles, st, offered, used>>

\* An empty answer keeps what is there.
Fetched ==
  /\ mk # {} /\ First(mk) \notin Broken
  /\ candles' \in {candles, candles \union {First(mk)}}
  /\ mk' = mk \ {First(mk)}
  /\ UNCHANGED <<lists, held, blocked, st, offered, used>>

\* market_loop_error: the loop sleeps and starts from the first market.
FetchFails ==
  /\ mk # {}
  /\ \/ First(mk) \in Broken /\ UNCHANGED used
     \/ Fault
  /\ mk' = {}
  /\ UNCHANGED <<lists, held, blocked, candles, st, offered>>

MarketLoop == MarketRound \/ Fetched \/ FetchFails

-----------------------------------------------------------------------------
(* The strategy loop. Markets that are blocked or lack candles are passed over *)
(* without an await.                                                           *)

\* Mutant: an order ends the round.
OnwardUntilOrder(target, todo) ==
  LET ready == {m \in todo : m \in candles /\ m \notin blocked} IN
  IF ready = {} \/ st.at \in {"buy", "sell"} THEN Resting
  ELSE [at |-> "decide", m |-> First(ready), target |-> target,
        todo |-> {m \in todo : First(ready) < m}]

\* Mutant: the market in hand stays among those to come.
OnwardAgain(target, todo) ==
  LET ready == {m \in todo : m \in candles /\ m \notin blocked} IN
  IF ready = {} THEN Resting
  ELSE [at |-> "decide", m |-> First(ready), target |-> target,
        todo |-> {m \in todo : First(ready) <= m}]

Onward(target, todo) ==
  LET ready == {m \in todo : m \in candles /\ m \notin blocked} IN
  IF ready = {} THEN Resting
  ELSE [at |-> "decide", m |-> First(ready), target |-> target,
        todo |-> {m \in todo : First(ready) < m}]

\* Mutant: the surge markets count whatever the flag says.
RoundBeginsFlagless ==
  /\ st.at = "sleep"
  /\ st' = Onward(lists.base \union lists.surge, Active \union lists.surge)
  /\ offered' = Target(lists)
  /\ UNCHANGED <<lists, held, blocked, candles, mk, used>>

RoundBegins ==
  /\ st.at = "sleep"
  /\ st' = Onward(Target(lists), Active)
  /\ offered' = Target(lists)
  /\ UNCHANGED <<lists, held, blocked, candles, mk, used>>

\* HOLD, or a low confidence.
Holds ==
  /\ st.at = "decide" /\ st' = Onward(st.target, st.todo)
  /\ UNCHANGED <<lists, held, blocked, candles, mk, offered, used>>

\* BUY or SELL: the balances are asked for.
Decided ==
  /\ st.at = "decide"
  /\ \E order \in {"buy", "sell"} : st' = [st EXCEPT !.at = order]
  /\ UNCHANGED <<lists, held, blocked, candles, mk, offered, used>>

\* strategy_loop_error
DecisionFails ==
  /\ st.at = "decide" /\ Fault /\ st' = Resting
  /\ UNCHANGED <<lists, held, blocked, candles, mk, offered>>

\* _execute_decision: allow_buy was fixed when the round began.
Buys ==
  /\ st.at = "buy" /\ st.m \in st.target
  /\ held' = held \union {st.m}
  /\ st' = Onward(st.target, st.todo)
  /\ UNCHANGED <<lists, blocked, candles, mk, offered, used>>

\* A sale, which leaves the coin in _held_markets until the monitor loop reads
\* the balances; or no order: not allowed, too small, or an error, which
\* _execute_decision catches.
NoBuy ==
  /\ st.at \in {"buy", "sell"} /\ st' = Onward(st.target, st.todo)
  /\ UNCHANGED <<lists, held, blocked, candles, mk, offered, used>>

StrategyLoop ==
  RoundBegins \/ Holds \/ Decided \/ DecisionFails \/ Buys \/ NoBuy

-----------------------------------------------------------------------------
(* The others *)

\* The lists are refreshed, or an expiry passes.
Relisted ==
  /\ lists' \in [base : SUBSET Listable, surge : SUBSET Surgeable, on : {lists.on}]
  /\ offered' = offered \union Target(lists')
  /\ UNCHANGED <<held, blocked, candles, mk, st, used>>

\* reload_settings switches the detection or the mode, and so the base markets.
Reload ==
  /\ used.reloads < MaxReloads /\ used' = [used EXCEPT !.reloads = @ + 1]
  /\ lists' \in [base : SUBSET Listable, surge : {lists.surge}, on : {~lists.on}]
  /\ offered' = offered \union Target(lists')
  /\ UNCHANGED <<held, blocked, candles, mk, st>>

\* The monitor loop reads the balances; coins also come and go by other ways
\* than the bot's orders.
Balanced ==
  /\ held' \in SUBSET Markets
  /\ UNCHANGED <<lists, blocked, candles, mk, st, offered, used>>

\* The kill switch blocks a market or halts all, or is reset.
Gate ==
  /\ blocked' \in SUBSET (Markets \ Broken)
  /\ UNCHANGED <<lists, held, candles, mk, st, offered, used>>

Others == Relisted \/ Reload \/ Balanced \/ Gate

Next == MarketLoop \/ StrategyLoop \/ Others

Spec == Init /\ [][Next]_vars

\* Each loop is a while with a sleep, and each request ends by an answer or a
\* timeout.
FairSpec == Spec /\ WF_vars(MarketLoop) /\ WF_vars(StrategyLoop)

-----------------------------------------------------------------------------

(* The types of the variables: among others, the market in hand is one, and    *)
(* those left come after it.                                                   *)
TypeOK ==
  /\ lists \in [base : SUBSET Listable, surge : SUBSET Surgeable, on : BOOLEAN]
  /\ held \subseteq Markets
  /\ blocked \subseteq Markets /\ candles \subseteq Markets \ Broken
  /\ mk \subseteq Markets /\ offered \subseteq Markets
  /\ st \in [at : {"sleep", "decide", "buy", "sell"}, m : Markets \union {0},
             todo : SUBSET Markets, target : SUBSET Markets]
  /\ st.at # "sleep" => st.m \in Markets /\ \A m \in st.todo : st.m < m
  /\ used \in [reloads : 0..MaxReloads, faults : 0..MaxFaults]

(* The comment on _active_markets: a coin that is held is watched, also when   *)
(* it is no base market. Its candles are asked for again and again, whatever   *)
(* the other markets do, unless one that comes before it is watched and its    *)
(* candles are always refused: the exception ends each round there.            *)
HeldWatched ==
  \A m \in Markets :
    <>[](m \in held /\ \A b \in Active \cap Broken : m <= b)
      => []<>(mk # {} /\ First(mk) = m)

(* A coin that is held, with candles, is decided on again and again unless the *)
(* kill switch blocks it: without that no stop-loss is ever looked at.         *)
HeldJudged ==
  \A m \in Markets :
    <>[](m \in held \cap candles /\ m \notin blocked)
      => []<>(st.at = "decide" /\ st.m = m)

(* A buy is ordered only of a market that was a buy target at some time since  *)
(* the round began. docs/architecture.md has surge markets lose the permission *)
(* at once when the detection is switched off; the round under way still uses  *)
(* the targets it began with, and no later round does.                         *)
BuysWereTargets == [][Buys => st.m \in offered]_vars
=============================================================================
