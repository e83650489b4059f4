------------------------------- MODULE Backtest -------------------------------
(* A backtest: one strategy's signals (Strategies) executed bar by bar by      *)
(* src/backtest/engine.py with portfolio.py (the bot's /backtest and           *)
(* run_backtest.py, any strategy) or by engine_ls.py (run_backtest_ls.py, only *)
(* pyramid_breakout_ls). The code computes all signals first and then walks    *)
(* the bars; both loops go forward, so a step here does both for one bar.      *)
(*                                                                             *)
(* Fills are those of ConservativeSlippage. Money is whole and a coin has      *)
(* Grain parts, where the code has floats; money that pays more than the fee   *)
(* buys at least one part, as in the code. Quantities and values are rounded   *)
(* against the portfolio. The trade records are summed up.                     *)
EXTENDS Strategies, FiniteSets

CONSTANTS Names,      \* the strategies to run
          Closes,     \* closing prices, even
          Capital,    \* initial_capital
          FeePct,     \* the fee rate
          Grain,      \* the parts of a coin
          MaxBars,    \* bound on the length of the history
          MaxMoody    \* the same for a strategy that looks at indicators

ASSUME BacktestAssumption ==
  /\ Names \subseteq {"pyramid_breakout", "pyramid_breakout_ls", "breakout_n", "trend_follow",
                      "ma_cross", "turtle", "momentum", "mean_reversion"}
  /\ Closes \subseteq Nat \ {0} /\ \A c \in Closes : c % 2 = 0 /\ Unit % c = 0
  /\ Grain \in Nat \ {0} /\ \A c \in Closes : 2 * c <= Grain
  /\ Capital \in Nat /\ FeePct \in 0..99 /\ MaxBars \in Nat /\ MaxMoody \in Nat

VARIABLES
  name,   \* the strategy
  engine, \* "long": BacktestEngine; "ls": LSBacktestEngine
  past,   \* the bars so far, as many as the strategy looks back
  n,      \* how many there were
  s,      \* what generate_signals remembers
  ind,    \* what the copy in get_indicators of pyramid_breakout remembers
  p       \* the portfolio, and the sums of the trade records

vars == <<name, engine, past, n, s, ind, p>>

\* A bar is calm or moves half its close to both sides.
Bar(c, wild, trend, level, atr) ==
  [close |-> c, high |-> IF wild THEN c + c \div 2 ELSE c,
   low |-> IF wild THEN c \div 2 ELSE c, trend |-> trend, level |-> level, atr |-> atr]

\* The indicators that a strategy tells apart, as <<trend, level, atr>>.
Moods(strategy) ==
  CASE strategy = "ma_cross"       -> {-1, 0, 1} \X {0} \X {0}
    [] strategy = "momentum"       -> {<<1, -1, 0>>, <<-1, 1, 0>>, <<1, 1, 0>>}
    [] strategy = "mean_reversion" -> {0} \X {-1, 0, 1} \X {0}
    [] strategy = "turtle"         -> {0} \X {0} \X {2, 4}
    [] OTHER                       -> {<<0, 0, 0>>}

Bars(strategy) ==
  {Bar(c, wild, i[1], i[2], i[3]) : c \in Closes, wild \in BOOLEAN, i \in Moods(strategy)}
Bound(strategy) == IF Cardinality(Moods(strategy)) > 1 THEN MaxMoody ELSE MaxBars

\* How far a strategy looks back; the last bar is kept in any case.
LookBack(strategy) == CASE strategy = "breakout_n" -> Window
                        [] strategy = "turtle" -> Most(EntryPeriod + 1, AtrPeriod)
                        [] OTHER -> 1
Kept(strategy, bars) == IF Len(bars) > LookBack(strategy) THEN Tail(bars) ELSE bars

-----------------------------------------------------------------------------
(* ConservativeSlippage and FeeSchedule *)

\* Mutant: a purchase is filled on the cheap side.
BuyPriceLow(b) == (b.close + b.low) \div 2

BuyPrice(b) == (b.close + b.high) \div 2

SellPrice(b) == (b.close + b.low) \div 2

Fee(value) == (value * FeePct) \div 100

\* What money buys, and what it takes to be worth that money.
Coins(money, price) == (money * Grain) \div price
CoinsFor(money, price) == (money * Grain + price - 1) \div price

\* What a quantity brings, and what it costs.
Value(qty, price) == (qty * price) \div Grain
Cost(qty, price) == (qty * price + Grain - 1) \div Grain

-----------------------------------------------------------------------------
(* Portfolio and BacktestEngine.run. basis is _avg_price times the quantity,   *)
(* open the entry fee of the open position; pnl and fees are the sums of pnl   *)
(* and of the entry fees over the trade records.                               *)

Empty == [cash |-> Capital, qty |-> 0, basis |-> 0, open |-> 0,
          sqty |-> 0, sbasis |-> 0, sopen |-> 0, pnl |-> 0, fees |-> 0]

\* enter_long: a cost above the cash means the quantity the cash buys.
EnterLong(q, price, qty, cost, fee) ==
  IF cost > q.cash
  THEN [q EXCEPT !.cash = 0, !.qty = Coins(q.cash - fee, price), !.basis = q.cash - fee,
                 !.open = fee]
  ELSE [q EXCEPT !.cash = @ - cost, !.qty = qty, !.basis = cost - fee, !.open = fee]

\* Mutant: the fee of the sale is booked but not paid.
ExitLongFree(q, price) ==
  LET gross == Value(q.qty, price) IN
  [q EXCEPT !.cash = @ + gross, !.qty = 0, !.basis = 0, !.open = 0,
            !.pnl = @ + gross - Fee(gross) - q.basis, !.fees = @ + q.open]

\* exit_long and the trade record
ExitLong(q, price) ==
  LET gross == Value(q.qty, price) IN
  [q EXCEPT !.cash = @ + gross - Fee(gross), !.qty = 0, !.basis = 0, !.open = 0,
            !.pnl = @ + gross - Fee(gross) - q.basis, !.fees = @ + q.open]

\* All the cash is spent: what max_quantity times 1 - rate costs with the fee is
\* the cash itself, which rounding may carry over (over) what there is.
LongEngine(q, signal, b, over) ==
  LET fee == Fee(q.cash)
      qty == Coins(q.cash - fee, BuyPrice(b))
  IN
  CASE signal = "buy" /\ q.qty = 0 /\ qty > 0 ->
         EnterLong(q, BuyPrice(b), qty, q.cash + over, fee)
    [] signal = "sell" /\ q.qty > 0 -> ExitLong(q, SellPrice(b))
    [] OTHER -> q

-----------------------------------------------------------------------------
(* _LSPortfolio and LSBacktestEngine.run: a unit at a time, the fee is that of *)
(* a whole unit. A short sale commits its value as a margin.                   *)

Size(q) == Least(Unit, q.cash)

\* Mutant: money that does not pay the fee buys a negative quantity.
NetUnpaid(q) == Size(q) - Fee(Unit)

\* What is left for coins; a quantity of nothing or less is not bought.
Net(q) == IF Size(q) > Fee(Unit) THEN Size(q) - Fee(Unit) ELSE 0

AddLong(q, price) ==
  IF Net(q) = 0 THEN q
  ELSE [q EXCEPT !.cash = @ - Net(q) - Fee(Unit), !.qty = @ + Coins(Net(q), price),
                 !.basis = @ + Net(q), !.open = @ + Fee(Unit)]

AddShort(q, price) ==
  IF Net(q) = 0 THEN q
  ELSE [q EXCEPT !.cash = @ - Net(q) - Fee(Unit), !.sqty = @ + CoinsFor(Net(q), price),
                 !.sbasis = @ + Net(q), !.sopen = @ + Fee(Unit)]

\* Mutant: the quantity stays after the position is closed.
ExitShortKept(q, price) ==
  LET gain == q.sbasis - Cost(q.sqty, price)
      fee == Fee(Cost(q.sqty, price))
  IN
  [q EXCEPT !.cash = @ + q.sbasis + gain - fee, !.sbasis = 0, !.sopen = 0,
            !.pnl = @ + gain - fee, !.fees = @ + q.sopen]

\* exit_short: the margin comes back with the gain or less the loss.
ExitShort(q, price) ==
  LET gain == q.sbasis - Cost(q.sqty, price)
      fee == Fee(Cost(q.sqty, price))
  IN
  [q EXCEPT !.cash = @ + q.sbasis + gain - fee, !.sqty = 0, !.sbasis = 0, !.sopen = 0,
            !.pnl = @ + gain - fee, !.fees = @ + q.sopen]

LSEngine(q, signal, b) ==
  CASE signal = "buy" /\ q.cash > 0    -> AddLong(q, BuyPrice(b))
    [] signal = "sell" /\ q.qty > 0    -> ExitLong(q, SellPrice(b))
    [] signal = "short" /\ q.cash > 0  -> AddShort(q, SellPrice(b))
    [] signal = "cover" /\ q.sqty > 0  -> ExitShort(q, BuyPrice(b))
    [] OTHER -> q

\* total_equity of both portfolios: the margin of a short sale is no part of it.
TotalEquity(q, price) ==
  q.cash + Value(q.qty, price) + (q.sbasis - Cost(q.sqty, price))

-----------------------------------------------------------------------------

Engine(kind, q, signal, b, over) ==
  IF kind = "ls" THEN LSEngine(q, signal, b) ELSE LongEngine(q, signal, b, over)

Step(strategy, x, bars, b) ==
  CASE strategy = "pyramid_breakout"    -> PyramidStep(x, b.close)
    [] strategy = "pyramid_breakout_ls" -> LSStep(x, b.close)
    [] strategy = "breakout_n"          -> BreakoutStep(x, bars, b)
    [] strategy = "trend_follow"        -> TrendStep(x, b)
    [] strategy = "ma_cross"            -> CrossStep(x, bars, b)
    [] strategy = "turtle"              -> TurtleStep(x, bars, b)
    [] strategy = "momentum"            -> MomentumStep(x, b)
    [] strategy = "mean_reversion"      -> ReversionStep(x, bars, b)

\* The first bar only seeds the low and the high. (momentum looks at it too;
\* its indicators are not there yet.)
Init ==
  /\ name \in Names
  /\ engine \in IF name = "pyramid_breakout_ls" THEN {"long", "ls"} ELSE {"long"}
  /\ \E b \in Bars(name) : past = <<b>> /\ s = Fresh(b.close)
  /\ ind = s /\ n = 1 /\ p = Empty

OneBar ==
  /\ n < Bound(name) /\ n' = n + 1
  /\ \E b \in Bars(name) :
       /\ past' = Kept(name, Append(past, b))
       /\ s' = Step(name, s, past, b)
       /\ ind' = IF name = "pyramid_breakout" THEN IndicatorStep(ind, b.close) ELSE ind
       /\ \E over \in {0, 1} : p' = Engine(engine, p, s'.signal, b, over)
  /\ UNCHANGED <<name, engine>>

Spec == Init /\ [][OneBar]_vars

-----------------------------------------------------------------------------
(* Properties *)

Now == past[Len(past)]
Pyramids == {"pyramid_breakout", "pyramid_breakout_ls"}
Memoryless == {"momentum", "mean_reversion"}

\* The variables have their types.
TypeOK ==
  /\ name \in Names /\ engine \in {"long", "ls"} /\ n \in Nat /\ Len(past) \in 1..LookBack(name)
  /\ s.pos \in {"none", "long", "short"}
  /\ s.signal \in {"hold", "buy", "sell", "short", "cover"}
  /\ p \in [cash : Int, qty : Nat, basis : Nat, open : Nat, sqty : Nat, sbasis : Nat,
            sopen : Nat, pnl : Int, fees : Nat]

\* The cash pays no more than the fee of a unit, or there is none.
Broke(kind, q) == IF kind = "ls" THEN Size(q) <= Fee(Unit) ELSE q.cash <= 0

\* The signals are computed as if every one were executed, without the
\* portfolio. The two stay together: the portfolio holds a position exactly
\* while the strategy believes in one, on the same side, except that the cash
\* may not pay for it, and that BacktestEngine knows no short positions.
InStep ==
  name \notin Memoryless =>
    /\ (p.qty > 0) => s.pos = "long"
    /\ (p.sqty > 0) => s.pos = "short"
    /\ s.pos = "long" => p.qty > 0 \/ Broke(engine, p)
    /\ s.pos = "short" /\ engine = "ls" => p.sqty > 0 \/ Broke(engine, p)

\* The trade records explain the money: at every bar the cash is the capital
\* and the records' profits, less the entry fees (which the records count
\* apart) and what is bound in the open position. A purchase with all the cash
\* never overdraws it, however its cost is rounded (enter_long).
RecordsAddUp ==
  /\ p.cash = Capital + p.pnl - p.fees - p.open - p.sopen - p.basis - p.sbasis
  /\ engine = "long" => p.cash >= 0

\* What closing everything at a price without fees would leave: the equity, and
\* the margin that a short sale has committed and exit_short gives back.
Worth(q, price) == TotalEquity(q, price) + q.sbasis

NowNext == past'[Len(past')].close

\* Fills are conservative (slippage.py: a price worse than the close): whatever
\* the signal, executing it never leaves more at the close of its bar.
FillsNeverProfit == [][Worth(p', NowNext) <= Worth(p, NowNext)]_vars

\* A pyramid never has more adds than the levels its peak has passed.
AddsWithinPeak ==
  /\ s.pos = "long" /\ name \in Pyramids => s.entry * (100 + AddPct * s.adds) <= s.peak * 100
  /\ s.pos = "short" => s.peak * 100 + s.entry * AddPct * s.adds <= s.entry * 100

\* A position that is still held after a bar is not at its stop: an add moves
\* the average and the stop line with it, but never past the price; and no low
\* of a later bar has touched the stop of the strategies that look at lows,
\* no close the turtle's stop. (momentum and mean_reversion have none.)
HeldAboveStop ==
  /\ name \in Pyramids =>
       /\ s.pos = "long" => ~LongStopped(s, Now.close)
       /\ s.pos = "short" => ~ShortStopped(s, Now.close)
  /\ name \in {"breakout_n", "trend_follow", "ma_cross"} =>
       (s.pos = "long" /\ s.signal # "buy" => Now.low * 100 > s.entry * (100 - StopPct))
  /\ name = "turtle" =>
       (s.pos = "long" /\ s.signal # "buy" => Now.close + StopMult * Now.atr >= s.entry)

\* The loop that get_indicators copies agrees with generate_signals at every
\* bar: a position at the same time, else the same low and entry level.
IndicatorsAgree ==
  name = "pyramid_breakout" =>
    /\ ind.pos = s.pos
    /\ s.pos = "none" => ind.low = s.low
=============================================================================
