------------------------------ MODULE Strategies ------------------------------
(* The signal automata of src/strategy/. generate_signals folds a step over    *)
(* the bars; a definition here is that step: from what the loop remembers (s), *)
(* the bars before (past, the last being the bar before) and the bar b, to     *)
(* what it remembers then, with the signal of the bar.                         *)
(*                                                                             *)
(* Prices are whole numbers and percentages are compared without division. The *)
(* average price cost/vol of a pyramid stays a fraction: a unit of money that  *)
(* every close divides buys a whole number of pieces. Indicators of TA-Lib and *)
(* the moving averages are part of the bar: trend is the sign of fast - slow   *)
(* (MACD - signal), level is -1 below and 1 above the bands (RSI thresholds),  *)
(* atr is the ATR.                                                             *)
EXTENDS Integers, Sequences

CONSTANTS EntryPct, StopPct, TrailPct, AddPct, ProfitPct,
          Unit,         \* unit_amount, a multiple of every close
          Window,       \* window of breakout_n
          EntryPeriod, ExitPeriod, AtrPeriod, StopMult, UseFilter,  \* turtle
          MaExit        \* ma_exit of ma_cross

ASSUME StrategyAssumption ==
  /\ EntryPct \in 1..99 /\ StopPct \in 1..99 /\ TrailPct \in 0..99
  /\ AddPct \in 1..99 /\ ProfitPct \in 0..99
  /\ Unit \in Nat \ {0}
  /\ Window \in Nat /\ Window >= 2
  /\ EntryPeriod \in Nat /\ ExitPeriod \in Nat \ {0} /\ ExitPeriod < EntryPeriod
  /\ AtrPeriod \in Nat /\ StopMult \in Nat
  /\ UseFilter \in BOOLEAN /\ MaExit \in BOOLEAN

Least(a, b) == IF a < b THEN a ELSE b
Most(a, b) == IF a > b THEN a ELSE b

\* The last n of the bars s.
Recent(s, n) == {s[i] : i \in (Len(s) - n + 1)..Len(s)}

\* Before the second bar: no position, the first close is low and high.
Fresh(c) == [pos |-> "none", entry |-> 0, cost |-> 0, vol |-> 0, peak |-> 0,
             low |-> c, high |-> c, adds |-> 0, won |-> FALSE, signal |-> "hold"]

-----------------------------------------------------------------------------
(* pyramid_breakout *)

Rises(base, c) == c * 100 >= base * (100 + EntryPct)
Falls(base, c) == c * 100 <= base * (100 - EntryPct)

\* Averages are compared times vol: c <= cost/vol * (1 - stop).
LongStopped(s, c) == c * s.vol * 100 <= s.cost * (100 - StopPct)
LongTrailed(s, c) == /\ s.peak * s.vol * (100 - TrailPct) > s.cost * 100
                     /\ c * 100 <= s.peak * (100 - TrailPct)
LongExit(s, c) == LongStopped(s, c) \/ LongTrailed(s, c)
LongAdds(s, c) == c * 100 >= s.entry * (100 + AddPct * (s.adds + 1))

\* Mutant: the count of the last position's adds is kept.
OpenedCounting(s, pos, c) ==
  [s EXCEPT !.pos = pos, !.entry = c, !.peak = c, !.cost = Unit, !.vol = Unit \div c]

Opened(s, pos, c) ==
  [s EXCEPT !.pos = pos, !.entry = c, !.peak = c, !.cost = Unit, !.vol = Unit \div c,
            !.adds = 0]

Added(s, c) == [s EXCEPT !.cost = @ + Unit, !.vol = @ + Unit \div c, !.adds = @ + 1]

Closed(s, c) == [s EXCEPT !.pos = "none", !.cost = 0, !.vol = 0, !.low = c]

PyramidStep(s, c) ==
  LET h == [s EXCEPT !.peak = Most(@, c), !.signal = "hold"] IN
  CASE s.pos = "none" /\ Rises(s.low, c)    -> [Opened(s, "long", c) EXCEPT !.signal = "buy"]
    [] s.pos = "none" /\ ~Rises(s.low, c)   -> [s EXCEPT !.low = Least(@, c), !.signal = "hold"]
    [] s.pos = "long" /\ LongExit(h, c)     -> [Closed(h, c) EXCEPT !.signal = "sell"]
    [] s.pos = "long" /\ ~LongExit(h, c) /\ LongAdds(h, c)
                                            -> [Added(h, c) EXCEPT !.signal = "buy"]
    [] OTHER                                -> h

\* get_indicators runs a copy of the loop: t is what the copy remembers, the
\* columns it writes are t.low (and the level of an entry) while it holds none.
\* Mutant: the copy knows no trailing stop.
IndicatorStepClose(t, c) ==
  LET h == [t EXCEPT !.peak = Most(@, c)] IN
  IF t.pos = "none"
  THEN IF Rises(t.low, c) THEN Opened(t, "long", c) ELSE [t EXCEPT !.low = Least(@, c)]
  ELSE IF LongStopped(h, c) THEN Closed(h, c)
  ELSE IF LongAdds(h, c) THEN Added(h, c) ELSE h

IndicatorStep(t, c) ==
  LET h == [t EXCEPT !.peak = Most(@, c)] IN
  IF t.pos = "none"
  THEN IF Rises(t.low, c) THEN Opened(t, "long", c) ELSE [t EXCEPT !.low = Least(@, c)]
  ELSE IF LongExit(h, c) THEN Closed(h, c)
  ELSE IF LongAdds(h, c) THEN Added(h, c) ELSE h

-----------------------------------------------------------------------------
(* pyramid_breakout_ls: the same upwards; downwards peak is the lowest close *)

ShortStopped(s, c) == c * s.vol * 100 >= s.cost * (100 + StopPct)
ShortTrailed(s, c) == /\ s.peak * s.vol * (100 + TrailPct) < s.cost * 100
                      /\ c * 100 >= s.peak * (100 + TrailPct)

\* Mutant: the stop of a long position is copied.
ShortExitCopied(s, c) == LongStopped(s, c) \/ ShortTrailed(s, c)

ShortExit(s, c) == ShortStopped(s, c) \/ ShortTrailed(s, c)

ShortAdds(s, c) == c * 100 + s.entry * AddPct * (s.adds + 1) <= s.entry * 100

\* Outside a position both the low and the high are moved before the look.
Watching(s, c) == [s EXCEPT !.low = Least(@, c), !.high = Most(@, c), !.signal = "hold"]

LSStep(s, c) ==
  LET w == Watching(s, c)
      h == [s EXCEPT !.peak = IF s.pos = "short" THEN Least(@, c) ELSE Most(@, c),
                     !.signal = "hold"]
      out == [Closed(h, c) EXCEPT !.high = c]
  IN
  CASE s.pos = "none" ->
         IF Rises(w.low, c) THEN [Opened(w, "long", c) EXCEPT !.high = c, !.signal = "buy"]
         ELSE IF Falls(w.high, c) THEN [Opened(w, "short", c) EXCEPT !.low = c, !.signal = "short"]
         ELSE w
    [] s.pos = "long" ->
         IF LongExit(h, c) THEN [out EXCEPT !.signal = "sell"]
         ELSE IF LongAdds(h, c) THEN [Added(h, c) EXCEPT !.signal = "buy"]
         ELSE h
    [] s.pos = "short" ->
         IF ShortExit(h, c) THEN [out EXCEPT !.signal = "cover"]
         ELSE IF ShortAdds(h, c) THEN [Added(h, c) EXCEPT !.signal = "short"]
         ELSE h

-----------------------------------------------------------------------------
(* breakout_n, trend_follow, ma_cross: exits by the bar's low and high *)

Buys(s, b) == [s EXCEPT !.pos = "long", !.entry = b.close, !.peak = b.high, !.signal = "buy"]
Sells(s) == [s EXCEPT !.pos = "none", !.signal = "sell"]
Higher(s, b) == [s EXCEPT !.peak = Most(@, b.high), !.signal = "hold"]

BarStop(s, b) == b.low * 100 <= s.entry * (100 - StopPct)

BarProfit(s, b) == ProfitPct > 0 /\ b.high * 100 >= s.entry * (100 + ProfitPct)
BarTrail(s, b) == TrailPct > 0 /\ b.low * 100 <= s.peak * (100 - TrailPct)

\* s has the peak of this bar. The order of the exits does not matter.
BarExit(s, b) == BarStop(s, b) \/ BarProfit(s, b) \/ BarTrail(s, b)

BreakoutStep(s, past, b) ==
  LET h == Higher(s, b) IN
  IF Len(past) < Window THEN [s EXCEPT !.signal = "hold"]
  ELSE IF s.pos = "none"
  THEN IF \A p \in Recent(past, Window) : b.close > p.close
       THEN Buys(s, b) ELSE [s EXCEPT !.signal = "hold"]
  ELSE IF BarExit(h, b) THEN Sells(h) ELSE h

TrendStep(s, b) ==
  LET w == [s EXCEPT !.low = Least(@, b.close), !.signal = "hold"]
      h == Higher(s, b)
  IN
  IF s.pos = "none" THEN IF Rises(w.low, b.close) THEN Buys(w, b) ELSE w
  ELSE IF BarExit(h, b) THEN [Sells(h) EXCEPT !.low = b.close] ELSE h

CrossStep(s, past, b) ==
  LET before == past[Len(past)].trend
      h == Higher(s, b)
  IN
  IF s.pos = "none"
  THEN IF before <= 0 /\ b.trend > 0 THEN Buys(s, b) ELSE [s EXCEPT !.signal = "hold"]
  ELSE IF BarExit(h, b) \/ (MaExit /\ before >= 0 /\ b.trend < 0) THEN Sells(h) ELSE h

-----------------------------------------------------------------------------
(* turtle: the channels are shifted twice, by _rolling_max and by the index    *)
(* i - 1, so that the bar before b is in none of them.                         *)

Channel(past, n) == Recent(SubSeq(past, 1, Len(past) - 1), n)

TurtleStep(s, past, b) ==
  LET quiet == [s EXCEPT !.signal = "hold"]
      above == \A p \in Channel(past, EntryPeriod) : b.close > p.high
      below == \A p \in Channel(past, ExitPeriod) : b.close < p.low
  IN
  IF Len(past) <= EntryPeriod \/ Len(past) < AtrPeriod THEN quiet
  ELSE IF s.pos = "none"
  THEN IF UseFilter /\ s.won THEN [quiet EXCEPT !.won = FALSE]
       ELSE IF above THEN [quiet EXCEPT !.pos = "long", !.entry = b.close, !.signal = "buy"]
       ELSE quiet
  ELSE IF below \/ b.close + StopMult * b.atr < s.entry
  THEN [quiet EXCEPT !.pos = "none", !.won = b.close > s.entry, !.entry = 0, !.signal = "sell"]
  ELSE quiet

-----------------------------------------------------------------------------
(* momentum and mean_reversion remember nothing *)

MomentumStep(s, b) ==
  [s EXCEPT !.signal = CASE b.level < 0 /\ b.trend > 0 -> "buy"
                         [] b.level > 0 /\ b.trend < 0 -> "sell"
                         [] OTHER -> "hold"]

ReversionStep(s, past, b) ==
  LET before == past[Len(past)].level IN
  [s EXCEPT !.signal = CASE before < 0 /\ b.level >= 0 -> "buy"
                         [] before > 0 /\ b.level <= 0 -> "sell"
                         [] OTHER -> "hold"]
=============================================================================
