----------------------------- MODULE BacktestProofs -----------------------------
(* What Backtest keeps, for any prices, percentages, fees and lengths of the   *)
(* history.                                                                    *)
EXTENDS Backtest, TLAPS

-----------------------------------------------------------------------------
(* Types *)

State == [pos : {"none", "long", "short"}, entry : Nat, cost : Nat, vol : Nat, peak : Nat,
          low : Nat, high : Nat, adds : Nat, won : BOOLEAN,
          signal : {"hold", "buy", "sell", "short", "cover"}]

BarType == [close : Closes, high : Nat, low : Nat, trend : Int, level : Int, atr : Nat]

\* A bar's close lies between its low and its high, which is not twice as much.
Spans(b) ==
  b \in BarType /\ b.low <= b.close /\ b.close <= b.high /\ b.high <= 2 * b.close

-----------------------------------------------------------------------------
(* Numbers *)

LEMMA Halves ==
  ASSUME NEW a \in Nat
  PROVE  a \div 2 \in Nat /\ 2 * (a \div 2) <= a /\ a <= 2 * (a \div 2) + 1
  BY SMT

LEMMA Hundredths ==
  ASSUME NEW a \in Int
  PROVE  /\ a \div 100 \in Int /\ 100 * (a \div 100) <= a /\ a <= 100 * (a \div 100) + 99
         /\ a >= 0 => a \div 100 \in Nat
  BY SMT

LEMMA Quotient ==
  ASSUME NEW a \in Int, NEW d \in Nat \ {0}
  PROVE  /\ a \div d \in Int /\ d * (a \div d) <= a
         /\ a >= 0 => a \div d \in Nat
  BY Z3

LEMMA Rounding ==
  ASSUME NEW a \in Nat, NEW d \in Nat \ {0}
  PROVE  a \div d \in Nat /\ d * (a \div d) <= a /\ a < d * (a \div d) + d
  BY Z3

\* A factor that fits twice is no larger.
LEMMA Cancel ==
  ASSUME NEW d \in Nat \ {0}, NEW y \in Nat, NEW z \in Nat, d * y < d * z + d
  PROVE  y <= z
<1> SUFFICES ASSUME y >= z + 1 PROVE FALSE
  OBVIOUS
<1>1. PICK e \in Nat : y = z + 1 + e
  <2>1. y - (z + 1) \in Nat /\ y = z + 1 + (y - (z + 1))
    OBVIOUS
  <2> QED BY <2>1
<1>2. d * (z + 1 + e) = d * z + d + d * e /\ d * e \in Nat /\ d * z \in Nat
  BY SMT
<1> QED BY <1>1, <1>2

LEMMA Exact ==
  ASSUME NEW a \in Nat, NEW d \in Nat \ {0}, a % d = 0
  PROVE  a \div d \in Nat /\ d * (a \div d) = a
  BY SMT

LEMMA Dearer ==
  ASSUME NEW a \in Nat, NEW c \in Nat, NEW k \in Nat, c <= a
  PROVE  /\ a * k \in Nat /\ c * k \in Nat /\ k * c = c * k /\ k * a = a * k
         /\ c * k <= a * k /\ k * c <= k * a
  BY SMT

LEMMA Distribute ==
  ASSUME NEW a \in Nat, NEW v \in Nat, NEW u \in Nat
  PROVE  a * (v + u) * 100 = a * v * 100 + (a * u) * 100
  BY SMT

LEMMA Associate ==
  ASSUME NEW a \in Nat, NEW m \in Nat, NEW f \in Nat
  PROVE  a * (m * f) = (a * m) * f
  BY SMT

LEMMA CloseFacts ==
  ASSUME NEW c \in Closes
  PROVE  c \in Nat \ {0} /\ c >= 2 /\ Unit \div c \in Nat /\ c * (Unit \div c) = Unit
<1>1. c \in Nat \ {0} /\ c % 2 = 0 /\ Unit % c = 0 /\ Unit \in Nat
  BY BacktestAssumption, StrategyAssumption
<1>2. c >= 2
  BY <1>1, SMT
<1> QED BY <1>1, <1>2, Exact

\* Bar: a wild bar moves half its close to both sides.
LEMMA BarFacts ==
  ASSUME NEW strategy \in Names, NEW b \in Bars(strategy)
  PROVE  Spans(b)
<1>1. PICK c \in Closes, wild \in BOOLEAN, i \in Moods(strategy) :
        b = Bar(c, wild, i[1], i[2], i[3])
  BY DEF Bars
<1>2. i[1] \in Int /\ i[2] \in Int /\ i[3] \in Nat
  BY DEF Moods
<1>3. c \in Nat /\ c \div 2 \in Nat /\ c \div 2 <= c
  BY CloseFacts, Halves
<1> QED BY <1>1, <1>2, <1>3 DEF Bar, Spans, BarType

-----------------------------------------------------------------------------
(* The pyramids *)

LongLevel(x) == x.entry * (100 + AddPct * x.adds) <= x.peak * 100
ShortLevel(x) == x.peak * 100 + x.entry * AddPct * x.adds <= x.entry * 100

LEMMA OpenedFacts ==
  ASSUME NEW x \in State, NEW pos \in {"long", "short"}, NEW c \in Closes
  PROVE  LET y == Opened(x, pos, c) IN
         /\ y \in State /\ y.pos = pos
         /\ LongLevel(y) /\ ShortLevel(y) /\ ~LongStopped(y, c) /\ ~ShortStopped(y, c)
<1> DEFINE y == Opened(x, pos, c)
<1> USE CloseFacts, StrategyAssumption
<1>1. y \in State /\ y.pos = pos
  BY DEF Opened, State
<1>2. /\ y.entry = c /\ y.peak = c /\ y.adds = 0
      /\ y.cost = Unit /\ y.vol = Unit \div c
  BY DEF Opened, State
<1>3. LongLevel(y) /\ ShortLevel(y)
  BY <1>2 DEF LongLevel, ShortLevel
<1>4. c * y.vol * 100 = Unit * 100
  BY <1>2
<1>5. ~LongStopped(y, c)
  BY <1>2, <1>4 DEF LongStopped
<1>6. ~ShortStopped(y, c)
  BY <1>2, <1>4 DEF ShortStopped
<1> QED BY <1>1, <1>3, <1>5, <1>6

\* An add at a close that is not at the stop leaves it so: the part added is
\* worth its cost at this close.
LEMMA AddedFacts ==
  ASSUME NEW x \in State, NEW c \in Closes
  PROVE  LET y == Added(x, c) IN
         /\ y \in State /\ y.pos = x.pos
         /\ LongAdds(x, c) /\ c <= x.peak => LongLevel(y)
         /\ ShortAdds(x, c) /\ x.peak <= c => ShortLevel(y)
         /\ ~LongStopped(x, c) => ~LongStopped(y, c)
         /\ ~ShortStopped(x, c) => ~ShortStopped(y, c)
<1> DEFINE y == Added(x, c)
           u == Unit \div c
<1>0. c \in Nat /\ u \in Nat /\ Unit \in Nat
  BY CloseFacts, StrategyAssumption
<1>a. c * u = Unit
  BY CloseFacts
<1> HIDE DEF u
<1>1. y = [x EXCEPT !.cost = x.cost + Unit, !.vol = x.vol + u, !.adds = x.adds + 1]
  BY DEF Added, u, State
<1> HIDE DEF y
<1>b. /\ x.entry \in Nat /\ x.peak \in Nat /\ x.adds \in Nat
      /\ x.cost \in Nat /\ x.vol \in Nat
  BY DEF State
<1>c. x.cost + Unit \in Nat /\ x.vol + u \in Nat /\ x.adds + 1 \in Nat
  BY <1>0, <1>b
<1>d. y \in State
  BY <1>1, <1>c DEF State
<1>2. /\ y.entry = x.entry /\ y.peak = x.peak /\ y.adds = x.adds + 1
      /\ y.cost = x.cost + Unit /\ y.vol = x.vol + u /\ y.pos = x.pos
  BY <1>1 DEF State
<1> USE StrategyAssumption
<1>3. LongAdds(x, c) /\ c <= x.peak => LongLevel(y)
  BY <1>0, <1>b, <1>2 DEF LongAdds, LongLevel
<1>4. ShortAdds(x, c) /\ x.peak <= c => ShortLevel(y)
  BY <1>0, <1>b, <1>2 DEF ShortAdds, ShortLevel
<1>5. c * y.vol * 100 = c * x.vol * 100 + Unit * 100
<2>1. c * (x.vol + u) * 100 = c * x.vol * 100 + (c * u) * 100
  BY <1>0, <1>b, Distribute
<2> QED BY <2>1, <1>a, <1>2
<1>6. /\ y.cost * (100 - StopPct) = x.cost * (100 - StopPct) + Unit * (100 - StopPct)
      /\ y.cost * (100 + StopPct) = x.cost * (100 + StopPct) + Unit * (100 + StopPct)
  BY <1>0, <1>b, <1>2
<1>7. Unit * (100 - StopPct) <= Unit * 100 /\ Unit * 100 <= Unit * (100 + StopPct)
  BY <1>0
<1>8. ~LongStopped(x, c) => ~LongStopped(y, c)
  BY <1>0, <1>b, <1>2, <1>5, <1>6, <1>7 DEF LongStopped
<1>9. ~ShortStopped(x, c) => ~ShortStopped(y, c)
  BY <1>0, <1>b, <1>2, <1>5, <1>6, <1>7 DEF ShortStopped
<1> QED BY <1>d, <1>2, <1>3, <1>4, <1>8, <1>9 DEF y

\* What a step keeps of a position at the close c.
Sound(x, c) ==
  /\ x.pos = "long" => LongLevel(x) /\ ~LongStopped(x, c)
  /\ x.pos = "short" => ShortLevel(x) /\ ~ShortStopped(x, c)

\* They differ in the low, the high and the signal.
Alike(y, x) ==
  /\ y \in State
  /\ y.pos = x.pos /\ y.entry = x.entry /\ y.cost = x.cost /\ y.vol = x.vol
  /\ y.peak = x.peak /\ y.adds = x.adds

LEMMA AlikeSound ==
  ASSUME NEW x, NEW y, NEW c, Alike(y, x), Sound(x, c)
  PROVE  y \in State /\ y.pos = x.pos /\ Sound(y, c)
BY DEF Alike, Sound, LongLevel, ShortLevel, LongStopped, ShortStopped

\* A held position whose peak is moved to the close.
LEMMA HeldFacts ==
  ASSUME NEW x \in State, NEW pk \in Nat
  PROVE  LET y == [x EXCEPT !.peak = pk, !.signal = "hold"] IN
         /\ y \in State /\ y.pos = x.pos /\ y.entry = x.entry /\ y.peak = pk
         /\ y.signal = "hold"
         /\ LongLevel(x) /\ x.peak <= pk => LongLevel(y)
         /\ ShortLevel(x) /\ pk <= x.peak => ShortLevel(y)
<1> DEFINE y == [x EXCEPT !.peak = pk, !.signal = "hold"]
<1>1. y \in State
  BY DEF State
<1>2. /\ y.pos = x.pos /\ y.entry = x.entry /\ y.peak = pk /\ y.signal = "hold"
      /\ y.adds = x.adds /\ x.peak \in Nat /\ x.entry \in Nat /\ x.adds \in Nat
  BY DEF State
<1>3. x.entry * (100 + AddPct * x.adds) \in Nat /\ x.entry * AddPct * x.adds \in Nat
  <2>1. x.entry \in Nat /\ x.adds \in Nat /\ AddPct \in Nat
    BY <1>2, StrategyAssumption
  <2> HIDE DEF y
  <2> QED BY <2>1
<1>4. LongLevel(x) /\ x.peak <= pk => LongLevel(y)
  BY <1>2, <1>3 DEF LongLevel
<1>5. ShortLevel(x) /\ pk <= x.peak => ShortLevel(y)
  BY <1>2, <1>3 DEF ShortLevel
<1> QED BY <1>1, <1>2, <1>4, <1>5

LEMMA ClosedFacts ==
  ASSUME NEW x \in State, NEW c \in Closes
  PROVE  Closed(x, c) \in State /\ Closed(x, c).pos = "none"
BY CloseFacts DEF Closed, State

LEMMA Bounds ==
  ASSUME NEW a \in Nat, NEW d \in Nat
  PROVE  /\ Least(a, d) \in Nat /\ Least(a, d) <= a /\ Least(a, d) <= d
         /\ Most(a, d) \in Nat /\ a <= Most(a, d) /\ d <= Most(a, d)
BY DEF Least, Most

LEMMA PyramidFacts ==
  ASSUME NEW x \in State, NEW c \in Closes, NEW d, x.pos # "short", Sound(x, d)
  PROVE  PyramidStep(x, c) \in State /\ PyramidStep(x, c).pos # "short"
         /\ Sound(PyramidStep(x, c), c)
<1> DEFINE h == [x EXCEPT !.peak = Most(@, c), !.signal = "hold"]
           y == PyramidStep(x, c)
<1> HIDE DEF h, y
<1> SUFFICES y \in State /\ y.pos # "short" /\ Sound(y, c)
  BY DEF y
<1>0. c \in Nat /\ x.peak \in Nat /\ x.low \in Nat /\ x.pos \in {"none", "long"}
  BY CloseFacts DEF State
<1>1. CASE x.pos = "none" /\ Rises(x.low, c)
  <2> DEFINE z == Opened(x, "long", c)
  <2>1. y = [z EXCEPT !.signal = "buy"]
    BY <1>1 DEF PyramidStep, y
  <2>2. z \in State /\ z.pos = "long" /\ Sound(z, c)
    BY OpenedFacts DEF Sound
  <2> HIDE DEF z
  <2>3. Alike(y, z)
    BY <2>1, <2>2 DEF Alike, State
  <2> QED BY <2>2, <2>3, AlikeSound
<1>2. CASE x.pos = "none" /\ ~Rises(x.low, c)
  <2>1. y = [x EXCEPT !.low = Least(x.low, c), !.signal = "hold"]
    BY <1>2 DEF PyramidStep, y
  <2>2. Least(x.low, c) \in Nat
    BY <1>0, Bounds
  <2>3. y \in State /\ y.pos = "none"
    BY <2>1, <2>2, <1>2 DEF State
  <2> QED BY <2>3 DEF Sound
<1>3. CASE x.pos = "long"
  <2>1. Most(x.peak, c) \in Nat /\ x.peak <= Most(x.peak, c) /\ c <= Most(x.peak, c)
    BY <1>0, Bounds
  <2>2. h \in State /\ h.pos = "long" /\ LongLevel(h) /\ c <= h.peak
    <3>1. LongLevel(x)
      BY <1>3 DEF Sound
    <3>2. h = [x EXCEPT !.peak = Most(x.peak, c), !.signal = "hold"]
      BY DEF h
    <3> QED BY <3>1, <3>2, <2>1, <1>3, HeldFacts
  <2>3. CASE LongExit(h, c)
    <3> DEFINE z == Closed(h, c)
    <3>1. y = [z EXCEPT !.signal = "sell"]
      BY <2>3, <1>3 DEF PyramidStep, h, y
    <3>2. z \in State /\ z.pos = "none"
      BY <2>2, ClosedFacts
    <3> HIDE DEF z
    <3>3. y \in State /\ y.pos = "none"
      BY <3>1, <3>2 DEF State
    <3> QED BY <3>3 DEF Sound
  <2>4. CASE ~LongExit(h, c) /\ LongAdds(h, c)
    <3> DEFINE z == Added(h, c)
    <3>1. y = [z EXCEPT !.signal = "buy"]
      BY <2>4, <1>3 DEF PyramidStep, h, y
    <3>2. z \in State /\ z.pos = "long" /\ LongLevel(z) /\ ~LongStopped(z, c)
      BY <2>2, <2>4, AddedFacts DEF LongExit
    <3> HIDE DEF z
    <3>3. Alike(y, z)
      BY <3>1, <3>2 DEF Alike, State
    <3>4. Sound(z, c)
      BY <3>2 DEF Sound
    <3> QED BY <3>2, <3>3, <3>4, AlikeSound
  <2>5. CASE ~LongExit(h, c) /\ ~LongAdds(h, c)
    <3>1. y = h
      BY <2>5, <1>3 DEF PyramidStep, h, y
    <3> QED BY <3>1, <2>2, <2>5 DEF Sound, LongExit
  <2> QED BY <2>3, <2>4, <2>5
<1> QED BY <1>0, <1>1, <1>2, <1>3

LEMMA LSFacts ==
  ASSUME NEW x \in State, NEW c \in Closes, NEW d, Sound(x, d)
  PROVE  LSStep(x, c) \in State /\ Sound(LSStep(x, c), c)
<1> DEFINE w == Watching(x, c)
           pk == IF x.pos = "short" THEN Least(x.peak, c) ELSE Most(x.peak, c)
           h == [x EXCEPT !.peak = pk, !.signal = "hold"]
           out == [Closed(h, c) EXCEPT !.high = c]
           y == LSStep(x, c)
<1>0. /\ c \in Nat /\ x.peak \in Nat /\ x.low \in Nat /\ x.high \in Nat
      /\ x.pos \in {"none", "long", "short"}
  BY CloseFacts DEF State
<1>a. h = [x EXCEPT !.peak = IF x.pos = "short" THEN Least(@, c) ELSE Most(@, c),
                    !.signal = "hold"]
  OBVIOUS
<1>y. y =
        CASE x.pos = "none" ->
               IF Rises(w.low, c) THEN [Opened(w, "long", c) EXCEPT !.high = c, !.signal = "buy"]
               ELSE IF Falls(w.high, c)
                    THEN [Opened(w, "short", c) EXCEPT !.low = c, !.signal = "short"]
               ELSE w
          [] x.pos = "long" ->
               IF LongExit(h, c) THEN [out EXCEPT !.signal = "sell"]
               ELSE IF LongAdds(h, c) THEN [Added(h, c) EXCEPT !.signal = "buy"]
               ELSE h
          [] x.pos = "short" ->
               IF ShortExit(h, c) THEN [out EXCEPT !.signal = "cover"]
               ELSE IF ShortAdds(h, c) THEN [Added(h, c) EXCEPT !.signal = "short"]
               ELSE h
  BY <1>a DEF LSStep
<1> HIDE DEF w, pk, h, y
<1> SUFFICES y \in State /\ Sound(y, c)
  BY DEF y
<1>b. Least(x.peak, c) \in Nat /\ Most(x.peak, c) \in Nat
  BY <1>0, Bounds
<1>1. CASE x.pos = "none"
  <2>1. w \in State /\ w.pos = "none"
    <3>1. Least(x.low, c) \in Nat /\ Most(x.high, c) \in Nat
      BY <1>0, Bounds
    <3>2. w = [x EXCEPT !.low = Least(x.low, c), !.high = Most(x.high, c), !.signal = "hold"]
      BY DEF w, Watching
    <3> QED BY <3>1, <3>2, <1>1 DEF State
  <2>2. CASE Rises(w.low, c)
    <3> DEFINE z == Opened(w, "long", c)
    <3>1. y = [z EXCEPT !.high = c, !.signal = "buy"]
      BY <1>1, <2>2, <1>y
    <3>2. z \in State /\ z.pos = "long" /\ Sound(z, c)
      BY <2>1, OpenedFacts DEF Sound
    <3> HIDE DEF z
    <3>3. Alike(y, z)
      BY <3>1, <3>2, <1>0 DEF Alike, State
    <3> QED BY <3>2, <3>3, AlikeSound
  <2>3. CASE ~Rises(w.low, c) /\ Falls(w.high, c)
    <3> DEFINE z == Opened(w, "short", c)
    <3>1. y = [z EXCEPT !.low = c, !.signal = "short"]
      BY <1>1, <2>3, <1>y
    <3>2. z \in State /\ z.pos = "short" /\ Sound(z, c)
      BY <2>1, OpenedFacts DEF Sound
    <3> HIDE DEF z
    <3>3. Alike(y, z)
      BY <3>1, <3>2, <1>0 DEF Alike, State
    <3> QED BY <3>2, <3>3, AlikeSound
  <2>4. CASE ~Rises(w.low, c) /\ ~Falls(w.high, c)
    <3>1. y = w
      BY <1>1, <2>4, <1>y
    <3> QED BY <3>1, <2>1 DEF Sound
  <2> QED BY <2>2, <2>3, <2>4
<1>2. CASE x.pos = "long"
  <2>1. pk \in Nat /\ x.peak <= pk /\ c <= pk
    BY <1>0, <1>2, Bounds DEF pk
  <2>2. h \in State /\ h.pos = "long" /\ LongLevel(h) /\ c <= h.peak
    <3>1. LongLevel(x)
      BY <1>2 DEF Sound
    <3> QED BY <3>1, <2>1, <1>2, HeldFacts DEF h
  <2>3. CASE LongExit(h, c)
    <3>1. y = [out EXCEPT !.signal = "sell"]
      BY <2>3, <1>2, <1>y
    <3>2. Closed(h, c) \in State /\ Closed(h, c).pos = "none"
      BY <2>2, ClosedFacts
    <3>3. y \in State /\ y.pos = "none"
      BY <3>1, <3>2, <1>0 DEF State
    <3> QED BY <3>3 DEF Sound
  <2>4. CASE ~LongExit(h, c) /\ LongAdds(h, c)
    <3> DEFINE z == Added(h, c)
    <3>1. y = [z EXCEPT !.signal = "buy"]
      BY <2>4, <1>2, <1>y
    <3>2. z \in State /\ z.pos = "long" /\ LongLevel(z) /\ ~LongStopped(z, c)
      BY <2>2, <2>4, AddedFacts DEF LongExit
    <3> HIDE DEF z
    <3>3. Alike(y, z)
      BY <3>1, <3>2 DEF Alike, State
    <3>4. Sound(z, c)
      BY <3>2 DEF Sound
    <3> QED BY <3>3, <3>4, AlikeSound
  <2>5. CASE ~LongExit(h, c) /\ ~LongAdds(h, c)
    <3>1. y = h
      BY <2>5, <1>2, <1>y
    <3> QED BY <3>1, <2>2, <2>5 DEF Sound, LongExit
  <2> QED BY <2>3, <2>4, <2>5
<1>3. CASE x.pos = "short"
  <2>1. pk \in Nat /\ pk <= x.peak /\ pk <= c
    BY <1>0, <1>3, Bounds DEF pk
  <2>2. h \in State /\ h.pos = "short" /\ ShortLevel(h) /\ h.peak <= c
    <3>1. ShortLevel(x)
      BY <1>3 DEF Sound
    <3> QED BY <3>1, <2>1, <1>3, HeldFacts DEF h
  <2>3. CASE ShortExit(h, c)
    <3>1. y = [out EXCEPT !.signal = "cover"]
      BY <2>3, <1>3, <1>y
    <3>2. Closed(h, c) \in State /\ Closed(h, c).pos = "none"
      BY <2>2, ClosedFacts
    <3>3. y \in State /\ y.pos = "none"
      BY <3>1, <3>2, <1>0 DEF State
    <3> QED BY <3>3 DEF Sound
  <2>4. CASE ~ShortExit(h, c) /\ ShortAdds(h, c)
    <3> DEFINE z == Added(h, c)
    <3>1. y = [z EXCEPT !.signal = "short"]
      BY <2>4, <1>3, <1>y
    <3>2. z \in State /\ z.pos = "short" /\ ShortLevel(z) /\ ~ShortStopped(z, c)
      BY <2>2, <2>4, AddedFacts DEF ShortExit
    <3> HIDE DEF z
    <3>3. Alike(y, z)
      BY <3>1, <3>2 DEF Alike, State
    <3>4. Sound(z, c)
      BY <3>2 DEF Sound
    <3> QED BY <3>3, <3>4, AlikeSound
  <2>5. CASE ~ShortExit(h, c) /\ ~ShortAdds(h, c)
    <3>1. y = h
      BY <2>5, <1>3, <1>y
    <3> QED BY <3>1, <2>2, <2>5 DEF Sound, ShortExit
  <2> QED BY <2>3, <2>4, <2>5
<1> QED BY <1>0, <1>1, <1>2, <1>3

-----------------------------------------------------------------------------
(* The strategies that look at the bar's low and high *)

\* What a step keeps of a position over the bar b.
Unstopped(x, b) ==
  x.pos = "long" /\ x.signal # "buy" => b.low * 100 > x.entry * (100 - StopPct)

LEMMA BuysFacts ==
  ASSUME NEW x \in State, NEW b, Spans(b)
  PROVE  Buys(x, b) \in State /\ Buys(x, b).pos = "long" /\ Unstopped(Buys(x, b), b)
<1>1. b.close \in Nat /\ b.high \in Nat
  BY CloseFacts DEF Spans, BarType
<1> QED BY <1>1 DEF Buys, State, Unstopped

LEMMA SellsFacts ==
  ASSUME NEW x \in State
  PROVE  Sells(x) \in State /\ Sells(x).pos = "none"
BY DEF Sells, State

\* A position whose stop the bar does not touch.
LEMMA HigherFacts ==
  ASSUME NEW x \in State, NEW b, Spans(b)
  PROVE  /\ Higher(x, b) \in State /\ Higher(x, b).pos = x.pos
         /\ ~BarExit(Higher(x, b), b) => Unstopped(Higher(x, b), b)
<1>1. b.high \in Nat /\ b.low \in Nat /\ x.peak \in Nat
  BY DEF Spans, BarType, State
<1>2. Most(x.peak, b.high) \in Nat
  BY <1>1, Bounds
<1>3. Higher(x, b) \in State /\ Higher(x, b).pos = x.pos
  BY <1>2 DEF Higher, State
<1> DEFINE h == Higher(x, b)
<1> HIDE DEF h
<1>4. h.entry \in Nat /\ StopPct \in Nat /\ 100 - StopPct \in Nat
  BY <1>3, StrategyAssumption DEF State, h
<1>5. b.low * 100 \in Nat /\ h.entry * (100 - StopPct) \in Nat
  BY <1>1, <1>4
<1>6. ~BarExit(h, b) => Unstopped(h, b)
  BY <1>5 DEF BarExit, BarStop, Unstopped
<1> QED BY <1>3, <1>6 DEF h

LEMMA HoldFacts ==
  ASSUME NEW x \in State, NEW b
  PROVE  LET y == [x EXCEPT !.signal = "hold"] IN
         y \in State /\ y.pos = x.pos /\ (x.pos = "none" => Unstopped(y, b))
BY DEF State, Unstopped

\* breakout_n holds nothing while its window is not full.
LEMMA BreakoutFacts ==
  ASSUME NEW x \in State, NEW b, Spans(b), NEW bars,
         x.pos # "short", Len(bars) < Window => x.pos = "none"
  PROVE  LET y == BreakoutStep(x, bars, b) IN
         /\ y \in State /\ y.pos # "short" /\ Unstopped(y, b)
         /\ Len(bars) < Window => y.pos = "none"
<1> DEFINE y == BreakoutStep(x, bars, b)
           q == [x EXCEPT !.signal = "hold"]
           h == Higher(x, b)
<1>0. x.pos \in {"none", "long"}
  BY DEF State
<1>1. CASE Len(bars) < Window
  <2>1. y = q
    BY <1>1 DEF BreakoutStep
  <2> HIDE DEF y
  <2>2. y \in State /\ y.pos = "none" /\ Unstopped(y, b)
    BY <2>1, <1>1, HoldFacts
  <2> QED BY <2>2 DEF y
<1>2. CASE ~(Len(bars) < Window) /\ x.pos = "none"
  <2>1. y = Buys(x, b) \/ y = q
    BY <1>2 DEF BreakoutStep
  <2> HIDE DEF y
  <2>2. y \in State /\ y.pos # "short" /\ Unstopped(y, b)
    BY <2>1, <1>2, HoldFacts, BuysFacts
  <2> QED BY <2>2, <1>2 DEF y
<1>3. CASE ~(Len(bars) < Window) /\ x.pos = "long"
  <2>1. y = IF BarExit(h, b) THEN Sells(h) ELSE h
    BY <1>3 DEF BreakoutStep
  <2>2. h \in State /\ h.pos = "long" /\ (~BarExit(h, b) => Unstopped(h, b))
    BY <1>3, HigherFacts
  <2> HIDE DEF y, h
  <2>3. Sells(h) \in State /\ Sells(h).pos = "none"
    BY <2>2, SellsFacts
  <2>4. y \in State /\ y.pos # "short" /\ Unstopped(y, b)
    BY <2>1, <2>2, <2>3 DEF Unstopped
  <2> QED BY <2>4, <1>3 DEF y
<1> QED BY <1>0, <1>1, <1>2, <1>3

LEMMA TrendFacts ==
  ASSUME NEW x \in State, NEW b, Spans(b), x.pos # "short"
  PROVE  LET y == TrendStep(x, b) IN y \in State /\ y.pos # "short" /\ Unstopped(y, b)
<1> DEFINE y == TrendStep(x, b)
           w == [x EXCEPT !.low = Least(@, b.close), !.signal = "hold"]
           h == Higher(x, b)
<1>0. x.pos \in {"none", "long"} /\ x.low \in Nat /\ b.close \in Nat
  BY CloseFacts DEF State, Spans, BarType
<1>1. CASE x.pos = "none"
  <2>1. y = Buys(w, b) \/ y = w
    BY <1>1 DEF TrendStep
  <2>2. Least(x.low, b.close) \in Nat
    BY <1>0, Bounds
  <2>3. w \in State /\ w.pos = "none" /\ Unstopped(w, b)
    BY <2>2, <1>1 DEF State, Unstopped
  <2> HIDE DEF y, w
  <2>4. y \in State /\ y.pos # "short" /\ Unstopped(y, b)
    BY <2>1, <2>3, BuysFacts
  <2> QED BY <2>4 DEF y
<1>2. CASE x.pos = "long"
  <2>1. y = IF BarExit(h, b) THEN [Sells(h) EXCEPT !.low = b.close] ELSE h
    BY <1>2 DEF TrendStep
  <2>2. h \in State /\ h.pos = "long" /\ (~BarExit(h, b) => Unstopped(h, b))
    BY <1>2, HigherFacts
  <2> DEFINE z == Sells(h)
  <2>3. z \in State /\ z.pos = "none"
    BY <2>2, SellsFacts
  <2> HIDE DEF y, h, z
  <2>4. [z EXCEPT !.low = b.close] \in State /\ [z EXCEPT !.low = b.close].pos = "none"
    BY <2>3, <1>0 DEF State
  <2>5. y \in State /\ y.pos # "short" /\ Unstopped(y, b)
    BY <2>1, <2>2, <2>4 DEF Unstopped, z
  <2> QED BY <2>5 DEF y
<1> QED BY <1>0, <1>1, <1>2

LEMMA CrossFacts ==
  ASSUME NEW x \in State, NEW b, Spans(b), NEW bars, x.pos # "short"
  PROVE  LET y == CrossStep(x, bars, b) IN
         y \in State /\ y.pos # "short" /\ Unstopped(y, b)
<1> DEFINE y == CrossStep(x, bars, b)
           q == [x EXCEPT !.signal = "hold"]
           h == Higher(x, b)
<1>0. x.pos \in {"none", "long"}
  BY DEF State
<1>1. CASE x.pos = "none"
  <2>1. y = Buys(x, b) \/ y = q
    BY <1>1 DEF CrossStep
  <2> HIDE DEF y
  <2>2. y \in State /\ y.pos # "short" /\ Unstopped(y, b)
    BY <2>1, <1>1, HoldFacts, BuysFacts
  <2> QED BY <2>2 DEF y
<1>2. CASE x.pos = "long"
  <2>1. y = Sells(h) \/ (~BarExit(h, b) /\ y = h)
    BY <1>2 DEF CrossStep
  <2>2. h \in State /\ h.pos = "long" /\ (~BarExit(h, b) => Unstopped(h, b))
    BY <1>2, HigherFacts
  <2> HIDE DEF y, h
  <2>3. Sells(h) \in State /\ Sells(h).pos = "none"
    BY <2>2, SellsFacts
  <2>4. y \in State /\ y.pos # "short" /\ Unstopped(y, b)
    BY <2>1, <2>2, <2>3 DEF Unstopped
  <2> QED BY <2>4 DEF y
<1> QED BY <1>0, <1>1, <1>2

-----------------------------------------------------------------------------
(* turtle, momentum and mean_reversion *)

\* Not below the stop: two, or StopMult, ATRs under the entry.
Floored(x, b) ==
  x.pos = "long" /\ x.signal # "buy" => b.close + StopMult * b.atr >= x.entry

\* Too few bars for the channel or the ATR.
Early(bars) == Len(bars) <= EntryPeriod \/ Len(bars) < AtrPeriod

LEMMA TurtleFacts ==
  ASSUME NEW x \in State, NEW b, Spans(b), NEW bars, x.pos # "short",
         Early(bars) => x.pos = "none"
  PROVE  /\ TurtleStep(x, bars, b) \in State /\ TurtleStep(x, bars, b).pos # "short"
         /\ Floored(TurtleStep(x, bars, b), b)
         /\ Early(bars) => TurtleStep(x, bars, b).pos = "none"
<1> DEFINE q == [x EXCEPT !.signal = "hold"]
           y == TurtleStep(x, bars, b)
           g == b.close > x.entry
           e == b.close + StopMult * b.atr
<1>0. /\ b.close \in Nat /\ q \in State /\ q.pos = x.pos /\ q.entry = x.entry
      /\ x.pos \in {"none", "long"} /\ x.entry \in Nat
  BY CloseFacts DEF State, Spans, BarType
<1>1. \/ y = q /\ (Early(bars) \/ x.pos = "none" \/ ~(e < x.entry))
      \/ ~Early(bars) /\ x.pos = "none" /\ y = [q EXCEPT !.won = FALSE]
      \/ ~Early(bars) /\ y = [q EXCEPT !.pos = "long", !.entry = b.close, !.signal = "buy"]
      \/ y = [q EXCEPT !.pos = "none", !.won = g, !.entry = 0, !.signal = "sell"]
  BY DEF TurtleStep, Early
<1>2. g \in BOOLEAN
  OBVIOUS
<1>3. e \in Nat
  <2>1. b.atr \in Nat /\ StopMult \in Nat
    BY StrategyAssumption DEF Spans, BarType
  <2>2. StopMult * b.atr \in Nat
    BY <2>1
  <2> QED BY <2>2, <1>0
<1>4. ASSUME x.pos = "long" => e >= x.entry
      PROVE  Floored(q, b)
  BY <1>4, <1>0 DEF Floored
<1> HIDE DEF y, q, g, e
<1> SUFFICES /\ y \in State /\ y.pos # "short" /\ Floored(y, b)
             /\ Early(bars) => y.pos = "none"
  BY DEF y
<1>a. CASE y = q /\ (Early(bars) \/ x.pos = "none" \/ ~(e < x.entry))
  <2>1. x.pos = "long" => e >= x.entry
    BY <1>a, <1>0, <1>3
  <2> QED BY <2>1, <1>a, <1>0, <1>4
<1>b. CASE ~Early(bars) /\ x.pos = "none" /\ y = [q EXCEPT !.won = FALSE]
  <2>1. y \in State /\ y.pos = "none"
    BY <1>0, <1>b DEF State
  <2> QED BY <2>1 DEF Floored
<1>c. CASE ~Early(bars) /\ y = [q EXCEPT !.pos = "long", !.entry = b.close, !.signal = "buy"]
  <2>1. y \in State /\ y.pos = "long" /\ y.signal = "buy"
    BY <1>0, <1>c DEF State
  <2> QED BY <2>1, <1>c DEF Floored
<1>d. CASE y = [q EXCEPT !.pos = "none", !.won = g, !.entry = 0, !.signal = "sell"]
  <2>1. y \in State /\ y.pos = "none"
    BY <1>0, <1>2, <1>d DEF State
  <2> QED BY <2>1 DEF Floored
<1> QED BY <1>1, <1>a, <1>b, <1>c, <1>d

LEMMA MomentumFacts ==
  ASSUME NEW x \in State, NEW b
  PROVE  MomentumStep(x, b) \in State /\ MomentumStep(x, b).pos = x.pos
BY DEF MomentumStep, State

LEMMA ReversionFacts ==
  ASSUME NEW x \in State, NEW b, NEW bars
  PROVE  ReversionStep(x, bars, b) \in State /\ ReversionStep(x, bars, b).pos = x.pos
BY DEF ReversionStep, State

-----------------------------------------------------------------------------
(* The copy of the loop in get_indicators *)

Copied(t, x) ==
  /\ t \in State /\ x \in State
  /\ t.pos = x.pos /\ t.entry = x.entry /\ t.cost = x.cost /\ t.vol = x.vol
  /\ t.peak = x.peak /\ t.low = x.low /\ t.adds = x.adds

LEMMA IndicatorFacts ==
  ASSUME NEW x, NEW t, Copied(t, x), NEW c \in Closes, x.pos # "short"
  PROVE  Copied(IndicatorStep(t, c), PyramidStep(x, c))
<1> DEFINE hx == [x EXCEPT !.peak = Most(@, c), !.signal = "hold"]
           ht == [t EXCEPT !.peak = Most(@, c)]
           pk == Most(x.peak, c)
           y == PyramidStep(x, c)
           z == IndicatorStep(t, c)
<1>0. /\ c \in Nat /\ x.peak \in Nat /\ x.low \in Nat /\ x.pos \in {"none", "long"}
      /\ x.cost \in Nat /\ x.vol \in Nat /\ x.adds \in Nat
      /\ Unit \in Nat /\ Unit \div c \in Nat
      /\ Most(x.peak, c) \in Nat /\ Least(x.low, c) \in Nat
  <2>1. c \in Nat /\ Unit \in Nat /\ Unit \div c \in Nat
    BY CloseFacts, StrategyAssumption
  <2>2. /\ x.peak \in Nat /\ x.low \in Nat /\ x.pos \in {"none", "long"}
        /\ x.cost \in Nat /\ x.vol \in Nat /\ x.adds \in Nat
    BY DEF Copied, State
  <2> QED BY <2>1, <2>2, Bounds
<1>1. CASE x.pos = "none" /\ Rises(x.low, c)
  <2>1. y = [Opened(x, "long", c) EXCEPT !.signal = "buy"] /\ z = Opened(t, "long", c)
    BY <1>1 DEF PyramidStep, IndicatorStep, Copied
  <2> HIDE DEF y, z
  <2>2. Copied(z, y)
    BY <2>1, <1>0 DEF Copied, Opened, State
  <2> QED BY <2>2 DEF y, z
<1>2. CASE x.pos = "none" /\ ~Rises(x.low, c)
  <2>1. /\ y = [x EXCEPT !.low = Least(x.low, c), !.signal = "hold"]
        /\ z = [t EXCEPT !.low = Least(x.low, c)]
    BY <1>2 DEF PyramidStep, IndicatorStep, Copied
  <2> HIDE DEF y, z
  <2>2. Copied(z, y)
    BY <2>1, <1>0 DEF Copied, State
  <2> QED BY <2>2 DEF y, z
<1>3. CASE x.pos = "long"
  <2>1. /\ y = IF LongExit(hx, c) THEN [Closed(hx, c) EXCEPT !.signal = "sell"]
                ELSE IF LongAdds(hx, c) THEN [Added(hx, c) EXCEPT !.signal = "buy"] ELSE hx
        /\ z = IF LongExit(ht, c) THEN Closed(ht, c)
                ELSE IF LongAdds(ht, c) THEN Added(ht, c) ELSE ht
    BY <1>3 DEF PyramidStep, IndicatorStep, Copied
  <2>2. Copied(ht, hx)
    <3>1. hx = [x EXCEPT !.peak = pk, !.signal = "hold"] /\ ht = [t EXCEPT !.peak = pk]
      BY DEF Copied
    <3>2. pk \in Nat
      BY <1>0
    <3> HIDE DEF hx, ht, pk
    <3> QED BY <3>1, <3>2 DEF Copied, State
  <2> HIDE DEF y, z, hx, ht
  <2>3. (LongExit(ht, c) <=> LongExit(hx, c)) /\ (LongAdds(ht, c) <=> LongAdds(hx, c))
    BY <2>2 DEF Copied, LongExit, LongStopped, LongTrailed, LongAdds
  <2>4. /\ hx.cost \in Nat /\ hx.vol \in Nat /\ hx.adds \in Nat
        /\ hx.cost + Unit \in Nat /\ hx.vol + (Unit \div c) \in Nat /\ hx.adds + 1 \in Nat
    <3>1. hx.cost \in Nat /\ hx.vol \in Nat /\ hx.adds \in Nat
      BY <2>2 DEF Copied, State
    <3> QED BY <3>1, <1>0
  <2>5. Copied(Closed(ht, c), [Closed(hx, c) EXCEPT !.signal = "sell"])
    BY <2>2, <1>0 DEF Copied, Closed, State
  <2>6. Copied(Added(ht, c), [Added(hx, c) EXCEPT !.signal = "buy"])
    BY <2>2, <2>4 DEF Copied, Added, State
  <2>7. Copied(z, y)
    BY <2>1, <2>2, <2>3, <2>5, <2>6
  <2> QED BY <2>7 DEF y, z
<1> QED BY <1>0, <1>1, <1>2, <1>3

-----------------------------------------------------------------------------
(* The portfolio *)

Books == [cash : Int, qty : Nat, basis : Nat, open : Nat, sqty : Nat, sbasis : Nat,
          sopen : Nat, pnl : Int, fees : Nat]

\* The long engine overwrites the basis and the entry fee of an entry: without
\* a position there must be none.
Booked(q) == q \in Books /\ (q.qty = 0 => q.basis = 0 /\ q.open = 0)

Explained(q) == q.cash = Capital + q.pnl - q.fees - q.open - q.sopen - q.basis - q.sbasis

\* What an execution at the close c keeps.
Executed(r, q, c) ==
  Booked(r) /\ (Explained(q) => Explained(r)) /\ Worth(r, c) <= Worth(q, c)

\* A fee is never all of the value.
LEMMA FeeFacts ==
  ASSUME NEW v \in Nat
  PROVE  Fee(v) \in Nat /\ Fee(v) <= v
<1>1. v * FeePct \in Nat /\ v * FeePct <= v * 100
  <2>1. FeePct \in Nat /\ FeePct <= 100
    BY BacktestAssumption
  <2> QED BY <2>1, Dearer
<1>2. Fee(v) \in Nat /\ 100 * Fee(v) <= v * FeePct
  BY <1>1, Hundredths DEF Fee
<1> QED BY <1>1, <1>2

\* Fills are on the dear side of the close, and a price is never zero.
LEMMA PriceFacts ==
  ASSUME NEW b, Spans(b)
  PROVE  /\ b.close \in Nat
         /\ BuyPrice(b) \in Nat \ {0} /\ b.close <= BuyPrice(b) /\ BuyPrice(b) <= Grain
         /\ SellPrice(b) \in Nat \ {0} /\ SellPrice(b) <= b.close
<1>1. /\ b.close \in Nat /\ b.close >= 2 /\ b.low \in Nat /\ b.high \in Nat
      /\ b.low <= b.close /\ b.close <= b.high /\ b.high <= 2 * b.close
  BY CloseFacts DEF Spans, BarType
<1>2. 2 * b.close <= Grain /\ Grain \in Nat
  BY BacktestAssumption DEF Spans, BarType
<1> QED BY <1>1, <1>2, Halves DEF BuyPrice, SellPrice

LEMMA MorePieces ==
  ASSUME NEW m \in Nat, NEW k \in Nat, NEW c \in Nat
  PROVE  (m + k) * c = m * c + k * c /\ m * c \in Nat /\ k * c \in Nat
BY SMT

LEMMA GrainType == Grain \in Nat \ {0}
BY BacktestAssumption

\* What a quantity brings and what it costs, to the next whole.
LEMMA ValueBounds ==
  ASSUME NEW k \in Nat, NEW c \in Nat
  PROVE  /\ k * c \in Nat
         /\ Value(k, c) \in Nat /\ Grain * Value(k, c) <= k * c
         /\ k * c < Grain * Value(k, c) + Grain
         /\ Cost(k, c) \in Nat /\ k * c <= Grain * Cost(k, c)
         /\ Grain * Cost(k, c) < k * c + Grain
<1> DEFINE x == k * c
<1>1. x \in Nat
  BY SMT
<1>2. x + Grain - 1 \in Nat
  BY <1>1, GrainType
<1>3. Value(k, c) = x \div Grain /\ Cost(k, c) = (x + Grain - 1) \div Grain
  BY DEF Value, Cost
<1> HIDE DEF x
<1>4. /\ x \div Grain \in Nat /\ Grain * (x \div Grain) <= x
      /\ x < Grain * (x \div Grain) + Grain
  BY <1>1, GrainType, Rounding
<1> DEFINE z == x + Grain - 1
<1>5. z \div Grain \in Nat /\ Grain * (z \div Grain) <= z /\ z < Grain * (z \div Grain) + Grain
  <2> HIDE DEF z
  <2> QED BY <1>2, GrainType, Rounding DEF z
<1>6. Grain * (z \div Grain) \in Nat /\ z = x + Grain - 1
  BY <1>5, GrainType
<1> HIDE DEF z
<1>7. x <= Grain * (z \div Grain) /\ Grain * (z \div Grain) < x + Grain
  BY <1>1, <1>5, <1>6, GrainType
<1> QED BY <1>1, <1>3, <1>4, <1>5, <1>6, <1>7 DEF x

\* At a higher price a quantity is worth, and costs, no less.
LEMMA Dear ==
  ASSUME NEW k \in Nat, NEW c \in Nat, NEW a \in Nat, c <= a
  PROVE  Value(k, c) <= Value(k, a) /\ Cost(k, c) <= Cost(k, a)
<1>1. k * c <= k * a /\ k * c \in Nat /\ k * a \in Nat
  BY Dearer
<1>2. /\ Value(k, c) \in Nat /\ Grain * Value(k, c) <= k * c
      /\ Cost(k, c) \in Nat /\ Grain * Cost(k, c) < k * c + Grain
  BY ValueBounds
<1>3. /\ Value(k, a) \in Nat /\ k * a < Grain * Value(k, a) + Grain
      /\ Cost(k, a) \in Nat /\ k * a <= Grain * Cost(k, a)
  BY ValueBounds
<1>4. /\ Grain * Value(k, c) \in Nat /\ Grain * Value(k, a) \in Nat
      /\ Grain * Cost(k, c) \in Nat /\ Grain * Cost(k, a) \in Nat
  BY <1>2, <1>3, GrainType
<1>5. /\ Grain * Value(k, c) < Grain * Value(k, a) + Grain
      /\ Grain * Cost(k, c) < Grain * Cost(k, a) + Grain
  BY <1>1, <1>2, <1>3, <1>4, GrainType
<1> QED BY <1>2, <1>3, <1>5, GrainType, Cancel

\* More of a quantity is worth no more than its price, if that is v or less.
LEMMA MoreValue ==
  ASSUME NEW m \in Nat, NEW k \in Nat, NEW c \in Nat, NEW v \in Nat, k * c <= v * Grain
  PROVE  Value(m + k, c) <= Value(m, c) + v
<1>1. (m + k) * c = m * c + k * c /\ m * c \in Nat /\ k * c \in Nat /\ m + k \in Nat
  BY MorePieces
<1>2. Value(m + k, c) \in Nat /\ Grain * Value(m + k, c) <= (m + k) * c
  BY <1>1, ValueBounds
<1>3. Value(m, c) \in Nat /\ m * c < Grain * Value(m, c) + Grain
  BY ValueBounds
<1> DEFINE y == Value(m, c)
<1>4. Grain * (y + v) = Grain * y + v * Grain /\ Grain * y \in Nat /\ v * Grain \in Nat
  BY <1>3, GrainType
<1>5. Grain * Value(m + k, c) < Grain * (y + v) + Grain
  <2>1. Grain * Value(m + k, c) \in Nat
    BY <1>2, GrainType
  <2> QED BY <2>1, <1>1, <1>2, <1>3, <1>4, GrainType
<1>6. y + v \in Nat
  BY <1>3
<1> QED BY <1>2, <1>5, <1>6, GrainType, Cancel

\* More of a quantity costs no less than its price, if that is v or more.
LEMMA MoreCost ==
  ASSUME NEW m \in Nat, NEW k \in Nat, NEW c \in Nat, NEW v \in Nat, v * Grain <= k * c
  PROVE  Cost(m, c) + v <= Cost(m + k, c)
<1>1. (m + k) * c = m * c + k * c /\ m * c \in Nat /\ k * c \in Nat /\ m + k \in Nat
  BY MorePieces
<1>2. Cost(m + k, c) \in Nat /\ (m + k) * c <= Grain * Cost(m + k, c)
  BY <1>1, ValueBounds
<1>3. Cost(m, c) \in Nat /\ Grain * Cost(m, c) < m * c + Grain
  BY ValueBounds
<1> DEFINE y == Cost(m, c)
<1>4. Grain * (y + v) = Grain * y + v * Grain /\ Grain * y \in Nat /\ v * Grain \in Nat
  BY <1>3, GrainType
<1>5. Grain * (y + v) < Grain * Cost(m + k, c) + Grain
  <2>1. Grain * Cost(m + k, c) \in Nat
    BY <1>2, GrainType
  <2> QED BY <2>1, <1>1, <1>2, <1>3, <1>4, GrainType
<1>6. y + v \in Nat
  BY <1>3
<1> QED BY <1>2, <1>5, <1>6, GrainType, Cancel

\* Money buys at least one part of a coin, and no more than it pays.
LEMMA CoinsFacts ==
  ASSUME NEW v \in Nat \ {0}, NEW a \in Nat \ {0}, a <= Grain
  PROVE  Coins(v, a) \in Nat \ {0} /\ Coins(v, a) * a <= v * Grain
<1> DEFINE x == v * Grain
<1>1. x \in Nat /\ x >= Grain
  BY GrainType, SMT
<1>2. Coins(v, a) = x \div a
  BY DEF Coins
<1> HIDE DEF x
<1>3. x \div a \in Nat /\ a * (x \div a) <= x /\ x < a * (x \div a) + a
  BY <1>1, Rounding
<1>4. x \div a # 0
  <2> SUFFICES ASSUME x \div a = 0 PROVE FALSE
    OBVIOUS
  <2>1. x < a
    BY <1>3
  <2> QED BY <2>1, <1>1, GrainType
<1>5. (x \div a) * a = a * (x \div a)
  BY <1>3
<1> QED BY <1>2, <1>3, <1>4, <1>5 DEF x

\* The quantity of a short sale is worth at least the margin.
LEMMA CoinsForFacts ==
  ASSUME NEW v \in Nat \ {0}, NEW a \in Nat \ {0}
  PROVE  CoinsFor(v, a) \in Nat \ {0} /\ v * Grain <= CoinsFor(v, a) * a
<1> DEFINE x == v * Grain
           z == x + a - 1
<1>1. x \in Nat /\ x > 0
  BY GrainType, SMT
<1>2. CoinsFor(v, a) = z \div a
  BY DEF CoinsFor
<1> HIDE DEF x
<1>3. z \in Nat /\ z = x + a - 1
  BY <1>1
<1> HIDE DEF z
<1>4. z \div a \in Nat /\ z < a * (z \div a) + a
  BY <1>3, Rounding
<1>5. (z \div a) * a = a * (z \div a) /\ a * (z \div a) \in Nat
  BY <1>4
<1>6. x <= (z \div a) * a
  BY <1>1, <1>3, <1>4, <1>5
<1>7. z \div a # 0
  BY <1>1, <1>6
<1> QED BY <1>2, <1>4, <1>6, <1>7 DEF x

LEMMA BooksFields ==
  ASSUME NEW q \in Books
  PROVE  /\ q.cash \in Int /\ q.qty \in Nat /\ q.basis \in Nat /\ q.open \in Nat
         /\ q.sqty \in Nat /\ q.sbasis \in Nat /\ q.sopen \in Nat
         /\ q.pnl \in Int /\ q.fees \in Nat
BY DEF Books

\* A portfolio's worth, part by part.
LEMMA WorthParts ==
  ASSUME NEW q \in Books, NEW c \in Nat
  PROVE  /\ Value(q.qty, c) \in Nat /\ Cost(q.sqty, c) \in Nat
         /\ Worth(q, c) = q.cash + Value(q.qty, c) + (q.sbasis - Cost(q.sqty, c)) + q.sbasis
         /\ Worth(q, c) \in Int
<1>1. Value(q.qty, c) \in Nat /\ Cost(q.sqty, c) \in Nat
  BY BooksFields, ValueBounds
<1> QED BY <1>1, BooksFields DEF Worth, TotalEquity

\* Nothing is worth nothing, and costs nothing.
LEMMA NoneWorth ==
  ASSUME NEW c \in Nat
  PROVE  Value(0, c) = 0 /\ Cost(0, c) = 0
<1>1. /\ Value(0, c) \in Nat /\ Grain * Value(0, c) <= 0
      /\ Cost(0, c) \in Nat /\ Grain * Cost(0, c) < Grain
  <2>1. 0 \in Nat /\ 0 * c = 0 /\ 0 + Grain = Grain
    BY GrainType
  <2>2. /\ Value(0, c) \in Nat /\ Grain * Value(0, c) <= 0 * c
        /\ Cost(0, c) \in Nat /\ Grain * Cost(0, c) < 0 * c + Grain
    BY <2>1, ValueBounds
  <2> QED BY <2>1, <2>2
<1>2. ASSUME NEW y \in Nat, y # 0 PROVE Grain * y >= Grain
  BY <1>2, GrainType, SMT
<1> QED BY <1>1, <1>2, GrainType

LEMMA Unexecuted ==
  ASSUME NEW q, Booked(q), NEW c \in Nat
  PROVE  Executed(q, q, c)
BY WorthParts DEF Executed, Booked

\* A purchase of k parts for v in an account without any, or of some more.
LEMMA Bought ==
  ASSUME NEW q, Booked(q), NEW c \in Nat, NEW v \in Nat, NEW k \in Nat \ {0},
         k * c <= v * Grain, NEW fee \in Nat, NEW r,
         r = [q EXCEPT !.cash = q.cash - v - fee, !.qty = q.qty + k,
                       !.basis = q.basis + v, !.open = q.open + fee]
  PROVE  Executed(r, q, c)
<1>2. q \in Books
  BY DEF Booked
<1>4. /\ q.cash - v - fee \in Int /\ q.qty + k \in Nat \ {0} /\ q.basis + v \in Nat
      /\ q.open + fee \in Nat
  BY <1>2, BooksFields
<1>5. /\ r \in Books /\ r.cash = q.cash - v - fee /\ r.qty = q.qty + k
      /\ r.basis = q.basis + v /\ r.open = q.open + fee /\ r.sqty = q.sqty
      /\ r.sbasis = q.sbasis /\ r.sopen = q.sopen /\ r.pnl = q.pnl /\ r.fees = q.fees
  BY <1>2, <1>4 DEF Books
<1>6. Booked(r)
  BY <1>4, <1>5 DEF Booked
<1>7. Explained(q) => Explained(r)
  BY <1>2, <1>5, BooksFields, BacktestAssumption DEF Explained
<1>8. Worth(r, c) <= Worth(q, c)
  <2>1. Value(r.qty, c) <= Value(q.qty, c) + v
    BY <1>2, <1>5, BooksFields, MoreValue
  <2>2. Cost(r.sqty, c) = Cost(q.sqty, c)
    BY <1>5
  <2>3. /\ Worth(r, c) = r.cash + Value(r.qty, c) + (r.sbasis - Cost(r.sqty, c)) + r.sbasis
        /\ Worth(q, c) = q.cash + Value(q.qty, c) + (q.sbasis - Cost(q.sqty, c)) + q.sbasis
        /\ Value(r.qty, c) \in Nat /\ Cost(r.sqty, c) \in Nat
        /\ Value(q.qty, c) \in Nat /\ Cost(q.sqty, c) \in Nat
    BY <1>2, <1>5, WorthParts
  <2>4. q.cash \in Int /\ q.sbasis \in Nat
    BY <1>2, BooksFields
  <2> QED BY <2>1, <2>2, <2>3, <2>4, <1>5
<1> QED BY <1>6, <1>7, <1>8 DEF Executed

LEMMA SoldShort ==
  ASSUME NEW q, Booked(q), NEW c \in Nat, NEW v \in Nat, NEW k \in Nat,
         v * Grain <= k * c, NEW fee \in Nat, NEW r,
         r = [q EXCEPT !.cash = q.cash - v - fee, !.sqty = q.sqty + k,
                       !.sbasis = q.sbasis + v, !.sopen = q.sopen + fee]
  PROVE  Executed(r, q, c)
<1>2. q \in Books
  BY DEF Booked
<1>4. /\ q.cash - v - fee \in Int /\ q.sqty + k \in Nat /\ q.sbasis + v \in Nat
      /\ q.sopen + fee \in Nat
  BY <1>2, BooksFields
<1>5. /\ r \in Books /\ r.cash = q.cash - v - fee /\ r.sqty = q.sqty + k
      /\ r.sbasis = q.sbasis + v /\ r.sopen = q.sopen + fee /\ r.qty = q.qty
      /\ r.basis = q.basis /\ r.open = q.open /\ r.pnl = q.pnl /\ r.fees = q.fees
  BY <1>2, <1>4 DEF Books
<1>6. Booked(r)
  BY <1>5 DEF Booked
<1>7. Explained(q) => Explained(r)
  BY <1>2, <1>5, BooksFields, BacktestAssumption DEF Explained
<1>8. Worth(r, c) <= Worth(q, c)
  <2>1. Cost(q.sqty, c) + v <= Cost(r.sqty, c)
    BY <1>2, <1>5, BooksFields, MoreCost
  <2>2. Value(r.qty, c) = Value(q.qty, c)
    BY <1>5
  <2>3. /\ Worth(r, c) = r.cash + Value(r.qty, c) + (r.sbasis - Cost(r.sqty, c)) + r.sbasis
        /\ Worth(q, c) = q.cash + Value(q.qty, c) + (q.sbasis - Cost(q.sqty, c)) + q.sbasis
        /\ Value(r.qty, c) \in Nat /\ Cost(r.sqty, c) \in Nat
        /\ Value(q.qty, c) \in Nat /\ Cost(q.sqty, c) \in Nat
    BY <1>2, <1>5, WorthParts
  <2>4. q.cash \in Int /\ q.sbasis \in Nat
    BY <1>2, BooksFields
  <2> QED BY <2>1, <2>2, <2>3, <2>4, <1>5
<1> QED BY <1>6, <1>7, <1>8 DEF Executed

LEMMA ExitLongFacts ==
  ASSUME NEW q, Booked(q), NEW a \in Nat, NEW c \in Nat, a <= c
  PROVE  /\ Executed(ExitLong(q, a), q, c)
         /\ ExitLong(q, a).qty = 0 /\ ExitLong(q, a).sqty = q.sqty
         /\ q.cash <= ExitLong(q, a).cash
<1> DEFINE r == ExitLong(q, a)
           v == Value(q.qty, a)
           f == Fee(v)
<1>2. q \in Books
  BY DEF Booked
<1>1. v \in Nat /\ v <= Value(q.qty, c) /\ f \in Nat /\ f <= v
  BY <1>2, BooksFields, Dear, ValueBounds, FeeFacts
<1>3. r = [q EXCEPT !.cash = q.cash + v - f, !.qty = 0, !.basis = 0, !.open = 0,
                    !.pnl = q.pnl + v - f - q.basis, !.fees = q.fees + q.open]
  BY <1>2 DEF ExitLong, Books
<1> HIDE DEF v, f, r
<1>4. /\ q.cash + v - f \in Int /\ q.pnl + v - f - q.basis \in Int
      /\ q.fees + q.open \in Nat
  BY <1>1, <1>2, BooksFields
<1>5. /\ r \in Books /\ r.cash = q.cash + v - f /\ r.qty = 0 /\ r.basis = 0 /\ r.open = 0
      /\ r.sqty = q.sqty /\ r.sbasis = q.sbasis /\ r.sopen = q.sopen
      /\ r.pnl = q.pnl + v - f - q.basis /\ r.fees = q.fees + q.open
  BY <1>2, <1>3, <1>4 DEF Books
<1>6. Booked(r)
  BY <1>5 DEF Booked
<1>7. Explained(q) => Explained(r)
  BY <1>1, <1>2, <1>5, BooksFields, BacktestAssumption DEF Explained
<1>8. Worth(r, c) <= Worth(q, c)
  <2>1. Value(r.qty, c) = 0 /\ Cost(r.sqty, c) = Cost(q.sqty, c)
    BY <1>5, NoneWorth
  <2> QED BY <2>1, <1>1, <1>2, <1>5, BooksFields, WorthParts
<1>9. Executed(r, q, c) /\ q.cash <= r.cash
  BY <1>1, <1>2, <1>5, <1>6, <1>7, <1>8, BooksFields DEF Executed
<1> QED BY <1>5, <1>9 DEF r

LEMMA ExitShortFacts ==
  ASSUME NEW q, Booked(q), NEW a \in Nat, NEW c \in Nat, c <= a
  PROVE  /\ Executed(ExitShort(q, a), q, c)
         /\ ExitShort(q, a).sqty = 0 /\ ExitShort(q, a).qty = q.qty
<1> DEFINE r == ExitShort(q, a)
           v == Cost(q.sqty, a)
           f == Fee(v)
<1>2. q \in Books
  BY DEF Booked
<1>1. v \in Nat /\ Cost(q.sqty, c) <= v /\ f \in Nat
  BY <1>2, BooksFields, Dear, ValueBounds, FeeFacts
<1>3. r = [q EXCEPT !.cash = q.cash + q.sbasis + (q.sbasis - v) - f, !.sqty = 0,
                    !.sbasis = 0, !.sopen = 0, !.pnl = q.pnl + (q.sbasis - v) - f,
                    !.fees = q.fees + q.sopen]
  BY <1>2 DEF ExitShort, Books
<1> HIDE DEF v, f, r
<1>4. /\ q.cash + q.sbasis + (q.sbasis - v) - f \in Int
      /\ q.pnl + (q.sbasis - v) - f \in Int /\ q.fees + q.sopen \in Nat
  BY <1>1, <1>2, BooksFields
<1>5. /\ r \in Books /\ r.cash = q.cash + q.sbasis + (q.sbasis - v) - f
      /\ r.qty = q.qty /\ r.basis = q.basis /\ r.open = q.open
      /\ r.sqty = 0 /\ r.sbasis = 0 /\ r.sopen = 0
      /\ r.pnl = q.pnl + (q.sbasis - v) - f /\ r.fees = q.fees + q.sopen
  BY <1>2, <1>3, <1>4 DEF Books
<1>6. Booked(r)
  BY <1>5 DEF Booked
<1>7. Explained(q) => Explained(r)
  BY <1>1, <1>2, <1>5, BooksFields, BacktestAssumption DEF Explained
<1>8. Worth(r, c) <= Worth(q, c)
  <2>1. Cost(r.sqty, c) = 0 /\ Value(r.qty, c) = Value(q.qty, c)
    BY <1>5, NoneWorth
  <2> QED BY <2>1, <1>1, <1>2, <1>5, BooksFields, WorthParts
<1>9. Executed(r, q, c)
  BY <1>6, <1>7, <1>8 DEF Executed
<1> QED BY <1>5, <1>9 DEF r

\* enter_long with all the cash: whether or not its cost is rounded above the
\* cash, the cash is spent and the rest of it after the fee bought coins.
LEMMA EnterLongFacts ==
  ASSUME NEW q, Booked(q), q.qty = 0, q.cash > 0, NEW b, Spans(b), NEW over \in {0, 1}
  PROVE  LET a == BuyPrice(b)  fee == Fee(q.cash)  k == Coins(q.cash - fee, a)
             r == EnterLong(q, a, k, q.cash + over, fee)
         IN k > 0 => Executed(r, q, b.close) /\ r.cash = 0 /\ r.qty > 0 /\ r.sqty = q.sqty
<1> DEFINE a == BuyPrice(b)
           fee == Fee(q.cash)
           v == q.cash - fee
           k == Coins(v, a)
           r == EnterLong(q, a, k, q.cash + over, fee)
<1>q. q \in Books /\ q.basis = 0 /\ q.open = 0
  BY DEF Booked
<1>0. /\ b.close \in Nat /\ a \in Nat \ {0} /\ b.close <= a /\ a <= Grain
      /\ q.cash \in Nat
  BY <1>q, PriceFacts, BooksFields
<1>1. fee \in Nat /\ v \in Nat
  BY <1>0, FeeFacts
<1>2. r = [q EXCEPT !.cash = 0, !.qty = k, !.basis = v, !.open = fee]
  <2>1. CASE over = 0
    <3>1. q.cash + over = q.cash /\ ~(q.cash + over > q.cash)
      BY <2>1, <1>0
    <3>2. r = [q EXCEPT !.cash = q.cash - q.cash, !.qty = k, !.basis = q.cash - fee,
                        !.open = fee]
      BY <3>1, <1>q DEF EnterLong, Books
    <3>3. q.cash - q.cash = 0
      BY <1>0
    <3> HIDE DEF r, k, fee
    <3> QED BY <3>2, <3>3
  <2>2. CASE over = 1
    <3>1. q.cash + over > q.cash
      BY <2>2, <1>0
    <3> QED BY <3>1 DEF EnterLong
  <2> QED BY <2>1, <2>2
<1> HIDE DEF r, k, fee, v, a
<1>3. ASSUME k > 0 PROVE Executed(r, q, b.close) /\ r.cash = 0 /\ r.qty > 0 /\ r.sqty = q.sqty
  <2>1. v # 0
    <3> SUFFICES ASSUME v = 0 PROVE FALSE
      OBVIOUS
    <3>1. k = (0 * Grain) \div a
      BY DEF k, Coins
    <3>2. 0 * Grain = 0 /\ 0 \in Nat
      BY GrainType
    <3>3. 0 \div a \in Nat /\ a * (0 \div a) <= 0
      BY <1>0, Rounding
    <3>4. k \in Nat /\ a * k <= 0
      BY <3>1, <3>2, <3>3
    <3>5. a * k > 0
      BY <3>4, <1>0, <1>3, SMT
    <3> QED BY <3>4, <3>5, <1>0
  <2>2. k \in Nat \ {0} /\ k * a <= v * Grain
    BY <2>1, <1>0, <1>1, CoinsFacts DEF k
  <2>3. k * b.close <= v * Grain
    <3>1. k * b.close <= k * a /\ k * b.close \in Nat /\ k * a \in Nat
      BY <2>2, <1>0, Dearer
    <3>2. v * Grain \in Nat
      BY <1>1, GrainType
    <3> QED BY <3>1, <3>2, <2>2
  <2>4. r = [q EXCEPT !.cash = q.cash - v - fee, !.qty = q.qty + k,
                      !.basis = q.basis + v, !.open = q.open + fee]
    <3>1. /\ q.cash - v - fee = 0 /\ q.qty + k = k /\ q.basis + v = v
          /\ q.open + fee = fee
      BY <1>0, <1>1, <1>q, <2>2 DEF v
    <3> QED BY <3>1, <1>2
  <2>5. Executed(r, q, b.close)
    BY <1>0, <1>1, <2>2, <2>3, <2>4, Bought
  <2>6. r.cash = 0 /\ r.qty = k /\ r.sqty = q.sqty
    BY <1>2, <1>q DEF Books
  <2> QED BY <2>5, <2>6, <1>3
<1> QED BY <1>3 DEF r, k, fee, v, a

\* The engine for long positions, at a signal: the cash stays, and the quantity
\* is what the signal means, unless there is no cash.
LEMMA LongEngineFacts ==
  ASSUME NEW q, Booked(q), q.cash >= 0, NEW b, Spans(b), NEW signal, NEW over \in {0, 1}
  PROVE  LET r == LongEngine(q, signal, b, over) IN
         /\ Executed(r, q, b.close) /\ r.cash >= 0 /\ r.sqty = q.sqty
         /\ signal = "buy" => r.qty > 0 \/ r.cash = 0
         /\ signal = "sell" => r.qty = 0
         /\ signal \notin {"buy", "sell"} => r = q
<1> DEFINE fee == Fee(q.cash)
           a == BuyPrice(b)
           k == Coins(q.cash - fee, a)
           e == EnterLong(q, a, k, q.cash + over, fee)
           x == ExitLong(q, SellPrice(b))
           r == LongEngine(q, signal, b, over)
<1>0. /\ b.close \in Nat /\ a \in Nat \ {0} /\ a <= Grain
      /\ SellPrice(b) \in Nat /\ SellPrice(b) <= b.close
  BY PriceFacts
<1>q. q \in Books /\ q.cash \in Nat /\ q.qty \in Nat
  BY BooksFields DEF Booked
<1>r. /\ signal = "buy" => r = IF q.qty = 0 /\ k > 0 THEN e ELSE q
      /\ signal = "sell" => r = IF q.qty > 0 THEN x ELSE q
      /\ signal \notin {"buy", "sell"} => r = q
  BY DEF LongEngine
<1>e. q.qty = 0 /\ q.cash > 0 /\ k > 0 =>
        Executed(e, q, b.close) /\ e.cash = 0 /\ e.qty > 0 /\ e.sqty = q.sqty
  BY EnterLongFacts
<1>x. Executed(x, q, b.close) /\ x.qty = 0 /\ x.sqty = q.sqty /\ q.cash <= x.cash
  BY <1>0, ExitLongFacts
<1>u. Executed(q, q, b.close)
  BY <1>0, Unexecuted
\* Some cash buys something, no cash buys nothing.
<1>k. fee \in Nat /\ fee <= q.cash
  BY <1>q, FeeFacts
<1> HIDE DEF e, x, r
<1>1. CASE signal = "buy"
  <2>1. CASE q.qty = 0 /\ k > 0 /\ q.cash > 0
    BY <2>1, <1>1, <1>e, <1>r DEF r
  <2>2. CASE q.qty = 0 /\ k > 0 /\ q.cash = 0
    <3>1. q.cash - fee = 0
      BY <2>2, <1>k
    <3>2. k = (0 * Grain) \div a
      BY <3>1 DEF Coins
    <3>3. 0 * Grain = 0 /\ 0 \in Nat
      BY GrainType
    <3>4. 0 \div a \in Nat /\ a * (0 \div a) <= 0
      BY <1>0, Rounding
    <3> HIDE DEF k, a
    <3>5. k \in Nat /\ a * k <= 0
      BY <3>2, <3>3, <3>4
    <3>6. a * k > 0
      BY <3>5, <2>2, <1>0, SMT
    <3> QED BY <3>5, <3>6, <1>0
  <2>3. CASE q.qty = 0 /\ ~(k > 0)
    <3>1. q.cash - fee = 0
      <4> SUFFICES ASSUME q.cash - fee # 0 PROVE FALSE
        OBVIOUS
      <4>1. q.cash - fee \in Nat \ {0}
        BY <1>k, <1>q
      <4>2. k \in Nat \ {0}
        BY <4>1, <1>0, CoinsFacts
      <4> QED BY <4>2, <2>3
    <3>2. q.cash = 0
      <4>1. 100 * fee <= q.cash * FeePct /\ q.cash * FeePct <= q.cash * 99
        <5>1. FeePct \in Nat /\ FeePct <= 99
          BY BacktestAssumption
        <5>2. q.cash * FeePct \in Nat /\ q.cash * FeePct <= q.cash * 99
          BY <5>1, <1>q, Dearer
        <5>3. fee = (q.cash * FeePct) \div 100
          BY DEF Fee
        <5> HIDE DEF fee
        <5> QED BY <5>2, <5>3, Hundredths
      <4>2. q.cash * FeePct \in Nat
        BY <1>q, BacktestAssumption
      <4> HIDE DEF fee
      <4>3. 100 * fee <= q.cash * 99
        BY <4>1, <4>2, <1>k, <1>q
      <4> QED BY <4>3, <3>1, <1>k, <1>q
    <3> QED BY <3>2, <2>3, <1>1, <1>r, <1>u, <1>q DEF r
  <2>4. CASE q.qty > 0
    BY <2>4, <1>1, <1>r, <1>u, <1>q DEF r
  <2>5. q.qty = 0 \/ q.qty > 0
    BY <1>q
  <2>6. q.cash = 0 \/ q.cash > 0
    BY <1>q
  <2> QED BY <2>1, <2>2, <2>3, <2>4, <2>5, <2>6
<1>2. CASE signal = "sell"
  <2>1. CASE q.qty > 0
    <3>1. x.cash \in Int
      BY <1>x, BooksFields DEF Executed, Booked
    <3>2. r = x
      BY <2>1, <1>2, <1>r
    <3> QED BY <3>1, <3>2, <1>2, <1>x, <1>q DEF r
  <2>2. CASE ~(q.qty > 0)
    BY <2>2, <1>2, <1>r, <1>u, <1>q DEF r
  <2> QED BY <2>1, <2>2
<1>3. CASE signal \notin {"buy", "sell"}
  BY <1>3, <1>r, <1>u, <1>q DEF r
<1> QED BY <1>1, <1>2, <1>3

LEMMA NetFacts ==
  ASSUME NEW q \in Books
  PROVE  /\ Net(q) \in Nat /\ Fee(Unit) \in Nat
         /\ Net(q) = 0 <=> Size(q) <= Fee(Unit)
         /\ ~(q.cash > 0) => Net(q) = 0
<1>1. q.cash \in Int /\ Unit \in Nat
  BY BooksFields, StrategyAssumption
<1>2. Size(q) \in Int /\ Size(q) <= q.cash
  BY <1>1 DEF Size, Least
<1>3. Fee(Unit) \in Nat
  BY <1>1, FeeFacts
<1> QED BY <1>1, <1>2, <1>3 DEF Net

\* A unit more of a long or short position, if there is money for it.
LEMMA AddFacts ==
  ASSUME NEW q, Booked(q), NEW b, Spans(b)
  PROVE  LET l == AddLong(q, BuyPrice(b))  m == AddShort(q, SellPrice(b)) IN
         /\ Executed(l, q, b.close) /\ Executed(m, q, b.close)
         /\ Net(q) = 0 => l = q /\ m = q
         /\ Net(q) # 0 => l.qty > 0 /\ l.sqty = q.sqty /\ m.sqty > 0 /\ m.qty = q.qty
<1> DEFINE a == BuyPrice(b)
           d == SellPrice(b)
           l == AddLong(q, a)
           m == AddShort(q, d)
           v == Net(q)
           fee == Fee(Unit)
           k == Coins(v, a)
           h == CoinsFor(v, d)
<1>0. /\ b.close \in Nat /\ a \in Nat \ {0} /\ b.close <= a /\ a <= Grain
      /\ d \in Nat \ {0} /\ d <= b.close
  BY PriceFacts
<1>q. q \in Books /\ q.qty \in Nat /\ q.sqty \in Nat
  BY BooksFields DEF Booked
<1>1. v \in Nat /\ fee \in Nat
  BY <1>q, NetFacts
<1>2. /\ v = 0 => l = q /\ m = q
      /\ v # 0 =>
           /\ l = [q EXCEPT !.cash = q.cash - v - fee, !.qty = q.qty + k,
                            !.basis = q.basis + v, !.open = q.open + fee]
           /\ m = [q EXCEPT !.cash = q.cash - v - fee, !.sqty = q.sqty + h,
                            !.sbasis = q.sbasis + v, !.sopen = q.sopen + fee]
  BY <1>q DEF AddLong, AddShort, Books
<1> HIDE DEF a, d, l, m, v, fee, k, h
<1>3. CASE v = 0
  BY <1>2, <1>3, <1>0, Unexecuted DEF l, m, v, a, d
<1>4. CASE v # 0
  <2>1. k \in Nat \ {0} /\ k * a <= v * Grain
    BY <1>0, <1>1, <1>4, CoinsFacts DEF k
  <2>2. h \in Nat \ {0} /\ v * Grain <= h * d
    BY <1>0, <1>1, <1>4, CoinsForFacts DEF h
  <2>3. v * Grain \in Nat
    BY <1>1, GrainType
  <2>4. k * b.close <= v * Grain
    <3>1. k * b.close <= k * a /\ k * b.close \in Nat /\ k * a \in Nat
      BY <2>1, <1>0, Dearer
    <3> QED BY <3>1, <2>1, <2>3
  <2>5. v * Grain <= h * b.close
    <3>1. h * d <= h * b.close /\ h * b.close \in Nat /\ h * d \in Nat
      BY <2>2, <1>0, Dearer
    <3> QED BY <3>1, <2>2, <2>3
  <2>6. Executed(l, q, b.close)
    BY <1>0, <1>1, <1>2, <1>4, <2>1, <2>4, Bought
  <2>7. Executed(m, q, b.close)
    BY <1>0, <1>1, <1>2, <1>4, <2>2, <2>5, SoldShort
  <2>8. l.qty > 0 /\ l.sqty = q.sqty
    <3>1. l.qty = q.qty + k /\ l.sqty = q.sqty
      BY <1>2, <1>4, <1>q DEF Books
    <3> QED BY <3>1, <2>1, <1>q
  <2>9. m.sqty > 0 /\ m.qty = q.qty
    <3>1. m.sqty = q.sqty + h /\ m.qty = q.qty
      BY <1>2, <1>4, <1>q DEF Books
    <3> QED BY <3>1, <2>2, <1>q
  <2> QED BY <1>4, <2>6, <2>7, <2>8, <2>9 DEF l, m, v, a, d
<1> QED BY <1>3, <1>4

LEMMA LSEngineFacts ==
  ASSUME NEW q, Booked(q), NEW b, Spans(b), NEW signal
  PROVE  Executed(LSEngine(q, signal, b), q, b.close)
<1> DEFINE a == BuyPrice(b)
           d == SellPrice(b)
           r == LSEngine(q, signal, b)
<1>0. /\ b.close \in Nat /\ a \in Nat \ {0} /\ b.close <= a
      /\ d \in Nat \ {0} /\ d <= b.close
  BY PriceFacts
<1>r. \/ r = AddLong(q, a) \/ r = ExitLong(q, d) \/ r = AddShort(q, d)
      \/ r = ExitShort(q, a) \/ r = q
  BY DEF LSEngine
<1>a. Executed(AddLong(q, a), q, b.close) /\ Executed(AddShort(q, d), q, b.close)
  BY AddFacts
<1>x. Executed(ExitLong(q, d), q, b.close) /\ Executed(ExitShort(q, a), q, b.close)
  BY <1>0, ExitLongFacts, ExitShortFacts
<1>u. Executed(q, q, b.close)
  BY <1>0, Unexecuted
<1> HIDE DEF a, d, r
<1>1. Executed(r, q, b.close)
  BY <1>r, <1>a, <1>x, <1>u, Zenon
<1> QED BY <1>1 DEF r

LEMMA EngineFacts ==
  ASSUME NEW q, Booked(q), NEW b, Spans(b), NEW kind, NEW signal, NEW over \in {0, 1},
         kind # "ls" => q.cash >= 0
  PROVE  LET r == Engine(kind, q, signal, b, over) IN
         Executed(r, q, b.close) /\ (kind # "ls" => r.cash >= 0)
BY LongEngineFacts, LSEngineFacts DEF Engine

-----------------------------------------------------------------------------
(* The portfolio follows the signals *)

\* The signal of a step from x to y is the one that its change of position, or
\* an add to the position, means.
Signalled(x, y) ==
  \/ y.signal = "hold" /\ y.pos = x.pos
  \/ y.signal = "buy" /\ x.pos \in {"none", "long"} /\ y.pos = "long"
  \/ y.signal = "sell" /\ x.pos = "long" /\ y.pos = "none"
  \/ y.signal = "short" /\ x.pos \in {"none", "short"} /\ y.pos = "short"
  \/ y.signal = "cover" /\ x.pos = "short" /\ y.pos = "none"

\* InStep, of a strategy at x and the portfolio q of an engine.
Follows(kind, q, x) ==
  /\ q.qty > 0 => x.pos = "long"
  /\ q.sqty > 0 => x.pos = "short" /\ kind = "ls"
  /\ x.pos = "long" => q.qty > 0 \/ Broke(kind, q)
  /\ x.pos = "short" /\ kind = "ls" => q.sqty > 0 \/ Broke(kind, q)

\* A pyramid signals its entry, its adds and its exit.
LEMMA PyramidSignals ==
  ASSUME NEW x \in State, NEW c, x.pos # "short"
  PROVE  Signalled(x, PyramidStep(x, c))
<1> DEFINE y == PyramidStep(x, c)
           h == [x EXCEPT !.peak = Most(@, c), !.signal = "hold"]
<1>0. x.pos \in {"none", "long"}
  BY DEF State
<1>1. CASE x.pos = "none" /\ Rises(x.low, c)
  <2>1. y = [Opened(x, "long", c) EXCEPT !.signal = "buy"]
    BY <1>1 DEF PyramidStep
  <2>2. y.pos = "long" /\ y.signal = "buy"
    BY <2>1 DEF Opened, State
  <2> HIDE DEF y
  <2>3. Signalled(x, y)
    BY <2>2, <1>1 DEF Signalled
  <2> QED BY <2>3 DEF y
<1>2. CASE x.pos = "none" /\ ~Rises(x.low, c)
  <2>1. y = [x EXCEPT !.low = Least(@, c), !.signal = "hold"]
    BY <1>2 DEF PyramidStep
  <2>2. y.pos = x.pos /\ y.signal = "hold"
    BY <2>1 DEF State
  <2> HIDE DEF y
  <2>3. Signalled(x, y)
    BY <2>2 DEF Signalled
  <2> QED BY <2>3 DEF y
<1>3. CASE x.pos = "long"
  <2>1. \/ y = [Closed(h, c) EXCEPT !.signal = "sell"]
        \/ y = [Added(h, c) EXCEPT !.signal = "buy"]
        \/ y = h
    BY <1>3 DEF PyramidStep
  <2>2. \/ y.pos = "none" /\ y.signal = "sell"
        \/ y.pos = "long" /\ y.signal = "buy"
        \/ y.pos = x.pos /\ y.signal = "hold"
    BY <2>1, <1>3 DEF Closed, Added, State
  <2> HIDE DEF y
  <2>3. Signalled(x, y)
    BY <2>2, <1>3 DEF Signalled
  <2> QED BY <2>3 DEF y
<1> QED BY <1>0, <1>1, <1>2, <1>3

\* So does the one that may be short, on either side.
LEMMA LSSignals ==
  ASSUME NEW x \in State, NEW c
  PROVE  Signalled(x, LSStep(x, c))
<1> DEFINE y == LSStep(x, c)
           w == Watching(x, c)
           h == [x EXCEPT !.peak = IF x.pos = "short" THEN Least(@, c) ELSE Most(@, c),
                          !.signal = "hold"]
           out == [Closed(h, c) EXCEPT !.high = c]
<1>0. x.pos \in {"none", "long", "short"}
  BY DEF State
<1>1. CASE x.pos = "none"
  <2>1. \/ y = [Opened(w, "long", c) EXCEPT !.high = c, !.signal = "buy"]
        \/ y = [Opened(w, "short", c) EXCEPT !.low = c, !.signal = "short"]
        \/ y = w
    BY <1>1 DEF LSStep
  <2>2. \/ y.pos = "long" /\ y.signal = "buy"
        \/ y.pos = "short" /\ y.signal = "short"
        \/ y.pos = x.pos /\ y.signal = "hold"
    BY <2>1 DEF Opened, Watching, State
  <2> HIDE DEF y
  <2>3. Signalled(x, y)
    BY <2>2, <1>1 DEF Signalled
  <2> QED BY <2>3 DEF y
<1>2. CASE x.pos = "long"
  <2>1. \/ y = [out EXCEPT !.signal = "sell"]
        \/ y = [Added(h, c) EXCEPT !.signal = "buy"]
        \/ y = h
    BY <1>2 DEF LSStep
  <2>2. \/ y.pos = "none" /\ y.signal = "sell"
        \/ y.pos = "long" /\ y.signal = "buy"
        \/ y.pos = x.pos /\ y.signal = "hold"
    BY <2>1, <1>2 DEF Closed, Added, State
  <2> HIDE DEF y
  <2>3. Signalled(x, y)
    BY <2>2, <1>2 DEF Signalled
  <2> QED BY <2>3 DEF y
<1>3. CASE x.pos = "short"
  <2>1. \/ y = [out EXCEPT !.signal = "cover"]
        \/ y = [Added(h, c) EXCEPT !.signal = "short"]
        \/ y = h
    BY <1>3 DEF LSStep
  <2>2. \/ y.pos = "none" /\ y.signal = "cover"
        \/ y.pos = "short" /\ y.signal = "short"
        \/ y.pos = x.pos /\ y.signal = "hold"
    BY <2>1, <1>3 DEF Closed, Added, State
  <2> HIDE DEF y
  <2>3. Signalled(x, y)
    BY <2>2, <1>3 DEF Signalled
  <2> QED BY <2>3 DEF y
<1> QED BY <1>0, <1>1, <1>2, <1>3

\* breakout_n, trend_follow and ma_cross signal in the same way.
LEMMA BarSignals ==
  ASSUME NEW x \in State, NEW b, NEW bars, x.pos # "short"
  PROVE  /\ Signalled(x, BreakoutStep(x, bars, b))
         /\ Signalled(x, TrendStep(x, b))
         /\ Signalled(x, CrossStep(x, bars, b))
<1> DEFINE q == [x EXCEPT !.signal = "hold"]
           w == [x EXCEPT !.low = Least(@, b.close), !.signal = "hold"]
           h == Higher(x, b)
           out == [Sells(h) EXCEPT !.low = b.close]
<1>0. x.pos \in {"none", "long"}
  BY DEF State
<1>1. /\ q.pos = x.pos /\ q.signal = "hold" /\ w.pos = x.pos /\ w.signal = "hold"
      /\ h.pos = x.pos /\ h.signal = "hold"
  BY DEF State, Higher
<1>2. /\ Buys(x, b).pos = "long" /\ Buys(x, b).signal = "buy"
      /\ Buys(w, b).pos = "long" /\ Buys(w, b).signal = "buy"
  BY DEF State, Buys
<1>3. /\ Sells(h).pos = "none" /\ Sells(h).signal = "sell"
      /\ out.pos = "none" /\ out.signal = "sell"
  BY DEF State, Sells, Higher
<1>4. \A y : \/ y \in {q, w, h}
             \/ x.pos = "none" /\ y \in {Buys(x, b), Buys(w, b)}
             \/ x.pos = "long" /\ y \in {Sells(h), out}
             => Signalled(x, y)
  <2> HIDE DEF q, w, h, out
  <2> QED BY <1>1, <1>2, <1>3 DEF Signalled
<1>5. \/ BreakoutStep(x, bars, b) \in {q, h}
      \/ x.pos = "none" /\ BreakoutStep(x, bars, b) = Buys(x, b)
      \/ x.pos = "long" /\ BreakoutStep(x, bars, b) = Sells(h)
  BY <1>0 DEF BreakoutStep
<1>6. \/ TrendStep(x, b) \in {w, h}
      \/ x.pos = "none" /\ TrendStep(x, b) = Buys(w, b)
      \/ x.pos = "long" /\ TrendStep(x, b) = out
  BY <1>0 DEF TrendStep
<1>7. \/ CrossStep(x, bars, b) \in {q, h}
      \/ x.pos = "none" /\ CrossStep(x, bars, b) = Buys(x, b)
      \/ x.pos = "long" /\ CrossStep(x, bars, b) = Sells(h)
  BY <1>0 DEF CrossStep
<1> HIDE DEF q, w, h, out
<1> QED BY <1>4, <1>5, <1>6, <1>7

\* The turtle signals its entries and exits; a skipped break-out changes nothing.
LEMMA TurtleSignals ==
  ASSUME NEW x \in State, NEW b, NEW bars, x.pos # "short"
  PROVE  Signalled(x, TurtleStep(x, bars, b))
<1> DEFINE q == [x EXCEPT !.signal = "hold"]
           g == b.close > x.entry
           y == TurtleStep(x, bars, b)
<1>0. x.pos \in {"none", "long"}
  BY DEF State
<1>1. \/ y = q \/ y = [q EXCEPT !.won = FALSE]
      \/ /\ x.pos = "none"
         /\ y = [q EXCEPT !.pos = "long", !.entry = b.close, !.signal = "buy"]
      \/ /\ x.pos = "long"
         /\ y = [q EXCEPT !.pos = "none", !.won = g, !.entry = 0, !.signal = "sell"]
  BY <1>0 DEF TurtleStep
<1>2. \/ y.pos = x.pos /\ y.signal = "hold"
      \/ x.pos = "none" /\ y.pos = "long" /\ y.signal = "buy"
      \/ x.pos = "long" /\ y.pos = "none" /\ y.signal = "sell"
  <2> HIDE DEF y, g
  <2> QED BY <1>1 DEF State
<1> HIDE DEF y
<1>3. Signalled(x, y)
  BY <1>2 DEF Signalled
<1> QED BY <1>3 DEF y

\* Every strategy with a position signals its changes.
LEMMA StepSignals ==
  ASSUME NEW strategy \in Names \ Memoryless, NEW x \in State, NEW b, NEW bars,
         x.pos = "short" => strategy = "pyramid_breakout_ls"
  PROVE  Signalled(x, Step(strategy, x, bars, b))
<1>1. strategy \in {"pyramid_breakout", "pyramid_breakout_ls", "breakout_n", "trend_follow",
                    "ma_cross", "turtle"}
  BY BacktestAssumption DEF Memoryless
<1>2. CASE strategy = "pyramid_breakout"
  BY <1>2, PyramidSignals DEF Step
<1>3. CASE strategy = "pyramid_breakout_ls"
  BY <1>3, LSSignals DEF Step
<1>4. CASE strategy \in {"breakout_n", "trend_follow", "ma_cross"}
  BY <1>4, BarSignals DEF Step
<1>5. CASE strategy = "turtle"
  BY <1>5, TurtleSignals DEF Step
<1> QED BY <1>1, <1>2, <1>3, <1>4, <1>5

\* The engine for long positions buys unless there is no cash, sells whatever it
\* has, and does nothing about a short position.
LEMMA LongFollows ==
  ASSUME NEW kind, kind # "ls", NEW b, Spans(b), NEW q, Booked(q), q.cash >= 0,
         NEW over \in {0, 1}, NEW x, NEW y, Follows(kind, q, x), Signalled(x, y)
  PROVE  Follows(kind, LongEngine(q, y.signal, b, over), y)
<1> DEFINE r == LongEngine(q, y.signal, b, over)
<1>0. q.cash \in Int /\ q.qty \in Nat /\ q.sqty \in Nat
  BY BooksFields DEF Booked
<1>1. /\ r.sqty = q.sqty
      /\ y.signal = "buy" => r.qty > 0 \/ r.cash = 0
      /\ y.signal = "sell" => r.qty = 0
      /\ y.signal \notin {"buy", "sell"} => r = q
  BY LongEngineFacts
<1> HIDE DEF r
<1>2. q.sqty = 0
  BY <1>0 DEF Follows
<1>3. CASE y.signal = "buy"
  BY <1>1, <1>2, <1>3 DEF Follows, Signalled, Broke, r
<1>4. CASE y.signal = "sell"
  BY <1>1, <1>2, <1>4 DEF Follows, Signalled, Broke, r
<1>5. CASE y.signal \notin {"buy", "sell"}
  <2>1. r = q
    BY <1>1, <1>5
  <2>2. Follows(kind, q, y)
    <3>1. (y.pos = "long" => x.pos = "long") /\ (x.pos = "long" => y.pos = "long")
      BY <1>5 DEF Signalled
    <3> QED BY <3>1, <1>0, <1>2 DEF Follows
  <2> QED BY <2>1, <2>2 DEF r
<1> QED BY <1>3, <1>4, <1>5

\* The long/short engine enters a side unless the cash pays no more than the
\* fee, and ends the side that it has.
LEMMA LSFollows ==
  ASSUME NEW b, Spans(b), NEW q, Booked(q), NEW x, NEW y,
         Follows("ls", q, x), Signalled(x, y)
  PROVE  Follows("ls", LSEngine(q, y.signal, b), y)
<1> DEFINE a == BuyPrice(b)
           d == SellPrice(b)
           l == AddLong(q, a)
           m == AddShort(q, d)
           el == ExitLong(q, d)
           es == ExitShort(q, a)
           r == LSEngine(q, y.signal, b)
<1>0. /\ b.close \in Nat /\ a \in Nat /\ b.close <= a /\ d \in Nat /\ d <= b.close
      /\ q \in Books /\ q.qty \in Nat /\ q.sqty \in Nat /\ q.cash \in Int
  BY PriceFacts, BooksFields DEF Booked
<1>1. /\ Net(q) = 0 => l = q /\ m = q
      /\ Net(q) # 0 => l.qty > 0 /\ l.sqty = q.sqty /\ m.sqty > 0 /\ m.qty = q.qty
  BY AddFacts
<1>2. el.qty = 0 /\ el.sqty = q.sqty /\ es.sqty = 0 /\ es.qty = q.qty
  BY <1>0, ExitLongFacts, ExitShortFacts
<1>3. (Net(q) = 0 => Broke("ls", q)) /\ (~(q.cash > 0) => Net(q) = 0)
  BY <1>0, NetFacts DEF Broke
<1>4. /\ y.signal = "buy" => r = IF q.cash > 0 THEN l ELSE q
      /\ y.signal = "sell" => r = IF q.qty > 0 THEN el ELSE q
      /\ y.signal = "short" => r = IF q.cash > 0 THEN m ELSE q
      /\ y.signal = "cover" => r = IF q.sqty > 0 THEN es ELSE q
      /\ y.signal = "hold" => r = q
  BY DEF LSEngine
<1> HIDE DEF a, d, l, m, el, es, r
<1>5. /\ x.pos # "short" => q.sqty = 0
      /\ x.pos # "long" => q.qty = 0
  BY <1>0 DEF Follows
<1>6. CASE y.signal = "buy"
  <2>1. y.pos = "long" /\ q.sqty = 0
    BY <1>5, <1>6 DEF Signalled
  <2>2. CASE Net(q) # 0
    BY <2>1, <2>2, <1>1, <1>3, <1>4, <1>6 DEF Follows, r
  <2>3. CASE Net(q) = 0
    BY <2>1, <2>3, <1>1, <1>3, <1>4, <1>6 DEF Follows, r
  <2> QED BY <2>2, <2>3
<1>7. CASE y.signal = "sell"
  <2>1. y.pos = "none" /\ q.sqty = 0
    BY <1>5, <1>7 DEF Signalled
  <2>2. r.qty = 0 /\ r.sqty = 0
    BY <2>1, <1>0, <1>2, <1>4, <1>7
  <2> QED BY <2>1, <2>2 DEF Follows, r
<1>8. CASE y.signal = "short"
  <2>1. y.pos = "short" /\ q.qty = 0
    BY <1>5, <1>8 DEF Signalled
  <2>2. CASE Net(q) # 0
    BY <2>1, <2>2, <1>1, <1>3, <1>4, <1>8 DEF Follows, r
  <2>3. CASE Net(q) = 0
    BY <2>1, <2>3, <1>1, <1>3, <1>4, <1>8 DEF Follows, r
  <2> QED BY <2>2, <2>3
<1>9. CASE y.signal = "cover"
  <2>1. y.pos = "none" /\ q.qty = 0
    BY <1>5, <1>9 DEF Signalled
  <2>2. r.qty = 0 /\ r.sqty = 0
    BY <2>1, <1>0, <1>2, <1>4, <1>9
  <2> QED BY <2>1, <2>2 DEF Follows, r
<1>10. CASE y.signal = "hold"
  BY <1>4, <1>10 DEF Follows, Signalled, r
<1>11. y.signal \in {"hold", "buy", "sell", "short", "cover"}
  BY DEF Signalled
<1> QED BY <1>6, <1>7, <1>8, <1>9, <1>10, <1>11

-----------------------------------------------------------------------------
(* The induction *)

\* The strategies are independent of each other: one conjunct for each kind.
IInv ==
  /\ name \in Names /\ n \in Nat
  /\ engine \in {"long", "ls"} /\ (engine = "ls" => name = "pyramid_breakout_ls")
  /\ past \in Seq(BarType) /\ Len(past) \in 1..LookBack(name) /\ Spans(Now)
  /\ s \in State /\ (s.pos = "short" => name = "pyramid_breakout_ls")
  /\ name \in Pyramids => Sound(s, Now.close)
  /\ name \in {"breakout_n", "trend_follow", "ma_cross"} => Unstopped(s, Now)
  /\ name = "breakout_n" /\ Len(past) < Window => s.pos = "none"
  /\ name = "turtle" => Floored(s, Now) /\ (Early(past) => s.pos = "none")
  /\ name = "pyramid_breakout" => Copied(ind, s)
  /\ Booked(p) /\ Explained(p) /\ (engine = "long" => p.cash >= 0)

LEMMA LookBackFacts ==
  ASSUME NEW strategy
  PROVE  LookBack(strategy) \in Nat \ {0}
BY StrategyAssumption DEF LookBack, Most

LEMMA KeptFacts ==
  ASSUME NEW strategy, NEW bars \in Seq(BarType), NEW b \in BarType,
         Len(bars) \in 1..LookBack(strategy)
  PROVE  LET k == Kept(strategy, Append(bars, b)) IN
         /\ k \in Seq(BarType) /\ Len(k) \in 1..LookBack(strategy)
         /\ Len(bars) <= Len(k) /\ (Len(bars) < LookBack(strategy) => Len(bars) < Len(k))
         /\ k[Len(k)] = b
<1> DEFINE a == Append(bars, b)
           m == LookBack(strategy)
           k == Kept(strategy, a)
<1>1. a \in Seq(BarType) /\ Len(a) = Len(bars) + 1 /\ a[Len(a)] = b /\ Len(bars) \in Nat
  OBVIOUS
<1>2. m \in Nat \ {0}
  BY LookBackFacts
<1>3. k = IF Len(a) > m THEN Tail(a) ELSE a
  BY DEF Kept
<1> HIDE DEF a, k, m
<1>4. CASE Len(a) > m
  <2>1. k = Tail(a) /\ Len(a) = m + 1 /\ Len(bars) = m
    BY <1>1, <1>2, <1>3, <1>4 DEF m
  <2>2. k \in Seq(BarType) /\ Len(k) = m /\ k[m] = a[m + 1]
    BY <2>1, <1>1, <1>2
  <2> QED BY <2>1, <2>2, <1>1, <1>2 DEF m, k, a
<1>5. CASE ~(Len(a) > m)
  <2>1. k = a
    BY <1>3, <1>5
  <2> QED BY <2>1, <1>1, <1>2, <1>5 DEF m, k, a
<1> QED BY <1>4, <1>5

\* What Step keeps, whatever the strategy.
LEMMA StepFacts ==
  ASSUME NEW strategy \in Names, NEW x \in State, NEW d, NEW bars, NEW b, Spans(b),
         x.pos = "short" => strategy = "pyramid_breakout_ls",
         strategy \in Pyramids => Sound(x, d),
         strategy = "breakout_n" /\ Len(bars) < Window => x.pos = "none",
         strategy = "turtle" => (Early(bars) => x.pos = "none")
  PROVE  LET y == Step(strategy, x, bars, b) IN
         /\ y \in State /\ (y.pos = "short" => strategy = "pyramid_breakout_ls")
         /\ strategy \in Pyramids => Sound(y, b.close)
         /\ strategy \in {"breakout_n", "trend_follow", "ma_cross"} => Unstopped(y, b)
         /\ strategy = "breakout_n" /\ Len(bars) < Window => y.pos = "none"
         /\ strategy = "turtle" => Floored(y, b) /\ (Early(bars) => y.pos = "none")
<1>0. b.close \in Closes
  BY DEF Spans, BarType
<1>1. CASE strategy = "pyramid_breakout"
  <2>1. Step(strategy, x, bars, b) = PyramidStep(x, b.close)
    BY <1>1 DEF Step
  <2>2. x.pos # "short" /\ Sound(x, d)
    BY <1>1 DEF Pyramids
  <2> QED BY <1>0, <1>1, <2>1, <2>2, PyramidFacts
<1>2. CASE strategy = "pyramid_breakout_ls"
  <2>1. Step(strategy, x, bars, b) = LSStep(x, b.close)
    BY <1>2 DEF Step
  <2>2. Sound(x, d)
    BY <1>2 DEF Pyramids
  <2> QED BY <1>0, <1>2, <2>1, <2>2, LSFacts
<1>3. CASE strategy = "breakout_n"
  <2>1. Step(strategy, x, bars, b) = BreakoutStep(x, bars, b)
    BY <1>3 DEF Step
  <2>2. x.pos # "short" /\ strategy \notin Pyramids
    BY <1>3 DEF Pyramids
  <2> QED BY <1>3, <2>1, <2>2, BreakoutFacts
<1>4. CASE strategy = "trend_follow"
  <2>1. Step(strategy, x, bars, b) = TrendStep(x, b)
    BY <1>4 DEF Step
  <2>2. x.pos # "short" /\ strategy \notin Pyramids
    BY <1>4 DEF Pyramids
  <2> QED BY <1>4, <2>1, <2>2, TrendFacts
<1>5. CASE strategy = "ma_cross"
  <2>1. Step(strategy, x, bars, b) = CrossStep(x, bars, b)
    BY <1>5 DEF Step
  <2>2. x.pos # "short" /\ strategy \notin Pyramids
    BY <1>5 DEF Pyramids
  <2> QED BY <1>5, <2>1, <2>2, CrossFacts
<1>6. CASE strategy = "turtle"
  <2>1. Step(strategy, x, bars, b) = TurtleStep(x, bars, b)
    BY <1>6 DEF Step
  <2>2. x.pos # "short" /\ strategy \notin Pyramids
    BY <1>6 DEF Pyramids
  <2> QED BY <1>6, <2>1, <2>2, TurtleFacts
<1>7. CASE strategy = "momentum"
  <2>1. Step(strategy, x, bars, b) = MomentumStep(x, b)
    BY <1>7 DEF Step
  <2>2. x.pos # "short" /\ strategy \notin Pyramids
    BY <1>7 DEF Pyramids
  <2> QED BY <1>7, <2>1, <2>2, MomentumFacts
<1>8. CASE strategy = "mean_reversion"
  <2>1. Step(strategy, x, bars, b) = ReversionStep(x, bars, b)
    BY <1>8 DEF Step
  <2>2. x.pos # "short" /\ strategy \notin Pyramids
    BY <1>8 DEF Pyramids
  <2> QED BY <1>8, <2>1, <2>2, ReversionFacts
<1> QED BY <1>1, <1>2, <1>3, <1>4, <1>5, <1>6, <1>7, <1>8, BacktestAssumption

LEMMA InitIInv == Init => IInv
<1> SUFFICES ASSUME Init PROVE IInv
  OBVIOUS
<1>1. PICK b \in Bars(name) : past = <<b>> /\ s = Fresh(b.close)
  BY DEF Init
<1>2. name \in Names /\ ind = s /\ n = 1 /\ p = Empty
  BY DEF Init
<1>3. Spans(b)
  BY <1>2, BarFacts
<1>4. b \in BarType /\ b.close \in Nat
  BY <1>3, CloseFacts DEF Spans, BarType
<1>5. past \in Seq(BarType) /\ Len(past) = 1 /\ Now = b
  BY <1>1, <1>4 DEF Now
<1>6. Len(past) \in 1..LookBack(name)
  BY <1>5, LookBackFacts
<1>7. s \in State /\ s.pos = "none"
  BY <1>1, <1>4 DEF Fresh, State
<1>8. Sound(s, Now.close) /\ Unstopped(s, Now)
  BY <1>7 DEF Sound, Unstopped
<1>11. Floored(s, Now)
  BY <1>7 DEF Floored
<1>12. engine \in {"long", "ls"} /\ (engine = "ls" => name = "pyramid_breakout_ls")
  BY DEF Init
<1>9. Copied(ind, s)
  BY <1>2, <1>7 DEF Copied
<1>10. Booked(p) /\ Explained(p)
  BY <1>2, BacktestAssumption DEF Empty, Booked, Books, Explained
<1>13. p.cash >= 0
  BY <1>2, BacktestAssumption DEF Empty
<1> QED BY <1>2, <1>3, <1>5, <1>6, <1>7, <1>8, <1>9, <1>10, <1>11, <1>12, <1>13 DEF IInv

\* One bar; its execution is looked at by FillsNeverProfit, too.
LEMMA BarKept ==
  ASSUME IInv, OneBar
  PROVE  IInv' /\ Executed(p', p, (Now').close)
<1>1. PICK b \in Bars(name) :
        /\ past' = Kept(name, Append(past, b))
        /\ s' = Step(name, s, past, b)
        /\ ind' = IF name = "pyramid_breakout" THEN IndicatorStep(ind, b.close) ELSE ind
        /\ \E over \in {0, 1} : p' = Engine(engine, p, s'.signal, b, over)
  BY DEF OneBar
<1>2. /\ name' = name /\ engine' = engine /\ n' = n + 1 /\ name \in Names /\ n \in Nat
      /\ engine \in {"long", "ls"} /\ (engine = "ls" => name = "pyramid_breakout_ls")
  BY DEF OneBar, IInv
<1>3. Spans(b) /\ b \in BarType /\ b.close \in Closes
  BY <1>2, BarFacts DEF Spans, BarType
<1>4. /\ past' \in Seq(BarType) /\ Len(past') \in 1..LookBack(name)
      /\ Len(past) < LookBack(name) => Len(past) < Len(past')
      /\ Len(past) <= Len(past') /\ Now' = b
  BY <1>1, <1>3, KeptFacts DEF IInv, Now
<1>5. /\ s' \in State /\ (s'.pos = "short" => name = "pyramid_breakout_ls")
      /\ name \in Pyramids => Sound(s', b.close)
      /\ name \in {"breakout_n", "trend_follow", "ma_cross"} => Unstopped(s', b)
      /\ name = "breakout_n" /\ Len(past) < Window => s'.pos = "none"
      /\ name = "turtle" => Floored(s', b) /\ (Early(past) => s'.pos = "none")
  <2>1. /\ s \in State /\ (s.pos = "short" => name = "pyramid_breakout_ls")
        /\ name \in Pyramids => Sound(s, Now.close)
        /\ name = "breakout_n" /\ Len(past) < Window => s.pos = "none"
        /\ name = "turtle" => (Early(past) => s.pos = "none")
    BY DEF IInv
  <2> DEFINE y == Step(name, s, past, b)
  <2>2. /\ y \in State /\ (y.pos = "short" => name = "pyramid_breakout_ls")
        /\ name \in Pyramids => Sound(y, b.close)
        /\ name \in {"breakout_n", "trend_follow", "ma_cross"} => Unstopped(y, b)
        /\ name = "breakout_n" /\ Len(past) < Window => y.pos = "none"
        /\ name = "turtle" => Floored(y, b) /\ (Early(past) => y.pos = "none")
    BY <2>1, <1>2, <1>3, StepFacts
  <2>3. s' = y
    BY <1>1
  <2> QED BY <2>2, <2>3
<1>6. name = "breakout_n" /\ Len(past') < Window => s'.pos = "none"
  BY <1>4, <1>5, StrategyAssumption DEF IInv, LookBack
<1>10. name = "turtle" /\ Early(past') => s'.pos = "none"
  <2> SUFFICES ASSUME name = "turtle", Early(past') PROVE s'.pos = "none"
    OBVIOUS
  <2>1. Len(past) \in Nat /\ Len(past') \in Nat
    BY <1>4, LookBackFacts DEF IInv
  <2>2. Early(past)
    BY <2>1, <1>4, StrategyAssumption DEF Early
  <2> QED BY <2>2, <1>5
<1>7. name = "pyramid_breakout" => Copied(ind', s')
  <2> SUFFICES ASSUME name = "pyramid_breakout" PROVE Copied(ind', s')
    OBVIOUS
  <2>1. s' = PyramidStep(s, b.close) /\ ind' = IndicatorStep(ind, b.close)
    BY <1>1 DEF Step
  <2>2. Copied(ind, s) /\ s.pos # "short"
    BY DEF IInv
  <2> QED BY <2>1, <2>2, <1>3, IndicatorFacts
<1>8. Executed(p', p, b.close) /\ (engine = "long" => p'.cash >= 0)
  <2>1. PICK over \in {0, 1} : p' = Engine(engine, p, s'.signal, b, over)
    BY <1>1
  <2>2. Booked(p) /\ (engine # "ls" => p.cash >= 0)
    BY <1>2 DEF IInv
  <2> QED BY <1>2, <1>3, <2>1, <2>2, EngineFacts
<1>9. Booked(p') /\ Explained(p')
  BY <1>8 DEF Executed, IInv
<1> QED BY <1>2, <1>3, <1>4, <1>5, <1>6, <1>7, <1>8, <1>9, <1>10 DEF IInv, Sound, Unstopped, Booked, Explained, Copied, Spans, Floored, Early

LEMMA IInvKept == Spec => []IInv
<1>1. IInv /\ [OneBar]_vars => IInv'
  <2>1. CASE OneBar
    BY <2>1, BarKept
  <2>2. CASE UNCHANGED vars
    BY <2>2 DEF vars, IInv, Now, Sound, Unstopped, Booked, Explained, Copied, Spans,
                Floored, Early
  <2> QED BY <2>1, <2>2
<1> QED BY InitIInv, <1>1, PTL DEF Spec

\* The variables have their types: no quantity, basis or fee is ever negative,
\* whatever the signals and however little cash is left.
THEOREM TypeCorrect == Spec => []TypeOK
<1>1. IInv => TypeOK
  BY DEF IInv, TypeOK, State, Booked, Books
<1> QED BY IInvKept, <1>1, PTL

\* The records of the trades explain the money (portfolio.py, engine_ls.py), and
\* a purchase with all the cash never overdraws it, however its cost is rounded.
THEOREM RecordsExplain == Spec => []RecordsAddUp
<1>1. IInv => RecordsAddUp
  BY DEF IInv, Explained, RecordsAddUp
<1> QED BY IInvKept, <1>1, PTL

\* Executing a signal never makes the portfolio worth more at the bar's close
\* (slippage.py, fees.py), on the long and on the short side.
THEOREM FillsConservative == Spec => FillsNeverProfit
<1>1. IInv /\ [OneBar]_vars =>
        [Worth(p', NowNext) <= Worth(p, NowNext)]_vars
  BY BarKept DEF Executed, Now, NowNext
<1> QED BY IInvKept, <1>1, PTL DEF Spec, FillsNeverProfit

\* A pyramid has no more adds than levels its peak has passed
\* (generate_signals of pyramid_breakout and pyramid_breakout_ls).
THEOREM AddsEarned == Spec => []AddsWithinPeak
<1>1. IInv => AddsWithinPeak
  <2> SUFFICES ASSUME IInv PROVE AddsWithinPeak
    OBVIOUS
  <2>1. s.pos = "short" => name \in Pyramids
    BY DEF IInv, Pyramids
  <2> QED BY <2>1 DEF IInv, Sound, LongLevel, ShortLevel, AddsWithinPeak
<1> QED BY IInvKept, <1>1, PTL

\* No position of a strategy with a stop outlives it: an add does not move the
\* stop past the price, and no bar of a position is skipped, turtle's included.
THEOREM StopsKept == Spec => []HeldAboveStop
<1>1. IInv => HeldAboveStop
  BY DEF IInv, Sound, Unstopped, Floored, HeldAboveStop
<1> QED BY IInvKept, <1>1, PTL

\* The copy of the loop in get_indicators agrees with generate_signals at every
\* bar of every history.
THEOREM CopiesAgree == Spec => []IndicatorsAgree
<1>1. IInv => IndicatorsAgree
  BY DEF IInv, Copied, IndicatorsAgree
<1> QED BY IInvKept, <1>1, PTL

\* With the types, the portfolio follows the strategy.
FollowsInv == name \notin Memoryless => Follows(engine, p, s)

\* The portfolio holds a position exactly while the strategy believes in one,
\* and on its side, for every history, price and fee (engine.py, engine_ls.py,
\* generate_signals): only cash that does not pay for it keeps it out, and
\* BacktestEngine knows no short positions.
THEOREM PortfolioFollows == Spec => []InStep
<1>1. Init => FollowsInv
  <2> SUFFICES ASSUME Init PROVE FollowsInv
    OBVIOUS
  <2>1. s.pos = "none" /\ p.qty = 0 /\ p.sqty = 0
    BY DEF Init, Fresh, Empty
  <2> QED BY <2>1 DEF FollowsInv, Follows
<1>2. IInv /\ FollowsInv /\ [OneBar]_vars => FollowsInv'
  <2> SUFFICES ASSUME IInv, FollowsInv, OneBar, name \notin Memoryless
               PROVE  FollowsInv'
    BY DEF vars, FollowsInv, Follows, Broke, Size, OneBar
  <2>1. PICK b \in Bars(name), over \in {0, 1} :
          s' = Step(name, s, past, b) /\ p' = Engine(engine, p, s'.signal, b, over)
    BY DEF OneBar
  <2>2. /\ name' = name /\ engine' = engine /\ name \in Names /\ s \in State /\ Booked(p)
        /\ s.pos = "short" => name = "pyramid_breakout_ls"
        /\ engine \in {"long", "ls"} /\ (engine = "long" => p.cash >= 0)
    BY DEF OneBar, IInv
  <2>3. Spans(b)
    BY <2>2, BarFacts
  <2>4. Follows(engine, p, s) /\ Signalled(s, s')
    BY <2>1, <2>2, StepSignals DEF FollowsInv
  <2>5. Follows(engine, p', s')
    <3>1. CASE engine = "long"
      BY <3>1, <2>1, <2>2, <2>3, <2>4, LongFollows DEF Engine
    <3>2. CASE engine = "ls"
      BY <3>2, <2>1, <2>2, <2>3, <2>4, LSFollows DEF Engine
    <3> QED BY <3>1, <3>2, <2>2
  <2>6. FollowsInv' <=> (name \notin Memoryless => Follows(engine, p', s'))
    BY <2>2 DEF FollowsInv, Follows, Broke, Size
  <2> QED BY <2>5, <2>6
<1>3. FollowsInv => InStep
  BY DEF FollowsInv, Follows, InStep
<1> QED BY IInvKept, <1>1, <1>2, <1>3, PTL DEF Spec
=============================================================================
