------------------------- MODULE SurgeDetectionProofs -------------------------
(* Proofs about SurgeDetection, for any finite set of markets, caps, times and *)
(* numbers of commands: its types, that no detection watches more markets than *)
(* the cap it read, and that a mark is followed by the next detection.         *)
EXTENDS SurgeDetection, FiniteSetTheorems, TLAPS

-----------------------------------------------------------------------------
(* The types alone are not inductive: the tick counter reaches RefreshEvery    *)
(* only while a refresh is under way. Nor are the two properties: the markets  *)
(* a detection has still to add count against its cap, and must be unmarked as *)
(* the watched ones.                                                           *)

TicksInv == mon.at \notin {"tickers", "told"} => ticks < RefreshEvery

CapInv == mon.at = "alert" => Cardinality(surge \union mon.todo) <= seen.cap

MarksInv == (surge \union mon.todo) \cap (warned \union excluded) \subseteq seen.marked

IInv == TypeOK /\ TicksInv /\ CapInv /\ MarksInv

-----------------------------------------------------------------------------
(* What a detection does *)

\* A part of the markets is finite, and its size a number.
LEMMA Sizes ==
  ASSUME NEW S \in SUBSET Markets
  PROVE  IsFiniteSet(S) /\ Cardinality(S) \in Nat
  BY SurgeAssumption, FS_Subset, FS_CardinalityType DEF SurgeAssumption

\* The least of two numbers is one of them, and at most each.
LEMMA LeastFacts ==
  ASSUME NEW a \in Nat, NEW b \in Nat
  PROVE  Least(a, b) \in Nat /\ Least(a, b) <= a /\ Least(a, b) <= b
  BY DEF Least

\* What stays watched together with new markets for the free slots is within
\* the cap.
LEMMA SlotsSuffice ==
  ASSUME TypeOK, NEW new \in SUBSET Markets, new # {}, Cardinality(new) <= Slots
  PROVE  Cardinality(Kept \union new) <= settings.cap
  <1>1. Kept \in SUBSET Markets /\ settings.cap \in Nat
    BY SurgeAssumption DEF TypeOK, Kept, SurgeAssumption
  <1>2. IsFiniteSet(Kept) /\ Cardinality(Kept) \in Nat
    BY <1>1, Sizes
  <1>3. IsFiniteSet(new) /\ Cardinality(new) \in Nat
    BY Sizes
  <1>4. Cardinality(new) # 0
    BY <1>3, FS_EmptySet
  <1>5. Cardinality(Kept) + Cardinality(new) <= settings.cap
    BY <1>1, <1>2, <1>3, <1>4 DEF Slots
  <1>6. /\ Cardinality(Kept \union new)
             = Cardinality(Kept) + Cardinality(new) - Cardinality(Kept \cap new)
        /\ Cardinality(Kept \cap new) \in Nat
    <2>1. Kept \cap new \in SUBSET Markets
      BY <1>1
    <2> QED BY <1>2, <1>3, <2>1, Sizes, FS_Union
  <1> QED BY <1>1, <1>2, <1>3, <1>5, <1>6

\* Watching new markets, and old ones again, keeps the types.
LEMMA WatchedTypes ==
  ASSUME TypeOK, NEW new \in SUBSET Markets, NEW again \in SUBSET Kept,
         Watched(new, again)
  PROVE  /\ surge' = Kept \union new /\ surge' \subseteq Markets
         /\ left' \in [Markets -> 0..Ttl]
         /\ \A m \in Markets \ surge' : left'[m] = 0
  <1>1. Kept \subseteq surge /\ surge \subseteq Markets
    BY DEF TypeOK, Kept
  <1>2. Ttl \in 0..Ttl /\ 0 \in 0..Ttl
    BY SurgeAssumption DEF SurgeAssumption
  <1>3. left' \in [Markets -> 0..Ttl]
    BY <1>2 DEF Watched, TypeOK
  <1>4. \A m \in Markets \ surge' : left'[m] = 0
    BY DEF Watched
  <1> QED BY <1>1, <1>3, <1>4 DEF Watched

\* What a detection leaves: at most the cap it read, watched and to be added,
\* none of it marked, and the markets to be added not yet watched.
LEMMA DetectFacts ==
  ASSUME TypeOK, NEW base, Detect(base)
  PROVE  /\ baseline' = TRUE
         /\ seen' = [cap |-> settings.cap, marked |-> {}]
         /\ surge' \subseteq Markets
         /\ left' \in [Markets -> 0..Ttl]
         /\ \A m \in Markets \ surge' : left'[m] = 0
         /\ mon' \in [at : {"sleep", "alert"}, todo : SUBSET (Markets \ surge'), left : 0..Ttl]
         /\ (surge' \union mon'.todo) \cap (warned \union excluded) = {}
         /\ mon'.at = "alert" => Cardinality(surge' \union mon'.todo) <= settings.cap
         /\ ~(surge' \subseteq surge) => Cardinality(surge') <= settings.cap
  <1> DEFINE Goal ==
         /\ surge' \subseteq Markets
         /\ left' \in [Markets -> 0..Ttl]
         /\ \A m \in Markets \ surge' : left'[m] = 0
         /\ mon' \in [at : {"sleep", "alert"}, todo : SUBSET (Markets \ surge'), left : 0..Ttl]
         /\ (surge' \union mon'.todo) \cap (warned \union excluded) = {}
         /\ mon'.at = "alert" => Cardinality(surge' \union mon'.todo) <= settings.cap
         /\ ~(surge' \subseteq surge) => Cardinality(surge') <= settings.cap
  <1>1. baseline' = TRUE /\ seen' = [cap |-> settings.cap, marked |-> {}]
    BY DEF Detect
  <1>2. /\ Kept \subseteq surge /\ Kept \subseteq Markets
        /\ Kept \cap (warned \union excluded) = {}
    BY DEF TypeOK, Kept
  <1>3. Ttl \in 0..Ttl /\ 0 \in 0..Ttl
    BY SurgeAssumption DEF SurgeAssumption
  <1>4. ASSUME NEW again \in SUBSET Kept, Watched({}, again), mon' = Asleep
        PROVE  Goal
    <2>1. /\ surge' = Kept /\ left' \in [Markets -> 0..Ttl]
          /\ \A m \in Markets \ surge' : left'[m] = 0
      <3>1. {} \in SUBSET Markets /\ Kept \union {} = Kept
        OBVIOUS
      <3>2. /\ surge' = Kept \union {} /\ left' \in [Markets -> 0..Ttl]
            /\ \A m \in Markets \ surge' : left'[m] = 0
        BY <1>4, <3>1, WatchedTypes
      <3> QED BY <3>1, <3>2
    <2>2. /\ mon' = [at |-> "sleep", todo |-> {}, left |-> 0]
          /\ mon'.at = "sleep" /\ mon'.todo = {}
      BY <1>4 DEF Asleep
    <2>3. mon' \in [at : {"sleep", "alert"}, todo : SUBSET (Markets \ surge'), left : 0..Ttl]
      BY <1>3, <2>2
    <2>4. (surge' \union mon'.todo) \cap (warned \union excluded) = {}
      BY <1>2, <2>1, <2>2
    <2>5. mon'.at # "alert" /\ surge' \subseteq surge /\ surge' \subseteq Markets
      BY <1>2, <2>1, <2>2
    <2> QED BY <2>1, <2>3, <2>4, <2>5
  <1>5. ASSUME NEW hot \in SUBSET Markets, NEW new \in SUBSET (Eligible(hot, base) \ Kept),
               Cardinality(new) = Least(Slots, Cardinality(Eligible(hot, base) \ Kept)),
               NEW m \in new, Watched({m}, Eligible(hot, base) \cap Kept),
               mon' = [at |-> "alert", todo |-> new \ {m}, left |-> Ttl]
        PROVE  Goal
    <2>1. /\ new \subseteq Markets /\ new \cap Kept = {}
          /\ new \cap (warned \union excluded) = {}
      BY <1>5 DEF Eligible
    <2>2. /\ surge' = Kept \union {m} /\ left' \in [Markets -> 0..Ttl]
          /\ \A n \in Markets \ surge' : left'[n] = 0
      BY <1>5, <2>1, WatchedTypes
    <2>3. mon'.at = "alert" /\ mon'.todo = new \ {m}
      BY <1>5
    <2>4. surge' \union mon'.todo = Kept \union new
      BY <2>2, <2>3
    <2>5. Slots \in Nat /\ Cardinality(Eligible(hot, base) \ Kept) \in Nat
      <3>1. settings.cap \in Nat /\ Cardinality(Kept) \in Nat
        BY <1>2, Sizes, SurgeAssumption DEF TypeOK, SurgeAssumption
      <3>2. (Eligible(hot, base) \ Kept) \in SUBSET Markets
        BY <1>5 DEF Eligible
      <3> QED BY <3>1, <3>2, Sizes DEF Slots
    <2>6. Cardinality(new) <= Slots
      BY <1>5, <2>5, LeastFacts
    <2>7. Cardinality(Kept \union new) <= settings.cap
      BY <2>1, <2>6, SlotsSuffice
    <2>8. Cardinality(surge') <= Cardinality(Kept \union new)
      <3>1. Kept \union new \in SUBSET Markets /\ surge' \subseteq Kept \union new
        BY <1>2, <2>1, <2>2
      <3>2. IsFiniteSet(Kept \union new)
        BY <3>1, Sizes
      <3> QED BY <3>1, <3>2, FS_Subset
    <2>9. Cardinality(surge') <= settings.cap
      <3>1. surge' \in SUBSET Markets /\ Kept \union new \in SUBSET Markets
        BY <1>2, <2>1, <2>2
      <3>2. /\ Cardinality(surge') \in Nat /\ Cardinality(Kept \union new) \in Nat
            /\ settings.cap \in Nat
        BY <3>1, Sizes, SurgeAssumption DEF TypeOK, SurgeAssumption
      <3> QED BY <2>7, <2>8, <3>2
    <2>10. mon' \in [at : {"sleep", "alert"}, todo : SUBSET (Markets \ surge'), left : 0..Ttl]
      <3>1. new \ {m} \in SUBSET (Markets \ surge')
        BY <2>1, <2>2
      <3> QED BY <1>3, <1>5, <3>1
    <2>11. (surge' \union mon'.todo) \cap (warned \union excluded) = {}
      BY <1>2, <2>1, <2>4
    <2> QED BY <1>2, <2>1, <2>2, <2>4, <2>7, <2>9, <2>10, <2>11
  <1>6. Goal
    <2>1. CASE Watched({}, {}) /\ mon' = Asleep
      BY <1>4, <2>1
    <2>2. CASE \E hot \in SUBSET Markets :
                 LET again == Eligible(hot, base) \cap Kept
                     cands == Eligible(hot, base) \ Kept IN
                 \E new \in SUBSET cands :
                   /\ Cardinality(new) = Least(Slots, Cardinality(cands))
                   /\ \/ new = {} /\ Watched({}, again) /\ mon' = Asleep
                      \/ \E m \in new :
                           /\ Watched({m}, again)
                           /\ mon' = [at |-> "alert", todo |-> new \ {m}, left |-> Ttl]
      BY <1>4, <1>5, <2>2, Zenon
    <2> QED BY <2>1, <2>2 DEF Detect
  <1> QED BY <1>1, <1>6

-----------------------------------------------------------------------------
(* The invariant is kept *)

\* The parts of the invariant hold at the start.
LEMMA InitInv == Init => IInv
  <1> SUFFICES ASSUME Init
               PROVE  IInv
    OBVIOUS
  <1>1. mon.at = "sleep" /\ mon.todo = {} /\ mon.left = 0 /\ Ttl \in Nat /\ RefreshEvery \in Nat
    BY SurgeAssumption DEF Init, Asleep, SurgeAssumption
  <1>2. dynamic \subseteq Markets
    BY DEF Init, Ranked
  <1>3. mon \in [at : {"sleep", "warned", "checks", "tickers", "told", "fetch", "alert"},
                todo : SUBSET (Markets \ surge), left : 0..Ttl]
    BY <1>1 DEF Init, Asleep
  <1>4. seen \in [cap : Caps, marked : SUBSET Markets] /\ used \in 0..MaxCommands
    BY SurgeAssumption DEF Init, SurgeAssumption
  <1>5. surge \subseteq Markets /\ left \in [Markets -> 0..Ttl]
        /\ \A m \in Markets \ surge : left[m] = 0
    BY <1>1 DEF Init
  <1>6. baseline \in BOOLEAN
    BY Zenon DEF Init
  <1>7. ticks \in 0..RefreshEvery /\ ticks < RefreshEvery
    BY SurgeAssumption DEF Init, SurgeAssumption
  <1>8. TypeOK
    BY <1>2, <1>3, <1>4, <1>5, <1>6, <1>7 DEF Init, TypeOK
  <1>9. TicksInv /\ CapInv
    BY <1>1, <1>7 DEF TicksInv, CapInv
  <1>10. MarksInv
    BY <1>1 DEF Init, MarksInv
  <1> QED BY <1>8, <1>9, <1>10 DEF IInv

\* The loop's places other than an alert have no markets to add.
LEMMA GotoFacts ==
  ASSUME NEW l \in {"warned", "checks", "tickers", "told", "fetch"}, Goto(l)
  PROVE  /\ mon' = [at |-> l, todo |-> {}, left |-> 0]
         /\ mon'.at = l /\ mon'.todo = {}
  BY DEF Goto, Asleep

\* A step that leaves the watched markets alone and ends at no alert.
LEMMA QuietStep ==
  ASSUME IInv,
         UNCHANGED <<watch, excluded, baseline, settings, used>>,
         \/ UNCHANGED <<warned, seen>>
         \/ /\ warned' \in SUBSET Suspects
            /\ seen' = [seen EXCEPT !.marked = @ \union (warned' \ warned)],
         NEW l \in {"sleep", "warned", "checks", "tickers", "told", "fetch"},
         mon' = [at |-> l, todo |-> {}, left |-> 0],
         ticks' \in 0..RefreshEvery,
         l \notin {"tickers", "told"} => ticks' < RefreshEvery
  PROVE  IInv'
  <1>1. mon'.at = l /\ mon'.todo = {}
    OBVIOUS
  <1>2. 0 \in 0..Ttl
    BY SurgeAssumption DEF SurgeAssumption
  <1>3. mon' \in [at : {"sleep", "warned", "checks", "tickers", "told", "fetch", "alert"},
                 todo : SUBSET (Markets \ surge'), left : 0..Ttl]
    BY <1>2
  <1>4. /\ warned' \subseteq Suspects /\ seen' \in [cap : Caps, marked : SUBSET Markets]
        /\ surge' \cap (warned' \union excluded') \subseteq seen'.marked
    <2>1. /\ seen \in [cap : Caps, marked : SUBSET Markets] /\ warned \subseteq Suspects
          /\ Suspects \subseteq Markets
          /\ surge \cap (warned \union excluded) \subseteq seen.marked
      BY SurgeAssumption DEF IInv, TypeOK, MarksInv, SurgeAssumption
    <2>2. surge' = surge /\ excluded' = excluded
      BY DEF watch
    <2>3. CASE UNCHANGED <<warned, seen>>
      BY <2>1, <2>2, <2>3
    <2>4. CASE /\ warned' \in SUBSET Suspects
               /\ seen' = [seen EXCEPT !.marked = @ \union (warned' \ warned)]
      <3>1. seen'.marked = seen.marked \union (warned' \ warned)
        BY <2>1, <2>4
      <3>2. seen' \in [cap : Caps, marked : SUBSET Markets]
        BY <2>1, <2>4
      <3> QED BY <2>1, <2>2, <2>4, <3>1, <3>2
    <2> QED BY <2>3, <2>4
  <1>5. TypeOK'
    <2>1. /\ dynamic' \subseteq Markets /\ surge' \subseteq Markets
          /\ left' \in [Markets -> 0..Ttl] /\ \A m \in Markets \ surge' : left'[m] = 0
          /\ excluded' \subseteq Markets /\ used' \in 0..MaxCommands
          /\ settings' \in [top : BOOLEAN, on : BOOLEAN, cap : Caps]
      BY DEF IInv, TypeOK, watch
    <2>2. baseline' \in BOOLEAN
      BY Zenon DEF IInv, TypeOK
    <2> QED BY <1>3, <1>4, <2>1, <2>2 DEF TypeOK
  <1>6. TicksInv' /\ CapInv'
    BY <1>1 DEF TicksInv, CapInv
  <1>7. MarksInv'
    BY <1>1, <1>4 DEF MarksInv
  <1> QED BY <1>5, <1>6, <1>7 DEF IInv

\* Whether the loop detects or sleeps, it is at no alert.
LEMMA ProceedFacts ==
  ASSUME Proceed
  PROVE  \E l \in {"sleep", "fetch"} : mon' = [at |-> l, todo |-> {}, left |-> 0]
  BY DEF Proceed, Goto, Asleep

\* A detection keeps the invariant.
LEMMA DetectStep ==
  ASSUME IInv, NEW base, Detect(base), dynamic' \subseteq Markets,
         UNCHANGED <<marks, settings, used>>,
         ticks' \in 0..RefreshEvery, ticks' < RefreshEvery
  PROVE  IInv'
  <1>1. /\ baseline' = TRUE
        /\ seen' = [cap |-> settings.cap, marked |-> {}]
        /\ surge' \subseteq Markets
        /\ left' \in [Markets -> 0..Ttl]
        /\ \A m \in Markets \ surge' : left'[m] = 0
        /\ mon' \in [at : {"sleep", "alert"}, todo : SUBSET (Markets \ surge'), left : 0..Ttl]
        /\ (surge' \union mon'.todo) \cap (warned \union excluded) = {}
        /\ mon'.at = "alert" => Cardinality(surge' \union mon'.todo) <= settings.cap
    BY DetectFacts DEF IInv
  <1>2. seen'.cap = settings.cap /\ seen'.marked = {} /\ settings.cap \in Caps
    BY <1>1 DEF IInv, TypeOK
  <1>3. TypeOK'
    <2>1. mon' \in [at : {"sleep", "warned", "checks", "tickers", "told", "fetch", "alert"},
                   todo : SUBSET (Markets \ surge'), left : 0..Ttl]
      BY <1>1
    <2>2. seen' \in [cap : Caps, marked : SUBSET Markets]
      BY <1>1, <1>2
    <2>3. baseline' \in BOOLEAN
      BY <1>1, Zenon
    <2>4. /\ warned' \subseteq Suspects /\ excluded' \subseteq Markets
          /\ settings' \in [top : BOOLEAN, on : BOOLEAN, cap : Caps]
          /\ used' \in 0..MaxCommands
      BY DEF IInv, TypeOK, marks
    <2> QED BY <1>1, <2>1, <2>2, <2>3, <2>4 DEF TypeOK
  <1>4. TicksInv'
    BY DEF TicksInv
  <1>5. CapInv'
    BY <1>1, <1>2 DEF CapInv
  <1>6. MarksInv'
    BY <1>1, <1>2 DEF MarksInv, marks
  <1> QED BY <1>3, <1>4, <1>5, <1>6 DEF IInv

\* A step of the monitor loop keeps the invariant.
LEMMA MonitorStep ==
  ASSUME IInv, Monitor
  PROVE  IInv'
  <1>1. /\ ticks \in 0..RefreshEvery /\ RefreshEvery \in Nat \ {0} /\ Ttl \in Nat \ {0}
        /\ 0 \in 0..RefreshEvery /\ 0 < RefreshEvery
        /\ mon.at \notin {"tickers", "told"} => ticks < RefreshEvery
    BY SurgeAssumption DEF IInv, TypeOK, TicksInv, SurgeAssumption
  <1>2. CASE TickBegins
    BY <1>1, <1>2, GotoFacts, QuietStep DEF TickBegins, At, marks
  <1>3. CASE WarnedAnswered
    BY <1>1, <1>3, GotoFacts, QuietStep DEF WarnedAnswered, At
  <1>4. CASE TickFails
    BY <1>1, <1>4, QuietStep DEF TickFails, At, marks, Asleep
  <1>5. CASE ChecksOver
    <2>1. ticks' \in 0..RefreshEvery /\ ticks' < RefreshEvery
      BY <1>1, <1>5 DEF ChecksOver, At
    <2> QED BY <1>5, <2>1, ProceedFacts, QuietStep DEF ChecksOver, marks
  <1>6. CASE RefreshDue
    <2>1. ticks' \in 0..RefreshEvery
      BY <1>1, <1>6 DEF RefreshDue, At
    <2> QED BY <1>6, <2>1, GotoFacts, QuietStep DEF RefreshDue, marks
  <1>7. CASE TickersFail
    BY <1>1, <1>7, ProceedFacts, QuietStep DEF TickersFail, marks
  <1>8. CASE FetchFails
    BY <1>1, <1>8, QuietStep DEF FetchFails, At, marks, Asleep
  <1>9. CASE FetchAnswered
    <2>1. dynamic' \subseteq Markets /\ ticks' = ticks /\ ticks < RefreshEvery
      BY <1>1, <1>9 DEF FetchAnswered, At, IInv, TypeOK
    <2> QED BY <1>1, <1>9, <2>1, DetectStep DEF FetchAnswered
  <1>10. ASSUME TickersAnswered \/ Told
         PROVE  IInv'
    <2>1. dynamic' \subseteq Markets
      <3>1. \A d \in Ranked : d \subseteq Markets
        BY DEF Ranked
      <3>2. dynamic \subseteq Markets
        BY DEF IInv, TypeOK
      <3> QED BY <1>10, <3>1, <3>2 DEF TickersAnswered, Told
    <2>2. UNCHANGED <<marks, settings, used>>
      BY <1>10 DEF TickersAnswered, Told
    <2>3. CASE ticks' = 0 /\ \E base : Detect(base)
      BY <1>1, <2>1, <2>2, <2>3, DetectStep
    <2>4. CASE /\ UNCHANGED <<surge, left, baseline, seen>>
               /\ \E l \in {"sleep", "told"} :
                    /\ mon' = [at |-> l, todo |-> {}, left |-> 0]
                    /\ ticks' \in 0..RefreshEvery /\ (l = "sleep" => ticks' = 0)
      <3>1. TypeOK'
        <4>1. mon' \in [at : {"sleep", "warned", "checks", "tickers", "told", "fetch", "alert"},
                       todo : SUBSET (Markets \ surge'), left : 0..Ttl]
          BY <1>1, <2>4
        <4>2. /\ warned' \subseteq Suspects /\ excluded' \subseteq Markets
              /\ settings' \in [top : BOOLEAN, on : BOOLEAN, cap : Caps]
              /\ used' \in 0..MaxCommands /\ surge' \subseteq Markets
              /\ left' \in [Markets -> 0..Ttl] /\ \A m \in Markets \ surge' : left'[m] = 0
              /\ seen' \in [cap : Caps, marked : SUBSET Markets]
          BY <2>2, <2>4 DEF IInv, TypeOK, marks
        <4>3. baseline' \in BOOLEAN
          BY <2>4, Zenon DEF IInv, TypeOK
        <4> QED BY <2>1, <2>4, <4>1, <4>2, <4>3 DEF TypeOK
      <3>2. mon'.at \in {"sleep", "told"} /\ mon'.todo = {}
        BY <2>4
      <3>3. mon'.at = "sleep" => ticks' < RefreshEvery
        BY <1>1, <2>4
      <3>4. TicksInv' /\ CapInv'
        BY <3>2, <3>3 DEF TicksInv, CapInv
      <3>5. MarksInv'
        BY <2>2, <2>4, <3>2 DEF IInv, MarksInv, marks
      <3> QED BY <3>1, <3>4, <3>5 DEF IInv
    <2>5. CASE TickersAnswered
      <3>1. CASE Goto("told") /\ UNCHANGED <<surge, left, baseline, ticks, seen>>
        BY <1>1, <2>4, <3>1, GotoFacts
      <3>2. CASE ticks' = 0 /\ Detect(dynamic)
        BY <2>3, <3>2
      <3>3. CASE ticks' = 0 /\ mon' = Asleep /\ UNCHANGED <<surge, left, baseline, seen>>
        BY <1>1, <2>4, <3>3 DEF Asleep
      <3> QED BY <2>5, <3>1, <3>2, <3>3 DEF TickersAnswered
    <2>6. CASE Told
      <3>1. CASE ticks' = 0 /\ Detect(Base)
        BY <2>3, <3>1
      <3>2. CASE ticks' = 0 /\ mon' = Asleep /\ UNCHANGED <<surge, left, baseline, seen>>
        BY <1>1, <2>4, <3>2 DEF Asleep
      <3> QED BY <2>6, <3>1, <3>2 DEF Told
    <2> QED BY <1>10, <2>5, <2>6
  <1>11. CASE Alerted /\ mon.todo = {}
    <2>1. mon' = Asleep /\ UNCHANGED <<surge, left>>
      BY <1>11 DEF Alerted
    <2> QED BY <1>1, <1>11, <2>1, QuietStep DEF Alerted, At, marks, watch, Asleep
  <1>12. CASE Alerted /\ mon.todo # {}
    <2>1. PICK m \in mon.todo :
            /\ mon' = [mon EXCEPT !.todo = @ \ {m}]
            /\ surge' = surge \union {m} /\ left' = [left EXCEPT ![m] = mon.left]
      BY <1>12 DEF Alerted
    <2>2. /\ mon \in [at : {"sleep", "warned", "checks", "tickers", "told", "fetch", "alert"},
                     todo : SUBSET (Markets \ surge), left : 0..Ttl]
          /\ mon.at = "alert" /\ m \in Markets /\ m \notin surge
          /\ mon.todo \subseteq Markets \ surge
      BY <1>12, <2>1 DEF Alerted, At, IInv, TypeOK
    <2>3. mon' = [at |-> "alert", todo |-> mon.todo \ {m}, left |-> mon.left]
      BY <2>1, <2>2
    <2>4. surge' \union mon'.todo = surge \union mon.todo
      BY <2>1, <2>3
    <2>5. mon' \in [at : {"sleep", "warned", "checks", "tickers", "told", "fetch", "alert"},
                   todo : SUBSET (Markets \ surge'), left : 0..Ttl]
      <3>1. mon.todo \ {m} \in SUBSET (Markets \ surge') /\ mon.left \in 0..Ttl
        BY <2>1, <2>2
      <3> QED BY <2>3, <3>1
    <2>6. /\ left' \in [Markets -> 0..Ttl] /\ surge' \subseteq Markets
          /\ \A n \in Markets \ surge' : left'[n] = 0
      BY <2>1, <2>2 DEF IInv, TypeOK
    <2>7. baseline' \in BOOLEAN
      BY <1>12, Zenon DEF Alerted, IInv, TypeOK
    <2>8. TypeOK'
      BY <1>12, <2>5, <2>6, <2>7 DEF Alerted, IInv, TypeOK, marks
    <2>9. TicksInv' /\ CapInv'
      BY <1>1, <1>12, <2>2, <2>3, <2>4 DEF Alerted, IInv, TicksInv, CapInv
    <2>10. MarksInv'
      BY <1>12, <2>4 DEF Alerted, IInv, MarksInv, marks
    <2> QED BY <2>8, <2>9, <2>10 DEF IInv
  <1> QED BY <1>2, <1>3, <1>4, <1>5, <1>6, <1>7, <1>8, <1>9, <1>10, <1>11, <1>12
          DEF Monitor

\* The handlers and time keep the invariant: neither adds to what is watched,
\* and what they mark is remembered.
LEMMA OtherStep ==
  ASSUME IInv, \/ Reload \/ TimePasses \/ \E m \in Markets : Block(m) \/ Unblock(m)
               \/ UNCHANGED vars
  PROVE  IInv'
  <1>1. /\ MaxCommands \in Nat /\ used \in 0..MaxCommands
        /\ seen \in [cap : Caps, marked : SUBSET Markets]
        /\ mon \in [at : {"sleep", "warned", "checks", "tickers", "told", "fetch", "alert"},
                    todo : SUBSET (Markets \ surge), left : 0..Ttl]
        /\ Ttl \in Nat
    BY SurgeAssumption DEF IInv, TypeOK, SurgeAssumption
  <1>2. CASE Reload
    <2>1. used' \in 0..MaxCommands
      BY <1>1, <1>2 DEF Reload, Command
    <2>2. baseline' \in BOOLEAN
      BY <1>2, Zenon DEF Reload, IInv, TypeOK
    <2>3. settings' \in [top : BOOLEAN, on : BOOLEAN, cap : Caps]
      BY <1>2 DEF Reload
    <2>4. TypeOK'
      BY <1>2, <2>1, <2>2, <2>3 DEF Reload, watch, marks, IInv, TypeOK
    <2> QED BY <1>2, <2>4 DEF Reload, watch, marks, IInv, TicksInv, CapInv, MarksInv
  <1>3. CASE \E m \in Markets : Block(m) \/ Unblock(m)
    <2>1. PICK m \in Markets : Block(m) \/ Unblock(m)
      BY <1>3
    <2>2. UNCHANGED <<watch, warned, baseline, ticks, settings, mon>>
      BY <2>1 DEF Block, Unblock
    <2>3. used' \in 0..MaxCommands
      BY <1>1, <2>1 DEF Block, Unblock, Command
    <2>4. /\ seen' \in [cap : Caps, marked : SUBSET Markets] /\ seen'.cap = seen.cap
          /\ excluded' \subseteq Markets
          /\ excluded' \ excluded \subseteq seen'.marked /\ seen.marked \subseteq seen'.marked
      <3>1. excluded \subseteq Markets
        BY DEF IInv, TypeOK
      <3>2. CASE Block(m)
        <4>1. seen' = [seen EXCEPT !.marked = @ \union {m}] /\ excluded' = excluded \union {m}
          BY <3>2 DEF Block
        <4>2. seen'.marked = seen.marked \union {m} /\ seen'.cap = seen.cap
          BY <1>1, <4>1
        <4>3. seen' \in [cap : Caps, marked : SUBSET Markets]
          BY <1>1, <4>1
        <4> QED BY <3>1, <4>1, <4>2, <4>3
      <3>3. CASE Unblock(m)
        BY <1>1, <3>1, <3>3 DEF Unblock
      <3> QED BY <2>1, <3>2, <3>3
    <2>5. baseline' \in BOOLEAN
      BY <2>2, Zenon DEF IInv, TypeOK
    <2>6. TypeOK'
      BY <2>2, <2>3, <2>4, <2>5 DEF watch, IInv, TypeOK
    <2>7. TicksInv' /\ CapInv'
      BY <2>2, <2>4 DEF watch, IInv, TicksInv, CapInv
    <2>8. MarksInv'
      BY <2>2, <2>4 DEF watch, IInv, MarksInv
    <2> QED BY <2>6, <2>7, <2>8 DEF IInv
  <1>4. CASE TimePasses
    <2>1. \A n \in 0..Ttl : Less(n) \in 0..Ttl
      BY <1>1 DEF Less
    <2>2. Less(0) = 0
      BY DEF Less
    <2>3. /\ left' \in [Markets -> 0..Ttl]
          /\ \A m \in Markets \ surge : left'[m] = 0
      BY <1>4, <2>1, <2>2 DEF TimePasses, IInv, TypeOK
    <2>4. mon' = [at |-> mon.at, todo |-> mon.todo, left |-> Less(mon.left)]
      BY <1>1, <1>4 DEF TimePasses
    <2>5. mon' \in [at : {"sleep", "warned", "checks", "tickers", "told", "fetch", "alert"},
                   todo : SUBSET (Markets \ surge), left : 0..Ttl]
      BY <1>1, <2>1, <2>4
    <2>6. baseline' \in BOOLEAN
      BY <1>4, Zenon DEF TimePasses, IInv, TypeOK
    <2>7. TypeOK'
      BY <1>4, <2>3, <2>5, <2>6 DEF TimePasses, marks, IInv, TypeOK
    <2>8. mon'.at = mon.at /\ mon'.todo = mon.todo
      BY <2>4
    <2> QED BY <1>4, <2>7, <2>8 DEF TimePasses, marks, IInv, TicksInv, CapInv, MarksInv
  <1>5. CASE UNCHANGED vars
    BY <1>5 DEF vars, IInv, TypeOK, TicksInv, CapInv, MarksInv
  <1> QED BY <1>2, <1>3, <1>4, <1>5

\* The invariant holds in every reachable state.
LEMMA Invariance == Spec => []IInv
  <1>1. IInv /\ [Next]_vars => IInv'
    BY MonitorStep, OtherStep DEF Next
  <1> QED BY <1>1, InitInv, PTL DEF Spec

-----------------------------------------------------------------------------

(* The types of the variables hold in every reachable state.                   *)
THEOREM TypeCorrect == Spec => []TypeOK
  BY Invariance, PTL DEF IInv

(* Whatever is reloaded, marked or expires while alerts are sent, no step      *)
(* watches more markets than the cap its detection read.                       *)
THEOREM CapIsKept == Spec => CapKept
  <1>1. ASSUME IInv, [Next]_vars
        PROVE  [~(surge' \subseteq surge) => Cardinality(surge') <= seen'.cap]_vars
    <2> SUFFICES ASSUME ~(surge' \subseteq surge)
                 PROVE  Cardinality(surge') <= seen'.cap
      OBVIOUS
    <2>1. CASE FetchAnswered \/ TickersAnswered \/ Told
      <3>1. \E base : Detect(base)
        BY <2>1 DEF FetchAnswered, TickersAnswered, Told
      <3>2. seen' = [cap |-> settings.cap, marked |-> {}] /\ Cardinality(surge') <= settings.cap
        BY <1>1, <3>1, DetectFacts DEF IInv
      <3> QED BY <3>2
    <2>2. CASE Alerted
      <3>1. PICK m \in mon.todo : surge' = surge \union {m}
        BY <2>2 DEF Alerted
      <3>2. /\ surge \union mon.todo \in SUBSET Markets
            /\ surge' \in SUBSET (surge \union mon.todo)
            /\ Cardinality(surge \union mon.todo) <= seen.cap
            /\ seen.cap \in Nat /\ seen' = seen
        BY <1>1, <2>2, <3>1, SurgeAssumption
           DEF Alerted, At, IInv, TypeOK, CapInv, SurgeAssumption
      <3>3. /\ IsFiniteSet(surge \union mon.todo)
            /\ Cardinality(surge \union mon.todo) \in Nat /\ Cardinality(surge') \in Nat
        BY <3>2, Sizes
      <3>4. Cardinality(surge') <= Cardinality(surge \union mon.todo)
        BY <3>2, <3>3, FS_Subset
      <3> QED BY <3>2, <3>3, <3>4
    <2>3. CASE \/ TickBegins \/ WarnedAnswered \/ TickFails \/ ChecksOver
               \/ RefreshDue \/ TickersFail \/ FetchFails \/ Reload \/ TimePasses
               \/ \E m \in Markets : Block(m) \/ Unblock(m)
               \/ UNCHANGED vars
      BY <2>3 DEF TickBegins, WarnedAnswered, TickFails, ChecksOver, RefreshDue, TickersFail,
                  FetchFails, Reload, TimePasses, Block, Unblock, vars, watch
    <2> QED BY <1>1, <2>1, <2>2, <2>3 DEF Next, Monitor
  <1> QED BY <1>1, Invariance, PTL DEF Spec, CapKept

(* A market that is watched in spite of a mark was marked after the last       *)
(* detection began.                                                            *)
THEOREM MarkedWasNew == Spec => []MarkedIsNew
  <1>1. IInv => MarkedIsNew
    BY DEF IInv, MarksInv, MarkedIsNew
  <1> QED BY <1>1, Invariance, PTL
===============================================================================
