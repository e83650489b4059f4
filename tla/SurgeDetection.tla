---------------------------- MODULE SurgeDetection ----------------------------
(* Which markets src/core/trader.py watches: the top-N list and the markets    *)
(* whose traded value surges. The monitor loop refreshes both in one tick; the *)
(* Telegram handlers reload the settings and exclude markets at its awaits.    *)
(*                                                                             *)
(* Traded values are abstracted: any set of markets may be at the top, any set *)
(* may meet the two conditions of a surge, in any order of their increase.     *)
(* Time is relative: a surge market carries the time it has left.              *)
EXTENDS Naturals, FiniteSets

CONSTANTS Markets,
          Targets,       \* target_markets, the base markets of the fixed mode
          TopN,          \* target_markets_top_n in the top-N mode
          Caps,          \* values of surge_max_markets
          Ttl,           \* surge_ttl_minutes
          RefreshEvery,  \* ticks between two refreshes of the top-N list
          Suspects,      \* markets the exchange may warn about
          MaxCommands    \* bound on operator commands

ASSUME SurgeAssumption ==
  /\ Targets \subseteq Markets /\ Suspects \subseteq Markets
  /\ IsFiniteSet(Markets)
  /\ TopN \in Nat /\ TopN <= Cardinality(Markets)
  /\ Caps \subseteq Nat \ {0} /\ Caps # {}
  /\ Ttl \in Nat \ {0} /\ RefreshEvery \in Nat \ {0}
  /\ MaxCommands \in Nat

VARIABLES
  dynamic,   \* _dynamic_markets
  surge,     \* the keys of _surge_markets
  left,      \* the time until the expiry of each
  warned,    \* _warned_markets
  excluded,  \* the keys of _excluded_markets
  baseline,  \* _acc_trade_snapshot is there
  ticks,     \* _market_refresh_ticks
  settings,  \* top-N mode, surge_detect_enabled, surge_max_markets
  mon,       \* the monitor loop: where it awaits, and its local variables
  seen,      \* history: the cap of the last detection, the markets warned
             \* about or excluded since it pruned
  used       \* commands spent

watch == <<dynamic, surge, left>>
marks == <<warned, excluded>>
vars == <<dynamic, surge, left, warned, excluded, baseline, ticks, settings,
          mon, seen, used>>

\* _rank_top_markets: the first target_markets_top_n, none in the fixed mode
Ranked == IF settings.top THEN {d \in SUBSET Markets : Cardinality(d) = TopN} ELSE {{}}
Asleep == [at |-> "sleep", todo |-> {}, left |-> 0]
Least(a, b) == IF a < b THEN a ELSE b

\* _base_markets and _surge_detect_active
Base == IF settings.top THEN dynamic ELSE Targets
Detecting == settings.on /\ settings.top

Init ==
  /\ settings \in [top : BOOLEAN, on : BOOLEAN, cap : Caps]
  /\ dynamic \in Ranked
  /\ warned \in SUBSET Suspects /\ excluded \in SUBSET Markets
  /\ surge = {} /\ left = [m \in Markets |-> 0]
  /\ baseline = FALSE /\ ticks = 0 /\ mon = Asleep
  /\ seen = [cap |-> settings.cap, marked |-> {}]
  /\ used = 0

-----------------------------------------------------------------------------
(* The monitor loop *)

At(l) == mon.at = l
Goto(l) == mon' = [Asleep EXCEPT !.at = l]

\* The sleep is over; balances and stale positions are in Trader.
TickBegins ==
  /\ At("sleep") /\ Goto("warned")
  /\ UNCHANGED <<watch, marks, baseline, ticks, settings, seen, used>>

\* _refresh_warned_markets: the answer replaces the set; an error keeps it.
WarnedAnswered ==
  /\ At("warned") /\ Goto("checks")
  /\ warned' \in SUBSET Suspects
  /\ seen' = [seen EXCEPT !.marked = @ \union (warned' \ warned)]
  /\ UNCHANGED <<watch, excluded, baseline, ticks, settings, used>>

\* A statement or a request of the tick fails: monitor_loop_error.
TickFails ==
  /\ At("checks") /\ mon' = Asleep
  /\ UNCHANGED <<watch, marks, baseline, ticks, settings, seen, used>>

\* From here to the next request: detect, when it is on.
Proceed == IF Detecting THEN Goto("fetch") ELSE mon' = Asleep

\* No refresh is due.
ChecksOver ==
  /\ At("checks")
  /\ \/ ~settings.top /\ UNCHANGED ticks
     \/ settings.top /\ ticks + 1 < RefreshEvery /\ ticks' = ticks + 1
  /\ Proceed
  /\ UNCHANGED <<watch, marks, baseline, settings, seen, used>>

RefreshDue ==
  /\ At("checks") /\ settings.top /\ ticks + 1 >= RefreshEvery
  /\ ticks' = ticks + 1 /\ Goto("tickers")
  /\ UNCHANGED <<watch, marks, baseline, settings, seen, used>>

\* The tickers are not answered, or empty: the list stays.
TickersFail ==
  /\ At("tickers") /\ ticks' = 0 /\ Proceed
  /\ UNCHANGED <<watch, marks, baseline, settings, seen, used>>

-----------------------------------------------------------------------------
(* _detect_surge_markets, once it has tickers *)

\* Mutant: an excluded or warned market stays.
KeptBlind == {m \in surge : left[m] > 0}

\* _prune_surge_markets
Kept == {m \in surge : left[m] > 0 /\ m \notin warned \union excluded}

\* A watched market: a new one, or one whose surge goes on.
Watched(new, again) ==
  /\ surge' = Kept \union new
  /\ left' = [m \in Markets |-> IF m \in new \union again THEN Ttl
                                ELSE IF m \in Kept THEN left[m] ELSE 0]

\* A surging market that may be watched: not one of the base markets.
Eligible(hot, base) == hot \ (base \union warned \union excluded)

\* Mutant: the markets already watched take no slot.
SlotsFree == settings.cap

\* max(slots, 0)
Slots == IF Cardinality(Kept) < settings.cap THEN settings.cap - Cardinality(Kept) ELSE 0

\* The new markets are added one by one, each before its alert is awaited; they
\* keep the expiry of the detection.
Detect(base) ==
  /\ baseline' = TRUE
  /\ seen' = [cap |-> settings.cap, marked |-> {}]
  /\ \/ ~baseline /\ Watched({}, {}) /\ mon' = Asleep
     \/ /\ baseline
        /\ \E hot \in SUBSET Markets :
             LET again == Eligible(hot, base) \cap Kept
                 cands == Eligible(hot, base) \ Kept IN
             \E new \in SUBSET cands :
               /\ Cardinality(new) = Least(Slots, Cardinality(cands))
               /\ \/ new = {} /\ Watched({}, again) /\ mon' = Asleep
                  \/ \E m \in new :
                       /\ Watched({m}, again)
                       /\ mon' = [at |-> "alert", todo |-> new \ {m}, left |-> Ttl]

\* The tickers of the refresh: the list is ranked, and its changes are told.
TickersAnswered ==
  /\ At("tickers")
  /\ dynamic' \in Ranked
  /\ \/ dynamic' # dynamic /\ Goto("told")
        /\ UNCHANGED <<surge, left, baseline, ticks, seen>>
     \/ dynamic' = dynamic /\ ticks' = 0
        /\ \/ Detecting /\ Detect(dynamic)
           \/ ~Detecting /\ mon' = Asleep /\ UNCHANGED <<surge, left, baseline, seen>>
  /\ UNCHANGED <<marks, settings, used>>

\* The alert is sent: the same tickers serve the detection.
Told ==
  /\ At("told") /\ ticks' = 0
  /\ \/ Detecting /\ Detect(Base)
     \/ ~Detecting /\ mon' = Asleep /\ UNCHANGED <<surge, left, baseline, seen>>
  /\ UNCHANGED <<dynamic, marks, settings, used>>

\* Its own tickers are answered; the flag is not looked at again.
FetchAnswered ==
  /\ At("fetch") /\ Detect(Base)
  /\ UNCHANGED <<dynamic, marks, ticks, settings, used>>

FetchFails ==
  /\ At("fetch") /\ mon' = Asleep
  /\ UNCHANGED <<watch, marks, baseline, ticks, settings, seen, used>>

\* Mutant: the market that was added stays among those to add.
AlertedTwice ==
  /\ At("alert")
  /\ \/ mon.todo = {} /\ mon' = Asleep /\ UNCHANGED <<surge, left>>
     \/ \E m \in mon.todo :
          /\ surge' = surge \union {m} /\ left' = [left EXCEPT ![m] = mon.left]
          /\ UNCHANGED mon
  /\ UNCHANGED <<dynamic, marks, baseline, ticks, settings, seen, used>>

\* An alert is sent: the next new market is added.
Alerted ==
  /\ At("alert")
  /\ \/ mon.todo = {} /\ mon' = Asleep /\ UNCHANGED <<surge, left>>
     \/ \E m \in mon.todo :
          /\ mon' = [mon EXCEPT !.todo = @ \ {m}]
          /\ surge' = surge \union {m} /\ left' = [left EXCEPT ![m] = mon.left]
  /\ UNCHANGED <<dynamic, marks, baseline, ticks, settings, seen, used>>

Monitor ==
  \/ TickBegins \/ WarnedAnswered \/ TickFails \/ ChecksOver
  \/ RefreshDue \/ TickersFail \/ TickersAnswered \/ Told
  \/ FetchAnswered \/ FetchFails \/ Alerted

-----------------------------------------------------------------------------
(* The handlers, and time *)

Command == used < MaxCommands /\ used' = used + 1

\* reload_settings replaces the settings.
Reload ==
  /\ Command
  /\ settings' \in [top : BOOLEAN, on : BOOLEAN, cap : Caps] \ {settings}
  /\ UNCHANGED <<watch, marks, baseline, ticks, mon, seen>>

\* block_market
Block(m) ==
  /\ Command /\ m \notin excluded
  /\ excluded' = excluded \union {m}
  /\ seen' = [seen EXCEPT !.marked = @ \union {m}]
  /\ UNCHANGED <<watch, warned, baseline, ticks, settings, mon>>

\* unblock_market
Unblock(m) ==
  /\ Command /\ m \in excluded
  /\ excluded' = excluded \ {m}
  /\ UNCHANGED <<watch, warned, baseline, ticks, settings, mon, seen>>

Less(n) == IF n = 0 THEN 0 ELSE n - 1

TimePasses ==
  /\ left' = [m \in Markets |-> Less(left[m])]
  /\ mon' = [mon EXCEPT !.left = Less(@)]
  /\ left' # left \/ mon' # mon
  /\ UNCHANGED <<dynamic, surge, marks, baseline, ticks, settings, seen, used>>

Next ==
  \/ Monitor \/ Reload \/ TimePasses
  \/ \E m \in Markets : Block(m) \/ Unblock(m)

Spec == Init /\ [][Next]_vars

-----------------------------------------------------------------------------

(* The types of the variables: among others, only watched markets have time    *)
(* left, and the markets still to be added are not watched yet.                *)
TypeOK ==
  /\ dynamic \subseteq Markets /\ surge \subseteq Markets
  /\ left \in [Markets -> 0..Ttl] /\ \A m \in Markets \ surge : left[m] = 0
  /\ warned \subseteq Suspects /\ excluded \subseteq Markets
  /\ baseline \in BOOLEAN /\ ticks \in 0..RefreshEvery
  /\ settings \in [top : BOOLEAN, on : BOOLEAN, cap : Caps]
  /\ mon \in [at : {"sleep", "warned", "checks", "tickers", "told", "fetch", "alert"},
              todo : SUBSET (Markets \ surge), left : 0..Ttl]
  /\ seen \in [cap : Caps, marked : SUBSET Markets]
  /\ used \in 0..MaxCommands

(* docs/architecture.md: at most surge_max_markets are watched at a time. A    *)
(* reload may lower the cap below what is watched, and it does not drop any;   *)
(* but no market is added beyond the cap its detection read, though markets    *)
(* are added one by one while the settings, the marks and the time change.     *)
CapKept ==
  [][~(surge' \subseteq surge) => Cardinality(surge') <= seen'.cap]_vars

(* docs/architecture.md: a watched market that is warned about or excluded is  *)
(* dropped in the next tick. So one that is watched in spite of a mark was     *)
(* marked after the last detection began, also when that still adds markets.   *)
MarkedIsNew == surge \cap (warned \union excluded) \subseteq seen.marked
=============================================================================
