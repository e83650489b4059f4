----------------------------- MODULE PositionExit -----------------------------
(* The pyramid position's own stop-loss and trailing stop (src/core/trader.py: *)
(* _check_position_exit, _reconcile_pyramid_exit, _stamp_entry_ts,             *)
(* _restore_highest_from_candles) for one market, with the candles it is       *)
(* judged by and the row it survives a restart in.                             *)
(*                                                                             *)
(* The exchange is the log of its prices, one per instant; a candle is the     *)
(* last bar of an answer: when it began, when it was taken, and what it        *)
(* summarises of the log. The exchange and the bot read the same clock. The    *)
(* entry's ghost fields are `from', the oldest price the bot may have had in   *)
(* hand when it registered the entry, and `guessed', its highest price was     *)
(* replaced by that of the candle history.                                     *)
EXTENDS Naturals, Sequences

CONSTANTS Prices,
          Units,       \* bar lengths: the unit of a search and of a position
          StopPct,     \* strategy.stop_pct
          TrailPct,    \* strategy.trail_pct
          MaxTime,     \* bound on the instants
          MaxEntries,  \* bound on buy attempts and manual entries together
          MaxCrashes   \* bound on restarts

ASSUME PositionExitAssumption ==
  /\ Prices \subseteq Nat \ {0} /\ Units \subseteq Nat \ {0}
  /\ StopPct \in 1..99 /\ TrailPct \in 1..99
  /\ MaxTime \in Nat /\ MaxEntries \in Nat /\ MaxCrashes \in Nat

VARIABLES
  log,      \* the price of every instant so far
  coming,   \* the candle answered and not yet resumed with
  cache,    \* _latest_candles
  mem,      \* pos: the entry in _pyramid_state, _position_highest and
            \*   _position_entry_ts; loaded: its dict has a highest_price;
            \* owed: its highest was raised and not saved
  row,      \* the pyramid_state table
  dbq,      \* statements submitted to the database worker, in order
  ctl,      \* the strategy loop: where it awaits, and its local variables
  up,
  used      \* the budgets spent

vars == <<log, coming, cache, mem, row, dbq, ctl, up, used>>

now == Len(log)

\* The prices of the log l from instant t on.
Vals(l, t) == {l[i] : i \in t..Len(l)}

NoBar == [start |-> 0, at |-> 0, high |-> 0, low |-> 0, close |-> 0, top |-> 0]

\* ts = 0 is an entry without a timestamp; entry = 0 is no entry.
NoPos == [entry |-> 0, ts |-> 0, highest |-> 0, from |-> 0, guessed |-> FALSE]
Live == mem.pos # NoPos
NoMem == [pos |-> NoPos, loaded |-> FALSE, owed |-> FALSE]

Rest(l) == [at |-> l, quote |-> 0, when |-> 0, check |-> 0, pos |-> NoPos]
At(l) == up /\ ctl.at = l

\* A row of an earlier version of the program has neither a timestamp nor a
\* highest price.
Legacy == [entry : Prices, ts : {0}, highest : {0}, from : {1}, guessed : {FALSE}]

\* Mutant: a row without a highest price is taken as it is.
LoadBare(r) == [pos |-> r, loaded |-> r.highest # 0, owed |-> r.highest = 0 /\ r # NoPos]

\* _initialize: an entry without a saved highest price starts from its own.
Load(r) ==
  IF r = NoPos THEN NoMem
  ELSE [pos    |-> [r EXCEPT !.highest = IF @ = 0 THEN r.entry ELSE @],
        loaded |-> r.highest # 0,
        owed   |-> r.highest = 0]

Init ==
  /\ log \in {<<p>> : p \in Prices}
  /\ coming = NoBar /\ cache = NoBar
  /\ row \in {NoPos} \union Legacy
  /\ mem = Load(row) /\ dbq = <<>>
  /\ ctl = Rest("boot") /\ up = TRUE
  /\ used = [entries |-> 0, crashes |-> 0]

-----------------------------------------------------------------------------
(* The database worker: save and delete. A save without a timestamp keeps the  *)
(* row's, if there is one (COALESCE).                                          *)

Save(p, keep) == [by |-> p, keep |-> keep, val |-> mem'.pos]
Delete(p) == [by |-> p, keep |-> FALSE, val |-> NoPos]
Submit(w) == dbq' = Append(dbq, w)

\* Mutant: the row's timestamp is lost.
AppliedBare(w) == IF w.keep THEN [w.val EXCEPT !.ts = 0] ELSE w.val

Applied(w) == IF w.keep THEN [w.val EXCEPT !.ts = row.ts] ELSE w.val

\* A caller awaits its statement.
Free(p) == up /\ \A i \in 1..Len(dbq) : dbq[i].by # p

Served ==
  /\ up /\ dbq # <<>>
  /\ row' = Applied(Head(dbq)) /\ dbq' = Tail(dbq)
  /\ ctl' = IF Head(dbq).by = "strategy" THEN Rest("idle") ELSE ctl
  /\ UNCHANGED <<log, coming, cache, mem, up, used>>

-----------------------------------------------------------------------------
(* Prices and candles *)

Tick(p) ==
  /\ now < MaxTime /\ log' = Append(log, p)
  /\ UNCHANGED <<coming, cache, mem, row, dbq, ctl, up, used>>

\* _fetch_candles: the answer, whichever unit the market is held to need.
FetchAnswered(u) ==
  /\ up /\ coming = NoBar
  /\ \E start \in 1..now : \E high, low \in Vals(log, start), top \in Vals(log, 1) :
        /\ (start - 1) % u = 0 /\ now < start + u
        /\ \A p \in Vals(log, start) : low <= p /\ p <= high
        /\ \A p \in Vals(log, 1) : p <= top
        /\ coming' = [start |-> start, at |-> now, high |-> high, low |-> low,
                      close |-> log[now], top |-> top]
  /\ UNCHANGED <<log, cache, mem, row, dbq, ctl, up, used>>

FetchStored ==
  /\ up /\ coming # NoBar
  /\ cache' = coming /\ coming' = NoBar
  /\ UNCHANGED <<log, mem, row, dbq, ctl, up, used>>

-----------------------------------------------------------------------------
(* Entries *)

\* The instants of the prices the bot has in hand.
InHand ==
  {now} \union (IF cache # NoBar THEN {cache.at} ELSE {})
        \union (IF coming # NoBar THEN {coming.at} ELSE {})
        \union (IF ctl.at = "buy" THEN {ctl.when} ELSE {})

\* A new entry, stamped now (_stamp_entry_ts).
Registered(e) ==
  \E t \in InHand :
    /\ \A s \in InHand : t <= s
    /\ mem' = [pos    |-> [entry |-> e, ts |-> now, highest |-> e, from |-> t,
                           guessed |-> FALSE],
               loaded |-> FALSE, owed |-> FALSE]

\* set_pyramid_state; sync_pyramid_state, for a market it has no entry of.
Register(e) ==
  /\ Free("bot") /\ used.entries < MaxEntries
  /\ Registered(e) /\ Submit(Save("bot", FALSE))
  /\ used' = [used EXCEPT !.entries = @ + 1]
  /\ UNCHANGED <<log, coming, cache, row, ctl, up>>

\* _forget_position, by the monitor loop or /sync: the balance is gone.
Forget ==
  /\ Free("monitor") /\ Live
  /\ mem' = NoMem /\ Submit(Delete("monitor"))
  /\ UNCHANGED <<log, coming, cache, row, ctl, up, used>>

\* _execute_decision, BUY: the ticker; then the order, and the entry or the add.
BuyQuoted ==
  /\ At("idle") /\ cache # NoBar /\ used.entries < MaxEntries
  /\ ctl' = [Rest("buy") EXCEPT !.quote = log[now], !.when = now]
  /\ used' = [used EXCEPT !.entries = @ + 1]
  /\ UNCHANGED <<log, coming, cache, mem, row, dbq, up>>

BuyDone ==
  /\ At("buy")
  /\ \/ ~Live /\ Registered(ctl.quote)
     \/ /\ Live
        /\ mem' = [mem EXCEPT !.owed = FALSE,
                     !.pos.highest = IF ctl.quote > mem.pos.highest THEN ctl.quote
                                                              ELSE mem.pos.highest]
  /\ Submit(Save("strategy", mem'.pos.ts = 0))
  /\ ctl' = Rest("save")
  /\ UNCHANGED <<log, coming, cache, row, up, used>>

BuyGivenUp ==
  /\ At("buy") /\ ctl' = Rest("idle")
  /\ UNCHANGED <<log, coming, cache, mem, row, dbq, up, used>>

-----------------------------------------------------------------------------
(* Exits *)

\* _restore_highest_from_candles, before the strategy loop's first round.
Begin ==
  /\ At("boot") /\ ctl' = Rest("idle")
  /\ mem' = IF Live /\ ~mem.loaded /\ cache # NoBar
            THEN [mem EXCEPT !.owed = TRUE,
                    !.pos.guessed = mem.pos.ts # 0,
                    !.pos.highest = IF cache.top > mem.pos.entry THEN cache.top
                                                                ELSE mem.pos.entry]
            ELSE mem
  /\ UNCHANGED <<log, coming, cache, row, dbq, up, used>>

Stopped(e, p) == p * 100 <= e * (100 - StopPct)
Trailed(e, h, p) == h * (100 - TrailPct) > e * 100 /\ p * 100 <= h * (100 - TrailPct)
Exit(e, h, p) == Stopped(e, p) \/ Trailed(e, h, p)

\* Mutant: every bar counts by its high and low.
AnyBar == TRUE

\* _check_position_exit: a bar that began before the entry counts by its close.
AfterEntry == mem.pos.ts = 0 \/ cache.start >= mem.pos.ts
CheckPrice == IF AfterEntry THEN cache.low ELSE cache.close

Raised == {mem.pos.highest, cache.close} \union (IF AfterEntry THEN {cache.high} ELSE {})
IsHighest(h) == h \in Raised /\ \A g \in Raised : g <= h

\* _reconcile_pyramid_exit: no exit; a highest that was raised is saved.
Holds ==
  /\ At("idle") /\ Live /\ cache # NoBar
  /\ \E h \in Raised :
       /\ IsHighest(h) /\ h > mem.pos.highest
       /\ ~Exit(mem.pos.entry, h, CheckPrice)
       /\ mem' = [mem EXCEPT !.pos.highest = h, !.owed = FALSE]
  /\ Submit(Save("strategy", TRUE))
  /\ ctl' = Rest("save")
  /\ UNCHANGED <<log, coming, cache, row, up, used>>

\* SELL: the highest is raised in memory only.
Exits ==
  /\ At("idle") /\ Live /\ cache # NoBar
  /\ \E h \in Raised :
       /\ IsHighest(h) /\ Exit(mem.pos.entry, h, CheckPrice)
       /\ mem' = [mem EXCEPT !.pos.highest = h,
                             !.owed = mem.owed \/ h > mem.pos.highest]
  /\ ctl' = [Rest("sell") EXCEPT !.check = CheckPrice, !.pos = mem'.pos]
  /\ UNCHANGED <<log, coming, cache, row, dbq, up, used>>

SellDone ==
  /\ At("sell")
  /\ mem' = NoMem /\ Submit(Delete("strategy"))
  /\ ctl' = Rest("save")
  /\ UNCHANGED <<log, coming, cache, row, up, used>>

SellFailed ==
  /\ At("sell") /\ ctl' = Rest("idle")
  /\ UNCHANGED <<log, coming, cache, mem, row, dbq, up, used>>

-----------------------------------------------------------------------------

Crash ==
  /\ up /\ used.crashes < MaxCrashes
  /\ up' = FALSE /\ used' = [used EXCEPT !.crashes = @ + 1]
  /\ coming' = NoBar /\ cache' = NoBar
  /\ mem' = NoMem /\ dbq' = <<>> /\ ctl' = Rest("boot")
  /\ UNCHANGED <<log, row>>

Restart ==
  /\ ~up /\ up' = TRUE
  /\ mem' = Load(row)
  /\ UNCHANGED <<log, coming, cache, row, dbq, ctl, used>>

Next ==
  \/ \E p \in Prices : Tick(p) \/ Register(p)
  \/ \E u \in Units : FetchAnswered(u)
  \/ FetchStored \/ Served \/ Forget
  \/ BuyQuoted \/ BuyDone \/ BuyGivenUp
  \/ Begin \/ Holds \/ Exits \/ SellDone \/ SellFailed
  \/ Crash \/ Restart

Spec == Init /\ [][Next]_vars
-----------------------------------------------------------------------------

Entries ==
  [entry : Prices, ts : Nat, highest : Prices, from : Nat, guessed : BOOLEAN]
Bars == [start : Nat, at : Nat, high : Prices, low : Prices, close : Prices,
         top : Prices]
Mems == [pos : Entries \union {NoPos}, loaded : BOOLEAN, owed : BOOLEAN]
Rows == Entries \union Legacy \union {NoPos}
Writes ==
  {w \in [by : {"strategy", "bot", "monitor"}, keep : BOOLEAN,
          val : Entries \union {NoPos}] : w.keep => w.val # NoPos}
Labels == {"boot", "idle", "buy", "save", "sell"}
Contexts ==
  {c \in [at : Labels, quote : Prices \union {0}, when : Nat,
          check : Prices \union {0}, pos : Entries \union {NoPos}] :
     (c.at = "buy" => c.quote \in Prices) /\ (c.at = "sell" => c.pos \in Entries)}

(* The types of the variables: among others, an entry in memory has a highest  *)
(* price, also one loaded from a row that has none.                            *)
TypeOK ==
  /\ log \in Seq(Prices) /\ log # <<>>
  /\ coming \in Bars \union {NoBar} /\ cache \in Bars \union {NoBar}
  /\ mem \in Mems /\ row \in Rows /\ dbq \in Seq(Writes) /\ ctl \in Contexts
  /\ up \in BOOLEAN /\ used \in [entries : Nat, crashes : Nat]

\* What the price has been since the entry: its own, and every later one.
Since(l, r) == {r.entry} \union Vals(l, r.from)
Earned(l, r, p) == \E h \in Since(l, r) : Exit(r.entry, h, p)

(* A position is sold only at a price the market has really had since it was   *)
(* entered, and only for a loss from its entry or a retreat from a price       *)
(* reached since: whatever bar the candle is, before or after a restart,       *)
(* nothing from before the entry counts (docs/architecture.md, the entry bar). *)
(* Loss and retreat are measured as the code does, from the price of the first *)
(* buy (architecture.md has the average price, which an add raises).           *)
(* The exception is a highest price guessed from the candle history, which     *)
(* docs/architecture.md does not make: an entry registered by hand or by /sync *)
(* before the first round gets it too, and may be sold at once.                *)
ExitEarned ==
  ctl.at = "sell" =>
    /\ ctl.check \in Since(log, ctl.pos)
    /\ ~ctl.pos.guessed => Earned(log, ctl.pos, ctl.check)

(* When no statement waits, the row has the entry's price, its timestamp and   *)
(* the highest price the trailing stop hangs on, so a restart moves no stop,   *)
(* unless the last rise came with a SELL that failed, or at the start.         *)
StopsSurvive ==
  up /\ dbq = <<>> =>
    /\ row.entry = mem.pos.entry /\ row.ts = mem.pos.ts
    /\ ~mem.owed => row.highest = mem.pos.highest
=============================================================================
