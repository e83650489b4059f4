-------------------------------- MODULE Trader --------------------------------
(* The order path of src/core/trader.py: the strategy loop, the monitor loop   *)
(* and the Telegram handlers share one Trader object, the exchange and one     *)
(* database connection. asyncio runs one of them at a time and switches at an  *)
(* await, so an action is the code between two awaits.                         *)
(*                                                                             *)
(* Prices are abstracted: a signal, a price level or a loss may or may not be  *)
(* there. A market buy is four units of the coin, so that half of it, and half *)
(* of the rest, can be sold.                                                   *)
EXTENDS Naturals, Sequences, FiniteSets

CONSTANTS Markets,
          Commands,      \* the Telegram commands the operator uses
          Delistable,    \* markets the exchange may announce the delisting of
          ExcludedMarkets, \* EXCLUDED_MARKETS of the settings
          PartialTake,   \* pyramid_partial_take_pct > 0
          MaxAdds,       \* bound on the add-buys of a position
          MaxOrders,     \* bound on accepted buy orders
          MaxCommands,   \* bound on operator commands
          MaxRetries,    \* how often the client sends a request again
          MaxFaults,     \* bound on refused requests, lost or 5xx answers and
                         \* failing statements
          MaxCrashes     \* bound on restarts

ASSUME TraderAssumption ==
  /\ Delistable \subseteq Markets /\ ExcludedMarkets \subseteq Markets
  /\ PartialTake \in BOOLEAN
  /\ MaxAdds \in Nat /\ MaxOrders \in Nat /\ MaxCommands \in Nat
  /\ MaxRetries \in Nat /\ MaxFaults \in Nat /\ MaxCrashes \in Nat

Procs == {"strategy", "monitor", "bot"}

VARIABLES
  mem,    \* the Trader's and the coordinator's fields
  ctl,    \* per process: where it awaits, and its local variables
  dbq,    \* statements submitted to the database worker, in order
  db,     \* the tables
  ex,     \* the exchange: free coins, unfilled buys, markets with coins
          \* locked in an unfilled sale, delisting notices
  up,     \* the process is running
  seen,   \* history: order calls that bought after the halt, partial sales of
          \* the position, a statement that failed
  used    \* the budgets spent

vars == <<mem, ctl, dbq, db, ex, up, seen, used>>

\* An entry of _pyramid_state; id tells one dict object from another.
NoPos == [live |-> FALSE, adds |-> 0, taken |-> FALSE, id |-> 0]
Known(m) == mem.pos[m].live

NoVol == [m \in Markets |-> 0]

\* A process that awaits its loop's sleep or the next Telegram update.
Rest == [at |-> "idle", m |-> "none", vol |-> NoVol, todo |-> {}, got |-> {},
         val |-> NoPos, then |-> "hold", tries |-> 0]

Boot == [pos |-> [m \in Markets |-> NoPos], held |-> {}, cooling |-> {},
         excluded |-> {}, warned |-> {}, halted |-> FALSE, blocked |-> {},
         watch |-> [m \in Markets |-> 0]]

\* The account is empty; the operator may have excluded markets earlier, and
\* _initialize adds those of the settings.
Init ==
  /\ \E excl \in SUBSET Markets :
       /\ mem = [Boot EXCEPT !.excluded = excl \union ExcludedMarkets]
       /\ db = [rows |-> [m \in Markets |-> NoPos], cool |-> {}, open |-> {},
                excl |-> excl, halted |-> FALSE, blocked |-> {}, stray |-> {}]
  /\ ctl = [p \in Procs |-> Rest]
  /\ dbq = <<>>
  /\ ex = [coins |-> [m \in Markets |-> 0], bids |-> [m \in Markets |-> 0],
           asks |-> {}, delisting |-> {}]
  /\ up = TRUE
  /\ seen = [late |-> 0, takes |-> [m \in Markets |-> 0], failed |-> FALSE]
  /\ used = [orders |-> 0, commands |-> 0, faults |-> 0, crashes |-> 0]

-----------------------------------------------------------------------------
(* Control *)

At(p, l) == up /\ ctl[p].at = l
Goto(p, l) == ctl' = [ctl EXCEPT ![p].at = l]

\* Where a SELL returns to: the monitor loop goes on with its warned markets.
Returned(p) == IF p = "monitor" THEN [ctl[p] EXCEPT !.at = "warn", !.m = "none", !.vol = NoVol,
                                                   !.tries = 0]
                                ELSE Rest
Return(p) == ctl' = [ctl EXCEPT ![p] = Returned(p)]

Blocked(m) == mem.halted \/ m \in mem.blocked

\* One fault: an order refused, its answer lost, or a statement that fails.
Fault == used.faults < MaxFaults /\ used' = [used EXCEPT !.faults = @ + 1]

\* UpbitClient._post: the exchange took the order and answered 5xx; the client
\* sleeps and sends the same order again, at l, without a look at the switch.
SendAgain(p, l) ==
  /\ ctl[p].tries < MaxRetries /\ Fault
  /\ ctl' = [ctl EXCEPT ![p].at = l, ![p].tries = @ + 1]

\* A market sale locks its coins until it is filled.
Sold(m, vol) == [ex EXCEPT !.coins[m] = @ - vol, !.asks = @ \union {m}]

-----------------------------------------------------------------------------
(* The database. A write is an execute and a commit on the connection; writes  *)
(* take effect in the order they were submitted and their submitter waits.     *)

Write(p, kind, m, val) == [by |-> p, kind |-> kind, m |-> m, val |-> val]

\* The coordinator's four keys, as _persist submits them.
GateWrite(p, halted, blocked) ==
  [by |-> p, kind |-> "gate", m |-> "none", val |-> <<halted, blocked>>]

Apply(w) ==
  CASE w.kind = "open"   -> [db EXCEPT !.open = @ \union {w.m}]
    [] w.kind = "close"  -> [db EXCEPT !.open = @ \ {w.m}]
    [] w.kind = "state"  -> [db EXCEPT !.rows[w.m] = w.val, !.stray = @ \ {w.m}]
    [] w.kind = "stray"  -> [db EXCEPT !.rows[w.m] = w.val, !.stray = @ \union {w.m}]
    [] w.kind = "forget" -> [db EXCEPT !.rows[w.m] = NoPos, !.stray = @ \ {w.m}]
    [] w.kind = "cool"   -> [db EXCEPT !.cool = @ \union {w.m}]
    [] w.kind = "uncool" -> [db EXCEPT !.cool = @ \ {w.m}]
    [] w.kind = "excl"   -> [db EXCEPT !.excl = @ \union {w.m}]
    [] w.kind = "unexcl" -> [db EXCEPT !.excl = @ \ {w.m}]
    [] w.kind = "gate"   -> [db EXCEPT !.halted = w.val[1], !.blocked = w.val[2]]

Submit(w) == dbq' = Append(dbq, w) /\ UNCHANGED db

\* The worker finishes p's statement and p resumes.
Served(p, l) ==
  /\ At(p, l) /\ dbq # <<>> /\ Head(dbq).by = p
  /\ db' = Apply(Head(dbq))
ThenSubmit(w) == dbq' = Append(Tail(dbq), w)
ThenNothing == dbq' = Tail(dbq)

\* _forget_position drops the entry and submits the delete.
Forgotten(m) == [mem EXCEPT !.pos[m] = NoPos]

\* A new dict in _pyramid_state: any name but that of the dict a partial sale
\* holds, the only one the code keeps beside the table.
Fresh(adds) == [live |-> TRUE, adds |-> adds, taken |-> FALSE,
                id |-> IF ctl["strategy"].val.id = 1 THEN 2 ELSE 1]

-----------------------------------------------------------------------------
(* The strategy loop (_strategy_loop, _decide_pyramid, _apply_buy_blocks) *)

\* _pyramid_add_allowed: a first entry, or the next level of a known position.
AddAllowed(m) ==
  IF Known(m) THEN mem.pos[m].adds < MaxAdds
              ELSE m \notin mem.cooling /\ m \notin mem.held

BuyBlocked(m) == m \in mem.excluded \union mem.warned

Begin(p, l, m) == ctl' = [ctl EXCEPT ![p] = [Rest EXCEPT !.at = l, !.m = m]]

\* Mutant: the kill switch is not asked.
DecideBuyUngated(m) ==
  /\ At("strategy", "idle")
  /\ AddAllowed(m) /\ ~BuyBlocked(m)
  /\ Begin("strategy", "buy", m)
  /\ UNCHANGED <<mem, dbq, db, ex, up, seen, used>>

DecideBuy(m) ==
  /\ At("strategy", "idle") /\ ~Blocked(m)
  /\ AddAllowed(m) /\ ~BuyBlocked(m)
  /\ Begin("strategy", "buy", m)
  /\ UNCHANGED <<mem, dbq, db, ex, up, seen, used>>

DecideSell(m) ==
  /\ At("strategy", "idle") /\ ~Blocked(m)
  /\ Begin("strategy", "sell_bal", m)
  /\ UNCHANGED <<mem, dbq, db, ex, up, seen, used>>

\* _check_partial_take, with the BUY or HOLD decision that follows it.
DecidePartial(m, then) ==
  /\ PartialTake
  /\ At("strategy", "idle") /\ ~Blocked(m)
  /\ Known(m) /\ ~mem.pos[m].taken
  /\ then = "buy" => AddAllowed(m)
  /\ ctl' = [ctl EXCEPT !["strategy"] =
               [Rest EXCEPT !.at = "part", !.m = m, !.val = mem.pos[m], !.then = then]]
  /\ UNCHANGED <<mem, dbq, db, ex, up, seen, used>>

-----------------------------------------------------------------------------
(* _execute_decision, BUY: balances, ticker and order book are awaited before  *)
(* the order is sent; any of them, or the last retry, may end the attempt.     *)

BuyGivenUp ==
  /\ At("strategy", "buy")
  /\ ctl' = [ctl EXCEPT !["strategy"] = Rest]
  /\ UNCHANGED <<mem, dbq, db, ex, up, seen, used>>

\* After a halt a call counts once, with its first order that is accepted.
BuyAccepted ==
  /\ At("strategy", "buy") /\ used.orders < MaxOrders
  /\ ex' = [ex EXCEPT !.bids[ctl["strategy"].m] = @ + 1]
  /\ seen' = [seen EXCEPT !.late =
                IF mem.halted /\ (ctl["strategy"].tries = 0 \/ @ = 0) THEN @ + 1 ELSE @]
  /\ used' = [used EXCEPT !.orders = @ + 1]
  /\ Goto("strategy", "buy_sent")
  /\ UNCHANGED <<mem, dbq, db, up>>

\* The order stands, but the client raised: a timeout, or a retry that failed.
BuyAnswerLost ==
  /\ At("strategy", "buy_sent") /\ Fault
  /\ ctl' = [ctl EXCEPT !["strategy"] = Rest]
  /\ UNCHANGED <<mem, dbq, db, ex, up, seen>>

BuyHidden ==
  /\ At("strategy", "buy_sent") /\ SendAgain("strategy", "buy")
  /\ UNCHANGED <<mem, dbq, db, ex, up, seen>>

BuyAnswered ==
  /\ At("strategy", "buy_sent")
  /\ Submit(Write("strategy", "open", ctl["strategy"].m, NoPos))
  /\ Goto("strategy", "buy_rec")
  /\ UNCHANGED <<mem, ex, up, seen, used>>

\* record_open returned: a first entry clears the cooldown, an add counts.
BuyRecorded ==
  LET m == ctl["strategy"].m IN
  /\ Served("strategy", "buy_rec")
  /\ \/ /\ ~Known(m)
        /\ mem' = [mem EXCEPT !.held = @ \union {m}, !.pos[m] = Fresh(0),
                              !.cooling = @ \ {m}]
        /\ seen' = [seen EXCEPT !.takes[m] = 0]
        /\ ThenSubmit(Write("strategy", "uncool", m, NoPos))
        /\ Goto("strategy", "buy_cool")
     \/ /\ Known(m)
        /\ mem' = [mem EXCEPT !.held = @ \union {m}, !.pos[m].adds = @ + 1]
        /\ ThenSubmit(Write("strategy", "state", m, mem'.pos[m]))
        /\ Goto("strategy", "buy_save")
        /\ UNCHANGED seen
  /\ UNCHANGED <<ex, up, used>>

\* Mutant: the save writes the entry made before the await, gone or not.
BuyUncooledBlind ==
  LET m == ctl["strategy"].m IN
  /\ Served("strategy", "buy_cool")
  /\ ThenSubmit(Write("strategy", "state", m, Fresh(0)))
  /\ Goto("strategy", "buy_save")
  /\ UNCHANGED <<mem, ex, up, seen, used>>

\* delete_cooldown returned: saving an entry that is gone raises KeyError.
BuyUncooled ==
  LET m == ctl["strategy"].m IN
  /\ Served("strategy", "buy_cool")
  /\ \/ /\ Known(m)
        /\ ThenSubmit(Write("strategy", "state", m, mem.pos[m]))
        /\ Goto("strategy", "buy_save")
     \/ /\ ~Known(m)
        /\ ThenNothing
        /\ ctl' = [ctl EXCEPT !["strategy"] = Rest]
  /\ UNCHANGED <<mem, ex, up, seen, used>>

\* The save returned: the alert reads the entry again, then the order is
\* watched.
BuySaved ==
  LET m == ctl["strategy"].m IN
  /\ Served("strategy", "buy_save") /\ ThenNothing
  /\ mem' = [mem EXCEPT !.watch[m] = IF Known(m) THEN @ + 1 ELSE @]
  /\ ctl' = [ctl EXCEPT !["strategy"] = Rest]
  /\ UNCHANGED <<ex, up, seen, used>>

-----------------------------------------------------------------------------
(* _execute_decision, SELL, by whichever process called it *)

SellBalance(p) ==
  LET m == ctl[p].m IN
  /\ At(p, "sell_bal")
  /\ \/ /\ ex.coins[m] = 0
        /\ Return(p)
     \/ /\ ex.coins[m] > 0
        /\ ctl' = [ctl EXCEPT ![p].at = "sell_price", ![p].vol[m] = ex.coins[m]]
  /\ UNCHANGED <<mem, dbq, db, ex, up, seen, used>>

\* check_micro finds no loss beyond the threshold, or the market blocked.
SellPriced(p) ==
  /\ At(p, "sell_price") /\ Goto(p, "sell_send")
  /\ UNCHANGED <<mem, dbq, db, ex, up, seen, used>>

\* Mutant: the save of a blocked market writes the switch as it is at the start.
SellTripsReset(p) ==
  LET m == ctl[p].m IN
  /\ At(p, "sell_price") /\ m \notin mem.blocked
  /\ mem' = [mem EXCEPT !.blocked = @ \union {m}]
  /\ Submit(GateWrite(p, FALSE, mem'.blocked))
  /\ Goto(p, "sell_trip")
  /\ UNCHANGED <<ex, up, seen, used>>

SellTrips(p) ==
  LET m == ctl[p].m IN
  /\ At(p, "sell_price") /\ m \notin mem.blocked
  /\ mem' = [mem EXCEPT !.blocked = @ \union {m}]
  /\ Submit(GateWrite(p, mem.halted, mem'.blocked))
  /\ Goto(p, "sell_trip")
  /\ UNCHANGED <<ex, up, seen, used>>

SellTripped(p) ==
  /\ Served(p, "sell_trip") /\ ThenNothing
  /\ Goto(p, "sell_send")
  /\ UNCHANGED <<mem, ex, up, seen, used>>

\* Mutant: an exchange that does not check the balance.
SellAcceptedBlind(p) ==
  /\ At(p, "sell_send")
  /\ ex' = Sold(ctl[p].m, ctl[p].vol[ctl[p].m])
  /\ Goto(p, "sell_sent")
  /\ UNCHANGED <<mem, dbq, db, up, seen, used>>

SellAccepted(p) ==
  LET m == ctl[p].m IN
  /\ At(p, "sell_send") /\ ctl[p].vol[m] <= ex.coins[m]
  /\ ex' = Sold(m, ctl[p].vol[m])
  /\ Goto(p, "sell_sent")
  /\ UNCHANGED <<mem, dbq, db, up, seen, used>>

\* Too few free coins, or a fault: the exception ends the attempt.
SellRejected(p) ==
  /\ At(p, "sell_send")
  /\ \/ ctl[p].vol[ctl[p].m] > ex.coins[ctl[p].m] /\ UNCHANGED used
     \/ Fault
  /\ Return(p)
  /\ UNCHANGED <<mem, dbq, db, ex, up, seen>>

SellAnswerLost(p) ==
  /\ At(p, "sell_sent") /\ Fault
  /\ Return(p)
  /\ UNCHANGED <<mem, dbq, db, ex, up, seen>>

SellHidden(p) ==
  /\ At(p, "sell_sent") /\ SendAgain(p, "sell_send")
  /\ UNCHANGED <<mem, dbq, db, ex, up, seen>>

\* get_open_trades and a record_close per row, taken as one statement.
SellAnswered(p) ==
  /\ At(p, "sell_sent")
  /\ Submit(Write(p, "close", ctl[p].m, NoPos))
  /\ Goto(p, "sell_close")
  /\ UNCHANGED <<mem, ex, up, seen, used>>

SellClosed(p) ==
  LET m == ctl[p].m IN
  /\ Served(p, "sell_close")
  /\ mem' = Forgotten(m)
  /\ ThenSubmit(Write(p, "forget", m, NoPos))
  /\ Goto(p, "sell_forget")
  /\ UNCHANGED <<ex, up, seen, used>>

SellForgotten(p) ==
  LET m == ctl[p].m IN
  /\ Served(p, "sell_forget")
  /\ mem' = [mem EXCEPT !.cooling = @ \union {m}]
  /\ ThenSubmit(Write(p, "cool", m, NoPos))
  /\ Goto(p, "sell_cool")
  /\ UNCHANGED <<ex, up, seen, used>>

SellCooled(p) ==
  /\ Served(p, "sell_cool") /\ ThenNothing
  /\ Return(p)
  /\ UNCHANGED <<mem, ex, up, seen, used>>

-----------------------------------------------------------------------------
(* _execute_partial_sell: it keeps the dict it read before its awaits. *)

\* Back in the round: a BUY goes on unless the market is now excluded or warned.
AfterPartial(c) ==
  IF c.then = "buy" /\ ~BuyBlocked(c.m) THEN [Rest EXCEPT !.at = "buy", !.m = c.m]
                                        ELSE Rest
PartialOver == ctl' = [ctl EXCEPT !["strategy"] = AfterPartial(@)]

\* No coins, or less than the minimum order; or the balances are not answered.
PartialSkipped ==
  /\ At("strategy", "part")
  /\ \/ ex.coins[ctl["strategy"].m] < 2 /\ UNCHANGED used
     \/ Fault
  /\ PartialOver
  /\ UNCHANGED <<mem, dbq, db, ex, up, seen>>

PartialSized ==
  LET m == ctl["strategy"].m IN
  /\ At("strategy", "part") /\ ex.coins[m] >= 2
  /\ ctl' = [ctl EXCEPT !["strategy"].at = "part_send",
                        !["strategy"].vol[m] = ex.coins[m] \div 2]
  /\ UNCHANGED <<mem, dbq, db, ex, up, seen, used>>

\* The dict the partial sale holds is still the market's entry.
Owned(m) == Known(m) /\ mem.pos[m].id = ctl["strategy"].val.id

PartialAccepted ==
  LET m == ctl["strategy"].m IN
  /\ At("strategy", "part_send") /\ ctl["strategy"].vol[m] <= ex.coins[m]
  /\ ex' = Sold(m, ctl["strategy"].vol[m])
  /\ seen' = [seen EXCEPT !.takes[m] = IF Owned(m) THEN @ + 1 ELSE @]
  /\ Goto("strategy", "part_sent")
  /\ UNCHANGED <<mem, dbq, db, up, used>>

PartialRejected ==
  LET m == ctl["strategy"].m IN
  /\ At("strategy", "part_send")
  /\ \/ ctl["strategy"].vol[m] > ex.coins[m] /\ UNCHANGED used
     \/ Fault
  /\ PartialOver
  /\ UNCHANGED <<mem, dbq, db, ex, up, seen>>

PartialHidden ==
  /\ At("strategy", "part_sent") /\ SendAgain("strategy", "part_send")
  /\ UNCHANGED <<mem, dbq, db, ex, up, seen>>

PartialAnswerLost ==
  /\ At("strategy", "part_sent") /\ Fault
  /\ PartialOver
  /\ UNCHANGED <<mem, dbq, db, ex, up, seen>>

\* Mutant: the dict is not marked.
PartialUnmarked ==
  LET m == ctl["strategy"].m IN
  /\ At("strategy", "part_sent")
  /\ Submit(Write("strategy", IF Owned(m) THEN "state" ELSE "stray", m,
                  ctl["strategy"].val))
  /\ Goto("strategy", "part_save")
  /\ UNCHANGED <<mem, ex, up, seen, used>>

\* The dict is marked and its fields saved, owned or not.
PartialAnswered ==
  LET m   == ctl["strategy"].m
      val == [ctl["strategy"].val EXCEPT !.taken = TRUE]
  IN
  /\ At("strategy", "part_sent")
  /\ mem' = IF Owned(m) THEN [mem EXCEPT !.pos[m].taken = TRUE] ELSE mem
  /\ Submit(Write("strategy", IF Owned(m) THEN "state" ELSE "stray", m, val))
  /\ Goto("strategy", "part_save")
  /\ UNCHANGED <<ex, up, seen, used>>

PartialSaved ==
  /\ Served("strategy", "part_save") /\ ThenNothing
  /\ PartialOver
  /\ UNCHANGED <<mem, ex, up, seen, used>>

\* A statement of p fails ("database is locked"): the exception ends the order,
\* the tick or the command. What p changed in memory stays.
WriteFails(p) ==
  /\ up /\ dbq # <<>> /\ Head(dbq).by = p /\ Fault
  /\ ThenNothing
  /\ ctl' = [ctl EXCEPT ![p] =
               IF @.at = "part_save" THEN AfterPartial(@)
               ELSE IF @.at \in {"sell_trip", "sell_close", "sell_forget", "sell_cool"}
               THEN Returned(p) ELSE Rest]
  /\ seen' = [seen EXCEPT !.failed = TRUE]
  /\ UNCHANGED <<mem, db, ex, up>>

-----------------------------------------------------------------------------
(* The monitor loop *)

\* Balance.available and Balance.total are not zero.
Available == {m \in Markets : ex.coins[m] > 0}
Held == Available \union ex.asks

\* get_balances is answered (_markets_held counts the total); the loop resumes with it later.
TickBalances ==
  /\ At("monitor", "idle")
  /\ ctl' = [ctl EXCEPT !["monitor"] = [Rest EXCEPT !.at = "tick", !.got = Held]]
  /\ UNCHANGED <<mem, dbq, db, ex, up, seen, used>>

\* Mutant: the entries with a balance are listed.
StaleSwapped(held) == {m \in Markets : Known(m) /\ m \in held}

\* _held_markets is replaced, and the entries without a balance are listed.
Stale(held) == {m \in Markets : Known(m) /\ m \notin held}

TickResumed ==
  LET held == ctl["monitor"].got IN
  /\ At("monitor", "tick")
  /\ mem' = [mem EXCEPT !.held = held]
  /\ ctl' = [ctl EXCEPT !["monitor"] =
               [Rest EXCEPT !.at = "stale", !.todo = Stale(held)]]
  /\ UNCHANGED <<dbq, db, ex, up, seen, used>>

TickForgets(m) ==
  /\ At("monitor", "stale") /\ m \in ctl["monitor"].todo
  /\ mem' = Forgotten(m)
  /\ Submit(Write("monitor", "forget", m, NoPos))
  /\ ctl' = [ctl EXCEPT !["monitor"].at = "stale_del", !["monitor"].todo = @ \ {m}]
  /\ UNCHANGED <<ex, up, seen, used>>

TickForgot ==
  /\ Served("monitor", "stale_del") /\ ThenNothing
  /\ Goto("monitor", "stale")
  /\ UNCHANGED <<mem, ex, up, seen, used>>

\* _refresh_warned_markets: the new notices, or none if the request failed.
WarnFetched ==
  /\ At("monitor", "stale") /\ ctl["monitor"].todo = {}
  /\ \E got \in {ex.delisting, mem.warned} :
       ctl' = [ctl EXCEPT !["monitor"].at = "warn", !["monitor"].got = got,
                          !["monitor"].todo = got \ mem.warned]
  /\ UNCHANGED <<mem, dbq, db, ex, up, seen, used>>

\* A newly warned market is sold if held; its SELL returns here.
WarnSells(m) ==
  /\ At("monitor", "warn") /\ m \in ctl["monitor"].todo
  /\ ctl' = [ctl EXCEPT !["monitor"].todo = @ \ {m},
                        !["monitor"].at = IF m \in mem.held THEN "sell_bal" ELSE "warn",
                        !["monitor"].m = IF m \in mem.held THEN m ELSE "none"]
  /\ UNCHANGED <<mem, dbq, db, ex, up, seen, used>>

WarnOver ==
  /\ At("monitor", "warn") /\ ctl["monitor"].todo = {}
  /\ mem' = [mem EXCEPT !.warned = ctl["monitor"].got]
  /\ ctl' = [ctl EXCEPT !["monitor"] = [Rest EXCEPT !.at = "macro"]]
  /\ UNCHANGED <<dbq, db, ex, up, seen, used>>

\* check_macro saves a new peak, or trips: the drawdown has reached the
\* threshold. Each is possible while the switch is on already.
MacroSaves(trips) ==
  /\ At("monitor", "macro")
  /\ mem' = [mem EXCEPT !.halted = @ \/ trips]
  /\ Submit(GateWrite("monitor", mem'.halted, mem.blocked))
  /\ Goto("monitor", "macro_save")
  /\ UNCHANGED <<ex, up, seen, used>>

MacroSaved ==
  /\ Served("monitor", "macro_save") /\ ThenNothing
  /\ ctl' = [ctl EXCEPT !["monitor"] = Rest]
  /\ UNCHANGED <<mem, ex, up, seen, used>>

TickOver ==
  /\ At("monitor", "macro")
  /\ ctl' = [ctl EXCEPT !["monitor"] = Rest]
  /\ UNCHANGED <<mem, dbq, db, ex, up, seen, used>>

-----------------------------------------------------------------------------
(* The Telegram handlers, one update at a time *)

Command(c) ==
  /\ c \in Commands /\ At("bot", "idle") /\ used.commands < MaxCommands

CountCommand == used' = [used EXCEPT !.commands = @ + 1]

\* A command that changes memory and awaits one save.
Save(w) == Submit(w) /\ Goto("bot", "cmd")

CommandSaved ==
  /\ Served("bot", "cmd") /\ ThenNothing
  /\ ctl' = [ctl EXCEPT !["bot"] = Rest]
  /\ UNCHANGED <<mem, ex, up, seen, used>>

\* The button that confirms /halt.
Halt ==
  /\ Command("halt") /\ CountCommand
  /\ mem' = [mem EXCEPT !.halted = TRUE]
  /\ Save(GateWrite("bot", TRUE, mem.blocked))
  /\ UNCHANGED <<ex, up, seen>>

\* Lifting the halt opens a new count of late calls.
Resume ==
  /\ Command("resume") /\ CountCommand
  /\ mem' = [mem EXCEPT !.halted = FALSE, !.blocked = {}]
  /\ seen' = [seen EXCEPT !.late = 0]
  /\ Save(GateWrite("bot", FALSE, {}))
  /\ UNCHANGED <<ex, up>>

ResumeMarket(m) ==
  /\ Command("resume") /\ CountCommand /\ m \in mem.blocked
  /\ mem' = [mem EXCEPT !.blocked = @ \ {m}]
  /\ Save(GateWrite("bot", mem.halted, mem'.blocked))
  /\ UNCHANGED <<ex, up, seen>>

Block(m) ==
  /\ Command("block") /\ CountCommand
  /\ mem' = [mem EXCEPT !.excluded = @ \union {m}]
  /\ Save(Write("bot", "excl", m, NoPos))
  /\ UNCHANGED <<ex, up, seen>>

Unblock(m) ==
  /\ Command("block") /\ CountCommand /\ m \in mem.excluded
  /\ mem' = [mem EXCEPT !.excluded = @ \ {m}]
  /\ Save(Write("bot", "unexcl", m, NoPos))
  /\ UNCHANGED <<ex, up, seen>>

\* sell_market
SellMarket(m) ==
  /\ Command("sell") /\ CountCommand /\ m \in mem.held
  /\ Begin("bot", "sell_bal", m)
  /\ UNCHANGED <<mem, dbq, db, ex, up, seen>>

\* set_pyramid_state
SetPyramidState(m, adds) ==
  /\ Command("set") /\ CountCommand
  /\ mem' = [mem EXCEPT !.pos[m] = Fresh(adds)]
  /\ seen' = [seen EXCEPT !.takes[m] = 0]
  /\ Save(Write("bot", "state", m, mem'.pos[m]))
  /\ UNCHANGED <<ex, up>>

\* sync_pyramid_state: the available balances, then the removals, then the
\* additions.
SyncBalances ==
  /\ Command("sync") /\ CountCommand
  /\ ctl' = [ctl EXCEPT !["bot"] = [Rest EXCEPT !.at = "sync", !.got = Available]]
  /\ UNCHANGED <<mem, dbq, db, ex, up, seen>>

SyncResumed ==
  /\ At("bot", "sync")
  /\ ctl' = [ctl EXCEPT !["bot"].at = "sync_del",
                        !["bot"].todo = Stale(ctl["bot"].got)]
  /\ UNCHANGED <<mem, dbq, db, ex, up, seen, used>>

SyncRemoves(m) ==
  /\ At("bot", "sync_del") /\ m \in ctl["bot"].todo
  /\ mem' = Forgotten(m)
  /\ Submit(Write("bot", "forget", m, NoPos))
  /\ ctl' = [ctl EXCEPT !["bot"].at = "sync_deleted", !["bot"].todo = @ \ {m}]
  /\ UNCHANGED <<ex, up, seen, used>>

SyncRemoved ==
  /\ Served("bot", "sync_deleted") /\ ThenNothing
  /\ Goto("bot", "sync_del")
  /\ UNCHANGED <<mem, ex, up, seen, used>>

SyncTurns ==
  /\ At("bot", "sync_del") /\ ctl["bot"].todo = {}
  /\ ctl' = [ctl EXCEPT !["bot"].at = "sync_add", !["bot"].todo = ctl["bot"].got]
  /\ UNCHANGED <<mem, dbq, db, ex, up, seen, used>>

SyncAdds(m) ==
  /\ At("bot", "sync_add") /\ m \in ctl["bot"].todo
  /\ \/ /\ ~Known(m)
        /\ mem' = [mem EXCEPT !.pos[m] = Fresh(0)]
        /\ seen' = [seen EXCEPT !.takes[m] = 0]
        /\ Submit(Write("bot", "state", m, mem'.pos[m]))
        /\ ctl' = [ctl EXCEPT !["bot"].at = "sync_added", !["bot"].todo = @ \ {m}]
     \/ /\ Known(m)
        /\ ctl' = [ctl EXCEPT !["bot"].todo = @ \ {m}]
        /\ UNCHANGED <<mem, dbq, db, seen>>
  /\ UNCHANGED <<ex, up, used>>

SyncAdded ==
  /\ Served("bot", "sync_added") /\ ThenNothing
  /\ Goto("bot", "sync_add")
  /\ UNCHANGED <<mem, ex, up, seen, used>>

SyncOver ==
  /\ At("bot", "sync_add") /\ ctl["bot"].todo = {}
  /\ ctl' = [ctl EXCEPT !["bot"] = Rest]
  /\ UNCHANGED <<mem, dbq, db, ex, up, seen, used>>

\* panic_sell: halt first, then one order per balance.
Panic ==
  /\ Command("panic") /\ CountCommand
  /\ mem' = [mem EXCEPT !.halted = TRUE]
  /\ Submit(GateWrite("bot", TRUE, mem.blocked))
  /\ Goto("bot", "panic")
  /\ UNCHANGED <<ex, up, seen>>

PanicHalted ==
  /\ Served("bot", "panic") /\ ThenNothing
  /\ ctl' = [ctl EXCEPT !["bot"] =
               [Rest EXCEPT !.at = "panic_sell", !.todo = Available, !.vol = ex.coins]]
  /\ UNCHANGED <<mem, ex, up, seen, used>>

PanicTakes(m) ==
  /\ At("bot", "panic_sell") /\ m \in ctl["bot"].todo
  /\ ctl' = [ctl EXCEPT !["bot"].at = "panic_send", !["bot"].m = m,
                        !["bot"].todo = @ \ {m}]
  /\ UNCHANGED <<mem, dbq, db, ex, up, seen, used>>

PanicTried == ctl' = [ctl EXCEPT !["bot"].at = "panic_sell", !["bot"].m = "none",
                                 !["bot"].tries = 0]

\* An order that fails is logged and the next one tried.
PanicSells ==
  LET m == ctl["bot"].m IN
  /\ At("bot", "panic_send")
  /\ \/ /\ ctl["bot"].vol[m] <= ex.coins[m]
        /\ ex' = Sold(m, ctl["bot"].vol[m])
        /\ \/ PanicTried /\ UNCHANGED used
           \/ SendAgain("bot", "panic_send")
     \/ /\ ctl["bot"].vol[m] > ex.coins[m]
        /\ PanicTried /\ UNCHANGED <<ex, used>>
     \/ PanicTried /\ Fault /\ UNCHANGED ex
  /\ UNCHANGED <<mem, dbq, db, up, seen>>

PanicOver ==
  /\ At("bot", "panic_sell") /\ ctl["bot"].todo = {}
  /\ ctl' = [ctl EXCEPT !["bot"] = Rest]
  /\ UNCHANGED <<mem, dbq, db, ex, up, seen, used>>

-----------------------------------------------------------------------------
(* The exchange, the order watchers, time, and the process's life *)

Fill(m) ==
  /\ ex.bids[m] > 0
  /\ ex' = [ex EXCEPT !.bids[m] = @ - 1, !.coins[m] = @ + 4]
  /\ UNCHANGED <<mem, ctl, dbq, db, up, seen, used>>

SaleFills(m) ==
  /\ m \in ex.asks
  /\ ex' = [ex EXCEPT !.asks = @ \ {m}]
  /\ UNCHANGED <<mem, ctl, dbq, db, up, seen, used>>

Delist(m) ==
  /\ m \in Delistable \ ex.delisting
  /\ ex' = [ex EXCEPT !.delisting = @ \union {m}]
  /\ UNCHANGED <<mem, ctl, dbq, db, up, seen, used>>

\* _monitor_order after its 15 seconds: cancel the order if it is pending.
WatchCancels(m) ==
  /\ up /\ mem.watch[m] > 0 /\ ex.bids[m] > 0
  /\ mem' = [mem EXCEPT !.watch[m] = @ - 1]
  /\ ex' = [ex EXCEPT !.bids[m] = @ - 1]
  /\ UNCHANGED <<ctl, dbq, db, up, seen, used>>

\* The order has been filled, or the exchange did not answer.
WatchEnds(m) ==
  /\ up /\ mem.watch[m] > 0
  /\ mem' = [mem EXCEPT !.watch[m] = @ - 1]
  /\ UNCHANGED <<ctl, dbq, db, ex, up, seen, used>>

\* pyramid_sell_cooldown_minutes pass: hours, so no statement is waiting.
CoolDown(m) ==
  /\ up /\ dbq = <<>> /\ m \in mem.cooling
  /\ mem' = [mem EXCEPT !.cooling = @ \ {m}]
  /\ db' = [db EXCEPT !.cool = @ \ {m}]
  /\ UNCHANGED <<ctl, dbq, ex, up, seen, used>>

Crash ==
  /\ up /\ used.crashes < MaxCrashes
  /\ up' = FALSE /\ mem' = Boot /\ dbq' = <<>>
  /\ ctl' = [p \in Procs |-> Rest]
  /\ used' = [used EXCEPT !.crashes = @ + 1]
  /\ UNCHANGED <<db, ex, seen>>

\* Mutant: the cooldowns are not restored.
LoadedWarm == [Boot EXCEPT !.pos = db.rows, !.excluded = ExcludedMarkets \union db.excl,
                           !.halted = db.halted, !.blocked = db.blocked]

\* _initialize: the tables and the exclusions of the settings, then the balances
\* and the notices, if answered.
Loaded == [Boot EXCEPT !.pos = db.rows, !.cooling = db.cool,
                       !.excluded = ExcludedMarkets \union db.excl,
                       !.halted = db.halted, !.blocked = db.blocked]

Restart ==
  /\ ~up /\ up' = TRUE
  /\ \E held \in {Held, {}}, warned \in {ex.delisting, {}} :
       mem' = [Loaded EXCEPT !.held = held, !.warned = warned]
  /\ seen' = [seen EXCEPT !.late = IF db.halted THEN @ ELSE 0]
  /\ UNCHANGED <<ctl, dbq, db, ex, used>>

-----------------------------------------------------------------------------

Strategy ==
  \/ \E m \in Markets : DecideBuy(m) \/ DecideSell(m)
  \/ \E m \in Markets, then \in {"hold", "buy"} : DecidePartial(m, then)
  \/ BuyGivenUp \/ BuyAccepted \/ BuyAnswerLost \/ BuyHidden \/ BuyAnswered
  \/ BuyRecorded \/ BuyUncooled \/ BuySaved
  \/ PartialSkipped \/ PartialSized \/ PartialAccepted \/ PartialRejected
  \/ PartialAnswerLost \/ PartialHidden \/ PartialAnswered \/ PartialSaved

Sell(p) ==
  \/ SellBalance(p) \/ SellPriced(p) \/ SellTrips(p) \/ SellTripped(p)
  \/ SellAccepted(p) \/ SellRejected(p) \/ SellAnswerLost(p)
  \/ SellHidden(p) \/ SellAnswered(p) \/ SellClosed(p) \/ SellForgotten(p) \/ SellCooled(p)

Monitor ==
  \/ TickBalances \/ TickResumed \/ TickForgot \/ WarnFetched \/ WarnOver
  \/ (\E trips \in BOOLEAN : MacroSaves(trips)) \/ MacroSaved \/ TickOver
  \/ \E m \in Markets : TickForgets(m) \/ WarnSells(m)

Bot ==
  \/ Halt \/ Resume \/ CommandSaved
  \/ \E m \in Markets : ResumeMarket(m) \/ Block(m) \/ Unblock(m) \/ SellMarket(m)
  \/ \E m \in Markets, adds \in 0..MaxAdds : SetPyramidState(m, adds)
  \/ SyncBalances \/ SyncResumed \/ SyncRemoved \/ SyncTurns \/ SyncAdded \/ SyncOver
  \/ Panic \/ PanicHalted \/ PanicSells \/ PanicOver
  \/ \E m \in Markets : SyncRemoves(m) \/ SyncAdds(m) \/ PanicTakes(m)

Outside ==
  \/ \E m \in Markets :
       Fill(m) \/ SaleFills(m) \/ Delist(m) \/ WatchCancels(m) \/ WatchEnds(m) \/ CoolDown(m)
  \/ Crash \/ Restart

Next == Strategy \/ (\E p \in Procs : Sell(p) \/ WriteFails(p)) \/ Monitor \/ Bot \/ Outside

Spec == Init /\ [][Next]_vars

\* A process that left its loop's sleep goes on: asyncio resumes it when its
\* await is over, statements are served, and requests end by an answer or a
\* timeout. The monitor loop also wakes up again; docker-compose.yml
\* restarts the container unless it was stopped.
Busy(p) == up /\ ctl[p].at # "idle"

FairSpec ==
  /\ Spec
  /\ WF_vars(Monitor \/ Sell("monitor"))
  /\ WF_vars(Busy("strategy") /\ (Strategy \/ Sell("strategy")))
  /\ WF_vars(Busy("bot") /\ (Bot \/ Sell("bot")))
  /\ WF_vars(Restart)
-----------------------------------------------------------------------------

\* Where a process handles one market, and where it does not.
OnMarket ==
  {"buy", "buy_sent", "buy_rec", "buy_cool", "buy_save",
   "part", "part_send", "part_sent", "part_save",
   "sell_bal", "sell_price", "sell_trip", "sell_send", "sell_sent",
   "sell_close", "sell_forget", "sell_cool", "panic_send"}
Labels == OnMarket \union
  {"idle", "tick", "stale", "stale_del", "warn", "macro", "macro_save",
   "cmd", "sync", "sync_del", "sync_deleted", "sync_add", "sync_added",
   "panic", "panic_sell"}

Entries == [live : BOOLEAN, adds : Nat, taken : BOOLEAN, id : Nat]

Contexts ==
  {c \in [at : Labels, m : Markets \union {"none"}, vol : [Markets -> Nat],
          todo : SUBSET Markets, got : SUBSET Markets, val : Entries,
          then : {"hold", "buy"}, tries : Nat] : c.at \in OnMarket => c.m \in Markets}

Kinds == {"open", "close", "state", "stray", "forget", "cool", "uncool",
          "excl", "unexcl"}
Writes ==
  [by : Procs, kind : Kinds, m : Markets, val : Entries] \union
  [by : Procs, kind : {"gate"}, m : {"none"}, val : BOOLEAN \X SUBSET Markets]

MemType ==
  mem \in [pos : [Markets -> Entries], held : SUBSET Markets,
           cooling : SUBSET Markets, excluded : SUBSET Markets,
           warned : SUBSET Markets, halted : BOOLEAN,
           blocked : SUBSET Markets, watch : [Markets -> Nat]]
CtlType == ctl \in [Procs -> Contexts]
QueueType == dbq \in Seq(Writes)
DbType ==
  db \in [rows : [Markets -> Entries], cool : SUBSET Markets,
          open : SUBSET Markets, excl : SUBSET Markets, halted : BOOLEAN,
          blocked : SUBSET Markets, stray : SUBSET Markets]
ExType == ex \in [coins : [Markets -> Nat], bids : [Markets -> Nat],
                  asks : SUBSET Markets, delisting : SUBSET Markets]
SeenType == seen \in [late : Nat, takes : [Markets -> Nat], failed : BOOLEAN]
UsedType == used \in [orders : Nat, commands : Nat, faults : Nat, crashes : Nat]

(* The types of the variables: among others, a process at a step on a market   *)
(* has one, and every waiting statement is one the code writes.                *)
TypeOK ==
  /\ MemType /\ CtlType /\ QueueType /\ DbType /\ ExType
  /\ up \in BOOLEAN /\ SeenType /\ UsedType

Quiet == up /\ dbq = <<>>

(* When no statement waits, every row is the entry in memory and every absent  *)
(* entry has no row, so a restart would change nothing the loops decide on,    *)
(* unless a statement failed. There are two exceptions: a row a partial sale   *)
(* wrote from a dict that was no longer the market's entry, and the markets    *)
(* the settings exclude, which every start excludes whatever the table says    *)
(* (against docs/telegram-commands.md: /unblock would outlast a restart).      *)
RowsAgree ==
  Quiet /\ ~seen.failed =>
    /\ \A m \in Markets \ db.stray : mem.pos[m] = db.rows[m]
    /\ mem.cooling = db.cool
    /\ mem.excluded \ ExcludedMarkets = db.excl \ ExcludedMarkets
    /\ mem.halted = db.halted /\ mem.blocked = db.blocked

(* After a halt one order call may still buy, the one it finds under way, with *)
(* as many orders as the client sends again when the exchange hides one behind *)
(* a server error. No other call follows: the strategy loop looks at the gate  *)
(* before every decision. (docs/telegram-commands.md says of /halt that it     *)
(* blocks every new order at once.)                                            *)
OneCallAfterHalt == seen.late <= 1

(* The partial take happens once per entry of the position table, as           *)
(* docs/usage-guide.md has it, as long as no answer or statement is lost and   *)
(* the process lives.                                                          *)
PartialTakenOnce ==
  used.faults = 0 /\ used.crashes = 0 => \A m \in Markets : seen.takes[m] <= 1

(* What a restart is bound to find of the switch: nothing is sure while the    *)
(* table or a waiting statement of the coordinator differs from memory.        *)
Sure ==
  IF /\ up
     /\ \/ db.halted # mem.halted
        \/ \E i \in 1..Len(dbq) : dbq[i].kind = "gate" /\ dbq[i].val[1] # mem.halted
  THEN "nothing"
  ELSE IF db.halted THEN "halted" ELSE "resumed"

Gate == INSTANCE KillGate WITH manual <- mem.halted, sure <- Sure

\* /halt or /panic_sell has its save behind it and goes on.
HaltAnswered ==
  PanicHalted \/ (CommandSaved /\ Head(dbq).kind = "gate" /\ Head(dbq).val[1])

(* The order path keeps the operator's gate too, although sells and the macro  *)
(* check save the switch as well and statements may fail: what is sure stays   *)
(* so until the next command, and a halt is sure when /halt or /panic_sell     *)
(* answers. (A macro trip may overtake a /resume before its answer.)           *)
GateKept == Gate!Steady /\ [][HaltAnswered => Sure' = "halted"]_vars

(* The entry table is there to keep the strategy from buying twice, as its     *)
(* comment says: a first entry is never sent for a coin the account holds.     *)
NoDoubleEntry ==
  [][\A m \in Markets :
       ~Known(m) /\ ex.bids'[m] > ex.bids[m] => ex.coins[m] = 0]_vars

(* An entry of a coin the account does not hold and has no order for is        *)
(* removed by the monitor loop, or becomes true by a buy.                      *)
Phantom(m) == Known(m) /\ m \notin Held /\ ex.bids[m] = 0
PhantomCleaned == \A m \in Markets : Phantom(m) ~> ~Phantom(m)

(* docs/usage-guide.md: a coin that is held when its delisting is noticed is   *)
(* sold at once.                                                               *)
WarnedSold ==
  \A m \in Markets : m \in ex.delisting /\ ex.coins[m] > 0 ~> ex.coins[m] = 0
=============================================================================
