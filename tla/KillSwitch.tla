------------------------------ MODULE KillSwitch ------------------------------
(* The kill-switch coordinator (src/kill_switch/coordinator.py) with its       *)
(* repository (persistence/repositories/kill_switch.py) over the one shared    *)
(* aiosqlite connection.                                                       *)
(*                                                                             *)
(* Three coroutines call it: the monitor loop, the strategy loop and the       *)
(* Telegram handlers, which run one at a time. A call changes memory and then  *)
(* saves a snapshot: four upserts and a commit, each awaited. The connection's *)
(* worker thread serves statements in the order they were submitted, and a     *)
(* saver submits its next statement when the previous one returns.             *)
EXTENDS Naturals, Sequences, FiniteSets

CONSTANTS Markets,      \* the KRW markets
          Equities,     \* totals the monitor loop may compute
          Quotes,       \* average buy prices and current prices
          MacroPct,     \* macro_max_drawdown_pct
          MicroPct,     \* micro_stop_loss_pct
          MaxFaults,    \* bound on failed statements and rollbacks
          MaxCrashes    \* bound on restarts

ASSUME KillSwitchAssumption ==
  /\ Equities \subseteq Nat /\ Quotes \subseteq Nat \ {0}
  /\ MacroPct \in Nat \ {0} /\ MicroPct \in Nat \ {0}
  /\ MaxFaults \in Nat /\ MaxCrashes \in Nat

Callers == {"monitor", "strategy", "bot"}
Keys    == <<"macro", "manual", "peak", "micro">>
Words   == {"nothing", "halted", "resumed"}
COMMIT  == 5                    \* the statement after the four upserts

State == [macro : BOOLEAN, manual : BOOLEAN, peak : Nat, micro : SUBSET Markets]
NoState == [macro |-> FALSE, manual |-> FALSE, peak |-> 0, micro |-> {}]

VARIABLES
  mem,      \* the coordinator's fields
  tx,       \* the database as the shared connection sees it
  disk,     \* the committed database
  dbq,      \* callers whose statement waits at the worker, in submission order
  save,     \* per caller: the snapshot being saved, its next statement, and
            \* what the admin is told when the save returns
  up,       \* the process is running
  equity,   \* the total the last check_macro was given
  told,     \* the last manual command the admin saw acknowledged
  undone,   \* a rollback has dropped statements since the last manual command
  faults, crashes

vars == <<mem, tx, disk, dbq, save, up, equity, told, undone, faults, crashes>>

Idle == [snap |-> NoState, at |-> 0, word |-> "nothing"]
Free(p) == up /\ save[p].at = 0

IsHalted == mem.macro \/ mem.manual
IsMarketBlocked(m) == IsHalted \/ m \in mem.micro

\* Mutant: the snapshot is taken before the fields change.
PersistBefore(p, m, word) ==
  /\ mem'  = m
  /\ save' = [save EXCEPT ![p] = [snap |-> mem, at |-> 1, word |-> word]]
  /\ dbq'  = Append(dbq, p)

\* _persist: snapshot the changed fields m and submit the first upsert.
Persist(p, m, word) ==
  /\ mem'  = m
  /\ save' = [save EXCEPT ![p] = [snap |-> m, at |-> 1, word |-> word]]
  /\ dbq'  = Append(dbq, p)

Init ==
  /\ mem = NoState /\ tx = NoState /\ disk = NoState
  /\ dbq = <<>> /\ save = [p \in Callers |-> Idle]
  /\ up = TRUE /\ equity = 0 /\ told = "nothing" /\ undone = FALSE
  /\ faults = 0 /\ crashes = 0

-----------------------------------------------------------------------------
(* The coordinator's operations. A call that changes nothing is a stutter. *)

Drawdown(e) == (mem.peak - e) * 100 >= MacroPct * mem.peak

\* check_macro on a new high: the drawdown it then computes is zero.
RaisePeak(e) ==
  /\ Free("monitor") /\ e > mem.peak
  /\ Persist("monitor", [mem EXCEPT !.peak = e], "nothing")
  /\ equity' = e
  /\ UNCHANGED <<tx, disk, up, told, undone, faults, crashes>>

\* check_macro below the peak: trip once the drawdown reaches the threshold.
MustTrip(e) == mem.peak # 0 /\ Drawdown(e) /\ ~mem.macro

TripMacro(e) ==
  /\ Free("monitor") /\ e <= mem.peak /\ MustTrip(e)
  /\ Persist("monitor", [mem EXCEPT !.macro = TRUE], "nothing")
  /\ equity' = e
  /\ UNCHANGED <<tx, disk, up, told, undone, faults, crashes>>

QuietTick(e) ==
  /\ Free("monitor") /\ e <= mem.peak /\ ~MustTrip(e)
  /\ equity' = e
  /\ UNCHANGED <<mem, tx, disk, dbq, save, up, told, undone, faults, crashes>>

Loss(entry, price) == (entry - price) * 100 >= MicroPct * entry

\* Mutant: the arguments of check_micro are swapped.
CheckMicroSwapped(p, m, entry, price) ==
  /\ Free(p) /\ price < entry
  /\ Loss(entry, price) /\ m \notin mem.micro
  /\ Persist(p, [mem EXCEPT !.micro = @ \union {entry}], "nothing")
  /\ UNCHANGED <<tx, disk, up, equity, told, undone, faults, crashes>>

\* check_micro, on the way of any SELL.
CheckMicro(p, m, entry, price) ==
  /\ Free(p) /\ price < entry
  /\ Loss(entry, price) /\ m \notin mem.micro
  /\ Persist(p, [mem EXCEPT !.micro = @ \union {m}], "nothing")
  /\ UNCHANGED <<tx, disk, up, equity, told, undone, faults, crashes>>

ManualHalt ==
  /\ Free("bot")
  /\ Persist("bot", [mem EXCEPT !.manual = TRUE], "halted")
  /\ told' = "nothing" /\ undone' = FALSE
  /\ UNCHANGED <<tx, disk, up, equity, faults, crashes>>

Reset ==
  /\ Free("bot")
  /\ Persist("bot", [mem EXCEPT !.macro = FALSE, !.manual = FALSE, !.micro = {}],
             "resumed")
  /\ told' = "nothing" /\ undone' = FALSE
  /\ UNCHANGED <<tx, disk, up, equity, faults, crashes>>

\* Mutant: reset_market does not save.
ResetMarketUnsaved(m) ==
  /\ Free("bot") /\ m \in mem.micro
  /\ mem' = [mem EXCEPT !.micro = @ \ {m}]
  /\ UNCHANGED <<tx, disk, dbq, save, up, equity, told, undone, faults, crashes>>

\* reset_market: it leaves the manual flag alone, and what was told of it.
ResetMarket(m) ==
  /\ Free("bot") /\ m \in mem.micro
  /\ Persist("bot", [mem EXCEPT !.micro = @ \ {m}], "nothing")
  /\ UNCHANGED <<tx, disk, up, equity, told, undone, faults, crashes>>

-----------------------------------------------------------------------------
(* The database worker and the other users of the connection. *)

\* The worker runs an upsert; the saver resumes and submits the next statement.
Upsert ==
  /\ up /\ dbq # <<>>
  /\ LET p == Head(dbq)
         k == Keys[save[p].at]
     IN  /\ save[p].at < COMMIT
         /\ tx'   = [tx EXCEPT ![k] = save[p].snap[k]]
         /\ save' = [save EXCEPT ![p].at = @ + 1]
         /\ dbq'  = Append(Tail(dbq), p)
  /\ UNCHANGED <<mem, disk, up, equity, told, undone, faults, crashes>>

\* The worker commits everything pending on the connection; the save returns.
Commit ==
  /\ up /\ dbq # <<>>
  /\ LET p == Head(dbq)
     IN  /\ save[p].at = COMMIT
         /\ disk' = tx
         /\ save' = [save EXCEPT ![p] = Idle]
         /\ dbq'  = Tail(dbq)
         /\ told' = IF save[p].word = "nothing" THEN told ELSE save[p].word
  /\ UNCHANGED <<mem, tx, up, equity, undone, faults, crashes>>

\* A statement fails: the save ends in an exception, nothing is rolled back.
Fail ==
  /\ up /\ dbq # <<>> /\ faults < MaxFaults
  /\ LET p == Head(dbq)
     IN  save' = [save EXCEPT ![p] = Idle]
  /\ dbq' = Tail(dbq) /\ faults' = faults + 1
  /\ UNCHANGED <<mem, tx, disk, up, equity, told, undone, crashes>>

\* Another repository commits on the same connection: position rows,
\* cooldowns, trades and portfolio snapshots all do.
OtherCommit ==
  /\ up /\ tx # disk
  /\ disk' = tx
  /\ UNCHANGED <<mem, tx, dbq, save, up, equity, told, undone, faults, crashes>>

\* Database.transaction of a failing trade or snapshot insert rolls back
\* whatever is pending on the connection.
OtherRollback ==
  /\ up /\ tx # disk /\ faults < MaxFaults
  /\ tx' = disk /\ undone' = TRUE /\ faults' = faults + 1
  /\ UNCHANGED <<mem, disk, dbq, save, up, equity, told, crashes>>

Crash ==
  /\ up /\ crashes < MaxCrashes
  /\ up' = FALSE /\ crashes' = crashes + 1
  /\ mem' = NoState /\ tx' = disk
  /\ dbq' = <<>> /\ save' = [p \in Callers |-> Idle]
  /\ UNCHANGED <<disk, equity, told, undone, faults>>

\* Mutants: a key that init_persistence does not load.
RestoreNoPeak(d) == [d EXCEPT !.peak = 0]
RestoreNoManual(d) == [d EXCEPT !.manual = FALSE]

\* init_persistence: load every key; a missing one reads as NoState's value.
Restore(d) == d

Restart ==
  /\ ~up /\ up' = TRUE
  /\ mem' = Restore(disk)
  /\ UNCHANGED <<tx, disk, dbq, save, equity, told, undone, faults, crashes>>

Next ==
  \/ \E e \in Equities : RaisePeak(e) \/ TripMacro(e) \/ QuietTick(e)
  \/ \E p \in Callers, m \in Markets, entry, price \in Quotes :
        CheckMicro(p, m, entry, price)
  \/ ManualHalt \/ Reset
  \/ \E m \in Markets : ResetMarket(m)
  \/ Upsert \/ Commit \/ Fail \/ OtherCommit \/ OtherRollback
  \/ Crash \/ Restart

Spec == Init /\ [][Next]_vars
-----------------------------------------------------------------------------

(* The types of the variables. *)
TypeOK ==
  /\ mem \in State /\ tx \in State /\ disk \in State
  /\ dbq \in Seq(Callers)
  /\ save \in [Callers -> [snap : State, at : 0..COMMIT, word : Words]]
  /\ up \in BOOLEAN /\ equity \in Nat /\ undone \in BOOLEAN
  /\ told \in Words
  /\ faults \in 0..MaxFaults /\ crashes \in 0..MaxCrashes

(* A halt or a resume the admin saw acknowledged is what a restart loads,      *)
(* whatever the other coroutines were saving, failing to save or committing    *)
(* meanwhile (docs/usage-guide.md: the state of the switch is kept across a    *)
(* restart), as long as no rollback of another repository hit the save.        *)
AckDurable ==
  ~undone => /\ told = "halted"  => disk.manual
             /\ told = "resumed" => ~disk.manual

(* The commands of the coordinator implement the operator's gate: a confirmed  *)
(* command holds through any number of crashes.                                *)
Gate == INSTANCE KillGate WITH
          manual <- mem.manual, sure <- IF undone THEN "nothing" ELSE told
GateSpec == Gate!Spec

(* With no fault, an idle database holds the coordinator's memory: concurrent  *)
(* savers, each with a snapshot of its own, never leave an older value behind. *)
NoLostUpdate == up /\ dbq = <<>> /\ faults = 0 => disk = mem

(* The high-water mark of the equity never goes back, not even through a       *)
(* crash: the drawdown after a restart is measured from the same peak.         *)
PeakKept == [][disk'.peak >= disk.peak]_vars
=============================================================================
