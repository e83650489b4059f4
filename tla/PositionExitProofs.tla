-------------------------- MODULE PositionExitProofs --------------------------
(* Proofs about PositionExit, for all prices, bar lengths, percentages and     *)
(* bounds: what an exit is decided on has happened since the entry, and a      *)
(* restart finds the stops where they were.                                    *)
EXTENDS PositionExit, TLAPS

-----------------------------------------------------------------------------
(* Types *)

\* The empty values have their types.
LEMMA EmptyTypes ==
  /\ NoMem \in Mems /\ NoPos \in Rows
  /\ \A l \in Labels \ {"buy", "sell"} : Rest(l) \in Contexts
  <1>1. NoMem \in Mems
    BY DEF NoMem, Mems
  <1>2. NoPos \in Rows
    BY DEF Rows
  <1>3. ASSUME NEW l \in Labels \ {"buy", "sell"} PROVE Rest(l) \in Contexts
    <2>1. Rest(l) \in [at : Labels, quote : Prices \union {0}, when : Nat,
                       check : Prices \union {0}, pos : Entries \union {NoPos}]
      BY DEF Rest
    <2>2. Rest(l).at # "buy" /\ Rest(l).at # "sell"
      BY DEF Rest
    <2> QED BY <2>1, <2>2 DEF Contexts
  <1> QED BY <1>1, <1>2, <1>3

\* The parts of memory and of the strategy loop's context.
LEMMA Parts ==
  ASSUME TypeOK
  PROVE  /\ mem.pos \in Entries \union {NoPos}
         /\ mem.loaded \in BOOLEAN /\ mem.owed \in BOOLEAN
         /\ ctl.quote \in Prices \union {0} /\ ctl.when \in Nat
         /\ Len(log) \in Nat \ {0}
  BY DEF TypeOK, Mems, Contexts

\* An entry of a given price, timestamp and highest price.
LEMMA EntryParts ==
  ASSUME NEW r \in Entries
  PROVE  /\ r.entry \in Prices /\ r.ts \in Nat /\ r.highest \in Prices
         /\ r.from \in Nat /\ r.guessed \in BOOLEAN
  BY DEF Entries

\* A row is loaded as an entry with a highest price.
LEMMA LoadType ==
  ASSUME NEW r \in Rows
  PROVE  Load(r) \in Mems
  <1>1. CASE r = NoPos
    BY <1>1, EmptyTypes DEF Load
  <1>2. CASE r # NoPos
    <2> DEFINE h == IF r.highest = 0 THEN r.entry ELSE r.highest
    <2>1. /\ r.entry \in Prices /\ r.ts \in Nat /\ r.from \in Nat /\ h \in Prices
          /\ r = [entry |-> r.entry, ts |-> r.ts, highest |-> r.highest,
                  from |-> r.from, guessed |-> r.guessed]
      <3>1. CASE r \in Entries BY <3>1 DEF Entries
      <3>2. CASE r \in Legacy BY <3>2 DEF Legacy
      <3> QED BY <1>2, <3>1, <3>2 DEF Rows
    <2>2. r.guessed \in BOOLEAN
      BY <1>2 DEF Rows, Entries, Legacy
    <2> HIDE DEF h
    <2>3. [r EXCEPT !.highest = h] = [entry |-> r.entry, ts |-> r.ts, highest |-> h,
                                      from |-> r.from, guessed |-> r.guessed]
      BY <2>1
    <2>4. [r EXCEPT !.highest = h] \in Entries
      BY <2>1, <2>2, <2>3 DEF Entries
    <2>5. (r.highest # 0) \in BOOLEAN /\ (r.highest = 0) \in BOOLEAN
      OBVIOUS
    <2>6. Load(r) = [pos |-> [r EXCEPT !.highest = h], loaded |-> r.highest # 0,
                     owed |-> r.highest = 0]
      BY <1>2 DEF Load, h
    <2> QED BY <2>4, <2>5, <2>6 DEF Mems
  <1> QED BY <1>1, <1>2

\* A price of the log is a price.
LEMMA ValsType ==
  ASSUME NEW l \in Seq(Prices), NEW t \in Nat \ {0}
  PROVE  Vals(l, t) \subseteq Prices
  BY DEF Vals

\* The queue after a submission keeps its type.
LEMMA SubmitType ==
  ASSUME dbq \in Seq(Writes), NEW w \in Writes, Submit(w)
  PROVE  dbq' \in Seq(Writes)
  BY DEF Submit

\* A save of an entry, and a delete.
LEMMA WriteTypes ==
  ASSUME NEW p \in {"strategy", "bot", "monitor"}
  PROVE  /\ Delete(p) \in Writes
         /\ \A k \in BOOLEAN : mem'.pos \in Entries => Save(p, k) \in Writes
  <1>1. Delete(p) \in Writes
    BY DEF Delete, Writes
  <1>2. NoPos \notin Entries \/ 0 \in Prices
    BY DEF NoPos, Entries
  <1>3. ASSUME NEW k \in BOOLEAN, mem'.pos \in Entries PROVE Save(p, k) \in Writes
    BY <1>2, <1>3, PositionExitAssumption DEF Save, Writes, PositionExitAssumption
  <1> QED BY <1>1, <1>3

\* What the worker writes is a row.
LEMMA AppliedType ==
  ASSUME NEW w \in Writes, row \in Rows
  PROVE  Applied(w) \in Entries \union {NoPos}
  <1>1. row.ts \in Nat
    <2>1. CASE row \in Entries BY <2>1 DEF Entries
    <2>2. CASE row \in Legacy BY <2>2 DEF Legacy
    <2>3. CASE row = NoPos BY <2>3 DEF NoPos
    <2> QED BY <2>1, <2>2, <2>3 DEF Rows
  <1>2. w.val \in Entries \union {NoPos} /\ (w.keep => w.val # NoPos)
    BY DEF Writes
  <1>3. CASE ~w.keep
    BY <1>2, <1>3 DEF Applied
  <1>4. CASE w.keep
    <2>1. [w.val EXCEPT !.ts = row.ts] \in Entries
      BY <1>1, <1>2, <1>4 DEF Entries
    <2> QED BY <1>4, <2>1 DEF Applied
  <1> QED BY <1>3, <1>4

\* A new entry is an entry.
LEMMA RegisteredType ==
  ASSUME TypeOK, NEW e \in Prices, Registered(e)
  PROVE  mem' \in Mems /\ mem'.pos \in Entries
  <1>1. PICK t \in InHand :
          mem' = [pos    |-> [entry |-> e, ts |-> now, highest |-> e, from |-> t,
                              guessed |-> FALSE],
                  loaded |-> FALSE, owed |-> FALSE]
    BY DEF Registered
  <1>2. now \in Nat /\ ctl.when \in Nat
    BY Parts DEF now
  <1>3. (cache # NoBar => cache.at \in Nat) /\ (coming # NoBar => coming.at \in Nat)
    BY DEF TypeOK, Bars
  <1>4. t \in Nat
    BY <1>2, <1>3 DEF InHand
  <1>5. mem'.pos \in Entries
    BY <1>1, <1>2, <1>4 DEF Entries
  <1> QED BY <1>1, <1>5 DEF Mems

\* An entry whose highest price is another price.
LEMMA RaiseType ==
  ASSUME TypeOK, Live, NEW h \in Prices
  PROVE  [mem.pos EXCEPT !.highest = h] \in Entries
  <1>1. mem.pos \in Entries
    BY Parts DEF Live
  <1> QED BY <1>1 DEF Entries

\* What the highest price may be raised to, and what the check looks at.
LEMMA CheckTypes ==
  ASSUME TypeOK, Live, cache # NoBar
  PROVE  Raised \subseteq Prices /\ CheckPrice \in Prices
  <1>1. mem.pos.highest \in Prices
    BY Parts, EntryParts DEF Live
  <1>2. cache.close \in Prices /\ cache.high \in Prices /\ cache.low \in Prices
    BY DEF TypeOK, Bars
  <1> QED BY <1>1, <1>2 DEF Raised, CheckPrice

\* The process, the prices and the candles keep the types.
LEMMA WorldTypes ==
  ASSUME TypeOK,
         \/ \E p \in Prices : Tick(p)
         \/ \E u \in Units : FetchAnswered(u)
         \/ FetchStored \/ Served \/ Crash \/ Restart
  PROVE  TypeOK'
  <1>0. NoBar \in Bars \union {NoBar} /\ Len(log) \in Nat \ {0}
    BY Parts
  <1>1. ASSUME NEW p \in Prices, Tick(p) PROVE TypeOK'
    BY <1>1 DEF Tick, TypeOK
  <1>2. ASSUME NEW u \in Units, FetchAnswered(u) PROVE TypeOK'
    <2>1. now \in Nat /\ now > 0 /\ log[now] \in Prices
      BY <1>0 DEF now, TypeOK
    <2>2. PICK start \in 1..now :
            \E high, low \in Vals(log, start), top \in Vals(log, 1) :
              coming' = [start |-> start, at |-> now, high |-> high, low |-> low,
                         close |-> log[now], top |-> top]
      BY <1>2 DEF FetchAnswered
    <2>3. Vals(log, start) \subseteq Prices /\ Vals(log, 1) \subseteq Prices
      BY <2>1, ValsType DEF TypeOK
    <2>4. coming' \in Bars
      BY <2>1, <2>2, <2>3 DEF Bars
    <2> QED BY <1>2, <2>4 DEF FetchAnswered, TypeOK
  <1>3. CASE FetchStored
    BY <1>3 DEF FetchStored, TypeOK
  <1>4. CASE Served
    <2>1. Head(dbq) \in Writes /\ Tail(dbq) \in Seq(Writes)
      BY <1>4 DEF Served, TypeOK
    <2>2. row' \in Rows
      BY <1>4, <2>1, AppliedType DEF Served, TypeOK, Rows
    <2>3. ctl' \in Contexts
      BY <1>4, EmptyTypes DEF Served, TypeOK, Labels
    <2> QED BY <1>4, <2>1, <2>2, <2>3 DEF Served, TypeOK
  <1>5. CASE Crash
    <2>1. ctl' \in Contexts /\ mem' \in Mems /\ dbq' \in Seq(Writes)
      BY <1>5, EmptyTypes DEF Crash, Labels
    <2>2. used' \in [entries : Nat, crashes : Nat]
      BY <1>5 DEF Crash, TypeOK
    <2>5. up' \in BOOLEAN
      BY <1>5, Zenon DEF Crash
    <2>3. coming' \in Bars \union {NoBar} /\ cache' \in Bars \union {NoBar}
      BY <1>5 DEF Crash
    <2>4. log' = log /\ row' = row
      BY <1>5 DEF Crash
    <2> QED BY <2>1, <2>2, <2>3, <2>4, <2>5 DEF TypeOK
  <1>6. CASE Restart
    BY <1>6, LoadType DEF Restart, TypeOK
  <1> QED BY <1>1, <1>2, <1>3, <1>4, <1>5, <1>6

\* What is done to the entry keeps the types.
LEMMA EntryTypes ==
  ASSUME TypeOK,
         \/ \E p \in Prices : Register(p)
         \/ Forget \/ BuyQuoted \/ BuyDone \/ BuyGivenUp
         \/ Begin \/ Holds \/ Exits \/ SellDone \/ SellFailed
  PROVE  TypeOK'
  <1>1. ASSUME NEW p \in Prices, Register(p) PROVE TypeOK'
    <2>1. mem' \in Mems /\ Save("bot", FALSE) \in Writes
      BY <1>1, RegisteredType, WriteTypes DEF Register
    <2>2. dbq' \in Seq(Writes)
      BY <1>1, <2>1, SubmitType DEF Register, TypeOK
    <2> QED BY <1>1, <2>1, <2>2 DEF Register, TypeOK
  <1>2. CASE Forget
    <2>1. dbq' \in Seq(Writes)
      BY <1>2, WriteTypes, SubmitType DEF Forget, TypeOK
    <2> QED BY <1>2, <2>1, EmptyTypes DEF Forget, TypeOK
  <1>3. CASE BuyQuoted
    <2>1. now \in Nat /\ log[now] \in Prices
      BY Parts DEF now, TypeOK
    <2>2. ctl' = [at |-> "buy", quote |-> log[now], when |-> now, check |-> 0,
                  pos |-> NoPos]
      BY <1>3 DEF BuyQuoted, Rest
    <2>3. ctl' \in Contexts
      BY <2>1, <2>2 DEF Contexts, Labels
    <2> QED BY <1>3, <2>3 DEF BuyQuoted, TypeOK
  <1>4. CASE BuyDone
    <2>0. ctl.quote \in Prices
      BY <1>4 DEF BuyDone, At, TypeOK, Contexts
    <2>1. mem' \in Mems /\ mem'.pos \in Entries
      <3>1. CASE Live
        <4> DEFINE h == IF ctl.quote > mem.pos.highest THEN ctl.quote
                                                      ELSE mem.pos.highest
        <4>1. h \in Prices
          BY <2>0, <3>1, Parts, EntryParts DEF Live
        <4> HIDE DEF h
        <4>2. mem' = [pos |-> [mem.pos EXCEPT !.highest = h],
                      loaded |-> mem.loaded, owed |-> FALSE]
          BY <1>4, <3>1 DEF BuyDone, TypeOK, Mems, h
        <4> QED BY <3>1, <4>1, <4>2, RaiseType, Parts DEF Mems
      <3>2. CASE ~Live
        BY <1>4, <2>0, <3>2, RegisteredType DEF BuyDone
      <3> QED BY <3>1, <3>2
    <2>2. (mem'.pos.ts = 0) \in BOOLEAN
      OBVIOUS
    <2>3. Save("strategy", mem'.pos.ts = 0) \in Writes
      BY <2>1, <2>2, WriteTypes
    <2>4. dbq' \in Seq(Writes)
      BY <1>4, <2>3, SubmitType DEF BuyDone, TypeOK
    <2> QED BY <1>4, <2>1, <2>4, EmptyTypes DEF BuyDone, TypeOK, Labels
  <1>5. CASE BuyGivenUp
    BY <1>5, EmptyTypes DEF BuyGivenUp, TypeOK, Labels
  <1>6. CASE Begin
    <2>1. mem' \in Mems
      <3>1. CASE Live /\ ~mem.loaded /\ cache # NoBar
        <4> DEFINE h == IF cache.top > mem.pos.entry THEN cache.top ELSE mem.pos.entry
                   g == mem.pos.ts # 0
        <4>1. mem.pos \in Entries /\ h \in Prices
          BY <3>1, Parts, EntryParts DEF Live, TypeOK, Bars
        <4>2. g \in BOOLEAN
          OBVIOUS
        <4> HIDE DEF h, g
        <4>3. mem' = [pos |-> [mem.pos EXCEPT !.guessed = g, !.highest = h],
                      loaded |-> mem.loaded, owed |-> TRUE]
          BY <1>6, <3>1 DEF Begin, TypeOK, Mems, h, g
        <4>4. [mem.pos EXCEPT !.guessed = g, !.highest = h] \in Entries
          BY <4>1, <4>2 DEF Entries
        <4> QED BY <4>3, <4>4, Parts DEF Mems
      <3>2. CASE ~(Live /\ ~mem.loaded /\ cache # NoBar)
        BY <1>6, <3>2 DEF Begin, TypeOK
      <3> QED BY <3>1, <3>2
    <2> QED BY <1>6, <2>1, EmptyTypes DEF Begin, TypeOK, Labels
  <1>7. CASE Holds
    <2>1. PICK h \in Prices : mem' = [pos |-> [mem.pos EXCEPT !.highest = h],
                                      loaded |-> mem.loaded, owed |-> FALSE]
      <3>1. PICK h \in Raised : mem' = [mem EXCEPT !.pos.highest = h, !.owed = FALSE]
        BY <1>7 DEF Holds
      <3>2. h \in Prices
        BY <1>7, <3>1, CheckTypes DEF Holds
      <3> QED BY <3>1, <3>2 DEF TypeOK, Mems
    <2>2. mem' \in Mems /\ mem'.pos \in Entries
      BY <1>7, <2>1, RaiseType, Parts DEF Holds, Mems
    <2>3. dbq' \in Seq(Writes)
      BY <1>7, <2>2, WriteTypes, SubmitType DEF Holds, TypeOK
    <2> QED BY <1>7, <2>2, <2>3, EmptyTypes DEF Holds, TypeOK, Labels
  <1>8. CASE Exits
    <2>1. PICK h \in Prices, o \in BOOLEAN :
            mem' = [pos |-> [mem.pos EXCEPT !.highest = h],
                    loaded |-> mem.loaded, owed |-> o]
      <3>1. PICK h \in Raised :
              mem' = [mem EXCEPT !.pos.highest = h,
                                 !.owed = mem.owed \/ h > mem.pos.highest]
        BY <1>8 DEF Exits
      <3>2. h \in Prices
        BY <1>8, <3>1, CheckTypes DEF Exits
      <3>3. (mem.owed \/ h > mem.pos.highest) \in BOOLEAN
        OBVIOUS
      <3> QED BY <3>1, <3>2, <3>3 DEF TypeOK, Mems
    <2>2. mem' \in Mems /\ mem'.pos \in Entries
      BY <1>8, <2>1, RaiseType, Parts DEF Exits, Mems
    <2>3. ctl' = [at |-> "sell", quote |-> 0, when |-> 0, check |-> CheckPrice,
                  pos |-> mem'.pos]
      BY <1>8 DEF Exits, Rest
    <2>4. ctl' \in Contexts
      <3>1. CheckPrice \in Prices
        BY <1>8, CheckTypes DEF Exits
      <3> QED BY <2>2, <2>3, <3>1 DEF Contexts, Labels
    <2> QED BY <1>8, <2>2, <2>4 DEF Exits, TypeOK
  <1>9. CASE SellDone
    <2>1. dbq' \in Seq(Writes)
      BY <1>9, WriteTypes, SubmitType DEF SellDone, TypeOK
    <2> QED BY <1>9, <2>1, EmptyTypes DEF SellDone, TypeOK, Labels
  <1>10. CASE SellFailed
    BY <1>10, EmptyTypes DEF SellFailed, TypeOK, Labels
  <1> QED BY <1>1, <1>2, <1>3, <1>4, <1>5, <1>6, <1>7, <1>8, <1>9, <1>10

\* The types hold at the start.
LEMMA TypesHoldInitially == Init => TypeOK
  <1> SUFFICES ASSUME Init PROVE TypeOK
    OBVIOUS
  <1>1. PICK p \in Prices : log = <<p>>
    BY DEF Init
  <1>2. log \in Seq(Prices) /\ log # <<>>
    BY <1>1
  <1>3. row \in Rows
    BY DEF Init, Rows
  <1>4. mem \in Mems
    BY <1>3, LoadType DEF Init
  <1>5. ctl \in Contexts /\ dbq \in Seq(Writes)
    BY EmptyTypes DEF Init, Labels
  <1>6. up \in BOOLEAN
    BY Zenon DEF Init
  <1> QED BY <1>2, <1>3, <1>4, <1>5, <1>6 DEF Init, TypeOK

\* Every variable always has its type.
THEOREM TypeCorrect == Spec => []TypeOK
  <1>1. Init => TypeOK
    BY TypesHoldInitially
  <1>2. TypeOK /\ UNCHANGED vars => TypeOK'
    BY DEF TypeOK, vars
  <1>3. TypeOK /\ [Next]_vars => TypeOK'
    BY <1>2, WorldTypes, EntryTypes DEF Next
  <1> QED BY <1>1, <1>3, PTL DEF Spec
-----------------------------------------------------------------------------
(* What the prices support *)

\* A candle summarises prices of the log from its start to its end.
BarInv(l, b) ==
  b = NoBar \/
    /\ b.at \in 1..Len(l) /\ b.start \in 1..b.at
    /\ b.low \in Vals(l, b.start) /\ b.high \in Vals(l, b.start)
    /\ b.close \in Vals(l, b.at) /\ b.top \in Vals(l, 1)

\* The highest price of an entry is one since the entry, unless guessed.
EntryInv(l, r) ==
  r = NoPos \/
    /\ r.from \in 1..Len(l)
    /\ r.ts = 0 => r.from = 1
    /\ r.ts # 0 => r.from <= r.ts
    /\ ~r.guessed => r.highest \in Since(l, r) \union {0}

BarsInv == BarInv(log, coming) /\ BarInv(log, cache)

EntriesInv ==
  /\ EntryInv(log, mem.pos) /\ EntryInv(log, row) /\ EntryInv(log, ctl.pos)
  /\ \A i \in 1..Len(dbq) : EntryInv(log, dbq[i].val)

\* The candles and the quote in hand are no older than the entry's `from'.
HandInv ==
  /\ ctl.at = "buy" => ctl.when \in 1..Len(log) /\ ctl.quote \in Vals(log, ctl.when)
  /\ Live => /\ cache # NoBar => mem.pos.from <= cache.at
             /\ coming # NoBar => mem.pos.from <= coming.at
             /\ ctl.at = "buy" => mem.pos.from <= ctl.when

\* A process that is down has nothing in memory.
DownInv ==
  ~up => mem = NoMem /\ coming = NoBar /\ cache = NoBar /\ dbq = <<>>
         /\ ctl = Rest("boot")

(* The row as it will be: what the last statement leaves has the stops of the  *)
(* entry in memory, and a save without a timestamp follows one with the same.  *)
Latest(r, q) == IF q = <<>> THEN r ELSE q[Len(q)].val
Before(i) == IF i = 1 THEN row ELSE dbq[i - 1].val

QueueInv == \A i \in 1..Len(dbq) : dbq[i].keep => Before(i).ts = dbq[i].val.ts
LatestInv ==
  up => /\ Latest(row, dbq).entry = mem.pos.entry
        /\ Latest(row, dbq).ts = mem.pos.ts
        /\ ~mem.owed => Latest(row, dbq).highest = mem.pos.highest

EvidenceInv == BarsInv /\ EntriesInv /\ HandInv /\ ExitEarned
IInv == TypeOK /\ EvidenceInv /\ DownInv /\ QueueInv /\ LatestInv

\* Later instants bring fewer prices, a longer log more.
LEMMA ValsFacts ==
  ASSUME NEW l \in Seq(Prices), NEW t \in Nat \ {0}
  PROVE  /\ \A s \in Nat \ {0} : s <= t => Vals(l, t) \subseteq Vals(l, s)
         /\ \A p \in Prices : Vals(l, t) \subseteq Vals(Append(l, p), t)
         /\ t <= Len(l) => l[t] \in Vals(l, t)
  <1>1. ASSUME NEW p \in Prices PROVE Vals(l, t) \subseteq Vals(Append(l, p), t)
    <2>1. \A i \in 1..Len(l) : Append(l, p)[i] = l[i]
      OBVIOUS
    <2>2. Len(Append(l, p)) = Len(l) + 1 /\ Len(l) \in Nat
      OBVIOUS
    <2> QED BY <2>1, <2>2 DEF Vals
  <1>2. \A s \in Nat \ {0} : s <= t => Vals(l, t) \subseteq Vals(l, s)
    BY DEF Vals
  <1>3. t <= Len(l) => l[t] \in Vals(l, t)
    BY DEF Vals
  <1> QED BY <1>1, <1>2, <1>3

\* A new price leaves what the candles and the entries rest on.
LEMMA TickFacts ==
  ASSUME NEW l \in Seq(Prices), NEW p \in Prices
  PROVE  /\ \A b \in Bars \union {NoBar} : BarInv(l, b) => BarInv(Append(l, p), b)
         /\ \A r \in Rows : EntryInv(l, r) => EntryInv(Append(l, p), r)
         /\ \A r \in Rows : r # NoPos /\ EntryInv(l, r) =>
              Since(l, r) \subseteq Since(Append(l, p), r)
  <1> DEFINE m == Append(l, p)
  <1>1. Len(m) = Len(l) + 1 /\ Len(l) \in Nat
    OBVIOUS
  <1>2. \A t \in Nat \ {0} : Vals(l, t) \subseteq Vals(m, t)
    BY ValsFacts
  <1> HIDE DEF m
  <1>3. ASSUME NEW b \in Bars \union {NoBar}, BarInv(l, b) PROVE BarInv(m, b)
    BY <1>1, <1>2, <1>3 DEF BarInv
  <1>4. ASSUME NEW r \in Rows, r # NoPos, EntryInv(l, r)
        PROVE  EntryInv(m, r) /\ Since(l, r) \subseteq Since(m, r)
    <2>1. r.from \in 1..Len(l)
      BY <1>4 DEF EntryInv
    <2>2. Since(l, r) \subseteq Since(m, r)
      BY <1>1, <1>2, <2>1 DEF Since
    <2> QED BY <1>1, <1>4, <2>1, <2>2 DEF EntryInv
  <1>5. \A r \in Rows : EntryInv(l, r) => EntryInv(m, r)
    BY <1>4 DEF EntryInv
  <1> QED BY <1>3, <1>4, <1>5 DEF m

\* A new statement queues last and decides what the row will be.
LEMMA PushQueue ==
  ASSUME TypeOK, QueueInv, NEW w \in Writes, Submit(w), row' = row,
         w.keep => Latest(row, dbq).ts = w.val.ts
  PROVE  QueueInv' /\ Latest(row', dbq') = w.val
  <1>1. /\ dbq' = Append(dbq, w) /\ Len(dbq') = Len(dbq) + 1 /\ Len(dbq) \in Nat
        /\ dbq'[Len(dbq) + 1] = w
        /\ \A i \in 1..Len(dbq) : dbq'[i] = dbq[i]
    BY DEF Submit, TypeOK
  <1>2. ASSUME NEW i \in 1..Len(dbq'), dbq'[i].keep
        PROVE  (IF i = 1 THEN row' ELSE dbq'[i - 1].val).ts = dbq'[i].val.ts
    <2>1. CASE i \in 1..Len(dbq)
      BY <1>1, <1>2, <2>1 DEF QueueInv, Before
    <2>2. CASE i = Len(dbq) + 1
      <3>1. (IF i = 1 THEN row' ELSE dbq'[i - 1].val) = Latest(row, dbq)
        BY <1>1, <2>2 DEF Latest, TypeOK
      <3> QED BY <1>1, <1>2, <2>2, <3>1
    <2> QED BY <1>1, <2>1, <2>2
  <1>3. Latest(row', dbq') = w.val
    BY <1>1 DEF Latest
  <1> QED BY <1>2, <1>3 DEF QueueInv, Before

\* The worker writes the statement as it was meant: the timestamp a save leaves
\* out is the row's.
LEMMA PopQueue ==
  ASSUME TypeOK, QueueInv, Served
  PROVE  QueueInv' /\ Latest(row', dbq') = Latest(row, dbq) /\ row' = Head(dbq).val
  <1>1. /\ dbq' = Tail(dbq) /\ Len(dbq') = Len(dbq) - 1 /\ Len(dbq) \in Nat \ {0}
        /\ Head(dbq) = dbq[1] /\ dbq[1] \in Writes
        /\ \A i \in 1..Len(dbq') : dbq'[i] = dbq[i + 1]
    BY DEF Served, TypeOK
  <1>2. dbq[1].keep => row.ts = dbq[1].val.ts
    BY <1>1 DEF QueueInv, Before
  <1>3. [dbq[1].val EXCEPT !.ts = dbq[1].val.ts] = dbq[1].val
    BY <1>1 DEF Writes, Entries, NoPos
  <1>4. row' = dbq[1].val
    BY <1>1, <1>2, <1>3 DEF Served, Applied
  <1>5. ASSUME NEW i \in 1..Len(dbq'), dbq'[i].keep
        PROVE  (IF i = 1 THEN row' ELSE dbq'[i - 1].val).ts = dbq'[i].val.ts
    <2>1. (IF i = 1 THEN row' ELSE dbq'[i - 1].val) = Before(i + 1)
      BY <1>1, <1>4 DEF Before
    <2>2. i + 1 \in 1..Len(dbq) /\ dbq'[i] = dbq[i + 1]
      BY <1>1
    <2> QED BY <1>5, <2>1, <2>2 DEF QueueInv
  <1>6. Latest(row', dbq') = Latest(row, dbq)
    <2>1. CASE Len(dbq) = 1
      <3>1. dbq' = <<>> /\ dbq # <<>>
        <4>1. Tail(dbq) \in Seq(Writes) /\ dbq # <<>>
          BY DEF TypeOK, Served
        <4>2. dbq' = Tail(dbq) /\ Len(Tail(dbq)) = 0
          BY <1>1, <2>1
        <4> QED BY <4>1, <4>2
      <3> QED BY <1>4, <2>1, <3>1 DEF Latest
    <2>2. CASE Len(dbq) # 1
      <3>1. dbq' # <<>> /\ dbq # <<>> /\ Len(dbq') \in 1..Len(dbq')
        BY <1>1, <2>2
      <3>2. dbq'[Len(dbq')] = dbq[Len(dbq)]
        BY <1>1, <3>1
      <3> QED BY <3>1, <3>2 DEF Latest
    <2> QED BY <2>1, <2>2
  <1> QED BY <1>1, <1>4, <1>5, <1>6 DEF QueueInv, Before

\* The statements that wait carry supported entries.
LEMMA PushEntries ==
  ASSUME TypeOK, EntriesInv, NEW w \in Writes, Submit(w), EntryInv(log, w.val)
  PROVE  \A i \in 1..Len(dbq') : EntryInv(log, dbq'[i].val)
  <1>1. /\ dbq' = Append(dbq, w) /\ Len(dbq') = Len(dbq) + 1 /\ Len(dbq) \in Nat
        /\ dbq'[Len(dbq) + 1] = w
        /\ \A i \in 1..Len(dbq) : dbq'[i] = dbq[i]
    BY DEF Submit, TypeOK
  <1> QED BY <1>1 DEF EntriesInv

\* A new entry reaches back to the oldest price in hand.
LEMMA RegisteredFacts ==
  ASSUME TypeOK, EvidenceInv, NEW e \in Prices, Registered(e)
  PROVE  /\ EntryInv(log, mem'.pos) /\ ~mem'.owed /\ mem'.pos.ts # 0
         /\ cache # NoBar => mem'.pos.from <= cache.at
         /\ coming # NoBar => mem'.pos.from <= coming.at
         /\ ctl.at = "buy" => mem'.pos.from <= ctl.when
  <1>1. PICK t \in InHand :
          /\ \A s \in InHand : t <= s
          /\ mem' = [pos    |-> [entry |-> e, ts |-> now, highest |-> e, from |-> t,
                                guessed |-> FALSE],
                     loaded |-> FALSE, owed |-> FALSE]
    BY DEF Registered
  <1>2. now = Len(log) /\ now \in Nat \ {0}
    BY Parts DEF now
  <1>3. InHand \subseteq 1..now
    BY <1>2 DEF InHand, EvidenceInv, BarsInv, BarInv, HandInv
  <1>4. t \in 1..now /\ t <= now
    BY <1>1, <1>3
  <1>5. EntryInv(log, mem'.pos)
    BY <1>1, <1>2, <1>4 DEF EntryInv, Since
  <1>6. /\ cache # NoBar => t <= cache.at
        /\ coming # NoBar => t <= coming.at
        /\ ctl.at = "buy" => t <= ctl.when
    BY <1>1 DEF InHand
  <1> QED BY <1>1, <1>2, <1>5, <1>6

\* The highest price may be replaced by any price since the entry.
LEMMA RaiseFacts ==
  ASSUME TypeOK, EvidenceInv, Live,
         NEW h, h \in Since(log, mem.pos) \/ h = mem.pos.highest
  PROVE  EntryInv(log, [mem.pos EXCEPT !.highest = h])
  <1> DEFINE r == [mem.pos EXCEPT !.highest = h]
  <1>1. mem.pos \in Entries
    BY Parts DEF Live
  <1>2. /\ r.entry = mem.pos.entry /\ r.ts = mem.pos.ts /\ r.from = mem.pos.from
        /\ r.guessed = mem.pos.guessed /\ r.highest = h
    BY <1>1 DEF Entries
  <1>3. EntryInv(log, mem.pos) /\ mem.pos # NoPos
    BY DEF EvidenceInv, EntriesInv, Live
  <1> HIDE DEF r
  <1>4. EntryInv(log, r)
    BY <1>2, <1>3 DEF EntryInv, Since
  <1> QED BY <1>4 DEF r

\* What the check looks at has happened since the entry.
LEMMA CheckFacts ==
  ASSUME TypeOK, EvidenceInv, Live, cache # NoBar
  PROVE  /\ CheckPrice \in Since(log, mem.pos)
         /\ \A h \in Raised : h \in Since(log, mem.pos) \/ h = mem.pos.highest
  <1>1. mem.pos \in Entries /\ EntryInv(log, mem.pos) /\ mem.pos # NoPos
    BY Parts DEF EvidenceInv, EntriesInv, Live
  <1>2. /\ mem.pos.from \in 1..Len(log) /\ mem.pos.from \in Nat \ {0}
        /\ mem.pos.ts \in Nat
    BY <1>1, Parts, EntryParts DEF EntryInv
  <1>3. BarInv(log, cache) /\ cache.at \in 1..Len(log) /\ cache.start \in 1..cache.at
    BY DEF EvidenceInv, BarsInv, BarInv
  <1>4. mem.pos.from <= cache.at
    BY DEF EvidenceInv, HandInv
  <1>5. log \in Seq(Prices) /\ cache.at \in Nat \ {0} /\ cache.start \in Nat \ {0}
    BY <1>3, Parts DEF TypeOK
  <1>6. cache.close \in Since(log, mem.pos)
    <2>1. Vals(log, cache.at) \subseteq Vals(log, mem.pos.from)
      BY <1>2, <1>4, <1>5, ValsFacts
    <2> QED BY <1>3, <2>1 DEF BarInv, Since
  <1>7. ASSUME AfterEntry
        PROVE  cache.low \in Since(log, mem.pos) /\ cache.high \in Since(log, mem.pos)
    <2>1. mem.pos.from <= cache.start
      BY <1>1, <1>2, <1>5, <1>7 DEF AfterEntry, EntryInv
    <2>2. Vals(log, cache.start) \subseteq Vals(log, mem.pos.from)
      BY <1>2, <1>5, <2>1, ValsFacts
    <2> QED BY <1>3, <2>2 DEF BarInv, Since
  <1> QED BY <1>6, <1>7 DEF CheckPrice, Raised

-----------------------------------------------------------------------------
\* A step that leaves the log, the sale and the entry's evidence alone.
LEMMA EvidenceKept ==
  ASSUME TypeOK, EvidenceInv, log' = log, BarsInv',
         EntryInv(log, mem'.pos), EntryInv(log, row'), EntryInv(log, ctl'.pos),
         \A i \in 1..Len(dbq') : EntryInv(log, dbq'[i].val),
         HandInv', ctl'.at = "sell" => ctl' = ctl
  PROVE  EvidenceInv'
  <1>1. EntriesInv'
    BY DEF EntriesInv
  <1>2. ExitEarned'
    BY DEF EvidenceInv, ExitEarned
  <1> QED BY <1>1, <1>2 DEF EvidenceInv

\* No entry needs no evidence.
LEMMA NothingKnown ==
  /\ \A l : EntryInv(l, NoPos) /\ \A a \in Labels : Rest(a).pos = NoPos /\ Rest(a).at = a
  /\ NoMem.pos = NoPos
  BY DEF EntryInv, Rest, NoMem

\* A new price keeps the invariant.
LEMMA TickKeeps ==
  ASSUME IInv, NEW p \in Prices, Tick(p)
  PROVE  IInv'
  <1>1. log' = Append(log, p) /\ log \in Seq(Prices)
        /\ UNCHANGED <<coming, cache, mem, row, dbq, ctl, up, used>>
    BY DEF Tick, IInv, TypeOK
  <1>2. TypeOK'
    BY WorldTypes DEF IInv
  <1>3. BarsInv'
    BY <1>1, TickFacts DEF IInv, EvidenceInv, BarsInv, TypeOK
  <1>4. mem.pos \in Rows /\ ctl.pos \in Rows /\ row \in Rows
        /\ \A i \in 1..Len(dbq) : dbq[i].val \in Rows
    BY Parts DEF IInv, TypeOK, Rows, Contexts, Writes
  <1>5. EntriesInv'
    BY <1>1, <1>4, TickFacts DEF IInv, EvidenceInv, EntriesInv
  <1>6. HandInv'
    <2>1. \A t \in Nat \ {0} : Vals(log, t) \subseteq Vals(log', t)
      BY <1>1, ValsFacts
    <2>2. Len(log') = Len(log) + 1 /\ Len(log) \in Nat
      BY <1>1
    <2> QED BY <1>1, <2>1, <2>2 DEF IInv, EvidenceInv, HandInv, Live
  <1>7. ExitEarned'
    <2> SUFFICES ASSUME ctl.at = "sell" PROVE ExitEarned'
      BY <1>1 DEF ExitEarned
    <2>1. 0 \notin Prices
      BY PositionExitAssumption DEF PositionExitAssumption
    <2>2. ctl.pos # NoPos
      BY <2>1 DEF IInv, TypeOK, Contexts, Entries, NoPos
    <2>3. Since(log, ctl.pos) \subseteq Since(log', ctl.pos)
      BY <1>1, <1>4, <2>2, TickFacts DEF IInv, EvidenceInv, EntriesInv
    <2> QED BY <1>1, <2>3 DEF ExitEarned, Earned, IInv, EvidenceInv
  <1>8. DownInv' /\ QueueInv' /\ LatestInv'
    BY <1>1 DEF IInv, DownInv, QueueInv, Before, LatestInv
  <1> QED BY <1>2, <1>3, <1>5, <1>6, <1>7, <1>8 DEF IInv, EvidenceInv

\* The worker and the candles keep the invariant.
LEMMA FeedKeeps ==
  ASSUME IInv, \/ \E u \in Units : FetchAnswered(u)
               \/ FetchStored \/ Served
  PROVE  IInv'
  <1>1. TypeOK'
    BY WorldTypes DEF IInv
  <1>2. ASSUME NEW u \in Units, FetchAnswered(u) PROVE IInv'
    <2>1. PICK start \in 1..now :
            \E high, low \in Vals(log, start), top \in Vals(log, 1) :
              coming' = [start |-> start, at |-> now, high |-> high, low |-> low,
                         close |-> log[now], top |-> top]
      BY <1>2 DEF FetchAnswered
    <2>2. now \in Nat \ {0} /\ now = Len(log) /\ log \in Seq(Prices)
      BY Parts DEF now, IInv, TypeOK
    <2>3. log[now] \in Vals(log, now)
      BY <2>2, ValsFacts
    <2>4. BarInv(log, coming') /\ coming'.at = now
      BY <2>1, <2>2, <2>3 DEF BarInv
    <2>5. /\ UNCHANGED <<log, cache, mem, row, dbq, ctl, up>> /\ up
      BY <1>2 DEF FetchAnswered
    <2>6. Live => mem.pos.from <= now
      <3>1. mem.pos # NoPos => mem.pos.from \in 1..Len(log)
        BY DEF IInv, EvidenceInv, EntriesInv, EntryInv
      <3> QED BY <2>2, <3>1 DEF Live
    <2>7. BarsInv' /\ HandInv'
      BY <2>4, <2>5, <2>6 DEF IInv, EvidenceInv, BarsInv, HandInv, Live
    <2>8. EvidenceInv'
      BY <2>5, <2>7, EvidenceKept DEF IInv, EvidenceInv, EntriesInv
    <2>9. DownInv' /\ QueueInv' /\ LatestInv'
      BY <2>5 DEF IInv, DownInv, QueueInv, Before, LatestInv
    <2> QED BY <1>1, <2>8, <2>9 DEF IInv
  <1>3. CASE FetchStored
    <2>1. UNCHANGED <<log, mem, row, dbq, ctl, up>> /\ up /\ cache' = coming
          /\ coming' = NoBar /\ coming # NoBar
      BY <1>3 DEF FetchStored
    <2>2. BarsInv' /\ HandInv'
      BY <2>1 DEF IInv, EvidenceInv, BarsInv, BarInv, HandInv, Live
    <2>3. EvidenceInv'
      BY <2>1, <2>2, EvidenceKept DEF IInv, EvidenceInv, EntriesInv
    <2>4. DownInv' /\ QueueInv' /\ LatestInv'
      BY <2>1 DEF IInv, DownInv, QueueInv, Before, LatestInv
    <2> QED BY <1>1, <2>3, <2>4 DEF IInv
  <1>4. CASE Served
    <2>1. UNCHANGED <<log, coming, cache, mem, up>> /\ up /\ dbq # <<>>
          /\ ctl' \in {ctl, Rest("idle")}
      BY <1>4 DEF Served
    <2>2. QueueInv' /\ Latest(row', dbq') = Latest(row, dbq) /\ row' = Head(dbq).val
      BY <1>4, PopQueue DEF IInv
    <2>3. /\ dbq' = Tail(dbq) /\ Len(dbq) \in Nat \ {0} /\ Head(dbq) = dbq[1]
          /\ Len(dbq') = Len(dbq) - 1 /\ \A i \in 1..Len(dbq') : dbq'[i] = dbq[i + 1]
      BY <1>4 DEF Served, IInv, TypeOK
    <2>4. EntryInv(log, row') /\ \A i \in 1..Len(dbq') : EntryInv(log, dbq'[i].val)
      BY <2>2, <2>3 DEF IInv, EvidenceInv, EntriesInv
    <2>5. EntryInv(log, ctl'.pos) /\ BarsInv' /\ HandInv'
          /\ (ctl'.at = "sell" => ctl' = ctl)
      BY <2>1, NothingKnown DEF IInv, EvidenceInv, EntriesInv, BarsInv, HandInv, Live, Labels
    <2>6. EvidenceInv'
      BY <2>1, <2>4, <2>5, EvidenceKept DEF IInv, EvidenceInv, EntriesInv
    <2>7. DownInv' /\ LatestInv'
      BY <2>1, <2>2 DEF IInv, DownInv, LatestInv
    <2> QED BY <1>1, <2>2, <2>6, <2>7 DEF IInv
  <1> QED BY <1>2, <1>3, <1>4

\* A crash leaves the row, a restart loads it.
LEMMA RestartKeeps ==
  ASSUME IInv, Crash \/ Restart
  PROVE  IInv'
  <1>1. TypeOK'
    BY WorldTypes DEF IInv
  <1>2. CASE Crash
    <2>1. /\ log' = log /\ row' = row /\ ~up' /\ coming' = NoBar /\ cache' = NoBar
          /\ mem' = NoMem /\ dbq' = <<>> /\ ctl' = Rest("boot")
      BY <1>2 DEF Crash
    <2>2. /\ EntryInv(log, mem'.pos) /\ EntryInv(log, ctl'.pos) /\ ctl'.at = "boot"
          /\ mem'.pos = NoPos
      BY <2>1, NothingKnown DEF Labels
    <2>3. BarsInv' /\ HandInv'
      BY <2>1, <2>2 DEF BarsInv, BarInv, HandInv, Live
    <2>4. EvidenceInv'
      BY <2>1, <2>2, <2>3, EvidenceKept DEF IInv, EvidenceInv, EntriesInv
    <2>5. DownInv' /\ QueueInv' /\ LatestInv'
      BY <2>1 DEF DownInv, QueueInv, LatestInv
    <2> QED BY <1>1, <2>4, <2>5 DEF IInv
  <1>3. CASE Restart
    <2>1. /\ UNCHANGED <<log, coming, cache, row, dbq, ctl>> /\ up' /\ mem' = Load(row)
          /\ coming = NoBar /\ cache = NoBar /\ dbq = <<>> /\ ctl.at = "boot"
      BY <1>3, NothingKnown DEF Restart, IInv, DownInv, Labels
    <2>2. /\ mem'.pos.entry = row.entry /\ mem'.pos.ts = row.ts
          /\ ~mem'.owed => mem'.pos.highest = row.highest
          /\ EntryInv(log, mem'.pos)
      <3>1. CASE row = NoPos
        BY <2>1, <3>1, NothingKnown DEF Load, NoMem
      <3>2. CASE row # NoPos
        <4> DEFINE h == IF row.highest = 0 THEN row.entry ELSE row.highest
        <4>1. mem' = [pos |-> [row EXCEPT !.highest = h], loaded |-> row.highest # 0,
                      owed |-> row.highest = 0]
          BY <2>1, <3>2 DEF Load
        <4>2. /\ mem'.pos.entry = row.entry /\ mem'.pos.ts = row.ts
              /\ mem'.pos.from = row.from /\ mem'.pos.guessed = row.guessed
              /\ mem'.pos.highest = h /\ mem'.owed = (row.highest = 0)
          <5>1. CASE row \in Entries BY <4>1, <5>1 DEF Entries
          <5>2. CASE row \in Legacy BY <4>1, <5>2 DEF Legacy
          <5> QED BY <3>2, <5>1, <5>2 DEF IInv, TypeOK, Rows
        <4>3. EntryInv(log, row)
          BY DEF IInv, EvidenceInv, EntriesInv
        <4> HIDE DEF h
        <4>4. h = row.entry \/ h = row.highest
          BY DEF h
        <4>5. EntryInv(log, mem'.pos)
          BY <3>2, <4>2, <4>3, <4>4 DEF EntryInv, Since
        <4>6. row.highest # 0 => h = row.highest
          BY DEF h
        <4> QED BY <4>2, <4>5, <4>6
      <3> QED BY <3>1, <3>2
    <2>3. BarsInv' /\ HandInv'
      BY <2>1 DEF IInv, EvidenceInv, BarsInv, BarInv, HandInv
    <2>4. EvidenceInv'
      BY <2>1, <2>2, <2>3, EvidenceKept DEF IInv, EvidenceInv, EntriesInv
    <2>5. DownInv' /\ QueueInv' /\ LatestInv'
      BY <2>1, <2>2 DEF DownInv, QueueInv, LatestInv, Latest
    <2> QED BY <1>1, <2>4, <2>5 DEF IInv
  <1> QED BY <1>2, <1>3

\* A statement submitted for the entry the step leaves in memory.
LEMMA SaveKeeps ==
  ASSUME IInv, TypeOK', UNCHANGED <<log, coming, cache, row, up>>, up,
         NEW w \in Writes, Submit(w), w.val = mem'.pos,
         w.keep => w.val.ts = mem.pos.ts,
         EntryInv(log, mem'.pos), EntryInv(log, ctl'.pos),
         ctl'.at = "sell" => ctl' = ctl, HandInv'
  PROVE  IInv'
  <1>1. Latest(row, dbq).ts = mem.pos.ts
    BY DEF IInv, LatestInv
  <1>2. QueueInv' /\ Latest(row', dbq') = mem'.pos
    BY <1>1, PushQueue DEF IInv
  <1>3. \A i \in 1..Len(dbq') : EntryInv(log, dbq'[i].val)
    BY PushEntries DEF IInv, EvidenceInv
  <1>4. BarsInv'
    BY DEF IInv, EvidenceInv, BarsInv
  <1>5. EvidenceInv'
    BY <1>3, <1>4, EvidenceKept DEF IInv, EvidenceInv, EntriesInv
  <1>6. DownInv' /\ LatestInv'
    BY <1>2 DEF DownInv, LatestInv
  <1> QED BY <1>2, <1>5, <1>6 DEF IInv

\* A new entry, a forgotten one and a sold one keep the invariant.
LEMMA EntryKeeps ==
  ASSUME IInv, \/ \E p \in Prices : Register(p)
               \/ Forget \/ BuyDone \/ SellDone
  PROVE  IInv'
  <1>1. TypeOK'
    BY EntryTypes DEF IInv
  <1>2. ASSUME NEW p \in Prices, Register(p) PROVE IInv'
    <2>1. /\ UNCHANGED <<log, coming, cache, row, up, ctl>> /\ up
          /\ Registered(p) /\ Submit(Save("bot", FALSE))
      BY <1>2 DEF Register, Free
    <2>2. Save("bot", FALSE) \in Writes
      BY <2>1, RegisteredType, WriteTypes DEF IInv
    <2>3. Save("bot", FALSE).val = mem'.pos /\ ~Save("bot", FALSE).keep
      BY DEF Save
    <2>4. HandInv' /\ EntryInv(log, mem'.pos)
      BY <2>1, RegisteredFacts DEF IInv, EvidenceInv, HandInv
    <2> QED BY <1>1, <2>1, <2>2, <2>3, <2>4, SaveKeeps DEF IInv, EvidenceInv, EntriesInv
  <1>3. CASE Forget
    <2>1. /\ UNCHANGED <<log, coming, cache, row, up, ctl>> /\ up
          /\ mem' = NoMem /\ Submit(Delete("monitor"))
      BY <1>3 DEF Forget, Free
    <2>2. Delete("monitor") \in Writes /\ Delete("monitor").val = NoPos
          /\ ~Delete("monitor").keep
      BY WriteTypes DEF Delete
    <2>3. HandInv' /\ EntryInv(log, mem'.pos) /\ mem'.pos = NoPos
      BY <2>1, NothingKnown DEF IInv, EvidenceInv, HandInv, Live
    <2> QED BY <1>1, <2>1, <2>2, <2>3, SaveKeeps DEF IInv, EvidenceInv, EntriesInv
  <1>4. CASE SellDone
    <2>1. /\ UNCHANGED <<log, coming, cache, row, up>> /\ up /\ ctl' = Rest("save")
          /\ mem' = NoMem /\ Submit(Delete("strategy"))
      BY <1>4 DEF SellDone, At
    <2>2. Delete("strategy") \in Writes /\ Delete("strategy").val = NoPos
          /\ ~Delete("strategy").keep
      BY WriteTypes DEF Delete
    <2>3. ctl'.pos = NoPos /\ ctl'.at = "save"
      BY <2>1, NothingKnown DEF Labels
    <2>4. HandInv' /\ EntryInv(log, mem'.pos) /\ mem'.pos = NoPos
      BY <2>1, <2>3, NothingKnown DEF HandInv, Live
    <2> QED BY <1>1, <2>1, <2>2, <2>3, <2>4, NothingKnown, SaveKeeps
  <1>5. CASE BuyDone
    <2> DEFINE keep == mem'.pos.ts = 0
    <2>1. /\ UNCHANGED <<log, coming, cache, row, up>> /\ up /\ ctl.at = "buy"
          /\ ctl' = Rest("save") /\ Submit(Save("strategy", keep))
      BY <1>5 DEF BuyDone, At
    <2>2. ctl'.pos = NoPos /\ ctl'.at = "save"
      BY <2>1, NothingKnown DEF Labels
    <2>3. ctl.quote \in Prices /\ ctl.when \in 1..Len(log)
          /\ ctl.quote \in Vals(log, ctl.when)
      BY <2>1 DEF IInv, EvidenceInv, HandInv, TypeOK, Contexts
    <2>4. /\ mem'.pos \in Entries /\ EntryInv(log, mem'.pos)
          /\ keep => mem'.pos.ts = mem.pos.ts
          /\ cache # NoBar => mem'.pos.from <= cache.at
          /\ coming # NoBar => mem'.pos.from <= coming.at
      <3>1. CASE ~Live
        <4>1. Registered(ctl.quote)
          BY <1>5, <3>1 DEF BuyDone
        <4> QED BY <2>3, <4>1, RegisteredType, RegisteredFacts DEF IInv
      <3>2. CASE Live
        <4> DEFINE h == IF ctl.quote > mem.pos.highest THEN ctl.quote
                                                      ELSE mem.pos.highest
        <4>1. mem.pos \in Entries /\ h \in Prices
          BY <2>3, <3>2, Parts, EntryParts DEF Live, IInv
        <4>2. h = ctl.quote \/ h = mem.pos.highest
          OBVIOUS
        <4>3. ctl.quote \in Since(log, mem.pos)
          <5>1. mem.pos.from \in 1..Len(log) /\ mem.pos.from <= ctl.when
            BY <2>1, <3>2 DEF IInv, EvidenceInv, EntriesInv, EntryInv, HandInv, Live
          <5>2. log \in Seq(Prices) /\ ctl.when \in Nat \ {0} /\ mem.pos.from \in Nat \ {0}
            BY <2>3, <5>1, Parts DEF IInv, TypeOK
          <5>3. Vals(log, ctl.when) \subseteq Vals(log, mem.pos.from)
            BY <5>1, <5>2, ValsFacts
          <5> QED BY <2>3, <5>3 DEF Since
        <4> HIDE DEF h
        <4>4. mem' = [pos |-> [mem.pos EXCEPT !.highest = h],
                      loaded |-> mem.loaded, owed |-> FALSE]
          BY <1>5, <3>2 DEF BuyDone, IInv, TypeOK, Mems, h
        <4>5. EntryInv(log, mem'.pos)
          BY <3>2, <4>2, <4>3, <4>4, RaiseFacts DEF IInv
        <4>6. /\ mem'.pos \in Entries /\ mem'.pos.ts = mem.pos.ts
              /\ mem'.pos.from = mem.pos.from
          BY <4>1, <4>4 DEF Entries
        <4> QED BY <3>2, <4>5, <4>6 DEF IInv, EvidenceInv, HandInv
      <3> QED BY <3>1, <3>2
    <2>5. keep \in BOOLEAN
      OBVIOUS
    <2> HIDE DEF keep
    <2>6. /\ Save("strategy", keep) \in Writes /\ Save("strategy", keep).val = mem'.pos
          /\ Save("strategy", keep).keep = keep
      BY <2>4, <2>5, WriteTypes DEF Save
    <2>7. HandInv'
      BY <2>1, <2>2, <2>4 DEF HandInv
    <2> QED BY <1>1, <2>1, <2>2, <2>4, <2>6, <2>7, NothingKnown, SaveKeeps
  <1> QED BY <1>2, <1>3, <1>4, <1>5

\* The strategy loop's other steps leave the queue alone.
LEMMA QuietKeeps ==
  ASSUME IInv, TypeOK', UNCHANGED <<log, coming, cache, row, dbq, up>>, up,
         mem'.pos.entry = mem.pos.entry, mem'.pos.ts = mem.pos.ts,
         ~mem'.owed => ~mem.owed /\ mem'.pos.highest = mem.pos.highest,
         EntryInv(log, mem'.pos), EntryInv(log, ctl'.pos), HandInv', ExitEarned'
  PROVE  IInv'
  <1>1. DownInv' /\ QueueInv' /\ LatestInv'
    BY DEF IInv, DownInv, QueueInv, Before, LatestInv
  <1>2. BarsInv' /\ EntriesInv'
    BY DEF IInv, EvidenceInv, BarsInv, EntriesInv
  <1> QED BY <1>1, <1>2 DEF IInv, EvidenceInv

\* A quote, an attempt given up, the restored highest price, a SELL that fails
\* and the decision to sell keep the invariant.
LEMMA QuietSteps ==
  ASSUME IInv, BuyQuoted \/ BuyGivenUp \/ Begin \/ Exits \/ SellFailed
  PROVE  IInv'
  <1>1. TypeOK'
    BY EntryTypes DEF IInv
  <1>2. /\ EntryInv(log, mem.pos) /\ log \in Seq(Prices) /\ now = Len(log)
        /\ now \in Nat \ {0} /\ mem \in Mems
    BY Parts DEF IInv, TypeOK, EvidenceInv, EntriesInv, now
  <1>3. CASE BuyQuoted
    <2>1. /\ UNCHANGED <<log, coming, cache, mem, row, dbq, up>> /\ up
          /\ ctl' = [at |-> "buy", quote |-> log[now], when |-> now, check |-> 0,
                     pos |-> NoPos]
      BY <1>3 DEF BuyQuoted, At, Rest
    <2>2. log[now] \in Vals(log, now)
      BY <1>2, ValsFacts
    <2>3. Live => mem.pos.from <= now
      BY <1>2 DEF Live, EntryInv
    <2>4. HandInv'
      BY <1>2, <2>1, <2>2, <2>3 DEF IInv, EvidenceInv, HandInv, Live
    <2>5. EntryInv(log, ctl'.pos) /\ ExitEarned'
      BY <2>1, NothingKnown DEF ExitEarned
    <2> QED BY <1>1, <1>2, <2>1, <2>4, <2>5, QuietKeeps
  <1>4. CASE BuyGivenUp \/ SellFailed
    <2>1. /\ UNCHANGED <<log, coming, cache, mem, row, dbq, up>> /\ up
          /\ ctl' = Rest("idle")
      BY <1>4 DEF BuyGivenUp, SellFailed, At
    <2>2. ctl'.pos = NoPos /\ ctl'.at = "idle"
      BY <2>1, NothingKnown DEF Labels
    <2>3. HandInv' /\ EntryInv(log, ctl'.pos) /\ ExitEarned'
      BY <2>1, <2>2, NothingKnown DEF IInv, EvidenceInv, HandInv, Live, ExitEarned
    <2> QED BY <1>1, <1>2, <2>1, <2>3, QuietKeeps
  <1>5. CASE Begin
    <2>1. /\ UNCHANGED <<log, coming, cache, row, dbq, up>> /\ up
          /\ ctl' = Rest("idle")
      BY <1>5 DEF Begin, At
    <2>2. ctl'.pos = NoPos /\ ctl'.at = "idle"
      BY <2>1, NothingKnown DEF Labels
    <2>3. /\ mem'.pos.entry = mem.pos.entry /\ mem'.pos.ts = mem.pos.ts
          /\ mem'.pos.from = mem.pos.from /\ EntryInv(log, mem'.pos)
          /\ ~mem'.owed => ~mem.owed /\ mem'.pos.highest = mem.pos.highest
          /\ mem'.pos # NoPos => Live
      <3>1. CASE Live /\ ~mem.loaded /\ cache # NoBar
        <4> DEFINE h == IF cache.top > mem.pos.entry THEN cache.top ELSE mem.pos.entry
                   g == mem.pos.ts # 0
        <4>1. mem.pos \in Entries
          BY <3>1, Parts DEF Live, IInv
        <4>2. h = cache.top \/ h = mem.pos.entry
          OBVIOUS
        <4>3. cache.top \in Vals(log, 1)
          BY <3>1 DEF IInv, EvidenceInv, BarsInv, BarInv
        <4>4. mem' = [pos |-> [mem.pos EXCEPT !.guessed = g, !.highest = h],
                      loaded |-> mem.loaded, owed |-> TRUE]
          BY <1>2, <1>5, <3>1 DEF Begin, Mems, h, g
        <4>5. g = (mem.pos.ts # 0)
          OBVIOUS
        <4> HIDE DEF h, g
        <4>6. /\ mem'.pos.entry = mem.pos.entry /\ mem'.pos.ts = mem.pos.ts
              /\ mem'.pos.from = mem.pos.from /\ mem'.pos.guessed = g
              /\ mem'.pos.highest = h /\ mem'.owed = TRUE
          BY <4>1, <4>4 DEF Entries
        <4>7. EntryInv(log, mem'.pos)
          BY <1>2, <3>1, <4>2, <4>3, <4>5, <4>6 DEF EntryInv, Since, Live
        <4> QED BY <3>1, <4>6, <4>7
      <3>2. CASE ~(Live /\ ~mem.loaded /\ cache # NoBar)
        BY <1>2, <1>5, <3>2 DEF Begin, Live
      <3> QED BY <3>1, <3>2
    <2>4. HandInv' /\ EntryInv(log, ctl'.pos) /\ ExitEarned'
      BY <2>1, <2>2, <2>3, NothingKnown DEF IInv, EvidenceInv, HandInv, Live, ExitEarned
    <2> QED BY <1>1, <2>1, <2>3, <2>4, QuietKeeps
  <1>6. CASE Exits
    <2> DEFINE price == CheckPrice
    <2>1. /\ UNCHANGED <<log, coming, cache, row, dbq, up>> /\ up
          /\ Live /\ cache # NoBar
      BY <1>6 DEF Exits, At
    <2>2. PICK h \in Raised :
            /\ IsHighest(h) /\ Exit(mem.pos.entry, h, price)
            /\ mem' = [mem EXCEPT !.pos.highest = h,
                                  !.owed = mem.owed \/ h > mem.pos.highest]
      BY <1>6 DEF Exits
    <2>3. ctl' = [at |-> "sell", quote |-> 0, when |-> 0, check |-> price,
                  pos |-> mem'.pos]
      BY <1>6 DEF Exits, Rest
    <2>4. /\ price \in Since(log, mem.pos)
          /\ h \in Since(log, mem.pos) \/ h = mem.pos.highest
      BY <2>1, <2>2, CheckFacts DEF IInv
    <2>5. mem.pos \in Entries /\ h \in Prices /\ h >= mem.pos.highest
      <3>1. mem.pos \in Entries /\ mem.pos.highest \in Prices
        BY <2>1, Parts, EntryParts DEF Live, IInv
      <3>2. h \in Prices /\ mem.pos.highest \in Raised
        BY <2>1, <2>2, CheckTypes DEF IInv, Raised
      <3> QED BY <2>2, <3>1, <3>2, PositionExitAssumption
               DEF IsHighest, PositionExitAssumption
    <2> HIDE DEF price
    <2>6. mem' = [pos |-> [mem.pos EXCEPT !.highest = h], loaded |-> mem.loaded,
                  owed |-> mem.owed \/ h > mem.pos.highest]
      BY <1>2, <2>2 DEF Mems
    <2>7. /\ mem'.pos.entry = mem.pos.entry /\ mem'.pos.ts = mem.pos.ts
          /\ mem'.pos.from = mem.pos.from /\ mem'.pos.highest = h
          /\ mem'.owed = (mem.owed \/ h > mem.pos.highest)
          /\ mem'.pos.guessed = mem.pos.guessed
      BY <2>5, <2>6 DEF Entries
    <2>8. EntryInv(log, mem'.pos)
      BY <2>1, <2>4, <2>6, RaiseFacts DEF IInv
    <2>9. ~mem'.owed => ~mem.owed /\ mem'.pos.highest = mem.pos.highest
      <3>1. h \in Nat /\ mem.pos.highest \in Nat
        BY <2>5, EntryParts, PositionExitAssumption DEF PositionExitAssumption
      <3>2. mem'.owed <=> mem.owed \/ h > mem.pos.highest
        BY <2>7, Zenon
      <3> QED BY <2>5, <2>7, <3>1, <3>2
    <2>10. HandInv' /\ EntryInv(log, ctl'.pos)
      BY <2>1, <2>3, <2>7, <2>8 DEF IInv, EvidenceInv, HandInv, Live
    <2>11. ExitEarned'
      <3>1. Since(log, mem'.pos) = Since(log, mem.pos)
        BY <2>7 DEF Since
      <3>2. mem.pos # NoPos /\ mem.pos.highest # 0
        BY <2>1, <2>5, EntryParts, PositionExitAssumption
           DEF Live, PositionExitAssumption
      <3>3. ~mem.pos.guessed => h \in Since(log, mem.pos)
        BY <1>2, <2>4, <3>2 DEF EntryInv
      <3>4. ~mem'.pos.guessed => Earned(log, mem'.pos, price)
        BY <2>2, <2>7, <3>1, <3>3 DEF Earned
      <3> QED BY <2>1, <2>3, <2>4, <3>1, <3>4 DEF ExitEarned
    <2> QED BY <1>1, <2>1, <2>7, <2>8, <2>9, <2>10, <2>11, QuietKeeps
  <1> QED BY <1>3, <1>4, <1>5, <1>6

\* A highest price that was raised is saved with the timestamp the row has.
LEMMA HoldsKeeps ==
  ASSUME IInv, Holds
  PROVE  IInv'
  <1>1. TypeOK'
    BY EntryTypes DEF IInv
  <1>2. /\ UNCHANGED <<log, coming, cache, row, up>> /\ up /\ Live /\ cache # NoBar
        /\ ctl' = Rest("save") /\ Submit(Save("strategy", TRUE))
    BY DEF Holds, At
  <1>3. PICK h \in Raised : mem' = [mem EXCEPT !.pos.highest = h, !.owed = FALSE]
    BY DEF Holds
  <1>4. /\ h \in Since(log, mem.pos) \/ h = mem.pos.highest
        /\ h \in Prices /\ mem.pos \in Entries
    BY <1>2, <1>3, CheckFacts, CheckTypes, Parts DEF IInv, Live
  <1>5. mem' = [pos |-> [mem.pos EXCEPT !.highest = h], loaded |-> mem.loaded,
                owed |-> FALSE]
    BY <1>3 DEF IInv, TypeOK, Mems
  <1>6. /\ mem'.pos.ts = mem.pos.ts /\ mem'.pos.from = mem.pos.from
        /\ mem'.pos \in Entries
    BY <1>4, <1>5 DEF Entries
  <1>7. EntryInv(log, mem'.pos)
    BY <1>2, <1>4, <1>5, RaiseFacts DEF IInv
  <1>8. Save("strategy", TRUE) \in Writes /\ Save("strategy", TRUE).val = mem'.pos
    BY <1>6, WriteTypes DEF Save
  <1>9. ctl'.pos = NoPos /\ ctl'.at = "save"
    BY <1>2, NothingKnown DEF Labels
  <1>10. HandInv' /\ EntryInv(log, ctl'.pos)
    BY <1>2, <1>6, <1>9, NothingKnown DEF IInv, EvidenceInv, HandInv, Live
  <1> QED BY <1>1, <1>2, <1>6, <1>7, <1>8, <1>9, <1>10, SaveKeeps

\* The invariant holds from the start.
LEMMA InitHolds == Init => IInv
  <1> SUFFICES ASSUME Init PROVE IInv
    OBVIOUS
  <1>1. TypeOK
    BY TypesHoldInitially
  <1>2. PICK p \in Prices : log = <<p>>
    BY DEF Init
  <1>3. /\ coming = NoBar /\ cache = NoBar /\ mem = Load(row) /\ dbq = <<>>
        /\ row \in {NoPos} \union Legacy /\ ctl = Rest("boot") /\ up = TRUE
    BY DEF Init
  <1>4. Len(log) = 1 /\ ctl.pos = NoPos /\ ctl.at = "boot"
    BY <1>2, <1>3, NothingKnown DEF Labels
  <1>5. /\ EntryInv(log, row) /\ EntryInv(log, mem.pos)
        /\ mem.pos.entry = row.entry /\ mem.pos.ts = row.ts
        /\ ~mem.owed => mem.pos.highest = row.highest
    <2>1. CASE row = NoPos
      BY <1>3, <2>1, NothingKnown DEF Load, NoMem
    <2>2. CASE row \in Legacy /\ row # NoPos
      <3>1. /\ row.entry \in Prices /\ row.ts = 0 /\ row.highest = 0 /\ row.from = 1
            /\ row.guessed = FALSE
        BY <2>2 DEF Legacy
      <3>2. mem = [pos |-> [row EXCEPT !.highest = row.entry], loaded |-> FALSE,
                   owed |-> TRUE]
        BY <1>3, <2>2, <3>1 DEF Load
      <3>3. /\ mem.pos.entry = row.entry /\ mem.pos.ts = 0 /\ mem.pos.from = 1
            /\ mem.pos.highest = row.entry /\ mem.owed = TRUE
        BY <2>2, <3>1, <3>2 DEF Legacy
      <3> QED BY <1>4, <3>1, <3>3 DEF EntryInv, Since
    <2> QED BY <1>3, <2>1, <2>2
  <1>6. BarsInv /\ HandInv /\ ExitEarned /\ QueueInv /\ DownInv
    BY <1>3, <1>4 DEF BarsInv, BarInv, HandInv, ExitEarned, QueueInv, DownInv
  <1>7. EntriesInv /\ LatestInv
    BY <1>3, <1>4, <1>5, NothingKnown DEF EntriesInv, LatestInv, Latest
  <1> QED BY <1>1, <1>6, <1>7 DEF IInv, EvidenceInv

\* The invariant is inductive.
LEMMA Inductive == Spec => []IInv
  <1>1. IInv /\ UNCHANGED vars => IInv'
    <2> SUFFICES ASSUME IInv, UNCHANGED vars PROVE IInv'
      OBVIOUS
    <2>1. TypeOK'
      BY DEF IInv, TypeOK, vars
    <2>2. BarsInv' /\ EntriesInv' /\ HandInv' /\ ExitEarned'
      BY DEF IInv, EvidenceInv, BarsInv, EntriesInv, HandInv, Live, ExitEarned, vars
    <2>3. DownInv' /\ QueueInv' /\ LatestInv'
      BY DEF IInv, DownInv, QueueInv, Before, LatestInv, vars
    <2> QED BY <2>1, <2>2, <2>3 DEF IInv, EvidenceInv
  <1>2. IInv /\ [Next]_vars => IInv'
    <2> SUFFICES ASSUME IInv, Next PROVE IInv'
      BY <1>1
    <2>1. ASSUME NEW p \in Prices, Tick(p) PROVE IInv'
      BY <2>1, TickKeeps
    <2>2. CASE (\E u \in Units : FetchAnswered(u)) \/ FetchStored \/ Served
      BY <2>2, FeedKeeps
    <2>3. CASE Crash \/ Restart
      BY <2>3, RestartKeeps
    <2>4. CASE (\E p \in Prices : Register(p)) \/ Forget \/ BuyDone \/ SellDone
      BY <2>4, EntryKeeps
    <2>5. CASE BuyQuoted \/ BuyGivenUp \/ Begin \/ Exits \/ SellFailed
      BY <2>5, QuietSteps
    <2>6. CASE Holds
      BY <2>6, HoldsKeeps
    <2> QED BY <2>1, <2>2, <2>3, <2>4, <2>5, <2>6 DEF Next
  <1> QED BY <1>2, InitHolds, PTL DEF Spec

\* Every sale by _check_position_exit is for prices the market has had since
\* the entry, whatever candle was at hand and however often the bot restarted.
THEOREM ExitIsEarned == Spec => []ExitEarned
  <1>1. IInv => ExitEarned
    BY DEF IInv, EvidenceInv
  <1> QED BY <1>1, Inductive, PTL

\* Once the database worker has caught up, the row has the stops of the entry
\* in memory: _stamp_entry_ts, COALESCE and _reconcile_pyramid_exit together
\* lose neither the timestamp nor a highest price that was not owed.
THEOREM StopsAreSaved == Spec => []StopsSurvive
  <1>1. IInv => StopsSurvive
    BY DEF IInv, LatestInv, Latest, StopsSurvive
  <1> QED BY <1>1, Inductive, PTL
=============================================================================
