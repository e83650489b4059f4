----------------------------- MODULE TraderProofs -----------------------------
(* Proofs about Trader, for any markets, commands and bounds: its types, that  *)
(* a halt lets at most one order call through, that tables and memory agree when no   *)
(* statement waits, that an entry has its partial take once, and that the      *)
(* order path implements KillGate.                                             *)
EXTENDS Trader, TLAPS

-----------------------------------------------------------------------------
(* Building blocks: the contexts and the statements the actions write *)

\* The empty entry, no volumes, and a process at rest have their types.
LEMMA RestType ==
  NoPos \in Entries /\ NoVol \in [Markets -> Nat] /\ Rest \in Contexts
  <1>1. NoPos \in Entries /\ NoVol \in [Markets -> Nat]
    BY DEF NoPos, Entries, NoVol
  <1>2. Rest \in [at : Labels, m : Markets \union {"none"}, vol : [Markets -> Nat],
                  todo : SUBSET Markets, got : SUBSET Markets, val : Entries,
                  then : {"hold", "buy"}, tries : Nat]
    BY <1>1 DEF Rest, Labels
  <1>3. Rest.at \notin OnMarket
    BY DEF Rest, OnMarket
  <1> QED BY <1>1, <1>2, <1>3 DEF Contexts

\* A context moved to another step, and to another market.
LEMMA MoveType ==
  ASSUME NEW c \in Contexts, NEW l \in Labels, l \in OnMarket => c.m \in Markets
  PROVE  [c EXCEPT !.at = l] \in Contexts
  BY DEF Contexts

\* A context moved to a step on a market.
LEMMA MarketType ==
  ASSUME NEW c \in Contexts, NEW l \in OnMarket, NEW m \in Markets
  PROVE  [c EXCEPT !.at = l, !.m = m] \in Contexts
  <1>1. l \in Labels
    BY DEF Labels
  <1> QED BY <1>1 DEF Contexts

\* The parts of a process's context.
LEMMA ContextParts ==
  ASSUME CtlType, NEW p \in Procs
  PROVE  /\ ctl[p] \in Contexts
         /\ ctl[p].at \in Labels /\ ctl[p].m \in Markets \union {"none"}
         /\ ctl[p].vol \in [Markets -> Nat] /\ ctl[p].todo \in SUBSET Markets
         /\ ctl[p].got \in SUBSET Markets /\ ctl[p].val \in Entries
         /\ ctl[p].then \in {"hold", "buy"} /\ ctl[p].tries \in Nat
         /\ ctl[p].at \in OnMarket => ctl[p].m \in Markets
  BY DEF CtlType, Contexts

\* A process may be given any context.
LEMMA PutType ==
  ASSUME CtlType, NEW p \in Procs, NEW c \in Contexts,
         ctl' = [ctl EXCEPT ![p] = c]
  PROVE  CtlType'
  BY DEF CtlType

\* A process moves within its market, or to a step that needs none.
LEMMA GotoType ==
  ASSUME CtlType, NEW p \in Procs, NEW l \in Labels, Goto(p, l),
         l \in OnMarket => ctl[p].m \in Markets
  PROVE  CtlType'
  <1>1. [ctl[p] EXCEPT !.at = l] \in Contexts
    BY MoveType DEF CtlType
  <1>2. ctl' = [ctl EXCEPT ![p] = [ctl[p] EXCEPT !.at = l]]
    BY DEF Goto
  <1> QED BY <1>1, <1>2, PutType

\* An order is sent again from a step on the same market.
LEMMA AgainType ==
  ASSUME CtlType, NEW p \in Procs, NEW l \in OnMarket, ctl[p].at \in OnMarket,
         SendAgain(p, l)
  PROVE  CtlType'
  <1>1. l \in Labels /\ ctl[p] \in Contexts /\ ctl[p].m \in Markets /\ ctl[p].tries \in Nat
    BY ContextParts DEF Labels
  <1>2. [ctl[p] EXCEPT !.at = l, !.tries = @ + 1] \in Contexts
    <2>1. ctl[p].tries + 1 \in Nat
      BY <1>1
    <2>2. \A n \in Nat : [ctl[p] EXCEPT !.at = l, !.tries = n] \in Contexts
      BY <1>1 DEF Contexts
    <2> QED BY <2>1, <2>2
  <1>3. ctl' = [ctl EXCEPT ![p] = [ctl[p] EXCEPT !.at = l, !.tries = @ + 1]]
    BY DEF SendAgain
  <1> QED BY <1>2, <1>3, PutType

\* The exchange after a sale it accepted.
LEMMA SoldType ==
  ASSUME ExType, NEW m \in Markets, NEW vol \in Nat, vol <= ex.coins[m]
  PROVE  Sold(m, vol) \in [coins : [Markets -> Nat], bids : [Markets -> Nat],
                           asks : SUBSET Markets, delisting : SUBSET Markets]
  <1>1. ex.coins[m] - vol \in Nat
    BY DEF ExType
  <1>2. /\ [ex.coins EXCEPT ![m] = ex.coins[m] - vol] \in [Markets -> Nat]
        /\ ex.asks \union {m} \in SUBSET Markets
    BY <1>1 DEF ExType
  <1>3. Sold(m, vol) = [ex EXCEPT !.coins = [ex.coins EXCEPT ![m] = ex.coins[m] - vol],
                                 !.asks = ex.asks \union {m}]
    BY DEF Sold, ExType
  <1> QED BY <1>2, <1>3 DEF ExType

\* A process begins at a step on a market.
LEMMA BeginType ==
  ASSUME CtlType, NEW p \in Procs, NEW l \in OnMarket, NEW m \in Markets, Begin(p, l, m)
  PROVE  CtlType'
  <1>1. [Rest EXCEPT !.at = l, !.m = m] \in Contexts
    BY RestType, MarketType
  <1> QED BY <1>1, PutType DEF Begin

\* Where a SELL returns to.
LEMMA ReturnType ==
  ASSUME CtlType, NEW p \in Procs
  PROVE  Returned(p) \in Contexts
  <1>1. [ctl[p] EXCEPT !.at = "warn", !.m = "none", !.vol = NoVol, !.tries = 0] \in Contexts
    <2>1. "warn" \in Labels /\ "warn" \notin OnMarket
      BY DEF Labels, OnMarket
    <2>2. ctl[p] \in Contexts
      BY DEF CtlType
    <2> QED BY <2>1, <2>2, RestType DEF Contexts
  <1> QED BY <1>1, RestType DEF Returned

\* What the strategy loop goes on with after a partial sale.
LEMMA AfterPartialType ==
  ASSUME NEW c \in Contexts, c.at \in OnMarket
  PROVE  AfterPartial(c) \in Contexts
  <1>1. c.m \in Markets
    BY DEF Contexts
  <1>2. [Rest EXCEPT !.at = "buy", !.m = c.m] \in Contexts
    BY <1>1, RestType, MarketType DEF OnMarket
  <1> QED BY <1>2, RestType DEF AfterPartial

\* A statement of the position tables.
LEMMA WriteType ==
  ASSUME NEW p \in Procs, NEW k \in Kinds, NEW m \in Markets, NEW v \in Entries
  PROVE  Write(p, k, m, v) \in Writes
  BY DEF Write, Writes

\* The save of the gate.
LEMMA GateType ==
  ASSUME NEW p \in Procs, NEW h \in BOOLEAN, NEW b \in SUBSET Markets
  PROVE  GateWrite(p, h, b) \in Writes
  BY DEF GateWrite, Writes

\* The queue after a submission.
LEMMA SubmitType ==
  ASSUME QueueType, NEW w \in Writes
  PROVE  Append(dbq, w) \in Seq(Writes)
  BY DEF QueueType

\* The queue after the worker served its head.
LEMMA QueueFacts ==
  ASSUME QueueType, dbq # <<>>
  PROVE  /\ Head(dbq) \in Writes /\ Tail(dbq) \in Seq(Writes)
         /\ \A w \in Writes : Append(Tail(dbq), w) \in Seq(Writes)
  BY DEF QueueType

\* A statement leaves tables of their types behind.
LEMMA ApplyType ==
  ASSUME DbType, NEW w \in Writes, db' = Apply(w)
  PROVE  DbType'
  <1>1. CASE w \in [by : Procs, kind : Kinds, m : Markets, val : Entries]
    <2>1. w.kind \in Kinds /\ w.m \in Markets /\ w.val \in Entries
      BY <1>1
    <2>2. CASE w.kind \in {"open", "close"}
      BY <2>1, <2>2 DEF Apply, DbType
    <2>3. CASE w.kind \in {"state", "stray", "forget"}
      BY <2>1, <2>3, RestType DEF Apply, DbType
    <2>4. CASE w.kind \in {"cool", "uncool"}
      BY <2>1, <2>4 DEF Apply, DbType
    <2>5. CASE w.kind \in {"excl", "unexcl"}
      BY <2>1, <2>5 DEF Apply, DbType
    <2> QED BY <2>1, <2>2, <2>3, <2>4, <2>5 DEF Kinds
  <1>2. CASE w \in [by : Procs, kind : {"gate"}, m : {"none"},
                    val : BOOLEAN \X SUBSET Markets]
    <2>1. w.kind = "gate" /\ w.val[1] \in BOOLEAN /\ w.val[2] \in SUBSET Markets
      BY <1>2
    <2> QED BY <2>1 DEF Apply, DbType
  <1> QED BY <1>1, <1>2 DEF Writes

\* What a served statement does to the tables.
LEMMA ServedType ==
  ASSUME TypeOK, NEW p \in Procs, NEW l, Served(p, l)
  PROVE  DbType' /\ dbq # <<>> /\ ctl[p].at = l
  BY QueueFacts, ApplyType DEF TypeOK, Served, At

\* A submission keeps the queue and the tables well typed.
LEMMA SubmitTypes ==
  ASSUME TypeOK, NEW w \in Writes, Submit(w)
  PROVE  QueueType' /\ DbType'
  BY SubmitType DEF TypeOK, Submit, QueueType, DbType

\* A served statement with a successor keeps them.
LEMMA ServedSubmitTypes ==
  ASSUME TypeOK, NEW p \in Procs, NEW l, Served(p, l), NEW w \in Writes, ThenSubmit(w)
  PROVE  QueueType' /\ DbType'
  <1>1. DbType' /\ dbq # <<>>
    BY ServedType
  <1>2. dbq' \in Seq(Writes)
    BY <1>1, QueueFacts DEF TypeOK, ThenSubmit
  <1> QED BY <1>1, <1>2 DEF QueueType

\* A served statement without one keeps them.
LEMMA ServedTypes ==
  ASSUME TypeOK, NEW p \in Procs, NEW l, Served(p, l), ThenNothing
  PROVE  QueueType' /\ DbType'
  <1>1. DbType' /\ dbq # <<>>
    BY ServedType
  <1>2. dbq' \in Seq(Writes)
    BY <1>1, QueueFacts DEF TypeOK, ThenNothing
  <1> QED BY <1>1, <1>2 DEF QueueType

\* A new entry of the position table.
LEMMA FreshType ==
  ASSUME NEW adds \in Nat
  PROVE  Fresh(adds) \in Entries
  BY DEF Fresh, Entries

\* The strategy loop's decisions and its buys keep the types.
LEMMA BuyTypes ==
  ASSUME TypeOK, NEW m, NEW then \in {"hold", "buy"},
         \/ /\ m \in Markets
            /\ DecideBuy(m) \/ DecideSell(m) \/ DecidePartial(m, then)
         \/ BuyGivenUp \/ BuyAccepted \/ BuyAnswerLost \/ BuyHidden \/ BuyAnswered
         \/ BuyRecorded \/ BuyUncooled \/ BuySaved
  PROVE  TypeOK'
  <1> DEFINE c == ctl["strategy"]
  <1>1. /\ "strategy" \in Procs /\ c \in Contexts
        /\ c.at \in OnMarket => c.m \in Markets /\ mem.pos[c.m] \in Entries
    BY ContextParts DEF TypeOK, Procs, MemType
  <1>2. CASE m \in Markets /\ (DecideBuy(m) \/ DecideSell(m))
    <2>1. CtlType'
      BY <1>2, BeginType DEF DecideBuy, DecideSell, TypeOK, Procs, OnMarket
    <2> QED BY <1>2, <2>1 DEF DecideBuy, DecideSell, TypeOK, MemType, QueueType,
                              DbType, ExType, SeenType, UsedType
  <1>3. CASE m \in Markets /\ DecidePartial(m, then)
    <2>1. mem.pos[m] \in Entries
      BY <1>3 DEF TypeOK, MemType
    <2>2. [Rest EXCEPT !.at = "part", !.m = m, !.val = mem.pos[m], !.then = then]
            \in Contexts
      BY <1>3, <2>1, RestType DEF Contexts, Labels, OnMarket
    <2>3. CtlType'
      BY <1>1, <1>3, <2>2, PutType DEF DecidePartial, TypeOK
    <2> QED BY <1>3, <2>3 DEF DecidePartial, TypeOK, MemType, QueueType, DbType,
                              ExType, SeenType, UsedType
  <1>4. CASE BuyGivenUp \/ BuyAnswerLost \/ BuyHidden
    <2>1. CtlType'
      <3>1. CASE BuyHidden
        BY <1>1, <3>1, AgainType DEF BuyHidden, At, TypeOK, OnMarket
      <3>2. CASE BuyGivenUp \/ BuyAnswerLost
        BY <1>1, <3>2, RestType, PutType DEF BuyGivenUp, BuyAnswerLost, TypeOK
      <3> QED BY <1>4, <3>1, <3>2
    <2>2. UsedType'
      BY <1>4 DEF BuyGivenUp, BuyAnswerLost, BuyHidden, SendAgain, Fault, TypeOK, UsedType
    <2> QED BY <1>4, <2>1, <2>2 DEF BuyGivenUp, BuyAnswerLost, BuyHidden, TypeOK, MemType,
                                    QueueType, DbType, ExType, SeenType
  <1>5. CASE BuyAccepted
    <2>1. c.at \in OnMarket
      BY <1>5 DEF BuyAccepted, At, OnMarket
    <2>2. CtlType'
      BY <1>1, <1>5, <2>1, GotoType DEF BuyAccepted, TypeOK, Labels, OnMarket
    <2>3. ExType' /\ SeenType' /\ UsedType'
      BY <1>1, <1>5 DEF BuyAccepted, TypeOK, ExType, SeenType, UsedType
    <2> QED BY <1>5, <2>2, <2>3 DEF BuyAccepted, TypeOK, MemType, QueueType, DbType
  <1>6. CASE BuyAnswered
    <2>1. c.at \in OnMarket
      BY <1>6 DEF BuyAnswered, At, OnMarket
    <2>2. CtlType'
      BY <1>1, <1>6, <2>1, GotoType DEF BuyAnswered, TypeOK, Labels, OnMarket
    <2>3. Write("strategy", "open", c.m, NoPos) \in Writes
      BY <1>1, <2>1, WriteType, RestType DEF Kinds
    <2>4. QueueType' /\ DbType'
      BY <1>6, <2>3, SubmitTypes DEF BuyAnswered
    <2> QED BY <1>6, <2>2, <2>4 DEF BuyAnswered, TypeOK, MemType, ExType,
                                    SeenType, UsedType
  <1>7. CASE BuyRecorded
    <2>1. c.at \in OnMarket /\ Served("strategy", "buy_rec")
      BY <1>7 DEF BuyRecorded, Served, At, OnMarket
    <2>2. CtlType'
      BY <1>1, <1>7, <2>1, GotoType DEF BuyRecorded, TypeOK, Labels, OnMarket
    <2>3. c.m \in Markets /\ mem.pos[c.m] \in Entries /\ mem.pos[c.m].adds \in Nat
      BY <1>1, <2>1 DEF Entries
    <2>4. [mem.pos[c.m] EXCEPT !.adds = @ + 1] \in Entries /\ Fresh(0) \in Entries
      BY <2>3, FreshType DEF Entries
    <2>5. MemType'
      <3>1. /\ [mem.pos EXCEPT ![c.m] = Fresh(0)] \in [Markets -> Entries]
            /\ [mem.pos EXCEPT ![c.m].adds = @ + 1] \in [Markets -> Entries]
        BY <2>3, <2>4 DEF TypeOK, MemType
      <3>2. /\ mem.held \union {c.m} \in SUBSET Markets
            /\ mem.cooling \ {c.m} \in SUBSET Markets
        BY <2>3 DEF TypeOK, MemType
      <3>3. CASE ~Known(c.m)
        <4>1. mem' = [mem EXCEPT !.held = mem.held \union {c.m},
                                 !.pos = [mem.pos EXCEPT ![c.m] = Fresh(0)],
                                 !.cooling = mem.cooling \ {c.m}]
          BY <1>7, <3>3 DEF BuyRecorded, TypeOK, MemType
        <4> HIDE DEF c
        <4> QED BY <3>1, <3>2, <4>1 DEF TypeOK, MemType
      <3>4. CASE Known(c.m)
        <4>1. mem' = [mem EXCEPT !.held = mem.held \union {c.m},
                                 !.pos = [mem.pos EXCEPT ![c.m].adds = @ + 1]]
          BY <1>7, <3>4 DEF BuyRecorded, TypeOK, MemType
        <4> HIDE DEF c
        <4> QED BY <3>1, <3>2, <4>1 DEF TypeOK, MemType
      <3> QED BY <3>3, <3>4
    <2>6. SeenType'
      BY <1>7, <2>3 DEF BuyRecorded, TypeOK, SeenType
    <2>7. /\ Write("strategy", "uncool", c.m, NoPos) \in Writes
          /\ Write("strategy", "state", c.m, mem'.pos[c.m]) \in Writes
      BY <1>1, <2>3, <2>5, WriteType, RestType DEF Kinds, MemType
    <2>8. QueueType' /\ DbType'
      BY <1>7, <1>1, <2>1, <2>7, ServedSubmitTypes DEF BuyRecorded
    <2> QED BY <1>7, <2>2, <2>5, <2>6, <2>8 DEF BuyRecorded, TypeOK, ExType, UsedType
  <1>8. CASE BuyUncooled
    <2>1. c.at \in OnMarket /\ Served("strategy", "buy_cool")
      BY <1>8 DEF BuyUncooled, Served, At, OnMarket
    <2>2. CtlType'
      BY <1>1, <1>8, <2>1, RestType, PutType, GotoType
      DEF BuyUncooled, TypeOK, Labels, OnMarket
    <2>3. Write("strategy", "state", c.m, mem.pos[c.m]) \in Writes
      BY <1>1, <2>1, WriteType DEF Kinds
    <2>4. QueueType' /\ DbType'
      BY <1>8, <1>1, <2>1, <2>3, ServedSubmitTypes, ServedTypes DEF BuyUncooled
    <2> QED BY <1>8, <2>2, <2>4 DEF BuyUncooled, TypeOK, MemType, ExType, SeenType,
                                    UsedType
  <1>9. CASE BuySaved
    <2>1. Served("strategy", "buy_save") /\ ThenNothing
      BY <1>9 DEF BuySaved
    <2>2. CtlType'
      BY <1>1, <1>9, RestType, PutType DEF BuySaved, TypeOK
    <2>3. MemType'
      BY <1>9 DEF BuySaved, TypeOK, MemType
    <2>4. QueueType' /\ DbType'
      BY <1>1, <2>1, ServedTypes
    <2> QED BY <1>9, <2>2, <2>3, <2>4 DEF BuySaved, TypeOK, ExType, SeenType, UsedType
  <1> QED BY <1>2, <1>3, <1>4, <1>5, <1>6, <1>7, <1>8, <1>9

\* A partial sale keeps the types.
LEMMA PartialTypes ==
  ASSUME TypeOK,
         \/ PartialSkipped \/ PartialSized \/ PartialAccepted \/ PartialRejected
         \/ PartialAnswerLost \/ PartialHidden \/ PartialAnswered \/ PartialSaved
  PROVE  TypeOK'
  <1> DEFINE c == ctl["strategy"]
             val == [c.val EXCEPT !.taken = TRUE]
  <1>1. "strategy" \in Procs /\ c.at \in OnMarket
    BY DEF PartialSkipped, PartialSized, PartialAccepted, PartialAnswerLost,
           PartialRejected, PartialHidden, SendAgain, PartialAnswered, PartialSaved,
           Served, At, Procs, OnMarket
  <1>2. c \in Contexts /\ c.m \in Markets /\ c.val \in Entries
    BY <1>1, ContextParts DEF TypeOK
  <1>3. AfterPartial(c) \in Contexts
    BY <1>1, <1>2, AfterPartialType
  <1>4. CASE PartialSkipped \/ PartialRejected \/ PartialAnswerLost \/ PartialHidden
    <2>1. CtlType'
      <3>1. CASE PartialHidden
        BY <1>1, <3>1, AgainType DEF PartialHidden, At, TypeOK, OnMarket
      <3>2. CASE PartialSkipped \/ PartialRejected \/ PartialAnswerLost
        BY <1>1, <1>3, <3>2, PutType DEF PartialSkipped, PartialRejected, PartialAnswerLost,
                                         PartialOver, TypeOK
      <3> QED BY <1>4, <3>1, <3>2
    <2>2. UsedType'
      BY <1>4 DEF PartialSkipped, PartialRejected, PartialAnswerLost, PartialHidden,
                  SendAgain, Fault, TypeOK, UsedType
    <2> QED BY <1>4, <2>1, <2>2 DEF PartialSkipped, PartialRejected, PartialAnswerLost,
           PartialHidden, TypeOK, MemType, QueueType, DbType, ExType, SeenType
  <1>5. CASE PartialSized
    <2>1. ex.coins[c.m] \div 2 \in Nat
      BY <1>2 DEF TypeOK, ExType
    <2>2. [c EXCEPT !.at = "part_send", !.vol[c.m] = ex.coins[c.m] \div 2] \in Contexts
      BY <1>2, <2>1 DEF Contexts, Labels, OnMarket
    <2>3. ctl' = [ctl EXCEPT !["strategy"] =
                    [c EXCEPT !.at = "part_send", !.vol[c.m] = ex.coins[c.m] \div 2]]
      BY <1>1, <1>2, <1>5 DEF PartialSized, TypeOK, CtlType, Contexts
    <2>4. CtlType'
      BY <1>1, <2>2, <2>3, PutType DEF TypeOK
    <2> QED BY <1>5, <2>4 DEF PartialSized, TypeOK, MemType, QueueType, DbType, ExType,
                              SeenType, UsedType
  <1>8. CASE PartialAccepted
    <2>1. CtlType'
      BY <1>1, <1>2, <1>8, GotoType DEF PartialAccepted, TypeOK, Labels, OnMarket
    <2>2. c.vol[c.m] \in Nat /\ ex.coins[c.m] \in Nat
      BY <1>2 DEF TypeOK, ExType, Contexts
    <2>3. ExType'
      BY <1>2, <1>8, <2>2, SoldType DEF PartialAccepted, TypeOK, ExType
    <2>4. SeenType'
      BY <1>2, <1>8 DEF PartialAccepted, TypeOK, SeenType
    <2> QED BY <1>8, <2>1, <2>3, <2>4 DEF PartialAccepted, TypeOK, MemType,
                                          QueueType, DbType, UsedType
  <1>6. CASE PartialAnswered
    <2>1. val \in Entries
      BY <1>2 DEF Entries
    <2>2. [mem.pos[c.m] EXCEPT !.taken = TRUE] \in Entries
      BY <1>2 DEF TypeOK, MemType, Entries
    <2>3. MemType'
      BY <1>2, <1>6, <2>2 DEF PartialAnswered, TypeOK, MemType
    <2>4. CtlType'
      BY <1>1, <1>2, <1>6, GotoType DEF PartialAnswered, TypeOK, Labels, OnMarket
    <2>5. \A k \in {"state", "stray"} : Write("strategy", k, c.m, val) \in Writes
      BY <1>1, <1>2, <2>1, WriteType DEF Kinds
    <2>6. QueueType' /\ DbType'
      BY <1>6, <2>5, SubmitTypes DEF PartialAnswered
    <2> QED BY <1>6, <2>3, <2>4, <2>6 DEF PartialAnswered, TypeOK, ExType,
                                          SeenType, UsedType
  <1>7. CASE PartialSaved
    <2>1. CtlType'
      BY <1>1, <1>3, <1>7, PutType DEF PartialSaved, PartialOver, TypeOK
    <2>2. QueueType' /\ DbType'
      BY <1>1, <1>7, ServedTypes DEF PartialSaved
    <2> QED BY <1>7, <2>1, <2>2 DEF PartialSaved, TypeOK, MemType, ExType, SeenType,
                                    UsedType
  <1> QED BY <1>4, <1>5, <1>6, <1>7, <1>8

\* A SELL, by any process, keeps the types.
LEMMA SellTypes ==
  ASSUME TypeOK, NEW p \in Procs, Sell(p)
  PROVE  TypeOK'
  <1> DEFINE c == ctl[p]
  <1>1. c.at \in OnMarket
    BY DEF Sell, SellBalance, SellPriced, SellTrips, SellTripped, SellAccepted,
           SellRejected, SellAnswerLost, SellHidden, SendAgain, SellAnswered,
           SellClosed, SellForgotten, SellCooled, Served, At, OnMarket
  <1>2. /\ c \in Contexts /\ c.m \in Markets /\ c.vol \in [Markets -> Nat]
        /\ c.vol[c.m] \in Nat /\ ex.coins[c.m] \in Nat
    BY <1>1, ContextParts DEF TypeOK, ExType
  <1>3. Returned(p) \in Contexts
    BY ReturnType DEF TypeOK
  <1>4. CASE SellBalance(p)
    <2>1. "sell_price" \in Labels
      BY DEF Labels, OnMarket
    <2>2. [c EXCEPT !.at = "sell_price", !.vol[c.m] = ex.coins[c.m]] \in Contexts
      BY <1>2, <2>1 DEF Contexts
    <2>3. CtlType'
      <3>1. CASE Return(p)
        BY <1>3, <3>1, PutType DEF Return, TypeOK
      <3>2. CASE ctl' = [ctl EXCEPT ![p].at = "sell_price", ![p].vol[c.m] = ex.coins[c.m]]
        <4>1. ctl' = [ctl EXCEPT ![p] =
                        [c EXCEPT !.at = "sell_price", !.vol[c.m] = ex.coins[c.m]]]
          BY <1>2, <3>2 DEF TypeOK, CtlType, Contexts
        <4> QED BY <2>2, <4>1, PutType DEF TypeOK
      <3> QED BY <1>4, <3>1, <3>2 DEF SellBalance
    <2> QED BY <1>4, <2>3 DEF SellBalance, TypeOK, MemType, QueueType, DbType,
                              ExType, SeenType, UsedType
  <1>5. CASE SellPriced(p)
    <2>1. CtlType'
      BY <1>2, <1>5, GotoType DEF SellPriced, TypeOK, Labels, OnMarket
    <2> QED BY <1>5, <2>1 DEF SellPriced, TypeOK, MemType, QueueType, DbType,
                              ExType, SeenType, UsedType
  <1>6. CASE SellTrips(p)
    <2>1. MemType' /\ mem'.blocked \in SUBSET Markets /\ mem.halted \in BOOLEAN
      BY <1>2, <1>6 DEF SellTrips, TypeOK, MemType
    <2>2. QueueType' /\ DbType'
      BY <1>6, <2>1, GateType, SubmitTypes DEF SellTrips
    <2>3. CtlType'
      BY <1>2, <1>6, GotoType DEF SellTrips, TypeOK, Labels, OnMarket
    <2> QED BY <1>6, <2>1, <2>2, <2>3 DEF SellTrips, TypeOK, ExType, SeenType, UsedType
  <1>7. CASE SellTripped(p)
    <2>1. CtlType'
      BY <1>2, <1>7, GotoType DEF SellTripped, TypeOK, Labels, OnMarket
    <2>2. QueueType' /\ DbType'
      BY <1>7, ServedTypes DEF SellTripped
    <2> QED BY <1>7, <2>1, <2>2 DEF SellTripped, TypeOK, MemType, ExType, SeenType,
                                    UsedType
  <1>8. CASE SellAccepted(p)
    <2>1. ExType'
      BY <1>2, <1>8, SoldType DEF SellAccepted, TypeOK, ExType
    <2>2. CtlType'
      BY <1>2, <1>8, GotoType DEF SellAccepted, TypeOK, Labels, OnMarket
    <2> QED BY <1>8, <2>1, <2>2 DEF SellAccepted, TypeOK, MemType, QueueType, DbType,
                                    SeenType, UsedType
  <1>9. CASE SellRejected(p) \/ SellAnswerLost(p) \/ SellHidden(p)
    <2>1. CtlType'
      <3>1. CASE SellHidden(p)
        BY <1>1, <3>1, AgainType DEF SellHidden, TypeOK, OnMarket
      <3>2. CASE SellRejected(p) \/ SellAnswerLost(p)
        BY <1>3, <3>2, PutType DEF SellRejected, SellAnswerLost, Return, TypeOK
      <3> QED BY <1>9, <3>1, <3>2
    <2>2. UsedType'
      BY <1>9 DEF SellRejected, SellAnswerLost, SellHidden, SendAgain, Fault, TypeOK,
                  UsedType
    <2> QED BY <1>9, <2>1, <2>2 DEF SellRejected, SellAnswerLost, SellHidden, TypeOK,
           MemType, QueueType, DbType, ExType, SeenType
  <1>10. CASE SellAnswered(p)
    <2>1. Write(p, "close", c.m, NoPos) \in Writes
      BY <1>2, RestType, WriteType DEF Kinds
    <2>2. QueueType' /\ DbType'
      BY <1>10, <2>1, SubmitTypes DEF SellAnswered
    <2>3. CtlType'
      BY <1>2, <1>10, GotoType DEF SellAnswered, TypeOK, Labels, OnMarket
    <2> QED BY <1>10, <2>2, <2>3 DEF SellAnswered, TypeOK, MemType, ExType, SeenType,
                                     UsedType
  <1>11. CASE SellClosed(p)
    <2>1. Write(p, "forget", c.m, NoPos) \in Writes
      BY <1>2, RestType, WriteType DEF Kinds
    <2>2. QueueType' /\ DbType'
      BY <1>11, <2>1, ServedSubmitTypes DEF SellClosed
    <2>3. CtlType'
      BY <1>2, <1>11, GotoType DEF SellClosed, TypeOK, Labels, OnMarket
    <2>4. MemType'
      BY <1>11, RestType DEF SellClosed, Forgotten, TypeOK, MemType
    <2> QED BY <1>11, <2>2, <2>3, <2>4 DEF SellClosed, TypeOK, ExType, SeenType, UsedType
  <1>12. CASE SellForgotten(p)
    <2>1. Write(p, "cool", c.m, NoPos) \in Writes
      BY <1>2, RestType, WriteType DEF Kinds
    <2>2. QueueType' /\ DbType'
      BY <1>12, <2>1, ServedSubmitTypes DEF SellForgotten
    <2>3. CtlType'
      BY <1>2, <1>12, GotoType DEF SellForgotten, TypeOK, Labels, OnMarket
    <2>4. MemType'
      BY <1>2, <1>12 DEF SellForgotten, TypeOK, MemType
    <2> QED BY <1>12, <2>2, <2>3, <2>4 DEF SellForgotten, TypeOK, ExType, SeenType,
                                           UsedType
  <1>13. CASE SellCooled(p)
    <2>1. CtlType'
      BY <1>3, <1>13, PutType DEF SellCooled, Return, TypeOK
    <2>2. QueueType' /\ DbType'
      BY <1>13, ServedTypes DEF SellCooled
    <2> QED BY <1>13, <2>1, <2>2 DEF SellCooled, TypeOK, MemType, ExType, SeenType,
                                     UsedType
  <1> QED BY <1>4, <1>5, <1>6, <1>7, <1>8, <1>9, <1>10, <1>11, <1>12, <1>13 DEF Sell

\* A statement that fails keeps the types.
LEMMA WriteFailsTypes ==
  ASSUME TypeOK, NEW p \in Procs, WriteFails(p)
  PROVE  TypeOK'
  <1> DEFINE c == ctl[p]
             next == IF c.at = "part_save" THEN AfterPartial(c)
                     ELSE IF c.at \in {"sell_trip", "sell_close", "sell_forget", "sell_cool"}
                     THEN Returned(p) ELSE Rest
  <1>1. next \in Contexts
    <2>1. c \in Contexts /\ Returned(p) \in Contexts /\ Rest \in Contexts
      BY ReturnType, RestType DEF TypeOK, CtlType
    <2>2. c.at = "part_save" => AfterPartial(c) \in Contexts
      BY <2>1, AfterPartialType DEF OnMarket
    <2> QED BY <2>1, <2>2
  <1>2. CtlType'
    <2>1. ctl' = [ctl EXCEPT ![p] = next]
      BY DEF WriteFails
    <2> HIDE DEF next
    <2> QED BY <1>1, <2>1, PutType DEF TypeOK
  <1>3. QueueType'
    BY QueueFacts DEF WriteFails, ThenNothing, TypeOK, QueueType
  <1>4. SeenType'
    BY DEF WriteFails, TypeOK, SeenType
  <1>5. UsedType'
    BY DEF WriteFails, Fault, TypeOK, UsedType
  <1> QED BY <1>2, <1>3, <1>4, <1>5 DEF WriteFails, TypeOK, MemType, DbType, ExType

\* The monitor loop's tick keeps the types.
LEMMA MonitorTypes ==
  ASSUME TypeOK, Monitor
  PROVE  TypeOK'
  <1> DEFINE c == ctl["monitor"]
  <1>1. /\ "monitor" \in Procs /\ c \in Contexts
        /\ c.got \in SUBSET Markets /\ c.todo \in SUBSET Markets
        /\ mem.halted \in BOOLEAN /\ mem.blocked \in SUBSET Markets
        /\ mem.warned \in SUBSET Markets /\ ex.delisting \in SUBSET Markets
    BY ContextParts DEF TypeOK, Procs, MemType, ExType
  <1>2. Held \in SUBSET Markets /\ Stale(c.got) \in SUBSET Markets
    BY DEF Held, Available, Stale, TypeOK, ExType
  <1>3. CASE TickBalances
    <2>1. [Rest EXCEPT !.at = "tick", !.got = Held] \in Contexts
      BY <1>2, RestType DEF Contexts, Labels, OnMarket
    <2>2. CtlType'
      BY <1>1, <1>3, <2>1, PutType DEF TickBalances, TypeOK
    <2> QED BY <1>3, <2>2 DEF TickBalances, TypeOK, MemType, QueueType, DbType,
                              ExType, SeenType, UsedType
  <1>4. CASE TickResumed
    <2>1. [Rest EXCEPT !.at = "stale", !.todo = Stale(c.got)] \in Contexts
      BY <1>2, RestType DEF Contexts, Labels, OnMarket
    <2>2. CtlType'
      BY <1>1, <1>4, <2>1, PutType DEF TickResumed, TypeOK
    <2>3. MemType'
      BY <1>1, <1>4 DEF TickResumed, TypeOK, MemType
    <2> QED BY <1>4, <2>2, <2>3 DEF TickResumed, TypeOK, QueueType, DbType,
                                    ExType, SeenType, UsedType
  <1>5. ASSUME NEW m \in Markets, TickForgets(m)
        PROVE  TypeOK'
    <2>1. [c EXCEPT !.at = "stale_del", !.todo = @ \ {m}] \in Contexts
      BY <1>1 DEF Contexts, Labels, OnMarket
    <2>2. CtlType'
      BY <1>1, <1>5, <2>1, PutType DEF TickForgets, TypeOK
    <2>3. MemType'
      BY <1>5, RestType DEF TickForgets, Forgotten, TypeOK, MemType
    <2>4. QueueType' /\ DbType'
      <3>1. Write("monitor", "forget", m, NoPos) \in Writes
        BY <1>1, RestType, WriteType DEF Kinds
      <3> QED BY <1>5, <3>1, SubmitTypes DEF TickForgets
    <2> QED BY <1>5, <2>2, <2>3, <2>4 DEF TickForgets, TypeOK, ExType, SeenType, UsedType
  <1>6. CASE TickForgot
    <2>1. CtlType'
      BY <1>1, <1>6, GotoType DEF TickForgot, TypeOK, Labels, OnMarket
    <2>2. QueueType' /\ DbType'
      BY <1>1, <1>6, ServedTypes DEF TickForgot
    <2> QED BY <1>6, <2>1, <2>2 DEF TickForgot, TypeOK, MemType, ExType, SeenType,
                                    UsedType
  <1>7. CASE WarnFetched
    <2>1. PICK got \in {ex.delisting, mem.warned} :
            ctl' = [ctl EXCEPT !["monitor"].at = "warn", !["monitor"].got = got,
                               !["monitor"].todo = got \ mem.warned]
      BY <1>7 DEF WarnFetched
    <2>2. [c EXCEPT !.at = "warn", !.got = got, !.todo = got \ mem.warned] \in Contexts
      BY <1>1 DEF Contexts, Labels, OnMarket
    <2>3. ctl' = [ctl EXCEPT !["monitor"] =
                    [c EXCEPT !.at = "warn", !.got = got, !.todo = got \ mem.warned]]
      BY <1>1, <2>1 DEF TypeOK, CtlType, Contexts
    <2>4. CtlType'
      BY <1>1, <2>2, <2>3, PutType DEF TypeOK
    <2> QED BY <1>7, <2>4 DEF WarnFetched, TypeOK, MemType, QueueType, DbType,
                              ExType, SeenType, UsedType
  <1>8. ASSUME NEW m \in Markets, WarnSells(m)
        PROVE  TypeOK'
    <2>1. /\ [c EXCEPT !.todo = @ \ {m}, !.at = "sell_bal", !.m = m] \in Contexts
          /\ [c EXCEPT !.todo = @ \ {m}, !.at = "warn", !.m = "none"] \in Contexts
      <3>1. "sell_bal" \in Labels /\ "warn" \in Labels /\ "warn" \notin OnMarket
        BY DEF Labels, OnMarket
      <3> QED BY <1>1, <3>1 DEF Contexts
    <2>2. CtlType'
      <3>1. CASE m \in mem.held
        <4>1. ctl' = [ctl EXCEPT !["monitor"] =
                        [c EXCEPT !.todo = @ \ {m}, !.at = "sell_bal", !.m = m]]
          BY <1>1, <1>8, <3>1 DEF WarnSells, TypeOK, CtlType, Contexts
        <4> QED BY <1>1, <2>1, <4>1, PutType DEF TypeOK
      <3>2. CASE m \notin mem.held
        <4>1. ctl' = [ctl EXCEPT !["monitor"] =
                        [c EXCEPT !.todo = @ \ {m}, !.at = "warn", !.m = "none"]]
          BY <1>1, <1>8, <3>2 DEF WarnSells, TypeOK, CtlType, Contexts
        <4> QED BY <1>1, <2>1, <4>1, PutType DEF TypeOK
      <3> QED BY <3>1, <3>2
    <2> QED BY <1>8, <2>2 DEF WarnSells, TypeOK, MemType, QueueType, DbType,
                              ExType, SeenType, UsedType
  <1>9. CASE WarnOver
    <2>1. [Rest EXCEPT !.at = "macro"] \in Contexts
      BY RestType, MoveType DEF Labels, OnMarket
    <2>2. CtlType'
      BY <1>1, <1>9, <2>1, PutType DEF WarnOver, TypeOK
    <2>3. MemType'
      BY <1>1, <1>9 DEF WarnOver, TypeOK, MemType
    <2> QED BY <1>9, <2>2, <2>3 DEF WarnOver, TypeOK, QueueType, DbType,
                                    ExType, SeenType, UsedType
  <1>10. ASSUME NEW trips \in BOOLEAN, MacroSaves(trips)
         PROVE  TypeOK'
    <2>1. CtlType'
      BY <1>1, <1>10, GotoType DEF MacroSaves, TypeOK, Labels, OnMarket
    <2>2. MemType' /\ mem'.halted \in BOOLEAN
      BY <1>1, <1>10 DEF MacroSaves, TypeOK, MemType
    <2>3. QueueType' /\ DbType'
      BY <1>1, <1>10, <2>2, GateType, SubmitTypes DEF MacroSaves
    <2> QED BY <1>10, <2>1, <2>2, <2>3 DEF MacroSaves, TypeOK, ExType, SeenType, UsedType
  <1>11. CASE MacroSaved
    <2>1. CtlType'
      BY <1>1, <1>11, RestType, PutType DEF MacroSaved, TypeOK
    <2>2. QueueType' /\ DbType'
      BY <1>1, <1>11, ServedTypes DEF MacroSaved
    <2> QED BY <1>11, <2>1, <2>2 DEF MacroSaved, TypeOK, MemType, ExType, SeenType,
                                     UsedType
  <1>12. CASE TickOver
    <2>1. CtlType'
      BY <1>1, <1>12, RestType, PutType DEF TickOver, TypeOK
    <2> QED BY <1>12, <2>1 DEF TickOver, TypeOK, MemType, QueueType, DbType,
                               ExType, SeenType, UsedType
  <1> QED BY <1>3, <1>4, <1>5, <1>6, <1>7, <1>8, <1>9, <1>10, <1>11, <1>12 DEF Monitor

\* The commands that change memory and save, and their end, keep the types.
LEMMA CommandTypes ==
  ASSUME TypeOK, NEW m, NEW adds \in Nat,
         \/ Halt \/ Resume \/ CommandSaved
         \/ /\ m \in Markets
            /\ \/ ResumeMarket(m) \/ Block(m) \/ Unblock(m)
               \/ SellMarket(m) \/ SetPyramidState(m, adds)
  PROVE  TypeOK'
  <1>1. /\ "bot" \in Procs /\ mem.halted \in BOOLEAN /\ mem.blocked \in SUBSET Markets
    BY DEF TypeOK, Procs, MemType
  <1>2. CASE Halt \/ Resume \/ ResumeMarket(m)
    <2>1. MemType' /\ SeenType' /\ UsedType'
      <3>1. MemType'
        BY <1>2 DEF Halt, Resume, ResumeMarket, TypeOK, MemType
      <3>2. SeenType'
        <4>1. seen' = seen \/ seen' = [seen EXCEPT !.late = 0]
          BY <1>2 DEF Halt, Resume, ResumeMarket
        <4> QED BY <4>1 DEF TypeOK, SeenType
      <3>3. UsedType'
        <4>1. used' = [used EXCEPT !.commands = @ + 1]
          BY <1>2 DEF Halt, Resume, ResumeMarket, CountCommand
        <4> QED BY <4>1 DEF TypeOK, UsedType
      <3> QED BY <3>1, <3>2, <3>3
    <2>2. CtlType'
      BY <1>1, <1>2, GotoType DEF Halt, Resume, ResumeMarket, Save, TypeOK, Labels, OnMarket
    <2>3. \A h \in BOOLEAN : GateWrite("bot", h, mem.blocked) \in Writes
                             /\ GateWrite("bot", h, mem'.blocked) \in Writes
                             /\ GateWrite("bot", h, {}) \in Writes
      BY <1>1, <2>1, GateType DEF MemType
    <2>4. QueueType' /\ DbType'
      BY <1>1, <1>2, <2>3, SubmitTypes DEF Halt, Resume, ResumeMarket, Save
    <2> QED BY <1>2, <2>1, <2>2, <2>4 DEF Halt, Resume, ResumeMarket, TypeOK, ExType
  <1>3. CASE CommandSaved
    <2>1. CtlType'
      BY <1>1, <1>3, RestType, PutType DEF CommandSaved, TypeOK
    <2>2. QueueType' /\ DbType'
      BY <1>1, <1>3, ServedTypes DEF CommandSaved
    <2> QED BY <1>3, <2>1, <2>2 DEF CommandSaved, TypeOK, MemType, ExType, SeenType, UsedType
  <1>4. CASE m \in Markets /\ (Block(m) \/ Unblock(m))
    <2>1. MemType' /\ UsedType'
      BY <1>4 DEF Block, Unblock, CountCommand, TypeOK, MemType, UsedType
    <2>2. CtlType'
      BY <1>1, <1>4, GotoType DEF Block, Unblock, Save, TypeOK, Labels, OnMarket
    <2>3. \A k \in {"excl", "unexcl"} : Write("bot", k, m, NoPos) \in Writes
      BY <1>1, <1>4, RestType, WriteType DEF Kinds
    <2>4. QueueType' /\ DbType'
      BY <1>4, <2>3, SubmitTypes DEF Block, Unblock, Save
    <2>5. SeenType'
      BY <1>4 DEF Block, Unblock, TypeOK, SeenType
    <2> QED BY <1>4, <2>1, <2>2, <2>4, <2>5 DEF Block, Unblock, TypeOK, ExType
  <1>5. CASE m \in Markets /\ SellMarket(m)
    <2>1. CtlType'
      BY <1>1, <1>5, BeginType DEF SellMarket, TypeOK, OnMarket
    <2>2. UsedType'
      BY <1>5 DEF SellMarket, CountCommand, TypeOK, UsedType
    <2> QED BY <1>5, <2>1, <2>2 DEF SellMarket, TypeOK, MemType, QueueType, DbType,
                                    ExType, SeenType
  <1>6. CASE m \in Markets /\ SetPyramidState(m, adds)
    <2>1. MemType'
      BY <1>6, FreshType DEF SetPyramidState, TypeOK, MemType
    <2>2. Write("bot", "state", m, mem'.pos[m]) \in Writes
      BY <1>1, <1>6, <2>1, WriteType DEF MemType, Kinds
    <2>3. QueueType' /\ DbType'
      BY <1>6, <2>2, SubmitTypes DEF SetPyramidState, Save
    <2>4. CtlType'
      BY <1>1, <1>6, GotoType DEF SetPyramidState, Save, TypeOK, Labels, OnMarket
    <2>5. SeenType' /\ UsedType'
      BY <1>6 DEF SetPyramidState, CountCommand, TypeOK, SeenType, UsedType
    <2> QED BY <1>6, <2>1, <2>3, <2>4, <2>5 DEF SetPyramidState, TypeOK, ExType
  <1> QED BY <1>2, <1>3, <1>4, <1>5, <1>6

\* /sync keeps the types.
LEMMA SyncTypes ==
  ASSUME TypeOK, NEW m,
         \/ SyncBalances \/ SyncResumed \/ SyncRemoves(m) \/ SyncRemoved \/ SyncTurns
         \/ SyncAdds(m) \/ SyncAdded \/ SyncOver
  PROVE  TypeOK'
  <1> DEFINE c == ctl["bot"]
  <1>1. /\ "bot" \in Procs /\ c \in Contexts
        /\ c.got \in SUBSET Markets /\ c.todo \in SUBSET Markets
    BY ContextParts DEF TypeOK, Procs
  <1>2. Available \in SUBSET Markets /\ Stale(c.got) \in SUBSET Markets
    BY DEF Available, Stale
  <1>3. CASE SyncBalances
    <2>1. [Rest EXCEPT !.at = "sync", !.got = Available] \in Contexts
      BY <1>2, RestType DEF Contexts, Labels, OnMarket
    <2>2. CtlType'
      BY <1>1, <1>3, <2>1, PutType DEF SyncBalances, TypeOK
    <2>3. UsedType'
      BY <1>3 DEF SyncBalances, CountCommand, TypeOK, UsedType
    <2> QED BY <1>3, <2>2, <2>3 DEF SyncBalances, TypeOK, MemType, QueueType, DbType,
                                    ExType, SeenType
  <1>4. CASE SyncResumed \/ SyncTurns
    <2>1. \A l \in {"sync_del", "sync_add"}, s \in SUBSET Markets :
            [c EXCEPT !.at = l, !.todo = s] \in Contexts
      BY <1>1 DEF Contexts, Labels, OnMarket
    <2>2. PICK l \in {"sync_del", "sync_add"}, s \in SUBSET Markets :
            ctl' = [ctl EXCEPT !["bot"] = [c EXCEPT !.at = l, !.todo = s]]
      BY <1>1, <1>2, <1>4 DEF SyncResumed, SyncTurns, TypeOK, CtlType, Contexts
    <2>3. CtlType'
      BY <1>1, <2>1, <2>2, PutType DEF TypeOK
    <2> QED BY <1>4, <2>3 DEF SyncResumed, SyncTurns, TypeOK, MemType, QueueType,
                              DbType, ExType, SeenType, UsedType
  <1>5. CASE SyncRemoves(m)
    <2>1. [c EXCEPT !.at = "sync_deleted", !.todo = @ \ {m}] \in Contexts
      BY <1>1 DEF Contexts, Labels, OnMarket
    <2>2. CtlType'
      BY <1>1, <1>5, <2>1, PutType DEF SyncRemoves, TypeOK
    <2>3. MemType'
      BY <1>5, RestType DEF SyncRemoves, Forgotten, TypeOK, MemType
    <2>4. Write("bot", "forget", m, NoPos) \in Writes
      BY <1>1, <1>5, RestType, WriteType DEF SyncRemoves, Kinds
    <2>5. QueueType' /\ DbType'
      BY <1>5, <2>4, SubmitTypes DEF SyncRemoves
    <2> QED BY <1>5, <2>2, <2>3, <2>5 DEF SyncRemoves, TypeOK, ExType, SeenType, UsedType
  <1>6. CASE SyncRemoved \/ SyncAdded
    <2>1. CtlType'
      BY <1>1, <1>6, GotoType DEF SyncRemoved, SyncAdded, TypeOK, Labels, OnMarket
    <2>2. QueueType' /\ DbType'
      BY <1>1, <1>6, ServedTypes DEF SyncRemoved, SyncAdded
    <2> QED BY <1>6, <2>1, <2>2 DEF SyncRemoved, SyncAdded, TypeOK, MemType, ExType,
                                    SeenType, UsedType
  <1>7. CASE SyncAdds(m)
    <2>1. /\ [c EXCEPT !.at = "sync_added", !.todo = @ \ {m}] \in Contexts
          /\ [c EXCEPT !.todo = @ \ {m}] \in Contexts
      BY <1>1 DEF Contexts, Labels, OnMarket
    <2>2. CASE Known(m)
      <3>1. CtlType'
        BY <1>1, <1>7, <2>1, <2>2, PutType DEF SyncAdds, TypeOK
      <3> QED BY <1>7, <2>2, <3>1 DEF SyncAdds, TypeOK, MemType, QueueType, DbType,
                                      ExType, SeenType, UsedType
    <2>3. CASE ~Known(m)
      <3>1. CtlType'
        <4>1. ctl' = [ctl EXCEPT !["bot"] = [c EXCEPT !.at = "sync_added", !.todo = @ \ {m}]]
          BY <1>1, <1>7, <2>3 DEF SyncAdds, TypeOK, CtlType, Contexts
        <4> QED BY <1>1, <2>1, <4>1, PutType DEF TypeOK
      <3>2. MemType' /\ SeenType'
        BY <1>7, <2>3, FreshType DEF SyncAdds, TypeOK, MemType, SeenType
      <3>3. Write("bot", "state", m, mem'.pos[m]) \in Writes
        BY <1>1, <1>7, <3>2, WriteType DEF SyncAdds, MemType, Kinds
      <3>4. QueueType' /\ DbType'
        BY <1>7, <2>3, <3>3, SubmitTypes DEF SyncAdds
      <3> QED BY <1>7, <2>3, <3>1, <3>2, <3>4 DEF SyncAdds, TypeOK, ExType, UsedType
    <2> QED BY <2>2, <2>3
  <1>8. CASE SyncOver
    <2>1. CtlType'
      BY <1>1, <1>8, RestType, PutType DEF SyncOver, TypeOK
    <2> QED BY <1>8, <2>1 DEF SyncOver, TypeOK, MemType, QueueType, DbType,
                              ExType, SeenType, UsedType
  <1> QED BY <1>3, <1>4, <1>5, <1>6, <1>7, <1>8

\* /panic_sell keeps the types.
LEMMA PanicTypes ==
  ASSUME TypeOK, NEW m,
         Panic \/ PanicHalted \/ PanicTakes(m) \/ PanicSells \/ PanicOver
  PROVE  TypeOK'
  <1> DEFINE c == ctl["bot"]
  <1>1. /\ "bot" \in Procs /\ c \in Contexts /\ c.todo \in SUBSET Markets
        /\ c.vol \in [Markets -> Nat] /\ ex.coins \in [Markets -> Nat]
        /\ c.tries \in Nat /\ (c.at \in OnMarket => c.m \in Markets)
        /\ Available \in SUBSET Markets /\ mem.blocked \in SUBSET Markets
    BY ContextParts DEF TypeOK, Procs, ExType, Available, MemType
  <1>2. CASE Panic
    <2>1. MemType' /\ UsedType'
      <3>1. MemType'
        BY <1>2 DEF Panic, TypeOK, MemType
      <3>2. UsedType'
        BY <1>2 DEF Panic, CountCommand, TypeOK, UsedType
      <3> QED BY <3>1, <3>2
    <2>2. CtlType'
      BY <1>1, <1>2, GotoType DEF Panic, TypeOK, Labels, OnMarket
    <2>3. QueueType' /\ DbType'
      BY <1>1, <1>2, GateType, SubmitTypes DEF Panic
    <2> QED BY <1>2, <2>1, <2>2, <2>3 DEF Panic, TypeOK, ExType, SeenType
  <1>3. CASE PanicHalted
    <2>1. [Rest EXCEPT !.at = "panic_sell", !.todo = Available, !.vol = ex.coins] \in Contexts
      <3>1. "panic_sell" \in Labels /\ "panic_sell" \notin OnMarket
        BY DEF Labels, OnMarket
      <3> QED BY <1>1, <3>1, RestType DEF Contexts
    <2>2. CtlType'
      BY <1>1, <1>3, <2>1, PutType DEF PanicHalted, TypeOK
    <2>3. QueueType' /\ DbType'
      BY <1>1, <1>3, ServedTypes DEF PanicHalted
    <2> QED BY <1>3, <2>2, <2>3 DEF PanicHalted, TypeOK, MemType, ExType, SeenType,
                                    UsedType
  <1>4. CASE PanicTakes(m)
    <2>1. [c EXCEPT !.at = "panic_send", !.m = m, !.todo = @ \ {m}] \in Contexts
      BY <1>1, <1>4 DEF PanicTakes, Contexts, Labels, OnMarket
    <2>2. ctl' = [ctl EXCEPT !["bot"] =
                    [c EXCEPT !.at = "panic_send", !.m = m, !.todo = @ \ {m}]]
      BY <1>1, <1>4 DEF PanicTakes, TypeOK, CtlType, Contexts
    <2>3. CtlType'
      BY <1>1, <2>1, <2>2, PutType DEF TypeOK
    <2> QED BY <1>4, <2>3 DEF PanicTakes, TypeOK, MemType, QueueType, DbType, ExType,
                              SeenType, UsedType
  <1>6. CASE PanicSells
    <2>1. c.at \in OnMarket /\ c.m \in Markets
      BY <1>1, <1>6 DEF PanicSells, At, OnMarket
    <2>5. c.vol[c.m] \in Nat
      BY <1>1, <2>1
    <2>2. CtlType'
      <3>1. CASE SendAgain("bot", "panic_send")
        BY <1>1, <2>1, <3>1, AgainType DEF TypeOK, OnMarket
      <3>2. CASE PanicTried
        <4>1. [c EXCEPT !.at = "panic_sell", !.m = "none", !.tries = 0] \in Contexts
          BY <1>1 DEF Contexts, Labels, OnMarket
        <4>2. ctl' = [ctl EXCEPT !["bot"] =
                        [c EXCEPT !.at = "panic_sell", !.m = "none", !.tries = 0]]
          BY <1>1, <3>2 DEF PanicTried, TypeOK, CtlType, Contexts
        <4> QED BY <1>1, <4>1, <4>2, PutType DEF TypeOK
      <3> QED BY <1>6, <3>1, <3>2 DEF PanicSells
    <2>3. ExType'
      BY <1>6, <2>1, <2>5, SoldType DEF PanicSells, TypeOK, ExType
    <2>4. UsedType'
      BY <1>6 DEF PanicSells, SendAgain, Fault, TypeOK, UsedType
    <2> QED BY <1>6, <2>2, <2>3, <2>4 DEF PanicSells, TypeOK, MemType, QueueType, DbType,
                                          SeenType
  <1>5. CASE PanicOver
    <2>1. CtlType'
      BY <1>1, <1>5, RestType, PutType DEF PanicOver, TypeOK
    <2> QED BY <1>5, <2>1 DEF PanicOver, TypeOK, MemType, QueueType, DbType,
                              ExType, SeenType, UsedType
  <1> QED BY <1>2, <1>3, <1>4, <1>5, <1>6

\* The exchange, the order watchers, time, a crash and a restart keep the types.
LEMMA OutsideTypes ==
  ASSUME TypeOK, NEW m,
         \/ /\ m \in Markets
            /\ \/ Fill(m) \/ SaleFills(m) \/ Delist(m)
               \/ WatchCancels(m) \/ WatchEnds(m) \/ CoolDown(m)
         \/ Crash \/ Restart
  PROVE  TypeOK'
  <1>1. CASE m \in Markets /\ (Fill(m) \/ SaleFills(m) \/ Delist(m))
    <2>1. ExType'
      <3>1. CASE Fill(m)
        <4>1. ex.bids[m] \in Nat \ {0} /\ ex.coins[m] \in Nat
          BY <1>1, <3>1 DEF Fill, TypeOK, ExType
        <4>2. /\ [ex.bids EXCEPT ![m] = ex.bids[m] - 1] \in [Markets -> Nat]
              /\ [ex.coins EXCEPT ![m] = ex.coins[m] + 4] \in [Markets -> Nat]
          BY <1>1, <4>1 DEF TypeOK, ExType
        <4>3. ex' = [ex EXCEPT !.bids = [ex.bids EXCEPT ![m] = ex.bids[m] - 1],
                               !.coins = [ex.coins EXCEPT ![m] = ex.coins[m] + 4]]
          BY <1>1, <3>1 DEF Fill, TypeOK, ExType
        <4> QED BY <4>2, <4>3 DEF TypeOK, ExType
      <3>2. CASE SaleFills(m) \/ Delist(m)
        BY <1>1, <3>2 DEF SaleFills, Delist, TypeOK, ExType
      <3> QED BY <1>1, <3>1, <3>2
    <2> QED BY <1>1, <2>1 DEF Fill, SaleFills, Delist, TypeOK, MemType, CtlType, QueueType,
                              DbType, SeenType, UsedType
  <1>2. CASE m \in Markets /\ (WatchCancels(m) \/ WatchEnds(m))
    <2>1. MemType' /\ ExType'
      BY <1>2 DEF WatchCancels, WatchEnds, TypeOK, MemType, ExType
    <2> QED BY <1>2, <2>1 DEF WatchCancels, WatchEnds, TypeOK, CtlType, QueueType,
                              DbType, SeenType, UsedType
  <1>3. CASE m \in Markets /\ CoolDown(m)
    <2>1. MemType' /\ DbType'
      BY <1>3 DEF CoolDown, TypeOK, MemType, DbType
    <2> QED BY <1>3, <2>1 DEF CoolDown, TypeOK, CtlType, QueueType, ExType, SeenType,
                              UsedType
  <1>4. CASE Crash
    <2>1. MemType'
      BY <1>4, RestType DEF Crash, Boot, MemType
    <2>2. CtlType' /\ QueueType'
      BY <1>4, RestType DEF Crash, TypeOK, CtlType, QueueType
    <2>3. UsedType'
      BY <1>4 DEF Crash, TypeOK, UsedType
    <2> QED BY <1>4, <2>1, <2>2, <2>3 DEF Crash, TypeOK, DbType, ExType, SeenType
  <1>5. CASE Restart
    <2>1. MemType'
      <3>1. PICK held \in SUBSET Markets, warned \in SUBSET Markets :
              mem' = [Loaded EXCEPT !.held = held, !.warned = warned]
        BY <1>5 DEF Restart, Held, Available, TypeOK, ExType
      <3>2. Loaded \in [pos : [Markets -> Entries], held : SUBSET Markets,
                        cooling : SUBSET Markets, excluded : SUBSET Markets,
                        warned : SUBSET Markets, halted : BOOLEAN,
                        blocked : SUBSET Markets, watch : [Markets -> Nat]]
        BY TraderAssumption DEF TraderAssumption, Loaded, Boot, TypeOK, DbType
      <3> QED BY <3>1, <3>2 DEF MemType
    <2>2. SeenType'
      BY <1>5 DEF Restart, TypeOK, SeenType
    <2> QED BY <1>5, <2>1, <2>2 DEF Restart, TypeOK, CtlType, QueueType, DbType, ExType,
                                    UsedType
  <1> QED BY <1>1, <1>2, <1>3, <1>4, <1>5

-----------------------------------------------------------------------------

\* The initial state has its types.
LEMMA InitTypes == Init => TypeOK
  <1> SUFFICES ASSUME Init
               PROVE  TypeOK
    OBVIOUS
  <1>1. PICK excl \in SUBSET Markets :
          /\ mem = [Boot EXCEPT !.excluded = excl \union ExcludedMarkets]
          /\ db = [rows |-> [m \in Markets |-> NoPos], cool |-> {}, open |-> {},
                   excl |-> excl, halted |-> FALSE, blocked |-> {}, stray |-> {}]
    BY DEF Init
  <1>2. [m \in Markets |-> NoPos] \in [Markets -> Entries]
    BY RestType
  <1>3. MemType
    <2>1. mem = [pos |-> [m \in Markets |-> NoPos], held |-> {}, cooling |-> {},
                 excluded |-> excl \union ExcludedMarkets, warned |-> {}, halted |-> FALSE, blocked |-> {},
                 watch |-> [m \in Markets |-> 0]]
      BY <1>1 DEF Boot
    <2>2. [m \in Markets |-> 0] \in [Markets -> Nat]
      OBVIOUS
    <2> QED BY <1>2, <2>1, <2>2, TraderAssumption DEF MemType, TraderAssumption
  <1>4. DbType
    BY <1>1, <1>2 DEF DbType
  <1>5. CtlType /\ QueueType
    BY RestType DEF Init, CtlType, QueueType
  <1>6. ExType /\ SeenType /\ UsedType
    BY DEF Init, ExType, SeenType, UsedType
  <1>7. up \in BOOLEAN
    BY Zenon DEF Init
  <1> QED BY <1>3, <1>4, <1>5, <1>6, <1>7 DEF TypeOK

\* Every step keeps the types.
LEMMA StepTypes ==
  ASSUME TypeOK, [Next]_vars
  PROVE  TypeOK'
  <1>1. CASE Strategy
    <2>1. CASE \/ \E m \in Markets : DecideBuy(m) \/ DecideSell(m)
               \/ \E m \in Markets, then \in {"hold", "buy"} : DecidePartial(m, then)
               \/ BuyGivenUp \/ BuyAccepted \/ BuyAnswerLost \/ BuyHidden
               \/ BuyAnswered \/ BuyRecorded \/ BuyUncooled \/ BuySaved
      BY <2>1, BuyTypes
    <2> QED BY <1>1, <2>1, PartialTypes DEF Strategy
  <1>2. CASE \E p \in Procs : Sell(p) \/ WriteFails(p)
    BY <1>2, SellTypes, WriteFailsTypes
  <1>3. CASE Monitor
    BY <1>3, MonitorTypes
  <1>4. CASE Bot
    <2>1. MaxAdds \in Nat /\ \A adds \in 0..MaxAdds : adds \in Nat
      BY TraderAssumption DEF TraderAssumption
    <2>2. CASE \/ Halt \/ Resume \/ CommandSaved
               \/ \E m \in Markets : ResumeMarket(m) \/ Block(m) \/ Unblock(m) \/ SellMarket(m)
               \/ \E m \in Markets, adds \in 0..MaxAdds : SetPyramidState(m, adds)
      BY <2>1, <2>2, CommandTypes
    <2>3. CASE \/ SyncBalances \/ SyncResumed \/ SyncRemoved \/ SyncTurns \/ SyncAdded
               \/ SyncOver \/ \E m \in Markets : SyncRemoves(m) \/ SyncAdds(m)
      BY <2>3, SyncTypes
    <2>4. CASE \/ Panic \/ PanicHalted \/ PanicSells \/ PanicOver
               \/ \E m \in Markets : PanicTakes(m)
      BY <2>4, PanicTypes
    <2> QED BY <1>4, <2>2, <2>3, <2>4 DEF Bot
  <1>5. CASE Outside
    <2>1. CASE \E m \in Markets :
                 \/ Fill(m) \/ SaleFills(m) \/ Delist(m)
                 \/ WatchCancels(m) \/ WatchEnds(m) \/ CoolDown(m)
      BY <2>1, OutsideTypes
    <2> QED BY <1>5, <2>1, OutsideTypes DEF Outside
  <1>6. CASE UNCHANGED vars
    BY <1>6 DEF vars, TypeOK, MemType, CtlType, QueueType, DbType, ExType, SeenType,
                UsedType
  <1> QED BY <1>1, <1>2, <1>3, <1>4, <1>5, <1>6 DEF Next

(* The types of the variables hold in every reachable state, whatever the      *)
(* markets and the bounds: in particular the loops never write a position,     *)
(* volume or statement of no market.                                           *)
THEOREM TypeCorrect == Spec => []TypeOK
  BY InitTypes, StepTypes, PTL DEF Spec

-----------------------------------------------------------------------------
(* The other processes' steps, seen from the strategy loop *)

\* The step leaves the strategy loop where it is, or it is not the one between
\* the two statements of a first entry.
Aside == \/ ctl'["strategy"] = ctl["strategy"]
         \/ ctl["strategy"].at # "buy_cool" /\ ctl'["strategy"].at # "buy_cool"

\* A SELL of another process leaves the strategy loop where it is; its own
\* neither starts at the order of a partial sale or between those statements,
\* nor leads to a buy, a partial sale or there.
LEMMA SellAside ==
  ASSUME TypeOK, NEW p \in Procs, Sell(p)
  PROVE  /\ Aside
         /\ \/ ctl'["strategy"] = ctl["strategy"]
            \/ /\ ctl["strategy"].at # "part_sent"
               /\ ctl'["strategy"].at \notin
                    {"buy", "buy_sent", "part", "part_send", "part_sent", "part_save",
                     "buy_cool"}
  <1>1. CASE p # "strategy"
    <2>1. ctl'["strategy"] = ctl["strategy"]
      BY <1>1 DEF Sell, SellBalance, SellPriced, SellTrips, SellTripped, SellAccepted,
                  SellRejected, SellAnswerLost, SellHidden, SendAgain, SellAnswered,
                  SellClosed, SellForgotten, SellCooled, Goto, Return, TypeOK, CtlType,
                  Procs
    <2> QED BY <2>1 DEF Aside
  <1>2. CASE p = "strategy"
    <2>1. ctl["strategy"].at \notin {"part_sent", "buy_cool"}
      BY <1>2 DEF Sell, SellBalance, SellPriced, SellTrips, SellTripped, SellAccepted,
                  SellRejected, SellAnswerLost, SellHidden, SendAgain, SellAnswered,
                  SellClosed, SellForgotten, SellCooled, Served, At
    <2>2. ctl["strategy"] \in Contexts /\ "strategy" \in Procs
      BY DEF TypeOK, CtlType, Procs
    <2>3. CASE Return(p)
      BY <1>2, <2>1, <2>2, <2>3 DEF Return, Returned, Rest, TypeOK, CtlType, Aside
    <2>4. CASE ~Return(p)
      <3>1. ctl'["strategy"].at \in {"sell_price", "sell_trip", "sell_send",
                                     "sell_sent", "sell_close", "sell_forget", "sell_cool"}
        BY <1>2, <2>2, <2>4
        DEF Sell, SellBalance, SellPriced, SellTrips, SellTripped, SellAccepted,
            SellRejected, SellAnswerLost, SellHidden, SendAgain, SellAnswered,
            SellClosed, SellForgotten, SellCooled, Goto, TypeOK, CtlType, Contexts
      <3> QED BY <2>1, <3>1 DEF Aside
    <2> QED BY <2>3, <2>4
  <1> QED BY <1>1, <1>2

\* The monitor loop leaves the strategy loop where it is.
LEMMA MonitorAside ==
  ASSUME TypeOK, Monitor
  PROVE  ctl'["strategy"] = ctl["strategy"]
  BY DEF Monitor, TickBalances, TickResumed, TickForgets, TickForgot, WarnFetched,
         WarnSells, WarnOver, MacroSaves, MacroSaved, TickOver, Goto, TypeOK, CtlType, Procs

\* So do the commands.
LEMMA BotAside ==
  ASSUME TypeOK, Bot
  PROVE  ctl'["strategy"] = ctl["strategy"]
  BY DEF Bot, Halt, Resume, CommandSaved, ResumeMarket, Block, Unblock, SellMarket,
         SetPyramidState, SyncBalances, SyncResumed, SyncRemoves, SyncRemoved,
         SyncTurns, SyncAdds, SyncAdded, SyncOver, Panic, PanicHalted, PanicSells,
         PanicTakes, PanicTried, SendAgain, PanicOver, Save, Goto, Begin, TypeOK,
         CtlType, Procs

\* A failed statement sends the strategy loop to rest, or from a partial sale to
\* the buy it was heading for.
LEMMA WriteFailsAside ==
  ASSUME TypeOK, NEW p \in Procs, WriteFails(p)
  PROVE  /\ UNCHANGED mem /\ seen'.takes = seen.takes
         /\ \/ p # "strategy" /\ ctl'["strategy"] = ctl["strategy"]
            \/ p = "strategy" /\ ctl'["strategy"].at \in {"buy", "idle"}
  <1> DEFINE next == IF ctl[p].at = "part_save" THEN AfterPartial(ctl[p])
                     ELSE IF ctl[p].at \in {"sell_trip", "sell_close", "sell_forget",
                                            "sell_cool"}
                     THEN Returned(p) ELSE Rest
  <1>1. UNCHANGED mem /\ seen'.takes = seen.takes /\ ctl' = [ctl EXCEPT ![p] = next]
    BY DEF WriteFails, TypeOK, SeenType
  <1>2. p = "strategy" => next.at \in {"buy", "idle"}
    BY DEF AfterPartial, Returned, Rest
  <1> HIDE DEF next
  <1> QED BY <1>1, <1>2 DEF TypeOK, CtlType, Procs

-----------------------------------------------------------------------------
(* A halt lets at most one order call through. The count alone is not          *)
(* inductive: what keeps a second call out is that a strategy loop on its way  *)
(* to the first order of a call is the one the halt may still let through, and *)
(* that after the call the loop has to pass the gate again.                    *)

Parting == {"part", "part_send", "part_sent", "part_save"}
OnWay == {"buy", "buy_sent"} \union Parting

\* How many calls a halt can have let through when the strategy loop is at c.
Due(c) ==
  IF (c.at = "buy" /\ c.tries = 0) \/ (c.at \in Parting /\ c.then = "buy") THEN 0 ELSE 1

LateInv ==
  /\ up /\ ~mem.halted => seen.late = 0
  /\ up => seen.late <= Due(ctl["strategy"])
  /\ ~up => ctl["strategy"].at \notin OnWay
  /\ seen.late <= 1

\* Nothing is late at the start.
LEMMA InitLate == Init => LateInv
  BY DEF Init, Boot, Rest, Procs, Due, OnWay, Parting, LateInv

\* The loop where it was, or off the way to a buy: no less is due.
LEMMA DueGrows ==
  ASSUME LateInv, NEW d, d = ctl["strategy"] \/ d.at \notin OnWay
  PROVE  /\ Due(ctl["strategy"]) <= Due(d)
         /\ ~up => d.at \notin OnWay
  BY DEF LateInv, Due, OnWay

\* What keeps the count: no less is due, and no halt is lifted without a new
\* count.
LEMMA LateKept ==
  ASSUME TypeOK, LateInv, up' = up,
         Due(ctl["strategy"]) <= Due(ctl'["strategy"]),
         ~up => ctl'["strategy"].at \notin OnWay,
         seen'.late = seen.late \/ seen'.late = 0,
         ~mem'.halted => ~mem.halted \/ seen'.late = 0
  PROVE  LateInv'
  <1>1. seen.late \in Nat /\ Due(ctl["strategy"]) \in 0..1 /\ Due(ctl'["strategy"]) \in 0..1
    BY DEF TypeOK, SeenType, Due
  <1>2. up' => seen'.late <= Due(ctl'["strategy"])
    BY <1>1 DEF LateInv
  <1>3. Due(ctl["strategy"])' = Due(ctl'["strategy"])
    BY DEF Due
  <1> QED BY <1>1, <1>2, <1>3 DEF LateInv

\* As LateKept, for a step that leaves the loop alone or takes it off the way.
LEMMA LateAside ==
  ASSUME TypeOK, LateInv, up' = up,
         ctl'["strategy"] = ctl["strategy"] \/ ctl'["strategy"].at \notin OnWay,
         seen'.late = seen.late \/ seen'.late = 0,
         ~mem'.halted => ~mem.halted \/ seen'.late = 0
  PROVE  LateInv'
  BY DueGrows, LateKept

\* The strategy loop heads for a buy only through the gate, and one order call
\* ends the way.
LEMMA StrategyLate ==
  ASSUME TypeOK, LateInv, Strategy
  PROVE  LateInv'
  <1> DEFINE c == ctl["strategy"]
             d == ctl'["strategy"]
  <1>1. /\ seen.late \in Nat /\ c \in Contexts /\ "strategy" \in Procs
        /\ c.tries \in Nat
    BY ContextParts DEF TypeOK, SeenType, CtlType, Procs
  <1>2. ASSUME NEW m \in Markets, DecideBuy(m) \/ DecideSell(m)
        PROVE  LateInv'
    <2>1. up /\ seen.late = 0 /\ UNCHANGED <<mem, up, seen>>
      BY <1>2 DEF DecideBuy, DecideSell, At, Blocked, LateInv
    <2>2. d.at \in {"buy", "sell_bal"} /\ d.tries = 0
      BY <1>1, <1>2 DEF DecideBuy, DecideSell, Begin, Rest, TypeOK, CtlType
    <2> QED BY <1>1, <2>1, <2>2 DEF LateInv, Due, OnWay, Parting
  <1>3. ASSUME NEW m \in Markets, NEW then \in {"hold", "buy"}, DecidePartial(m, then)
        PROVE  LateInv'
    <2>1. up /\ seen.late = 0 /\ UNCHANGED <<mem, up, seen>>
      BY <1>3 DEF DecidePartial, At, Blocked, LateInv
    <2>2. d.at = "part"
      BY <1>1, <1>3 DEF DecidePartial, Rest, TypeOK, CtlType
    <2> QED BY <1>1, <2>1, <2>2 DEF LateInv, Due, OnWay, Parting
  <1>4. CASE BuyAccepted
    <2>1. up /\ c.at = "buy" /\ seen.late <= 1 /\ (c.tries = 0 => seen.late = 0)
      BY <1>1, <1>4 DEF BuyAccepted, At, LateInv, Due
    <2>2. d.at = "buy_sent"
      BY <1>1, <1>4 DEF BuyAccepted, Goto, TypeOK, CtlType, Contexts
    <2>3. /\ seen'.late = IF mem.halted /\ (c.tries = 0 \/ seen.late = 0)
                          THEN seen.late + 1 ELSE seen.late
          /\ UNCHANGED <<mem, up>>
      BY <1>4 DEF BuyAccepted, TypeOK, SeenType
    <2>4. seen'.late <= 1
      BY <1>1, <2>1, <2>3
    <2>5. ~mem.halted => seen'.late = 0
      BY <2>1, <2>3 DEF LateInv
    <2>6. Due(ctl["strategy"])' = 1
      BY <2>2 DEF Due, Parting
    <2> QED BY <2>1, <2>3, <2>4, <2>5, <2>6 DEF LateInv
  <1>5. CASE BuyHidden
    <2>1. d.at = "buy" /\ d.tries = c.tries + 1
      BY <1>1, <1>5 DEF BuyHidden, SendAgain, TypeOK, CtlType, Contexts
    <2>2. UNCHANGED <<mem, up, seen>> /\ up /\ c.at = "buy_sent"
      BY <1>5 DEF BuyHidden, At
    <2>3. Due(d) = 1 /\ Due(c) = 1
      BY <1>1, <2>1, <2>2 DEF Due, Parting
    <2> QED BY <2>2, <2>3, LateKept
  <1>6. CASE \/ BuyGivenUp \/ BuyAnswerLost \/ BuyAnswered \/ BuyRecorded
             \/ BuyUncooled \/ BuySaved
    <2>1. d.at \notin OnWay
      BY <1>1, <1>6 DEF BuyGivenUp, BuyAnswerLost, BuyAnswered, BuyRecorded, BuyUncooled,
         BuySaved, Goto, Rest, OnWay, Parting, TypeOK, CtlType, Contexts
    <2>2. up' = up /\ mem'.halted = mem.halted /\ seen'.late = seen.late
      BY <1>6 DEF BuyGivenUp, BuyAnswerLost, BuyAnswered, BuyRecorded, BuyUncooled,
         BuySaved, TypeOK, MemType, SeenType
    <2> QED BY <2>1, <2>2, LateAside
  <1>7. CASE \/ PartialSkipped \/ PartialSized \/ PartialAccepted \/ PartialRejected
             \/ PartialAnswerLost \/ PartialHidden \/ PartialAnswered \/ PartialSaved
    <2>1. up /\ c.at \in Parting
      BY <1>7 DEF PartialSkipped, PartialSized, PartialAccepted, PartialRejected,
         PartialAnswerLost, PartialHidden, PartialAnswered, PartialSaved, Served, At, Parting
    <2>2. \/ d.at \in Parting /\ d.then = c.then
          \/ c.then = "buy" /\ d.at = "buy" /\ d.tries = 0
          \/ d.at \notin OnWay
      <3>1. CASE \/ PartialSized \/ PartialAccepted \/ PartialHidden \/ PartialAnswered
        BY <1>1, <3>1 DEF PartialSized, PartialAccepted, PartialHidden, SendAgain,
           PartialAnswered, Goto, Parting, TypeOK, CtlType, Contexts
      <3>2. CASE PartialOver
        BY <1>1, <3>2 DEF PartialOver, AfterPartial, Rest, OnWay, Parting, TypeOK, CtlType,
                          Contexts
      <3> QED BY <1>7, <3>1, <3>2 DEF PartialSkipped, PartialRejected, PartialAnswerLost,
                                      PartialSaved
    <2>3. Due(c) <= Due(d)
      BY <2>1, <2>2 DEF Due, Parting, OnWay
    <2>4. up' = up /\ mem'.halted = mem.halted /\ seen'.late = seen.late
      BY <1>7 DEF PartialSkipped, PartialSized, PartialAccepted, PartialRejected,
         PartialAnswerLost, PartialHidden, PartialAnswered, PartialSaved, TypeOK, MemType,
         SeenType
    <2> QED BY <2>1, <2>3, <2>4, LateKept
  <1> QED BY <1>2, <1>3, <1>4, <1>5, <1>6, <1>7 DEF Strategy

\* A SELL ends where it began or at rest, and leaves the halt alone.
LEMMA SellLate ==
  ASSUME TypeOK, LateInv, NEW p \in Procs, Sell(p)
  PROVE  LateInv'
  <1>1. UNCHANGED <<seen, up>> /\ mem'.halted = mem.halted
    BY DEF Sell, SellBalance, SellPriced, SellTrips, SellTripped, SellAccepted,
           SellRejected, SellAnswerLost, SellHidden, SellAnswered, SellClosed,
           SellForgotten, SellCooled, Forgotten, TypeOK, MemType
  <1>2. ctl'["strategy"] = ctl["strategy"] \/ ctl'["strategy"].at \notin OnWay
    BY SellAside DEF OnWay, Parting
  <1> QED BY <1>1, <1>2, LateAside

\* A failed statement ends what the process was doing, or sends the strategy
\* loop from a partial sale to the buy it was heading for.
LEMMA WriteFailsLate ==
  ASSUME TypeOK, LateInv, NEW p \in Procs, WriteFails(p)
  PROVE  LateInv'
  <1> DEFINE c == ctl[p]
             next == IF c.at = "part_save" THEN AfterPartial(c)
                     ELSE IF c.at \in {"sell_trip", "sell_close", "sell_forget", "sell_cool"}
                     THEN Returned(p) ELSE Rest
  <1>1. UNCHANGED <<mem, up>> /\ seen'.late = seen.late /\ up
    BY DEF WriteFails, TypeOK, SeenType
  <1>2. ctl' = [ctl EXCEPT ![p] = next]
    BY DEF WriteFails
  <1>3. CASE p # "strategy"
    <2>1. ctl'["strategy"] = ctl["strategy"]
      <3> HIDE DEF next
      <3> QED BY <1>2, <1>3 DEF TypeOK, CtlType, Procs
    <2> QED BY <1>1, <2>1, LateAside
  <1>4. CASE p = "strategy"
    <2>1. ctl'["strategy"] = next
      <3> HIDE DEF next
      <3> QED BY <1>2, <1>4 DEF TypeOK, CtlType
    <2>2. \/ next.at = "buy" /\ next.tries = 0 /\ c.at = "part_save" /\ c.then = "buy"
          \/ next.at = "idle"
      BY <1>4 DEF AfterPartial, Returned, Rest
    <2> HIDE DEF next
    <2>3. CASE next.at = "idle"
      BY <1>1, <2>1, <2>3, LateAside DEF OnWay, Parting
    <2>4. CASE next.at = "buy" /\ next.tries = 0 /\ c.at = "part_save" /\ c.then = "buy"
      <3>1. Due(next) = 0 /\ Due(ctl["strategy"]) = 0
        BY <1>4, <2>4 DEF Due, Parting
      <3> QED BY <1>1, <2>1, <2>4, <3>1, LateKept
    <2> QED BY <2>2, <2>3, <2>4
  <1> QED BY <1>3, <1>4

\* The monitor loop and the commands leave the strategy loop where it is; only
\* a resume lifts the halt, and it begins a new count.
LEMMA MonitorLate ==
  ASSUME TypeOK, LateInv, Monitor
  PROVE  LateInv'
  <1>1. UNCHANGED <<seen, up>> /\ (mem.halted => mem'.halted)
    BY DEF Monitor, TickBalances, TickResumed, TickForgets, TickForgot, WarnFetched,
           WarnSells, WarnOver, MacroSaves, MacroSaved, TickOver, Forgotten, TypeOK, MemType
  <1> QED BY <1>1, MonitorAside, LateAside

\* The commands keep the count, or begin a new one as they lift the halt.
LEMMA BotLate ==
  ASSUME TypeOK, LateInv, Bot
  PROVE  LateInv'
  <1>1. ctl'["strategy"] = ctl["strategy"] /\ up' = up
    BY BotAside DEF Bot, Halt, Resume, CommandSaved, ResumeMarket, Block, Unblock,
       SellMarket, SetPyramidState, SyncBalances, SyncResumed, SyncRemoves, SyncRemoved,
       SyncTurns, SyncAdds, SyncAdded, SyncOver, Panic, PanicHalted, PanicSells,
       PanicTakes, PanicOver
  <1>2. CASE Resume
    <2>1. seen'.late = 0
      BY <1>2 DEF Resume, TypeOK, SeenType
    <2> QED BY <1>1, <2>1, LateAside
  <1>3. CASE ~Resume
    <2>1. seen'.late = seen.late
      BY <1>3 DEF Bot, Halt, CommandSaved, ResumeMarket, Block, Unblock, SellMarket,
         SetPyramidState, SyncBalances, SyncResumed, SyncRemoves, SyncRemoved, SyncTurns,
         SyncAdds, SyncAdded, SyncOver, Panic, PanicHalted, PanicSells, PanicTakes,
         PanicOver, TypeOK, SeenType
    <2>2. mem'.halted \in {mem.halted, TRUE}
      BY <1>3 DEF Bot, Halt, CommandSaved, ResumeMarket, Block, Unblock, SellMarket,
         SetPyramidState, SyncBalances, SyncResumed, SyncRemoves, SyncRemoved, SyncTurns,
         SyncAdds, SyncAdded, SyncOver, Panic, PanicHalted, PanicSells, PanicTakes,
         PanicOver, Forgotten, TypeOK, MemType
    <2> QED BY <1>1, <2>1, <2>2, LateAside
  <1> QED BY <1>2, <1>3

\* A crash stops the strategy loop; a restart under a halt keeps the count, any
\* other begins a new one.
LEMMA OutsideLate ==
  ASSUME TypeOK, LateInv, Outside
  PROVE  LateInv'
  <1>1. CASE Crash
    <2>1. ctl'["strategy"].at = "idle"
      BY <1>1 DEF Crash, Rest, Procs
    <2> QED BY <1>1, <2>1 DEF Crash, LateInv, OnWay, Parting
  <1>2. CASE Restart
    <2>1. mem'.halted = db.halted
      BY <1>2 DEF Restart, Loaded, Boot
    <2>2. seen'.late = IF db.halted THEN seen.late ELSE 0
      BY <1>2 DEF Restart, TypeOK, SeenType
    <2>3. ctl' = ctl /\ ctl["strategy"].at \notin OnWay
      BY <1>2 DEF Restart, LateInv
    <2>4. Due(ctl["strategy"])' = 1
      BY <2>3 DEF Due, OnWay
    <2> QED BY <2>1, <2>2, <2>3, <2>4 DEF LateInv, OnWay
  <1>3. CASE \E m \in Markets :
               \/ Fill(m) \/ SaleFills(m) \/ Delist(m)
               \/ WatchCancels(m) \/ WatchEnds(m) \/ CoolDown(m)
    <2>1. UNCHANGED <<ctl, up, seen>> /\ mem'.halted = mem.halted
      BY <1>3 DEF Fill, SaleFills, Delist, WatchCancels, WatchEnds, CoolDown, TypeOK, MemType
    <2> QED BY <2>1, LateAside
  <1> QED BY <1>1, <1>2, <1>3 DEF Outside

\* Every step keeps the invariant.
LEMMA StepLate ==
  ASSUME TypeOK, LateInv, [Next]_vars
  PROVE  LateInv'
  <1>1. CASE UNCHANGED vars
    BY <1>1, LateAside DEF vars
  <1> QED BY <1>1, StrategyLate, SellLate, WriteFailsLate, MonitorLate, BotLate,
             OutsideLate DEF Next

(* After a halt, by hand, by a panic or by the macro switch, at most one order *)
(* call still goes through, with its retries, and after a restart under that   *)
(* halt no other: the gate the strategy loop passes before each decision is    *)
(* enough although the order itself is sent several awaits later.              *)
THEOREM HaltStopsCalls == Spec => []OneCallAfterHalt
  <1>1. LateInv => OneCallAfterHalt
    BY DEF LateInv, OneCallAfterHalt
  <1> QED BY <1>1, TypeCorrect, InitLate, StepLate, PTL DEF Spec

-----------------------------------------------------------------------------
(* Tables and memory agree. RowsAgree alone is not inductive: it says nothing  *)
(* while a statement waits. For each topic, that is a row of a table or the    *)
(* gate, the last waiting statement on it says what memory has, and if none    *)
(* waits the table does.                                                       *)

IsTopic(f, m) == \/ f \in {"row", "cool"} /\ m \in Markets
                 \/ f = "excl" /\ m \in Markets \ ExcludedMarkets
                 \/ f = "gate" /\ m = "none"

Field(w) ==
  CASE w.kind \in {"state", "stray", "forget"} -> "row"
    [] w.kind \in {"cool", "uncool"}           -> "cool"
    [] w.kind \in {"excl", "unexcl"}           -> "excl"
    [] w.kind \in {"open", "close"}            -> "open"
    [] w.kind = "gate"                         -> "gate"

On(w, f, m) == Field(w) = f /\ w.m = m

\* The statement writes what memory M has; a stray row is excepted.
Says(w, M) ==
  CASE w.kind = "state"  -> M.pos[w.m] = w.val
    [] w.kind = "forget" -> M.pos[w.m] = NoPos
    [] w.kind = "cool"   -> w.m \in M.cooling
    [] w.kind = "uncool" -> w.m \notin M.cooling
    [] w.kind = "excl"   -> w.m \in M.excluded
    [] w.kind = "unexcl" -> w.m \notin M.excluded
    [] w.kind = "gate"   -> w.val = <<M.halted, M.blocked>>
    [] OTHER             -> TRUE

\* The tables d have what memory M has on a topic.
Tabled(d, M, f, m) ==
  CASE f = "row"  -> m \in d.stray \/ M.pos[m] = d.rows[m]
    [] f = "cool" -> m \in M.cooling <=> m \in d.cool
    [] f = "excl" -> m \in M.excluded <=> m \in d.excl
    [] f = "gate" -> M.halted = d.halted /\ M.blocked = d.blocked

\* Two memories have the same on a topic.
Same(M, N, f, m) ==
  CASE f = "row"  -> M.pos[m] = N.pos[m]
    [] f = "cool" -> m \in M.cooling <=> m \in N.cooling
    [] f = "excl" -> m \in M.excluded <=> m \in N.excluded
    [] f = "gate" -> M.halted = N.halted /\ M.blocked = N.blocked

LastSays(q, M, f, m) ==
  \E i \in 1..Len(q) :
    /\ On(q[i], f, m) /\ Says(q[i], M)
    /\ \A j \in 1..Len(q) : j > i => ~On(q[j], f, m)
NoneOn(q, f, m) == \A i \in 1..Len(q) : ~On(q[i], f, m)

Settled(q, d, M, f, m) == LastSays(q, M, f, m) \/ (NoneOn(q, f, m) /\ Tabled(d, M, f, m))

\* A statement that says what memory has settles its topic and no other.
LEMMA SettledPush ==
  ASSUME NEW q \in Seq(Writes), NEW d, NEW M, NEW f, NEW m, NEW w \in Writes,
         \/ On(w, f, m) /\ Says(w, M)
         \/ ~On(w, f, m) /\ Settled(q, d, M, f, m)
  PROVE  Settled(Append(q, w), d, M, f, m)
  <1> DEFINE r == Append(q, w)
  <1>1. /\ Len(r) = Len(q) + 1 /\ Len(q) \in Nat /\ r[Len(q) + 1] = w
        /\ \A i \in 1..Len(q) : r[i] = q[i]
    OBVIOUS
  <1>2. \A j \in 1..Len(r) : j \in 1..Len(q) \/ j = Len(q) + 1
    BY <1>1
  <1> HIDE DEF r
  <1>3. CASE On(w, f, m) /\ Says(w, M)
    <2>1. LastSays(r, M, f, m)
      BY <1>1, <1>3 DEF LastSays
    <2> QED BY <2>1 DEF Settled, r
  <1>4. CASE ~On(w, f, m) /\ Settled(q, d, M, f, m)
    <2>1. CASE LastSays(q, M, f, m)
      <3>1. LastSays(r, M, f, m)
        BY <1>1, <1>2, <1>4, <2>1 DEF LastSays
      <3> QED BY <3>1 DEF Settled, r
    <2>2. CASE NoneOn(q, f, m) /\ Tabled(d, M, f, m)
      <3>1. NoneOn(r, f, m)
        BY <1>1, <1>2, <1>4, <2>2 DEF NoneOn
      <3> QED BY <2>2, <3>1 DEF Settled, r
    <2> QED BY <1>4, <2>1, <2>2 DEF Settled
  <1> QED BY <1>3, <1>4

\* The statement that is served leaves its topic as it says and no other
\* changed.
LEMMA AppliedTopic ==
  ASSUME DbType, NEW w \in Writes, NEW M, NEW f, NEW m, IsTopic(f, m),
         \/ On(w, f, m) /\ Says(w, M)
         \/ ~On(w, f, m) /\ Tabled(db, M, f, m)
  PROVE  Tabled(Apply(w), M, f, m)
  <1>1. CASE w \in [by : Procs, kind : Kinds, m : Markets, val : Entries]
    <2>1. w.kind \in Kinds /\ w.m \in Markets
      BY <1>1
    <2>2. CASE w.kind \in {"open", "close"}
      BY <2>1, <2>2 DEF Apply, DbType, On, Field, Tabled, IsTopic
    <2>3. CASE w.kind \in {"state", "stray", "forget"}
      BY <2>1, <2>3 DEF Apply, DbType, On, Field, Tabled, IsTopic, Says
    <2>4. CASE w.kind \in {"cool", "uncool"}
      BY <2>1, <2>4 DEF Apply, DbType, On, Field, Tabled, IsTopic, Says
    <2>5. CASE w.kind \in {"excl", "unexcl"}
      BY <2>1, <2>5 DEF Apply, DbType, On, Field, Tabled, IsTopic, Says
    <2> QED BY <2>1, <2>2, <2>3, <2>4, <2>5 DEF Kinds
  <1>2. CASE w \in [by : Procs, kind : {"gate"}, m : {"none"},
                    val : BOOLEAN \X SUBSET Markets]
    <2>1. w.kind = "gate" /\ w.m = "none"
      BY <1>2
    <2>2. Apply(w) = [db EXCEPT !.halted = w.val[1], !.blocked = w.val[2]]
      BY <2>1 DEF Apply
    <2>3. CASE f = "gate"
      <3>1. On(w, f, m)
        BY <2>1, <2>3 DEF On, Field, IsTopic
      <3>2. w.val = <<M.halted, M.blocked>>
        BY <2>1, <3>1 DEF Says
      <3>3. Apply(w).halted = M.halted /\ Apply(w).blocked = M.blocked
        BY <2>2, <3>2 DEF DbType
      <3> QED BY <2>3, <3>3 DEF Tabled
    <2>4. CASE f # "gate"
      BY <2>1, <2>2, <2>4 DEF DbType, On, Field, Tabled, IsTopic
    <2> QED BY <2>3, <2>4
  <1> QED BY <1>1, <1>2 DEF Writes

\* Serving the head keeps what is settled.
LEMMA SettledPop ==
  ASSUME TypeOK, dbq # <<>>, NEW M, NEW f, NEW m, IsTopic(f, m), Settled(dbq, db, M, f, m)
  PROVE  Settled(Tail(dbq), Apply(Head(dbq)), M, f, m)
  <1> DEFINE r == Tail(dbq)
             d == Apply(Head(dbq))
  <1>1. /\ Len(dbq) \in Nat \ {0} /\ Len(r) = Len(dbq) - 1 /\ Head(dbq) = dbq[1]
        /\ \A i \in 1..Len(r) : r[i] = dbq[i + 1]
        /\ Head(dbq) \in Writes
    BY QueueFacts DEF TypeOK, QueueType
  <1>2. DbType
    BY DEF TypeOK
  <1>3. CASE LastSays(dbq, M, f, m)
    <2>1. PICK i \in 1..Len(dbq) :
            /\ On(dbq[i], f, m) /\ Says(dbq[i], M)
            /\ \A j \in 1..Len(dbq) : j > i => ~On(dbq[j], f, m)
      BY <1>3 DEF LastSays
    <2>2. CASE i = 1
      <3>1. Tabled(d, M, f, m)
        BY <1>1, <1>2, <2>1, <2>2, AppliedTopic
      <3>2. NoneOn(r, f, m)
        <4> HIDE DEF r
        <4> QED BY <1>1, <2>1, <2>2 DEF NoneOn
      <3> QED BY <3>1, <3>2 DEF Settled
    <2>3. CASE i # 1
      <3>1. LastSays(r, M, f, m)
        <4> HIDE DEF r
        <4>1. i - 1 \in 1..Len(r) /\ r[i - 1] = dbq[i]
          BY <1>1, <2>1, <2>3
        <4>2. \A j \in 1..Len(r) : j > i - 1 => ~On(r[j], f, m)
          BY <1>1, <2>1
        <4> QED BY <2>1, <4>1, <4>2 DEF LastSays
      <3> QED BY <3>1 DEF Settled
    <2> QED BY <2>2, <2>3
  <1>4. CASE NoneOn(dbq, f, m) /\ Tabled(db, M, f, m)
    <2>1. ~On(Head(dbq), f, m)
      BY <1>1, <1>4 DEF NoneOn
    <2>2. Tabled(d, M, f, m)
      BY <1>1, <1>2, <1>4, <2>1, AppliedTopic
    <2>3. NoneOn(r, f, m)
      <3> HIDE DEF r
      <3> QED BY <1>1, <1>4 DEF NoneOn
    <2> QED BY <2>2, <2>3 DEF Settled
  <1> QED BY <1>3, <1>4 DEF Settled

\* What is settled for one memory is settled for another with the same on the
\* topic.
LEMMA SettledSame ==
  ASSUME NEW q \in Seq(Writes), NEW d, NEW M, NEW N, NEW f, NEW m, IsTopic(f, m),
         Same(M, N, f, m), Settled(q, d, M, f, m)
  PROVE  Settled(q, d, N, f, m)
  <1>1. Tabled(d, M, f, m) => Tabled(d, N, f, m)
    BY DEF Tabled, Same, IsTopic
  <1>2. ASSUME NEW w \in Writes, On(w, f, m), Says(w, M)
        PROVE  Says(w, N)
    <2>1. CASE w \in [by : Procs, kind : Kinds, m : Markets, val : Entries]
      BY <1>2, <2>1 DEF On, Field, Says, Same, Kinds
    <2>2. CASE w \in [by : Procs, kind : {"gate"}, m : {"none"},
                      val : BOOLEAN \X SUBSET Markets]
      BY <1>2, <2>2 DEF On, Field, Says, Same
    <2> QED BY <2>1, <2>2 DEF Writes
  <1>3. LastSays(q, M, f, m) => LastSays(q, N, f, m)
    <2>1. \A i \in 1..Len(q) : q[i] \in Writes
      OBVIOUS
    <2> QED BY <1>2, <2>1 DEF LastSays
  <1> QED BY <1>1, <1>3 DEF Settled

\* A statement says what memory has after the step, and the step changes
\* nothing else of it that has a table.
Explains(w) ==
  /\ Says(w, mem')
  /\ \A f, m : IsTopic(f, m) /\ ~On(w, f, m) => Same(mem, mem', f, m)

\* A step changes nothing in memory that has a table.
SameBooks ==
  /\ mem'.pos = mem.pos /\ mem'.cooling = mem.cooling /\ mem'.excluded = mem.excluded
  /\ mem'.halted = mem.halted /\ mem'.blocked = mem.blocked

\* Such a step leaves every topic as it was.
LEMMA SameBooksSame ==
  ASSUME SameBooks, NEW f, NEW m, IsTopic(f, m)
  PROVE  Same(mem, mem', f, m)
  BY DEF SameBooks, Same, IsTopic

\* A statement on the trade table, which memory has no copy of.
LEMMA TradeExplains ==
  ASSUME NEW p, NEW k \in {"open", "close"}, NEW m, NEW v, SameBooks
  PROVE  Explains(Write(p, k, m, v))
  BY SameBooksSame DEF Explains, Says, Write

\* A statement on a row of the position table.
LEMMA RowExplains ==
  ASSUME NEW p, NEW k \in {"state", "stray", "forget"}, NEW m, NEW v,
         k = "state" => mem'.pos[m] = v, k = "forget" => mem'.pos[m] = NoPos,
         \A o \in Markets : o # m => mem'.pos[o] = mem.pos[o],
         mem'.cooling = mem.cooling, mem'.excluded = mem.excluded,
         mem'.halted = mem.halted, mem'.blocked = mem.blocked
  PROVE  Explains(Write(p, k, m, v))
  <1>1. Says(Write(p, k, m, v), mem')
    BY DEF Says, Write
  <1>2. ASSUME NEW f, NEW o, IsTopic(f, o), ~On(Write(p, k, m, v), f, o)
        PROVE  Same(mem, mem', f, o)
    BY <1>2 DEF On, Field, Write, IsTopic, Same
  <1> QED BY <1>1, <1>2 DEF Explains

\* A statement on the cooldown table.
LEMMA CoolExplains ==
  ASSUME NEW p, NEW k \in {"cool", "uncool"}, NEW m, NEW v,
         mem'.cooling = IF k = "cool" THEN mem.cooling \union {m} ELSE mem.cooling \ {m},
         mem'.pos = mem.pos, mem'.excluded = mem.excluded,
         mem'.halted = mem.halted, mem'.blocked = mem.blocked
  PROVE  Explains(Write(p, k, m, v))
  <1>1. Says(Write(p, k, m, v), mem')
    BY DEF Says, Write
  <1>2. ASSUME NEW f, NEW o, IsTopic(f, o), ~On(Write(p, k, m, v), f, o)
        PROVE  Same(mem, mem', f, o)
    BY <1>2 DEF On, Field, Write, IsTopic, Same
  <1> QED BY <1>1, <1>2 DEF Explains

\* A statement on the table of excluded markets.
LEMMA ExclExplains ==
  ASSUME NEW p, NEW k \in {"excl", "unexcl"}, NEW m, NEW v,
         mem'.excluded = IF k = "excl" THEN mem.excluded \union {m} ELSE mem.excluded \ {m},
         mem'.pos = mem.pos, mem'.cooling = mem.cooling,
         mem'.halted = mem.halted, mem'.blocked = mem.blocked
  PROVE  Explains(Write(p, k, m, v))
  <1>1. Says(Write(p, k, m, v), mem')
    BY DEF Says, Write
  <1>2. ASSUME NEW f, NEW o, IsTopic(f, o), ~On(Write(p, k, m, v), f, o)
        PROVE  Same(mem, mem', f, o)
    BY <1>2 DEF On, Field, Write, IsTopic, Same
  <1> QED BY <1>1, <1>2 DEF Explains

\* A save of the gate.
LEMMA GateExplains ==
  ASSUME NEW p, NEW h, NEW b, mem'.halted = h, mem'.blocked = b,
         mem'.pos = mem.pos, mem'.cooling = mem.cooling, mem'.excluded = mem.excluded
  PROVE  Explains(GateWrite(p, h, b))
  <1>1. Says(GateWrite(p, h, b), mem')
    BY DEF Says, GateWrite
  <1>2. ASSUME NEW f, NEW o, IsTopic(f, o), ~On(GateWrite(p, h, b), f, o)
        PROVE  Same(mem, mem', f, o)
    BY <1>2 DEF On, Field, GateWrite, IsTopic, Same
  <1> QED BY <1>1, <1>2 DEF Explains

\* The one gap: a first entry is in memory before the cooldown's delete is
\* served, and its row is submitted after.
Unsaved(f, m) == LET c == ctl["strategy"] IN
  c.at = "buy_cool" /\ f = "row" /\ m = c.m /\ Known(m)

BooksInv ==
  up /\ ~seen.failed =>
    \A f, m : IsTopic(f, m) => Settled(dbq, db, mem, f, m) \/ Unsaved(f, m)

\* In the gap a statement of the strategy loop waits; and a process that is
\* down has no statement waiting.
WaitInv ==
  /\ up /\ ctl["strategy"].at = "buy_cool" => \E i \in 1..Len(dbq) : dbq[i].by = "strategy"
  /\ ~up => dbq = <<>> /\ ctl["strategy"] = Rest

\* What is settled in the queue and tables a step starts from stays settled for
\* the memory it leaves, unless the step has a statement on it.
LEMMA CarryOver ==
  ASSUME TypeOK, NEW q \in Seq(Writes), NEW d, NEW f, NEW m, IsTopic(f, m), Aside,
         Same(mem, mem', f, m), Settled(q, d, mem, f, m) \/ Unsaved(f, m)
  PROVE  Settled(q, d, mem', f, m) \/ Unsaved(f, m)'
  <1>1. CASE Settled(q, d, mem, f, m)
    BY <1>1, SettledSame
  <1>2. CASE Unsaved(f, m)
    BY <1>2 DEF Unsaved, Aside, Same, Known
  <1> QED BY <1>1, <1>2

\* A step without a statement.
LEMMA QuietBooks ==
  ASSUME TypeOK, BooksInv, WaitInv, UNCHANGED <<dbq, db, up>>, SameBooks,
         seen'.failed = seen.failed, (up /\ Aside) \/ UNCHANGED ctl
  PROVE  BooksInv' /\ WaitInv'
  <1>1. BooksInv'
    <2>1. ASSUME up, ~seen.failed, NEW f, NEW m, IsTopic(f, m)
          PROVE  Settled(dbq, db, mem', f, m) \/ Unsaved(f, m)'
      BY <2>1, SameBooksSame, CarryOver DEF BooksInv, TypeOK, QueueType, Aside
    <2> QED BY <2>1 DEF BooksInv
  <1>2. WaitInv'
    BY DEF WaitInv, Aside
  <1> QED BY <1>1, <1>2

\* A step that submits a statement.
LEMMA SubmitBooks ==
  ASSUME TypeOK, BooksInv, WaitInv, NEW w \in Writes, Submit(w), Explains(w), Aside,
         up' = up, seen'.failed = seen.failed, up
  PROVE  BooksInv' /\ WaitInv'
  <1>1. dbq \in Seq(Writes) /\ dbq' = Append(dbq, w) /\ db' = db
    BY DEF TypeOK, QueueType, Submit
  <1>2. BooksInv'
    <2>1. ASSUME ~seen.failed, NEW f, NEW m, IsTopic(f, m)
          PROVE  Settled(dbq', db', mem', f, m) \/ Unsaved(f, m)'
      <3>1. CASE On(w, f, m)
        BY <1>1, <3>1, SettledPush DEF Explains
      <3>2. CASE ~On(w, f, m)
        <4>1. Settled(dbq, db, mem', f, m) \/ Unsaved(f, m)'
          BY <1>1, <2>1, <3>2, CarryOver DEF BooksInv, Explains
        <4> QED BY <1>1, <3>2, <4>1, SettledPush
      <3> QED BY <3>1, <3>2
    <2> QED BY <2>1 DEF BooksInv
  <1>3. WaitInv'
    <2>1. \A i \in 1..Len(dbq) : i \in 1..Len(dbq') /\ dbq'[i] = dbq[i]
      BY <1>1
    <2> QED BY <2>1 DEF WaitInv, Aside
  <1> QED BY <1>2, <1>3

\* What serving p's statement leaves of the queue.
LEMMA PoppedWait ==
  ASSUME TypeOK, NEW p \in Procs, dbq # <<>>, Head(dbq).by = p, p # "strategy",
         \E i \in 1..Len(dbq) : dbq[i].by = "strategy"
  PROVE  \E i \in 1..Len(Tail(dbq)) : Tail(dbq)[i].by = "strategy"
  <1>1. /\ Len(dbq) \in Nat \ {0} /\ Len(Tail(dbq)) = Len(dbq) - 1 /\ Head(dbq) = dbq[1]
        /\ \A i \in 1..Len(Tail(dbq)) : Tail(dbq)[i] = dbq[i + 1]
    BY DEF TypeOK, QueueType
  <1>2. PICK i \in 1..Len(dbq) : dbq[i].by = "strategy"
    OBVIOUS
  <1>3. i # 1
    BY <1>1, <1>2
  <1>4. i - 1 \in 1..Len(Tail(dbq)) /\ Tail(dbq)[i - 1] = dbq[i]
    BY <1>1, <1>3
  <1> QED BY <1>2, <1>4

\* A step that a served statement lets go on, without another one.
LEMMA ServedBooks ==
  ASSUME TypeOK, BooksInv, WaitInv, NEW p \in Procs, NEW l, Served(p, l), ThenNothing,
         l # "buy_cool", Aside, SameBooks, up' = up, seen'.failed = seen.failed
  PROVE  BooksInv' /\ WaitInv'
  <1>1. /\ dbq # <<>> /\ up /\ Head(dbq).by = p /\ ctl[p].at = l
        /\ dbq' = Tail(dbq) /\ db' = Apply(Head(dbq)) /\ Tail(dbq) \in Seq(Writes)
    BY QueueFacts DEF Served, At, ThenNothing, TypeOK
  <1>2. BooksInv'
    <2>1. ASSUME ~seen.failed, NEW f, NEW m, IsTopic(f, m)
          PROVE  Settled(dbq', db', mem', f, m) \/ Unsaved(f, m)'
      <3>1. Settled(dbq', db', mem, f, m) \/ Unsaved(f, m)
        BY <1>1, <2>1, SettledPop DEF BooksInv
      <3> QED BY <1>1, <2>1, <3>1, SameBooksSame, CarryOver
    <2> QED BY <2>1 DEF BooksInv
  <1>3. WaitInv'
    BY <1>1, PoppedWait DEF WaitInv, Aside
  <1> QED BY <1>2, <1>3

\* The same with another one.
LEMMA ServedSubmitBooks ==
  ASSUME TypeOK, BooksInv, WaitInv, NEW p \in Procs, NEW l, Served(p, l),
         NEW w \in Writes, ThenSubmit(w), Explains(w),
         l # "buy_cool", Aside, up' = up, seen'.failed = seen.failed
  PROVE  BooksInv' /\ WaitInv'
  <1>1. /\ dbq # <<>> /\ up /\ Head(dbq).by = p /\ ctl[p].at = l
        /\ dbq' = Append(Tail(dbq), w) /\ db' = Apply(Head(dbq))
        /\ Tail(dbq) \in Seq(Writes)
    BY QueueFacts DEF Served, At, ThenSubmit, TypeOK
  <1>2. BooksInv'
    <2>1. ASSUME ~seen.failed, NEW f, NEW m, IsTopic(f, m)
          PROVE  Settled(dbq', db', mem', f, m) \/ Unsaved(f, m)'
      <3>1. CASE On(w, f, m)
        BY <1>1, <3>1, SettledPush DEF Explains
      <3>2. CASE ~On(w, f, m)
        <4>1. Settled(Tail(dbq), db', mem, f, m) \/ Unsaved(f, m)
          BY <1>1, <2>1, SettledPop DEF BooksInv
        <4>2. Settled(Tail(dbq), db', mem', f, m) \/ Unsaved(f, m)'
          BY <1>1, <2>1, <3>2, <4>1, CarryOver DEF Explains
        <4> QED BY <1>1, <3>2, <4>2, SettledPush
      <3> QED BY <3>1, <3>2
    <2> QED BY <1>1, <2>1 DEF BooksInv
  <1>3. WaitInv'
    <2>1. \A i \in 1..Len(Tail(dbq)) : i \in 1..Len(dbq') /\ dbq'[i] = Tail(dbq)[i]
      BY <1>1
    <2>2. CASE ctl'["strategy"].at = "buy_cool"
      <3>1. p # "strategy" /\ \E i \in 1..Len(dbq) : dbq[i].by = "strategy"
        BY <1>1, <2>2 DEF WaitInv, Aside
      <3>2. PICK i \in 1..Len(Tail(dbq)) : Tail(dbq)[i].by = "strategy"
        BY <1>1, <3>1, PoppedWait
      <3> QED BY <1>1, <2>1, <3>2 DEF WaitInv
    <2> QED BY <1>1, <2>2 DEF WaitInv
  <1> QED BY <1>2, <1>3

\* A SELL writes what it changes.
LEMMA SellBooks ==
  ASSUME TypeOK, TypeOK', BooksInv, WaitInv, NEW p \in Procs, Sell(p)
  PROVE  BooksInv' /\ WaitInv'
  <1> DEFINE m == ctl[p].m
  <1>1. Aside /\ up /\ up' = up /\ seen'.failed = seen.failed
    BY SellAside DEF Sell, SellBalance, SellPriced, SellTrips, SellTripped,
                     SellAccepted, SellRejected, SellAnswerLost, SellHidden, SendAgain,
                     SellAnswered, SellClosed, SellForgotten, SellCooled, Served, At
  <1>2. m \in Markets
    BY ContextParts DEF Sell, SellBalance, SellPriced, SellTrips, SellTripped,
                        SellAccepted, SellRejected, SellAnswerLost, SellHidden,
                        SendAgain, SellAnswered, SellClosed, SellForgotten, SellCooled,
                        Served, At, OnMarket, TypeOK
  <1>3. CASE SellBalance(p) \/ SellPriced(p) \/ SellAccepted(p) \/ SellRejected(p)
             \/ SellAnswerLost(p) \/ SellHidden(p)
    BY <1>1, <1>3, QuietBooks DEF SellBalance, SellPriced, SellAccepted, SellRejected,
                                  SellAnswerLost, SellHidden, SendAgain, SameBooks
  <1>4. CASE SellTripped(p) \/ SellCooled(p)
    <2>1. ThenNothing /\ SameBooks /\ (Served(p, "sell_trip") \/ Served(p, "sell_cool"))
      BY <1>4 DEF SellTripped, SellCooled, SameBooks
    <2> QED BY <1>1, <2>1, ServedBooks
  <1>5. CASE SellTrips(p)
    <2>1. GateWrite(p, mem.halted, mem'.blocked) \in Writes
      BY GateType DEF TypeOK, MemType
    <2>2. Explains(GateWrite(p, mem.halted, mem'.blocked))
      BY <1>5, GateExplains DEF SellTrips, TypeOK, MemType
    <2> QED BY <1>1, <1>5, <2>1, <2>2, SubmitBooks DEF SellTrips
  <1>6. CASE SellAnswered(p)
    <2>1. Write(p, "close", m, NoPos) \in Writes
      BY <1>2, RestType, WriteType DEF Kinds
    <2>2. Explains(Write(p, "close", m, NoPos))
      BY <1>6, TradeExplains DEF SellAnswered, SameBooks
    <2> QED BY <1>1, <1>6, <2>1, <2>2, SubmitBooks DEF SellAnswered
  <1>7. CASE SellClosed(p)
    <2>1. Write(p, "forget", m, NoPos) \in Writes
      BY <1>2, RestType, WriteType DEF Kinds
    <2>2. Explains(Write(p, "forget", m, NoPos))
      BY <1>2, <1>7, RowExplains DEF SellClosed, Forgotten, TypeOK, MemType
    <2> QED BY <1>1, <1>7, <2>1, <2>2, ServedSubmitBooks DEF SellClosed
  <1>8. CASE SellForgotten(p)
    <2>1. Write(p, "cool", m, NoPos) \in Writes
      BY <1>2, RestType, WriteType DEF Kinds
    <2>2. Explains(Write(p, "cool", m, NoPos))
      BY <1>2, <1>8, CoolExplains DEF SellForgotten, TypeOK, MemType
    <2> QED BY <1>1, <1>8, <2>1, <2>2, ServedSubmitBooks DEF SellForgotten
  <1> QED BY <1>3, <1>4, <1>5, <1>6, <1>7, <1>8 DEF Sell

\* The monitor loop writes what it changes.
LEMMA MonitorBooks ==
  ASSUME TypeOK, TypeOK', BooksInv, WaitInv, Monitor
  PROVE  BooksInv' /\ WaitInv'
  <1>1. /\ Aside /\ up /\ up' = up /\ seen'.failed = seen.failed /\ "monitor" \in Procs
    BY MonitorAside DEF Aside, Monitor, TickBalances, TickResumed, TickForgets, TickForgot,
       WarnFetched, WarnSells, WarnOver, MacroSaves, MacroSaved, TickOver, Served, At, Procs
  <1>2. CASE \/ TickBalances \/ TickResumed \/ WarnFetched \/ WarnOver \/ TickOver
             \/ \E m \in Markets : WarnSells(m)
    BY <1>1, <1>2, QuietBooks DEF TickBalances, TickResumed, WarnFetched, WarnOver, TickOver,
                                  WarnSells, SameBooks, TypeOK, MemType
  <1>3. CASE TickForgot \/ MacroSaved
    <2>1. /\ ThenNothing /\ SameBooks
          /\ Served("monitor", "stale_del") \/ Served("monitor", "macro_save")
      BY <1>3 DEF TickForgot, MacroSaved, SameBooks
    <2> QED BY <1>1, <2>1, ServedBooks
  <1>4. ASSUME NEW m \in Markets, TickForgets(m)
        PROVE  BooksInv' /\ WaitInv'
    <2>1. Write("monitor", "forget", m, NoPos) \in Writes
      BY <1>1, RestType, WriteType DEF Kinds
    <2>2. Explains(Write("monitor", "forget", m, NoPos))
      BY <1>4, RowExplains DEF TickForgets, Forgotten, TypeOK, MemType
    <2> QED BY <1>1, <1>4, <2>1, <2>2, SubmitBooks DEF TickForgets
  <1>5. ASSUME NEW trips \in BOOLEAN, MacroSaves(trips)
        PROVE  BooksInv' /\ WaitInv'
    <2>1. GateWrite("monitor", mem'.halted, mem.blocked) \in Writes
      BY <1>1, GateType DEF TypeOK, MemType
    <2>2. Explains(GateWrite("monitor", mem'.halted, mem.blocked))
      BY <1>5, GateExplains DEF MacroSaves, TypeOK, MemType
    <2> QED BY <1>1, <1>5, <2>1, <2>2, SubmitBooks DEF MacroSaves
  <1> QED BY <1>2, <1>3, <1>4, <1>5 DEF Monitor

\* The commands write what they change.
LEMMA BotBooks ==
  ASSUME TypeOK, TypeOK', BooksInv, WaitInv, Bot
  PROVE  BooksInv' /\ WaitInv'
  <1>1. /\ Aside /\ up /\ up' = up /\ seen'.failed = seen.failed /\ "bot" \in Procs
    BY BotAside DEF Aside, Bot, Halt, Resume, CommandSaved, ResumeMarket, Block,
                    Unblock, SellMarket, SetPyramidState, SyncBalances, SyncResumed,
                    SyncRemoves, SyncRemoved, SyncTurns, SyncAdds, SyncAdded, SyncOver,
                    Panic, PanicHalted, PanicSells, PanicTakes, PanicTried, SendAgain,
                    PanicOver, Command, Served, At, Procs, TypeOK, SeenType
  <1>2. CASE \/ SyncBalances \/ SyncResumed \/ SyncTurns \/ SyncOver \/ PanicOver
             \/ PanicSells \/ \E m \in Markets : SellMarket(m) \/ PanicTakes(m)
    BY <1>1, <1>2, QuietBooks DEF SyncBalances, SyncResumed, SyncTurns, SyncOver,
                                  PanicOver, SellMarket, PanicSells, PanicTakes,
                                  PanicTried, SendAgain, SameBooks
  <1>3. CASE CommandSaved \/ SyncRemoved \/ SyncAdded \/ PanicHalted
    <2>1. /\ ThenNothing /\ SameBooks
          /\ \/ Served("bot", "cmd") \/ Served("bot", "sync_deleted")
             \/ Served("bot", "sync_added") \/ Served("bot", "panic")
      BY <1>3 DEF CommandSaved, SyncRemoved, SyncAdded, PanicHalted, SameBooks
    <2> QED BY <1>1, <2>1, ServedBooks
  <1>4. CASE Halt \/ Resume \/ Panic \/ \E m \in Markets : ResumeMarket(m)
    <2>1. Submit(GateWrite("bot", mem'.halted, mem'.blocked))
      BY <1>4 DEF Halt, Resume, Panic, ResumeMarket, Save, TypeOK, MemType
    <2>2. GateWrite("bot", mem'.halted, mem'.blocked) \in Writes
      BY <1>1, GateType DEF TypeOK, MemType
    <2>3. Explains(GateWrite("bot", mem'.halted, mem'.blocked))
      BY <1>4, GateExplains DEF Halt, Resume, Panic, ResumeMarket, TypeOK, MemType
    <2> QED BY <1>1, <2>1, <2>2, <2>3, SubmitBooks
  <1>5. ASSUME NEW m \in Markets, Block(m) \/ Unblock(m)
        PROVE  BooksInv' /\ WaitInv'
    <2>1. PICK k \in {"excl", "unexcl"} :
            /\ Submit(Write("bot", k, m, NoPos))
            /\ mem' = [mem EXCEPT !.excluded = IF k = "excl" THEN @ \union {m} ELSE @ \ {m}]
      BY <1>5 DEF Block, Unblock, Save
    <2>2. Write("bot", k, m, NoPos) \in Writes
      BY <1>1, RestType, WriteType DEF Kinds
    <2>3. Explains(Write("bot", k, m, NoPos))
      BY <2>1, ExclExplains DEF TypeOK, MemType
    <2> QED BY <1>1, <2>1, <2>2, <2>3, SubmitBooks
  <1>6. ASSUME NEW m \in Markets, NEW k \in {"state", "forget"}, NEW v \in Entries,
               Submit(Write("bot", k, m, v)), mem' = [mem EXCEPT !.pos[m] = v],
               k = "forget" => v = NoPos
        PROVE  BooksInv' /\ WaitInv'
    <2>1. Write("bot", k, m, v) \in Writes
      BY <1>1, WriteType DEF Kinds
    <2>2. Explains(Write("bot", k, m, v))
      BY <1>6, RowExplains DEF TypeOK, MemType
    <2> QED BY <1>1, <1>6, <2>1, <2>2, SubmitBooks
  <1>7. ASSUME NEW m \in Markets, NEW adds \in 0..MaxAdds, SetPyramidState(m, adds)
        PROVE  BooksInv' /\ WaitInv'
    <2>1. /\ mem' = [mem EXCEPT !.pos[m] = Fresh(adds)] /\ mem'.pos[m] = Fresh(adds)
          /\ Submit(Write("bot", "state", m, mem'.pos[m]))
      BY <1>7 DEF SetPyramidState, Save, TypeOK, MemType
    <2>2. mem'.pos[m] \in Entries
      BY DEF TypeOK, MemType
    <2> QED BY <1>6, <2>1, <2>2
  <1>8. ASSUME NEW m \in Markets, SyncAdds(m)
        PROVE  BooksInv' /\ WaitInv'
    <2>1. CASE Known(m)
      BY <1>1, <1>8, <2>1, QuietBooks DEF SyncAdds, SameBooks
    <2>2. CASE ~Known(m)
      <3>1. /\ mem' = [mem EXCEPT !.pos[m] = Fresh(0)] /\ mem'.pos[m] = Fresh(0)
            /\ Submit(Write("bot", "state", m, mem'.pos[m]))
        BY <1>8, <2>2 DEF SyncAdds, TypeOK, MemType
      <3>2. mem'.pos[m] \in Entries
        BY DEF TypeOK, MemType
      <3> QED BY <1>6, <3>1, <3>2
    <2> QED BY <2>1, <2>2
  <1>9. ASSUME NEW m \in Markets, SyncRemoves(m)
        PROVE  BooksInv' /\ WaitInv'
    BY <1>6, <1>9, RestType DEF SyncRemoves, Forgotten
  <1> QED BY <1>2, <1>3, <1>4, <1>5, <1>7, <1>8, <1>9 DEF Bot

\* A partial sale has in hand what was an entry without a partial take; while
\* it is still the market's entry, it is what memory has.
HandInv == LET c == ctl["strategy"] IN
  c.at \in {"part", "part_send", "part_sent"} =>
    ~c.val.taken /\ c.val.live /\ (Owned(c.m) => mem.pos[c.m] = c.val)

\* The other processes leave the entries alone, remove one, or put a new dict in
\* its place, which begins a new count of partial takes.
Entered == \E m \in Markets, adds \in Nat :
  /\ mem'.pos = [mem.pos EXCEPT ![m] = Fresh(adds)]
  /\ seen'.takes = [seen.takes EXCEPT ![m] = 0]
Removed == \E m \in Markets :
  mem'.pos = [mem.pos EXCEPT ![m] = NoPos] /\ seen'.takes = seen.takes
EntriesStep ==
  (mem'.pos = mem.pos /\ seen'.takes = seen.takes) \/ Removed \/ Entered

\* The name of a new dict is not that of the one in hand.
LEMMA FreshName ==
  ASSUME NEW adds
  PROVE  Fresh(adds).id # ctl["strategy"].val.id /\ Fresh(adds).live
  BY DEF Fresh

\* What keeps the hand.
LEMMA HandKept ==
  ASSUME TypeOK, HandInv,
         \/ ctl'["strategy"] = ctl["strategy"] /\ EntriesStep
         \/ ctl'["strategy"].at \notin {"part", "part_send", "part_sent"}
  PROVE  HandInv'
  <1>1. CASE ctl'["strategy"].at \notin {"part", "part_send", "part_sent"}
    BY <1>1 DEF HandInv
  <1>2. CASE /\ ctl'["strategy"] = ctl["strategy"] /\ EntriesStep
             /\ ctl["strategy"].at \in {"part", "part_send", "part_sent"}
    <2> DEFINE m == ctl["strategy"].m
    <2>1. m \in Markets /\ mem.pos \in [Markets -> Entries]
      BY <1>2, ContextParts DEF TypeOK, Procs, OnMarket, MemType
    <2>2. \/ mem'.pos[m] = mem.pos[m] \/ ~mem'.pos[m].live
          \/ mem'.pos[m].id # ctl["strategy"].val.id
      <3>1. CASE Removed
        <4>1. PICK o \in Markets : mem'.pos = [mem.pos EXCEPT ![o] = NoPos]
          BY <3>1 DEF Removed
        <4>2. mem'.pos[m] \in {mem.pos[m], NoPos}
          BY <2>1, <4>1
        <4> QED BY <4>2 DEF NoPos
      <3>2. CASE Entered
        <4>1. PICK o \in Markets, adds \in Nat : mem'.pos = [mem.pos EXCEPT ![o] = Fresh(adds)]
          BY <3>2 DEF Entered
        <4>2. mem'.pos[m] \in {mem.pos[m], Fresh(adds)}
          BY <2>1, <4>1
        <4> QED BY <4>2, FreshName
      <3> QED BY <1>2, <3>1, <3>2 DEF EntriesStep
    <2> QED BY <1>2, <2>2 DEF HandInv, Owned, Known
  <1> QED BY <1>1, <1>2

\* A SELL removes at most its market's entry.
LEMMA SellEntries ==
  ASSUME TypeOK, NEW p \in Procs, Sell(p)
  PROVE  EntriesStep
  <1>1. CASE SellClosed(p)
    <2>1. ctl[p].m \in Markets
      BY <1>1, ContextParts DEF SellClosed, Served, At, OnMarket, TypeOK
    <2> QED BY <1>1, <2>1 DEF SellClosed, Forgotten, EntriesStep, Removed, TypeOK, MemType
  <1>2. CASE ~SellClosed(p)
    BY <1>2 DEF Sell, SellBalance, SellPriced, SellTrips, SellTripped, SellAccepted,
                SellRejected, SellAnswerLost, SellHidden, SendAgain, SellAnswered,
                SellForgotten, SellCooled, EntriesStep, TypeOK, MemType
  <1> QED BY <1>1, <1>2

\* The monitor loop removes an entry at most.
LEMMA MonitorEntries ==
  ASSUME TypeOK, Monitor
  PROVE  EntriesStep
  <1>1. ASSUME NEW m \in Markets, TickForgets(m)
        PROVE  EntriesStep
    BY <1>1 DEF TickForgets, Forgotten, EntriesStep, Removed, TypeOK, MemType
  <1>2. CASE ~ \E m \in Markets : TickForgets(m)
    BY <1>2 DEF Monitor, TickBalances, TickResumed, TickForgot, WarnFetched, WarnSells,
       WarnOver, MacroSaves, MacroSaved, TickOver, EntriesStep, TypeOK, MemType
  <1> QED BY <1>1, <1>2

\* The commands remove an entry or register one.
LEMMA BotEntries ==
  ASSUME TypeOK, Bot
  PROVE  EntriesStep
  <1>1. ASSUME NEW m \in Markets, NEW adds \in 0..MaxAdds, SetPyramidState(m, adds)
        PROVE  EntriesStep
    <2>1. adds \in Nat
      BY TraderAssumption DEF TraderAssumption
    <2> QED BY <1>1, <2>1 DEF SetPyramidState, EntriesStep, Entered, TypeOK, MemType, SeenType
  <1>2. ASSUME NEW m \in Markets, SyncRemoves(m)
        PROVE  EntriesStep
    BY <1>2 DEF SyncRemoves, Forgotten, EntriesStep, Removed, TypeOK, MemType
  <1>3. ASSUME NEW m \in Markets, SyncAdds(m)
        PROVE  EntriesStep
    BY <1>3 DEF SyncAdds, EntriesStep, Entered, TypeOK, MemType, SeenType
  <1>4. CASE \/ Halt \/ Resume \/ CommandSaved \/ SyncBalances \/ SyncResumed \/ SyncTurns
             \/ SyncRemoved \/ SyncAdded \/ SyncOver \/ Panic \/ PanicHalted \/ PanicOver
             \/ PanicSells
             \/ \E m \in Markets : ResumeMarket(m) \/ Block(m) \/ Unblock(m)
                                   \/ SellMarket(m) \/ PanicTakes(m)
    BY <1>4 DEF Halt, Resume, CommandSaved, SyncBalances, SyncResumed, SyncTurns,
                SyncRemoved, SyncAdded, SyncOver, Panic, PanicHalted, PanicOver,
                ResumeMarket, Block, Unblock, SellMarket, PanicSells, PanicTakes,
                PanicTried, SendAgain, EntriesStep, TypeOK, MemType, SeenType
  <1> QED BY <1>1, <1>2, <1>3, <1>4 DEF Bot

\* What the strategy loop has in hand stays what memory has.
LEMMA HandStep ==
  ASSUME TypeOK, TypeOK', WaitInv, HandInv, [Next]_vars
  PROVE  HandInv'
  <1> DEFINE c == ctl["strategy"]
  <1>1. c \in Contexts /\ "strategy" \in Procs
    BY DEF TypeOK, CtlType, Procs
  <1>2. CASE UNCHANGED vars
    BY <1>2, HandKept DEF vars, EntriesStep
  <1>3. CASE Strategy
    <2>1. ASSUME NEW m \in Markets, NEW then \in {"hold", "buy"}, DecidePartial(m, then)
          PROVE  HandInv'
      BY <1>1, <2>1 DEF DecidePartial, HandInv, Known, Owned, TypeOK, CtlType
    <2>2. CASE PartialSized \/ PartialAccepted \/ PartialHidden
      <3>1. c.at \in {"part", "part_send", "part_sent"} /\ UNCHANGED mem
        BY <2>2 DEF PartialSized, PartialAccepted, PartialHidden, At
      <3>2. /\ ctl'["strategy"].m = c.m /\ ctl'["strategy"].val = c.val
        BY <1>1, <2>2 DEF PartialSized, PartialAccepted, PartialHidden, SendAgain, Goto,
                          TypeOK, CtlType, Contexts
      <3> HIDE DEF c
      <3> QED BY <3>1, <3>2 DEF HandInv, Known, Owned, c
    <2>3. CASE \/ \E m \in Markets : DecideBuy(m) \/ DecideSell(m)
               \/ BuyGivenUp \/ BuyAccepted \/ BuyAnswerLost \/ BuyHidden \/ BuyAnswered
               \/ BuyRecorded \/ BuyUncooled \/ BuySaved \/ PartialSkipped
               \/ PartialRejected \/ PartialAnswerLost \/ PartialAnswered \/ PartialSaved
      <3>1. ASSUME NEW m, DecideBuy(m) \/ DecideSell(m)
            PROVE  ctl'["strategy"].at \notin {"part", "part_send", "part_sent"}
        BY <1>1, <3>1 DEF DecideBuy, DecideSell, Begin, Rest, TypeOK, CtlType
      <3>2. CASE \/ BuyGivenUp \/ BuyAccepted \/ BuyAnswerLost \/ BuyHidden \/ BuyAnswered
                 \/ BuyRecorded \/ BuyUncooled \/ BuySaved \/ PartialAnswered
        <4>1. \/ Goto("strategy", "buy_sent") \/ Goto("strategy", "buy_rec")
              \/ Goto("strategy", "buy_cool") \/ Goto("strategy", "buy_save")
              \/ Goto("strategy", "part_save") \/ ctl' = [ctl EXCEPT !["strategy"] = Rest]
              \/ SendAgain("strategy", "buy")
          BY <3>2 DEF BuyGivenUp, BuyAccepted, BuyAnswerLost, BuyHidden,
                      BuyAnswered, BuyRecorded, BuyUncooled, BuySaved, PartialAnswered
        <4>2. \A l : Goto("strategy", l) \/ SendAgain("strategy", l) =>
                       ctl'["strategy"].at = l
          BY <1>1 DEF Goto, SendAgain, TypeOK, CtlType, Contexts
        <4>3. ctl'["strategy"].at \notin {"part", "part_send", "part_sent"}
          BY <1>1, <4>1, <4>2 DEF Rest, TypeOK, CtlType
        <4> QED BY <4>3, HandKept
      <3>3. CASE PartialSkipped \/ PartialRejected \/ PartialAnswerLost \/ PartialSaved
        <4>1. PartialOver
          BY <3>3 DEF PartialSkipped, PartialRejected, PartialAnswerLost, PartialSaved
        <4>2. ctl'["strategy"].at \notin {"part", "part_send", "part_sent"}
          BY <1>1, <4>1 DEF PartialOver, AfterPartial, Rest, TypeOK, CtlType
        <4> QED BY <4>2, HandKept
      <3> QED BY <2>3, <3>1, <3>2, <3>3, HandKept
    <2> QED BY <1>3, <2>1, <2>2, <2>3 DEF Strategy
  <1>4. ASSUME NEW p \in Procs, Sell(p)
        PROVE  HandInv'
    BY <1>4, SellEntries, SellAside, HandKept
  <1>5. ASSUME NEW p \in Procs, WriteFails(p)
        PROVE  HandInv'
    BY <1>5, WriteFailsAside, HandKept DEF EntriesStep
  <1>6. CASE Monitor
    BY <1>6, MonitorEntries, MonitorAside, HandKept
  <1>7. CASE Bot
    BY <1>7, BotEntries, BotAside, HandKept
  <1>8. CASE Outside
    <2>1. CASE Crash
      BY <2>1, HandKept DEF Crash, Rest, Procs
    <2>2. CASE Restart
      <3>1. ctl'["strategy"] = Rest
        BY <2>2 DEF Restart, WaitInv
      <3> QED BY <3>1, HandKept DEF Rest
    <2>3. CASE \E m \in Markets :
                 \/ Fill(m) \/ SaleFills(m) \/ Delist(m)
                 \/ WatchCancels(m) \/ WatchEnds(m) \/ CoolDown(m)
      <3>1. EntriesStep /\ UNCHANGED ctl
        BY <2>3 DEF Fill, SaleFills, Delist, WatchCancels, WatchEnds, CoolDown, EntriesStep,
                    TypeOK, MemType
      <3> QED BY <3>1, HandKept
    <2> QED BY <1>8, <2>1, <2>2, <2>3 DEF Outside
  <1> QED BY <1>2, <1>3, <1>4, <1>5, <1>6, <1>7, <1>8 DEF Next

\* Apart from a first entry, the strategy loop stays out of the gap.
LEMMA StrategyAside ==
  ASSUME TypeOK, Strategy, ~BuyRecorded, ~BuyUncooled
  PROVE  Aside
  <1> DEFINE c == ctl["strategy"]
  <1>1. c \in Contexts /\ "strategy" \in Procs
    BY DEF TypeOK, CtlType, Procs
  <1>2. c.at # "buy_cool"
    BY DEF Strategy, DecideBuy, DecideSell, DecidePartial, BuyGivenUp, BuyAccepted,
           BuyAnswerLost, BuyHidden, SendAgain, BuyAnswered, BuySaved, PartialSkipped,
           PartialSized, PartialAccepted, PartialAnswerLost, PartialRejected,
           PartialHidden, PartialAnswered, PartialSaved, Served, At
  <1>3. ASSUME NEW m \in Markets, DecideBuy(m) \/ DecideSell(m)
        PROVE  Aside
    BY <1>1, <1>2, <1>3 DEF DecideBuy, DecideSell, Begin, Rest, Aside, TypeOK, CtlType
  <1>4. ASSUME NEW m \in Markets, NEW then \in {"hold", "buy"}, DecidePartial(m, then)
        PROVE  Aside
    BY <1>1, <1>2, <1>4 DEF DecidePartial, Rest, Aside, TypeOK, CtlType
  <1>5. CASE BuyAccepted \/ BuyHidden \/ BuyAnswered \/ PartialAccepted
             \/ PartialHidden \/ PartialAnswered
    <2>1. \/ Goto("strategy", "buy_sent") \/ Goto("strategy", "buy_rec")
          \/ Goto("strategy", "part_sent") \/ Goto("strategy", "part_save")
          \/ SendAgain("strategy", "buy") \/ SendAgain("strategy", "part_send")
      BY <1>5 DEF BuyAccepted, BuyHidden, BuyAnswered, PartialAccepted, PartialHidden,
                  PartialAnswered
    <2> QED BY <1>1, <1>2, <2>1 DEF Goto, SendAgain, Aside, TypeOK, CtlType, Contexts
  <1>6. CASE BuyGivenUp \/ BuyAnswerLost \/ BuySaved
    <2>1. ctl' = [ctl EXCEPT !["strategy"] = Rest]
      BY <1>6 DEF BuyGivenUp, BuyAnswerLost, BuySaved
    <2> QED BY <1>1, <1>2, <2>1 DEF Rest, Aside, TypeOK, CtlType
  <1>7. CASE PartialSkipped \/ PartialRejected \/ PartialAnswerLost \/ PartialSaved
    <2>1. PartialOver
      BY <1>7 DEF PartialSkipped, PartialRejected, PartialAnswerLost, PartialSaved
    <2> QED BY <1>1, <1>2, <2>1 DEF PartialOver, AfterPartial, Rest, Aside, TypeOK, CtlType
  <1>8. CASE PartialSized
    BY <1>1, <1>2, <1>8 DEF PartialSized, Aside, TypeOK, CtlType, Contexts
  <1> QED BY <1>3, <1>4, <1>5, <1>6, <1>7, <1>8 DEF Strategy

\* Outside the gap the strategy loop writes what it changes; a partial sale
\* because the dict it holds is the entry, or else the row is a stray one.
LEMMA StrategyBooks ==
  ASSUME TypeOK, TypeOK', BooksInv, WaitInv, HandInv, Strategy, ~BuyRecorded, ~BuyUncooled
  PROVE  BooksInv' /\ WaitInv'
  <1> DEFINE c == ctl["strategy"]
             m == c.m
  <1>1. c \in Contexts /\ "strategy" \in Procs
    BY DEF TypeOK, CtlType, Procs
  <1>2. Aside /\ up /\ up' = up /\ seen'.failed = seen.failed
    BY StrategyAside DEF Strategy, DecideBuy, DecideSell, DecidePartial, BuyGivenUp,
                         BuyAccepted, BuyAnswerLost, BuyHidden, SendAgain, BuyAnswered,
                         BuySaved, PartialSkipped, PartialSized, PartialAccepted,
                         PartialAnswerLost, PartialRejected, PartialHidden,
                         PartialAnswered, PartialSaved, Served, At, TypeOK, SeenType
  <1>3. CASE \/ \E o \in Markets : DecideBuy(o) \/ DecideSell(o)
             \/ \E o \in Markets, then \in {"hold", "buy"} : DecidePartial(o, then)
             \/ BuyGivenUp \/ BuyAccepted \/ BuyAnswerLost \/ BuyHidden
             \/ PartialSkipped \/ PartialSized \/ PartialAccepted \/ PartialRejected
             \/ PartialAnswerLost \/ PartialHidden
    <2>1. UNCHANGED <<mem, dbq, db>>
      BY <1>3 DEF DecideBuy, DecideSell, DecidePartial, BuyGivenUp, BuyAccepted,
                  BuyAnswerLost, BuyHidden, SendAgain, PartialSkipped, PartialSized,
                  PartialAccepted, PartialAnswerLost, PartialRejected, PartialHidden
    <2> QED BY <1>2, <2>1, QuietBooks DEF SameBooks
  <1>4. CASE BuySaved \/ PartialSaved
    <2>1. /\ ThenNothing /\ SameBooks
          /\ Served("strategy", "buy_save") \/ Served("strategy", "part_save")
      BY <1>4 DEF BuySaved, PartialSaved, SameBooks, TypeOK, MemType
    <2> QED BY <1>1, <1>2, <2>1, ServedBooks
  <1>5. CASE BuyAnswered
    <2>1. m \in Markets
      BY <1>1, <1>5, ContextParts DEF BuyAnswered, At, OnMarket, TypeOK
    <2>2. Write("strategy", "open", m, NoPos) \in Writes
      BY <1>1, <2>1, RestType, WriteType DEF Kinds
    <2>3. Explains(Write("strategy", "open", m, NoPos))
      BY <1>5, TradeExplains DEF BuyAnswered, SameBooks
    <2> QED BY <1>2, <1>5, <2>2, <2>3, SubmitBooks DEF BuyAnswered
  <1>6. CASE PartialAnswered
    <2> DEFINE k   == IF Owned(m) THEN "state" ELSE "stray"
               val == [c.val EXCEPT !.taken = TRUE]
    <2>1. m \in Markets /\ c.val \in Entries /\ c.at = "part_sent"
      BY <1>1, <1>6, ContextParts DEF PartialAnswered, At, OnMarket, TypeOK
    <2>2. Write("strategy", k, m, val) \in Writes
      <3>1. val \in Entries
        BY <2>1 DEF Entries
      <3> QED BY <1>1, <2>1, <3>1, WriteType DEF Kinds
    <2>3. Explains(Write("strategy", k, m, val))
      <3>1. CASE Owned(m)
        <4>1. mem.pos[m] = c.val
          BY <2>1, <3>1 DEF HandInv
        <4>2. mem' = [mem EXCEPT !.pos[m].taken = TRUE]
          BY <1>6, <3>1 DEF PartialAnswered
        <4>3. mem'.pos = [mem.pos EXCEPT ![m] = [mem.pos[m] EXCEPT !.taken = TRUE]]
          BY <2>1, <4>2 DEF TypeOK, MemType
        <4>4. mem'.pos[m] = val /\ \A o \in Markets : o # m => mem'.pos[o] = mem.pos[o]
          BY <2>1, <4>1, <4>3 DEF TypeOK, MemType
        <4>5. /\ mem'.cooling = mem.cooling /\ mem'.excluded = mem.excluded
              /\ mem'.halted = mem.halted /\ mem'.blocked = mem.blocked
          BY <4>2 DEF TypeOK, MemType
        <4> HIDE DEF val
        <4> QED BY <3>1, <4>4, <4>5, RowExplains
      <3>2. CASE ~Owned(m)
        <4>1. UNCHANGED mem
          BY <1>6, <3>2 DEF PartialAnswered
        <4> HIDE DEF val
        <4> QED BY <3>2, <4>1, RowExplains
      <3> QED BY <3>1, <3>2
    <2>4. Submit(Write("strategy", k, m, val))
      BY <1>6 DEF PartialAnswered
    <2> QED BY <1>2, <2>2, <2>3, <2>4, SubmitBooks
  <1> QED BY <1>3, <1>4, <1>5, <1>6 DEF Strategy

\* The gap: a first entry opens it, or an add is written at once.
LEMMA RecordedBooks ==
  ASSUME TypeOK, TypeOK', BooksInv, WaitInv, BuyRecorded
  PROVE  BooksInv' /\ WaitInv'
  <1> DEFINE c == ctl["strategy"]
             m == c.m
  <1>1. c \in Contexts /\ "strategy" \in Procs /\ Served("strategy", "buy_rec")
    BY DEF BuyRecorded, TypeOK, CtlType, Procs
  <1>2. /\ up /\ up' = up /\ seen'.failed = seen.failed /\ c.at = "buy_rec" /\ m \in Markets
        /\ dbq # <<>> /\ db' = Apply(Head(dbq)) /\ Tail(dbq) \in Seq(Writes)
    BY <1>1, ContextParts, QueueFacts DEF BuyRecorded, Served, At, OnMarket, TypeOK, SeenType
  <1>3. mem'.pos[m] \in Entries
    BY <1>2 DEF TypeOK, MemType
  <1>4. CASE Known(m)
    <2> DEFINE w == Write("strategy", "state", m, mem'.pos[m])
    <2>1. /\ mem' = [mem EXCEPT !.held = @ \union {m}, !.pos[m].adds = @ + 1]
          /\ ThenSubmit(w) /\ Goto("strategy", "buy_save")
      BY <1>4 DEF BuyRecorded
    <2>2. w \in Writes
      BY <1>1, <1>2, <1>3, WriteType DEF Kinds
    <2>3. Explains(w)
      <3>1. mem'.pos = [mem.pos EXCEPT ![m] = [mem.pos[m] EXCEPT !.adds = @ + 1]]
        BY <1>2, <2>1 DEF TypeOK, MemType
      <3>2. \A o \in Markets : o # m => mem'.pos[o] = mem.pos[o]
        BY <3>1 DEF TypeOK, MemType
      <3>3. /\ mem'.cooling = mem.cooling /\ mem'.excluded = mem.excluded
            /\ mem'.halted = mem.halted /\ mem'.blocked = mem.blocked
        BY <2>1 DEF TypeOK, MemType
      <3> QED BY <3>2, <3>3, RowExplains
    <2>4. Aside
      BY <1>1, <1>2, <2>1 DEF Goto, Aside, TypeOK, CtlType, Contexts
    <2> QED BY <1>1, <1>2, <2>1, <2>2, <2>3, <2>4, ServedSubmitBooks
  <1>5. CASE ~Known(m)
    <2> DEFINE w == Write("strategy", "uncool", m, NoPos)
    <2>1. /\ mem' = [mem EXCEPT !.held = @ \union {m}, !.pos[m] = Fresh(0),
                                !.cooling = @ \ {m}]
          /\ ThenSubmit(w) /\ Goto("strategy", "buy_cool")
      BY <1>5 DEF BuyRecorded
    <2>2. w \in Writes /\ w.by = "strategy" /\ dbq' = Append(Tail(dbq), w)
      BY <1>1, <1>2, <2>1, WriteType, RestType DEF Kinds, Write, ThenSubmit
    <2>3. ctl'["strategy"].at = "buy_cool" /\ ctl'["strategy"].m = m
      BY <1>1, <2>1 DEF Goto, TypeOK, CtlType, Contexts
    <2>4. /\ mem'.pos[m].live /\ \A o \in Markets : o # m => mem'.pos[o] = mem.pos[o]
          /\ mem'.cooling = mem.cooling \ {m} /\ mem'.excluded = mem.excluded
          /\ mem'.halted = mem.halted /\ mem'.blocked = mem.blocked
      BY <1>2, <2>1, FreshName DEF TypeOK, MemType
    <2>5. ASSUME ~seen.failed, NEW f, NEW o, IsTopic(f, o)
          PROVE  Settled(dbq', db', mem', f, o) \/ Unsaved(f, o)'
      <3>1. CASE f = "row" /\ o = m
        BY <2>3, <2>4, <3>1 DEF Unsaved, Known
      <3>2. CASE f = "cool" /\ o = m
        <4>1. On(w, f, o) /\ Says(w, mem')
          BY <2>4, <3>2 DEF On, Field, Says, Write
        <4> HIDE DEF w
        <4> QED BY <1>2, <2>2, <4>1, SettledPush
      <3>3. CASE o # m \/ f \notin {"row", "cool"}
        <4>1. Settled(Tail(dbq), db', mem, f, o)
          BY <1>2, <2>5, SettledPop DEF BooksInv, Unsaved
        <4>2. Same(mem, mem', f, o) /\ ~On(w, f, o)
          BY <2>4, <2>5, <3>3 DEF Same, On, Field, Write, IsTopic
        <4>3. Settled(Tail(dbq), db', mem', f, o)
          BY <1>2, <2>5, <4>1, <4>2, SettledSame
        <4> HIDE DEF w
        <4> QED BY <1>2, <2>2, <4>2, <4>3, SettledPush
      <3> QED BY <3>1, <3>2, <3>3
    <2>6. WaitInv'
      <3>1. Len(dbq') \in 1..Len(dbq') /\ dbq'[Len(dbq')] = w
        <4> HIDE DEF w
        <4> QED BY <1>2, <2>2
      <3> QED BY <1>2, <2>2, <3>1 DEF WaitInv
    <2> QED BY <1>2, <2>5, <2>6 DEF BooksInv
  <1> QED BY <1>4, <1>5

\* The gap closes: the entry is written as it is now, or it is gone.
LEMMA UncooledBooks ==
  ASSUME TypeOK, TypeOK', BooksInv, WaitInv, BuyUncooled
  PROVE  BooksInv' /\ WaitInv'
  <1> DEFINE c == ctl["strategy"]
             m == c.m
             w == Write("strategy", "state", m, mem.pos[m])
  <1>1. c \in Contexts /\ "strategy" \in Procs /\ Served("strategy", "buy_cool")
    BY DEF BuyUncooled, TypeOK, CtlType, Procs
  <1>2. /\ up /\ up' = up /\ seen' = seen /\ mem' = mem /\ c.at = "buy_cool"
        /\ m \in Markets /\ dbq # <<>> /\ db' = Apply(Head(dbq))
        /\ Tail(dbq) \in Seq(Writes)
    BY <1>1, ContextParts, QueueFacts DEF BuyUncooled, Served, At, OnMarket, TypeOK
  <1>3. \/ Known(m) /\ dbq' = Append(Tail(dbq), w) /\ Goto("strategy", "buy_save")
        \/ ~Known(m) /\ dbq' = Tail(dbq) /\ ctl' = [ctl EXCEPT !["strategy"] = Rest]
    BY DEF BuyUncooled, ThenSubmit, ThenNothing
  <1>4. ctl'["strategy"].at # "buy_cool"
    BY <1>1, <1>3 DEF Goto, Rest, TypeOK, CtlType, Contexts
  <1>5. w \in Writes /\ Says(w, mem)
    BY <1>1, <1>2, WriteType DEF Kinds, Says, Write, TypeOK, MemType
  <1>6. ASSUME ~seen.failed, NEW f, NEW o, IsTopic(f, o)
        PROVE  Settled(dbq', db', mem, f, o)
    <2>1. CASE Known(m) /\ f = "row" /\ o = m
      <3>1. On(w, f, o)
        BY <2>1 DEF On, Field, Write
      <3> HIDE DEF w
      <3> QED BY <1>2, <1>3, <1>5, <2>1, <3>1, SettledPush
    <2>2. CASE ~(Known(m) /\ f = "row" /\ o = m)
      <3>1. Settled(Tail(dbq), db', mem, f, o)
        BY <1>2, <1>6, <2>2, SettledPop DEF BooksInv, Unsaved
      <3>2. Known(m) => ~On(w, f, o)
        BY <2>2 DEF On, Field, Write
      <3> HIDE DEF w
      <3> QED BY <1>2, <1>3, <1>5, <3>1, <3>2, SettledPush
    <2> QED BY <2>1, <2>2
  <1> QED BY <1>2, <1>4, <1>6 DEF BooksInv, WaitInv

\* A failed statement ends the promise, but never in the gap.
LEMMA WriteFailsBooks ==
  ASSUME TypeOK, BooksInv, WaitInv, NEW p \in Procs, WriteFails(p)
  PROVE  BooksInv' /\ WaitInv'
  <1>1. /\ up /\ up' = up /\ dbq # <<>> /\ Head(dbq).by = p /\ dbq' = Tail(dbq)
        /\ seen'.failed
    BY DEF WriteFails, ThenNothing, TypeOK, SeenType
  <1>2. WaitInv'
    <2>1. CASE ctl'["strategy"].at = "buy_cool"
      <3>1. p # "strategy" /\ ctl'["strategy"] = ctl["strategy"]
        BY <2>1, WriteFailsAside
      <3> QED BY <1>1, <2>1, <3>1, PoppedWait DEF WaitInv
    <2> QED BY <1>1, <2>1 DEF WaitInv
  <1> QED BY <1>1, <1>2 DEF BooksInv

\* With no statement waiting, the tables have what memory has after the cooldown
\* of a market ends in both, and after a restart.
LEMMA OutsideBooks ==
  ASSUME TypeOK, TypeOK', BooksInv, WaitInv, Outside
  PROVE  BooksInv' /\ WaitInv'
  <1>1. CASE \E m \in Markets :
               Fill(m) \/ SaleFills(m) \/ Delist(m) \/ WatchCancels(m) \/ WatchEnds(m)
    <2>1. /\ UNCHANGED <<ctl, dbq, db, up, seen>> /\ SameBooks
      BY <1>1 DEF Fill, SaleFills, Delist, WatchCancels, WatchEnds, SameBooks, TypeOK, MemType
    <2> QED BY <2>1, QuietBooks
  <1>2. ASSUME NEW m \in Markets, CoolDown(m)
        PROVE  BooksInv' /\ WaitInv'
    <2>1. /\ up /\ UNCHANGED <<ctl, dbq, up, seen>> /\ dbq = <<>>
          /\ mem' = [mem EXCEPT !.cooling = @ \ {m}] /\ db' = [db EXCEPT !.cool = @ \ {m}]
      BY <1>2 DEF CoolDown
    <2>2. ASSUME ~seen.failed, NEW f, NEW o, IsTopic(f, o)
          PROVE  Settled(dbq', db', mem', f, o)
      <3>1. ~Unsaved(f, o)
        BY <2>1 DEF Unsaved, WaitInv
      <3>2. Tabled(db, mem, f, o)
        BY <2>1, <2>2, <3>1 DEF BooksInv, Settled, LastSays
      <3>3. Tabled(db', mem', f, o)
        BY <2>1, <2>2, <3>2 DEF Tabled, IsTopic, TypeOK, MemType, DbType
      <3> QED BY <2>1, <3>3 DEF Settled, NoneOn
    <2> QED BY <2>1, <2>2 DEF BooksInv, WaitInv
  <1>3. CASE Crash
    BY <1>3 DEF Crash, Procs, BooksInv, WaitInv
  <1>4. CASE Restart
    <2>1. /\ mem'.pos = db.rows /\ mem'.cooling = db.cool
          /\ mem'.excluded = ExcludedMarkets \union db.excl
          /\ mem'.halted = db.halted /\ mem'.blocked = db.blocked
          /\ UNCHANGED <<ctl, dbq, db>> /\ dbq = <<>> /\ ctl["strategy"] = Rest /\ up'
      BY <1>4 DEF Restart, Loaded, Boot, WaitInv
    <2>2. ASSUME NEW f, NEW o, IsTopic(f, o)
          PROVE  Settled(dbq', db', mem', f, o)
      <3>1. Tabled(db', mem', f, o)
        BY <2>1, <2>2 DEF Tabled, IsTopic
      <3> QED BY <2>1, <3>1 DEF Settled, NoneOn
    <2> QED BY <2>1, <2>2 DEF BooksInv, WaitInv, Rest
  <1> QED BY <1>1, <1>2, <1>3, <1>4 DEF Outside

\* The parts that hold together.
AgreeInv == BooksInv /\ WaitInv /\ HandInv

\* At the start everything is as the tables have it.
LEMMA InitAgree == Init => AgreeInv
  <1> SUFFICES ASSUME Init
               PROVE  AgreeInv
    OBVIOUS
  <1>1. /\ mem.pos = db.rows /\ mem.cooling = db.cool
        /\ mem.excluded = db.excl \union ExcludedMarkets
        /\ mem.halted = db.halted /\ mem.blocked = db.blocked
        /\ dbq = <<>> /\ ctl["strategy"] = Rest /\ up
    BY DEF Init, Boot, Procs
  <1>2. ASSUME NEW f, NEW o, IsTopic(f, o)
        PROVE  Settled(dbq, db, mem, f, o)
    <2>1. Tabled(db, mem, f, o)
      BY <1>1, <1>2 DEF Tabled, IsTopic
    <2> QED BY <1>1, <2>1 DEF Settled, NoneOn
  <1> QED BY <1>1, <1>2 DEF AgreeInv, BooksInv, WaitInv, HandInv, Rest

\* Every step keeps them.
LEMMA StepAgree ==
  ASSUME TypeOK, TypeOK', AgreeInv, [Next]_vars
  PROVE  AgreeInv'
  <1>1. HandInv'
    BY HandStep DEF AgreeInv
  <1>2. BooksInv' /\ WaitInv'
    <2>1. CASE UNCHANGED vars
      BY <2>1, QuietBooks DEF vars, SameBooks, AgreeInv
    <2>2. CASE Strategy
      BY <2>2, StrategyBooks, RecordedBooks, UncooledBooks DEF AgreeInv
    <2>3. CASE \E p \in Procs : Sell(p) \/ WriteFails(p)
      BY <2>3, SellBooks, WriteFailsBooks DEF AgreeInv
    <2>4. CASE Monitor \/ Bot \/ Outside
      BY <2>4, MonitorBooks, BotBooks, OutsideBooks DEF AgreeInv
    <2> QED BY <2>1, <2>2, <2>3, <2>4 DEF Next
  <1> QED BY <1>1, <1>2 DEF AgreeInv

\* When no statement waits, each topic is as the tables have it.
LEMMA AgreeRows ==
  ASSUME TypeOK, AgreeInv
  PROVE  RowsAgree
  <1> SUFFICES ASSUME up, dbq = <<>>, ~seen.failed
               PROVE  /\ \A m \in Markets \ db.stray : mem.pos[m] = db.rows[m]
                      /\ mem.cooling = db.cool
                      /\ mem.excluded \ ExcludedMarkets = db.excl \ ExcludedMarkets
                      /\ mem.halted = db.halted /\ mem.blocked = db.blocked
    BY DEF RowsAgree, Quiet
  <1>1. ASSUME NEW f, NEW m, IsTopic(f, m)
        PROVE  Tabled(db, mem, f, m)
    <2>1. ~Unsaved(f, m)
      BY DEF AgreeInv, WaitInv, Unsaved
    <2> QED BY <1>1, <2>1 DEF AgreeInv, BooksInv, Settled, LastSays
  <1>2. \A m \in Markets : m \in db.stray \/ mem.pos[m] = db.rows[m]
    BY <1>1 DEF IsTopic, Tabled
  <1>3. /\ \A m \in Markets : m \in mem.cooling <=> m \in db.cool
        /\ \A m \in Markets \ ExcludedMarkets : m \in mem.excluded <=> m \in db.excl
    BY <1>1 DEF IsTopic, Tabled
  <1>4. mem.halted = db.halted /\ mem.blocked = db.blocked
    BY <1>1 DEF IsTopic, Tabled
  <1>5. /\ mem.cooling = db.cool
        /\ mem.excluded \ ExcludedMarkets = db.excl \ ExcludedMarkets
    BY <1>3 DEF TypeOK, MemType, DbType
  <1> QED BY <1>2, <1>4, <1>5

(* Whatever the three processes do at the same time, when the database worker  *)
(* is idle and no statement has failed, a restart would load what memory has:  *)
(* each position entry (but for the row of a stray partial sale), the          *)
(* cooldowns, the exclusions the settings do not impose, and the gate.         *)
(* Statements are submitted in the     *)
(* step that changes memory, so the queue keeps the order of the changes; the  *)
(* exception is the first entry, whose row follows the cooldown's delete.      *)
THEOREM RowsDoAgree == Spec => []RowsAgree
  <1> QED BY TypeCorrect, InitAgree, StepAgree, AgreeRows, PTL DEF Spec

-----------------------------------------------------------------------------
(* The partial take happens once per entry. The count alone is not inductive:  *)
(* an entry not marked yet has not had its take, unless the order is out now.  *)

Taking(m) == LET c == ctl["strategy"] IN c.at = "part_sent" /\ c.m = m /\ Owned(m)

TakenInv ==
  used.faults = 0 /\ used.crashes = 0 =>
    /\ up
    /\ \A m \in Markets :
         /\ seen.takes[m] <= 1
         /\ Known(m) /\ ~mem.pos[m].taken /\ ~Taking(m) => seen.takes[m] = 0

\* The budgets are only ever spent.
Spending == used'.faults >= used.faults /\ used'.crashes >= used.crashes

\* What keeps the count: the order that is out stays out, and entries are only
\* removed or made anew.
LEMMA TakenKept ==
  ASSUME TypeOK, TakenInv, EntriesStep, Spending, up' = up,
         ctl'["strategy"] = ctl["strategy"] \/ ctl["strategy"].at # "part_sent"
  PROVE  TakenInv'
  <1> SUFFICES ASSUME used'.faults = 0, used'.crashes = 0, NEW m \in Markets
               PROVE  /\ seen'.takes[m] <= 1
                      /\ (Known(m) /\ ~mem.pos[m].taken /\ ~Taking(m))' => seen'.takes[m] = 0
    BY DEF TakenInv, Spending, TypeOK, UsedType
  <1>1. used.faults = 0 /\ used.crashes = 0
    BY DEF Spending, TypeOK, UsedType
  <1>2. /\ seen.takes[m] <= 1
        /\ Known(m) /\ ~mem.pos[m].taken /\ ~Taking(m) => seen.takes[m] = 0
    BY <1>1 DEF TakenInv
  <1>3. mem.pos \in [Markets -> Entries] /\ seen.takes \in [Markets -> Nat]
    BY DEF TypeOK, MemType, SeenType
  <1>4. CASE mem'.pos[m] = mem.pos[m] /\ seen'.takes[m] = seen.takes[m]
    BY <1>2, <1>4 DEF Known, Taking, Owned
  <1>5. CASE Removed
    <2>1. PICK o \in Markets : mem'.pos = [mem.pos EXCEPT ![o] = NoPos]
      BY <1>5 DEF Removed
    <2>2. mem'.pos[m] \in {mem.pos[m], NoPos} /\ seen'.takes[m] = seen.takes[m]
      BY <1>3, <1>5, <2>1 DEF Removed
    <2>3. CASE mem'.pos[m] = NoPos
      BY <1>2, <2>2, <2>3 DEF Known, NoPos
    <2> QED BY <1>4, <2>2, <2>3
  <1>6. CASE Entered
    <2>1. PICK o \in Markets, adds \in Nat :
            /\ mem'.pos = [mem.pos EXCEPT ![o] = Fresh(adds)]
            /\ seen'.takes = [seen.takes EXCEPT ![o] = 0]
      BY <1>6 DEF Entered
    <2>2. \/ seen'.takes[m] = 0
          \/ mem'.pos[m] = mem.pos[m] /\ seen'.takes[m] = seen.takes[m]
      BY <1>3, <2>1
    <2> QED BY <1>4, <2>2
  <1> QED BY <1>4, <1>5, <1>6 DEF EntriesStep

\* No action gives a budget back.
LEMMA BudgetSpent ==
  ASSUME TypeOK, [Next]_vars
  PROVE  Spending
  <1>1. UNCHANGED used => Spending
    BY DEF Spending, TypeOK, UsedType
  <1>2. Fault \/ CountCommand => Spending
    BY DEF Fault, CountCommand, Spending, TypeOK, UsedType
  <1>3. CASE Strategy
    <2>1. CASE BuyAccepted
      BY <2>1 DEF BuyAccepted, Spending, TypeOK, UsedType
    <2>2. CASE ~BuyAccepted
      <3>1. UNCHANGED used \/ Fault
        BY <1>3, <2>2 DEF Strategy, DecideBuy, DecideSell, DecidePartial, BuyGivenUp,
                          BuyAnswerLost, BuyHidden, SendAgain, BuyAnswered, BuyRecorded,
                          BuyUncooled, BuySaved, PartialSkipped, PartialSized,
                          PartialAccepted, PartialAnswerLost, PartialRejected,
                          PartialHidden, PartialAnswered, PartialSaved
      <3> QED BY <1>1, <1>2, <3>1
    <2> QED BY <2>1, <2>2
  <1>4. ASSUME NEW p \in Procs, Sell(p) \/ WriteFails(p)
        PROVE  Spending
    <2>1. UNCHANGED used \/ Fault
      BY <1>4 DEF WriteFails, Sell, SellBalance, SellPriced, SellTrips, SellTripped,
                  SellAccepted, SellRejected, SellAnswerLost, SellHidden, SendAgain,
                  SellAnswered, SellClosed, SellForgotten, SellCooled
    <2> QED BY <1>1, <1>2, <2>1
  <1>5. CASE Monitor
    BY <1>1, <1>5 DEF Monitor, TickBalances, TickResumed, TickForgets, TickForgot,
       WarnFetched, WarnSells, WarnOver, MacroSaves, MacroSaved, TickOver
  <1>6. CASE Bot
    <2>1. UNCHANGED used \/ Fault \/ CountCommand
      BY <1>6 DEF Bot, Halt, Resume, CommandSaved, ResumeMarket, Block, Unblock,
                  SellMarket, SetPyramidState, SyncBalances, SyncResumed, SyncRemoves,
                  SyncRemoved, SyncTurns, SyncAdds, SyncAdded, SyncOver, Panic,
                  PanicHalted, PanicSells, PanicTakes, PanicTried, SendAgain, PanicOver
    <2> QED BY <1>1, <1>2, <2>1
  <1>7. CASE Outside
    <2>1. CASE Crash
      BY <2>1 DEF Crash, Spending, TypeOK, UsedType
    <2> QED BY <1>1, <1>7, <2>1 DEF Outside, Fill, SaleFills, Delist, WatchCancels,
                                    WatchEnds, CoolDown, Restart
  <1> QED BY <1>1, <1>3, <1>4, <1>5, <1>6, <1>7 DEF Next, vars

\* The strategy loop: the order counts for an entry that has had no take, and
\* its answer marks the entry.
LEMMA StrategyTaken ==
  ASSUME TypeOK, TypeOK', TakenInv, HandInv, Spending, Strategy
  PROVE  TakenInv'
  <1> DEFINE c == ctl["strategy"]
             m == c.m
  <1>1. c \in Contexts /\ "strategy" \in Procs
    BY DEF TypeOK, CtlType, Procs
  <1>2. CASE PartialAnswerLost \/ PartialHidden
    <2>1. used'.faults = used.faults + 1
      BY <1>2 DEF PartialAnswerLost, PartialHidden, SendAgain, Fault, TypeOK, UsedType
    <2> QED BY <2>1 DEF TakenInv, TypeOK, UsedType
  <1>3. CASE PartialAccepted
    <2>1. /\ up /\ up' = up /\ UNCHANGED <<mem, used>> /\ c.at = "part_send" /\ m \in Markets
          /\ seen'.takes = [seen.takes EXCEPT ![m] = IF Owned(m) THEN @ + 1 ELSE @]
          /\ ctl' = [ctl EXCEPT !["strategy"] = [c EXCEPT !.at = "part_sent"]]
      BY <1>1, <1>3, ContextParts DEF PartialAccepted, Goto, At, OnMarket, TypeOK, CtlType,
                                      SeenType
    <2>2. /\ ctl'["strategy"].at = "part_sent" /\ ctl'["strategy"].m = m
          /\ ctl'["strategy"].val = c.val
      BY <1>1, <2>1 DEF TypeOK, CtlType, Contexts
    <2>3. seen.takes \in [Markets -> Nat]
      BY DEF TypeOK, SeenType
    <2>4. ASSUME used.faults = 0, used.crashes = 0, NEW o \in Markets
          PROVE  /\ seen'.takes[o] <= 1
                 /\ (Known(o) /\ ~mem.pos[o].taken /\ ~Taking(o))' => seen'.takes[o] = 0
      <3>1. /\ seen.takes[o] <= 1
            /\ Known(o) /\ ~mem.pos[o].taken => seen.takes[o] = 0
        BY <2>1, <2>4 DEF TakenInv, Taking
      <3>2. CASE o = m /\ Owned(m)
        <4>1. Known(m) /\ ~mem.pos[m].taken
          BY <2>1, <3>2 DEF HandInv, Owned
        <4>2. seen'.takes[m] = 1
          BY <2>1, <2>3, <3>1, <3>2, <4>1
        <4>3. Taking(o)'
          BY <2>1, <2>2, <3>2 DEF Taking, Owned, Known
        <4> QED BY <3>2, <4>2, <4>3
      <3>3. CASE ~(o = m /\ Owned(m))
        <4>1. seen'.takes[o] = seen.takes[o]
          BY <2>1, <2>3, <3>3
        <4> QED BY <2>1, <3>1, <4>1 DEF Known
      <3> QED BY <3>2, <3>3
    <2> QED BY <2>1, <2>4 DEF TakenInv
  <1>4. CASE PartialAnswered
    <2>1. /\ up /\ up' = up /\ UNCHANGED <<used, seen>> /\ c.at = "part_sent" /\ m \in Markets
          /\ mem' = IF Owned(m) THEN [mem EXCEPT !.pos[m].taken = TRUE] ELSE mem
      BY <1>1, <1>4, ContextParts DEF PartialAnswered, At, OnMarket, TypeOK
    <2>2. \A o \in Markets : Taking(o) <=> o = m /\ Owned(m)
      BY <2>1 DEF Taking
    <2>3. CASE ~Owned(m)
      BY <2>1, <2>2, <2>3 DEF TakenInv, Known
    <2>4. CASE Owned(m)
      <3>1. mem'.pos = [mem.pos EXCEPT ![m] = [mem.pos[m] EXCEPT !.taken = TRUE]]
        BY <2>1, <2>4 DEF TypeOK, MemType
      <3>2. /\ mem'.pos[m].taken
            /\ \A o \in Markets : o # m => mem'.pos[o] = mem.pos[o]
        BY <2>1, <3>1 DEF TypeOK, MemType, Entries
      <3> QED BY <2>1, <2>2, <3>2 DEF TakenInv, Known
    <2> QED BY <2>3, <2>4
  <1>5. CASE BuyRecorded
    <2>1. /\ c.at = "buy_rec" /\ up' = up /\ m \in Markets
      BY <1>1, <1>5, ContextParts DEF BuyRecorded, Served, At, OnMarket, TypeOK
    <2>2. CASE ~Known(m)
      <3>1. /\ mem' = [mem EXCEPT !.held = @ \union {m}, !.pos[m] = Fresh(0),
                                  !.cooling = @ \ {m}]
            /\ seen' = [seen EXCEPT !.takes[m] = 0]
        BY <1>5, <2>2 DEF BuyRecorded
      <3>2. Entered
        BY <2>1, <3>1 DEF Entered, TypeOK, MemType, SeenType
      <3> QED BY <2>1, <3>2, TakenKept DEF EntriesStep
    <2>3. CASE Known(m)
      <3>1. /\ mem' = [mem EXCEPT !.held = @ \union {m}, !.pos[m].adds = @ + 1]
            /\ UNCHANGED <<seen, used>>
        BY <1>5, <2>3 DEF BuyRecorded
      <3>2. mem'.pos = [mem.pos EXCEPT ![m] = [mem.pos[m] EXCEPT !.adds = @ + 1]]
        BY <2>1, <3>1 DEF TypeOK, MemType
      <3>3. \A o \in Markets : /\ mem'.pos[o].live = mem.pos[o].live
                               /\ mem'.pos[o].taken = mem.pos[o].taken
        BY <2>1, <3>2 DEF TypeOK, MemType, Entries
      <3> QED BY <2>1, <3>1, <3>3 DEF TakenInv, Taking, Known
    <2> QED BY <2>2, <2>3
  <1>6. CASE \/ \E o \in Markets : DecideBuy(o) \/ DecideSell(o)
             \/ \E o \in Markets, then \in {"hold", "buy"} : DecidePartial(o, then)
             \/ BuyGivenUp \/ BuyAccepted \/ BuyAnswerLost \/ BuyHidden \/ BuyAnswered
             \/ BuyUncooled \/ BuySaved \/ PartialSkipped \/ PartialSized
             \/ PartialRejected \/ PartialSaved
    <2>1. /\ c.at # "part_sent" /\ up' = up /\ seen'.takes = seen.takes /\ mem'.pos = mem.pos
      BY <1>6 DEF DecideBuy, DecideSell, DecidePartial, BuyGivenUp, BuyAccepted,
                  BuyAnswerLost, BuyHidden, SendAgain, BuyAnswered, BuyUncooled,
                  BuySaved, PartialSkipped, PartialSized, PartialRejected, PartialSaved,
                  Served, At, TypeOK, MemType, SeenType
    <2> QED BY <2>1, TakenKept DEF EntriesStep
  <1> QED BY <1>2, <1>3, <1>4, <1>5, <1>6 DEF Strategy

\* Every step keeps the count.
LEMMA StepTaken ==
  ASSUME TypeOK, TypeOK', TakenInv, HandInv, [Next]_vars
  PROVE  TakenInv'
  <1>1. Spending
    BY BudgetSpent
  <1>2. CASE UNCHANGED vars
    BY <1>1, <1>2, TakenKept DEF vars, EntriesStep
  <1>3. CASE Strategy
    BY <1>1, <1>3, StrategyTaken
  <1>4. ASSUME NEW p \in Procs, Sell(p)
        PROVE  TakenInv'
    <2>1. up' = up
      BY <1>4 DEF Sell, SellBalance, SellPriced, SellTrips, SellTripped, SellAccepted,
                  SellRejected, SellAnswerLost, SellHidden, SendAgain, SellAnswered,
                  SellClosed, SellForgotten, SellCooled
    <2> QED BY <1>1, <1>4, <2>1, SellEntries, SellAside, TakenKept
  <1>5. ASSUME NEW p \in Procs, WriteFails(p)
        PROVE  TakenInv'
    <2>1. used'.faults = used.faults + 1
      BY <1>5 DEF WriteFails, Fault, TypeOK, UsedType
    <2> QED BY <2>1 DEF TakenInv, TypeOK, UsedType
  <1>6. CASE Monitor
    <2>1. up' = up
      BY <1>6 DEF Monitor, TickBalances, TickResumed, TickForgets, TickForgot, WarnFetched,
         WarnSells, WarnOver, MacroSaves, MacroSaved, TickOver
    <2> QED BY <1>1, <1>6, <2>1, MonitorEntries, MonitorAside, TakenKept
  <1>7. CASE Bot
    <2>1. up' = up
      BY <1>7, BotAside DEF Bot, Halt, Resume, CommandSaved, ResumeMarket, Block,
                            Unblock, SellMarket, SetPyramidState, SyncBalances,
                            SyncResumed, SyncRemoves, SyncRemoved, SyncTurns, SyncAdds,
                            SyncAdded, SyncOver, Panic, PanicHalted, PanicSells,
                            PanicTakes, PanicTried, SendAgain, PanicOver
    <2> QED BY <1>1, <1>7, <2>1, BotEntries, BotAside, TakenKept
  <1>8. CASE Outside
    <2>1. CASE Crash
      <3>1. used'.crashes = used.crashes + 1
        BY <2>1 DEF Crash, TypeOK, UsedType
      <3> QED BY <3>1 DEF TakenInv, TypeOK, UsedType
    <2>2. CASE Restart
      BY <2>2 DEF Restart, TakenInv
    <2>3. CASE \E m \in Markets :
                 \/ Fill(m) \/ SaleFills(m) \/ Delist(m)
                 \/ WatchCancels(m) \/ WatchEnds(m) \/ CoolDown(m)
      <3>1. EntriesStep /\ UNCHANGED <<ctl, up>>
        BY <2>3 DEF Fill, SaleFills, Delist, WatchCancels, WatchEnds, CoolDown, EntriesStep,
                    TypeOK, MemType
      <3> QED BY <1>1, <3>1, TakenKept
    <2> QED BY <1>8, <2>1, <2>2, <2>3 DEF Outside
  <1> QED BY <1>2, <1>3, <1>4, <1>5, <1>6, <1>7, <1>8 DEF Next

(* Without a fault or a crash an entry of the position table has at most one   *)
(* partial take, although the order and the mark on the dict are two awaits    *)
(* apart and the entry may be removed or made anew in between: the sale is     *)
(* counted for the dict it holds, and that one is marked by its answer.        *)
THEOREM TakesHappenOnce == Spec => []PartialTakenOnce
  <1>1. Init => TakenInv
    BY DEF Init, TakenInv, Boot, NoPos, Known
  <1>2. TypeOK /\ TakenInv => PartialTakenOnce
    BY DEF TakenInv, PartialTakenOnce
  <1> QED BY <1>1, <1>2, TypeCorrect, InitAgree, StepAgree, StepTaken, PTL DEF Spec, AgreeInv

-----------------------------------------------------------------------------
(* The order path keeps the gate of KillGate. That a step which turns nothing  *)
(* leaves what is sure as it is, or makes it sure, follows from the queue: the *)
(* table gets what a waiting statement says, and a new one says what memory    *)
(* has. That a halt is sure when it answers needs more: whose statement it is  *)
(* that the command awaits, and that nobody lifts the halt meanwhile.          *)

\* Where a process awaits the database.
Awaiting ==
  {"buy_rec", "buy_cool", "buy_save", "part_save", "sell_trip", "sell_close",
   "sell_forget", "sell_cool", "stale_del", "macro_save", "cmd", "panic",
   "sync_deleted", "sync_added"}

IsHalt(w) == w.kind = "gate" /\ w.val[1]

\* A process has a statement only while it awaits it, and one at a time; that
\* of /panic_sell halts; and a process that is down has none.
AwaitInv ==
  /\ \A i \in 1..Len(dbq) : /\ ctl[dbq[i].by].at \in Awaiting
                            /\ ctl[dbq[i].by].at = "panic" => IsHalt(dbq[i])
  /\ \A i, j \in 1..Len(dbq) : dbq[i].by = dbq[j].by => i = j
  /\ ~up => dbq = <<>>

\* From the statement of a halting command on, memory and queue are halted.
HaltInv ==
  \A i \in 1..Len(dbq) : dbq[i].by = "bot" /\ IsHalt(dbq[i]) =>
    /\ mem.halted
    /\ \A j \in i..Len(dbq) : dbq[j].kind = "gate" => dbq[j].val[1]

\* What p submits says of the gate what memory has then, and p awaits it.
Asks(p, w) ==
  /\ w.by = p /\ (w.kind = "gate" => w.val[1] = mem'.halted)
  /\ ctl'[p].at \in Awaiting
  /\ ctl'[p].at = "panic" => IsHalt(w)

\* How a step of p treats the database, and who may lift a halt.
Turn(p) ==
  /\ up /\ up' = up
  /\ \A q \in Procs \ {p} : ctl'[q] = ctl[q]
  /\ mem.halted /\ ~mem'.halted => p = "bot" /\ ctl["bot"].at \notin Awaiting
  /\ \/ /\ ctl[p].at \notin Awaiting /\ UNCHANGED db
        /\ dbq' = dbq \/ \E w \in Writes : Asks(p, w) /\ dbq' = Append(dbq, w)
     \/ /\ dbq # <<>> /\ Head(dbq).by = p
        /\ db' = Apply(Head(dbq)) \/ UNCHANGED db
        /\ \/ dbq' = Tail(dbq)
           \/ \E w \in Writes : Asks(p, w) /\ dbq' = Append(Tail(dbq), w)

\* The steps of a SELL are of this kind.
LEMMA SellTurns ==
  ASSUME TypeOK, TypeOK', NEW p \in Procs, Sell(p)
  PROVE  Turn(p)
  <1> DEFINE m == ctl[p].m
  <1>1. /\ up /\ up' = up /\ mem'.halted = mem.halted
        /\ \A q \in Procs \ {p} : ctl'[q] = ctl[q]
    BY DEF Sell, SellBalance, SellPriced, SellTrips, SellTripped, SellAccepted,
           SellRejected, SellAnswerLost, SellHidden, SendAgain, SellAnswered,
           SellClosed, SellForgotten, Forgotten, SellCooled, Served, At, Goto, Return,
           TypeOK, CtlType, MemType
  <1>2. m \in Markets /\ p \in DOMAIN ctl /\ ctl[p] \in Contexts
    BY ContextParts DEF Sell, SellBalance, SellPriced, SellTrips, SellTripped,
                        SellAccepted, SellRejected, SellAnswerLost, SellHidden,
                        SendAgain, SellAnswered, SellClosed, SellForgotten, SellCooled,
                        Served, At, OnMarket, TypeOK, CtlType
  <1>3. CASE SellBalance(p) \/ SellPriced(p) \/ SellAccepted(p) \/ SellRejected(p)
             \/ SellAnswerLost(p) \/ SellHidden(p)
    BY <1>1, <1>3 DEF SellBalance, SellPriced, SellAccepted, SellRejected,
                      SellAnswerLost, SellHidden, SendAgain, At, Turn, Awaiting
  <1>4. CASE SellTripped(p) \/ SellCooled(p)
    BY <1>1, <1>4 DEF SellTripped, SellCooled, Served, ThenNothing, Turn
  <1>5. CASE SellTrips(p)
    <2>1. GateWrite(p, mem.halted, mem'.blocked) \in Writes
      BY GateType DEF TypeOK, MemType
    <2>2. Asks(p, GateWrite(p, mem.halted, mem'.blocked))
      BY <1>1, <1>2, <1>5 DEF SellTrips, Asks, GateWrite, Goto, Awaiting, Contexts
    <2> QED BY <1>1, <1>5, <2>1, <2>2 DEF SellTrips, Submit, At, Turn, Awaiting
  <1>6. ASSUME NEW k \in Kinds, ctl'[p].at \in Awaiting \ {"panic"}
        PROVE  Write(p, k, m, NoPos) \in Writes /\ Asks(p, Write(p, k, m, NoPos))
    BY <1>2, <1>6, RestType, WriteType DEF Asks, Write, Kinds
  <1>7. CASE SellAnswered(p)
    <2>1. ctl'[p].at \in Awaiting \ {"panic"} /\ "close" \in Kinds
      BY <1>2, <1>7 DEF SellAnswered, Goto, Contexts, Awaiting, Kinds
    <2> QED BY <1>1, <1>6, <1>7, <2>1 DEF SellAnswered, Submit, At, Turn, Awaiting
  <1>8. CASE SellClosed(p)
    <2>1. ctl'[p].at \in Awaiting \ {"panic"} /\ "forget" \in Kinds
      BY <1>2, <1>8 DEF SellClosed, Goto, Contexts, Awaiting, Kinds
    <2> QED BY <1>1, <1>6, <1>8, <2>1 DEF SellClosed, Served, ThenSubmit, Turn
  <1>9. CASE SellForgotten(p)
    <2>1. ctl'[p].at \in Awaiting \ {"panic"} /\ "cool" \in Kinds
      BY <1>2, <1>9 DEF SellForgotten, Goto, Contexts, Awaiting, Kinds
    <2> QED BY <1>1, <1>6, <1>9, <2>1 DEF SellForgotten, Served, ThenSubmit, Turn
  <1> QED BY <1>3, <1>4, <1>5, <1>7, <1>8, <1>9 DEF Sell

\* So is a statement that fails.
LEMMA WriteFailsTurns ==
  ASSUME TypeOK, NEW p \in Procs, WriteFails(p)
  PROVE  Turn(p)
  BY DEF WriteFails, ThenNothing, Turn, TypeOK, CtlType

\* So are the steps of the monitor loop.
LEMMA MonitorTurns ==
  ASSUME TypeOK, TypeOK', Monitor
  PROVE  Turn("monitor")
  <1> DEFINE c == ctl["monitor"]
  <1>1. /\ up /\ up' = up /\ (mem.halted => mem'.halted) /\ "monitor" \in Procs
        /\ \A q \in Procs \ {"monitor"} : ctl'[q] = ctl[q]
    BY DEF Monitor, TickBalances, TickResumed, TickForgets, TickForgot, Forgotten,
       WarnFetched, WarnSells, WarnOver, MacroSaves, MacroSaved, TickOver, Served, At, Procs,
       Goto, TypeOK, CtlType, MemType
  <1>2. CASE \/ TickBalances \/ TickResumed \/ WarnFetched \/ WarnOver \/ TickOver
             \/ \E m \in Markets : WarnSells(m)
    BY <1>1, <1>2 DEF TickBalances, TickResumed, WarnFetched, WarnOver, TickOver,
                      WarnSells, At, Turn, Awaiting
  <1>3. CASE TickForgot \/ MacroSaved
    BY <1>1, <1>3 DEF TickForgot, MacroSaved, Served, ThenNothing, Turn
  <1>4. ASSUME NEW m \in Markets, TickForgets(m)
        PROVE  Turn("monitor")
    <2>1. Write("monitor", "forget", m, NoPos) \in Writes
      BY <1>1, RestType, WriteType DEF Kinds
    <2>2. Asks("monitor", Write("monitor", "forget", m, NoPos))
      BY <1>1, <1>4 DEF TickForgets, Asks, Write, Awaiting, TypeOK, CtlType, Contexts
    <2> QED BY <1>1, <1>4, <2>1, <2>2 DEF TickForgets, Submit, At, Turn, Awaiting
  <1>5. ASSUME NEW trips \in BOOLEAN, MacroSaves(trips)
        PROVE  Turn("monitor")
    <2>1. GateWrite("monitor", mem'.halted, mem.blocked) \in Writes
      BY <1>1, GateType DEF TypeOK, MemType
    <2>2. Asks("monitor", GateWrite("monitor", mem'.halted, mem.blocked))
      BY <1>1, <1>5 DEF MacroSaves, Asks, GateWrite, Goto, Awaiting, TypeOK, CtlType,
                        Contexts, MemType
    <2> QED BY <1>1, <1>5, <2>1, <2>2 DEF MacroSaves, Submit, At, Turn, Awaiting
  <1> QED BY <1>2, <1>3, <1>4, <1>5 DEF Monitor

\* So are the commands.
LEMMA BotTurns ==
  ASSUME TypeOK, TypeOK', Bot
  PROVE  Turn("bot")
  <1>1. /\ up /\ up' = up /\ "bot" \in Procs /\ ctl["bot"] \in Contexts
        /\ \A q \in Procs \ {"bot"} : ctl'[q] = ctl[q]
    BY DEF Bot, Halt, Resume, CommandSaved, ResumeMarket, Block, Unblock, SellMarket,
           SetPyramidState, SyncBalances, SyncResumed, SyncRemoves, SyncRemoved,
           SyncTurns, SyncAdds, SyncAdded, SyncOver, Panic, PanicHalted, PanicSells,
           PanicTakes, PanicTried, SendAgain, PanicOver, Command, Save, Goto, Begin,
           Served, At, Procs, TypeOK, CtlType
  <1>2. CASE \/ SyncBalances \/ SyncResumed \/ SyncTurns \/ SyncOver \/ PanicOver
             \/ PanicSells \/ \E m \in Markets : SellMarket(m) \/ PanicTakes(m)
    BY <1>1, <1>2 DEF SyncBalances, SyncResumed, SyncTurns, SyncOver, PanicOver,
                      SellMarket, PanicSells, PanicTakes, PanicTried, SendAgain,
                      Command, At, Turn, Awaiting
  <1>3. CASE CommandSaved \/ SyncRemoved \/ SyncAdded \/ PanicHalted
    BY <1>1, <1>3 DEF CommandSaved, SyncRemoved, SyncAdded, PanicHalted, Served,
                      ThenNothing, Turn
  <1>4. CASE Halt \/ Resume \/ Panic \/ \E m \in Markets : ResumeMarket(m)
    <2> DEFINE w == GateWrite("bot", mem'.halted, mem'.blocked)
    <2>1. dbq' = Append(dbq, w) /\ UNCHANGED db
      BY <1>4 DEF Halt, Resume, Panic, ResumeMarket, Save, Submit, TypeOK, MemType
    <2>2. w \in Writes
      BY <1>1, GateType DEF TypeOK, MemType
    <2>3. /\ ctl["bot"].at = "idle" /\ (Goto("bot", "cmd") \/ Goto("bot", "panic"))
          /\ ~mem'.halted => Goto("bot", "cmd")
      BY <1>1, <1>4 DEF Halt, Resume, Panic, ResumeMarket, Save, Command, At, TypeOK, MemType
    <2>4. /\ ctl'["bot"].at \in {"cmd", "panic"}
          /\ ctl'["bot"].at = "panic" => mem'.halted
      BY <1>1, <2>3 DEF Goto, TypeOK, CtlType, Contexts
    <2>5. Asks("bot", w)
      BY <2>3, <2>4 DEF Asks, GateWrite, IsHalt, Awaiting
    <2> HIDE DEF w
    <2> QED BY <1>1, <2>1, <2>2, <2>3, <2>5 DEF Turn, Awaiting
  <1>5. ASSUME NEW k \in Kinds, NEW m \in Markets, NEW v \in Entries, mem'.halted = mem.halted,
               Submit(Write("bot", k, m, v)), ctl["bot"].at \notin Awaiting,
               ctl'["bot"].at \in Awaiting \ {"panic"}
        PROVE  Turn("bot")
    <2>1. Write("bot", k, m, v) \in Writes
      BY <1>1, WriteType
    <2>2. Asks("bot", Write("bot", k, m, v))
      BY <1>5 DEF Asks, Write, Kinds
    <2> QED BY <1>1, <1>5, <2>1, <2>2 DEF Submit, Turn
  <1>6. ASSUME NEW m \in Markets, NEW k \in {"excl", "unexcl"},
               (Block(m) /\ k = "excl") \/ (Unblock(m) /\ k = "unexcl")
        PROVE  Turn("bot")
    <2>1. Submit(Write("bot", k, m, NoPos)) /\ mem'.halted = mem.halted /\ k \in Kinds
      BY <1>6 DEF Block, Unblock, Save, Kinds, TypeOK, MemType
    <2>2. ctl["bot"].at \notin Awaiting /\ ctl'["bot"].at \in Awaiting \ {"panic"}
      BY <1>1, <1>6 DEF Block, Unblock, Save, Command, At, Goto, Awaiting, TypeOK, CtlType,
                        Contexts
    <2> QED BY <1>5, <2>1, <2>2, RestType
  <1>7. ASSUME NEW m \in Markets, NEW adds \in 0..MaxAdds, SetPyramidState(m, adds)
        PROVE  Turn("bot")
    <2>1. /\ Submit(Write("bot", "state", m, mem'.pos[m])) /\ "state" \in Kinds
          /\ mem'.halted = mem.halted /\ mem'.pos[m] \in Entries
      BY <1>7 DEF SetPyramidState, Save, Kinds, TypeOK, MemType
    <2>2. ctl["bot"].at \notin Awaiting /\ ctl'["bot"].at \in Awaiting \ {"panic"}
      BY <1>1, <1>7 DEF SetPyramidState, Save, Command, At, Goto, Awaiting, TypeOK, CtlType,
                        Contexts
    <2> QED BY <1>5, <2>1, <2>2
  <1>8. ASSUME NEW m \in Markets, SyncAdds(m)
        PROVE  Turn("bot")
    <2>1. CASE Known(m)
      BY <1>1, <1>8, <2>1 DEF SyncAdds, At, Turn, Awaiting
    <2>2. CASE ~Known(m)
      <3>1. /\ Submit(Write("bot", "state", m, mem'.pos[m])) /\ "state" \in Kinds
            /\ mem'.halted = mem.halted /\ mem'.pos[m] \in Entries
        BY <1>8, <2>2 DEF SyncAdds, Kinds, TypeOK, MemType
      <3>2. ctl["bot"].at \notin Awaiting /\ ctl'["bot"].at \in Awaiting \ {"panic"}
        BY <1>1, <1>8, <2>2 DEF SyncAdds, At, Awaiting, TypeOK, CtlType, Contexts
      <3> QED BY <1>5, <3>1, <3>2
    <2> QED BY <2>1, <2>2
  <1>9. ASSUME NEW m \in Markets, SyncRemoves(m)
        PROVE  Turn("bot")
    <2>1. /\ Submit(Write("bot", "forget", m, NoPos)) /\ "forget" \in Kinds
          /\ mem'.halted = mem.halted
      BY <1>9 DEF SyncRemoves, Forgotten, Kinds, TypeOK, MemType
    <2>2. ctl["bot"].at \notin Awaiting /\ ctl'["bot"].at \in Awaiting \ {"panic"}
      BY <1>1, <1>9 DEF SyncRemoves, At, Awaiting, TypeOK, CtlType, Contexts
    <2> QED BY <1>5, <2>1, <2>2, RestType
  <1> QED BY <1>2, <1>3, <1>4, <1>6, <1>7, <1>8, <1>9 DEF Bot

\* So are the steps of the strategy loop.
LEMMA StrategyTurns ==
  ASSUME TypeOK, TypeOK', Strategy
  PROVE  Turn("strategy")
  <1> DEFINE c == ctl["strategy"]
  <1>1. /\ up /\ up' = up /\ mem'.halted = mem.halted /\ "strategy" \in Procs /\ c \in Contexts
        /\ \A q \in Procs \ {"strategy"} : ctl'[q] = ctl[q]
    BY DEF Strategy, DecideBuy, DecideSell, DecidePartial, BuyGivenUp, BuyAccepted,
           BuyAnswerLost, BuyHidden, SendAgain, BuyAnswered, BuyRecorded, BuyUncooled,
           BuySaved, PartialSkipped, PartialSized, PartialAccepted, PartialAnswerLost,
           PartialRejected, PartialHidden, PartialAnswered, PartialSaved, PartialOver,
           Goto, Begin, Served, At, Procs, TypeOK, CtlType, MemType
  <1>2. CASE \/ \E m \in Markets : DecideBuy(m) \/ DecideSell(m)
             \/ \E m \in Markets, then \in {"hold", "buy"} : DecidePartial(m, then)
             \/ BuyGivenUp \/ BuyAccepted \/ BuyAnswerLost \/ BuyHidden
             \/ PartialSkipped \/ PartialSized \/ PartialAccepted \/ PartialRejected
             \/ PartialAnswerLost \/ PartialHidden
    BY <1>1, <1>2 DEF DecideBuy, DecideSell, DecidePartial, BuyGivenUp, BuyAccepted,
                      BuyAnswerLost, BuyHidden, SendAgain, PartialSkipped, PartialSized,
                      PartialAccepted, PartialAnswerLost, PartialRejected,
                      PartialHidden, At, Turn, Awaiting
  <1>3. CASE BuySaved \/ PartialSaved
    BY <1>1, <1>3 DEF BuySaved, PartialSaved, Served, ThenNothing, Turn
  <1>4. ASSUME NEW k \in Kinds, NEW v \in Entries, c.m \in Markets,
               ctl'["strategy"].at \in Awaiting \ {"panic"}
        PROVE  /\ Write("strategy", k, c.m, v) \in Writes
               /\ Asks("strategy", Write("strategy", k, c.m, v))
    BY <1>1, <1>4, WriteType DEF Asks, Write, Kinds
  <1>5. CASE BuyAnswered
    <2>1. c.m \in Markets /\ ctl'["strategy"].at \in Awaiting \ {"panic"} /\ "open" \in Kinds
      BY <1>1, <1>5 DEF BuyAnswered, At, Goto, Kinds, Awaiting, Contexts, OnMarket, TypeOK,
                        CtlType
    <2> QED BY <1>1, <1>4, <1>5, <2>1, RestType DEF BuyAnswered, Submit, At, Turn, Awaiting
  <1>6. CASE BuyRecorded
    <2>1. /\ c.m \in Markets /\ ctl'["strategy"].at \in Awaiting \ {"panic"}
          /\ "uncool" \in Kinds /\ "state" \in Kinds
      BY <1>1, <1>6 DEF BuyRecorded, Served, At, Goto, Kinds, Awaiting, Contexts, OnMarket,
                        TypeOK, CtlType
    <2>2. mem'.pos[c.m] \in Entries
      BY <2>1 DEF TypeOK, MemType
    <2> QED BY <1>1, <1>4, <1>6, <2>1, <2>2, RestType DEF BuyRecorded, Served, ThenSubmit, Turn
  <1>7. CASE BuyUncooled
    <2>1. c.m \in Markets /\ "state" \in Kinds
      BY <1>1, <1>7 DEF BuyUncooled, Served, At, Kinds, Contexts, OnMarket
    <2>2. mem.pos[c.m] \in Entries
      BY <2>1 DEF TypeOK, MemType
    <2>3. Known(c.m) => ctl'["strategy"].at \in Awaiting \ {"panic"}
      BY <1>1, <1>7 DEF BuyUncooled, Goto, Awaiting, TypeOK, CtlType, Contexts
    <2> QED BY <1>1, <1>4, <1>7, <2>1, <2>2, <2>3
            DEF BuyUncooled, Served, ThenSubmit, ThenNothing, Turn
  <1>8. CASE PartialAnswered
    <2> DEFINE v == [c.val EXCEPT !.taken = TRUE]
               k == IF Owned(c.m) THEN "state" ELSE "stray"
    <2>1. c.m \in Markets /\ ctl'["strategy"].at \in Awaiting \ {"panic"} /\ k \in Kinds
      BY <1>1, <1>8 DEF PartialAnswered, At, Goto, Kinds, Awaiting, Contexts, OnMarket, TypeOK,
                        CtlType
    <2>2. v \in Entries
      BY <1>1 DEF Contexts, Entries
    <2>3. Submit(Write("strategy", k, c.m, v)) /\ c.at \notin Awaiting
      BY <1>8 DEF PartialAnswered, At, Awaiting
    <2> HIDE DEF v, k
    <2> QED BY <1>1, <1>4, <2>1, <2>2, <2>3 DEF Submit, Turn
  <1> QED BY <1>2, <1>3, <1>5, <1>6, <1>7, <1>8 DEF Strategy

\* The queue without its head.
LEMMA PoppedQueue ==
  ASSUME NEW q \in Seq(Writes), q # <<>>
  PROVE  /\ Tail(q) \in Seq(Writes) /\ Len(Tail(q)) = Len(q) - 1
         /\ \A i \in 1..Len(Tail(q)) : i + 1 \in 1..Len(q) /\ Tail(q)[i] = q[i + 1]
  <1>1. /\ Tail(q) \in Seq(Writes) /\ Len(Tail(q)) = Len(q) - 1 /\ Len(q) \in Nat \ {0}
        /\ \A i \in 1..(Len(q) - 1) : Tail(q)[i] = q[i + 1]
    OBVIOUS
  <1> DEFINE t == Tail(q)
  <1> HIDE DEF t
  <1>2. /\ Len(t) = Len(q) - 1 /\ Len(q) \in Nat \ {0}
        /\ \A i \in 1..(Len(q) - 1) : t[i] = q[i + 1]
    BY <1>1 DEF t
  <1>3. \A i \in 1..Len(t) : i + 1 \in 1..Len(q) /\ t[i] = q[i + 1]
    BY <1>2
  <1> QED BY <1>1, <1>3 DEF t

\* The queue with a new statement.
LEMMA PushedQueue ==
  ASSUME NEW q \in Seq(Writes), NEW w \in Writes
  PROVE  /\ Len(Append(q, w)) = Len(q) + 1
         /\ \A i \in 1..Len(Append(q, w)) :
              \/ i \in 1..Len(q) /\ Append(q, w)[i] = q[i]
              \/ i = Len(q) + 1 /\ Append(q, w)[i] = w
  <1> DEFINE r == Append(q, w)
  <1>1. /\ Len(r) = Len(q) + 1 /\ Len(q) \in Nat /\ r[Len(q) + 1] = w
        /\ \A i \in 1..Len(q) : r[i] = q[i]
    OBVIOUS
  <1>2. \A j \in 1..Len(r) : j \in 1..Len(q) \/ j = Len(q) + 1
    BY <1>1
  <1> HIDE DEF r
  <1>3. \A i \in 1..Len(r) : \/ i \in 1..Len(q) /\ r[i] = q[i]
                             \/ i = Len(q) + 1 /\ r[i] = w
    BY <1>1, <1>2
  <1> QED BY <1>1, <1>3 DEF r

\* What a statement makes of the table's halt.
LEMMA AppliedHalt ==
  ASSUME DbType, NEW w \in Writes
  PROVE  Apply(w).halted = IF w.kind = "gate" THEN w.val[1] ELSE db.halted
  <1>1. CASE w.kind = "gate"
    BY <1>1 DEF Apply, DbType
  <1>2. CASE w.kind # "gate"
    <2>1. w.kind \in Kinds
      BY <1>2 DEF Writes
    <2>2. CASE w.kind \in {"open", "close"}
      BY <2>2 DEF Apply, DbType
    <2>3. CASE w.kind \in {"state", "stray", "forget"}
      BY <2>3 DEF Apply, DbType
    <2>4. CASE w.kind \in {"cool", "uncool"}
      BY <2>4 DEF Apply, DbType
    <2>5. CASE w.kind \in {"excl", "unexcl"}
      BY <2>5 DEF Apply, DbType
    <2> QED BY <1>2, <2>1, <2>2, <2>3, <2>4, <2>5 DEF Kinds
  <1> QED BY <1>1, <1>2

\* Where the statements of the queue after such a step come from: the queue
\* before it, moved up by one place if its head was served; and one p submits.
LEMMA TurnQueue ==
  ASSUME TypeOK, TypeOK', NEW p \in Procs, Turn(p)
  PROVE  \E d \in {0, 1} :
           /\ Len(dbq) \in Nat /\ Len(dbq') \in Nat /\ d <= Len(dbq)
           /\ d = 0 => ctl[p].at \notin Awaiting
           /\ d = 1 => dbq[1].by = p
           /\ \A i \in 1..Len(dbq') :
                \/ i + d \in 1..Len(dbq) /\ dbq'[i] = dbq[i + d]
                \/ i = Len(dbq') /\ Asks(p, dbq'[i])
           /\ \/ db'.halted = db.halted
              \/ d = 1 /\ dbq[1].kind = "gate" /\ db'.halted = dbq[1].val[1]
  <1>1. dbq \in Seq(Writes) /\ Len(dbq) \in Nat /\ Len(dbq') \in Nat
    BY DEF TypeOK, QueueType
  <1>2. CASE /\ ctl[p].at \notin Awaiting /\ UNCHANGED db
             /\ dbq' = dbq \/ \E w \in Writes : Asks(p, w) /\ dbq' = Append(dbq, w)
    <2>1. \A i \in 1..Len(dbq') :
            \/ i + 0 \in 1..Len(dbq) /\ dbq'[i] = dbq[i + 0]
            \/ i = Len(dbq') /\ Asks(p, dbq'[i])
      <3>1. CASE dbq' = dbq
        BY <1>1, <3>1
      <3>2. ASSUME NEW w \in Writes, Asks(p, w), dbq' = Append(dbq, w)
            PROVE  \A i \in 1..Len(dbq') : \/ i \in 1..Len(dbq) /\ dbq'[i] = dbq[i]
                                           \/ i = Len(dbq') /\ Asks(p, dbq'[i])
        <4>1. /\ Len(dbq') = Len(dbq) + 1
              /\ \A i \in 1..Len(dbq') : \/ i \in 1..Len(dbq) /\ dbq'[i] = dbq[i]
                                         \/ i = Len(dbq) + 1 /\ dbq'[i] = w
          BY <1>1, <3>2, PushedQueue, Zenon
        <4> QED BY <3>2, <4>1
      <3>3. \A i \in 1..Len(dbq) : i + 0 = i
        BY <1>1
      <3> QED BY <1>2, <3>1, <3>2, <3>3
    <2> QED BY <1>1, <1>2, <2>1
  <1>3. CASE /\ dbq # <<>> /\ Head(dbq).by = p
             /\ db' = Apply(Head(dbq)) \/ UNCHANGED db
             /\ \/ dbq' = Tail(dbq)
                \/ \E w \in Writes : Asks(p, w) /\ dbq' = Append(Tail(dbq), w)
    <2>1. Head(dbq) = dbq[1] /\ 1 <= Len(dbq) /\ Head(dbq) \in Writes
      BY <1>1, <1>3
    <2>2. \/ db'.halted = db.halted
          \/ dbq[1].kind = "gate" /\ db'.halted = dbq[1].val[1]
      BY <1>3, <2>1, AppliedHalt DEF TypeOK
    <2>3. /\ Tail(dbq) \in Seq(Writes) /\ Len(Tail(dbq)) \in Nat
          /\ \A i \in 1..Len(Tail(dbq)) : i + 1 \in 1..Len(dbq) /\ Tail(dbq)[i] = dbq[i + 1]
      <3>1. /\ Tail(dbq) \in Seq(Writes)
            /\ \A i \in 1..Len(Tail(dbq)) : i + 1 \in 1..Len(dbq) /\ Tail(dbq)[i] = dbq[i + 1]
        BY <1>1, <1>3, PoppedQueue, Zenon
      <3> QED BY <1>1, <1>3, <3>1
    <2>4. \A i \in 1..Len(dbq') :
            \/ i + 1 \in 1..Len(dbq) /\ dbq'[i] = dbq[i + 1]
            \/ i = Len(dbq') /\ Asks(p, dbq'[i])
      <3>1. CASE dbq' = Tail(dbq)
        BY <2>3, <3>1, Zenon
      <3>2. ASSUME NEW w \in Writes, Asks(p, w), dbq' = Append(Tail(dbq), w)
            PROVE  \A i \in 1..Len(dbq') : \/ i + 1 \in 1..Len(dbq) /\ dbq'[i] = dbq[i + 1]
                                           \/ i = Len(dbq') /\ Asks(p, dbq'[i])
        <4>1. /\ Len(dbq') = Len(Tail(dbq)) + 1
              /\ \A i \in 1..Len(dbq') : \/ i \in 1..Len(Tail(dbq)) /\ dbq'[i] = Tail(dbq)[i]
                                         \/ i = Len(Tail(dbq)) + 1 /\ dbq'[i] = w
          BY <2>3, <3>2, PushedQueue, Zenon
        <4> QED BY <2>3, <3>2, <4>1, Zenon
      <3> QED BY <1>3, <3>1, <3>2, Zenon
    <2> QED BY <1>1, <1>3, <2>1, <2>2, <2>4
  <1> QED BY <1>2, <1>3 DEF Turn

\* Such a step keeps who awaits what.
LEMMA TurnAwaits ==
  ASSUME TypeOK, TypeOK', AwaitInv, NEW p \in Procs, Turn(p)
  PROVE  AwaitInv'
  <1>1. PICK d \in {0, 1} :
          /\ Len(dbq) \in Nat /\ Len(dbq') \in Nat /\ d <= Len(dbq)
          /\ d = 0 => ctl[p].at \notin Awaiting
          /\ d = 1 => dbq[1].by = p
          /\ \A i \in 1..Len(dbq') :
               \/ i + d \in 1..Len(dbq) /\ dbq'[i] = dbq[i + d]
               \/ i = Len(dbq') /\ Asks(p, dbq'[i])
    BY TurnQueue
  <1>2. \A i \in 1..Len(dbq) : dbq[i].by \in Procs
    BY DEF TypeOK, QueueType, Writes
  <1>3. \A i \in 1..Len(dbq') : i + d \in 1..Len(dbq) => dbq[i + d].by # p
    BY <1>1 DEF AwaitInv
  <1>4. \A q \in Procs \ {p} : ctl'[q] = ctl[q]
    BY DEF Turn
  <1>5. ASSUME NEW i \in 1..Len(dbq')
        PROVE  /\ ctl'[dbq'[i].by].at \in Awaiting
               /\ ctl'[dbq'[i].by].at = "panic" => IsHalt(dbq'[i])
    <2>1. CASE i + d \in 1..Len(dbq) /\ dbq'[i] = dbq[i + d]
      <3>1. ctl'[dbq'[i].by] = ctl[dbq[i + d].by]
        BY <1>2, <1>3, <1>4, <2>1
      <3> QED BY <2>1, <3>1 DEF AwaitInv
    <2>2. CASE Asks(p, dbq'[i])
      BY <2>2 DEF Asks
    <2> QED BY <1>1, <2>1, <2>2
  <1>6. ASSUME NEW i \in 1..Len(dbq'), NEW j \in 1..Len(dbq'), dbq'[i].by = dbq'[j].by
        PROVE  i = j
    <2>1. CASE i + d \in 1..Len(dbq) /\ dbq'[i] = dbq[i + d]
               /\ j + d \in 1..Len(dbq) /\ dbq'[j] = dbq[j + d]
      <3>1. i + d = j + d
        BY <1>6, <2>1 DEF AwaitInv
      <3> QED BY <1>1, <3>1
    <2>2. CASE Asks(p, dbq'[i]) \/ Asks(p, dbq'[j])
      <3>1. dbq'[i].by = p /\ dbq'[j].by = p
        BY <1>6, <2>2 DEF Asks
      <3>2. i = Len(dbq') /\ j = Len(dbq')
        BY <1>1, <1>3, <3>1
      <3> QED BY <3>2
    <2> QED BY <1>1, <2>1, <2>2
  <1> QED BY <1>5, <1>6 DEF AwaitInv, Turn

\* It keeps what a halting command has brought about: only the Telegram
\* handlers lift a halt, and they await the command.
LEMMA TurnHalts ==
  ASSUME TypeOK, TypeOK', AwaitInv, HaltInv, NEW p \in Procs, Turn(p)
  PROVE  HaltInv'
  <1>1. PICK d \in {0, 1} :
          /\ Len(dbq) \in Nat /\ Len(dbq') \in Nat /\ d <= Len(dbq)
          /\ d = 0 => ctl[p].at \notin Awaiting
          /\ d = 1 => dbq[1].by = p
          /\ \A i \in 1..Len(dbq') :
               \/ i + d \in 1..Len(dbq) /\ dbq'[i] = dbq[i + d]
               \/ i = Len(dbq') /\ Asks(p, dbq'[i])
    BY TurnQueue
  <1>2. SUFFICES ASSUME NEW i \in 1..Len(dbq'), dbq'[i].by = "bot", IsHalt(dbq'[i])
                 PROVE  /\ mem'.halted
                        /\ \A j \in i..Len(dbq') : dbq'[j].kind = "gate" => dbq'[j].val[1]
    BY DEF HaltInv, IsHalt
  <1>3. CASE i + d \in 1..Len(dbq) /\ dbq'[i] = dbq[i + d]
    <2>1. /\ mem.halted
          /\ \A j \in (i + d)..Len(dbq) : dbq[j].kind = "gate" => dbq[j].val[1]
      BY <1>2, <1>3 DEF HaltInv
    <2>2. ctl["bot"].at \in Awaiting
      BY <1>2, <1>3 DEF AwaitInv
    <2>3. mem'.halted
      BY <2>1, <2>2 DEF Turn
    <2>4. ASSUME NEW j \in i..Len(dbq'), dbq'[j].kind = "gate"
          PROVE  dbq'[j].val[1]
      <3>1. j \in 1..Len(dbq')
        BY <1>1
      <3>2. CASE j + d \in 1..Len(dbq) /\ dbq'[j] = dbq[j + d]
        <4>1. j + d \in (i + d)..Len(dbq)
          BY <1>1, <3>2
        <4> QED BY <2>1, <2>4, <3>2, <4>1
      <3>3. CASE Asks(p, dbq'[j])
        BY <2>3, <2>4, <3>3 DEF Asks
      <3> QED BY <1>1, <3>1, <3>2, <3>3
    <2> QED BY <2>3, <2>4
  <1>4. CASE i = Len(dbq') /\ Asks(p, dbq'[i])
    <2>1. mem'.halted
      BY <1>2, <1>4 DEF Asks, IsHalt
    <2>2. \A j \in i..Len(dbq') : j = i
      BY <1>1, <1>4
    <2> QED BY <1>2, <2>1, <2>2 DEF IsHalt
  <1> QED BY <1>1, <1>3, <1>4

\* It is a step of the gate, or changes nothing there.
LEMMA TurnGate ==
  ASSUME TypeOK, TypeOK', NEW p \in Procs, Turn(p)
  PROVE  [Gate!Kept]_(Gate!vars)
  <1>1. PICK d \in {0, 1} :
          /\ Len(dbq) \in Nat /\ Len(dbq') \in Nat /\ d <= Len(dbq)
          /\ \A i \in 1..Len(dbq') :
               \/ i + d \in 1..Len(dbq) /\ dbq'[i] = dbq[i + d]
               \/ i = Len(dbq') /\ Asks(p, dbq'[i])
          /\ \/ db'.halted = db.halted
             \/ d = 1 /\ dbq[1].kind = "gate" /\ db'.halted = dbq[1].val[1]
    BY TurnQueue
  <1>2. up /\ up' /\ mem.halted \in BOOLEAN /\ mem'.halted \in BOOLEAN
    BY DEF Turn, TypeOK, MemType
  <1>3. Sure' \in {"nothing", Gate!Word(mem'.halted)}
    BY <1>2 DEF Sure, Gate!Word
  <1>4. CASE mem'.halted # mem.halted
    <2>1. Gate!Command(mem'.halted)
      BY <1>2, <1>3, <1>4 DEF Gate!Command
    <2> QED BY <1>2, <2>1 DEF Gate!Kept
  <1>5. CASE mem'.halted = mem.halted /\ Sure = "nothing"
    <2>1. CASE Sure' = "nothing"
      BY <1>2, <1>5, <2>1 DEF Gate!vars
    <2>2. CASE Sure' = Gate!Word(mem.halted)
      BY <1>2, <1>5, <2>2 DEF Gate!Confirm, Gate!Kept
    <2> QED BY <1>3, <1>5, <2>1, <2>2
  <1>6. CASE mem'.halted = mem.halted /\ Sure # "nothing"
    <2>1. /\ db.halted = mem.halted
          /\ \A i \in 1..Len(dbq) : dbq[i].kind = "gate" => dbq[i].val[1] = mem.halted
      BY <1>2, <1>6 DEF Sure
    <2>2. db'.halted = mem.halted
      BY <1>1, <2>1
    <2>3. \A i \in 1..Len(dbq') : dbq'[i].kind = "gate" => dbq'[i].val[1] = mem'.halted
      BY <1>1, <1>6, <2>1 DEF Asks
    <2>4. Sure' = Sure
      BY <1>6, <2>1, <2>2, <2>3 DEF Sure
    <2> QED BY <1>2, <1>6, <2>4 DEF Gate!vars
  <1> QED BY <1>4, <1>5, <1>6

\* Apart from crash and restart nothing outside touches the gate.
LEMMA OutsideGate ==
  ASSUME TypeOK, AwaitInv, HaltInv, Outside
  PROVE  AwaitInv' /\ HaltInv' /\ [Gate!Kept]_(Gate!vars)
  <1>1. CASE \E m \in Markets :
               \/ Fill(m) \/ SaleFills(m) \/ Delist(m)
               \/ WatchCancels(m) \/ WatchEnds(m) \/ CoolDown(m)
    <2>1. UNCHANGED <<ctl, dbq, up>> /\ mem'.halted = mem.halted /\ db'.halted = db.halted
      BY <1>1 DEF Fill, SaleFills, Delist, WatchCancels, WatchEnds, CoolDown, TypeOK, MemType, DbType
    <2>2. AwaitInv' /\ HaltInv' /\ UNCHANGED Gate!vars
      BY <2>1 DEF AwaitInv, HaltInv, Sure, Gate!vars
    <2> QED BY <2>2
  <1>2. CASE Crash
    <2>1. up /\ ~up' /\ dbq' = <<>> /\ mem'.halted = FALSE /\ UNCHANGED db
      BY <1>2 DEF Crash, Boot
    <2>2. AwaitInv' /\ HaltInv'
      BY <2>1 DEF AwaitInv, HaltInv
    <2>3. Sure' = IF db.halted THEN "halted" ELSE "resumed"
      BY <2>1 DEF Sure
    <2>4. Sure = "nothing" \/ Sure' = Sure
      BY <2>3 DEF Sure
    <2>5. Gate!Crash
      BY <2>1, <2>3, <2>4 DEF Gate!Crash
    <2> QED BY <2>2, <2>5 DEF Gate!Kept
  <1>3. CASE Restart
    <2>1. /\ ~up /\ up' /\ dbq = <<>> /\ UNCHANGED <<ctl, dbq, db>>
          /\ mem'.halted = db.halted /\ db.halted \in BOOLEAN
      BY <1>3 DEF Restart, Loaded, Boot, AwaitInv, TypeOK, DbType
    <2>2. AwaitInv' /\ HaltInv'
      BY <2>1 DEF AwaitInv, HaltInv
    <2>3. Sure' = Sure /\ Sure = IF db.halted THEN "halted" ELSE "resumed"
      BY <2>1 DEF Sure
    <2>4. Gate!Restart
      BY <2>1, <2>3 DEF Gate!Restart
    <2> QED BY <2>2, <2>4 DEF Gate!Kept
  <1> QED BY <1>1, <1>2, <1>3 DEF Outside

\* Whatever a step is, it keeps the invariants and the gate.
LEMMA StepGate ==
  ASSUME TypeOK, TypeOK', AwaitInv, HaltInv, [Next]_vars
  PROVE  AwaitInv' /\ HaltInv' /\ [Gate!Kept]_(Gate!vars)
  <1>1. CASE UNCHANGED vars
    BY <1>1 DEF vars, AwaitInv, HaltInv, Sure, Gate!vars
  <1>2. CASE \E p \in Procs : Turn(p)
    BY <1>2, TurnAwaits, TurnHalts, TurnGate
  <1>3. CASE Strategy \/ Monitor \/ Bot
    <2>1. \E p \in Procs : Turn(p)
      BY <1>3, StrategyTurns, MonitorTurns, BotTurns DEF Procs
    <2> QED BY <1>2, <2>1
  <1>4. CASE \E p \in Procs : Sell(p) \/ WriteFails(p)
    BY <1>2, <1>4, SellTurns, WriteFailsTurns
  <1>5. CASE Outside
    BY <1>5, OutsideGate
  <1> QED BY <1>1, <1>3, <1>4, <1>5 DEF Next

\* When a halting command is answered, its own statement is the one served:
\* memory, table and what still waits are halted.
LEMMA AnsweredSure ==
  ASSUME TypeOK, AwaitInv, HaltInv, HaltAnswered
  PROVE  Sure' = "halted"
  <1>1. /\ up /\ up' = up /\ dbq # <<>> /\ Head(dbq).by = "bot" /\ UNCHANGED mem
        /\ db' = Apply(Head(dbq)) /\ dbq' = Tail(dbq)
    BY DEF HaltAnswered, PanicHalted, CommandSaved, Served, At, ThenNothing
  <1>2. dbq \in Seq(Writes) /\ Head(dbq) = dbq[1] /\ 1 \in 1..Len(dbq) /\ Head(dbq) \in Writes
    BY <1>1 DEF TypeOK, QueueType
  <1>3. IsHalt(dbq[1])
    BY <1>1, <1>2 DEF HaltAnswered, PanicHalted, CommandSaved, Served, At, IsHalt, AwaitInv
  <1>4. mem.halted /\ \A j \in 1..Len(dbq) : dbq[j].kind = "gate" => dbq[j].val[1]
    BY <1>1, <1>2, <1>3 DEF HaltInv
  <1>5. db'.halted = TRUE
    <2>1. dbq[1].val[1] \in BOOLEAN
      BY <1>2, <1>3 DEF IsHalt, Writes, Kinds
    <2> QED BY <1>1, <1>2, <1>3, <2>1, AppliedHalt DEF IsHalt, TypeOK
  <1>6. \A i \in 1..Len(dbq') : dbq'[i].kind = "gate" => dbq'[i].val[1] = TRUE
    <2>1. \A i \in 1..Len(dbq') : i + 1 \in 1..Len(dbq) /\ dbq'[i] = dbq[i + 1]
      BY <1>1, <1>2, PoppedQueue, Zenon
    <2>2. \A j \in 1..Len(dbq) : dbq[j].kind = "gate" => dbq[j].val[1] \in BOOLEAN
      BY <1>2 DEF Writes, Kinds
    <2> QED BY <1>4, <2>1, <2>2
  <1>7. mem'.halted = TRUE
    BY <1>1, <1>4 DEF TypeOK, MemType
  <1> QED BY <1>5, <1>6, <1>7 DEF Sure

(* The order path keeps what the gate promises the operator. Each step of the  *)
(* three processes, with whichever statements fail and whatever sells and the  *)
(* macro check save in between, is a step of the gate that loses nothing or no *)
(* step of it: what is sure stays until the next command, through crashes too. *)
(* And /halt and /panic_sell answer only when the halt is sure.                *)
THEOREM KeepsGate == Spec => GateKept
  <1>1. Init => Gate!Init /\ AwaitInv /\ HaltInv
    BY DEF Init, Boot, Gate!Init, Sure, AwaitInv, HaltInv
  <1>2. TypeOK /\ AwaitInv /\ HaltInv => [HaltAnswered => Sure' = "halted"]_vars
    BY AnsweredSure
  <1> QED BY <1>1, <1>2, TypeCorrect, StepGate, PTL DEF Spec, GateKept, Gate!Steady
=============================================================================
