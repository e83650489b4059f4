-------------------------- MODULE MarketRoundsProofs --------------------------
(* Proofs about MarketRounds, for any markets, lists and numbers of reloads    *)
(* and exceptions: its types, and that a buy was allowed in its round.         *)
EXTENDS MarketRounds, WellFoundedInduction, TLAPS

-----------------------------------------------------------------------------
(* The targets a round began with are among those offered since; this is what  *)
(* makes the property inductive.                                               *)

OfferedInv == st.target \subseteq offered

IInv == TypeOK /\ OfferedInv

\* A set of numbers that is not empty has a least one.
LEMMA LeastExists ==
  ASSUME NEW S \in SUBSET Nat, S # {}
  PROVE  \E m \in S : \A n \in S : m <= n
  <1>1. IsWellFoundedOn(OpToRel(<, Nat), Nat)
    BY NatLessThanWellFounded
  <1>2. PICK m \in S : \A n \in S : ~(<<n, m>> \in OpToRel(<, Nat))
    BY <1>1, WFMin
  <1>3. \A n \in S : ~(n < m)
    BY <1>2 DEF OpToRel
  <1> QED BY <1>3

\* The first of some markets is one of them.
LEMMA FirstType ==
  ASSUME NEW S \in SUBSET Markets, S # {}
  PROVE  First(S) \in S /\ \A n \in S : First(S) <= n
  BY LeastExists, RoundsAssumption DEF First, RoundsAssumption

Loops == [at : {"sleep", "decide", "buy", "sell"}, m : Markets \union {0},
          todo : SUBSET Markets, target : SUBSET Markets]

\* The state of a sleeping loop.
LEMMA RestingType ==
  Resting \in Loops /\ Resting.at = "sleep" /\ Resting.target = {}
  BY DEF Resting, Loops

\* Going on keeps the targets, takes a market in hand and leaves later ones.
LEMMA OnwardFacts ==
  ASSUME NEW target \in SUBSET Markets, NEW todo \in SUBSET Markets
  PROVE  LET s == Onward(target, todo) IN
         /\ s \in Loops
         /\ s.target \subseteq target
         /\ s.at # "sleep" => s.m \in Markets /\ \A m \in s.todo : s.m < m
  <1> DEFINE ready == {m \in todo : m \in candles /\ m \notin blocked}
             s == Onward(target, todo)
  <1>1. CASE ready = {}
    <2>1. s = Resting
      BY <1>1 DEF Onward
    <2> QED BY <2>1, RestingType
  <1>2. CASE ready # {}
    <2>1. s = [at |-> "decide", m |-> First(ready), target |-> target,
               todo |-> {m \in todo : First(ready) < m}]
      BY <1>2 DEF Onward
    <2>2. First(ready) \in Markets
      BY <1>2, FirstType
    <2>3. s \in Loops
      <3>1. {m \in todo : First(ready) < m} \in SUBSET Markets
        OBVIOUS
      <3> HIDE DEF ready
      <3> QED BY <2>1, <2>2, <3>1 DEF Loops
    <2>4. s.m = First(ready) /\ s.target = target /\ s.todo = {m \in todo : First(ready) < m}
      BY <2>1
    <2> HIDE DEF s, ready
    <2> QED BY <2>2, <2>3, <2>4 DEF s
  <1> QED BY <1>1, <1>2

\* The buy targets are markets.
LEMMA TargetType ==
  ASSUME NEW l \in [base : SUBSET Listable, surge : SUBSET Surgeable, on : BOOLEAN]
  PROVE  Target(l) \in SUBSET Markets
  BY RoundsAssumption DEF Target, RoundsAssumption

-----------------------------------------------------------------------------
(* The invariant is kept *)

LEMMA InitInv == Init => IInv
  <1> SUFFICES ASSUME Init
               PROVE  IInv
    OBVIOUS
  <1>1. st \in Loops /\ st.at = "sleep" /\ st.target = {}
    BY RestingType DEF Init
  <1>2. used \in [reloads : 0..MaxReloads, faults : 0..MaxFaults]
    BY RoundsAssumption DEF Init, RoundsAssumption
  <1>3. lists \in [base : SUBSET Listable, surge : SUBSET Surgeable, on : BOOLEAN]
    BY DEF Init
  <1>4. TypeOK
    BY <1>1, <1>2, <1>3 DEF Init, TypeOK, Loops
  <1> QED BY <1>1, <1>4 DEF IInv, OfferedInv

\* A step of the market loop fetches a market's candles or ends the round.
LEMMA MarketStep ==
  ASSUME IInv, MarketLoop
  PROVE  IInv'
  <1>1. /\ mk' \subseteq Markets /\ candles' \subseteq Markets \ Broken
        /\ used' \in [reloads : 0..MaxReloads, faults : 0..MaxFaults]
    <2>1. CASE MarketRound
      <3>1. Target(lists) \subseteq Markets
        BY TargetType DEF IInv, TypeOK
      <3> QED BY <2>1, <3>1 DEF MarketRound, Active, IInv, TypeOK
    <2>2. CASE Fetched
      <3>1. First(mk) \in Markets
        BY <2>2, FirstType DEF Fetched, IInv, TypeOK
      <3> QED BY <2>2, <3>1 DEF Fetched, IInv, TypeOK
    <2>3. CASE FetchFails
      <3>1. used' \in [reloads : 0..MaxReloads, faults : 0..MaxFaults]
        BY <2>3, RoundsAssumption DEF FetchFails, Fault, IInv, TypeOK, RoundsAssumption
      <3> QED BY <2>3, <3>1 DEF FetchFails, IInv, TypeOK
    <2> QED BY <2>1, <2>2, <2>3 DEF MarketLoop
  <1>2. UNCHANGED <<lists, held, blocked, st, offered>>
    BY DEF MarketLoop, MarketRound, Fetched, FetchFails
  <1>3. TypeOK'
    BY <1>1, <1>2 DEF IInv, TypeOK
  <1> QED BY <1>2, <1>3 DEF IInv, OfferedInv

\* A step of the strategy loop goes on with the targets of its round, or begins
\* one with the targets of the moment.
LEMMA StrategyStep ==
  ASSUME IInv, StrategyLoop
  PROVE  IInv'
  <1>1. /\ st \in Loops /\ st.target \subseteq offered /\ offered \subseteq Markets
        /\ st.at # "sleep" => st.m \in Markets /\ \A m \in st.todo : st.m < m
        /\ st.target \in SUBSET Markets /\ st.todo \in SUBSET Markets
        /\ Target(lists) \in SUBSET Markets /\ Active \in SUBSET Markets
    BY TargetType DEF IInv, TypeOK, OfferedInv, Loops, Active
  <1> DEFINE Good ==
         /\ st' \in Loops /\ st'.target \subseteq offered' /\ offered' \subseteq Markets
         /\ st'.at # "sleep" => st'.m \in Markets /\ \A m \in st'.todo : st'.m < m
  <1>2. ASSUME st' = Onward(st.target, st.todo), offered' = offered
        PROVE  Good
    BY <1>1, <1>2, OnwardFacts
  <1>3. ASSUME st' = Resting, offered' = offered
        PROVE  Good
    BY <1>1, <1>3, RestingType
  <1>4. Good
    <2>1. CASE RoundBegins
      BY <1>1, <2>1, OnwardFacts DEF RoundBegins
    <2>2. CASE Decided
      <3>1. PICK order \in {"buy", "sell"} : st' = [st EXCEPT !.at = order]
        BY <2>2 DEF Decided
      <3>2. st' = [at |-> order, m |-> st.m, todo |-> st.todo, target |-> st.target]
        BY <1>1, <3>1 DEF Loops
      <3>3. st' \in Loops
        BY <1>1, <3>2 DEF Loops
      <3>4. st.at # "sleep" /\ offered' = offered
        BY <2>2 DEF Decided
      <3> QED BY <1>1, <3>2, <3>3, <3>4
    <2>3. CASE DecisionFails
      BY <1>3, <2>3 DEF DecisionFails
    <2>4. CASE Holds \/ Buys \/ NoBuy
      BY <1>2, <2>4 DEF Holds, Buys, NoBuy
    <2> QED BY <2>1, <2>2, <2>3, <2>4 DEF StrategyLoop
  <1>5. UNCHANGED <<lists, blocked, candles, mk>>
    BY DEF StrategyLoop, RoundBegins, Holds, Decided, DecisionFails, Buys, NoBuy
  <1>6. held' \subseteq Markets
    BY <1>1 DEF StrategyLoop, RoundBegins, Holds, Decided, DecisionFails, Buys, NoBuy,
                IInv, TypeOK
  <1>7. used' \in [reloads : 0..MaxReloads, faults : 0..MaxFaults]
    <2>1. CASE DecisionFails
      BY <2>1, RoundsAssumption DEF DecisionFails, Fault, IInv, TypeOK, RoundsAssumption
    <2>2. CASE used' = used
      BY <2>2 DEF IInv, TypeOK
    <2> QED BY <2>1, <2>2 DEF StrategyLoop, RoundBegins, Holds, Decided, Buys, NoBuy
  <1>8. TypeOK'
    BY <1>4, <1>5, <1>6, <1>7 DEF IInv, TypeOK, Loops
  <1> QED BY <1>4, <1>8 DEF IInv, OfferedInv

\* The lists change: what is offered grows.
LEMMA OtherStep ==
  ASSUME IInv, Others \/ UNCHANGED vars
  PROVE  IInv'
  <1>1. CASE Reload \/ Relisted
    <2>1. lists' \in [base : SUBSET Listable, surge : SUBSET Surgeable, on : BOOLEAN]
      <3>1. /\ lists \in [base : SUBSET Listable, surge : SUBSET Surgeable, on : BOOLEAN]
            /\ lists = [base |-> lists.base, surge |-> lists.surge, on |-> lists.on]
            /\ lists.base \subseteq Listable /\ lists.surge \subseteq Surgeable
        BY DEF IInv, TypeOK
      <3>2. (~lists.on) \in BOOLEAN /\ lists.on \in BOOLEAN
        BY <3>1, Zenon
      <3> QED BY <1>1, <3>1, <3>2 DEF Reload, Relisted
    <2>2. used' \in [reloads : 0..MaxReloads, faults : 0..MaxFaults]
      BY <1>1, RoundsAssumption DEF Reload, Relisted, IInv, TypeOK, RoundsAssumption
    <2>3. Target(lists') \subseteq Markets
      BY <2>1, TargetType
    <2>4. offered \subseteq offered' /\ offered' \subseteq Markets
      BY <1>1, <2>3 DEF Reload, Relisted, IInv, TypeOK
    <2>5. UNCHANGED <<held, blocked, candles, mk, st>>
      BY <1>1 DEF Reload, Relisted
    <2>6. TypeOK'
      BY <2>1, <2>2, <2>4, <2>5 DEF IInv, TypeOK
    <2> QED BY <2>4, <2>5, <2>6 DEF IInv, OfferedInv
  <1>2. CASE Balanced \/ Gate
    <2>1. /\ held' \subseteq Markets /\ blocked' \subseteq Markets
          /\ UNCHANGED <<lists, candles, mk, st, offered, used>>
      BY <1>2 DEF Balanced, Gate, IInv, TypeOK
    <2>2. TypeOK'
      BY <2>1 DEF IInv, TypeOK
    <2> QED BY <2>1, <2>2 DEF IInv, OfferedInv
  <1>3. CASE UNCHANGED vars
    BY <1>3 DEF vars, IInv, TypeOK, OfferedInv
  <1> QED BY <1>1, <1>2, <1>3 DEF Others

\* The invariant holds in every reachable state.
LEMMA Invariance == Spec => []IInv
  <1>1. IInv /\ [Next]_vars => IInv'
    BY MarketStep, StrategyStep, OtherStep DEF Next
  <1> QED BY <1>1, InitInv, PTL DEF Spec

-----------------------------------------------------------------------------

(* The types of the variables hold in every reachable state.                   *)
THEOREM TypeCorrect == Spec => []TypeOK
  BY Invariance, PTL DEF IInv

(* Whatever the lists do meanwhile, a buy is ordered only of a market that was *)
(* a buy target at some time since its round began.                            *)
THEOREM BuysWereAllowed == Spec => BuysWereTargets
  <1>1. IInv => (Buys => st.m \in offered)
    BY DEF IInv, OfferedInv, Buys
  <1>2. IInv /\ [Next]_vars => [Buys => st.m \in offered]_vars
    BY <1>1
  <1> QED BY <1>2, Invariance, PTL DEF Spec, BuysWereTargets
=============================================================================
