--------------------------- MODULE KillSwitchProofs ---------------------------
(* Proofs about KillSwitch, for any markets, equities, thresholds and numbers  *)
(* of faults and crashes: its types, that an acknowledged halt or resume is    *)
(* durable, that the peak never falls and that no update is lost.              *)
EXTENDS KillSwitch, TLAPS

-----------------------------------------------------------------------------
(* Facts about a queue: a push, a pop, and the pop of the head followed by its *)
(* push at the tail.                                                           *)

\* Pushing extends the queue by one element and keeps the others in place.
LEMMA PushFacts ==
  ASSUME NEW q \in Seq(Callers), NEW p \in Callers
  PROVE  /\ Append(q, p) \in Seq(Callers)
         /\ Len(Append(q, p)) = Len(q) + 1
         /\ \A i \in 1..Len(q) : Append(q, p)[i] = q[i]
         /\ Append(q, p)[Len(q) + 1] = p
  OBVIOUS

\* Popping shifts every element but the head one place forward.
LEMMA PopFacts ==
  ASSUME NEW q \in Seq(Callers), q # <<>>
  PROVE  /\ Head(q) = q[1] /\ Head(q) \in Callers
         /\ Len(q) \in Nat /\ Len(q) >= 1
         /\ Tail(q) \in Seq(Callers)
         /\ Len(Tail(q)) = Len(q) - 1
         /\ \A i \in 1..Len(q) - 1 : Tail(q)[i] = q[i + 1]
  OBVIOUS

\* The queue after an upsert: the saver at the head goes to the back.
LEMMA RotateFacts ==
  ASSUME NEW q \in Seq(Callers), q # <<>>
  PROVE  LET r == Append(Tail(q), Head(q))
         IN  /\ r \in Seq(Callers) /\ Len(r) = Len(q)
             /\ \A i \in 1..Len(q) - 1 : r[i] = q[i + 1]
             /\ r[Len(q)] = q[1]
  <1>1. /\ Head(q) = q[1] /\ Head(q) \in Callers /\ Len(q) \in Nat
        /\ Tail(q) \in Seq(Callers) /\ Len(Tail(q)) = Len(q) - 1
        /\ \A i \in 1..Len(q) - 1 : Tail(q)[i] = q[i + 1]
    BY PopFacts
  <1>2. /\ Append(Tail(q), Head(q)) \in Seq(Callers)
        /\ Len(Append(Tail(q), Head(q))) = Len(Tail(q)) + 1
        /\ \A i \in 1..Len(Tail(q)) : Append(Tail(q), Head(q))[i] = Tail(q)[i]
        /\ Append(Tail(q), Head(q))[Len(Tail(q)) + 1] = Head(q)
    BY <1>1, PushFacts
  <1> QED BY <1>1, <1>2

-----------------------------------------------------------------------------
(* Types *)

\* The fields of a state keep their types under the updates the code makes.
LEMMA NoStateType == NoState \in State
  BY DEF NoState, State

\* No save in flight has the type of one.
LEMMA IdleType == Idle \in [snap : State, at : 0..COMMIT, word : Words]
  BY NoStateType DEF Idle, COMMIT, Words

\* The empty queue is a queue.
LEMMA EmptyQueue == <<>> \in Seq(Callers)
  OBVIOUS

\* The statements of a save write its four keys, the manual flag second.
LEMMA KeyFacts ==
  ASSUME NEW n \in 1..4
  PROVE  /\ Keys[n] \in {"macro", "manual", "peak", "micro"}
         /\ Keys[n] = "manual" <=> n = 2
  BY DEF Keys

\* An upsert leaves the database well typed.
LEMMA UpsertType ==
  ASSUME NEW t \in State, NEW s \in State, NEW k
  PROVE  [t EXCEPT ![k] = s[k]] \in State
  <1>1. CASE k \in {"macro", "manual", "peak", "micro"} BY <1>1 DEF State
  <1>2. CASE k \notin {"macro", "manual", "peak", "micro"} BY <1>2 DEF State
  <1> QED BY <1>1, <1>2

\* Persist submits a snapshot of the new fields.
LEMMA PersistType ==
  ASSUME TypeOK, NEW p \in Callers, NEW m \in State, NEW w \in Words,
         Persist(p, m, w)
  PROVE  /\ mem' \in State
         /\ dbq' \in Seq(Callers)
         /\ save' \in [Callers -> [snap : State, at : 0..COMMIT, word : Words]]
  BY PushFacts DEF TypeOK, Persist, COMMIT

\* Every variable always has its type.
THEOREM TypeCorrect == Spec => []TypeOK
  <1>1. Init => TypeOK
    <2> SUFFICES ASSUME Init PROVE TypeOK
      OBVIOUS
    <2>1. mem \in State /\ tx \in State /\ disk \in State
      BY NoStateType DEF Init
    <2>2. dbq \in Seq(Callers)
      BY EmptyQueue DEF Init
    <2>5. up \in BOOLEAN /\ undone \in BOOLEAN
      BY Zenon DEF Init
    <2>3. save \in [Callers -> [snap : State, at : 0..COMMIT, word : Words]]
      BY IdleType DEF Init
    <2>4. /\ told \in Words /\ equity \in Nat
          /\ faults \in 0..MaxFaults /\ crashes \in 0..MaxCrashes
      BY KillSwitchAssumption DEF KillSwitchAssumption, Init, Words
    <2> QED BY <2>1, <2>2, <2>3, <2>4, <2>5 DEF TypeOK
  <1>2. TypeOK /\ [Next]_vars => TypeOK'
    <2> SUFFICES ASSUME TypeOK, [Next]_vars PROVE TypeOK'
      OBVIOUS
    <2> USE KillSwitchAssumption DEF KillSwitchAssumption
    <2>1. ASSUME NEW e \in Equities, RaisePeak(e) PROVE TypeOK'
      <3>1. [mem EXCEPT !.peak = e] \in State BY DEF TypeOK, State
      <3> QED BY <2>1, <3>1, PersistType DEF RaisePeak, TypeOK, Callers, Words
    <2>2. ASSUME NEW e \in Equities, TripMacro(e) PROVE TypeOK'
      <3>1. [mem EXCEPT !.macro = TRUE] \in State BY DEF TypeOK, State
      <3> QED BY <2>2, <3>1, PersistType DEF TripMacro, TypeOK, Callers, Words
    <2>3. ASSUME NEW e \in Equities, QuietTick(e) PROVE TypeOK'
      BY <2>3 DEF QuietTick, TypeOK
    <2>4. ASSUME NEW p \in Callers, NEW m \in Markets,
                 NEW entry \in Quotes, NEW price \in Quotes,
                 CheckMicro(p, m, entry, price)
          PROVE  TypeOK'
      <3>1. [mem EXCEPT !.micro = @ \union {m}] \in State BY DEF TypeOK, State
      <3> QED BY <2>4, <3>1, PersistType DEF CheckMicro, TypeOK, Words
    <2>5. ASSUME ManualHalt PROVE TypeOK'
      <3>1. [mem EXCEPT !.manual = TRUE] \in State BY DEF TypeOK, State
      <3> QED BY <2>5, <3>1, PersistType DEF ManualHalt, TypeOK, Callers, Words
    <2>6. ASSUME Reset PROVE TypeOK'
      <3>1. [mem EXCEPT !.macro = FALSE, !.manual = FALSE, !.micro = {}] \in State
        BY DEF TypeOK, State
      <3> QED BY <2>6, <3>1, PersistType DEF Reset, TypeOK, Callers, Words
    <2>7. ASSUME NEW m \in Markets, ResetMarket(m) PROVE TypeOK'
      <3>1. [mem EXCEPT !.micro = @ \ {m}] \in State BY DEF TypeOK, State
      <3> QED BY <2>7, <3>1, PersistType DEF ResetMarket, TypeOK, Callers, Words
    <2>8. ASSUME Upsert PROVE TypeOK'
      <3> DEFINE p == Head(dbq)
      <3>1. p \in Callers /\ save[p].at \in 0..COMMIT /\ save[p].snap \in State
        BY <2>8, PopFacts DEF Upsert, TypeOK
      <3>2. dbq' \in Seq(Callers)
        BY <2>8, RotateFacts DEF Upsert, TypeOK
      <3>3. save' \in [Callers -> [snap : State, at : 0..COMMIT, word : Words]]
        <4>1. save[p].at + 1 \in 0..COMMIT
          BY <2>8, <3>1 DEF Upsert, COMMIT
        <4>2. /\ save[p] \in [snap : State, at : 0..COMMIT, word : Words]
              /\ save' = [save EXCEPT ![p].at = save[p].at + 1]
          BY <2>8, <3>1 DEF Upsert, TypeOK
        <4>3. [save[p] EXCEPT !.at = save[p].at + 1]
                \in [snap : State, at : 0..COMMIT, word : Words]
          BY <4>1, <4>2
        <4> QED BY <3>1, <4>2, <4>3 DEF TypeOK
      <3>4. tx' \in State
        <4>1. tx' = [tx EXCEPT ![Keys[save[p].at]] = save[p].snap[Keys[save[p].at]]]
          BY <2>8 DEF Upsert
        <4> QED BY <3>1, <4>1, UpsertType DEF TypeOK
      <3> QED BY <2>8, <3>2, <3>3, <3>4 DEF Upsert, TypeOK
    <2>9. ASSUME Commit PROVE TypeOK'
      BY <2>9, PopFacts, NoStateType DEF Commit, TypeOK, Idle, Words, COMMIT
    <2>10. ASSUME Fail PROVE TypeOK'
      BY <2>10, PopFacts, NoStateType DEF Fail, TypeOK, Idle, Words, COMMIT
    <2>11. ASSUME OtherCommit \/ OtherRollback PROVE TypeOK'
      <3>1. /\ mem' \in State /\ tx' \in State /\ disk' \in State
            /\ faults' \in 0..MaxFaults
        BY <2>11 DEF OtherCommit, OtherRollback, TypeOK
      <3>2. undone' \in BOOLEAN
        BY <2>11, Zenon DEF OtherCommit, OtherRollback, TypeOK
      <3> QED BY <2>11, <3>1, <3>2 DEF OtherCommit, OtherRollback, TypeOK
    <2>12. ASSUME Crash PROVE TypeOK'
      <3>1. mem' \in State /\ tx' \in State /\ disk' \in State
        BY <2>12, NoStateType DEF Crash, TypeOK
      <3>2. dbq' \in Seq(Callers) /\ equity' \in Nat
        BY <2>12, EmptyQueue DEF Crash, TypeOK
      <3>5. up' \in BOOLEAN /\ undone' \in BOOLEAN
        BY <2>12, Zenon DEF Crash, TypeOK
      <3>3. save' \in [Callers -> [snap : State, at : 0..COMMIT, word : Words]]
        BY <2>12, IdleType DEF Crash
      <3>4. /\ told' \in Words
            /\ faults' \in 0..MaxFaults /\ crashes' \in 0..MaxCrashes
        BY <2>12 DEF Crash, TypeOK
      <3> QED BY <3>1, <3>2, <3>3, <3>4, <3>5 DEF TypeOK
    <2>13. ASSUME Restart PROVE TypeOK'
      BY <2>13 DEF Restart, Restore, TypeOK
    <2>14. CASE UNCHANGED vars
      BY <2>14 DEF vars, TypeOK
    <2> QED
      BY <2>1, <2>2, <2>3, <2>4, <2>5, <2>6, <2>7, <2>8, <2>9, <2>10, <2>11,
         <2>12, <2>13, <2>14 DEF Next
  <1> QED BY <1>1, <1>2, PTL DEF Spec

-----------------------------------------------------------------------------
(* Durability of an acknowledged command                                       *)

InQueue(p) == \E i \in 1..Len(dbq) : dbq[i] = p

Before(p, q) ==
  \E i, j \in 1..Len(dbq) : i < j /\ dbq[i] = p /\ dbq[j] = q

\* Caller p took its snapshot before q did: the worker has served p at least
\* as many statements, and strictly more when q's next one comes first.
Ahead(p, q) ==
  \/ Before(p, q) /\ save[p].at >= save[q].at
  \/ Before(q, p) /\ save[p].at > save[q].at

\* The queue holds the callers that are saving, each once, none when down.
QueueInv ==
  /\ \A p \in Callers : save[p].at > 0 <=> InQueue(p)
  /\ \A i, j \in 1..Len(dbq) : dbq[i] = dbq[j] => i = j
  /\ ~up => dbq = <<>>
  /\ ~up => tx = disk

\* Only the bot's saves carry a word for the admin, and only while they run.
WordInv ==
  \A p \in Callers : save[p].word # "nothing" => p = "bot" /\ save[p].at > 0

Wanted(w) == w = "halted"

\* While a command is being saved, a snapshot that contradicts it is older.
PendingInv ==
  LET b == save["bot"]
  IN  b.word # "nothing" =>
        /\ b.snap.manual = Wanted(b.word) /\ mem.manual = Wanted(b.word)
        /\ told = "nothing"
        /\ \A p \in Callers :
             save[p].at > 0 /\ save[p].snap.manual # Wanted(b.word)
               => Ahead(p, "bot")
        /\ ~undone /\ b.at > 2 => tx.manual = Wanted(b.word)

\* Once it is acknowledged, memory, every snapshot and the database agree.
SettledInv ==
  ~undone /\ told # "nothing" =>
    /\ up => mem.manual = Wanted(told)
    /\ \A p \in Callers : save[p].at > 0 => save[p].snap.manual = Wanted(told)
    /\ tx.manual = Wanted(told) /\ disk.manual = Wanted(told)
    /\ \A p \in Callers : save[p].word = "nothing"

IInv == TypeOK /\ QueueInv /\ WordInv /\ PendingInv /\ SettledInv

\* A new save queues last: the order of the others stands, and all of them are
\* ahead of it.
LEMMA PushQueue ==
  ASSUME TypeOK, QueueInv, up, UNCHANGED <<up, tx, disk>>,
         NEW p \in Callers, save[p].at = 0, NEW m \in State, NEW w \in Words,
         Persist(p, m, w)
  PROVE  /\ QueueInv'
         /\ \A q, r \in Callers \ {p} : Ahead(q, r) => Ahead(q, r)'
         /\ \A q \in Callers \ {p} : save[q].at > 0 => Ahead(q, p)'
  <1>1. /\ dbq' = Append(dbq, p) /\ dbq \in Seq(Callers) /\ Len(dbq) \in Nat
        /\ Len(dbq') = Len(dbq) + 1
        /\ \A i \in 1..Len(dbq) : dbq'[i] = dbq[i]
        /\ dbq'[Len(dbq) + 1] = p
    BY PushFacts DEF TypeOK, Persist
  <1>2. /\ save'[p].at = 1
        /\ \A q \in Callers \ {p} : save'[q] = save[q]
        /\ \A q \in Callers : save[q].at \in 0..COMMIT
    BY DEF TypeOK, Persist
  <1>3. ~InQueue(p)
    BY DEF QueueInv
  <1>4. \A q \in Callers : InQueue(q)' <=> InQueue(q) \/ q = p
    BY <1>1 DEF InQueue
  <1>5. QueueInv'
    <2>1. \A q \in Callers : save'[q].at > 0 <=> InQueue(q)'
      BY <1>2, <1>4 DEF QueueInv
    <2>2. \A i, j \in 1..Len(dbq') : dbq'[i] = dbq'[j] => i = j
      BY <1>1, <1>3 DEF QueueInv, InQueue
    <2> QED BY <2>1, <2>2 DEF QueueInv
  <1>6. \A q, r \in Callers \ {p} : Before(q, r) => Before(q, r)'
    BY <1>1 DEF Before
  <1>7. \A q, r \in Callers \ {p} : Ahead(q, r) => Ahead(q, r)'
    BY <1>2, <1>6 DEF Ahead
  <1>8. \A q \in Callers \ {p} : save[q].at > 0 => Ahead(q, p)'
    <2> SUFFICES ASSUME NEW q \in Callers \ {p}, save[q].at > 0
                 PROVE  Ahead(q, p)'
      OBVIOUS
    <2>1. PICK i \in 1..Len(dbq) : dbq[i] = q
      BY DEF QueueInv, InQueue
    <2>2. Before(q, p)'
      BY <1>1, <2>1 DEF Before
    <2>3. save'[q].at >= 1
      BY <1>2
    <2> QED BY <1>2, <2>2, <2>3 DEF Ahead
  <1> QED BY <1>5, <1>7, <1>8

\* An upsert moves the head to the back and counts its statement: nobody is
\* overtaken.
LEMMA RotateQueue ==
  ASSUME TypeOK, QueueInv, Upsert
  PROVE  /\ QueueInv'
         /\ \A q, r \in Callers : q # r /\ Ahead(q, r) => Ahead(q, r)'
  <1>0. PICK p \in Callers : p = Head(dbq)
    BY PopFacts DEF TypeOK, Upsert, Commit, Fail
  <1> DEFINE n == Len(dbq)
  <1>1. /\ p = dbq[1] /\ n \in Nat /\ n >= 1
        /\ dbq' \in Seq(Callers) /\ Len(dbq') = n
        /\ \A i \in 1..n - 1 : dbq'[i] = dbq[i + 1]
        /\ dbq'[n] = p
    BY <1>0, PopFacts, RotateFacts DEF TypeOK, Upsert
  <1>2. /\ save'[p].at = save[p].at + 1
        /\ \A q \in Callers \ {p} : save'[q] = save[q]
        /\ \A q \in Callers : save[q].at \in Nat
    <2>1. \A q \in Callers : save[q].at \in 0..COMMIT
      BY DEF TypeOK
    <2>2. save' = [save EXCEPT ![p].at = @ + 1]
      BY <1>0 DEF Upsert
    <2> QED BY <2>1, <2>2 DEF TypeOK, COMMIT
  <1>3. \A i \in 1..n : dbq[i] = p => i = 1
    BY <1>1 DEF QueueInv
  <1>4. \A q \in Callers : InQueue(q)' <=> InQueue(q)
    <2>1. \A q \in Callers : InQueue(q) => InQueue(q)'
      <3> SUFFICES ASSUME NEW q \in Callers, NEW i \in 1..n, dbq[i] = q
                   PROVE  \E j \in 1..n : dbq'[j] = q
        BY <1>1 DEF InQueue
      <3>1. CASE i = 1 BY <3>1, <1>1
      <3>2. CASE i # 1
        <4>1. i - 1 \in 1..n - 1 /\ dbq'[i - 1] = q
          BY <3>2, <1>1
        <4> QED BY <4>1, <1>1
      <3> QED BY <3>1, <3>2
    <2>2. \A q \in Callers : InQueue(q)' => InQueue(q)
      <3> SUFFICES ASSUME NEW q \in Callers, NEW j \in 1..n, dbq'[j] = q
                   PROVE  \E i \in 1..n : dbq[i] = q
        BY <1>1 DEF InQueue
      <3>1. CASE j = n BY <3>1, <1>1
      <3>2. CASE j # n
        <4>1. j + 1 \in 1..n /\ dbq[j + 1] = q
          BY <3>2, <1>1
        <4> QED BY <4>1
      <3> QED BY <3>1, <3>2
    <2> QED BY <2>1, <2>2
  <1>5. QueueInv'
    <2>1. \A q \in Callers : save'[q].at > 0 <=> InQueue(q)'
      <3>1. InQueue(p) BY <1>1 DEF InQueue
      <3> QED BY <1>1, <1>2, <1>4, <3>1 DEF QueueInv
    <2>2. \A i, j \in 1..n : dbq'[i] = dbq'[j] => i = j
      <3> SUFFICES ASSUME NEW i \in 1..n, NEW j \in 1..n, dbq'[i] = dbq'[j]
                   PROVE  i = j
        OBVIOUS
      <3>1. CASE i = n /\ j # n
        <4>1. dbq[j + 1] = p /\ j + 1 \in 1..n BY <1>1, <3>1
        <4> QED BY <1>3, <4>1, <3>1
      <3>2. CASE i # n /\ j = n
        <4>1. dbq[i + 1] = p /\ i + 1 \in 1..n BY <1>1, <3>2
        <4> QED BY <1>3, <4>1, <3>2
      <3>3. CASE i # n /\ j # n
        <4>1. /\ i + 1 \in 1..n /\ j + 1 \in 1..n
              /\ dbq[i + 1] = dbq[j + 1]
          BY <1>1, <3>3
        <4>2. i + 1 = j + 1
          BY <4>1 DEF QueueInv
        <4> QED BY <4>2, <1>1
      <3> QED BY <3>1, <3>2, <3>3
    <2> QED BY <1>1, <2>1, <2>2 DEF QueueInv, Upsert
  <1>6. \A q, r \in Callers \ {p} : Before(q, r) => Before(q, r)'
    <2> SUFFICES ASSUME NEW q \in Callers \ {p}, NEW r \in Callers \ {p},
                        NEW i \in 1..n, NEW j \in 1..n,
                        i < j, dbq[i] = q, dbq[j] = r
                 PROVE  \E k, l \in 1..n : k < l /\ dbq'[k] = q /\ dbq'[l] = r
      BY <1>1 DEF Before
    <2>1. i # 1 /\ i - 1 \in 1..n - 1 /\ j - 1 \in 1..n - 1 /\ i - 1 < j - 1
      BY <1>1
    <2>2. dbq'[i - 1] = q /\ dbq'[j - 1] = r
      BY <1>1, <2>1
    <2>3. i - 1 \in 1..n /\ j - 1 \in 1..n
      BY <1>1, <2>1
    <2> QED BY <2>1, <2>2, <2>3
  <1>7. \A q \in Callers : ~Before(q, p)
    BY <1>1, <1>3 DEF Before
  <1>8. \A q \in Callers \ {p} : Before(p, q) => Before(q, p)'
    <2> SUFFICES ASSUME NEW q \in Callers \ {p}, NEW j \in 1..n, dbq[j] = q
                 PROVE  \E k, l \in 1..n : k < l /\ dbq'[k] = q /\ dbq'[l] = p
      BY <1>1 DEF Before
    <2>1. j # 1 /\ j - 1 \in 1..n - 1 /\ j - 1 < n
      BY <1>1
    <2>2. dbq'[j - 1] = q
      BY <1>1, <2>1
    <2> QED BY <1>1, <2>1, <2>2
  <1>9. ASSUME NEW q \in Callers, NEW r \in Callers, q # r, Ahead(q, r)
        PROVE  Ahead(q, r)'
    <2>1. CASE q = p
      <3>1. Before(p, r) /\ save[p].at >= save[r].at
        BY <1>7, <1>9, <2>1 DEF Ahead
      <3> QED BY <3>1, <1>2, <1>8, <1>9, <2>1 DEF Ahead
    <2>2. CASE r = p
      <3>1. Before(p, q) /\ save[q].at > save[p].at
        BY <1>7, <1>9, <2>2 DEF Ahead
      <3> QED BY <3>1, <1>1, <1>2, <1>8, <1>9, <2>2 DEF Ahead
    <2>3. CASE q # p /\ r # p
      BY <2>3, <1>2, <1>6, <1>9 DEF Ahead
    <2> QED BY <2>1, <2>2, <2>3
  <1> QED BY <1>5, <1>9

\* A save that returns or fails leaves the queue; the others keep their order.
LEMMA PopQueue ==
  ASSUME TypeOK, QueueInv, Commit \/ Fail
  PROVE  /\ QueueInv'
         /\ \A q, r \in Callers \ {Head(dbq)} : Ahead(q, r) => Ahead(q, r)'
  <1>0. PICK p \in Callers : p = Head(dbq)
    BY PopFacts DEF TypeOK, Upsert, Commit, Fail
  <1> DEFINE n == Len(dbq)
  <1>1. /\ p = dbq[1] /\ n \in Nat /\ n >= 1
        /\ dbq' \in Seq(Callers) /\ Len(dbq') = n - 1
        /\ \A i \in 1..n - 1 : dbq'[i] = dbq[i + 1]
        /\ up /\ up'
    BY <1>0, PopFacts DEF TypeOK, Commit, Fail
  <1>2. /\ save'[p].at = 0
        /\ \A q \in Callers \ {p} : save'[q] = save[q]
        /\ \A q \in Callers : save[q].at \in Nat
    <2>1. \A q \in Callers : save[q].at \in 0..COMMIT
      BY DEF TypeOK
    <2>2. save' = [save EXCEPT ![p] = Idle]
      BY <1>0 DEF Commit, Fail
    <2> QED BY <2>1, <2>2 DEF TypeOK, Idle, COMMIT
  <1>3. \A i \in 1..n : dbq[i] = p => i = 1
    BY <1>1 DEF QueueInv
  <1>4. \A q \in Callers : InQueue(q)' <=> InQueue(q) /\ q # p
    <2>1. \A q \in Callers \ {p} : InQueue(q) => InQueue(q)'
      <3> SUFFICES ASSUME NEW q \in Callers \ {p}, NEW i \in 1..n, dbq[i] = q
                   PROVE  \E j \in 1..n - 1 : dbq'[j] = q
        BY <1>1 DEF InQueue
      <3>1. i - 1 \in 1..n - 1 /\ dbq'[i - 1] = q
        BY <1>1
      <3> QED BY <3>1
    <2>2. \A q \in Callers : InQueue(q)' => InQueue(q) /\ q # p
      <3> SUFFICES ASSUME NEW q \in Callers, NEW j \in 1..n - 1, dbq'[j] = q
                   PROVE  q # p /\ \E i \in 1..n : dbq[i] = q
        BY <1>1 DEF InQueue
      <3>1. j + 1 \in 1..n /\ dbq[j + 1] = q /\ j + 1 # 1
        BY <1>1
      <3> QED BY <1>3, <3>1
    <2> QED BY <2>1, <2>2
  <1>5. QueueInv'
    <2>1. \A q \in Callers : save'[q].at > 0 <=> InQueue(q)'
      BY <1>1, <1>2, <1>4 DEF QueueInv
    <2>2. \A i, j \in 1..n - 1 : dbq'[i] = dbq'[j] => i = j
      <3> SUFFICES ASSUME NEW i \in 1..n - 1, NEW j \in 1..n - 1,
                          dbq'[i] = dbq'[j]
                   PROVE  i = j
        OBVIOUS
      <3>1. i + 1 \in 1..n /\ j + 1 \in 1..n /\ dbq[i + 1] = dbq[j + 1]
        BY <1>1
      <3>2. i + 1 = j + 1
        BY <3>1 DEF QueueInv
      <3> QED BY <3>2, <1>1
    <2> QED BY <1>1, <2>1, <2>2 DEF QueueInv
  <1>6. \A q, r \in Callers \ {p} : Before(q, r) => Before(q, r)'
    <2> SUFFICES ASSUME NEW q \in Callers \ {p}, NEW r \in Callers \ {p},
                        NEW i \in 1..n, NEW j \in 1..n,
                        i < j, dbq[i] = q, dbq[j] = r
                 PROVE  \E k, l \in 1..n - 1 :
                          k < l /\ dbq'[k] = q /\ dbq'[l] = r
      BY <1>1 DEF Before
    <2>1. i # 1 /\ i - 1 \in 1..n - 1 /\ j - 1 \in 1..n - 1 /\ i - 1 < j - 1
      BY <1>1
    <2>2. dbq'[i - 1] = q /\ dbq'[j - 1] = r
      BY <1>1, <2>1
    <2> QED BY <2>1, <2>2
  <1>7. \A q, r \in Callers \ {p} : Ahead(q, r) => Ahead(q, r)'
    BY <1>2, <1>6 DEF Ahead
  <1> QED BY <1>0, <1>5, <1>7

\* Whoever is ahead of the caller at the head has been served more often.
LEMMA AheadOfHead ==
  ASSUME TypeOK, QueueInv, dbq # <<>>, NEW q \in Callers, Ahead(q, Head(dbq))
  PROVE  save[q].at > save[Head(dbq)].at
  <1>1. /\ Head(dbq) = dbq[1] /\ Len(dbq) \in Nat /\ Len(dbq) >= 1
    BY PopFacts DEF TypeOK
  <1>2. \A i \in 1..Len(dbq) : dbq[i] = dbq[1] => i = 1
    BY <1>1 DEF QueueInv
  <1>3. ~Before(q, Head(dbq))
    BY <1>1, <1>2 DEF Before
  <1> QED BY <1>3 DEF Ahead

\* The caller at the head has been served at least as often as any it is ahead
\* of.
LEMMA HeadAhead ==
  ASSUME TypeOK, QueueInv, dbq # <<>>, NEW q \in Callers, Ahead(Head(dbq), q)
  PROVE  save[Head(dbq)].at >= save[q].at
  <1>1. Head(dbq) \in Callers
    BY PopFacts DEF TypeOK
  <1>2. \A r \in Callers : save[r].at \in 0..COMMIT
    BY DEF TypeOK
  <1> QED BY <1>1, <1>2 DEF Ahead, COMMIT

-----------------------------------------------------------------------------
(* A save that carries no word for the admin and no change of the manual flag  *)
(* disturbs neither the pending command nor the settled one.                   *)
LEMMA QuietSave ==
  ASSUME IInv, up, UNCHANGED <<up, tx, disk, told, undone>>,
         NEW p \in Callers, save[p].at = 0, NEW m \in State,
         m.manual = mem.manual, Persist(p, m, "nothing")
  PROVE  QueueInv' /\ WordInv' /\ PendingInv' /\ SettledInv'
  <1> USE DEF IInv
  <1>1. /\ QueueInv'
        /\ \A q, r \in Callers \ {p} : Ahead(q, r) => Ahead(q, r)'
        /\ \A q \in Callers \ {p} : save[q].at > 0 => Ahead(q, p)'
    BY PushQueue DEF Words
  <1>2. /\ save'[p] = [snap |-> m, at |-> 1, word |-> "nothing"] /\ mem' = m
        /\ \A q \in Callers \ {p} : save'[q] = save[q]
    BY DEF TypeOK, Persist
  <1>3. WordInv'
    BY <1>2 DEF WordInv
  <1>4. PendingInv'
    <2> SUFFICES ASSUME save'["bot"].word # "nothing" PROVE PendingInv'
      BY DEF PendingInv
    <2>1. p # "bot" /\ "bot" \in Callers /\ save'["bot"] = save["bot"]
      BY <1>2 DEF Callers
    <2>2. \A q \in Callers :
            save'[q].at > 0 /\ save'[q].snap.manual # Wanted(save["bot"].word)
              => q # p /\ q # "bot" /\ Ahead(q, "bot")
      <3>1. save["bot"].snap.manual = Wanted(save["bot"].word)
            /\ m.manual = Wanted(save["bot"].word)
        BY <2>1 DEF PendingInv
      <3> QED BY <1>2, <2>1, <3>1 DEF PendingInv
    <2> QED BY <1>1, <1>2, <2>1, <2>2 DEF PendingInv
  <1>5. SettledInv'
    BY <1>2 DEF SettledInv
  <1> QED BY <1>1, <1>3, <1>4, <1>5

\* /halt and /resume: every save in flight is older than the command's.
LEMMA CommandSave ==
  ASSUME IInv, up, UNCHANGED <<up, tx, disk>>, told' = "nothing",
         undone' = FALSE, save["bot"].at = 0, NEW m \in State,
         NEW w \in {"halted", "resumed"}, m.manual = Wanted(w),
         Persist("bot", m, w)
  PROVE  QueueInv' /\ WordInv' /\ PendingInv' /\ SettledInv'
  <1> USE DEF IInv
  <1>1. /\ QueueInv'
        /\ \A q \in Callers \ {"bot"} : save[q].at > 0 => Ahead(q, "bot")'
    BY PushQueue DEF Words, Callers
  <1>2. /\ save'["bot"] = [snap |-> m, at |-> 1, word |-> w] /\ mem' = m
        /\ \A q \in Callers \ {"bot"} : save'[q] = save[q]
    BY DEF TypeOK, Persist, Callers
  <1>3. WordInv'
    BY <1>2 DEF WordInv
  <1>4. PendingInv'
    BY <1>1, <1>2 DEF PendingInv
  <1>5. SettledInv'
    BY DEF SettledInv
  <1> QED BY <1>1, <1>3, <1>4, <1>5

\* What an upsert leaves of the manual flag.
LEMMA UpsertManual ==
  ASSUME TypeOK, QueueInv, Upsert, NEW p \in Callers, p = Head(dbq)
  PROVE  /\ save[p].at \in 1..4
         /\ save[p].at = 2 => tx'.manual = save[p].snap.manual
         /\ save[p].at # 2 => tx'.manual = tx.manual
         /\ save'[p].at = save[p].at + 1
         /\ save'[p].snap = save[p].snap /\ save'[p].word = save[p].word
         /\ \A q \in Callers \ {p} : save'[q] = save[q]
  <1>1. save[p].at \in 1..4
    <2>1. InQueue(p)
      <3>1. dbq[1] = p /\ 1 \in 1..Len(dbq)
        BY PopFacts DEF TypeOK, Upsert
      <3> QED BY <3>1 DEF InQueue
    <2>2. save[p].at > 0 /\ save[p].at \in 0..COMMIT /\ save[p].at < COMMIT
      BY <2>1 DEF TypeOK, QueueInv, Upsert
    <2> QED BY <2>2 DEF COMMIT
  <1>2. /\ Keys[save[p].at] \in {"macro", "manual", "peak", "micro"}
        /\ Keys[save[p].at] = "manual" <=> save[p].at = 2
    BY <1>1, KeyFacts
  <1>3. tx' = [tx EXCEPT ![Keys[save[p].at]] = save[p].snap[Keys[save[p].at]]]
    BY DEF Upsert
  <1>4. /\ save[p].at = 2 => tx'.manual = save[p].snap.manual
        /\ save[p].at # 2 => tx'.manual = tx.manual
    BY <1>2, <1>3 DEF TypeOK, State
  <1>5. save' = [save EXCEPT ![p].at = save[p].at + 1]
    BY DEF Upsert
  <1>6. /\ save'[p].at = save[p].at + 1
        /\ save'[p].snap = save[p].snap /\ save'[p].word = save[p].word
        /\ \A q \in Callers \ {p} : save'[q] = save[q]
    BY <1>5 DEF TypeOK
  <1> QED BY <1>1, <1>4, <1>6

-----------------------------------------------------------------------------
\* The inductive invariant holds initially and every step keeps it.
LEMMA InductiveInit == Init => QueueInv /\ WordInv /\ PendingInv /\ SettledInv
  <1> SUFFICES ASSUME Init
               PROVE  QueueInv /\ WordInv /\ PendingInv /\ SettledInv
    OBVIOUS
  <1>1. dbq = <<>> /\ tx = disk /\ \A p \in Callers : save[p] = Idle
    BY DEF Init
  <1>2. QueueInv
    <2>1. Len(dbq) = 0 BY <1>1
    <2> QED BY <1>1, <2>1 DEF QueueInv, InQueue, Idle
  <1>3. WordInv /\ PendingInv
    BY <1>1 DEF WordInv, PendingInv, Idle, Callers
  <1>4. SettledInv
    BY DEF SettledInv, Init
  <1> QED BY <1>2, <1>3, <1>4

\* The worker running an upsert keeps the inductive invariant.
LEMMA UpsertKeeps ==
  ASSUME IInv, Upsert
  PROVE  QueueInv' /\ WordInv' /\ PendingInv' /\ SettledInv'
  <1> USE DEF IInv
  <1>0. PICK p \in Callers : p = Head(dbq)
    BY PopFacts DEF TypeOK, Upsert
  <1>1. /\ QueueInv'
        /\ \A q, r \in Callers : q # r /\ Ahead(q, r) => Ahead(q, r)'
    BY RotateQueue
  <1>2. /\ save[p].at \in 1..4
        /\ save[p].at = 2 => tx'.manual = save[p].snap.manual
        /\ save[p].at # 2 => tx'.manual = tx.manual
        /\ save'[p].at = save[p].at + 1
        /\ save'[p].snap = save[p].snap /\ save'[p].word = save[p].word
        /\ \A q \in Callers \ {p} : save'[q] = save[q]
    BY <1>0, UpsertManual
  <1>3. /\ \A q \in Callers : save'[q].snap = save[q].snap
        /\ \A q \in Callers : save'[q].word = save[q].word
        /\ \A q \in Callers : save'[q].at > 0 <=> save[q].at > 0
    BY <1>2
  <1>4. /\ "bot" \in Callers /\ dbq # <<>>
        /\ UNCHANGED <<mem, disk, up, told, undone>>
    BY DEF Callers, Upsert
  <1>5. WordInv'
    BY <1>3 DEF WordInv
  <1>6. PendingInv'
    <2> SUFFICES ASSUME save["bot"].word # "nothing" PROVE PendingInv'
      BY <1>3, <1>4 DEF PendingInv
    <2> DEFINE w == Wanted(save["bot"].word)
    <2>1. \A q \in Callers : save[q].at > 0 /\ save[q].snap.manual # w
                               => q # "bot" /\ Ahead(q, "bot")
      BY DEF PendingInv
    <2>2. \A q \in Callers : save[q].at > 0 /\ save[q].snap.manual # w
                               => Ahead(q, "bot")'
      BY <1>1, <1>4, <2>1
    <2>3. ~undone /\ save'["bot"].at > 2 => tx'.manual = w
      <3> SUFFICES ASSUME ~undone, save'["bot"].at > 2 PROVE tx'.manual = w
        OBVIOUS
      <3>1. CASE p = "bot" /\ save[p].at = 2
        BY <1>2, <3>1 DEF PendingInv
      <3>2. CASE p = "bot" /\ save[p].at # 2
        BY <1>2, <3>2 DEF PendingInv
      <3>3. CASE p # "bot" /\ save[p].at # 2
        BY <1>2, <1>4, <3>3 DEF PendingInv
      <3>4. CASE p # "bot" /\ save[p].at = 2
        <4>1. save["bot"].at > 2
          BY <1>2, <1>4, <3>4
        <4>2. save[p].snap.manual = w
          <5> SUFFICES ASSUME save[p].snap.manual # w PROVE FALSE
            OBVIOUS
          <5>1. Ahead(Head(dbq), "bot")
            BY <1>0, <2>1, <3>4
          <5>2. save[p].at >= save["bot"].at
            BY <1>0, <1>4, <5>1, HeadAhead
          <5> QED BY <3>4, <4>1, <5>2 DEF TypeOK, COMMIT, Callers
        <4> QED BY <1>2, <3>4, <4>2
      <3> QED BY <3>1, <3>2, <3>3, <3>4
    <2> QED BY <1>3, <1>4, <2>2, <2>3 DEF PendingInv
  <1>7. SettledInv'
    <2> SUFFICES ASSUME ~undone, told # "nothing" PROVE SettledInv'
      BY <1>4 DEF SettledInv
    <2>1. tx'.manual = Wanted(told)
      BY <1>2 DEF SettledInv
    <2> QED BY <1>3, <1>4, <2>1 DEF SettledInv
  <1> QED BY <1>1, <1>5, <1>6, <1>7

\* A commit, which ends a save and acknowledges its command, keeps it.
LEMMA CommitKeeps ==
  ASSUME IInv, Commit
  PROVE  QueueInv' /\ WordInv' /\ PendingInv' /\ SettledInv'
  <1> USE DEF IInv
  <1>0. PICK p \in Callers : p = Head(dbq)
    BY PopFacts DEF TypeOK, Commit
  <1>1. /\ QueueInv'
        /\ \A q, r \in Callers \ {p} : Ahead(q, r) => Ahead(q, r)'
    BY <1>0, PopQueue
  <1>2. /\ save[p].at = 5 /\ save'[p] = Idle
        /\ \A q \in Callers \ {p} : save'[q] = save[q]
        /\ told' = IF save[p].word = "nothing" THEN told ELSE save[p].word
        /\ disk' = tx /\ "bot" \in Callers /\ dbq # <<>>
        /\ UNCHANGED <<mem, tx, up, undone>> /\ up
    BY <1>0 DEF Commit, TypeOK, COMMIT, Callers
  <1>3. WordInv'
    BY <1>2 DEF WordInv, Idle
  <1>4. CASE save[p].word = "nothing"
    <2>1. PendingInv'
      <3>1. CASE p = "bot" BY <1>2, <3>1 DEF PendingInv, Idle
      <3>2. CASE p # "bot"
        BY <1>1, <1>2, <1>4, <3>2 DEF PendingInv, Idle
      <3> QED BY <3>1, <3>2
    <2>2. SettledInv'
      BY <1>2, <1>4 DEF SettledInv, Idle
    <2> QED BY <1>1, <1>3, <2>1, <2>2
  <1>5. CASE save[p].word # "nothing"
    <2>1. p = "bot"
      BY <1>5 DEF WordInv
    <2>2. PendingInv'
      BY <1>2, <2>1 DEF PendingInv, Idle
    <2>3. \A q \in Callers \ {p} :
            save[q].at > 0 => save[q].snap.manual = Wanted(save[p].word)
      <3> SUFFICES ASSUME NEW q \in Callers \ {p}, save[q].at > 0,
                          save[q].snap.manual # Wanted(save[p].word)
                   PROVE  FALSE
        OBVIOUS
      <3>1. Ahead(q, Head(dbq))
        BY <1>0, <1>5, <2>1 DEF PendingInv
      <3>2. save[q].at > 5 /\ save[q].at \in 0..5
        BY <1>0, <1>2, <3>1, AheadOfHead DEF TypeOK, COMMIT
      <3> QED BY <3>2
    <2>4. SettledInv'
      <3>1. told' = save[p].word /\ mem.manual = Wanted(save[p].word)
        BY <1>2, <1>5, <2>1 DEF PendingInv
      <3>2. ~undone => tx.manual = Wanted(save[p].word)
        BY <1>2, <1>5, <2>1 DEF PendingInv
      <3>3. \A q \in Callers : save'[q].word = "nothing"
        BY <1>2, <2>1 DEF WordInv, Idle
      <3>4. \A q \in Callers :
              save'[q].at > 0 => save'[q].snap.manual = Wanted(save[p].word)
        BY <1>2, <2>3 DEF Idle
      <3> QED BY <1>2, <3>1, <3>2, <3>3, <3>4 DEF SettledInv
    <2> QED BY <1>1, <1>3, <2>2, <2>4
  <1> QED BY <1>4, <1>5

\* A failed statement, which ends a save in an exception, keeps it.
LEMMA FailKeeps ==
  ASSUME IInv, Fail
  PROVE  QueueInv' /\ WordInv' /\ PendingInv' /\ SettledInv'
  <1> USE DEF IInv
  <1>0. PICK p \in Callers : p = Head(dbq)
    BY PopFacts DEF TypeOK, Fail
  <1>1. /\ QueueInv'
        /\ \A q, r \in Callers \ {p} : Ahead(q, r) => Ahead(q, r)'
    BY <1>0, PopQueue
  <1>2. /\ save'[p] = Idle /\ "bot" \in Callers
        /\ \A q \in Callers \ {p} : save'[q] = save[q]
        /\ UNCHANGED <<mem, tx, disk, up, told, undone>>
    BY <1>0 DEF Fail, TypeOK, Callers
  <1>3. WordInv' /\ SettledInv'
    BY <1>2 DEF WordInv, SettledInv, Idle
  <1>4. PendingInv'
    <2>1. CASE p = "bot" BY <1>2, <2>1 DEF PendingInv, Idle
    <2>2. CASE p # "bot" BY <1>1, <1>2, <2>2 DEF PendingInv, Idle
    <2> QED BY <2>1, <2>2
  <1> QED BY <1>1, <1>3, <1>4

\* Every step of the coordinator and of the database keeps it.
LEMMA InductiveStep ==
  ASSUME IInv, [Next]_vars
  PROVE  QueueInv' /\ WordInv' /\ PendingInv' /\ SettledInv'
  <1> DEFINE Goal == QueueInv' /\ WordInv' /\ PendingInv' /\ SettledInv'
  <1> USE DEF IInv
  <1>1. ASSUME NEW e \in Equities, RaisePeak(e) PROVE Goal
    <2>1. /\ [mem EXCEPT !.peak = e] \in State
          /\ [mem EXCEPT !.peak = e].manual = mem.manual
      BY KillSwitchAssumption DEF KillSwitchAssumption, TypeOK, State
    <2> QED BY <1>1, <2>1, QuietSave DEF RaisePeak, Free, Callers
  <1>2. ASSUME NEW e \in Equities, TripMacro(e) PROVE Goal
    <2>1. /\ [mem EXCEPT !.macro = TRUE] \in State
          /\ [mem EXCEPT !.macro = TRUE].manual = mem.manual
      BY DEF TypeOK, State
    <2> QED BY <1>2, <2>1, QuietSave DEF TripMacro, Free, Callers
  <1>3. ASSUME NEW p \in Callers, NEW m \in Markets,
               NEW entry \in Quotes, NEW price \in Quotes,
               CheckMicro(p, m, entry, price)
        PROVE  Goal
    <2>1. /\ [mem EXCEPT !.micro = @ \union {m}] \in State
          /\ [mem EXCEPT !.micro = @ \union {m}].manual = mem.manual
      BY DEF TypeOK, State
    <2> QED BY <1>3, <2>1, QuietSave DEF CheckMicro, Free
  <1>4. ASSUME NEW m \in Markets, ResetMarket(m) PROVE Goal
    <2>1. /\ [mem EXCEPT !.micro = @ \ {m}] \in State
          /\ [mem EXCEPT !.micro = @ \ {m}].manual = mem.manual
      BY DEF TypeOK, State
    <2> QED BY <1>4, <2>1, QuietSave DEF ResetMarket, Free, Callers
  <1>5. ASSUME ManualHalt PROVE Goal
    <2>1. /\ [mem EXCEPT !.manual = TRUE] \in State
          /\ [mem EXCEPT !.manual = TRUE].manual = Wanted("halted")
      BY DEF TypeOK, State, Wanted
    <2> QED BY <1>5, <2>1, CommandSave DEF ManualHalt, Free
  <1>6. ASSUME Reset PROVE Goal
    <2> DEFINE m == [mem EXCEPT !.macro = FALSE, !.manual = FALSE, !.micro = {}]
    <2>1. m \in State /\ m.manual = Wanted("resumed")
      BY DEF TypeOK, State, Wanted
    <2> QED BY <1>6, <2>1, CommandSave DEF Reset, Free
  <1>7. ASSUME OtherCommit \/ OtherRollback PROVE Goal
    <2>1. /\ UNCHANGED <<mem, dbq, save, up, told>> /\ up
          /\ ~undone' => ~undone /\ tx' = tx /\ disk' = tx
      BY <1>7 DEF OtherCommit, OtherRollback
    <2>2. QueueInv' /\ WordInv'
      BY <2>1 DEF QueueInv, InQueue, WordInv
    <2>3. PendingInv'
      BY <2>1 DEF PendingInv, Ahead, Before
    <2>4. SettledInv'
      BY <2>1 DEF SettledInv
    <2> QED BY <2>2, <2>3, <2>4
  <1>8. ASSUME Crash PROVE Goal
    <2>1. /\ dbq' = <<>> /\ tx' = disk /\ disk' = disk /\ ~up'
          /\ \A p \in Callers : save'[p] = Idle
          /\ UNCHANGED <<told, undone>>
      BY <1>8 DEF Crash
    <2>2. QueueInv'
      <3>1. Len(dbq') = 0 BY <2>1
      <3> QED BY <2>1, <3>1 DEF QueueInv, InQueue, Idle
    <2>3. WordInv' /\ PendingInv'
      BY <2>1 DEF WordInv, PendingInv, Idle, Callers
    <2>4. SettledInv'
      BY <2>1 DEF SettledInv, Idle
    <2> QED BY <2>2, <2>3, <2>4
  <1>9. ASSUME Restart PROVE Goal
    <2>1. /\ mem' = disk /\ up' /\ ~up
          /\ UNCHANGED <<tx, disk, dbq, save, told, undone>>
      BY <1>9 DEF Restart, Restore
    <2>2. Len(dbq) = 0
      BY <2>1 DEF QueueInv
    <2>3. \A p \in Callers : save[p].at = 0 /\ save[p].word = "nothing"
      BY <2>2 DEF QueueInv, InQueue, WordInv, TypeOK, COMMIT
    <2>4. QueueInv' /\ WordInv'
      BY <2>1 DEF QueueInv, InQueue, WordInv
    <2>5. PendingInv'
      BY <2>1, <2>3 DEF PendingInv, Callers
    <2>6. SettledInv'
      BY <2>1, <2>3 DEF SettledInv
    <2> QED BY <2>4, <2>5, <2>6
  <1>10. ASSUME (\E e \in Equities : QuietTick(e)) \/ UNCHANGED vars PROVE Goal
    <2>1. UNCHANGED <<mem, tx, disk, dbq, save, up, told, undone>>
      BY <1>10 DEF QuietTick, vars
    <2> QED
      BY <2>1 DEF QueueInv, InQueue, WordInv, PendingInv, Ahead, Before, SettledInv
  <1> QED
    BY <1>1, <1>2, <1>3, <1>4, <1>5, <1>6, <1>7, <1>8, <1>9, <1>10,
       UpsertKeeps, CommitKeeps, FailKeeps DEF Next

\* The inductive invariant holds in every reachable state.
LEMMA Inductive == Spec => []IInv
  <1>1. Init => QueueInv /\ WordInv /\ PendingInv /\ SettledInv
    BY InductiveInit
  <1>2. TypeOK /\ QueueInv /\ WordInv /\ PendingInv /\ SettledInv /\ [Next]_vars
          => (QueueInv /\ WordInv /\ PendingInv /\ SettledInv)'
    BY InductiveStep DEF IInv
  <1>3. Spec => []TypeOK
    BY TypeCorrect
  <1> DEFINE Rest == QueueInv /\ WordInv /\ PendingInv /\ SettledInv
  <1>4. Init => Rest
    BY <1>1
  <1>5. TypeOK /\ Rest /\ [Next]_vars => Rest'
    BY <1>2
  <1>6. TypeOK /\ Rest => IInv
    BY DEF IInv
  <1> HIDE DEF Rest
  <1> QED BY <1>3, <1>4, <1>5, <1>6, PTL DEF Spec

\* A halt or a resume the admin saw acknowledged is what the database holds.
THEOREM AckIsDurable == Spec => []AckDurable
  <1>1. IInv => AckDurable
    BY DEF IInv, SettledInv, AckDurable, Wanted
  <1> QED BY <1>1, Inductive, PTL

\* The initial states of the coordinator are initial states of the gate.
LEMMA GateInit == Init => Gate!Init
  BY DEF Init, Gate!Init, NoState

\* Every step of the coordinator is a step of the gate or leaves it alone.
LEMMA GateStep ==
  ASSUME IInv, [Next]_vars
  PROVE  [Gate!Next]_(Gate!vars)
  <1> DEFINE sure == IF undone THEN "nothing" ELSE told
  <1> USE DEF IInv
  <1>1. ASSUME ManualHalt PROVE Gate!Command(TRUE) \/ Gate!Doubt
    <2>1. mem'.manual = TRUE
      BY <1>1 DEF ManualHalt, Persist, TypeOK, State
    <2> QED BY <1>1, <2>1 DEF ManualHalt, Gate!Command, Gate!Doubt, Free
  <1>2. ASSUME Reset PROVE Gate!Command(FALSE) \/ Gate!Doubt
    <2>1. mem'.manual = FALSE
      BY <1>2 DEF Reset, Persist, TypeOK, State
    <2> QED BY <1>2, <2>1 DEF Reset, Gate!Command, Gate!Doubt, Free
  <1>3. ASSUME Commit PROVE Gate!Confirm \/ UNCHANGED Gate!vars
    <2>0. PICK p \in Callers : p = Head(dbq)
      BY <1>3, PopFacts DEF TypeOK, Commit
    <2>1. /\ told' = IF save[p].word = "nothing" THEN told ELSE save[p].word
          /\ UNCHANGED <<mem, up, undone>> /\ up
      BY <1>3, <2>0 DEF Commit
    <2>2. CASE save[p].word = "nothing" \/ undone
      BY <2>1, <2>2 DEF Gate!vars
    <2>3. CASE save[p].word # "nothing" /\ ~undone
      <3>1. p = "bot" /\ save[p].word \in {"halted", "resumed"}
        BY <2>3 DEF WordInv, TypeOK, Words
      <3>2. mem.manual = Wanted(save[p].word) /\ told = "nothing"
        BY <2>3, <3>1 DEF PendingInv
      <3> QED BY <2>1, <2>3, <3>1, <3>2 DEF Gate!Confirm, Gate!Word, Wanted
    <2> QED BY <2>2, <2>3
  <1>4. ASSUME OtherRollback PROVE Gate!Doubt
    BY <1>4 DEF OtherRollback, Gate!Doubt
  <1>5. ASSUME Crash PROVE Gate!Crash
    BY <1>5 DEF Crash, Gate!Crash, NoState
  <1>6. ASSUME Restart PROVE Gate!Restart
    <2>1. /\ mem'.manual = disk.manual /\ disk.manual \in BOOLEAN
          /\ ~up /\ up' = TRUE /\ UNCHANGED <<told, undone>>
      BY <1>6 DEF Restart, Restore, TypeOK, State
    <2>2. /\ sure = "halted" => disk.manual
          /\ sure = "resumed" => ~disk.manual
      BY DEF SettledInv, Wanted
    <2> QED BY <2>1, <2>2 DEF Gate!Restart
  <1>8. ASSUME NEW e \in Equities, RaisePeak(e) \/ TripMacro(e)
        PROVE  UNCHANGED Gate!vars
    <2>1. mem'.manual = mem.manual /\ UNCHANGED <<up, told, undone>>
      BY <1>8 DEF RaisePeak, TripMacro, Persist, TypeOK, State
    <2> QED BY <2>1 DEF Gate!vars
  <1>9. ASSUME NEW p \in Callers, NEW m \in Markets,
               NEW entry \in Quotes, NEW price \in Quotes,
               CheckMicro(p, m, entry, price)
        PROVE  UNCHANGED Gate!vars
    <2>1. mem'.manual = mem.manual /\ UNCHANGED <<up, told, undone>>
      BY <1>9 DEF CheckMicro, Persist, TypeOK, State
    <2> QED BY <2>1 DEF Gate!vars
  <1>10. ASSUME NEW m \in Markets, ResetMarket(m) PROVE UNCHANGED Gate!vars
    <2>1. mem'.manual = mem.manual /\ UNCHANGED <<up, told, undone>>
      BY <1>10 DEF ResetMarket, Persist, TypeOK, State
    <2> QED BY <2>1 DEF Gate!vars
  <1>11. ASSUME \/ \E e \in Equities : QuietTick(e)
                \/ Upsert \/ Fail \/ OtherCommit \/ UNCHANGED vars
         PROVE  UNCHANGED Gate!vars
    BY <1>11 DEF QuietTick, Upsert, Fail, OtherCommit, vars, Gate!vars
  <1> QED
    BY <1>1, <1>2, <1>3, <1>4, <1>5, <1>6, <1>8, <1>9, <1>10, <1>11
       DEF Next, Gate!Next, Gate!Kept

\* The coordinator implements the operator's gate.
THEOREM ImplementsGate == Spec => GateSpec
  <1>1. Init => Gate!Init
    BY GateInit
  <1>2. IInv /\ [Next]_vars => [Gate!Next]_(Gate!vars)
    BY GateStep
  <1>3. Spec => []IInv
    BY Inductive
  <1> QED BY <1>1, <1>2, <1>3, PTL DEF Spec, GateSpec, Gate!Spec

-----------------------------------------------------------------------------
(* What an upsert writes                                                       *)

\* An upsert writes the key its save has reached, and no other.
LEMMA UpsertKey ==
  ASSUME TypeOK, QueueInv, Upsert, NEW p \in Callers, p = Head(dbq)
  PROVE  /\ save[p].at \in 1..4
         /\ tx'[Keys[save[p].at]] = save[p].snap[Keys[save[p].at]]
         /\ \A k \in 1..4 \ {save[p].at} : tx'[Keys[k]] = tx[Keys[k]]
         /\ save'[p].at = save[p].at + 1 /\ save'[p].snap = save[p].snap
         /\ \A q \in Callers \ {p} : save'[q] = save[q]
  <1>1. /\ save[p].at \in 1..4
        /\ save'[p].at = save[p].at + 1 /\ save'[p].snap = save[p].snap
        /\ \A q \in Callers \ {p} : save'[q] = save[q]
    BY UpsertManual
  <1>2. tx' = [tx EXCEPT ![Keys[save[p].at]] = save[p].snap[Keys[save[p].at]]]
    BY DEF Upsert
  <1>3. /\ Keys[1] = "macro" /\ Keys[2] = "manual"
        /\ Keys[3] = "peak" /\ Keys[4] = "micro"
    BY DEF Keys
  <1>4. tx \in State
    BY DEF TypeOK
  <1>5. CASE save[p].at = 1 BY <1>1, <1>2, <1>3, <1>4, <1>5 DEF State
  <1>6. CASE save[p].at = 2 BY <1>1, <1>2, <1>3, <1>4, <1>6 DEF State
  <1>7. CASE save[p].at = 3 BY <1>1, <1>2, <1>3, <1>4, <1>7 DEF State
  <1>8. CASE save[p].at = 4 BY <1>1, <1>2, <1>3, <1>4, <1>8 DEF State
  <1> QED BY <1>1, <1>5, <1>6, <1>7, <1>8

-----------------------------------------------------------------------------
(* The peak never falls                                                        *)

\* The peaks are in order along the way of a save: the database's, what the
\* connection sees, the snapshots that have yet to write it, the memory; and a
\* lower snapshot is ahead of a higher one.
PeakInv ==
  /\ disk.peak <= tx.peak
  /\ up => tx.peak <= mem.peak
  /\ \A p \in Callers : save[p].at > 0 => save[p].snap.peak <= mem.peak
  /\ \A p \in Callers : save[p].at \in 1..3 => tx.peak <= save[p].snap.peak
  /\ \A p, q \in Callers :
       save[p].at > 0 /\ save[q].at > 0 /\ save[p].snap.peak < save[q].snap.peak
         => Ahead(p, q)

LEMMA Peaks ==
  ASSUME TypeOK
  PROVE  /\ mem.peak \in Nat /\ tx.peak \in Nat /\ disk.peak \in Nat
         /\ \A p \in Callers : save[p].snap.peak \in Nat /\ save[p].at \in 0..5
  BY DEF TypeOK, State, COMMIT

\* A call that saves: the peak in its snapshot is no lower than the memory's.
Saving ==
  \E p \in Callers, m \in State, w \in Words :
    /\ Persist(p, m, w) /\ save[p].at = 0 /\ up /\ mem.peak <= m.peak
    /\ UNCHANGED <<up, tx, disk, faults>>

LEMMA SavingSteps ==
  ASSUME TypeOK,
         \/ \E e \in Equities : RaisePeak(e) \/ TripMacro(e)
         \/ \E p \in Callers, m \in Markets, entry, price \in Quotes :
              CheckMicro(p, m, entry, price)
         \/ ManualHalt \/ Reset
         \/ \E m \in Markets : ResetMarket(m)
  PROVE  Saving
  <1>1. ASSUME NEW e \in Equities, RaisePeak(e) PROVE Saving
    <2> DEFINE m0 == [mem EXCEPT !.peak = e]
    <2>1. m0 \in State /\ mem.peak <= m0.peak
      <3>1. mem \in State /\ mem.peak \in Nat /\ e \in Nat /\ e > mem.peak
        BY <1>1, KillSwitchAssumption DEF TypeOK, State, RaisePeak
      <3>2. m0 \in State /\ m0.peak = e
        BY <3>1 DEF State
      <3> HIDE DEF m0
      <3> QED BY <3>1, <3>2
    <2>2. Persist("monitor", m0, "nothing")
      BY <1>1 DEF RaisePeak
    <2>3. up /\ save["monitor"].at = 0 /\ "monitor" \in Callers /\ UNCHANGED <<up, tx, disk, faults>>
      BY <1>1 DEF RaisePeak, Free, Callers
    <2>4. "nothing" \in Words
      BY DEF Words
    <2> HIDE DEF m0
    <2> QED BY <2>1, <2>2, <2>3, <2>4 DEF Saving
  <1>2. ASSUME NEW e \in Equities, TripMacro(e) PROVE Saving
    <2> DEFINE m0 == [mem EXCEPT !.macro = TRUE]
    <2>1. m0 \in State /\ mem.peak <= m0.peak
      <3>1. mem \in State /\ mem.peak \in Nat
        BY DEF TypeOK, State
      <3>2. m0 \in State /\ m0.peak = mem.peak
        BY <3>1 DEF State
      <3> HIDE DEF m0
      <3> QED BY <3>1, <3>2
    <2>2. Persist("monitor", m0, "nothing")
      BY <1>2 DEF TripMacro
    <2>3. up /\ save["monitor"].at = 0 /\ "monitor" \in Callers /\ UNCHANGED <<up, tx, disk, faults>>
      BY <1>2 DEF TripMacro, Free, Callers
    <2>4. "nothing" \in Words
      BY DEF Words
    <2> HIDE DEF m0
    <2> QED BY <2>1, <2>2, <2>3, <2>4 DEF Saving
  <1>3. ASSUME NEW p \in Callers, NEW m \in Markets, NEW entry \in Quotes,
               NEW price \in Quotes, CheckMicro(p, m, entry, price) PROVE Saving
    <2> DEFINE m0 == [mem EXCEPT !.micro = @ \union {m}]
    <2>1. m0 \in State /\ mem.peak <= m0.peak
      <3>1. mem \in State /\ mem.peak \in Nat
        BY DEF TypeOK, State
      <3>2. m0 \in State /\ m0.peak = mem.peak
        BY <3>1 DEF State
      <3> HIDE DEF m0
      <3> QED BY <3>1, <3>2
    <2>2. Persist(p, m0, "nothing")
      BY <1>3 DEF CheckMicro
    <2>3. up /\ save[p].at = 0 /\ p \in Callers /\ UNCHANGED <<up, tx, disk, faults>>
      BY <1>3 DEF CheckMicro, Free, Callers
    <2>4. "nothing" \in Words
      BY DEF Words
    <2> HIDE DEF m0
    <2> QED BY <2>1, <2>2, <2>3, <2>4 DEF Saving
  <1>4. ASSUME NEW m \in Markets, ResetMarket(m) PROVE Saving
    <2> DEFINE m0 == [mem EXCEPT !.micro = @ \ {m}]
    <2>1. m0 \in State /\ mem.peak <= m0.peak
      <3>1. mem \in State /\ mem.peak \in Nat
        BY DEF TypeOK, State
      <3>2. m0 \in State /\ m0.peak = mem.peak
        BY <3>1 DEF State
      <3> HIDE DEF m0
      <3> QED BY <3>1, <3>2
    <2>2. Persist("bot", m0, "nothing")
      BY <1>4 DEF ResetMarket
    <2>3. up /\ save["bot"].at = 0 /\ "bot" \in Callers /\ UNCHANGED <<up, tx, disk, faults>>
      BY <1>4 DEF ResetMarket, Free, Callers
    <2>4. "nothing" \in Words
      BY DEF Words
    <2> HIDE DEF m0
    <2> QED BY <2>1, <2>2, <2>3, <2>4 DEF Saving
  <1>5. ASSUME ManualHalt PROVE Saving
    <2> DEFINE m0 == [mem EXCEPT !.manual = TRUE]
    <2>1. m0 \in State /\ mem.peak <= m0.peak
      <3>1. mem \in State /\ mem.peak \in Nat
        BY DEF TypeOK, State
      <3>2. m0 \in State /\ m0.peak = mem.peak
        BY <3>1 DEF State
      <3> HIDE DEF m0
      <3> QED BY <3>1, <3>2
    <2>2. Persist("bot", m0, "halted")
      BY <1>5 DEF ManualHalt
    <2>3. up /\ save["bot"].at = 0 /\ "bot" \in Callers /\ UNCHANGED <<up, tx, disk, faults>>
      BY <1>5 DEF ManualHalt, Free, Callers
    <2>4. "halted" \in Words
      BY DEF Words
    <2> HIDE DEF m0
    <2> QED BY <2>1, <2>2, <2>3, <2>4 DEF Saving
  <1>6. ASSUME Reset PROVE Saving
    <2> DEFINE m0 == [mem EXCEPT !.macro = FALSE, !.manual = FALSE, !.micro = {}]
    <2>1. m0 \in State /\ mem.peak <= m0.peak
      <3>1. mem \in State /\ mem.peak \in Nat
        BY DEF TypeOK, State
      <3>2. m0 \in State /\ m0.peak = mem.peak
        BY <3>1 DEF State
      <3> HIDE DEF m0
      <3> QED BY <3>1, <3>2
    <2>2. Persist("bot", m0, "resumed")
      BY <1>6 DEF Reset
    <2>3. up /\ save["bot"].at = 0 /\ "bot" \in Callers /\ UNCHANGED <<up, tx, disk, faults>>
      BY <1>6 DEF Reset, Free, Callers
    <2>4. "resumed" \in Words
      BY DEF Words
    <2> HIDE DEF m0
    <2> QED BY <2>1, <2>2, <2>3, <2>4 DEF Saving
  <1> QED BY <1>1, <1>2, <1>3, <1>4, <1>5, <1>6

\* The steps of the coordinator and of the database, the saves taken together.
LEMMA Steps ==
  ASSUME TypeOK, [Next]_vars
  PROVE  \/ Saving \/ Upsert \/ Commit \/ Fail \/ OtherCommit \/ OtherRollback
         \/ Crash \/ Restart \/ UNCHANGED <<mem, tx, disk, dbq, save, up, faults>>
  <1>1. ASSUME NEW e \in Equities, QuietTick(e)
        PROVE  UNCHANGED <<mem, tx, disk, dbq, save, up, faults>>
    BY <1>1 DEF QuietTick
  <1>2. CASE UNCHANGED vars
    BY <1>2 DEF vars
  <1> QED BY <1>1, <1>2, SavingSteps DEF Next

\* A new save does not lower the peak in memory.
LEMMA PeakSave ==
  ASSUME TypeOK, QueueInv, PeakInv, up, UNCHANGED <<up, tx, disk>>,
         NEW p \in Callers, save[p].at = 0, NEW m \in State, NEW w \in Words,
         mem.peak <= m.peak, Persist(p, m, w)
  PROVE  PeakInv'
  <1>1. /\ \A q, r \in Callers \ {p} : Ahead(q, r) => Ahead(q, r)'
        /\ \A q \in Callers \ {p} : save[q].at > 0 => Ahead(q, p)'
    BY PushQueue
  <1>2. /\ save'[p].snap = m /\ save'[p].at = 1 /\ mem' = m
        /\ \A q \in Callers \ {p} : save'[q] = save[q]
    BY DEF TypeOK, Persist
  <1>3. m.peak \in Nat
    BY DEF State
  <1>4. /\ disk'.peak <= tx'.peak
        /\ up' => tx'.peak <= mem'.peak
        /\ \A q \in Callers : save'[q].at > 0 => save'[q].snap.peak <= mem'.peak
        /\ \A q \in Callers : save'[q].at \in 1..3 => tx'.peak <= save'[q].snap.peak
    BY <1>2, <1>3, Peaks DEF PeakInv
  <1>5. ASSUME NEW q \in Callers, NEW r \in Callers, save'[q].at > 0, save'[r].at > 0,
               save'[q].snap.peak < save'[r].snap.peak
        PROVE  Ahead(q, r)'
    <2>1. CASE q = p
      <3>1. save'[r].snap.peak <= m.peak /\ save'[r].snap.peak \in Nat
        BY <1>2, <1>3, <1>4, <1>5, Peaks
      <3> QED BY <3>1, <2>1, <1>2, <1>3, <1>5
    <2>2. CASE q # p /\ r = p
      BY <1>1, <1>2, <1>5, <2>2
    <2>3. CASE q # p /\ r # p
      BY <1>1, <1>2, <1>5, <2>3 DEF PeakInv
    <2> QED BY <2>1, <2>2, <2>3
  <1> QED BY <1>4, <1>5 DEF PeakInv

\* Whoever writes the peak has the lowest of those yet to write it.
LEMMA PeakUpsert ==
  ASSUME TypeOK, QueueInv, PeakInv, Upsert
  PROVE  PeakInv'
  <1>0. PICK p \in Callers : p = Head(dbq)
    BY PopFacts DEF TypeOK, Upsert
  <1>1. \A q, r \in Callers : q # r /\ Ahead(q, r) => Ahead(q, r)'
    BY RotateQueue
  <1>2. /\ save[p].at \in 1..4
        /\ tx'[Keys[save[p].at]] = save[p].snap[Keys[save[p].at]]
        /\ \A k \in 1..4 \ {save[p].at} : tx'[Keys[k]] = tx[Keys[k]]
        /\ save'[p].at = save[p].at + 1 /\ save'[p].snap = save[p].snap
        /\ \A q \in Callers \ {p} : save'[q] = save[q]
    BY <1>0, UpsertKey
  <1>3. /\ UNCHANGED <<mem, disk, up>> /\ up /\ dbq # <<>>
        /\ Keys[3] = "peak"
    BY DEF Upsert, Keys
  <1>4. \A q \in Callers : /\ save'[q].snap = save[q].snap
                           /\ save'[q].at > 0 <=> save[q].at > 0
    BY <1>2, Peaks
  <1>5. ASSUME NEW q \in Callers, NEW r \in Callers, save'[q].at > 0, save'[r].at > 0,
               save'[q].snap.peak < save'[r].snap.peak
        PROVE  Ahead(q, r)'
    <2>1. Ahead(q, r) /\ q # r
      BY <1>4, <1>5, Peaks DEF PeakInv
    <2> QED BY <2>1, <1>1
  <1>6. CASE save[p].at = 3
    <2>1. tx'.peak = save[p].snap.peak
      BY <1>2, <1>3, <1>6
    <2>2. ASSUME NEW q \in Callers, save'[q].at \in 1..3 PROVE tx'.peak <= save'[q].snap.peak
      <3>1. q # p /\ save[q].at \in 1..3
        BY <1>2, <1>6, <2>2
      <3>2. ASSUME save[q].snap.peak < save[p].snap.peak PROVE FALSE
        <4>1. Ahead(q, Head(dbq))
          BY <1>0, <1>6, <3>1, <3>2 DEF PeakInv
        <4>2. save[q].at > 3
          BY <1>0, <1>3, <1>6, <4>1, AheadOfHead
        <4> QED BY <3>1, <4>2
      <3> QED BY <3>2, <2>1, <1>4, Peaks
    <2>3. tx.peak <= save[p].snap.peak /\ save[p].snap.peak <= mem.peak
      BY <1>6 DEF PeakInv
    <2>4. disk'.peak <= tx'.peak /\ tx'.peak <= mem'.peak
      BY <2>1, <2>3, <1>3, Peaks DEF PeakInv
    <2> QED BY <1>3, <1>4, <1>5, <2>2, <2>4 DEF PeakInv
  <1>7. CASE save[p].at # 3
    <2>1. tx'.peak = tx.peak
      BY <1>2, <1>3, <1>7
    <2>2. ASSUME NEW q \in Callers, save'[q].at \in 1..3 PROVE save[q].at \in 1..3
      BY <1>2, <2>2
    <2> QED BY <1>3, <1>4, <1>5, <2>1, <2>2 DEF PeakInv
  <1> QED BY <1>6, <1>7

LEMMA PeakPop ==
  ASSUME TypeOK, QueueInv, PeakInv, Commit \/ Fail
  PROVE  PeakInv'
  <1>0. PICK p \in Callers : p = Head(dbq)
    BY PopFacts DEF TypeOK, Commit, Fail
  <1>1. \A q, r \in Callers \ {p} : Ahead(q, r) => Ahead(q, r)'
    BY <1>0, PopQueue
  <1>2. /\ save'[p].at = 0 /\ \A q \in Callers \ {p} : save'[q] = save[q]
        /\ UNCHANGED <<mem, tx, up>> /\ (disk' = disk \/ disk' = tx)
    BY <1>0 DEF Commit, Fail, TypeOK, Idle
  <1> QED BY <1>1, <1>2, Peaks DEF PeakInv

LEMMA PeakInit == Init => PeakInv
  BY DEF Init, PeakInv, NoState, Idle

LEMMA PeakStep ==
  ASSUME TypeOK, QueueInv, PeakInv, [Next]_vars
  PROVE  PeakInv'
  <1>1. CASE Saving
    <2>1. PICK p \in Callers, m \in State, w \in Words :
            /\ Persist(p, m, w) /\ save[p].at = 0 /\ up /\ mem.peak <= m.peak
            /\ UNCHANGED <<up, tx, disk, faults>>
      BY <1>1 DEF Saving
    <2> QED BY <2>1, PeakSave
  <1>7. ASSUME OtherCommit \/ OtherRollback PROVE PeakInv'
    <2>1. /\ UNCHANGED <<mem, dbq, save, up>>
          /\ disk' = tx' /\ (tx' = tx \/ tx' = disk)
      BY <1>7 DEF OtherCommit, OtherRollback
    <2>2. tx'.peak <= tx.peak /\ disk'.peak = tx'.peak /\ tx'.peak \in Nat
      BY <2>1, Peaks DEF PeakInv
    <2>3. \A p, q \in Callers : Ahead(p, q) => Ahead(p, q)'
      BY <2>1 DEF Ahead, Before
    <2> QED BY <2>1, <2>2, <2>3, Peaks DEF PeakInv
  <1>8. ASSUME Crash PROVE PeakInv'
    <2>1. /\ tx' = disk /\ disk' = disk /\ ~up'
          /\ \A p \in Callers : save'[p].at = 0
      BY <1>8 DEF Crash, Idle
    <2> QED BY <2>1, Peaks DEF PeakInv
  <1>9. ASSUME Restart PROVE PeakInv'
    <2>1. mem' = disk /\ ~up /\ UNCHANGED <<tx, disk, dbq, save>>
      BY <1>9 DEF Restart, Restore
    <2>2. tx = disk /\ Len(dbq) = 0
      BY <2>1 DEF QueueInv
    <2>3. \A p \in Callers : save[p].at = 0
      BY <2>2, Peaks DEF QueueInv, InQueue
    <2> QED BY <2>1, <2>2, <2>3, Peaks DEF PeakInv
  <1>10. CASE UNCHANGED <<mem, tx, disk, dbq, save, up, faults>>
    BY <1>10 DEF PeakInv, Ahead, Before
  <1> QED BY <1>1, <1>7, <1>8, <1>9, <1>10, PeakUpsert, PeakPop, Steps

\* The high-water mark in the database never falls, whichever of three
\* concurrent savers, rollbacks and crashes come between.
THEOREM PeakIsKept == Spec => PeakKept
  <1>1. TypeOK /\ QueueInv /\ PeakInv /\ [Next]_vars => PeakInv'
    BY PeakStep
  <1>2. TypeOK /\ PeakInv /\ [Next]_vars => [disk'.peak >= disk.peak]_vars
    <2> SUFFICES ASSUME TypeOK, PeakInv, Next PROVE disk'.peak >= disk.peak
      OBVIOUS
    <2>1. disk' = disk \/ disk' = tx
      BY Steps DEF Saving, Upsert, Commit, Fail, OtherCommit, OtherRollback, Crash, Restart
    <2> QED BY <2>1, Peaks DEF PeakInv
  <1>3. IInv => TypeOK /\ QueueInv
    BY DEF IInv
  <1> QED BY <1>1, <1>2, <1>3, PeakInit, Inductive, PTL DEF Spec, PeakKept

-----------------------------------------------------------------------------
(* No update is lost                                                           *)

\* Caller p called last: its snapshot is the memory, every other save under way
\* is ahead of it, and the keys it has written are as in memory.
Latest(p) ==
  /\ save[p].at > 0 /\ save[p].snap = mem
  /\ \A q \in Callers \ {p} : save[q].at > 0 => Ahead(q, p)
  /\ \A k \in 1..4 : k < save[p].at => tx[Keys[k]] = mem[Keys[k]]

\* Without a fault, there is such a caller until the database is as the memory.
LatestInv ==
  up /\ faults = 0 =>
    IF dbq = <<>> THEN tx = mem /\ disk = mem ELSE \E p \in Callers : Latest(p)

LEMMA LatestSave ==
  ASSUME TypeOK, QueueInv, Saving
  PROVE  LatestInv'
  <1>1. PICK p \in Callers, m \in State, w \in Words :
          /\ Persist(p, m, w) /\ save[p].at = 0 /\ up /\ mem.peak <= m.peak
          /\ UNCHANGED <<up, tx, disk, faults>>
    BY DEF Saving
  <1>2. \A q \in Callers \ {p} : save[q].at > 0 => Ahead(q, p)'
    BY <1>1, PushQueue
  <1>3. /\ save'[p].snap = m /\ save'[p].at = 1 /\ mem' = m
        /\ \A q \in Callers \ {p} : save'[q] = save[q]
    BY <1>1 DEF TypeOK, Persist
  <1>4. dbq' # <<>>
    BY <1>1, PushFacts DEF TypeOK, Persist
  <1>5. Latest(p)'
    BY <1>2, <1>3 DEF Latest
  <1> QED BY <1>4, <1>5 DEF LatestInv

\* Whoever else writes has been served more often than the last caller, so it
\* writes a key the last caller has still to write.
LEMMA LatestUpsert ==
  ASSUME TypeOK, QueueInv, LatestInv, Upsert
  PROVE  LatestInv'
  <1>0. PICK h \in Callers : h = Head(dbq)
    BY PopFacts DEF TypeOK, Upsert
  <1>1. \A q, r \in Callers : q # r /\ Ahead(q, r) => Ahead(q, r)'
    BY RotateQueue
  <1>2. /\ save[h].at \in 1..4
        /\ tx'[Keys[save[h].at]] = save[h].snap[Keys[save[h].at]]
        /\ \A k \in 1..4 \ {save[h].at} : tx'[Keys[k]] = tx[Keys[k]]
        /\ save'[h].at = save[h].at + 1 /\ save'[h].snap = save[h].snap
        /\ \A q \in Callers \ {h} : save'[q] = save[q]
    BY <1>0, UpsertKey
  <1>3. UNCHANGED <<mem, disk, up, faults>> /\ up /\ dbq # <<>>
    BY DEF Upsert
  <1>4. dbq' # <<>>
    BY PopFacts, PushFacts DEF Upsert, TypeOK
  <1> SUFFICES ASSUME faults = 0 PROVE \E p \in Callers : Latest(p)'
    BY <1>3, <1>4 DEF LatestInv
  <1>5. PICK p \in Callers : Latest(p)
    BY <1>3 DEF LatestInv
  <1>6. \A q \in Callers : /\ save'[q].snap = save[q].snap
                           /\ save'[q].at > 0 <=> save[q].at > 0
    BY <1>2, Peaks
  <1>7. \A q \in Callers \ {p} : save'[q].at > 0 => Ahead(q, p)'
    BY <1>1, <1>5, <1>6 DEF Latest
  <1>8. ASSUME NEW k \in 1..4, k < save'[p].at PROVE tx'[Keys[k]] = mem[Keys[k]]
    <2>1. CASE p = h /\ k = save[h].at
      BY <1>2, <1>5, <2>1 DEF Latest
    <2>2. CASE p = h /\ k # save[h].at
      BY <1>2, <1>5, <1>8, <2>2 DEF Latest
    <2>3. CASE p # h
      <3>1. save[h].at >= save[p].at
        BY <1>0, <1>2, <1>3, <1>5, <2>3, HeadAhead DEF Latest
      <3>2. k < save[p].at /\ k # save[h].at
        BY <1>2, <1>8, <2>3, <3>1, Peaks
      <3> QED BY <1>2, <1>5, <3>2 DEF Latest
    <2> QED BY <2>1, <2>2, <2>3
  <1>9. Latest(p)'
    BY <1>3, <1>5, <1>6, <1>7, <1>8 DEF Latest
  <1> QED BY <1>9

\* The last caller commits last.
LEMMA LatestCommit ==
  ASSUME TypeOK, QueueInv, LatestInv, Commit
  PROVE  LatestInv'
  <1>0. PICK h \in Callers : h = Head(dbq)
    BY PopFacts DEF TypeOK, Commit
  <1>1. /\ QueueInv'
        /\ \A q, r \in Callers \ {h} : Ahead(q, r) => Ahead(q, r)'
    BY <1>0, PopQueue
  <1>2. /\ save[h].at = 5 /\ save'[h].at = 0
        /\ \A q \in Callers \ {h} : save'[q] = save[q]
        /\ UNCHANGED <<mem, tx, up, faults>> /\ up /\ disk' = tx /\ dbq # <<>>
    BY <1>0 DEF Commit, TypeOK, Idle, COMMIT
  <1> SUFFICES ASSUME faults = 0 PROVE LatestInv'
    BY <1>2 DEF LatestInv
  <1>3. PICK p \in Callers : Latest(p)
    BY <1>2 DEF LatestInv
  <1>4. CASE p = h
    <2>1. \A q \in Callers \ {h} : save[q].at = 0
      <3> SUFFICES ASSUME NEW q \in Callers \ {h}, save[q].at > 0 PROVE FALSE
        BY Peaks
      <3>1. save[q].at > 5
        BY <1>0, <1>2, <1>3, <1>4, AheadOfHead DEF Latest
      <3> QED BY <3>1, Peaks
    <2>2. \A q \in Callers : ~InQueue(q)'
      BY <1>1, <1>2, <2>1 DEF QueueInv
    <2>3. dbq' = <<>>
      <3>1. dbq' \in Seq(Callers)
        BY PopFacts DEF Commit, TypeOK
      <3>2. ASSUME dbq' # <<>> PROVE FALSE
        <4>1. Len(dbq') >= 1 /\ dbq'[1] \in Callers
          BY <3>1, <3>2
        <4> QED BY <2>2, <4>1 DEF InQueue
      <3> QED BY <3>2
    <2>4. tx = mem
      <3>1. \A k \in 1..4 : tx[Keys[k]] = mem[Keys[k]]
        BY <1>2, <1>3, <1>4 DEF Latest
      <3>2. tx.macro = mem.macro /\ tx.manual = mem.manual
            /\ tx.peak = mem.peak /\ tx.micro = mem.micro
        <4>1. /\ Keys[1] = "macro" /\ Keys[2] = "manual"
              /\ Keys[3] = "peak" /\ Keys[4] = "micro"
          BY DEF Keys
        <4> QED BY <3>1, <4>1
      <3>3. tx = [macro |-> tx.macro, manual |-> tx.manual, peak |-> tx.peak, micro |-> tx.micro]
        BY Zenon DEF TypeOK, State
      <3>4. mem = [macro |-> mem.macro, manual |-> mem.manual, peak |-> mem.peak,
                   micro |-> mem.micro]
        BY Zenon DEF TypeOK, State
      <3> QED BY <3>2, <3>3, <3>4, Zenon
    <2> QED BY <1>2, <2>3, <2>4 DEF LatestInv
  <1>5. CASE p # h
    <2>1. Latest(p)'
      BY <1>1, <1>2, <1>3, <1>5 DEF Latest
    <2>2. dbq' # <<>>
      <3>1. InQueue(p)'
        BY <1>1, <2>1 DEF QueueInv, Latest
      <3> QED BY <3>1 DEF InQueue
    <2> QED BY <2>1, <2>2 DEF LatestInv
  <1> QED BY <1>4, <1>5

LEMMA LatestInit == Init => LatestInv
  BY DEF Init, LatestInv

LEMMA LatestStep ==
  ASSUME TypeOK, QueueInv, LatestInv, [Next]_vars
  PROVE  LatestInv'
  <1>1. CASE Fail \/ OtherRollback
    <2>1. faults' # 0
      BY <1>1 DEF Fail, OtherRollback, TypeOK
    <2> QED BY <2>1 DEF LatestInv
  <1>2. CASE OtherCommit
    <2>1. UNCHANGED <<mem, tx, dbq, save, up, faults>> /\ disk' = tx
      BY <1>2 DEF OtherCommit
    <2> QED BY <2>1 DEF LatestInv, Latest, Ahead, Before
  <1>3. CASE Crash
    BY <1>3 DEF Crash, LatestInv
  <1>4. CASE Restart
    <2>1. mem' = disk /\ ~up /\ UNCHANGED <<tx, disk, dbq>>
      BY <1>4 DEF Restart, Restore
    <2> QED BY <2>1 DEF QueueInv, LatestInv
  <1>5. CASE UNCHANGED <<mem, tx, disk, dbq, save, up, faults>>
    BY <1>5 DEF LatestInv, Latest, Ahead, Before
  <1> QED BY <1>1, <1>2, <1>3, <1>4, <1>5, LatestSave, LatestUpsert, LatestCommit, Steps

\* Three callers may save at once, each a snapshot of everything: without a
\* fault the idle database is as the memory.
THEOREM NothingIsLost == Spec => []NoLostUpdate
  <1>1. TypeOK /\ QueueInv /\ LatestInv /\ [Next]_vars => LatestInv'
    BY LatestStep
  <1>2. LatestInv => NoLostUpdate
    BY DEF LatestInv, NoLostUpdate
  <1>3. IInv => TypeOK /\ QueueInv
    BY DEF IInv
  <1> QED BY <1>1, <1>2, <1>3, LatestInit, Inductive, PTL DEF Spec
=============================================================================
