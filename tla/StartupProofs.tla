----------------------------- MODULE StartupProofs -----------------------------
(* What Startup keeps, for every list of migrations and every set of           *)
(* strategies, with any number of crashes and edits.                           *)
EXTENDS Startup, TLAPS

-----------------------------------------------------------------------------
(* The invariant *)

\* What is marked is there; run_migrations is at the first version that is not
\* marked, and has the statements before its own.
DbInv ==
  /\ \A v \in Versions : v <= version => schema[v] = Statements[v]
  /\ stage = "migrating" =>
       at.version = version + 1 /\ at.statement <= schema[at.version] + 1
  /\ stage = "ready" => version = Latest

\* A class that is cached has its own time beside it.
CacheInv == \A n \in Names : classes[n] # "none" => mtimes[n] = classes[n]

\* The process is up only past the migrations; before, it has answered nothing.
UpInv == IF Up THEN stage = "ready" ELSE reply = "none"

\* The invariant of the manager's half.
HotInv == ManagerTypeOK /\ CacheInv /\ UpInv /\ FreshStrategy /\ SettingsInForce

LEMMA Counts == Latest \in Nat \ {0} /\ Statements \in [Versions -> Nat \ {0}]
  BY MigrationAssumption DEF Latest, Versions

-----------------------------------------------------------------------------
(* The database *)

LEMMA DbStart == Init => DbTypeOK /\ DbInv
<1> SUFFICES ASSUME Init PROVE DbTypeOK /\ DbInv
  OBVIOUS
<1>1. version \in 0..Latest /\ stage = "down" /\ at = [version |-> 1, statement |-> 1]
      /\ schema = [v \in Versions |-> IF v <= version THEN Statements[v] ELSE 0]
  BY DEF Init, DbInit, Start
<1>2. 1 \in Versions
  BY Counts DEF Versions
<1>3. schema \in [Versions -> Nat] /\ \A v \in Versions : schema[v] <= Statements[v]
  BY <1>1, Counts
<1>4. at \in [version : Versions, statement : Nat \ {0}]
      /\ at.statement <= Statements[at.version] + 1
  BY <1>1, <1>2, Counts
<1>5. DbTypeOK
  BY <1>1, <1>3, <1>4 DEF DbTypeOK
<1>6. DbInv
  BY <1>1, Counts DEF DbInv
<1> QED
  BY <1>5, <1>6

\* A new count for one version that stays within its statements.
LEMMA SchemaGrows ==
  ASSUME DbTypeOK, NEW v \in Versions, NEW k \in Nat, k <= Statements[v],
         schema' = [schema EXCEPT ![v] = IF @ < k THEN k ELSE @]
  PROVE  /\ schema' \in [Versions -> Nat]
         /\ \A w \in Versions : schema'[w] <= Statements[w] /\ schema'[w] >= schema[w]
         /\ schema'[v] >= k
  BY Counts DEF DbTypeOK

LEMMA BeginKeeps ==
  ASSUME DbTypeOK, DbInv, BeginMigrations
  PROVE  DbTypeOK' /\ DbInv'
<1>1. UNCHANGED <<version, schema>>
  BY DEF BeginMigrations
<1>2. CASE version = Latest
  <2>1. stage' = "ready" /\ at' = at
    BY <1>2 DEF BeginMigrations
  <2> QED
    BY <1>1, <1>2, <2>1 DEF DbTypeOK, DbInv
<1>3. CASE version # Latest
  <2>1. stage' = "migrating" /\ at' = [version |-> version + 1, statement |-> 1]
    BY <1>3 DEF BeginMigrations, Start
  <2>2. version + 1 \in Versions
    BY <1>3, Counts DEF DbTypeOK, Versions
  <2>3. at' \in [version : Versions, statement : Nat \ {0}]
        /\ at'.statement <= Statements[at'.version] + 1
        /\ at'.version = version' + 1 /\ at'.statement <= schema'[at'.version] + 1
    BY <1>1, <2>1, <2>2, Counts DEF DbTypeOK
  <2> QED
    BY <1>1, <2>1, <2>3 DEF DbTypeOK, DbInv
<1> QED
  BY <1>2, <1>3

LEMMA RunKeeps ==
  ASSUME DbTypeOK, DbInv, RunStatement
  PROVE  DbTypeOK' /\ DbInv'
<1> DEFINE v == at.version
           k == at.statement
<1>1. stage = "migrating" /\ UNCHANGED <<version, stage>> /\ k <= Statements[v]
      /\ schema' = [schema EXCEPT ![v] = IF @ < k THEN k ELSE @]
      /\ at' = [at EXCEPT !.statement = @ + 1]
  BY DEF RunStatement
<1>2. at = [version |-> v, statement |-> k] /\ v \in Versions /\ k \in Nat \ {0}
  BY DEF DbTypeOK
<1>3. at' = [version |-> v, statement |-> k + 1]
  BY <1>1, <1>2
<1>4. /\ schema' \in [Versions -> Nat] /\ schema'[v] >= k
      /\ \A w \in Versions : schema'[w] <= Statements[w] /\ schema'[w] >= schema[w]
  BY <1>1, <1>2, SchemaGrows
<1>5. at' \in [version : Versions, statement : Nat \ {0}]
      /\ at'.statement <= Statements[at'.version] + 1
  BY <1>1, <1>2, <1>3, Counts
<1>6. DbTypeOK'
  BY <1>1, <1>4, <1>5 DEF DbTypeOK
<1>7. at'.version = version' + 1 /\ at'.statement <= schema'[at'.version] + 1
  BY <1>1, <1>2, <1>3, <1>4 DEF DbInv
<1>8. \A w \in Versions : w <= version' => schema'[w] = Statements[w]
  BY <1>1, <1>4, Counts DEF DbInv, DbTypeOK, Versions
<1> QED
  BY <1>1, <1>6, <1>7, <1>8 DEF DbInv

LEMMA MarkKeeps ==
  ASSUME DbTypeOK, DbInv, MarkVersion
  PROVE  DbTypeOK' /\ DbInv'
<1> DEFINE v == at.version
<1>1. stage = "migrating" /\ at.statement > Statements[v] /\ version' = v /\ schema' = schema
  BY DEF MarkVersion
<1>2. v \in Versions /\ at.statement \in Nat /\ v = version + 1
      /\ at.statement <= schema[v] + 1 /\ schema[v] <= Statements[v]
      /\ schema[v] \in Nat /\ Statements[v] \in Nat
  BY <1>1, Counts DEF DbTypeOK, DbInv
<1>3. schema[v] = Statements[v]
  BY <1>1, <1>2
<1>4. \A w \in Versions : w <= version' => schema'[w] = Statements[w]
  BY <1>1, <1>2, <1>3, Counts DEF DbInv, DbTypeOK, Versions
<1>5. version' \in 0..Latest
  BY <1>1, <1>2, Counts DEF Versions
<1>6. CASE v = Latest
  <2>1. stage' = "ready" /\ at' = at
    BY <1>6 DEF MarkVersion
  <2> QED
    BY <1>1, <1>4, <1>5, <1>6, <2>1 DEF DbTypeOK, DbInv
<1>7. CASE v # Latest
  <2>1. stage' = "migrating" /\ at' = [version |-> v + 1, statement |-> 1]
    BY <1>1, <1>7 DEF MarkVersion, Start
  <2>2. v + 1 \in Versions
    BY <1>2, <1>7, Counts DEF Versions
  <2>3. at' \in [version : Versions, statement : Nat \ {0}]
        /\ at'.statement <= Statements[at'.version] + 1
        /\ at'.version = version' + 1 /\ at'.statement <= schema'[at'.version] + 1
    BY <1>1, <2>1, <2>2, Counts DEF DbTypeOK
  <2> QED
    BY <1>1, <1>4, <1>5, <2>1, <2>3 DEF DbTypeOK, DbInv
<1> QED
  BY <1>6, <1>7

\* Whatever ends the process leaves the database as it is.
LEMMA DownKeeps ==
  ASSUME DbTypeOK, DbInv, UNCHANGED <<version, schema, at>>, stage' \in {"down", stage}
  PROVE  DbTypeOK' /\ DbInv'
  BY DEF DbTypeOK, DbInv

LEMMA DbStep ==
  ASSUME DbTypeOK, DbInv, [Next]_vars
  PROVE  DbTypeOK' /\ DbInv'
<1>1. CASE Launch
  BY <1>1, BeginKeeps DEF Launch
<1>2. CASE Migrate
  <2>1. CASE StatementFails
    BY <2>1, DownKeeps DEF StatementFails
  <2> QED
    BY <1>2, <2>1, RunKeeps, MarkKeeps DEF Migrate
<1>3. CASE Crash
  BY <1>3, DownKeeps DEF Crash
<1>4. CASE Initialize
  BY <1>4, DownKeeps DEF Initialize
<1>5. CASE Edit \/ Decide \/ Command \/ UNCHANGED vars
  BY <1>5, DownKeeps DEF Edit, Decide, Command, vars, dbVars
<1> QED
  BY <1>1, <1>2, <1>3, <1>4, <1>5 DEF Next

LEMMA DbAlways == Spec => [](DbTypeOK /\ DbInv)
<1>1. DbTypeOK /\ DbInv /\ [Next]_vars => (DbTypeOK /\ DbInv)'
  BY DbStep
<1> QED
  BY DbStart, <1>1, PTL DEF Spec

\* Past run_migrations every statement of every version is in the schema, from
\* whatever release the database came and wherever earlier starts crashed.
THEOREM SchemaIsComplete == Spec => []SchemaComplete
<1>1. DbTypeOK /\ DbInv => SchemaComplete
  BY Counts DEF DbTypeOK, DbInv, SchemaComplete, Versions
<1> QED
  BY DbAlways, <1>1, PTL

-----------------------------------------------------------------------------
(* The strategy manager *)

LEMMA SetsTyped ==
  /\ None \in ParamSets \union {None}
  /\ \A n \in Names, s \in Readable : FromSettings(n, s) \in ParamSets \union {None}
  /\ \A s \in Envs : s.macro \in {0, 1, 2}
  /\ Readable \subseteq Envs
  BY DEF ParamSets, Values, FromSettings, Readable, Envs

\* Whatever load does, the caches are of their types, and a class has its own
\* time; a load that succeeds leaves the class of the file as it is.
LEMMA LoadKeeps ==
  ASSUME ManagerTypeOK, CacheInv, NEW name \in Names, NEW q
  PROVE  LET l == Load(name, q) IN
         /\ l.classes \in [Names -> Texts \union {"none"}]
         /\ l.mtimes \in [Names -> Texts \union {"none"}]
         /\ \A n \in Names : l.classes[n] # "none" => l.mtimes[n] = l.classes[n]
         /\ l.ok => l.classes[name] = file[name]
<1> DEFINE text == file[name]
           again == classes[name] = "none" \/ mtimes[name] # text
           found == text # "absent" /\ again /\ Loads(text)
           class == IF found THEN text ELSE classes[name]
           l == Load(name, q)
<1>1. l = [ok |-> text # "absent" /\ (again => found) /\ Accepts(class, q),
           classes |-> [classes EXCEPT ![name] = class],
           mtimes |-> IF found THEN [mtimes EXCEPT ![name] = text] ELSE mtimes]
  BY DEF Load
<1>2. /\ classes \in [Names -> Texts \union {"none"}]
      /\ mtimes \in [Names -> Texts \union {"none"}] /\ text \in Texts
  BY DEF ManagerTypeOK
<1>3. /\ l.classes = [classes EXCEPT ![name] = class]
      /\ l.mtimes = (IF found THEN [mtimes EXCEPT ![name] = text] ELSE mtimes)
  <2> HIDE DEF found, class, l
  <2> QED
    BY <1>1
<1>4. l.ok => (again => found)
  <2> HIDE DEF found, again, text, class
  <2>1. l.ok = (text # "absent" /\ (again => found) /\ Accepts(class, q))
    BY <1>1
  <2> QED
    BY <2>1, Zenon
<1>5. l.classes \in [Names -> Texts \union {"none"}]
      /\ l.mtimes \in [Names -> Texts \union {"none"}]
  BY <1>2, <1>3
<1>6. \A n \in Names : l.classes[n] # "none" => l.mtimes[n] = l.classes[n]
  BY <1>2, <1>3 DEF CacheInv
<1>7. l.ok => l.classes[name] = file[name]
  BY <1>2, <1>3, <1>4 DEF CacheInv
<1> QED
  BY <1>5, <1>6, <1>7

\* The caches after a step that keeps what load returns.
LEMMA Kept ==
  ASSUME ManagerTypeOK, CacheInv, NEW name \in Names, NEW q, Keep(Load(name, q))
  PROVE  /\ classes' \in [Names -> Texts \union {"none"}]
         /\ mtimes' \in [Names -> Texts \union {"none"}]
         /\ CacheInv'
         /\ Load(name, q).ok => classes'[name] = file[name]
<1>1. classes' = Load(name, q).classes /\ mtimes' = Load(name, q).mtimes
  BY DEF Keep
<1> QED
  BY <1>1, LoadKeeps DEF CacheInv

LEMMA HotStart == Init => HotInv
<1> SUFFICES ASSUME Init PROVE HotInv
  OBVIOUS
<1>1. /\ file = [n \in Names |-> "first"] /\ env = [pyramid |-> "a", macro |-> 1]
      /\ classes = Nothing /\ mtimes = Nothing /\ active = "none" /\ params = None
      /\ settings = env /\ macro = 0 /\ reply = "none"
  BY DEF Init
<1>2. env \in Envs
  BY <1>1 DEF Envs, Readable
<1>3. ManagerTypeOK
  BY <1>1, <1>2 DEF ManagerTypeOK, Nothing, Texts
<1> QED
  BY <1>1, <1>3 DEF HotInv, CacheInv, UpInv, Up, FreshStrategy, SettingsInForce, Nothing

\* What a step that leaves the process down has to show.
LEMMA Gone ==
  ASSUME HotInv, Ends, UNCHANGED <<files, settings>>
  PROVE  HotInv'
<1>1. ManagerTypeOK'
  BY DEF HotInv, ManagerTypeOK, Ends, Nothing, files
<1> QED
  BY <1>1 DEF HotInv, CacheInv, UpInv, Up, FreshStrategy, SettingsInForce, Ends, Nothing

LEMMA EditKeeps == ASSUME HotInv, Edit PROVE HotInv'
<1>1. /\ UNCHANGED <<classes, mtimes, active, params, settings, macro, stage, overridden>>
      /\ reply' = "none"
  BY DEF Edit, dbVars
<1>2. file' \in [Names -> Texts] /\ env' \in Envs
  BY DEF Edit, HotInv, ManagerTypeOK
<1>3. ManagerTypeOK'
  BY <1>1, <1>2 DEF HotInv, ManagerTypeOK
<1>4. CacheInv' /\ UpInv' /\ FreshStrategy'
  BY <1>1 DEF HotInv, CacheInv, UpInv, Up, FreshStrategy
<1>5. SettingsInForce'
  BY <1>1 DEF HotInv, SettingsInForce, Up, FromSettings
<1> QED
  BY <1>3, <1>4, <1>5 DEF HotInv

LEMMA LaunchKeeps == ASSUME HotInv, Launch PROVE HotInv'
<1>1. /\ UNCHANGED <<files, classes, mtimes, active, params, macro, reply, overridden>>
      /\ settings' = env /\ stage = "down"
  BY DEF Launch, BeginMigrations
<1>2. ~Up
  BY <1>1 DEF HotInv, UpInv
<1>3. ManagerTypeOK'
  BY <1>1 DEF HotInv, ManagerTypeOK, files
<1> QED
  BY <1>1, <1>2, <1>3
     DEF HotInv, CacheInv, UpInv, Up, FreshStrategy, SettingsInForce, files

LEMMA MigrateKeeps == ASSUME HotInv, Migrate PROVE HotInv'
<1>1. UNCHANGED <<files, managerVars, overridden>> /\ stage = "migrating"
  BY DEF Migrate, RunStatement, StatementFails, MarkVersion
<1>2. ~Up
  BY <1>1 DEF HotInv, UpInv
<1>3. ManagerTypeOK'
  BY <1>1 DEF HotInv, ManagerTypeOK, files, managerVars
<1> QED
  BY <1>1, <1>2, <1>3
     DEF HotInv, CacheInv, UpInv, Up, FreshStrategy, SettingsInForce, files, managerVars

\* The process that reaches the strategy has read its settings.
SettingsRead == stage # "down" => settings \in Readable

LEMMA InitializeKeeps == ASSUME HotInv, SettingsRead, Initialize PROVE HotInv'
<1> DEFINE q == FromSettings(Default, settings)
<1>1. stage = "ready" /\ ~Up /\ UNCHANGED <<files, settings>>
  BY DEF Initialize
<1>2. CASE Load(Default, q).ok
  <2>1. /\ Keep(Load(Default, q)) /\ active' = Default /\ params' = q
        /\ macro' = settings.macro /\ UNCHANGED <<reply, stage, overridden>>
    BY <1>2 DEF Initialize, Activate
  <2>2. Default \in Names /\ q \in ParamSets \union {None} /\ settings.macro \in {0, 1, 2}
    BY <1>1, SetsTyped, ManagerAssumption DEF SettingsRead, HotInv, ManagerTypeOK
  <2>3. /\ classes' \in [Names -> Texts \union {"none"}]
        /\ mtimes' \in [Names -> Texts \union {"none"}] /\ CacheInv'
    BY <2>1, <2>2, Kept DEF HotInv
  <2>4. ManagerTypeOK'
    BY <1>1, <2>1, <2>2, <2>3 DEF HotInv, ManagerTypeOK, files
  <2>5. UpInv' /\ FreshStrategy'
    BY <1>1, <2>1, <2>2, ManagerAssumption DEF HotInv, UpInv, Up, FreshStrategy
  <2>6. SettingsInForce'
    BY <1>1, <2>1 DEF SettingsInForce, FromSettings
  <2> QED
    BY <2>3, <2>4, <2>5, <2>6 DEF HotInv
<1>3. CASE ~Load(Default, q).ok
  BY <1>1, <1>3, Gone DEF Initialize
<1> QED
  BY <1>2, <1>3

LEMMA DecideKeeps == ASSUME HotInv, Decide PROVE HotInv'
<1>1. /\ active \in Names /\ Keep(Load(active, params))
      /\ reply' = IF Load(active, params).ok THEN "round" ELSE "failed"
      /\ UNCHANGED <<files, active, params, settings, macro, stage, overridden>>
  BY DEF Decide, Round, Up, HotInv, ManagerTypeOK, dbVars
<1>2. /\ classes' \in [Names -> Texts \union {"none"}]
      /\ mtimes' \in [Names -> Texts \union {"none"}] /\ CacheInv'
      /\ Load(active, params).ok => classes'[active] = file[active]
  BY <1>1, Kept DEF HotInv
<1>3. ManagerTypeOK'
  BY <1>1, <1>2 DEF HotInv, ManagerTypeOK, files
<1>4. UpInv' /\ FreshStrategy'
  BY <1>1, <1>2 DEF HotInv, UpInv, Up, FreshStrategy, Decide, files
<1>5. SettingsInForce'
  BY <1>1 DEF HotInv, SettingsInForce, Up, FromSettings
<1> QED
  BY <1>2, <1>3, <1>4, <1>5 DEF HotInv

-----------------------------------------------------------------------------
(* Commands *)

\* What a step that tries to give the strategy other parameters has to show.
LEMMA OverrideKeeps ==
  ASSUME HotInv, Up,
         /\ classes' \in [Names -> Texts \union {"none"}]
         /\ mtimes' \in [Names -> Texts \union {"none"}] /\ CacheInv',
         active' \in Names, params' \in ParamSets \union {None},
         UNCHANGED <<files, settings, macro, stage>>,
         reply' \in {"none", "done", "error"},
         overridden' = (overridden \/ active' # active \/ params' # params)
  PROVE  HotInv'
<1>1. ManagerTypeOK'
  BY DEF HotInv, ManagerTypeOK, files
<1>2. UpInv' /\ FreshStrategy'
  BY ManagerAssumption DEF HotInv, UpInv, Up, FreshStrategy
<1>3. SettingsInForce'
  <2>1. CASE active' = active /\ params' = params
    BY <2>1 DEF HotInv, SettingsInForce, Up, FromSettings
  <2>2. CASE active' # active \/ params' # params
    BY <2>2 DEF HotInv, SettingsInForce, Up
  <2> QED
    BY <2>1, <2>2
<1> QED
  BY <1>1, <1>2, <1>3 DEF HotInv

LEMMA StrategyKeeps ==
  ASSUME HotInv, SettingsRead, Up, NEW n \in Names, CmdStrategy(n), UNCHANGED stage,
         overridden' = (overridden \/ active' # active \/ params' # params)
  PROVE  HotInv'
<1> DEFINE q == IF n \in Pyramids THEN [unit |-> settings.pyramid, pct |-> "default"] ELSE None
<1>1. Activate(n, q) /\ Answer(Load(n, q).ok) /\ UNCHANGED <<files, settings, macro>>
  BY DEF CmdStrategy
<1>2. reply' \in {"none", "done", "error"}
  BY <1>1 DEF Answer
<1>3. q \in ParamSets \union {None}
  BY DEF SettingsRead, HotInv, UpInv, ParamSets, Values, Readable
<1>4. /\ classes' \in [Names -> Texts \union {"none"}]
      /\ mtimes' \in [Names -> Texts \union {"none"}] /\ CacheInv'
  BY <1>1, Kept DEF HotInv, Activate
<1>5. active' \in Names /\ params' \in ParamSets \union {None}
  <2> HIDE DEF q
  <2> QED
    BY <1>1, <1>3 DEF Activate, HotInv, ManagerTypeOK, Up
<1> QED
  BY <1>1, <1>2, <1>4, <1>5, OverrideKeeps

\* An activation under the name of the instance keeps the caches sound, also where
\* two files are loaded, and makes a strategy with a file the active one.
LEMMA ReactivateKeeps ==
  ASSUME HotInv, Up, NEW q \in ParamSets \union {None}, Reactivate(q)
  PROVE  /\ classes' \in [Names -> Texts \union {"none"}]
         /\ mtimes' \in [Names -> Texts \union {"none"}] /\ CacheInv'
         /\ active' \in Names /\ params' \in ParamSets \union {None}
<1> DEFINE got == Load(active, params)
           new == Load(Called, q)
<1>1. active \in Names /\ params \in ParamSets \union {None}
  BY DEF Up, HotInv, ManagerTypeOK
<1>2. active' \in Names /\ params' \in ParamSets \union {None}
  BY <1>1 DEF Reactivate
<1>3. /\ got.classes \in [Names -> Texts \union {"none"}]
      /\ got.mtimes \in [Names -> Texts \union {"none"}]
      /\ \A n \in Names : got.classes[n] # "none" => got.mtimes[n] = got.classes[n]
  BY <1>1, LoadKeeps DEF HotInv
<1>4. CASE Called \in Names
  <2>1. /\ new.classes \in [Names -> Texts \union {"none"}]
        /\ new.mtimes \in [Names -> Texts \union {"none"}]
        /\ \A n \in Names : new.classes[n] # "none" => new.mtimes[n] = new.classes[n]
    BY <1>4, LoadKeeps DEF HotInv
  <2>2. /\ classes' = [new.classes EXCEPT ![active] = got.classes[active]]
        /\ mtimes' = [new.mtimes EXCEPT ![active] = got.mtimes[active]]
    BY <1>4 DEF Reactivate
  <2> HIDE DEF got, new
  <2> QED
    BY <1>1, <1>2, <1>3, <2>1, <2>2 DEF CacheInv
<1>5. CASE Called \notin Names
  <2>1. classes' = got.classes /\ mtimes' = got.mtimes
    BY <1>5 DEF Reactivate, Keep
  <2> HIDE DEF got
  <2> QED
    BY <1>2, <1>3, <2>1 DEF CacheInv
<1> QED
  BY <1>4, <1>5

LEMMA SetParamKeeps ==
  ASSUME HotInv, Up, NEW param \in {"unit", "pct"}, NEW value \in {"typed", "bad"},
         CmdSetParam(param, value), UNCHANGED stage,
         overridden' = (overridden \/ active' # active \/ params' # params)
  PROVE  HotInv'
<1> DEFINE now == IF params = None THEN [unit |-> "default", pct |-> "default"] ELSE params
           q == [now EXCEPT ![param] = value]
<1>1. active \in Names /\ params \in ParamSets \union {None}
      /\ UNCHANGED <<files, settings, macro>>
  BY DEF Up, HotInv, ManagerTypeOK, CmdSetParam
<1>2. q \in ParamSets
  <2>1. now \in ParamSets
    BY <1>1 DEF ParamSets, Values
  <2>2. q = IF param = "unit" THEN [unit |-> value, pct |-> now.pct]
                              ELSE [unit |-> now.unit, pct |-> value]
    BY <2>1 DEF ParamSets
  <2> QED
    BY <2>1, <2>2 DEF ParamSets, Values
<1>3. CASE Reactivate(q) /\ reply' = IF Reactivates(q) THEN "done" ELSE "error"
  <2>1. reply' \in {"none", "done", "error"}
    BY <1>3
  <2> HIDE DEF q
  <2> QED
    BY <1>1, <1>2, <1>3, <2>1, ReactivateKeeps, OverrideKeeps
<1>4. CASE Keep(Load(active, params)) /\ reply' = "none" /\ UNCHANGED <<active, params>>
  <2>1. /\ classes' \in [Names -> Texts \union {"none"}]
        /\ mtimes' \in [Names -> Texts \union {"none"}] /\ CacheInv'
    BY <1>1, <1>4, Kept DEF HotInv
  <2> QED
    BY <1>1, <1>4, <2>1, OverrideKeeps
<1> QED
  BY <1>3, <1>4 DEF CmdSetParam

\* A reload of the settings leaves the strategy alone, or gives one that calls
\* itself a pyramid the parameters of the settings.
LEMMA ReloadKeeps ==
  ASSUME HotInv, Up, CmdReload, UNCHANGED stage,
         overridden' = \/ overridden /\ active' = active /\ params' = params
                       \/ settings' # settings /\ Called \notin Pyramids
  PROVE  HotInv' /\ settings' \in Readable \union {settings}
<1> DEFINE got == Load(active, params)
           changed == got.ok /\ Called \in Pyramids /\ env.pyramid # settings.pyramid
           q == FromSettings(Called, env)
           ok == env \in Readable /\ got.ok /\ (changed => Reactivates(q))
<1>1. /\ CASE env \notin Readable -> UNCHANGED <<classes, mtimes, active, params>>
           [] env \in Readable /\ changed -> Reactivate(q)
           [] OTHER -> Keep(got) /\ UNCHANGED <<active, params>>
      /\ IF ok THEN macro' = env.macro /\ settings' = env ELSE UNCHANGED <<macro, settings>>
      /\ Answer(ok) /\ UNCHANGED files
  BY DEF CmdReload
<1>2. active \in Names /\ params \in ParamSets \union {None}
  BY DEF Up, HotInv, ManagerTypeOK
<1>3. /\ env \notin Readable => UNCHANGED <<classes, mtimes, active, params>>
      /\ env \in Readable /\ changed => Reactivate(q)
      /\ env \in Readable /\ ~changed => Keep(got) /\ UNCHANGED <<active, params>>
  <2> HIDE DEF got, changed, q
  <2> QED
    BY <1>1
<1>4. env \in Readable => q \in ParamSets \union {None}
  BY DEF FromSettings, ParamSets, Values, Readable
<1>5. /\ classes' \in [Names -> Texts \union {"none"}]
      /\ mtimes' \in [Names -> Texts \union {"none"}] /\ CacheInv'
      /\ active' \in Names /\ params' \in ParamSets \union {None}
  <2>1. CASE env \notin Readable
    BY <1>2, <1>3, <2>1 DEF HotInv, CacheInv, ManagerTypeOK
  <2>2. CASE env \in Readable /\ changed
    <3> HIDE DEF changed, q
    <3> QED
      BY <1>3, <1>4, <2>2, ReactivateKeeps
  <2>3. CASE env \in Readable /\ ~changed
    <3>1. Keep(Load(active, params)) /\ UNCHANGED <<active, params>>
      <4> HIDE DEF changed
      <4> QED
        BY <1>3, <2>3
    <3> QED
      BY <1>2, <3>1, Kept DEF HotInv
  <2> QED
    BY <2>1, <2>2, <2>3
<1>6. reply' \in {"none", "done", "error"}
  BY <1>1 DEF Answer
<1>7. /\ ok => macro' = env.macro /\ settings' = env
      /\ ~ok => macro' = macro /\ settings' = settings
      /\ files' = files
  <2> HIDE DEF ok
  <2> QED
    BY <1>1
<1>8. settings' \in Readable \union {settings}
  BY <1>7
<1>9. macro' = settings'.macro /\ macro' \in {0, 1, 2} /\ settings' \in Envs
  <2>1. CASE ok
    <3>1. env \in Readable
      BY <2>1
    <3> QED
      BY <1>7, <2>1, <3>1, SetsTyped
  <2>2. CASE ~ok
    BY <1>7, <2>2 DEF HotInv, SettingsInForce, ManagerTypeOK
  <2> QED
    BY <2>1, <2>2
<1>10. ManagerTypeOK'
  BY <1>5, <1>6, <1>7, <1>9 DEF HotInv, ManagerTypeOK, files
<1>11. ASSUME active' \in Pyramids, ~overridden' PROVE params' = FromSettings(active', settings')
  <2>1. CASE active' = active /\ params' = params
    <3>1. ~overridden /\ params = FromSettings(active, settings)
      BY <1>11, <2>1 DEF HotInv, SettingsInForce
    <3>2. CASE settings' = settings
      BY <2>1, <3>1, <3>2
    <3>3. CASE settings' # settings
      <4>1. ok /\ settings' = env /\ Called \in Pyramids
        <5> HIDE DEF ok
        <5> QED
          BY <1>7, <1>11, <3>3
      <4>2. CASE changed
        <5>1. Reactivate(q) /\ Reactivates(q)
          BY <1>3, <4>1, <4>2
        <5>2. active' = Called /\ params' = q
          <6> HIDE DEF q
          <6> QED
            BY <5>1 DEF Reactivate, Reactivates
        <5> QED
          BY <4>1, <5>2
      <4>3. CASE ~changed
        <5>1. env.pyramid = settings.pyramid
          BY <4>1, <4>3
        <5> QED
          BY <2>1, <3>1, <4>1, <5>1 DEF FromSettings
      <4> QED
        BY <4>2, <4>3
    <3> QED
      BY <3>2, <3>3
  <2>2. CASE ~(active' = active /\ params' = params)
    <3>1. env \in Readable /\ changed
      <4> HIDE DEF changed
      <4> QED
        BY <1>3, <2>2
    <3>2. Reactivate(q)
      BY <1>3, <3>1
    <3>3. active' = Called /\ params' = q /\ Reactivates(q)
      <4> HIDE DEF q
      <4> QED
        BY <2>2, <3>2 DEF Reactivate, Reactivates
    <3>4. ok
      BY <3>1, <3>3
    <3>5. settings' = env
      <4> HIDE DEF ok
      <4> QED
        BY <1>7, <3>4
    <3> QED
      BY <3>3, <3>5
  <2> QED
    BY <2>1, <2>2
<1>12. SettingsInForce'
  <2> HIDE DEF got, changed, q, ok
  <2> QED
    BY <1>9, <1>11 DEF SettingsInForce
<1>13. UpInv' /\ FreshStrategy'
  BY <1>5, <1>6, ManagerAssumption DEF HotInv, UpInv, Up, FreshStrategy
<1> QED
  BY <1>5, <1>8, <1>10, <1>12, <1>13 DEF HotInv

-----------------------------------------------------------------------------
(* The theorems *)

\* Both halves of the invariant, and that the settings in use were read.
AllInv == DbTypeOK /\ DbInv /\ HotInv /\ SettingsRead /\ TypeOK

LEMMA Started == Init => AllInv
<1> SUFFICES ASSUME Init PROVE AllInv
  OBVIOUS
<1>1. SettingsRead
  BY DEF Init, DbInit, SettingsRead
<1>2. TypeOK
  BY DbStart, HotStart DEF TypeOK, HotInv, Init
<1> QED
  BY <1>1, <1>2, DbStart, HotStart DEF AllInv

\* A command keeps the invariant.
LEMMA CommandKeeps ==
  ASSUME HotInv, SettingsRead, Command
  PROVE  HotInv' /\ SettingsRead'
<1>1. Up /\ UNCHANGED stage
  BY DEF Command, dbVars
<1>2. CASE /\ CmdReload
           /\ overridden' = \/ overridden /\ active' = active /\ params' = params
                            \/ settings' # settings /\ Called \notin Pyramids
  BY <1>1, <1>2, ReloadKeeps DEF SettingsRead
<1>3. CASE /\ \/ \E n \in Names : CmdStrategy(n)
              \/ \E param \in {"unit", "pct"}, value \in {"typed", "bad"} :
                   CmdSetParam(param, value)
           /\ overridden' = (overridden \/ active' # active \/ params' # params)
  <2>1. CASE \E n \in Names : CmdStrategy(n)
    <3>1. PICK n \in Names : CmdStrategy(n)
      BY <2>1
    <3>2. UNCHANGED settings
      BY <3>1 DEF CmdStrategy
    <3> QED
      BY <1>1, <1>3, <3>1, <3>2, StrategyKeeps DEF SettingsRead
  <2>2. CASE \E param \in {"unit", "pct"}, value \in {"typed", "bad"} : CmdSetParam(param, value)
    <3>1. PICK param \in {"unit", "pct"}, value \in {"typed", "bad"} : CmdSetParam(param, value)
      BY <2>2
    <3>2. UNCHANGED settings
      BY <3>1 DEF CmdSetParam
    <3> QED
      BY <1>1, <1>3, <3>1, <3>2, SetParamKeeps DEF SettingsRead
  <2> QED
    BY <1>3, <2>1, <2>2
<1> QED
  BY <1>2, <1>3 DEF Command

LEMMA StutterKeeps == ASSUME HotInv, SettingsRead, UNCHANGED vars PROVE HotInv' /\ SettingsRead'
<1>1. UNCHANGED <<file, env, classes, mtimes, active, params, settings, macro, reply, stage,
                  overridden>>
  BY DEF vars, dbVars, files, managerVars
<1>2. ManagerTypeOK'
  BY <1>1 DEF HotInv, ManagerTypeOK
<1> QED
  BY <1>1, <1>2
     DEF HotInv, CacheInv, UpInv, Up, FreshStrategy, SettingsInForce, FromSettings, SettingsRead

LEMMA HotStep ==
  ASSUME HotInv, SettingsRead, [Next]_vars
  PROVE  HotInv' /\ SettingsRead'
<1>1. CASE Crash
  <2>1. Ends /\ UNCHANGED <<files, settings>> /\ stage' = "down"
    BY <1>1 DEF Crash
  <2> QED
    BY <2>1, Gone DEF SettingsRead
<1>2. CASE Edit
  BY <1>2, EditKeeps DEF Edit, SettingsRead, dbVars
<1>3. CASE Launch
  BY <1>3, LaunchKeeps DEF Launch, SettingsRead
<1>4. CASE Migrate
  BY <1>4, MigrateKeeps
     DEF Migrate, RunStatement, StatementFails, MarkVersion, SettingsRead, managerVars
<1>5. CASE Initialize
  <2>1. HotInv'
    BY <1>5, InitializeKeeps
  <2>2. SettingsRead'
    BY <1>5 DEF Initialize, SettingsRead
  <2> QED
    BY <2>1, <2>2
<1>6. CASE Decide
  BY <1>6, DecideKeeps DEF Decide, Round, SettingsRead, dbVars
<1> QED
  BY <1>1, <1>2, <1>3, <1>4, <1>5, <1>6, CommandKeeps, StutterKeeps DEF Next

LEMMA Counters ==
  ASSUME TypeOK, HotInv', DbTypeOK', [Next]_vars
  PROVE  TypeOK'
<1>1. edits' \in Nat /\ crashes' \in Nat
  <2>1. edits' \in {edits, edits + 1} /\ crashes' \in {crashes, crashes + 1}
    BY Zenon DEF Next, Edit, Crash, Launch, Migrate, Initialize, Decide, Command, vars
  <2> QED
    BY <2>1 DEF TypeOK
<1>2. overridden' \in BOOLEAN
  <2>1. overridden \in BOOLEAN
    BY Zenon DEF TypeOK
  <2>2. CASE \/ overridden' = (overridden \/ active' # active \/ params' # params)
             \/ overridden' = \/ overridden /\ active' = active /\ params' = params
                              \/ settings' # settings /\ Called \notin Pyramids
    BY <2>2, Zenon
  <2>3. CASE overridden' = overridden \/ overridden' = FALSE
    BY <2>1, <2>3, Zenon
  <2> QED
    BY <2>2, <2>3, Zenon
       DEF Next, Edit, Crash, Ends, Launch, Migrate, Initialize, Decide, Command, vars
<1> QED
  BY <1>1, <1>2 DEF TypeOK, HotInv

LEMMA AllStep == AllInv /\ [Next]_vars => AllInv'
  BY DbStep, HotStep, Counters DEF AllInv

LEMMA Always == Spec => []AllInv
  BY Started, AllStep, PTL DEF Spec

\* The variables have their types.
THEOREM TypeCorrect == Spec => []TypeOK
<1>1. AllInv => TypeOK
  BY DEF AllInv
<1> QED
  BY Always, <1>1, PTL

\* Every round decides with the class of the file as it is.
THEOREM RoundsAreFresh == Spec => []FreshStrategy
<1>1. AllInv => FreshStrategy
  BY DEF AllInv, HotInv
<1> QED
  BY Always, <1>1, PTL

\* The parameters and the threshold in force are those of the settings, unless
\* the operator has set them since.
THEOREM SettingsAreInForce == Spec => []SettingsInForce
<1>1. AllInv => SettingsInForce
  BY DEF AllInv, HotInv
<1> QED
  BY Always, <1>1, PTL
=============================================================================
