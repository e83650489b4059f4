---------------------------- MODULE StrategyManager ----------------------------
(* src/strategy/manager.py, and the three commands that act on it:             *)
(* /strategy, /set_param and /reload_settings. None of them awaits between its *)
(* first look and its last assignment, so each is one step. Two of them await  *)
(* the message of success inside their try: if it cannot be sent, the operator *)
(* is told that the command failed.                                            *)
(*                                                                             *)
(* A text stands for the content of a strategy file and its modification time. *)
(* Parameters are the amount of a unit and, as one, the percentages.           *)
EXTENDS Naturals

CONSTANTS Names,     \* strategies, by file name
          Pyramids,  \* those with "pyramid" in the name
          Default    \* default_strategy of the settings

ASSUME ManagerAssumption ==
  Pyramids \subseteq Names /\ Default \in Names /\ "none" \notin Names

VARIABLES
  file,      \* the strategy files
  env,       \* the .env file
  classes,   \* _classes
  mtimes,    \* _mtimes, as the text that has the time
  active,    \* _active_name
  params,    \* _active_params
  settings,  \* _settings of the trader and of the bot
  macro,     \* _macro_threshold of the coordinator (and the micro one)
  reply      \* what the last step was: a round that got its strategy or did
             \* not, or what a command had to answer; "none" is anything else,
             \* a command that raised included

files == <<file, env>>
managerVars == <<classes, mtimes, active, params, settings, macro, reply>>

\* "narrow" has a class whose constructor takes no parameters, "copied" one whose
\* name attribute is still that of the default strategy, "unnamed" one that has
\* only the name of the base class; "broken" raises or has no class.
Texts == {"first", "second", "narrow", "copied", "unnamed", "broken", "absent"}
Loads(text) == text \notin {"broken", "absent"}

\* The name attribute of the class that the file of a strategy has
NameOf(name, class) == CASE class = "copied" -> Default
                         [] class = "unnamed" -> "unnamed"
                         [] OTHER -> name

\* A value is the class's own, one of the .env file, one typed by the operator
\* or one that the constructors refuse.
Values == {"default", "a", "b", "typed", "bad"}
ParamSets == [unit : Values, pct : Values]
None == [unit |-> "none", pct |-> "none"]
Accepts(text, q) == q = None \/ (text # "narrow" /\ "bad" \notin {q.unit, q.pct})

Readable == [pyramid : {"a", "b", "bad"}, macro : {1, 2}]
Envs == Readable \union {[pyramid |-> "unreadable", macro |-> 0]}

Nothing == [n \in Names |-> "none"]

\* _pyramid_params and the parameters that reload_settings activates with
FromSettings(name, s) ==
  IF name \in Pyramids THEN [unit |-> s.pyramid, pct |-> s.pyramid] ELSE None

-----------------------------------------------------------------------------
(* load and activate *)

\* Mutant: the time is noted before the module is executed.
LoadNoted(name, q) ==
  LET text == file[name]
      again == classes[name] = "none" \/ mtimes[name] # text
      found == text # "absent" /\ again /\ Loads(text)
      class == IF found THEN text ELSE classes[name]
  IN
  [ok |-> text # "absent" /\ class # "none" /\ Accepts(class, q),
   classes |-> [classes EXCEPT ![name] = class],
   mtimes |-> IF text # "absent" THEN [mtimes EXCEPT ![name] = text] ELSE mtimes]

\* Mutant: a module that failed once is not executed again.
LoadOnce(name, q) ==
  LET text == file[name]
      again == mtimes[name] # text
      found == again /\ Loads(text) /\ mtimes[name] # "broken"
  IN
  [ok |-> text # "absent" /\ (again => found) /\ Accepts(text, q),
   classes |-> IF found THEN [classes EXCEPT ![name] = text] ELSE classes,
   mtimes |-> [mtimes EXCEPT ![name] = IF found THEN text
                                       ELSE IF again THEN "broken" ELSE @]]

\* A changed file is executed; the caches are changed once its class is found,
\* and stay so if the constructor then raises.
Load(name, q) ==
  LET text == file[name]
      again == classes[name] = "none" \/ mtimes[name] # text
      found == text # "absent" /\ again /\ Loads(text)
      class == IF found THEN text ELSE classes[name]
  IN
  [ok |-> text # "absent" /\ (again => found) /\ Accepts(class, q),
   classes |-> [classes EXCEPT ![name] = class],
   mtimes |-> IF found THEN [mtimes EXCEPT ![name] = text] ELSE mtimes]

Keep(loaded) == classes' = loaded.classes /\ mtimes' = loaded.mtimes

Activate(name, q) ==
  /\ Keep(Load(name, q))
  /\ IF Load(name, q).ok THEN active' = name /\ params' = q ELSE UNCHANGED <<active, params>>

\* The instance that get_active returns, by the name it gives itself
Called == NameOf(active, Load(active, params).classes[active])

\* get_active, then activate with the name of the instance, which need not be
\* that of the active file
Reactivate(q) ==
  LET got == Load(active, params)
      new == Load(Called, q)
  IN
  /\ got.ok
  /\ IF Called \in Names
     THEN /\ classes' = [new.classes EXCEPT ![active] = got.classes[active]]
          /\ mtimes' = [new.mtimes EXCEPT ![active] = got.mtimes[active]]
     ELSE Keep(got)
  /\ IF Called \in Names /\ new.ok THEN active' = Called /\ params' = q
     ELSE UNCHANGED <<active, params>>

Reactivates(q) == Load(active, params).ok /\ Called \in Names /\ Load(Called, q).ok

\* The answer is sent inside the try.
Answer(ok) == reply' \in IF ok THEN {"done", "error"} ELSE {"error"}

-----------------------------------------------------------------------------
(* What the process does once it is up *)

\* A round of the strategy loop asks for the strategy.
Round ==
  /\ Keep(Load(active, params))
  /\ reply' = IF Load(active, params).ok THEN "round" ELSE "failed"
  /\ UNCHANGED <<files, active, params, settings, macro>>

\* /strategy passes the amount only: the percentages are the class's own.
CmdStrategy(name) ==
  LET q == IF name \in Pyramids THEN [unit |-> settings.pyramid, pct |-> "default"] ELSE None IN
  /\ Activate(name, q)
  /\ Answer(Load(name, q).ok)
  /\ UNCHANGED <<files, settings, macro>>

\* /set_param starts from the attributes of the active instance, which it gets
\* outside its try; it answers there too.
CmdSetParam(param, value) ==
  LET now == IF params = None THEN [unit |-> "default", pct |-> "default"] ELSE params
      q == [now EXCEPT ![param] = value]
  IN
  /\ \/ Reactivate(q) /\ reply' = IF Reactivates(q) THEN "done" ELSE "error"
     \/ /\ ~Load(active, params).ok /\ Keep(Load(active, params))
        /\ reply' = "none" /\ UNCHANGED <<active, params>>
  /\ UNCHANGED <<files, settings, macro>>

\* Mutant: the new settings are taken over before they are compared.
CmdReloadEarly ==
  LET ok == env \in Readable /\ Load(active, params).ok IN
  /\ IF env \in Readable THEN Keep(Load(active, params)) ELSE UNCHANGED <<classes, mtimes>>
  /\ Answer(ok)
  /\ IF ok THEN settings' = env /\ macro' = env.macro ELSE UNCHANGED <<settings, macro>>
  /\ UNCHANGED <<files, active, params>>

\* reload_settings: the strategy, then the thresholds, then the settings.
CmdReload ==
  LET got == Load(active, params)
      changed == got.ok /\ Called \in Pyramids /\ env.pyramid # settings.pyramid
      q == FromSettings(Called, env)
      ok == env \in Readable /\ got.ok /\ (changed => Reactivates(q))
  IN
  /\ CASE env \notin Readable -> UNCHANGED <<classes, mtimes, active, params>>
       [] env \in Readable /\ changed -> Reactivate(q)
       [] OTHER -> Keep(got) /\ UNCHANGED <<active, params>>
  /\ IF ok THEN macro' = env.macro /\ settings' = env ELSE UNCHANGED <<macro, settings>>
  /\ Answer(ok)
  /\ UNCHANGED files

-----------------------------------------------------------------------------
(* Properties *)

ManagerTypeOK ==
  /\ file \in [Names -> Texts] /\ env \in Envs /\ settings \in Envs
  /\ classes \in [Names -> Texts \union {"none"}]
  /\ mtimes \in [Names -> Texts \union {"none"}]
  /\ active \in Names \union {"none"} /\ params \in ParamSets \union {None}
  /\ macro \in {0, 1, 2} /\ reply \in {"none", "round", "failed", "done", "error"}

\* A round never decides with a class other than that of the file as it is:
\* neither a failed reload nor a file put back makes an old class pass for the
\* new one.
FreshStrategy == reply = "round" => classes[active] = file[active]
=============================================================================
