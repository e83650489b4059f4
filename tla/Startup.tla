-------------------------------- MODULE Startup --------------------------------
(* The process from its start to its crash: main reads the settings, then      *)
(* _initialize of src/core/trader.py migrates the database (Migrations) and    *)
(* activates the strategy (StrategyManager), then the strategy loop and the    *)
(* commands run. Whatever raises before that ends the process, and the         *)
(* container starts it again.                                                  *)
EXTENDS Migrations, StrategyManager

CONSTANTS MaxEdits,   \* bound on changes of files
          MaxCrashes  \* bound on crashes

VARIABLES
  edits,
  crashes,
  overridden  \* history: since the settings were last applied to the strategy,
              \* /strategy or /set_param has set its parameters, or a reload has
              \* passed it over because its class is not called a pyramid

vars == <<dbVars, files, managerVars, edits, crashes, overridden>>

Init ==
  /\ DbInit
  /\ file = [n \in Names |-> "first"] /\ env = [pyramid |-> "a", macro |-> 1]
  /\ classes = Nothing /\ mtimes = Nothing /\ active = "none" /\ params = None
  /\ settings = env /\ macro = 0 /\ reply = "none"
  /\ edits = 0 /\ crashes = 0 /\ overridden = FALSE

Up == active # "none"

Ends == /\ classes' = Nothing /\ mtimes' = Nothing /\ active' = "none" /\ params' = None
        /\ macro' = 0 /\ reply' = "none" /\ overridden' = FALSE

-----------------------------------------------------------------------------
(* The world *)

Edit ==
  /\ edits < MaxEdits /\ edits' = edits + 1
  /\ \/ \E n \in Names : \E t \in Texts \ {file[n]} :
          file' = [file EXCEPT ![n] = t] /\ UNCHANGED env
     \/ env' \in Envs \ {env} /\ UNCHANGED file
  /\ reply' = "none"
  /\ UNCHANGED <<dbVars, classes, mtimes, active, params, settings, macro, crashes, overridden>>

Crash ==
  /\ crashes < MaxCrashes /\ crashes' = crashes + 1
  /\ stage # "down" /\ stage' = "down" /\ Ends
  /\ UNCHANGED <<version, schema, at, files, settings, edits>>

-----------------------------------------------------------------------------
(* The start *)

Launch ==
  /\ env \in Readable /\ settings' = env
  /\ BeginMigrations
  /\ UNCHANGED <<files, classes, mtimes, active, params, macro, reply, edits, crashes, overridden>>

Migrate ==
  /\ RunStatement \/ StatementFails \/ MarkVersion
  /\ UNCHANGED <<files, managerVars, edits, crashes, overridden>>

\* The coordinator has its thresholds before the strategy is loaded.
Initialize ==
  /\ stage = "ready" /\ ~Up
  /\ IF Load(Default, FromSettings(Default, settings)).ok
     THEN /\ Activate(Default, FromSettings(Default, settings))
          /\ macro' = settings.macro /\ UNCHANGED <<reply, stage, overridden>>
     ELSE stage' = "down" /\ Ends
  /\ UNCHANGED <<version, schema, at, files, settings, edits, crashes>>

-----------------------------------------------------------------------------
(* Up *)

Decide == Up /\ Round /\ UNCHANGED <<dbVars, edits, crashes, overridden>>

Command ==
  /\ Up
  /\ \/ /\ \/ \E n \in Names : CmdStrategy(n)
           \/ \E param \in {"unit", "pct"}, value \in {"typed", "bad"} : CmdSetParam(param, value)
        /\ overridden' = (overridden \/ active' # active \/ params' # params)
     \/ /\ CmdReload
        /\ overridden' = \/ overridden /\ active' = active /\ params' = params
                         \/ settings' # settings /\ Called \notin Pyramids
  /\ UNCHANGED <<dbVars, edits, crashes>>

Next == Edit \/ Crash \/ Launch \/ Migrate \/ Initialize \/ Decide \/ Command

Spec == Init /\ [][Next]_vars

\* The container is restarted whenever it stops, and the loops run.
FairSpec == Spec /\ WF_vars(Launch) /\ WF_vars(Migrate) /\ WF_vars(Initialize) /\ WF_vars(Decide)

-----------------------------------------------------------------------------
(* Properties *)

\* The variables have their types.
TypeOK == DbTypeOK /\ ManagerTypeOK /\ edits \in Nat /\ crashes \in Nat /\ overridden \in BOOLEAN

\* Unless the operator has set them since, or the file's class has another name
\* than the file, the parameters a pyramid runs with are those of the settings,
\* and the coordinator's threshold always is: a reload, a failed reload or a
\* restart leaves no half.
SettingsInForce ==
  Up => /\ macro = settings.macro
        /\ (active \in Pyramids /\ ~overridden) => params = FromSettings(active, settings)

\* Nothing has to be repaired by hand: the settings can be read, the strategy's
\* file loads with its parameters, and no column was added without its mark.
Sound ==
  /\ ~Torn /\ env \in Readable
  /\ IF Up THEN Loads(file[active]) /\ Accepts(file[active], params)
     ELSE Loads(file[Default]) /\ Accepts(file[Default], FromSettings(Default, env))

\* From then on the process comes up, from a database of any version, and its
\* rounds go on to decide: no failed start and no failed reload sticks.
TradesAgain == <>[]Sound => []<>(reply = "round")
=============================================================================
