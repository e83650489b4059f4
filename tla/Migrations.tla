------------------------------ MODULE Migrations ------------------------------
(* src/persistence/migrations.py: the schema is brought up statement by        *)
(* statement, and PRAGMA user_version marks a version as done. The transaction *)
(* around a version holds nothing together: the driver opens none for a CREATE,*)
(* an ALTER or a PRAGMA, so that each of them is committed at once and a crash *)
(* may fall between any two.                                                   *)
EXTENDS Naturals, Sequences

CONSTANTS Statements,  \* per version: how many statements it has
          Additive     \* the versions that add a column, which fails the second time

ASSUME MigrationAssumption ==
  /\ Statements \in Seq(Nat \ {0}) /\ Statements # <<>>
  /\ Additive \subseteq 1..Len(Statements)

VARIABLES
  version,  \* PRAGMA user_version
  schema,   \* per version: how many of its statements the database has
  stage,    \* of the process: "down", "migrating" or "ready"
  at        \* run_migrations is at this statement of this version

dbVars == <<version, schema, stage, at>>

\* MIGRATIONS: the statements of each version, and the three ALTER TABLE.
SourceStatements == <<9, 1, 1, 1, 1, 1, 1, 1>>
SourceAdditive == {6, 7, 8}

Latest == Len(Statements)
Versions == 1..Latest
Start(v) == [version |-> v, statement |-> 1]

\* A database that an earlier release left behind.
DbInit ==
  /\ version \in 0..Latest
  /\ schema = [v \in Versions |-> IF v <= version THEN Statements[v] ELSE 0]
  /\ stage = "down" /\ at = Start(1)

\* The versions above user_version are pending.
BeginMigrations ==
  /\ stage = "down"
  /\ IF version = Latest
     THEN stage' = "ready" /\ UNCHANGED at
     ELSE stage' = "migrating" /\ at' = Start(version + 1)
  /\ UNCHANGED <<version, schema>>

\* Mutant: the version is marked before its statements.
RunStatementMarked ==
  /\ stage = "migrating" /\ at.statement <= Statements[at.version]
  /\ ~(at.version \in Additive /\ schema[at.version] >= at.statement)
  /\ version' = at.version
  /\ schema' = [schema EXCEPT ![at.version] = IF @ < at.statement THEN at.statement ELSE @]
  /\ at' = [at EXCEPT !.statement = @ + 1]
  /\ UNCHANGED stage

\* CREATE ... IF NOT EXISTS may find its table there, and does nothing.
RunStatement ==
  /\ stage = "migrating" /\ at.statement <= Statements[at.version]
  /\ ~(at.version \in Additive /\ schema[at.version] >= at.statement)
  /\ schema' = [schema EXCEPT ![at.version] = IF @ < at.statement THEN at.statement ELSE @]
  /\ at' = [at EXCEPT !.statement = @ + 1]
  /\ UNCHANGED <<version, stage>>

\* "duplicate column name": the exception ends the start.
StatementFails ==
  /\ stage = "migrating" /\ at.statement <= Statements[at.version]
  /\ at.version \in Additive /\ schema[at.version] >= at.statement
  /\ stage' = "down"
  /\ UNCHANGED <<version, schema, at>>

\* Mutant: the last version is not the end.
MarkVersionPast ==
  /\ stage = "migrating" /\ at.statement > Statements[at.version]
  /\ version' = at.version
  /\ at' = Start(at.version + 1)
  /\ UNCHANGED <<schema, stage>>

MarkVersion ==
  /\ stage = "migrating" /\ at.statement > Statements[at.version]
  /\ version' = at.version
  /\ IF at.version = Latest
     THEN stage' = "ready" /\ UNCHANGED at
     ELSE at' = Start(at.version + 1) /\ UNCHANGED stage
  /\ UNCHANGED schema

\* A start that would add a column the database has: the crash came between
\* the ALTER and the mark.
Torn == /\ stage = "down" /\ version < Latest
        /\ version + 1 \in Additive /\ schema[version + 1] > 0

-----------------------------------------------------------------------------
(* Properties *)

DbTypeOK ==
  /\ version \in 0..Latest
  /\ schema \in [Versions -> Nat] /\ \A v \in Versions : schema[v] <= Statements[v]
  /\ stage \in {"down", "migrating", "ready"}
  /\ at \in [version : Versions, statement : Nat \ {0}]
  /\ at.statement <= Statements[at.version] + 1

\* The repositories rely on it: past run_migrations, whatever release the
\* database came from and wherever earlier starts crashed, every statement of
\* every version is in the schema.
SchemaComplete ==
  stage = "ready" => \A v \in Versions : schema[v] = Statements[v]
=============================================================================
