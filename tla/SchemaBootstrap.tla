-------------------------- MODULE SchemaBootstrap --------------------------
(***************************************************************************)
(* Who creates the table, and whether a process gets to serve.  A          *)
(* container runs `alembic upgrade head` and then the app; the app, and    *)
(* the cleanup CLI, run create_all.  All share one SQLite file, where each *)
(* DDL statement commits by itself, so they interleave statement by        *)
(* statement and a process can die between two of them.                    *)
(*                                                                         *)
(* A definition marked `variant` is not the code: it is a bug the code     *)
(* could have, and a property is shown to be broken by it.                 *)
(***************************************************************************)
EXTENDS Integers, FiniteSets

CONSTANTS Containers, \* docker-entrypoint.sh: the upgrade, then the app
          Apps,       \* uvicorn app.main:app, without an upgrade
          Clis,       \* python -m app.scripts.cleanup
          Indexes,    \* how many indexes the table has
          Urls,       \* DATABASE_URL: "plain", or with a "percent" sign in it
          MaxCrashes  \* bound on crashes

ASSUME RoleAssumption ==
    Containers \cap Apps = {} /\ Containers \cap Clis = {} /\ Apps \cap Clis = {}
ASSUME IndexAssumption == Indexes \in Nat \ {0}
ASSUME UrlAssumption == Urls \subseteq {"plain", "percent"}
ASSUME CrashAssumption == MaxCrashes \in Nat

Procs == Containers \cup Apps \cup Clis

VARIABLES
    url,      \* DATABASE_URL
    table,    \* the table `events` exists, with its unique constraint
    built,    \* how many of its indexes exist
    stamped,  \* alembic_version holds 0001_initial
    at,       \* at[p]: the next step of p, or "off" or "serve"
    tool,     \* tool[p]: what p runs its DDL with, "alembic" or "create_all"
    maker,    \* history: the tool that created the table, or "nobody"
    crashes,  \* history: how many processes were killed
    torn      \* history: one of them was between two DDL statements

schema == <<table, built, stamped, maker>>
vars == <<url, schema, at, tool, crashes, torn>>

-----------------------------------------------------------------------------
Init ==
    /\ url \in Urls
    /\ table = FALSE
    /\ built = 0
    /\ stamped = FALSE
    /\ at = [p \in Procs |-> "off"]
    /\ tool = [p \in Procs |-> "create_all"]
    /\ maker = "nobody"
    /\ crashes = 0
    /\ torn = FALSE

Goto(p, step) == at' = [at EXCEPT ![p] = step]

GotoDdl(p, with) ==
    /\ Goto(p, "create")
    /\ tool' = [tool EXCEPT ![p] = with]

Launch(p) ==
    /\ at[p] = "off"
    /\ Goto(p, IF p \in Containers THEN "upgrade" ELSE "init")
    /\ UNCHANGED <<url, schema, tool, crashes, torn>>

UpgradeAlways(p) ==  \* variant: every migration runs at every start
    /\ at[p] = "upgrade"
    /\ GotoDdl(p, "alembic")
    /\ UNCHANGED <<url, schema, crashes, torn>>

\* alembic's env hands DATABASE_URL to a ConfigParser, which refuses a lone
\* percent sign; `set -e` ends the container.  The stored version decides
\* whether there is something to upgrade.
Upgrade(p) ==
    /\ at[p] = "upgrade"
    /\ \/ url = "percent" /\ Goto(p, "off") /\ UNCHANGED tool
       \/ url = "plain" /\ stamped /\ Goto(p, "init") /\ UNCHANGED tool
       \/ url = "plain" /\ ~stamped /\ GotoDdl(p, "alembic")
    /\ UNCHANGED <<url, schema, crashes, torn>>

\* The CLI deletes old rows, or finds no retention configured, and ends.
Started(p) == Goto(p, IF p \in Clis THEN "off" ELSE "serve")

InitDbUnchecked(p) ==  \* variant: init_db without create_all
    /\ at[p] = "init"
    /\ Started(p) /\ UNCHANGED tool
    /\ UNCHANGED <<url, schema, crashes, torn>>

\* init_db: create_all looks whether the table is there before it creates it,
\* and does not look at the indexes of a table that is.
InitDb(p) ==
    /\ at[p] = "init"
    /\ IF table THEN Started(p) /\ UNCHANGED tool ELSE GotoDdl(p, "create_all")
    /\ UNCHANGED <<url, schema, crashes, torn>>

\* CREATE TABLE: an error if the table exists, and the process exits.
CreateTable(p) ==
    /\ at[p] = "create"
    /\ IF table
       THEN Goto(p, "off") /\ UNCHANGED schema
       ELSE /\ Goto(p, "index")
            /\ table' = TRUE
            /\ maker' = tool[p]
            /\ UNCHANGED <<built, stamped>>
    /\ UNCHANGED <<url, tool, crashes, torn>>

CreateIndexButLast(p) ==  \* variant: one index is forgotten
    /\ at[p] = "index"
    /\ built' = IF built < Indexes - 1 THEN built + 1 ELSE built
    /\ IF built' < Indexes - 1 THEN UNCHANGED at
       ELSE IF tool[p] = "alembic" THEN Goto(p, "stamp") ELSE Started(p)
    /\ UNCHANGED <<url, table, stamped, maker, tool, crashes, torn>>

CreateIndexUnstamped(p) ==  \* variant: the version is not recorded
    /\ at[p] = "index"
    /\ built' = built + 1
    /\ IF built' < Indexes THEN UNCHANGED at ELSE Started(p)
    /\ UNCHANGED <<url, table, stamped, maker, tool, crashes, torn>>

CreateIndex(p) ==
    /\ at[p] = "index"
    /\ built' = built + 1
    /\ IF built' < Indexes THEN UNCHANGED at
       ELSE IF tool[p] = "alembic" THEN Goto(p, "stamp") ELSE Started(p)
    /\ UNCHANGED <<url, table, stamped, maker, tool, crashes, torn>>

\* The INSERT into alembic_version, and on to uvicorn.
Stamp(p) ==
    /\ at[p] = "stamp"
    /\ stamped' = TRUE
    /\ Goto(p, "init")
    /\ UNCHANGED <<url, table, built, maker, tool, crashes, torn>>

Stop(p) ==
    /\ at[p] = "serve"
    /\ Goto(p, "off")
    /\ UNCHANGED <<url, schema, tool, crashes, torn>>

Crash(p) ==
    /\ at[p] # "off"
    /\ crashes < MaxCrashes
    /\ crashes' = crashes + 1
    /\ torn' = (torn \/ at[p] \in {"index", "stamp"})
    /\ Goto(p, "off")
    /\ UNCHANGED <<url, schema, tool>>

Step(p) ==
    Upgrade(p) \/ InitDb(p) \/ CreateTable(p) \/ CreateIndex(p) \/ Stamp(p)

Next == \E p \in Procs : Launch(p) \/ Step(p) \/ Stop(p) \/ Crash(p)

Spec == Init /\ [][Next]_vars

\* A process that runs goes on.  One that exited stays down until somebody
\* launches it: the compose files have no restart policy.
FairSpec == Spec /\ \A p \in Procs : WF_vars(Step(p))

-----------------------------------------------------------------------------
(* Properties *)

TypeOK ==
    /\ url \in Urls
    /\ table \in BOOLEAN /\ stamped \in BOOLEAN /\ torn \in BOOLEAN
    /\ built \in 0..Indexes
    /\ at \in [Procs -> {"off", "upgrade", "create", "index", "stamp", "init", "serve"}]
    /\ tool \in [Procs -> {"alembic", "create_all"}]
    /\ maker \in {"nobody", "alembic", "create_all"}
    /\ crashes \in 0..MaxCrashes

Building(p) == at[p] \in {"index", "stamp"}

\* One process at a time works on the schema, whoever started at once; a table
\* short of an index has somebody building it, or its builder was killed.
OneBuilder ==
    /\ \A p, q \in Procs : Building(p) /\ Building(q) => p = q
    /\ (table /\ built < Indexes) => torn \/ \E p \in Procs : at[p] = "index"

\* A process that serves has its table, a container one that alembic recorded,
\* and what is recorded is whole and was made by alembic alone: where create_all
\* was first, no container ever gets past its upgrade.
ServedSchemaExists ==
    /\ \A p \in Procs : at[p] = "serve" => table
    /\ \A c \in Containers : at[c] \in {"init", "serve"} => stamped
    /\ stamped => table /\ built = Indexes /\ maker = "alembic"

\* The upgrade finds a table it did not record only if create_all made it, or
\* the upgrade that did was killed half way: nothing else blocks it.
BlockedUpgradeIsExplained ==
    (table /\ ~stamped) =>
        torn \/ maker = "create_all" \/ \E p \in Procs : Building(p)

\* Of the containers that start at once, one comes up, although the others lose
\* CREATE TABLE to it, exit and stay down: only a percent sign in the URL,
\* create_all coming first, or a kill leaves nobody to serve.
SomeContainerServes ==
    \A c \in Containers :
        at[c] = "upgrade" ~>
            \/ \E d \in Containers : at[d] = "serve"
            \/ url = "percent" \/ maker = "create_all" \/ crashes > 0

=============================================================================
