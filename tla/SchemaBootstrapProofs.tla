----------------------- MODULE SchemaBootstrapProofs -----------------------
(***************************************************************************)
(* Proofs about SchemaBootstrap, for any containers, apps and CLIs, any    *)
(* number of indexes and of crashes.                                       *)
(***************************************************************************)
EXTENDS SchemaBootstrap, TLAPS

-----------------------------------------------------------------------------
(* The inductive invariant *)

\* A process at the DDL is alone there, works on the table it made itself, and
\* has an index left to create, or a version left to record.
BuilderOwns ==
    \A p \in Procs :
        /\ Building(p) => /\ table /\ ~stamped /\ maker = tool[p]
                          /\ \A q \in Procs : Building(q) => p = q
        /\ at[p] = "index" => built < Indexes
        /\ at[p] = "stamp" => built = Indexes /\ tool[p] = "alembic"

\* A container runs its DDL with alembic: init_db has nothing left to create.
ContainerUsesAlembic ==
    \A c \in Containers :
        at[c] \in {"create", "index", "stamp"} => tool[c] = "alembic"

NothingWithoutTable == ~table => built = 0

SchemaInv ==
    /\ TypeOK /\ BuilderOwns /\ ContainerUsesAlembic /\ NothingWithoutTable
    /\ OneBuilder /\ ServedSchemaExists /\ BlockedUpgradeIsExplained

LEMMA SchemaInit == Init => SchemaInv
<1> SUFFICES ASSUME Init PROVE SchemaInv
  OBVIOUS
<1>1. TypeOK
  <2>1. built \in 0..Indexes /\ crashes \in 0..MaxCrashes
    BY IndexAssumption, CrashAssumption DEF Init
  <2>2. table \in BOOLEAN /\ stamped \in BOOLEAN /\ torn \in BOOLEAN BY DEF Init
  <2> QED BY <2>1, <2>2 DEF Init, TypeOK
<1>2. \A p \in Procs : at[p] = "off" BY DEF Init
<1>3. ~table /\ built = 0 /\ ~stamped BY DEF Init
<1>4. BuilderOwns /\ ContainerUsesAlembic /\ OneBuilder /\ ServedSchemaExists
  BY <1>2, <1>3 DEF BuilderOwns, ContainerUsesAlembic, OneBuilder, ServedSchemaExists,
                    Building, Procs
<1> QED BY <1>1, <1>3, <1>4 DEF SchemaInv, NothingWithoutTable, BlockedUpgradeIsExplained

\* A step that leaves the schema alone and moves p between places that are not
\* at the DDL keeps the invariant, if p may be where it goes.
LEMMA MoveStep ==
    ASSUME SchemaInv, NEW p \in Procs, ~Building(p),
           UNCHANGED <<url, schema, crashes, torn>>,
           NEW step \in {"off", "upgrade", "create", "init", "serve"}, Goto(p, step),
           tool' \in [Procs -> {"alembic", "create_all"}],
           \A q \in Procs : q # p => tool'[q] = tool[q],
           step = "serve" => table,
           p \in Containers /\ step \in {"init", "serve"} => stamped,
           p \in Containers /\ step = "create" => tool'[p] = "alembic"
    PROVE  SchemaInv'
<1> USE DEF SchemaInv
<1>1. /\ at' \in [Procs -> {"off", "upgrade", "create", "index", "stamp", "init", "serve"}]
      /\ at'[p] = step /\ \A q \in Procs : q # p => at'[q] = at[q]
  BY DEF TypeOK, Goto
<1>2. /\ url' = url /\ table' = table /\ built' = built /\ stamped' = stamped
      /\ maker' = maker /\ crashes' = crashes /\ torn' = torn
  BY DEF schema
<1>3. TypeOK' BY <1>1, <1>2 DEF TypeOK
<1>4. ~Building(p)' /\ \A q \in Procs : q # p => (Building(q)' <=> Building(q))
  BY <1>1 DEF Building
<1>5. BuilderOwns' BY <1>1, <1>2, <1>4 DEF BuilderOwns
<1>6. ContainerUsesAlembic'
  BY <1>1 DEF ContainerUsesAlembic, Procs
<1>7. NothingWithoutTable' BY <1>2 DEF NothingWithoutTable
<1>8. OneBuilder'
  <2>1. \A q \in Procs : at[q] = "index" => at'[q] = "index"
    BY <1>1 DEF Building
  <2> QED BY <1>2, <1>4, <2>1 DEF OneBuilder
<1>9. ServedSchemaExists' BY <1>1, <1>2 DEF ServedSchemaExists, Procs
<1>10. BlockedUpgradeIsExplained'
  BY <1>2, <1>4 DEF BlockedUpgradeIsExplained
<1> QED BY <1>3, <1>5, <1>6, <1>7, <1>8, <1>9, <1>10

LEMMA LaunchStep ==
    ASSUME SchemaInv, NEW p \in Procs, Launch(p)
    PROVE  SchemaInv'
<1> DEFINE step == IF p \in Containers THEN "upgrade" ELSE "init"
<1>1. /\ ~Building(p) /\ Goto(p, step) /\ step \in {"off", "upgrade", "create", "init", "serve"}
      /\ step # "serve" /\ step # "create" /\ (p \in Containers => step # "init")
  BY DEF Launch, Building
<1>2. UNCHANGED <<url, schema, crashes, torn>> /\ tool' = tool BY DEF Launch
<1>3. tool \in [Procs -> {"alembic", "create_all"}] BY DEF SchemaInv, TypeOK
<1> HIDE DEF step
<1> QED BY <1>1, <1>2, <1>3, MoveStep

LEMMA UpgradeStep ==
    ASSUME SchemaInv, NEW p \in Procs, Upgrade(p)
    PROVE  SchemaInv'
<1>1. /\ ~Building(p) /\ UNCHANGED <<url, schema, crashes, torn>>
      /\ tool \in [Procs -> {"alembic", "create_all"}]
  BY DEF Upgrade, Building, SchemaInv, TypeOK
<1>2. CASE Goto(p, "off") /\ UNCHANGED tool BY <1>1, <1>2, MoveStep
<1>3. CASE stamped /\ Goto(p, "init") /\ UNCHANGED tool BY <1>1, <1>3, MoveStep
<1>4. CASE GotoDdl(p, "alembic")
  <2>1. /\ Goto(p, "create") /\ tool' \in [Procs -> {"alembic", "create_all"}]
        /\ tool'[p] = "alembic" /\ \A q \in Procs : q # p => tool'[q] = tool[q]
    BY <1>1, <1>4 DEF GotoDdl
  <2> QED BY <1>1, <2>1, MoveStep
<1> QED BY <1>2, <1>3, <1>4 DEF Upgrade

LEMMA InitDbStep ==
    ASSUME SchemaInv, NEW p \in Procs, InitDb(p)
    PROVE  SchemaInv'
<1>1. /\ ~Building(p) /\ UNCHANGED <<url, schema, crashes, torn>>
      /\ tool \in [Procs -> {"alembic", "create_all"}]
      /\ p \in Containers => stamped /\ table
  BY DEF InitDb, Building, SchemaInv, TypeOK, ServedSchemaExists
<1>2. CASE table /\ Started(p) /\ UNCHANGED tool
  <2> DEFINE step == IF p \in Clis THEN "off" ELSE "serve"
  <2>1. Goto(p, step) /\ step \in {"off", "serve"} BY <1>2 DEF Started
  <2> HIDE DEF step
  <2> QED BY <1>1, <1>2, <2>1, MoveStep
<1>3. CASE ~table /\ GotoDdl(p, "create_all")
  <2>1. /\ Goto(p, "create") /\ tool' \in [Procs -> {"alembic", "create_all"}]
        /\ \A q \in Procs : q # p => tool'[q] = tool[q]
    BY <1>1, <1>3 DEF GotoDdl
  <2> QED BY <1>1, <1>3, <2>1, MoveStep
<1> QED BY <1>2, <1>3 DEF InitDb

\* Only one process wins the CREATE TABLE: nobody was at the DDL without it.
LEMMA CreateTableStep ==
    ASSUME SchemaInv, NEW p \in Procs, CreateTable(p)
    PROVE  SchemaInv'
<1> USE DEF SchemaInv
<1>1. at[p] = "create" /\ UNCHANGED <<url, tool, crashes, torn>>
  BY DEF CreateTable
<1>2. CASE table
  <2>1. Goto(p, "off") /\ UNCHANGED schema /\ ~Building(p)
    BY <1>1, <1>2 DEF CreateTable, Building
  <2>2. tool' \in [Procs -> {"alembic", "create_all"}] BY <1>1 DEF TypeOK
  <2> QED BY <1>1, <2>1, <2>2, MoveStep
<1>3. CASE ~table
  <2>1. /\ table' = TRUE /\ maker' = tool[p] /\ built' = built /\ stamped' = stamped
        /\ at' = [at EXCEPT ![p] = "index"]
    BY <1>3 DEF CreateTable, Goto
  <2>2. \A q \in Procs : q # p => at'[q] = at[q] /\ ~Building(q)
    BY <1>3, <2>1 DEF BuilderOwns, TypeOK
  <2>3. at'[p] = "index" BY <2>1 DEF TypeOK
  <2>4. \A q \in Procs : Building(q)' => q = p BY <2>1, <2>2 DEF Building
  <2>5. built = 0 /\ ~stamped /\ 0 < Indexes
    BY <1>3, IndexAssumption DEF NothingWithoutTable, ServedSchemaExists
  <2>6. TypeOK' BY <1>1, <2>1 DEF TypeOK
  <2>7. BuilderOwns'
    BY <1>1, <2>1, <2>2, <2>3, <2>4, <2>5 DEF BuilderOwns, Building
  <2>8. ContainerUsesAlembic'
    BY <1>1, <2>2 DEF ContainerUsesAlembic, Procs
  <2>9. NothingWithoutTable' BY <2>1 DEF NothingWithoutTable
  <2>10. OneBuilder' BY <2>3, <2>4 DEF OneBuilder
  <2>11. ServedSchemaExists' BY <2>1, <2>2, <2>3, <2>5 DEF ServedSchemaExists, Procs
  <2>12. BlockedUpgradeIsExplained'
    BY <2>3 DEF BlockedUpgradeIsExplained, Building
  <2> QED BY <2>6, <2>7, <2>8, <2>9, <2>10, <2>11, <2>12
<1> QED BY <1>2, <1>3

LEMMA CreateIndexStep ==
    ASSUME SchemaInv, NEW p \in Procs, CreateIndex(p)
    PROVE  SchemaInv'
<1> USE DEF SchemaInv
<1>1. /\ at[p] = "index" /\ Building(p) /\ built' = built + 1
      /\ UNCHANGED <<url, table, stamped, maker, tool, crashes, torn>>
  BY DEF CreateIndex, Building
<1>2. /\ table /\ ~stamped /\ maker = tool[p] /\ built < Indexes
      /\ \A q \in Procs : q # p => ~Building(q)
  BY <1>1 DEF BuilderOwns
<1>3. built \in Nat /\ built' \in 0..Indexes
  BY <1>1, <1>2, IndexAssumption DEF TypeOK
<1>4. /\ at' \in [Procs -> {"off", "upgrade", "create", "index", "stamp", "init", "serve"}]
      /\ \A q \in Procs : q # p => at'[q] = at[q]
      /\ built' # Indexes => at'[p] = "index"
      /\ built' = Indexes => at'[p] = IF tool[p] = "alembic" THEN "stamp"
                                      ELSE IF p \in Clis THEN "off" ELSE "serve"
  BY <1>1, <1>3, IndexAssumption DEF CreateIndex, Started, Goto, TypeOK
<1>5. TypeOK' BY <1>1, <1>3, <1>4 DEF TypeOK
<1>6. \A q \in Procs : Building(q)' => q = p BY <1>2, <1>4 DEF Building
<1>7. BuilderOwns'
  <2>1. at'[p] = "index" => built' < Indexes
    <3>1. built' = Indexes => at'[p] # "index" BY <1>4
    <3> QED BY <1>3, <3>1, IndexAssumption
  <2>2. at'[p] = "stamp" => built' = Indexes /\ tool[p] = "alembic" BY <1>4
  <2>3. \A q \in Procs : q # p => at'[q] # "index" /\ at'[q] # "stamp"
    BY <1>6 DEF Building
  <2> QED BY <1>1, <1>2, <1>6, <2>1, <2>2, <2>3 DEF BuilderOwns
<1>8. ContainerUsesAlembic'
  <2>1. p \in Containers => tool[p] = "alembic" BY <1>1 DEF ContainerUsesAlembic
  <2> QED BY <1>1, <1>4, <2>1 DEF ContainerUsesAlembic, Procs
<1>9. NothingWithoutTable' BY <1>1, <1>2 DEF NothingWithoutTable
<1>10. OneBuilder'
  <2>1. built' < Indexes => at'[p] = "index" BY <1>3, <1>4
  <2> QED BY <1>6, <2>1 DEF OneBuilder
<1>11. ServedSchemaExists'
  <2>1. p \in Containers => at'[p] \in {"index", "stamp"}
    BY <1>1, <1>4 DEF ContainerUsesAlembic
  <2> QED BY <1>1, <1>2, <1>4, <2>1 DEF ServedSchemaExists, Procs
<1>12. BlockedUpgradeIsExplained'
  <2>1. CASE maker = "create_all" BY <1>1, <2>1 DEF BlockedUpgradeIsExplained
  <2>2. CASE tool[p] = "alembic" BY <1>4, <2>2 DEF BlockedUpgradeIsExplained, Building
  <2> QED BY <1>2, <2>1, <2>2 DEF TypeOK
<1> QED BY <1>5, <1>7, <1>8, <1>9, <1>10, <1>11, <1>12

LEMMA StampStep ==
    ASSUME SchemaInv, NEW p \in Procs, Stamp(p)
    PROVE  SchemaInv'
<1> USE DEF SchemaInv
<1>1. /\ at[p] = "stamp" /\ Building(p) /\ stamped' = TRUE
      /\ UNCHANGED <<url, table, built, maker, tool, crashes, torn>>
  BY DEF Stamp, Building
<1>2. /\ table /\ built = Indexes /\ maker = "alembic"
      /\ \A q \in Procs : q # p => ~Building(q)
  BY <1>1 DEF BuilderOwns
<1>3. /\ at' \in [Procs -> {"off", "upgrade", "create", "index", "stamp", "init", "serve"}]
      /\ at'[p] = "init" /\ \A q \in Procs : q # p => at'[q] = at[q]
  BY DEF Stamp, Goto, TypeOK
<1>4. TypeOK' BY <1>1, <1>3 DEF TypeOK
<1>5. \A q \in Procs : ~Building(q)' BY <1>2, <1>3 DEF Building
<1>6. BuilderOwns' BY <1>5 DEF BuilderOwns, Building
<1>7. ContainerUsesAlembic' BY <1>1, <1>3 DEF ContainerUsesAlembic, Procs
<1>8. NothingWithoutTable' BY <1>1 DEF NothingWithoutTable
<1>9. OneBuilder' BY <1>1, <1>2, <1>5, IndexAssumption DEF OneBuilder, TypeOK
<1>10. ServedSchemaExists' BY <1>1, <1>2, <1>3 DEF ServedSchemaExists
<1>11. BlockedUpgradeIsExplained' BY <1>1 DEF BlockedUpgradeIsExplained
<1> QED BY <1>4, <1>6, <1>7, <1>8, <1>9, <1>10, <1>11

LEMMA StopStep ==
    ASSUME SchemaInv, NEW p \in Procs, Stop(p)
    PROVE  SchemaInv'
<1>1. /\ ~Building(p) /\ UNCHANGED <<url, schema, crashes, torn>>
      /\ Goto(p, "off") /\ tool' = tool
  BY DEF Stop, Building
<1>2. tool \in [Procs -> {"alembic", "create_all"}] BY DEF SchemaInv, TypeOK
<1> QED BY <1>1, <1>2, MoveStep

LEMMA CrashStep ==
    ASSUME SchemaInv, NEW p \in Procs, Crash(p)
    PROVE  SchemaInv'
<1> USE DEF SchemaInv
<1>1. /\ UNCHANGED <<url, schema, tool>> /\ torn' = (torn \/ Building(p))
      /\ crashes < MaxCrashes /\ crashes' = crashes + 1
  BY DEF Crash, Building
<1>2. /\ table' = table /\ built' = built /\ stamped' = stamped /\ maker' = maker
  BY <1>1 DEF schema
<1>3. /\ at' \in [Procs -> {"off", "upgrade", "create", "index", "stamp", "init", "serve"}]
      /\ at'[p] = "off" /\ \A q \in Procs : q # p => at'[q] = at[q]
  BY DEF Crash, Goto, TypeOK
<1>4. TypeOK'
  <2>1. crashes' \in 0..MaxCrashes BY <1>1, CrashAssumption DEF TypeOK
  <2>2. torn' \in BOOLEAN BY <1>1
  <2> QED BY <1>1, <1>2, <1>3, <2>1, <2>2 DEF TypeOK
<1>5. \A q \in Procs : Building(q)' <=> Building(q) /\ q # p
  BY <1>3 DEF Building
<1>6. BuilderOwns' BY <1>1, <1>2, <1>3, <1>5 DEF BuilderOwns
<1>7. ContainerUsesAlembic' BY <1>1, <1>3 DEF ContainerUsesAlembic, Procs
<1>8. NothingWithoutTable' BY <1>2 DEF NothingWithoutTable
<1>9. OneBuilder'
  <2>1. (table /\ built < Indexes) => torn \/ \E q \in Procs : at[q] = "index"
    BY DEF OneBuilder
  <2>2. at[p] = "index" => Building(p) BY DEF Building
  <2>3. (table' /\ built' < Indexes) => torn' \/ \E q \in Procs : at'[q] = "index"
    BY <1>1, <1>2, <1>3, <2>1, <2>2
  <2>4. \A q, r \in Procs : Building(q)' /\ Building(r)' => q = r
    BY <1>5 DEF OneBuilder
  <2> QED BY <2>3, <2>4 DEF OneBuilder
<1>10. ServedSchemaExists' BY <1>2, <1>3 DEF ServedSchemaExists, Procs
<1>11. BlockedUpgradeIsExplained'
  BY <1>1, <1>2, <1>5 DEF BlockedUpgradeIsExplained
<1> QED BY <1>4, <1>6, <1>7, <1>8, <1>9, <1>10, <1>11

LEMMA SchemaNext == SchemaInv /\ [Next]_vars => SchemaInv'
<1> SUFFICES ASSUME SchemaInv, [Next]_vars PROVE SchemaInv'
  OBVIOUS
<1>1. CASE UNCHANGED vars
  BY <1>1 DEF vars, schema, SchemaInv, TypeOK, BuilderOwns, ContainerUsesAlembic,
              NothingWithoutTable, OneBuilder, ServedSchemaExists,
              BlockedUpgradeIsExplained, Building
<1>2. ASSUME NEW p \in Procs, Launch(p) \/ Step(p) \/ Stop(p) \/ Crash(p)
      PROVE  SchemaInv'
  BY <1>2, LaunchStep, UpgradeStep, InitDbStep, CreateTableStep, CreateIndexStep,
     StampStep, StopStep, CrashStep DEF Step
<1> QED BY <1>1, <1>2 DEF Next

LEMMA SchemaInvariant == Spec => []SchemaInv
BY SchemaInit, SchemaNext, PTL DEF Spec

-----------------------------------------------------------------------------
(* The theorems *)

\* However many processes start at once, one of them builds the schema, and a
\* schema short of an index has its builder, or had one that was killed.
THEOREM OneBuilderAlways == Spec => []OneBuilder
<1>1. SchemaInv => OneBuilder BY DEF SchemaInv
<1> QED BY <1>1, SchemaInvariant, PTL

\* Who serves has a table; a container one that alembic made whole and recorded.
THEOREM ServedSchemaExistsAlways == Spec => []ServedSchemaExists
<1>1. SchemaInv => ServedSchemaExists BY DEF SchemaInv
<1> QED BY <1>1, SchemaInvariant, PTL

\* An upgrade is blocked only by create_all's table, or by a torn upgrade.
THEOREM BlockedUpgradeIsExplainedAlways == Spec => []BlockedUpgradeIsExplained
<1>1. SchemaInv => BlockedUpgradeIsExplained BY DEF SchemaInv
<1> QED BY <1>1, SchemaInvariant, PTL

=============================================================================
