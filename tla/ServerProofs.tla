----------------------------- MODULE ServerProofs -----------------------------
(***************************************************************************)
(* Proofs about what a server's process does by itself.  Boot: for any     *)
(* number of servers and commands, tables, keys and values, on either      *)
(* driver, with no bound on restarts but MaxEnds.  CleanupCron: for any    *)
(* number of replicas, rows and uploads, any ceiling on retries, with one  *)
(* lock in Redis or one per process.                                       *)
(***************************************************************************)
EXTENDS Boot, CleanupCron, FiniteSetTheorems, WellFoundedInduction, TLAPS

-----------------------------------------------------------------------------
(* Start-up: the inductive invariant *)

ProcessRows == [at : Stages, key : Keys \cup {Absent},
                seed : Values \cup {Absent}, table : 0 .. LastTable + 1]

\* A command neither resolves a key nor seeds settings; a server that has a key
\* in hand has a real one, and a seed.
Roles ==
    /\ \A p \in Consoles : boot[p].at \notin {"key", "link", "seed"}
    /\ \A p \in Servers : boot[p].at # "down" => boot[p].seed # Absent
    /\ \A p \in Processes : boot[p].at = "link" => boot[p].key # Absent

\* Past its link, a server holds the file's key, and then there is a file.
KeySettled ==
    /\ hashed \subseteq {keyFile}
    /\ \A p \in Servers :
         boot[p].at \notin {"down", "key", "link"} => boot[p].key = keyFile /\ keyFile # Absent

\* Whoever serves has seeded; what was ordered is in the table, unless its row has
\* become unreadable.
SettingSettled ==
    /\ \A p \in Servers : boot[p].at = "up" => setting # Absent
    /\ ordered # Absent => setting \in {ordered, Garbled}

Migrating == {"table", "create", "history", "record"}

\* The tables below a process's own index exist, its index is 0 until it looks,
\* and the migration is recorded, and believed recorded, only when all exist.
SchemaGrows ==
    /\ \A p \in Processes :
         /\ \A n \in 0 .. LastTable : n < boot[p].table => n \in tables
         /\ boot[p].at \in {"down", "key", "link", "open", "lock"} => boot[p].table = 0
         /\ boot[p].at = "create" => boot[p].table <= LastTable
         /\ boot[p].at = "record" => boot[p].table = LastTable + 1
         /\ boot[p].at = "history" => boot[p].table = 1
         /\ boot[p].at \in {"seed", "up"} => tables = 0 .. LastTable
    /\ migrated => tables = 0 .. LastTable

\* On Postgres one process migrates, and what it has found missing is missing.
OneMigrator ==
    database = "postgres" =>
      /\ ~ collided
      /\ \A p \in Processes :
           /\ boot[p].at \in Migrating => migrator = p
           /\ boot[p].at = "create" => boot[p].table \notin tables
           /\ boot[p].at \in {"table", "create", "record"} /\ boot[p].table > 0 => ~ migrated

BootInv ==
    /\ BootTypeOK /\ Roles /\ KeySettled
    /\ SettingSettled /\ SchemaGrows /\ OneMigrator

-----------------------------------------------------------------------------
(* Type correctness *)

\* The rows that actions write are process rows.
LEMMA StageTyped ==
    ASSUME NEW r \in ProcessRows, NEW stage \in Stages
    PROVE  [r EXCEPT !.at = stage] \in ProcessRows
BY DEF ProcessRows

\* The row of a process that takes a key in hand is a process row.
LEMMA KeyTyped ==
    ASSUME NEW r \in ProcessRows, NEW stage \in Stages, NEW k \in Keys \cup {Absent}
    PROVE  [r EXCEPT !.key = k, !.at = stage] \in ProcessRows
BY DEF ProcessRows

\* The row of a process that goes on to another table is a process row.
LEMMA TableTyped ==
    ASSUME NEW r \in ProcessRows, NEW stage \in Stages, NEW n \in 0 .. LastTable + 1
    PROVE  [r EXCEPT !.table = n, !.at = stage] \in ProcessRows
BY DEF ProcessRows

\* A process that is down has a process row.
LEMMA DownTyped == Down \in ProcessRows
<1>1. 0 \in 0 .. LastTable + 1
  BY BootAssumption
<1> QED BY <1>1 DEF Down, ProcessRows, Stages

\* A server that starts has a process row.
LEMMA StartTyped ==
    ASSUME NEW v \in Values
    PROVE  [Down EXCEPT !.at = "key", !.seed = v] \in ProcessRows
<1>1. 0 \in 0 .. LastTable + 1
  BY BootAssumption
<1> QED BY <1>1 DEF Down, ProcessRows, Stages

\* Boot's BootTypeOK holds in every reachable state: every stage, key, value and
\* table index is one the program has.
LEMMA TypeInit == BootInit => BootTypeOK
<1> SUFFICES ASSUME BootInit PROVE BootTypeOK
  OBVIOUS
<1>1. boot \in [Processes -> ProcessRows]
  BY DownTyped DEF BootInit
<1>2. ends \in 0 .. MaxEnds
  BY BootAssumption DEF BootInit
<1> QED BY <1>1, <1>2 DEF BootInit, BootTypeOK, ProcessRows

\* Every step of Boot preserves its types; that a token is hashed under a real
\* key and a table created under a real index needs the invariant.
LEMMA TypeStep == BootTypeOK /\ Roles /\ KeySettled /\ SchemaGrows /\ [BootNext]_bootVars => BootTypeOK'
<1> SUFFICES ASSUME BootTypeOK, Roles, KeySettled, SchemaGrows, [BootNext]_bootVars PROVE BootTypeOK'
  OBVIOUS
<1> USE DEF BootTypeOK
<1>0. boot \in [Processes -> ProcessRows]
  BY DEF ProcessRows
<1>1. ASSUME NEW p \in Processes, StartServer(p) PROVE BootTypeOK'
  <2>1. boot' \in [Processes -> ProcessRows]
    BY <1>0, <1>1, StartTyped DEF StartServer
  <2> QED BY <1>1, <2>1 DEF StartServer, ProcessRows
<1>2. ASSUME NEW p \in Processes, StartConsole(p) PROVE BootTypeOK'
  <2>1. boot' \in [Processes -> ProcessRows]
    BY <1>0, <1>2, StageTyped DEF StartConsole, Go, Stages
  <2> QED BY <1>2, <2>1 DEF StartConsole, ProcessRows
<1>3. ASSUME NEW p \in Processes, ReadKey(p) PROVE BootTypeOK'
  <2>1. boot' \in [Processes -> ProcessRows]
    <3>1. ASSUME NEW stage \in {"open", "link"}, NEW k \in Keys \cup {Absent},
                 boot' = [boot EXCEPT ![p].key = k, ![p].at = stage]
          PROVE  boot' \in [Processes -> ProcessRows]
      BY <1>0, <3>1, KeyTyped DEF Stages
    <3>2. CASE keyFile # Absent
      BY <1>3, <3>1, <3>2 DEF ReadKey
    <3>3. CASE keyFile = Absent
      BY <1>3, <3>1, <3>3 DEF ReadKey, Drawn
    <3> QED BY <3>2, <3>3
  <2> QED BY <1>3, <2>1 DEF ReadKey, ProcessRows
<1>4. ASSUME NEW p \in Processes, LinkKey(p) PROVE BootTypeOK'
  <2>1. boot' \in [Processes -> ProcessRows]
    BY <1>0, <1>4, StageTyped DEF LinkKey, Go, Stages
  <2>2. keyFile' \in Keys \cup {Absent}
    BY <1>0, <1>4 DEF LinkKey, Linked, ProcessRows
  <2> QED BY <1>4, <2>1, <2>2 DEF LinkKey, ProcessRows
<1>5. ASSUME NEW p \in Processes, OpenDB(p) PROVE BootTypeOK'
  <2>1. boot' \in [Processes -> ProcessRows]
    BY <1>0, <1>5, StageTyped DEF OpenDB, Go, Stages
  <2> QED BY <1>5, <2>1 DEF OpenDB, ProcessRows
<1>6. ASSUME NEW p \in Processes, AdvisoryLock(p) PROVE BootTypeOK'
  <2>1. boot' \in [Processes -> ProcessRows]
    BY <1>0, <1>6, StageTyped DEF AdvisoryLock, Go, Stages
  <2> QED BY <1>6, <2>1 DEF AdvisoryLock, ProcessRows
<1>7. ASSUME NEW p \in Processes, CheckTable(p) PROVE BootTypeOK'
  <2>1. boot[p].table <= LastTable => boot[p].table + 1 \in 0 .. LastTable + 1
    BY <1>0, BootAssumption DEF ProcessRows
  <2>2. boot' \in [Processes -> ProcessRows]
    <3>1. ASSUME NEW stage \in {"record", "create"}, Go(p, stage)
          PROVE  boot' \in [Processes -> ProcessRows]
      BY <1>0, <3>1, StageTyped DEF Go, Stages
    <3>2. ASSUME boot[p].table <= LastTable, NEW stage \in {"history", "table"},
                 boot' = [boot EXCEPT ![p].table = boot[p].table + 1, ![p].at = stage]
          PROVE  boot' \in [Processes -> ProcessRows]
      BY <1>0, <2>1, <3>2, TableTyped DEF Stages
    <3> QED BY <1>7, <3>1, <3>2 DEF CheckTable
  <2> QED BY <1>7, <2>2 DEF CheckTable, ProcessRows
<1>8. ASSUME NEW p \in Processes, CreateTable(p), boot[p].at = "create" => boot[p].table <= LastTable
      PROVE BootTypeOK'
  <2>1. boot[p].table \in 0 .. LastTable /\ boot[p].table + 1 \in 0 .. LastTable + 1
    BY <1>0, <1>8, BootAssumption DEF ProcessRows, CreateTable
  <2>2. boot' \in [Processes -> ProcessRows]
    <3>1. CASE Exit(p)
      BY <1>0, <3>1, DownTyped DEF Exit
    <3>2. ASSUME NEW stage \in {"history", "table"},
                 boot' = [boot EXCEPT ![p].table = boot[p].table + 1, ![p].at = stage]
          PROVE  boot' \in [Processes -> ProcessRows]
      BY <1>0, <2>1, <3>2, TableTyped DEF Stages
    <3> QED BY <1>8, <3>1, <3>2 DEF CreateTable
  <2>3. migrator' \in Processes \cup {Absent}
    BY <1>8 DEF CreateTable, Unlocked
  <2>4. tables' \subseteq 0 .. LastTable
    BY <1>8, <2>1 DEF CreateTable
  <2> QED BY <1>8, <2>2, <2>3, <2>4 DEF CreateTable, ProcessRows
<1>9. ASSUME NEW p \in Processes, ReadHistory(p) PROVE BootTypeOK'
  <2>1. boot' \in [Processes -> ProcessRows]
    <3>1. AfterMigration(p) \in Stages /\ "table" \in Stages
      BY DEF AfterMigration, Stages
    <3> QED BY <1>0, <1>9, <3>1, StageTyped DEF ReadHistory, Go
  <2>2. migrator' \in Processes \cup {Absent}
    BY <1>9 DEF ReadHistory, Unlocked
  <2> QED BY <1>9, <2>1, <2>2 DEF ReadHistory, ProcessRows
<1>10. ASSUME NEW p \in Processes, RecordMigration(p) PROVE BootTypeOK'
  <2>1. boot' \in [Processes -> ProcessRows]
    <3>1. AfterMigration(p) \in Stages
      BY DEF AfterMigration, Stages
    <3> QED BY <1>0, <1>10, <3>1, StageTyped, DownTyped DEF RecordMigration, Go, Exit
  <2>2. migrator' \in Processes \cup {Absent}
    BY <1>10 DEF RecordMigration, Unlocked
  <2> QED BY <1>10, <2>1, <2>2 DEF RecordMigration, ProcessRows
<1>11. ASSUME NEW p \in Processes, SeedDefaults(p) PROVE BootTypeOK'
  <2>1. boot' \in [Processes -> ProcessRows]
    BY <1>0, <1>11, StageTyped DEF SeedDefaults, Go, Stages
  <2>2. setting' \in Values \cup {Absent, Garbled}
    BY <1>0, <1>11 DEF SeedDefaults, Seeded, ProcessRows
  <2> QED BY <1>11, <2>1, <2>2 DEF SeedDefaults, ProcessRows
<1>12. ASSUME NEW p \in Processes, AdminSet(p) PROVE BootTypeOK'
  BY <1>12 DEF AdminSet
<1>13. ASSUME NEW p \in Processes, IssueToken(p), boot[p].key \in Keys PROVE BootTypeOK'
  BY <1>13 DEF IssueToken
<1>14. ASSUME NEW p \in Processes, End(p) PROVE BootTypeOK'
  <2>1. boot' \in [Processes -> ProcessRows]
    BY <1>0, <1>14, DownTyped DEF End, Exit
  <2>2. migrator' \in Processes \cup {Absent}
    BY <1>14 DEF End, Unlocked
  <2>3. ends' \in 0 .. MaxEnds
    BY <1>14, BootAssumption DEF End
  <2> QED BY <1>14, <2>1, <2>2, <2>3 DEF End, ProcessRows
<1>15. CASE UNCHANGED bootVars
  BY <1>15 DEF bootVars
<1>16. ASSUME NEW p \in Processes, IssueToken(p) PROVE boot[p].key \in Keys
  BY <1>0, <1>16 DEF IssueToken, Serving, KeySettled, ProcessRows
<1>17. ASSUME NEW p \in Processes, boot[p].at = "create" PROVE boot[p].table <= LastTable
  BY <1>17 DEF SchemaGrows
<1>18. CASE Garble
  BY <1>18 DEF Garble
<1> QED
  BY <1>1, <1>2, <1>3, <1>4, <1>5, <1>6, <1>7, <1>8, <1>9, <1>10, <1>11, <1>12,
     <1>13, <1>14, <1>15, <1>16, <1>17, <1>18 DEF BootNext

-----------------------------------------------------------------------------
(* Preservation *)

\* What the two steps with the most branches do to the process's row.
LEMMA ReadKeyRow ==
    ASSUME BootTypeOK, NEW p \in Processes, ReadKey(p)
    PROVE  /\ boot[p].at = "key"
           /\ boot' = [boot EXCEPT ![p] = boot'[p]]
           /\ boot'[p].seed = boot[p].seed /\ boot'[p].table = boot[p].table
           /\ \/ keyFile # Absent /\ boot'[p].at = "open" /\ boot'[p].key = keyFile
              \/ boot'[p].at = "link" /\ boot'[p].key \in Keys
<1>0. boot \in [Processes -> ProcessRows]
  BY DEF BootTypeOK, ProcessRows
<1>1. ASSUME NEW stage, NEW k, boot' = [boot EXCEPT ![p].key = k, ![p].at = stage]
      PROVE  /\ boot' = [boot EXCEPT ![p] = boot'[p]]
             /\ boot'[p].seed = boot[p].seed /\ boot'[p].table = boot[p].table
             /\ boot'[p].at = stage /\ boot'[p].key = k
  BY <1>0, <1>1 DEF ProcessRows
<1>2. CASE keyFile # Absent
  BY <1>1, <1>2 DEF ReadKey
<1>3. CASE keyFile = Absent
  BY <1>1, <1>3 DEF ReadKey, Drawn
<1> QED BY <1>2, <1>3 DEF ReadKey

\* RecordMigration: the process goes on if it inserted the row, and ends on a
\* row that is there.
LEMMA RecordRow ==
    ASSUME BootTypeOK, NEW p \in Processes, RecordMigration(p)
    PROVE  /\ boot[p].at = "record"
           /\ boot' = [boot EXCEPT ![p] = boot'[p]]
           /\ \/ boot'[p] = Down /\ migrated
              \/ /\ boot'[p].at = AfterMigration(p) /\ boot'[p].key = boot[p].key
                 /\ boot'[p].seed = boot[p].seed /\ boot'[p].table = boot[p].table
                 /\ ~ migrated /\ collided' = collided
<1>0. boot \in [Processes -> ProcessRows]
  BY DEF BootTypeOK, ProcessRows
<1>1. ASSUME Go(p, AfterMigration(p))
      PROVE  /\ boot' = [boot EXCEPT ![p] = boot'[p]]
             /\ boot'[p].at = AfterMigration(p) /\ boot'[p].key = boot[p].key
             /\ boot'[p].seed = boot[p].seed /\ boot'[p].table = boot[p].table
  BY <1>0, <1>1 DEF Go, ProcessRows
<1>2. ASSUME Exit(p)
      PROVE  boot' = [boot EXCEPT ![p] = boot'[p]] /\ boot'[p] = Down
  BY <1>0, <1>2 DEF Exit
<1> QED BY <1>1, <1>2 DEF RecordMigration, Recordable

\* Only servers resolve keys and seed, and a server keeps its seed until it ends.
LEMMA RolesStep == BootTypeOK /\ Roles /\ [BootNext]_bootVars => Roles'
<1> SUFFICES ASSUME BootTypeOK, Roles, [BootNext]_bootVars PROVE Roles'
  OBVIOUS
<1>0. boot \in [Processes -> ProcessRows]
  BY DEF BootTypeOK, ProcessRows
<1> USE DEF Roles
<1>1. ASSUME NEW p \in Processes, StartServer(p) PROVE Roles'
  BY <1>0, <1>1, BootAssumption DEF StartServer, Down, ProcessRows, Processes
<1>2. ASSUME NEW p \in Processes, StartConsole(p) PROVE Roles'
  BY <1>0, <1>2, BootAssumption DEF StartConsole, Go, ProcessRows, Processes
<1>3. ASSUME NEW p \in Processes, ReadKey(p) PROVE Roles'
  <2>1. UNCHANGED <<database, keyFile, tables, migrated, migrator, setting, ordered, hashed, collided>>
    BY <1>3 DEF ReadKey
  <2> QED BY <1>0, <1>3, <2>1, ReadKeyRow, BootAssumption DEF Processes, BootTypeOK
<1>4. ASSUME NEW p \in Processes, LinkKey(p) PROVE Roles'
  BY <1>0, <1>4, BootAssumption DEF LinkKey, Go, Linked, ProcessRows, Processes
<1>5. ASSUME NEW p \in Processes, OpenDB(p) PROVE Roles'
  BY <1>0, <1>5, BootAssumption DEF OpenDB, Go, NeedsLock, ProcessRows, Processes
<1>6. ASSUME NEW p \in Processes, AdvisoryLock(p) PROVE Roles'
  BY <1>0, <1>6, BootAssumption DEF AdvisoryLock, Go, ProcessRows, Processes
<1>7. ASSUME NEW p \in Processes, CheckTable(p) PROVE Roles'
  BY <1>0, <1>7, BootAssumption DEF CheckTable, Go, ProcessRows, Processes
<1>8. ASSUME NEW p \in Processes, CreateTable(p) PROVE Roles'
  BY <1>0, <1>8, BootAssumption DEF CreateTable, Exit, Down, Unlocked, ProcessRows, Processes
<1>9. ASSUME NEW p \in Processes, ReadHistory(p) PROVE Roles'
  BY <1>0, <1>9, BootAssumption DEF ReadHistory, Go, AfterMigration, Unlocked, ProcessRows, Processes
<1>10. ASSUME NEW p \in Processes, RecordMigration(p) PROVE Roles'
  <2>1. UNCHANGED <<database, keyFile, tables, setting, ordered, hashed>>
    BY <1>10 DEF RecordMigration
  <2>2. migrated' /\ migrator' = Unlocked(p)
    BY <1>10 DEF RecordMigration
  <2> QED BY <1>0, <1>10, <2>1, <2>2, RecordRow, BootAssumption
          DEF Down, AfterMigration, Unlocked, Processes, BootTypeOK
<1>11. ASSUME NEW p \in Processes, SeedDefaults(p) PROVE Roles'
  BY <1>0, <1>11, BootAssumption DEF SeedDefaults, Go, Seeded, ProcessRows, Processes
<1>12. ASSUME NEW p \in Processes, AdminSet(p) PROVE Roles'
  BY <1>0, <1>12, BootAssumption DEF AdminSet, Serving, ProcessRows, Processes
<1>13. ASSUME NEW p \in Processes, IssueToken(p) PROVE Roles'
  BY <1>0, <1>13, BootAssumption DEF IssueToken, Serving, ProcessRows, Processes
<1>14. ASSUME NEW p \in Processes, End(p) PROVE Roles'
  BY <1>0, <1>14, BootAssumption DEF End, Exit, Down, Unlocked, ProcessRows, Processes
<1>15. CASE UNCHANGED bootVars
  BY <1>15 DEF bootVars
<1>16. CASE Garble
  BY <1>16 DEF Garble
<1> QED
  BY <1>1, <1>2, <1>3, <1>4, <1>5, <1>6, <1>7, <1>8, <1>9, <1>10, <1>11, <1>12, <1>13, <1>14, <1>15, <1>16
     DEF BootNext

\* os.Link gives the file its key once, and ReadKey and LinkKey let a server
\* past them only with that key.
LEMMA KeyStep == BootTypeOK /\ Roles /\ KeySettled /\ [BootNext]_bootVars => KeySettled'
<1> SUFFICES ASSUME BootTypeOK, Roles, KeySettled, [BootNext]_bootVars PROVE KeySettled'
  OBVIOUS
<1>0. boot \in [Processes -> ProcessRows]
  BY DEF BootTypeOK, ProcessRows
<1> USE DEF Roles, KeySettled, BootTypeOK
<1>1. ASSUME NEW p \in Processes, StartServer(p) PROVE KeySettled'
  BY <1>0, <1>1, BootAssumption DEF StartServer, Down, ProcessRows, Processes
<1>2. ASSUME NEW p \in Processes, StartConsole(p) PROVE KeySettled'
  BY <1>0, <1>2, BootAssumption DEF StartConsole, Go, ProcessRows, Processes
<1>3. ASSUME NEW p \in Processes, ReadKey(p) PROVE KeySettled'
  <2>1. UNCHANGED <<database, keyFile, tables, migrated, migrator, setting, ordered, hashed, collided>>
    BY <1>3 DEF ReadKey
  <2> QED BY <1>0, <1>3, <2>1, ReadKeyRow, BootAssumption DEF Processes, BootTypeOK
<1>4. ASSUME NEW p \in Processes, LinkKey(p) PROVE KeySettled'
  BY <1>0, <1>4, BootAssumption DEF LinkKey, Go, Linked, ProcessRows, Processes
<1>5. ASSUME NEW p \in Processes, OpenDB(p) PROVE KeySettled'
  BY <1>0, <1>5, BootAssumption DEF OpenDB, Go, NeedsLock, ProcessRows, Processes
<1>6. ASSUME NEW p \in Processes, AdvisoryLock(p) PROVE KeySettled'
  BY <1>0, <1>6, BootAssumption DEF AdvisoryLock, Go, ProcessRows, Processes
<1>7. ASSUME NEW p \in Processes, CheckTable(p) PROVE KeySettled'
  BY <1>0, <1>7, BootAssumption DEF CheckTable, Go, ProcessRows, Processes
<1>8. ASSUME NEW p \in Processes, CreateTable(p) PROVE KeySettled'
  BY <1>0, <1>8, BootAssumption DEF CreateTable, Exit, Down, Unlocked, ProcessRows, Processes
<1>9. ASSUME NEW p \in Processes, ReadHistory(p) PROVE KeySettled'
  BY <1>0, <1>9, BootAssumption DEF ReadHistory, Go, AfterMigration, Unlocked, ProcessRows, Processes
<1>10. ASSUME NEW p \in Processes, RecordMigration(p) PROVE KeySettled'
  <2>1. UNCHANGED <<database, keyFile, tables, setting, ordered, hashed>>
    BY <1>10 DEF RecordMigration
  <2>2. migrated' /\ migrator' = Unlocked(p)
    BY <1>10 DEF RecordMigration
  <2> QED BY <1>0, <1>10, <2>1, <2>2, RecordRow, BootAssumption
          DEF Down, AfterMigration, Unlocked, Processes, BootTypeOK
<1>11. ASSUME NEW p \in Processes, SeedDefaults(p) PROVE KeySettled'
  BY <1>0, <1>11, BootAssumption DEF SeedDefaults, Go, Seeded, ProcessRows, Processes
<1>12. ASSUME NEW p \in Processes, AdminSet(p) PROVE KeySettled'
  BY <1>0, <1>12, BootAssumption DEF AdminSet, Serving, ProcessRows, Processes
<1>13. ASSUME NEW p \in Processes, IssueToken(p) PROVE KeySettled'
  BY <1>0, <1>13, BootAssumption DEF IssueToken, Serving, ProcessRows, Processes
<1>14. ASSUME NEW p \in Processes, End(p) PROVE KeySettled'
  BY <1>0, <1>14, BootAssumption DEF End, Exit, Down, Unlocked, ProcessRows, Processes
<1>15. CASE UNCHANGED bootVars
  BY <1>15 DEF bootVars
<1>16. CASE Garble
  BY <1>16 DEF Garble
<1> QED
  BY <1>1, <1>2, <1>3, <1>4, <1>5, <1>6, <1>7, <1>8, <1>9, <1>10, <1>11, <1>12, <1>13, <1>14, <1>15, <1>16
     DEF BootNext

\* SeedDefaults leaves a row alone, so no start changes what was ordered.
LEMMA SettingStep == BootTypeOK /\ Roles /\ SettingSettled /\ [BootNext]_bootVars => SettingSettled'
<1> SUFFICES ASSUME BootTypeOK, Roles, SettingSettled, [BootNext]_bootVars PROVE SettingSettled'
  OBVIOUS
<1>0. boot \in [Processes -> ProcessRows]
  BY DEF BootTypeOK, ProcessRows
<1> USE DEF Roles, SettingSettled
<1>1. ASSUME NEW p \in Processes, StartServer(p) PROVE SettingSettled'
  BY <1>0, <1>1, BootAssumption DEF StartServer, Down, ProcessRows, Processes
<1>2. ASSUME NEW p \in Processes, StartConsole(p) PROVE SettingSettled'
  BY <1>0, <1>2, BootAssumption DEF StartConsole, Go, ProcessRows, Processes
<1>3. ASSUME NEW p \in Processes, ReadKey(p) PROVE SettingSettled'
  <2>1. UNCHANGED <<database, keyFile, tables, migrated, migrator, setting, ordered, hashed, collided>>
    BY <1>3 DEF ReadKey
  <2> QED BY <1>0, <1>3, <2>1, ReadKeyRow, BootAssumption DEF Processes, BootTypeOK
<1>4. ASSUME NEW p \in Processes, LinkKey(p) PROVE SettingSettled'
  BY <1>0, <1>4, BootAssumption DEF LinkKey, Go, Linked, ProcessRows, Processes
<1>5. ASSUME NEW p \in Processes, OpenDB(p) PROVE SettingSettled'
  BY <1>0, <1>5, BootAssumption DEF OpenDB, Go, NeedsLock, ProcessRows, Processes
<1>6. ASSUME NEW p \in Processes, AdvisoryLock(p) PROVE SettingSettled'
  BY <1>0, <1>6, BootAssumption DEF AdvisoryLock, Go, ProcessRows, Processes
<1>7. ASSUME NEW p \in Processes, CheckTable(p) PROVE SettingSettled'
  BY <1>0, <1>7, BootAssumption DEF CheckTable, Go, ProcessRows, Processes
<1>8. ASSUME NEW p \in Processes, CreateTable(p) PROVE SettingSettled'
  BY <1>0, <1>8, BootAssumption DEF CreateTable, Exit, Down, Unlocked, ProcessRows, Processes
<1>9. ASSUME NEW p \in Processes, ReadHistory(p) PROVE SettingSettled'
  BY <1>0, <1>9, BootAssumption DEF ReadHistory, Go, AfterMigration, Unlocked, ProcessRows, Processes
<1>10. ASSUME NEW p \in Processes, RecordMigration(p) PROVE SettingSettled'
  <2>1. UNCHANGED <<database, keyFile, tables, setting, ordered, hashed>>
    BY <1>10 DEF RecordMigration
  <2>2. migrated' /\ migrator' = Unlocked(p)
    BY <1>10 DEF RecordMigration
  <2> QED BY <1>0, <1>10, <2>1, <2>2, RecordRow, BootAssumption
          DEF Down, AfterMigration, Unlocked, Processes, BootTypeOK
<1>11. ASSUME NEW p \in Processes, SeedDefaults(p) PROVE SettingSettled'
  BY <1>0, <1>11, BootAssumption DEF SeedDefaults, Go, Seeded, ProcessRows, Processes
<1>12. ASSUME NEW p \in Processes, AdminSet(p) PROVE SettingSettled'
  BY <1>0, <1>12, BootAssumption DEF AdminSet, Serving, ProcessRows, Processes
<1>13. ASSUME NEW p \in Processes, IssueToken(p) PROVE SettingSettled'
  BY <1>0, <1>13, BootAssumption DEF IssueToken, Serving, ProcessRows, Processes
<1>14. ASSUME NEW p \in Processes, End(p) PROVE SettingSettled'
  BY <1>0, <1>14, BootAssumption DEF End, Exit, Down, Unlocked, ProcessRows, Processes
<1>15. CASE UNCHANGED bootVars
  BY <1>15 DEF bootVars
<1>16. CASE Garble
  BY <1>16, BootAssumption DEF Garble
<1> QED
  BY <1>1, <1>2, <1>3, <1>4, <1>5, <1>6, <1>7, <1>8, <1>9, <1>10, <1>11, <1>12, <1>13, <1>14, <1>15, <1>16
     DEF BootNext

\* Tables are created in order and never dropped, and the history row comes last.
LEMMA SchemaStep == BootTypeOK /\ Roles /\ SchemaGrows /\ [BootNext]_bootVars => SchemaGrows'
<1> SUFFICES ASSUME BootTypeOK, Roles, SchemaGrows, [BootNext]_bootVars PROVE SchemaGrows'
  OBVIOUS
<1>0. boot \in [Processes -> ProcessRows]
  BY DEF BootTypeOK, ProcessRows
<1> USE DEF SchemaGrows
<1>1. ASSUME NEW p \in Processes, StartServer(p) PROVE SchemaGrows'
  BY <1>0, <1>1, BootAssumption DEF StartServer, Down, ProcessRows, Processes
<1>2. ASSUME NEW p \in Processes, StartConsole(p) PROVE SchemaGrows'
  BY <1>0, <1>2, BootAssumption DEF StartConsole, Go, ProcessRows, Processes
<1>3. ASSUME NEW p \in Processes, ReadKey(p) PROVE SchemaGrows'
  <2>1. UNCHANGED <<database, keyFile, tables, migrated, migrator, setting, ordered, hashed, collided>>
    BY <1>3 DEF ReadKey
  <2> QED BY <1>0, <1>3, <2>1, ReadKeyRow, BootAssumption DEF Processes, BootTypeOK
<1>4. ASSUME NEW p \in Processes, LinkKey(p) PROVE SchemaGrows'
  BY <1>0, <1>4, BootAssumption DEF LinkKey, Go, Linked, ProcessRows, Processes
<1>5. ASSUME NEW p \in Processes, OpenDB(p) PROVE SchemaGrows'
  BY <1>0, <1>5, BootAssumption DEF OpenDB, Go, NeedsLock, ProcessRows, Processes
<1>6. ASSUME NEW p \in Processes, AdvisoryLock(p) PROVE SchemaGrows'
  BY <1>0, <1>6, BootAssumption DEF AdvisoryLock, Go, ProcessRows, Processes
<1>7. ASSUME NEW p \in Processes, CheckTable(p) PROVE SchemaGrows'
  BY <1>0, <1>7, BootAssumption DEF CheckTable, Go, ProcessRows, Processes
<1>8. ASSUME NEW p \in Processes, CreateTable(p) PROVE SchemaGrows'
  BY <1>0, <1>8, BootAssumption DEF CreateTable, Exit, Down, Unlocked, ProcessRows, Processes
<1>9. ASSUME NEW p \in Processes, ReadHistory(p) PROVE SchemaGrows'
  BY <1>0, <1>9, BootAssumption DEF ReadHistory, Go, AfterMigration, Unlocked, ProcessRows, Processes
<1>10. ASSUME NEW p \in Processes, RecordMigration(p) PROVE SchemaGrows'
  <2>1. UNCHANGED <<database, keyFile, tables, setting, ordered, hashed>>
    BY <1>10 DEF RecordMigration
  <2>2. tables = 0 .. LastTable
    <3>1. boot[p].table = LastTable + 1
      BY <1>10, RecordRow
    <3>2. \A n \in 0 .. LastTable : n \in tables
      BY <3>1, BootAssumption
    <3> QED BY <3>2 DEF BootTypeOK
  <2>3. Down.table = 0 /\ Down.at = "down"
    BY DEF Down
  <2>4. AfterMigration(p) \in {"seed", "up"}
    BY DEF AfterMigration
  <2>5. \A q \in Processes : q # p => boot'[q] = boot[q]
    BY <1>0, <1>10, RecordRow
  <2>6. \/ boot'[p] = Down
        \/ boot'[p].at \in {"seed", "up"} /\ boot'[p].table = boot[p].table
    BY <1>10, <2>4, RecordRow
  <2>7. boot'[p].at \in {"seed", "up"} \/ boot'[p] = Down
    BY <2>3, <2>6
  <2> QED BY <2>1, <2>2, <2>3, <2>5, <2>7
<1>11. ASSUME NEW p \in Processes, SeedDefaults(p) PROVE SchemaGrows'
  BY <1>0, <1>11, BootAssumption DEF SeedDefaults, Go, Seeded, ProcessRows, Processes
<1>12. ASSUME NEW p \in Processes, AdminSet(p) PROVE SchemaGrows'
  BY <1>0, <1>12, BootAssumption DEF AdminSet, Serving, ProcessRows, Processes
<1>13. ASSUME NEW p \in Processes, IssueToken(p) PROVE SchemaGrows'
  BY <1>0, <1>13, BootAssumption DEF IssueToken, Serving, ProcessRows, Processes
<1>14. ASSUME NEW p \in Processes, End(p) PROVE SchemaGrows'
  BY <1>0, <1>14, BootAssumption DEF End, Exit, Down, Unlocked, ProcessRows, Processes
<1>15. CASE UNCHANGED bootVars
  BY <1>15 DEF bootVars
<1>16. CASE Garble
  BY <1>16 DEF Garble
<1> QED
  BY <1>1, <1>2, <1>3, <1>4, <1>5, <1>6, <1>7, <1>8, <1>9, <1>10, <1>11, <1>12, <1>13, <1>14, <1>15, <1>16
     DEF BootNext

\* withAdvisoryLock: between its lock and its unlock a process is the only one
\* that looks, creates and records.
LEMMA MigratorStep == BootTypeOK /\ Roles /\ SchemaGrows /\ OneMigrator /\ [BootNext]_bootVars => OneMigrator'
<1> SUFFICES ASSUME BootTypeOK, Roles, SchemaGrows, OneMigrator, [BootNext]_bootVars PROVE OneMigrator'
  OBVIOUS
<1>0. boot \in [Processes -> ProcessRows]
  BY DEF BootTypeOK, ProcessRows
<1> USE DEF SchemaGrows, OneMigrator, Migrating
<1>1. ASSUME NEW p \in Processes, StartServer(p) PROVE OneMigrator'
  BY <1>0, <1>1, BootAssumption DEF StartServer, Down, ProcessRows, Processes
<1>2. ASSUME NEW p \in Processes, StartConsole(p) PROVE OneMigrator'
  BY <1>0, <1>2, BootAssumption DEF StartConsole, Go, ProcessRows, Processes
<1>3. ASSUME NEW p \in Processes, ReadKey(p) PROVE OneMigrator'
  <2>1. UNCHANGED <<database, keyFile, tables, migrated, migrator, setting, ordered, hashed, collided>>
    BY <1>3 DEF ReadKey
  <2> QED BY <1>0, <1>3, <2>1, ReadKeyRow, BootAssumption DEF Processes, BootTypeOK
<1>4. ASSUME NEW p \in Processes, LinkKey(p) PROVE OneMigrator'
  BY <1>0, <1>4, BootAssumption DEF LinkKey, Go, Linked, ProcessRows, Processes
<1>5. ASSUME NEW p \in Processes, OpenDB(p) PROVE OneMigrator'
  BY <1>0, <1>5, BootAssumption DEF OpenDB, Go, NeedsLock, ProcessRows, Processes
<1>6. ASSUME NEW p \in Processes, AdvisoryLock(p) PROVE OneMigrator'
  <2>1. \A q \in Processes : q # p => boot'[q] = boot[q]
    BY <1>0, <1>6 DEF AdvisoryLock, Go
  <2>2. boot'[p].at = "table" /\ boot'[p].table = boot[p].table
    BY <1>0, <1>6 DEF AdvisoryLock, Go, ProcessRows
  <2>3. migrator = Absent /\ migrator' = p /\ Absent \notin Processes
    BY <1>6, BootAssumption DEF AdvisoryLock, Processes
  <2>4. UNCHANGED <<database, tables, migrated, collided>>
    BY <1>6 DEF AdvisoryLock
  <2>5. database = "postgres" => \A q \in Processes : boot[q].at \notin Migrating
    BY <2>3
  <2>6. boot[p].table = 0
    BY <1>6 DEF AdvisoryLock
  <2>7. ASSUME database = "postgres", NEW q \in Processes, q # p
        PROVE  boot'[q].at \notin Migrating
    BY <2>1, <2>5, <2>7
  <2>8. ~ (boot'[p].table > 0)
    BY <2>2, <2>6
  <2> QED BY <2>1, <2>2, <2>3, <2>4, <2>7, <2>8
<1>7. ASSUME NEW p \in Processes, CheckTable(p) PROVE OneMigrator'
  BY <1>0, <1>7, BootAssumption DEF CheckTable, Go, ProcessRows, Processes
<1>8. ASSUME NEW p \in Processes, CreateTable(p) PROVE OneMigrator'
  BY <1>0, <1>8, BootAssumption DEF CreateTable, Exit, Down, Unlocked, ProcessRows, Processes
<1>9. ASSUME NEW p \in Processes, ReadHistory(p) PROVE OneMigrator'
  BY <1>0, <1>9, BootAssumption DEF ReadHistory, Go, AfterMigration, Unlocked, ProcessRows, Processes
<1>10. ASSUME NEW p \in Processes, RecordMigration(p) PROVE OneMigrator'
  <2>1. UNCHANGED <<database, keyFile, tables, setting, ordered, hashed>>
    BY <1>10 DEF RecordMigration
  <2>2. migrated' /\ migrator' = Unlocked(p)
    BY <1>10 DEF RecordMigration
  <2> QED BY <1>0, <1>10, <2>1, <2>2, RecordRow, BootAssumption
          DEF Down, AfterMigration, Unlocked, Processes, BootTypeOK
<1>11. ASSUME NEW p \in Processes, SeedDefaults(p) PROVE OneMigrator'
  BY <1>0, <1>11, BootAssumption DEF SeedDefaults, Go, Seeded, ProcessRows, Processes
<1>12. ASSUME NEW p \in Processes, AdminSet(p) PROVE OneMigrator'
  BY <1>0, <1>12, BootAssumption DEF AdminSet, Serving, ProcessRows, Processes
<1>13. ASSUME NEW p \in Processes, IssueToken(p) PROVE OneMigrator'
  BY <1>0, <1>13, BootAssumption DEF IssueToken, Serving, ProcessRows, Processes
<1>14. ASSUME NEW p \in Processes, End(p) PROVE OneMigrator'
  BY <1>0, <1>14, BootAssumption DEF End, Exit, Down, Unlocked, ProcessRows, Processes
<1>15. CASE UNCHANGED bootVars
  BY <1>15 DEF bootVars
<1>16. CASE Garble
  BY <1>16 DEF Garble
<1> QED
  BY <1>1, <1>2, <1>3, <1>4, <1>5, <1>6, <1>7, <1>8, <1>9, <1>10, <1>11, <1>12, <1>13, <1>14, <1>15, <1>16
     DEF BootNext

-----------------------------------------------------------------------------
(* The theorems *)

\* A new instance has no key, no tables and no process on its way up.
LEMMA InvInit == BootInit => BootInv
<1> SUFFICES ASSUME BootInit PROVE BootInv
  OBVIOUS
<1>1. BootTypeOK
  BY TypeInit
<1>2. \A p \in Processes : boot[p].at = "down" /\ boot[p].table = 0
  BY DEF BootInit, Down
<1>3. Roles
  BY <1>2 DEF Roles, BootInit, Processes
<1>4. KeySettled /\ SettingSettled
  BY <1>2 DEF KeySettled, SettingSettled, BootInit, Processes
<1>5. SchemaGrows
  <2>1. \A n \in 0 .. LastTable : ~ (n < 0)
    BY BootAssumption
  <2> QED BY <1>2, <2>1 DEF SchemaGrows, BootInit
<1>6. OneMigrator
  BY <1>2 DEF OneMigrator, Migrating, BootInit
<1> QED BY <1>1, <1>3, <1>4, <1>5, <1>6 DEF BootInv

\* The parts preserve one another.
LEMMA InvStep == BootInv /\ [BootNext]_bootVars => BootInv'
BY TypeStep, RolesStep, KeyStep, SettingStep, SchemaStep, MigratorStep DEF BootInv

LEMMA InvAlways == BootSpec => []BootInv
BY InvInit, InvStep, PTL DEF BootSpec

\* BootTypeOK of Boot: every stage, key, setting and table a process is at is one
\* the start-up code has.
THEOREM BootTyped == BootSpec => []BootTypeOK
<1>1. BootInv => BootTypeOK
  BY DEF BootInv
<1> QED BY <1>1, InvAlways, PTL

\* OneKey: however many servers share a data directory, and wherever they die,
\* EnsureSecretKey leaves them with one secret key, the only one that tokens
\* are ever hashed under.
THEOREM KeyIsOne == BootSpec => []OneKey
<1>1. BootInv => OneKey
  BY DEF BootInv, OneKey, KeySettled
<1> QED BY <1>1, InvAlways, PTL

\* MigrationIsSafe: openDB never lets a process on to an incomplete schema, and
\* under Postgres's advisory lock no process fails on what another created.
THEOREM SchemaIsSafe == BootSpec => []MigrationIsSafe
<1>1. BootInv => MigrationIsSafe
  BY DEF BootInv, MigrationIsSafe, SchemaGrows, OneMigrator
<1> QED BY <1>1, InvAlways, PTL

\* OrderStands: while the row can be read it holds what an administrator last set,
\* every server reads that one value whatever any start would seed, and a server that
\* accepts an upload (PublishFile) is within what was set and, of the others, at odds
\* only with those whose own BodyLimit the upload is past.
THEOREM SettingsHold == BootSpec => []OrderStands
<1>1. ASSUME BootInv PROVE OrderStands
  <2> SUFFICES ASSUME setting # Garbled PROVE OrderStands
    BY DEF OrderStands
  <2>1. ordered # Absent => setting = ordered
    BY <1>1 DEF BootInv, SettingSettled
  <2>2. ASSUME NEW p \in Processes, Serving(p) PROVE Reads(p) = setting
    <3>1. setting # Absent /\ setting \in Values \cup {Absent, Garbled}
      BY <1>1, <2>2 DEF BootInv, BootTypeOK, SettingSettled, Serving
    <3> QED BY <3>1 DEF Reads
  <2>3. ASSUME NEW p \in Processes, Serving(p), NEW q \in Processes, Serving(q),
               NEW size \in Values, Accepts(p, size)
        PROVE  /\ ordered # Absent => size <= ordered
               /\ Accepts(q, size) \/ size > BodyLimit(q)
    <3>1. size <= setting
      BY <2>2, <2>3 DEF Accepts
    <3>2. size \in Nat /\ boot[q].seed \in Nat
      BY <1>1, <2>3, BootAssumption DEF BootInv, BootTypeOK, Roles, Serving
    <3>3. size <= BodyLimit(q) \/ size > BodyLimit(q)
      BY <3>2 DEF BodyLimit
    <3> QED BY <2>1, <2>2, <2>3, <3>1, <3>3 DEF Accepts
  <2> QED BY <2>1, <2>2, <2>3 DEF OrderStands
<1> QED BY <1>1, InvAlways, PTL

-----------------------------------------------------------------------------
(* Cleanup: the inductive invariant *)

RoundStages == {"idle", "list", "rows", "drop", "sweep", "release"}

RoundRows == [at : RoundStages, rows : SUBSET Rows, lapsed : BOOLEAN]

PutRows == [at : PutStages, by : Replicas \cup {None}]

\* TypeOK without the bound on retry counts.
Shapes ==
    /\ redis \in BOOLEAN
    /\ retryMax \in Nat
    /\ lock \in [Replicas -> Replicas \cup {None}]
    /\ round \in [Replicas -> RoundRows]
    /\ queued \subseteq Rows /\ objects \subseteq Rows
    /\ retries \in [Rows -> Nat]
    /\ put \in [Uploads -> PutRows]
    /\ staging \in [Uploads -> {"none", "fresh", "old"}]

\* One lock for all with Redis, each its own without.
LocksAgree ==
    \A p, q \in Replicas :
        /\ redis => lock[p] = lock[q]
        /\ ~ redis => lock[p] \in {p, None}

\* The replicas that may still count a failure of the row.
Holders(k) == {p \in Replicas : k \in round[p].rows}

\* A round drops the row of an object it has deleted; a count and those who may
\* still raise it stay below the ceiling and one more for each replica.
QueueInv ==
    /\ objects \subseteq queued
    /\ \A p \in Replicas : round[p].at = "drop" =>
         round[p].rows # {} /\ NextRow(p) \notin objects
    /\ \A k \in Rows : retries[k] + Cardinality(Holders(k)) < retryMax + Cardinality(Replicas)
    /\ broken => retryMax > Int8Max + 1

InFlight(u) == put[u].at \in {"staged", "written"}

\* A staging file in use that is old, or gone, has had nothing written to it.
UploadsInv ==
    /\ \A u \in Uploads : InFlight(u) /\ staging[u] # "fresh" => u \in stalled
    /\ UploadsSpared

CronInv == Shapes /\ LocksAgree /\ RoundsExclusive /\ QueueInv /\ UploadsInv

-----------------------------------------------------------------------------
(* Rows of a round *)

Below == {ss \in Nat \X Nat : ss[1] < ss[2]}

\* The natural numbers have no infinite descent.
LEMMA BelowWellFounded == IsWellFoundedOn(Below, Nat)
<1>1. OpToRel(<, Nat) = Below
  BY Zenon DEF OpToRel, Below
<1> QED BY ONLY <1>1, NatLessThanWellFounded, Zenon

\* The next row is one of the round's rows.
LEMMA NextRowIsHeld ==
    ASSUME Shapes, NEW p \in Replicas, round[p].rows # {}
    PROVE  NextRow(p) \in round[p].rows /\ NextRow(p) \in Rows
<1>1. round[p].rows \subseteq Rows /\ Rows \subseteq Nat
  BY CronAssumption DEF Shapes, RoundRows
<1>2. PICK x \in round[p].rows : \A y \in round[p].rows : ~ (<<y, x>> \in Below)
  BY <1>1, BelowWellFounded, WFMin
<1>3. \A m, n \in Nat : <<m, n>> \in Below <=> m < n
  BY DEF Below
<1>4. \A y \in round[p].rows : x <= y
  <2>1. \A y \in round[p].rows : y \in Nat /\ x \in Nat
    BY <1>1
  <2>2. \A y \in round[p].rows : ~ (y < x)
    BY <1>2, <1>3, <2>1
  <2> QED BY <2>1, <2>2
<1> QED BY <1>1, <1>4 DEF NextRow, Min

\* Those who hold a row are finitely many, and no more than the replicas.
LEMMA HoldersFinite ==
    ASSUME NEW k
    PROVE  /\ IsFiniteSet(Holders(k)) /\ Cardinality(Holders(k)) \in Nat
           /\ Cardinality(Replicas) \in Nat
           /\ Cardinality(Holders(k)) <= Cardinality(Replicas)
BY CronAssumption, FS_Subset, FS_CardinalityType DEF Holders

-----------------------------------------------------------------------------
(* Preservation *)

\* Every step keeps the shapes of the queue, the rounds and the uploads.
LEMMA ShapeStep == Shapes /\ LocksAgree /\ [Next]_vars => Shapes'
<1> SUFFICES ASSUME Shapes, LocksAgree, [Next]_vars PROVE Shapes'
  OBVIOUS
<1> USE DEF Shapes, RoundRows, RoundStages, PutRows, PutStages
<1>1. ASSUME NEW p \in Replicas, StartRound(p) PROVE Shapes'
  BY <1>1 DEF StartRound, SetLock, Sharing, processVars, queueVars, storeVars
<1>2. ASSUME NEW p \in Replicas, LockLapses(p) PROVE Shapes'
  <2>1. PICK h \in Replicas : h = lock[p]
    BY <1>2 DEF LockLapses
  <2>2. round' = [round EXCEPT ![h].lapsed = (round[h].lapsed \/ round[h].at # "idle")]
    BY <1>2, <2>1 DEF LockLapses
  <2>3. (round[h].lapsed \/ round[h].at # "idle") \in BOOLEAN
    OBVIOUS
  <2>4. \A r \in RoundRows, b \in BOOLEAN : [r EXCEPT !.lapsed = b] \in RoundRows
    BY DEF RoundRows
  <2>5. round' \in [Replicas -> RoundRows]
    BY <2>2, <2>3, <2>4 DEF RoundRows
  <2>6. lock' \in [Replicas -> Replicas \cup {None}]
    BY <1>2 DEF LockLapses, SetLock
  <2> QED BY <1>2, <2>5, <2>6 DEF LockLapses, processVars, queueVars, storeVars
<1>3. ASSUME NEW p \in Replicas, ListPending(p) PROVE Shapes'
  <2>1. PICK s \in SUBSET Rows : round' = [round EXCEPT ![p].at = "rows", ![p].rows = s]
    BY <1>3 DEF ListPending, Selected
  <2>2. \A r \in RoundRows : [r EXCEPT !.at = "rows", !.rows = s] \in RoundRows
    OBVIOUS
  <2>3. round' \in [Replicas -> RoundRows]
    BY <2>1, <2>2
  <2> QED BY <1>3, <2>3 DEF ListPending, processVars, storeVars
<1>4. ASSUME NEW p \in Replicas, DeleteObject(p) PROVE Shapes'
  <2>1. round' \in [Replicas -> RoundRows]
    <3>1. \A r \in RoundRows : [r EXCEPT !.at = "drop"] \in RoundRows
      OBVIOUS
    <3>2. \A r \in RoundRows, k \in Rows : [r EXCEPT !.rows = @ \ {k}] \in RoundRows
      OBVIOUS
    <3>3. CASE round' = [round EXCEPT ![p].at = "drop"]
      BY <3>1, <3>3
    <3>4. CASE round' = [round EXCEPT ![p].rows = @ \ {NextRow(p)}]
      BY <3>4
    <3> QED BY <1>4, <3>3, <3>4 DEF DeleteObject
  <2>2. retries' \in [Rows -> Nat] /\ objects' \subseteq Rows
    <3>1. NextRow(p) \in Rows
      BY <1>4, NextRowIsHeld DEF DeleteObject
    <3>2. Bumped(NextRow(p)) \in [Rows -> Nat]
      BY <3>1 DEF Bumped
    <3> QED BY <1>4, <3>2 DEF DeleteObject
  <2> QED BY <1>4, <2>1, <2>2 DEF DeleteObject, processVars, storeVars
<1>5. ASSUME NEW p \in Replicas, DropRow(p) PROVE Shapes'
  <2>1. \A k : \A r \in RoundRows : [r EXCEPT !.at = "rows", !.rows = @ \ {k}] \in RoundRows
    OBVIOUS
  <2>2. round' \in [Replicas -> RoundRows]
    BY <1>5, <2>1 DEF DropRow
  <2> QED BY <1>5, <2>2 DEF DropRow, processVars, storeVars
<1>6. ASSUME NEW p \in Replicas, EndRows(p) PROVE Shapes'
  BY <1>6 DEF EndRows, processVars, queueVars, storeVars
<1>7. ASSUME NEW p \in Replicas, SweepTemp(p) PROVE Shapes'
  BY <1>7 DEF SweepTemp, Stale, processVars, queueVars, storeVars
<1>8. ASSUME NEW p \in Replicas, CutShort(p) PROVE Shapes'
  BY <1>8 DEF CutShort, processVars, queueVars, storeVars
<1>9. ASSUME NEW p \in Replicas, Release(p) PROVE Shapes'
  BY <1>9 DEF Release, SetLock, Sharing, MayRelease, NoRound, processVars, queueVars, storeVars
<1>10. ASSUME NEW p \in Replicas, Shutdown(p) PROVE Shapes'
  BY <1>10 DEF Shutdown, processVars, queueVars, storeVars
<1>11. ASSUME NEW p \in Replicas, Restart(p) PROVE Shapes'
  BY <1>11 DEF Restart, NoRound, processVars, queueVars, storeVars
<1>12. ASSUME NEW p \in Replicas, NEW u \in Uploads, Stage(p, u) PROVE Shapes'
  BY <1>12 DEF Stage, processVars, queueVars, storeVars
<1>13. ASSUME NEW u \in Uploads, Write(u) PROVE Shapes'
  BY <1>13 DEF Write, processVars, queueVars, storeVars
<1>14. ASSUME NEW u \in Uploads, Rename(u) PROVE Shapes'
  BY <1>14 DEF Rename, processVars, queueVars, storeVars
<1>15. ASSUME NEW u \in Uploads, Fail(u) PROVE Shapes'
  BY <1>15 DEF Fail, processVars, queueVars, storeVars
<1>16. ASSUME NEW u \in Uploads, Age(u) PROVE Shapes'
  BY <1>16 DEF Age, processVars, queueVars, storeVars
<1>17. CASE UNCHANGED vars
  BY <1>17 DEF vars, processVars, queueVars, storeVars
<1> QED
  BY <1>1, <1>2, <1>3, <1>4, <1>5, <1>6, <1>7, <1>8, <1>9,
     <1>10, <1>11, <1>12, <1>13, <1>14, <1>15, <1>16, <1>17 DEF Next

\* A lock changes hands only when it is free, has lapsed or is its owner's to release.
LEMMA LockStep == Shapes /\ LocksAgree /\ RoundsExclusive /\ [Next]_vars => (LocksAgree /\ RoundsExclusive)'
<1> SUFFICES ASSUME Shapes, LocksAgree, RoundsExclusive, [Next]_vars PROVE (LocksAgree /\ RoundsExclusive)'
  OBVIOUS
<1> USE DEF Shapes, LocksAgree, RoundsExclusive, RoundRows
<1>1. ASSUME NEW p \in Replicas, StartRound(p) PROVE (LocksAgree /\ RoundsExclusive)'
  BY <1>1, CronAssumption DEF StartRound, SetLock, Sharing, processVars, queueVars, storeVars
<1>2. ASSUME NEW p \in Replicas, LockLapses(p) PROVE (LocksAgree /\ RoundsExclusive)'
  <2>1. PICK h \in Replicas : h = lock[p]
    BY <1>2 DEF LockLapses
  <2>2. /\ \A q \in Replicas : q # h => round'[q] = round[q]
        /\ round'[h].lapsed = (round[h].lapsed \/ round[h].at # "idle")
        /\ round'[h].at = round[h].at
    BY <1>2, <2>1 DEF LockLapses
  <2>3. /\ \A q \in Replicas : lock'[q] = IF q \in Sharing(p) THEN None ELSE lock[q]
        /\ redis' = redis
    BY <1>2 DEF LockLapses, SetLock, processVars
  <2>4. LocksAgree'
    BY <2>3 DEF Sharing
  <2>5. \A q \in Replicas : q \in Sharing(p) /\ lock[q] = q => q = h
    BY <2>1, CronAssumption DEF Sharing
  <2>6. ASSUME NEW q \in Replicas, round'[q].at # "idle", ~ round'[q].lapsed
        PROVE  lock'[q] = q
    <3>1. q # h
      BY <2>2, <2>6
    <3>2. lock[q] = q
      BY <2>2, <2>6, <3>1
    <3> QED BY <2>3, <2>5, <3>1, <3>2
  <2> QED BY <2>4, <2>6
<1>3. ASSUME NEW p \in Replicas, ListPending(p) PROVE (LocksAgree /\ RoundsExclusive)'
  BY <1>3, CronAssumption DEF ListPending, Selected, Unreadable, processVars, queueVars, storeVars
<1>4. ASSUME NEW p \in Replicas, DeleteObject(p) PROVE (LocksAgree /\ RoundsExclusive)'
  BY <1>4, CronAssumption DEF DeleteObject, Bumped, processVars, queueVars, storeVars
<1>5. ASSUME NEW p \in Replicas, DropRow(p) PROVE (LocksAgree /\ RoundsExclusive)'
  BY <1>5, CronAssumption DEF DropRow, processVars, queueVars, storeVars
<1>6. ASSUME NEW p \in Replicas, EndRows(p) PROVE (LocksAgree /\ RoundsExclusive)'
  BY <1>6, CronAssumption DEF EndRows, processVars, queueVars, storeVars
<1>7. ASSUME NEW p \in Replicas, SweepTemp(p) PROVE (LocksAgree /\ RoundsExclusive)'
  BY <1>7, CronAssumption DEF SweepTemp, Stale, processVars, queueVars, storeVars
<1>8. ASSUME NEW p \in Replicas, CutShort(p) PROVE (LocksAgree /\ RoundsExclusive)'
  BY <1>8, CronAssumption DEF CutShort, processVars, queueVars, storeVars
<1>9. ASSUME NEW p \in Replicas, Release(p) PROVE (LocksAgree /\ RoundsExclusive)'
  BY <1>9, CronAssumption DEF Release, SetLock, Sharing, MayRelease, NoRound, processVars, queueVars, storeVars
<1>10. ASSUME NEW p \in Replicas, Shutdown(p) PROVE (LocksAgree /\ RoundsExclusive)'
  BY <1>10, CronAssumption DEF Shutdown, processVars, queueVars, storeVars
<1>11. ASSUME NEW p \in Replicas, Restart(p) PROVE (LocksAgree /\ RoundsExclusive)'
  BY <1>11, CronAssumption DEF Restart, NoRound, processVars, queueVars, storeVars
<1>12. ASSUME NEW p \in Replicas, NEW u \in Uploads, Stage(p, u) PROVE (LocksAgree /\ RoundsExclusive)'
  BY <1>12, CronAssumption DEF Stage, processVars, queueVars, storeVars
<1>13. ASSUME NEW u \in Uploads, Write(u) PROVE (LocksAgree /\ RoundsExclusive)'
  BY <1>13, CronAssumption DEF Write, processVars, queueVars, storeVars
<1>14. ASSUME NEW u \in Uploads, Rename(u) PROVE (LocksAgree /\ RoundsExclusive)'
  BY <1>14, CronAssumption DEF Rename, processVars, queueVars, storeVars
<1>15. ASSUME NEW u \in Uploads, Fail(u) PROVE (LocksAgree /\ RoundsExclusive)'
  BY <1>15, CronAssumption DEF Fail, processVars, queueVars, storeVars
<1>16. ASSUME NEW u \in Uploads, Age(u) PROVE (LocksAgree /\ RoundsExclusive)'
  BY <1>16, CronAssumption DEF Age, processVars, queueVars, storeVars
<1>17. CASE UNCHANGED vars
  BY <1>17 DEF vars, processVars, queueVars, storeVars
<1> QED
  BY <1>1, <1>2, <1>3, <1>4, <1>5, <1>6, <1>7, <1>8, <1>9,
     <1>10, <1>11, <1>12, <1>13, <1>14, <1>15, <1>16, <1>17 DEF Next

\* The sweep takes old staging files; one in use is old only if its upload stalled.
LEMMA UploadStep == Shapes /\ UploadsInv /\ [Next]_vars => UploadsInv'
<1> SUFFICES ASSUME Shapes, UploadsInv, [Next]_vars PROVE UploadsInv'
  OBVIOUS
<1> USE DEF Shapes, UploadsInv, UploadsSpared, InFlight, PutRows
<1>1. ASSUME NEW p \in Replicas, StartRound(p) PROVE UploadsInv'
  BY <1>1 DEF StartRound, SetLock, Sharing, processVars, queueVars, storeVars
<1>2. ASSUME NEW p \in Replicas, LockLapses(p) PROVE UploadsInv'
  BY <1>2 DEF LockLapses, SetLock, Sharing, processVars, queueVars, storeVars
<1>3. ASSUME NEW p \in Replicas, ListPending(p) PROVE UploadsInv'
  BY <1>3 DEF ListPending, Selected, Unreadable, processVars, queueVars, storeVars
<1>4. ASSUME NEW p \in Replicas, DeleteObject(p) PROVE UploadsInv'
  BY <1>4 DEF DeleteObject, Bumped, processVars, queueVars, storeVars
<1>5. ASSUME NEW p \in Replicas, DropRow(p) PROVE UploadsInv'
  BY <1>5 DEF DropRow, processVars, queueVars, storeVars
<1>6. ASSUME NEW p \in Replicas, EndRows(p) PROVE UploadsInv'
  BY <1>6 DEF EndRows, processVars, queueVars, storeVars
<1>7. ASSUME NEW p \in Replicas, SweepTemp(p) PROVE UploadsInv'
  BY <1>7 DEF SweepTemp, Stale, processVars, queueVars, storeVars
<1>8. ASSUME NEW p \in Replicas, CutShort(p) PROVE UploadsInv'
  BY <1>8 DEF CutShort, processVars, queueVars, storeVars
<1>9. ASSUME NEW p \in Replicas, Release(p) PROVE UploadsInv'
  BY <1>9 DEF Release, SetLock, Sharing, MayRelease, NoRound, processVars, queueVars, storeVars
<1>10. ASSUME NEW p \in Replicas, Shutdown(p) PROVE UploadsInv'
  BY <1>10 DEF Shutdown, processVars, queueVars, storeVars
<1>11. ASSUME NEW p \in Replicas, Restart(p) PROVE UploadsInv'
  BY <1>11 DEF Restart, NoRound, processVars, queueVars, storeVars
<1>12. ASSUME NEW p \in Replicas, NEW u \in Uploads, Stage(p, u) PROVE UploadsInv'
  BY <1>12 DEF Stage, processVars, queueVars, storeVars
<1>13. ASSUME NEW u \in Uploads, Write(u) PROVE UploadsInv'
  BY <1>13 DEF Write, processVars, queueVars, storeVars
<1>14. ASSUME NEW u \in Uploads, Rename(u) PROVE UploadsInv'
  BY <1>14 DEF Rename, processVars, queueVars, storeVars
<1>15. ASSUME NEW u \in Uploads, Fail(u) PROVE UploadsInv'
  BY <1>15 DEF Fail, processVars, queueVars, storeVars
<1>16. ASSUME NEW u \in Uploads, Age(u) PROVE UploadsInv'
  BY <1>16 DEF Age, processVars, queueVars, storeVars
<1>17. CASE UNCHANGED vars
  BY <1>17 DEF vars, processVars, queueVars, storeVars
<1> QED
  BY <1>1, <1>2, <1>3, <1>4, <1>5, <1>6, <1>7, <1>8, <1>9,
     <1>10, <1>11, <1>12, <1>13, <1>14, <1>15, <1>16, <1>17 DEF Next

\* A count rises only by a holder that lets go of the row, and a round that takes
\* rows up again takes those whose count is below the ceiling.
LEMMA QueueStep == Shapes /\ QueueInv /\ [Next]_vars => QueueInv'
<1> SUFFICES ASSUME Shapes, QueueInv, [Next]_vars PROVE QueueInv'
  OBVIOUS
<1> USE DEF QueueInv
<1>0. round \in [Replicas -> RoundRows] /\ retries \in [Rows -> Nat] /\ retryMax \in Nat
  BY DEF Shapes
<1>1. ASSUME UNCHANGED <<retryMax, queueVars>>,
             \A q \in Replicas : \/ round'[q].rows = round[q].rows /\ (round'[q].at = "drop" => round[q].at = "drop")
                                 \/ round'[q].rows = {} /\ round'[q].at # "drop"
      PROVE  QueueInv'
  <2>1. \A q \in Replicas : round'[q].at = "drop" =>
          round'[q].rows # {} /\ NextRow(q)' \notin objects'
    BY <1>1 DEF NextRow, queueVars
  <2>2. ASSUME NEW k \in Rows
        PROVE  retries'[k] + Cardinality(Holders(k)') < retryMax' + Cardinality(Replicas)
    <3>1. Holders(k)' \subseteq Holders(k)
      BY <1>1 DEF Holders
    <3>2. Cardinality(Holders(k)') \in Nat /\ Cardinality(Holders(k)') <= Cardinality(Holders(k))
      BY <3>1, HoldersFinite, FS_Subset, FS_CardinalityType
    <3>3. Cardinality(Replicas) \in Nat /\ Cardinality(Holders(k)) \in Nat /\ retries[k] \in Nat
      BY <1>0, HoldersFinite
    <3> QED BY <1>0, <1>1, <3>2, <3>3 DEF queueVars
  <2> QED BY <1>1, <2>1, <2>2 DEF queueVars
<1>2. ASSUME NEW p \in Replicas, ListPending(p) PROVE QueueInv'
  <2>1. /\ \A q \in Replicas : q # p => round'[q] = round[q]
        /\ round'[p].at = "rows" /\ round'[p].rows \subseteq Selected
    BY <1>0, <1>2 DEF ListPending, RoundRows
  <2>2. UNCHANGED <<retryMax, queued, retries, objects>>
    BY <1>2 DEF ListPending, processVars
  <2>3. \A q \in Replicas : round'[q].at = "drop" =>
          round'[q].rows # {} /\ NextRow(q)' \notin objects'
    BY <2>1, <2>2 DEF NextRow
  <2>4. ASSUME NEW k \in Rows
        PROVE  retries'[k] + Cardinality(Holders(k)') < retryMax' + Cardinality(Replicas)
    <3>1. Cardinality(Replicas) \in Nat /\ Cardinality(Holders(k)) \in Nat /\ retries[k] \in Nat
      BY <1>0, HoldersFinite
    <3>2. IsFiniteSet(Holders(k)) /\ IsFiniteSet(Replicas)
      BY HoldersFinite, CronAssumption
    <3>3. CASE k \in Selected
      <4>1. retries[k] < retryMax
        BY <3>3 DEF Selected
      <4>2. Holders(k)' \subseteq Replicas
        BY DEF Holders
      <4>3. Cardinality(Holders(k)') \in Nat /\ Cardinality(Holders(k)') <= Cardinality(Replicas)
        BY <3>2, <4>2, FS_Subset, FS_CardinalityType
      <4> QED BY <1>0, <2>2, <3>1, <4>1, <4>3
    <3>4. CASE k \notin Selected
      <4>1. Holders(k)' \subseteq Holders(k)
        BY <2>1, <3>4 DEF Holders
      <4>2. Cardinality(Holders(k)') \in Nat /\ Cardinality(Holders(k)') <= Cardinality(Holders(k))
        BY <3>2, <4>1, FS_Subset, FS_CardinalityType
      <4> QED BY <1>0, <2>2, <3>1, <4>2
    <3> QED BY <3>3, <3>4
  <2>5. broken' => retryMax' > Int8Max + 1
    <3>1. ASSUME Unreadable PROVE retryMax > Int8Max + 1
      <4>1. PICK k \in Rows : retries[k] < retryMax /\ retries[k] > Int8Max
        BY <3>1 DEF Unreadable, Selected, Shapes
      <4> QED BY <1>0, <4>1, CronAssumption
    <3> QED BY <1>2, <2>2, <3>1 DEF ListPending
  <2> QED BY <2>2, <2>3, <2>4, <2>5
<1>3. ASSUME NEW p \in Replicas, DeleteObject(p) PROVE QueueInv'
  <2> DEFINE n == NextRow(p)
  <2>0. n \in round[p].rows /\ n \in Rows
    BY <1>3, NextRowIsHeld DEF DeleteObject
  <2>1. UNCHANGED <<retryMax, queued, broken>>
    BY <1>3 DEF DeleteObject, processVars
  <2>2. CASE /\ objects' = objects \ {n} /\ UNCHANGED retries
             /\ round' = [round EXCEPT ![p].at = "drop"]
    <3>1. /\ \A q \in Replicas : round'[q].rows = round[q].rows
          /\ \A q \in Replicas : q # p => round'[q].at = round[q].at
      BY <1>0, <2>2 DEF RoundRows
    <3>2. \A q \in Replicas : NextRow(q)' = NextRow(q)
      BY <3>1 DEF NextRow
    <3>3. \A k : Holders(k)' = Holders(k)
      BY <3>1 DEF Holders
    <3> QED BY <2>0, <2>1, <2>2, <3>1, <3>2, <3>3
  <2>3. CASE /\ retries' \in {retries, Bumped(n)} /\ UNCHANGED objects
             /\ round' = [round EXCEPT ![p].rows = @ \ {n}]
    <3>1. /\ \A q \in Replicas : q # p => round'[q] = round[q]
          /\ round'[p].rows = round[p].rows \ {n} /\ round'[p].at = "rows"
      BY <1>0, <1>3, <2>3 DEF DeleteObject, RoundRows
    <3>2. \A q \in Replicas : round'[q].at = "drop" =>
            round'[q].rows # {} /\ NextRow(q)' \notin objects'
      BY <2>3, <3>1 DEF NextRow
    <3>3. ASSUME NEW k \in Rows
          PROVE  retries'[k] + Cardinality(Holders(k)') < retryMax' + Cardinality(Replicas)
      <4>1. /\ Cardinality(Replicas) \in Nat /\ Cardinality(Holders(k)) \in Nat /\ retries[k] \in Nat
            /\ IsFiniteSet(Holders(k))
        BY <1>0, HoldersFinite
      <4>2. CASE k # n
        <5>1. Holders(k)' = Holders(k)
          BY <3>1, <4>2 DEF Holders
        <5>2. retries'[k] = retries[k]
          BY <1>0, <2>3, <4>2 DEF Bumped
        <5> QED BY <2>1, <5>1, <5>2
      <4>3. CASE k = n
        <5>1. Holders(k)' = Holders(k) \ {p} /\ p \in Holders(k)
          BY <2>0, <3>1, <4>3 DEF Holders
        <5>2. Cardinality(Holders(k)') = Cardinality(Holders(k)) - 1
          BY <4>1, <5>1, FS_RemoveElement
        <5>3. retries'[k] \in {retries[k], retries[k] + 1}
          BY <1>0, <2>3, <4>3 DEF Bumped
        <5>4. retries[k] + Cardinality(Holders(k)) < retryMax + Cardinality(Replicas)
          OBVIOUS
        <5> QED BY <1>0, <2>1, <4>1, <5>2, <5>3, <5>4
      <4> QED BY <4>2, <4>3
    <3> QED BY <2>1, <2>3, <3>2, <3>3
  <2> QED BY <1>3, <2>2, <2>3 DEF DeleteObject
<1>4. ASSUME NEW p \in Replicas, DropRow(p) PROVE QueueInv'
  <2>1. UNCHANGED <<retryMax, retries, objects, broken>>
    BY <1>4 DEF DropRow, processVars
  <2>2. objects' \subseteq queued'
    BY <1>4, <2>1 DEF DropRow
  <2>3. /\ \A q \in Replicas : q # p => round'[q] = round[q]
        /\ round'[p].rows \subseteq round[p].rows /\ round'[p].at = "rows"
    BY <1>0, <1>4 DEF DropRow, RoundRows
  <2>4. \A q \in Replicas : round'[q].at = "drop" =>
          round'[q].rows # {} /\ NextRow(q)' \notin objects'
    BY <2>1, <2>3 DEF NextRow
  <2>5. ASSUME NEW k \in Rows
        PROVE  retries'[k] + Cardinality(Holders(k)') < retryMax' + Cardinality(Replicas)
    <3>1. Holders(k)' \subseteq Holders(k)
      BY <2>3 DEF Holders
    <3>2. Cardinality(Holders(k)') \in Nat /\ Cardinality(Holders(k)') <= Cardinality(Holders(k))
      BY <3>1, HoldersFinite, FS_Subset, FS_CardinalityType
    <3>3. Cardinality(Replicas) \in Nat /\ Cardinality(Holders(k)) \in Nat /\ retries[k] \in Nat
      BY <1>0, HoldersFinite
    <3> QED BY <1>0, <2>1, <3>2, <3>3
  <2> QED BY <2>1, <2>2, <2>4, <2>5
<1>5. ASSUME NEW p \in Replicas, StartRound(p) PROVE QueueInv'
  BY <1>0, <1>1, <1>5 DEF StartRound, RoundRows, processVars
<1>6. ASSUME NEW p \in Replicas, LockLapses(p) PROVE QueueInv'
  <2>1. \A q \in Replicas : round'[q].rows = round[q].rows /\ round'[q].at = round[q].at
    BY <1>0, <1>6 DEF LockLapses, RoundRows
  <2> QED BY <1>1, <1>6, <2>1 DEF LockLapses, processVars
<1>7. ASSUME NEW p \in Replicas, EndRows(p) PROVE QueueInv'
  BY <1>0, <1>1, <1>7 DEF EndRows, RoundRows, processVars
<1>8. ASSUME NEW p \in Replicas, SweepTemp(p) \/ CutShort(p) PROVE QueueInv'
  BY <1>0, <1>1, <1>8 DEF SweepTemp, CutShort, RoundRows, processVars
<1>9. ASSUME NEW p \in Replicas, Release(p) \/ Restart(p) PROVE QueueInv'
  BY <1>0, <1>1, <1>9 DEF Release, Restart, NoRound, RoundRows, processVars
<1>10. ASSUME NEW p \in Replicas, \/ Shutdown(p) \/ \E u \in Uploads : Stage(p, u)
       PROVE  QueueInv'
  BY <1>1, <1>10 DEF Shutdown, Stage, processVars
<1>11. ASSUME NEW u \in Uploads, Write(u) \/ Rename(u) \/ Fail(u) \/ Age(u) PROVE QueueInv'
  BY <1>1, <1>11 DEF Write, Rename, Fail, Age, processVars
<1>12. CASE UNCHANGED vars
  BY <1>1, <1>12 DEF vars, processVars, queueVars
<1> QED BY <1>2, <1>3, <1>4, <1>5, <1>6, <1>7, <1>8, <1>9, <1>10, <1>11, <1>12 DEF Next

-----------------------------------------------------------------------------
(* The theorems *)

\* At first the queue is full of objects nobody has tried to delete.
LEMMA CronInit == Init => CronInv
<1> SUFFICES ASSUME Init PROVE CronInv
  OBVIOUS
<1>1. Shapes
  BY CronAssumption DEF Init, Shapes, NoRound, RoundRows, RoundStages, PutRows, PutStages
<1>2. LocksAgree /\ RoundsExclusive
  BY DEF Init, LocksAgree, RoundsExclusive, NoRound
<1>3. QueueInv
  <2>1. ASSUME NEW k \in Rows
        PROVE  retries[k] + Cardinality(Holders(k)) < retryMax + Cardinality(Replicas)
    <3>1. retries[k] = 0 /\ Holders(k) = {}
      BY DEF Init, Holders, NoRound
    <3>2. Cardinality(Replicas) \in Nat /\ retryMax \in Nat \ {0}
      BY HoldersFinite, CronAssumption DEF Init
    <3>3. Cardinality(Holders(k)) = 0
      BY <3>1, FS_EmptySet
    <3> QED BY <3>1, <3>2, <3>3
  <2> QED BY <2>1 DEF QueueInv, Init, NoRound
<1>4. UploadsInv
  BY DEF Init, UploadsInv, UploadsSpared, InFlight
<1> QED BY <1>1, <1>2, <1>3, <1>4 DEF CronInv

LEMMA CronAlways == Spec => []CronInv
<1>1. CronInv /\ [Next]_vars => CronInv'
  BY ShapeStep, LockStep, QueueStep, UploadStep DEF CronInv
<1> QED BY <1>1, CronInit, PTL DEF Spec

\* RoundsExclusive: Release of cleanup's lock, in Redis or in memory, frees only
\* the round's own, so that a round within its time is alone, however many
\* replicas start, stop and outlive their locks.
THEOREM RoundsKeepApart == Spec => []RoundsExclusive
<1>1. CronInv => RoundsExclusive
  BY DEF CronInv
<1> QED BY <1>1, CronAlways, PTL

\* QueueIsSound: with any number of overlapping rounds DeleteRow never drops the
\* row of an object that exists, and IncrRetry passes the ceiling at most once for
\* each replica, so that ListPending fails only if the ceiling itself is past
\* what the column's Go type holds.
THEOREM QueueStaysSound == Spec => []QueueIsSound
<1>1. ASSUME CronInv PROVE QueueIsSound
  <2>1. ASSUME NEW k \in Rows PROVE retries[k] < retryMax + Cardinality(Replicas)
    <3>1. /\ retries[k] + Cardinality(Holders(k)) < retryMax + Cardinality(Replicas)
          /\ retries[k] \in Nat /\ retryMax \in Nat
      BY <1>1 DEF CronInv, Shapes, QueueInv
    <3> QED BY <3>1, HoldersFinite
  <2> QED BY <1>1, <2>1 DEF CronInv, QueueInv, QueueIsSound
<1> QED BY <1>1, CronAlways, PTL

\* UploadsSpared: SweepTemp takes a staging file from PutObject only if nothing
\* was written to it for the sweep's age, and an acknowledged upload is in place.
THEOREM SweepSparesUploads == Spec => []UploadsSpared
<1>1. CronInv => UploadsSpared
  BY DEF CronInv, UploadsInv
<1> QED BY <1>1, CronAlways, PTL

=============================================================================
