-------------------------------- MODULE Boot --------------------------------
(***************************************************************************)
(* What a process does before it serves: main() up to app.Listen, and the  *)
(* admin subcommand, which opens the database the same way.  A server      *)
(* resolves the secret key (read from the data directory, generated there  *)
(* the first time), brings the schema up to date and seeds the runtime     *)
(* settings.  Several processes start at once and any of them may die.     *)
(*                                                                         *)
(* gormigrate and GORM, which are not part of the repository, are modelled *)
(* by what migrate.Run has them do: look for the history table, look for   *)
(* the migration's row, create the tables that are missing one statement   *)
(* at a time, insert the row.                                              *)
(*                                                                         *)
(* setting is the row of any one key: a switch, which two of the numbers   *)
(* stand for, or the upload cap, a positive number of bytes.  A server has *)
(* a configured value of its own, which seeds the row, stands in for one   *)
(* that cannot be read, and for the upload cap is also Fiber's BodyLimit,  *)
(* fixed until the process restarts.                                       *)
(***************************************************************************)
EXTENDS Naturals

CONSTANTS
    Servers,        \* processes that run the server
    Consoles,       \* processes that run an admin command
    Keys,           \* secret keys that can be generated
    Values,         \* values of a runtime setting
    Garbled,        \* what is in a row that holds none of them
    LastTable,      \* tables are 0 (the migration history) .. LastTable
    Databases,      \* the drivers to explore: "sqlite", "postgres"
    MaxEnds,        \* bound: processes that stop or are killed
    Absent

ASSUME BootAssumption ==
    /\ Servers \cap Consoles = {}
    /\ LastTable \in Nat /\ MaxEnds \in Nat
    /\ Databases \subseteq {"sqlite", "postgres"}
    /\ Values \subseteq Nat \ {0}
    /\ Absent \notin Keys \cup Values \cup Servers \cup Consoles
    /\ Garbled \notin Values \cup {Absent}

VARIABLES
    database,       \* the driver of this deployment
    keyFile,        \* <data_dir>/secret.key
    tables,         \* the tables that exist
    migrated,       \* the history table names the migration
    migrator,       \* holder of the advisory lock
    setting,        \* a row of the setting table
    boot,           \* each process
    ordered,        \* history: what an administrator last set
    hashed,         \* history: keys that tokens were issued under
    collided,       \* history: a process failed on what another created
    ends            \* processes that have ended

bootVars == <<database, keyFile, tables, migrated, migrator, setting, boot,
              ordered, hashed, collided, ends>>

-----------------------------------------------------------------------------
Processes == Servers \cup Consoles

Stages == {"down", "key", "link", "open", "lock", "table", "create", "history",
           "record", "seed", "up"}

Down == [at |-> "down", key |-> Absent, seed |-> Absent, table |-> 0]

Go(p, stage) == boot' = [boot EXCEPT ![p].at = stage]

\* A server that dies on the way up, or a command that ends.
Exit(p) == boot' = [boot EXCEPT ![p] = Down]

BootTypeOK ==
    /\ database \in Databases
    /\ keyFile \in Keys \cup {Absent}
    /\ tables \subseteq 0 .. LastTable
    /\ migrated \in BOOLEAN
    /\ migrator \in Processes \cup {Absent}
    /\ setting \in Values \cup {Absent, Garbled}
    /\ boot \in [Processes -> [at : Stages, key : Keys \cup {Absent},
                               seed : Values \cup {Absent}, table : 0 .. LastTable + 1]]
    /\ ordered \in Values \cup {Absent}
    /\ hashed \subseteq Keys
    /\ collided \in BOOLEAN
    /\ ends \in 0 .. MaxEnds

BootInit ==
    /\ database \in Databases
    /\ keyFile = Absent
    /\ tables = {}
    /\ migrated = FALSE
    /\ migrator = Absent
    /\ setting = Absent
    /\ boot = [p \in Processes |-> Down]
    /\ ordered = Absent
    /\ hashed = {}
    /\ collided = FALSE
    /\ ends = 0

-----------------------------------------------------------------------------
\* main: the configuration is valid; the value it seeds may have been edited
\* since the last start.
StartServer(p) ==
    /\ p \in Servers /\ boot[p].at = "down"
    /\ \E v \in Values : boot' = [boot EXCEPT ![p] = [Down EXCEPT !.at = "key", !.seed = v]]
    /\ UNCHANGED <<database, keyFile, tables, migrated, migrator, setting, ordered, hashed, collided, ends>>

\* runAdminCLI: no secret key is read or made.
StartConsole(p) ==
    /\ p \in Consoles /\ boot[p].at = "down"
    /\ Go(p, "open")
    /\ UNCHANGED <<database, keyFile, tables, migrated, migrator, setting, ordered, hashed, collided, ends>>

\* A key that nobody else has drawn.
Drawn == {k \in Keys : k # keyFile /\ \A p \in Processes : boot[p].key # k}

\* EnsureSecretKey: adopt the file's key, or generate one in a file beside it.
ReadKey(p) ==
    /\ boot[p].at = "key"
    /\ \/ /\ keyFile # Absent
          /\ boot' = [boot EXCEPT ![p].key = keyFile, ![p].at = "open"]
       \/ /\ keyFile = Absent
          /\ \E k \in Drawn : boot' = [boot EXCEPT ![p].key = k, ![p].at = "link"]
    /\ UNCHANGED <<database, keyFile, tables, migrated, migrator, setting, ordered, hashed, collided, ends>>

\* Slip: os.Rename, which replaces what is there.
Renamed(p) == boot[p].key

\* os.Link: the whole file appears under its name, unless the name is taken.
Linked(p) == IF keyFile = Absent THEN boot[p].key ELSE keyFile

LinkKey(p) ==
    /\ boot[p].at = "link"
    /\ keyFile' = Linked(p)
    /\ Go(p, IF keyFile' = boot[p].key THEN "open" ELSE "key")
    /\ UNCHANGED <<database, tables, migrated, migrator, setting, ordered, hashed, collided, ends>>

-----------------------------------------------------------------------------
\* Slip: nobody is kept waiting.
NeedsNoLock == FALSE

\* migrate.Run: only Postgres serialises its processes.
NeedsLock == database = "postgres"

\* openDB with database.auto_migrate on, as it is by default: with it off the schema is
\* somebody else's care, and a process would go on to AfterMigration at once.
OpenDB(p) ==
    /\ boot[p].at = "open"
    /\ Go(p, IF NeedsLock THEN "lock" ELSE "table")
    /\ UNCHANGED <<database, keyFile, tables, migrated, migrator, setting, ordered, hashed, collided, ends>>

AdvisoryLock(p) ==
    /\ boot[p].at = "lock" /\ migrator = Absent
    /\ migrator' = p
    /\ Go(p, "table")
    /\ UNCHANGED <<database, keyFile, tables, migrated, setting, ordered, hashed, collided, ends>>

\* The deferred unlock of withAdvisoryLock.
Unlocked(p) == IF migrator = p THEN Absent ELSE migrator

\* What follows openDB: a server seeds its settings, a command does its work.
AfterMigration(p) == IF p \in Servers THEN "seed" ELSE "up"

\* Each model in turn: is its table there?
CheckTable(p) ==
    /\ boot[p].at = "table"
    /\ LET n == boot[p].table IN
       \/ n > LastTable /\ Go(p, "record")
       \/ n <= LastTable /\ n \notin tables /\ Go(p, "create")
       \/ /\ n <= LastTable /\ n \in tables
          /\ boot' = [boot EXCEPT ![p].table = n + 1, ![p].at = IF n = 0 THEN "history" ELSE "table"]
    /\ UNCHANGED <<database, keyFile, tables, migrated, migrator, setting, ordered, hashed, collided, ends>>

\* CREATE TABLE, with no IF NOT EXISTS: an error is fatal in main.
CreateTable(p) ==
    /\ boot[p].at = "create"
    /\ LET n == boot[p].table IN
       \/ /\ n \notin tables
          /\ tables' = tables \cup {n}
          /\ boot' = [boot EXCEPT ![p].table = n + 1, ![p].at = IF n = 0 THEN "history" ELSE "table"]
          /\ UNCHANGED <<migrator, collided>>
       \/ /\ n \in tables
          /\ collided' = TRUE /\ migrator' = Unlocked(p)
          /\ Exit(p)
          /\ UNCHANGED tables
    /\ UNCHANGED <<database, keyFile, migrated, setting, ordered, hashed, ends>>

\* gormigrate skips a migration the history table names.
ReadHistory(p) ==
    /\ boot[p].at = "history"
    /\ \/ migrated /\ Go(p, AfterMigration(p)) /\ migrator' = Unlocked(p)
       \/ ~ migrated /\ Go(p, "table") /\ UNCHANGED migrator
    /\ UNCHANGED <<database, keyFile, tables, migrated, setting, ordered, hashed, collided, ends>>

\* The history row is inserted after the tables; its id is a primary key.
Recordable(p) == boot[p].at = "record"

RecordMigration(p) ==
    /\ Recordable(p)
    /\ migrated' = TRUE /\ migrator' = Unlocked(p)
    /\ \/ ~ migrated /\ Go(p, AfterMigration(p)) /\ UNCHANGED collided
       \/ migrated /\ Exit(p) /\ collided' = TRUE
    /\ UNCHANGED <<database, keyFile, tables, setting, ordered, hashed, ends>>

-----------------------------------------------------------------------------
\* Slip: the configuration is written over what is there.
Reseeded(p) == boot[p].seed

\* SeedDefaults inserts what has no row, and leaves a row alone.
Seeded(p) == IF setting = Absent THEN boot[p].seed ELSE setting

SeedDefaults(p) ==
    /\ boot[p].at = "seed"
    /\ setting' = Seeded(p)
    /\ Go(p, "up")
    /\ UNCHANGED <<database, keyFile, tables, migrated, migrator, ordered, hashed, collided, ends>>

Serving(p) == p \in Servers /\ boot[p].at = "up"

\* GetBool, GetInt64 with the configuration as default: it is what a missing row,
\* and one that does not parse, is read as; maxUploadBytes has it for a cap of zero too.
Reads(p) == IF setting \in Values THEN setting ELSE boot[p].seed

\* Fiber refuses a larger request before any handler sees it. The few bytes that
\* the request has around the upload are left out.
BodyLimit(p) == boot[p].seed

\* PublishFile through this server, for the key of the upload cap.
Accepts(p, size) == size <= BodyLimit(p) /\ size <= Reads(p)

\* AdminPatchSettings, through any server.
AdminSet(p) ==
    /\ Serving(p)
    /\ \E v \in Values \ {setting} : setting' = v /\ ordered' = v
    /\ UNCHANGED <<database, keyFile, tables, migrated, migrator, boot, hashed, collided, ends>>

\* Nothing in the program writes such a row: somebody does, by hand.
Garble ==
    /\ setting \in Values
    /\ setting' = Garbled
    /\ UNCHANGED <<database, keyFile, tables, migrated, migrator, boot, ordered, hashed, collided, ends>>

\* A token is stored as a hash keyed by the process's key.
IssueToken(p) ==
    /\ Serving(p) /\ boot[p].key \notin hashed
    /\ hashed' = hashed \cup {boot[p].key}
    /\ UNCHANGED <<database, keyFile, tables, migrated, migrator, setting, boot, ordered, collided, ends>>

\* The process ends, at a signal or killed at any step: a connection that closes
\* frees its advisory lock.
End(p) ==
    /\ boot[p].at # "down" /\ ends < MaxEnds
    /\ Exit(p)
    /\ migrator' = Unlocked(p)
    /\ ends' = ends + 1
    /\ UNCHANGED <<database, keyFile, tables, migrated, setting, ordered, hashed, collided>>

BootNext ==
    \/ \E p \in Processes :
         \/ StartServer(p) \/ StartConsole(p)
         \/ ReadKey(p) \/ LinkKey(p)
         \/ OpenDB(p) \/ AdvisoryLock(p)
         \/ CheckTable(p) \/ CreateTable(p) \/ ReadHistory(p) \/ RecordMigration(p)
         \/ SeedDefaults(p) \/ AdminSet(p) \/ IssueToken(p) \/ End(p)
    \/ Garble

BootSpec == BootInit /\ [][BootNext]_bootVars

-----------------------------------------------------------------------------
\* Processes that share a data directory agree on the key however their first
\* starts interleave and die: what one issued, every other accepts, now and
\* after any restart.
OneKey ==
    /\ hashed \subseteq {keyFile}
    /\ \A p \in Servers : boot[p].at \notin {"down", "key", "link"} => boot[p].key = keyFile

\* A server serves only a complete schema, whoever died while building it; and
\* on Postgres no process fails because another is building it too.
MigrationIsSafe ==
    /\ \A p \in Processes : boot[p].at \in {"seed", "up"} => tables = 0 .. LastTable
    /\ database = "postgres" => ~ collided

\* However starts, restarts, seeds and an administrator's changes interleave, a row
\* that can be read holds what was last ordered, never what some start would seed;
\* every server reads the same from it (SeedDefaults, GetBool, GetInt64); and an upload
\* cap that was lowered is in force on all of them, whatever each is configured for. One
\* that was raised need not be (AdminPatchSettings, "raising it past the configured
\* value does not"): two servers may differ on an upload, but only on one that is past
\* the BodyLimit of the server that refuses it.
OrderStands ==
    setting # Garbled =>
      /\ ordered # Absent => setting = ordered
      /\ \A p, q \in Processes : Serving(p) /\ Serving(q) =>
           /\ Reads(p) = Reads(q)
           /\ ordered # Absent => Reads(p) = ordered
           /\ \A size \in Values : Accepts(p, size) =>
                /\ ordered # Absent => size <= ordered
                /\ Accepts(q, size) \/ size > BodyLimit(q)

=============================================================================
