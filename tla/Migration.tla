------------------------------- MODULE Migration -------------------------------
(***************************************************************************)
(* IohTee.checkMigrationsState (packages/iohtee/src/IohTee.ts), which every *)
(* API call awaits first, over SqlMigrator and its SQLite and PostgreSQL    *)
(* subclasses.  Several instances share one database, several calls share   *)
(* one instance, and one SQL statement is one action.  There is a single    *)
(* migration: version 0 is an empty database, version 1 the latest.         *)
(***************************************************************************)
EXTENDS Naturals

CONSTANTS
  Call,        \* API calls
  Instance,    \* IohTee objects
  Home,        \* the instance each call is made on
  Silent       \* instances with options.migrate Silent or undefined

ASSUME HomeAssumption == Home \in [Call -> Instance] /\ Silent \subseteq Instance

VARIABLES
  versions,    \* the values in the rows of schema_migrations
  tables,      \* the tables that exist
  migrated,    \* this.migrated of each instance
  pc           \* where each call is

vars == <<versions, tables, migrated, pc>>

latestVersion == 1
Tables == {"channel", "token", "payment"}

Init ==
  /\ versions = {}
  /\ tables = {}
  /\ migrated = [i \in Instance |-> FALSE]
  /\ pc = [c \in Call |-> "idle"]

At(c, label) == pc[c] = label
Goto(c, label) == pc' = [pc EXCEPT ![c] = label]

checkMigrationsState(c) ==
  /\ At(c, "idle")
  /\ Goto(c, IF migrated[Home[c]] THEN "proceeded" ELSE "count")
  /\ UNCHANGED <<versions, tables, migrated>>

\* ensureMetaTable: count the rows of the table, and insert one if there is
\* none; once for isLatest and once for sync.
countRows(c, from, insert, onwards) ==
  /\ At(c, from)
  /\ Goto(c, IF versions = {} THEN insert ELSE onwards)
  /\ UNCHANGED <<versions, tables, migrated>>

insertRow(c, from, onwards) ==
  /\ At(c, from)
  /\ versions' = versions \cup {0}
  /\ Goto(c, onwards)
  /\ UNCHANGED <<tables, migrated>>

ensureMetaTable(c) ==
  \/ countRows(c, "count", "insert", "read")
  \/ insertRow(c, "insert", "read")
  \/ countRows(c, "countAgain", "insertAgain", "channel")
  \/ insertRow(c, "insertAgain", "channel")

ReadVersions == IF versions = {} THEN {0} ELSE versions

\* readVersion takes any row; then the flag is set before sync has begun.
isLatest_Always(c) ==
  /\ At(c, "read")
  /\ migrated' = [migrated EXCEPT ![Home[c]] = TRUE]
  /\ Goto(c, "proceeded")
  /\ UNCHANGED <<versions, tables>>

isLatest(c) ==
  /\ At(c, "read")
  /\ \E version \in ReadVersions :
       \/ /\ version >= latestVersion
          /\ migrated' = [migrated EXCEPT ![Home[c]] = TRUE]
          /\ Goto(c, "proceeded")
       \/ /\ version < latestVersion
          /\ Home[c] \in Silent
          /\ migrated' = [migrated EXCEPT ![Home[c]] = TRUE]
          /\ Goto(c, "countAgain")
       \/ /\ version < latestVersion
          /\ Home[c] \notin Silent
          /\ Goto(c, "threw")
          /\ UNCHANGED migrated
  /\ UNCHANGED <<versions, tables>>

\* CREATE TABLE IF NOT EXISTS, one table after the other.
createTable(c, table, onwards) ==
  /\ At(c, table)
  /\ tables' = tables \cup {table}
  /\ Goto(c, onwards)
  /\ UNCHANGED <<versions, migrated>>

ensureSchema_ChannelOnly(c) == createTable(c, "channel", "write")
ensureSchema(c) ==
  \/ createTable(c, "channel", "token")
  \/ createTable(c, "token", "payment")
  \/ createTable(c, "payment", "write")

\* UPDATE schema_migrations SET version, in every row there is.
writeVersion(c) ==
  /\ At(c, "write")
  /\ versions' = {latestVersion : v \in versions}
  /\ Goto(c, "proceeded")
  /\ UNCHANGED <<tables, migrated>>

Over == {"idle", "proceeded", "threw"}

\* A statement fails, or the connection that these calls wait for.
fail(calls) ==
  /\ pc' = [c \in Call |-> IF c \in calls /\ pc[c] \notin Over THEN "threw" ELSE pc[c]]
  /\ UNCHANGED <<versions, tables, migrated>>

\* Another instance takes the place of this one.
restart(i) ==
  /\ migrated' = [migrated EXCEPT ![i] = FALSE]
  /\ pc' = [c \in Call |-> IF Home[c] = i /\ pc[c] \notin Over THEN "threw" ELSE pc[c]]
  /\ UNCHANGED <<versions, tables>>

Step(c) == \/ ensureMetaTable(c)
           \/ isLatest(c)
           \/ ensureSchema(c)
           \/ writeVersion(c)

Next == \/ \E c \in Call : checkMigrationsState(c) \/ Step(c)
        \/ \E calls \in SUBSET Call : fail(calls)
        \/ \E i \in Instance : restart(i)

Spec == Init /\ [][Next]_vars
-----------------------------------------------------------------------------
(* Properties. *)

(* Every variable has its type. *)
TypeOK ==
  /\ versions \subseteq 0 .. latestVersion
  /\ tables \subseteq Tables
  /\ migrated \in [Instance -> BOOLEAN]
  /\ pc \in [Call -> Over \cup {"count", "insert", "read", "countAgain",
                                "insertAgain", "write"} \cup Tables]

(* The version row says "latest" only of a database that has the tables,    *)
(* whichever statement a crash or a failure fell between (sync writes the   *)
(* version last), and whatever other instances do meanwhile.                *)
VersionImpliesTables == latestVersion \in versions => tables = Tables

(* An instance that may not migrate (options.migrate Raise) lets a call     *)
(* through only on a database that has the tables.                          *)
RaiseIsReady ==
  \A c \in Call : Home[c] \notin Silent /\ pc[c] = "proceeded" => tables = Tables

(* A call that goes on, even one that overtook the migration of its own     *)
(* instance, has its tables in the end, unless a migration failed.          *)
TablesInTheEnd ==
  \A c \in Call :
    pc[c] = "proceeded" ~>
      tables = Tables \/ \E d \in Call : Home[d] \in Silent /\ pc[d] = "threw"
=============================================================================
