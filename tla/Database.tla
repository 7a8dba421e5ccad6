------------------------------ MODULE Database -------------------------------
(***************************************************************************)
(* The database file: what storage.Open does to one of an older release,   *)
(* while other processes open and use it, and what backup-db and           *)
(* restore-db do to the files.                                             *)
(*                                                                         *)
(* Open brings one table after the other up to date.  For each it looks at *)
(* the columns, then creates or rebuilds the table (a rebuild is one       *)
(* transaction), then creates its indexes, one of which is unique over the *)
(* active rows of a name.  Nothing holds a lock from the look to the       *)
(* rebuild.  Any process may be killed between two steps.                  *)
(*                                                                         *)
(* The rows are those of one common name; other names are independent.     *)
(* The ids are in the order in which the rows were made.                   *)
(***************************************************************************)
EXTENDS Tables, Sequences

CONSTANTS
  Process,
  Order,          \* the tables, in the order of ensureSchema
  LegacyId,       \* for each table, the rows an older database may have
  MaxId,          \* bound: the newest row there is ever
  Issued,         \* bound: the tables in which a certificate is issued,
  Revoked         \* and those in which one is revoked

\* An older release kept one public certificate to a name, and archived the others
\* (public_certs_archive).
ASSUME DatabaseAssumption ==
  /\ MaxId \in Nat
  /\ Order \in Seq({"public_certs", "private_certs"}) /\ Order # <<>>
  /\ \A k \in DOMAIN Order : LegacyId[Order[k]] \subseteq 1 .. MaxId
  /\ \A k \in DOMAIN Order :
       Order[k] = "public_certs" => \A i, j \in LegacyId["public_certs"] : i = j
  /\ Issued \cup Revoked \subseteq {Order[k] : k \in DOMAIN Order}

Table == {Order[k] : k \in DOMAIN Order}

VARIABLES
  live, backup,   \* the database and the backup file, or NoFile
  tmp,            \* the copy that a restore makes of the backup
  saved,          \* the rows in the safety backups, never removed
  opener,         \* where each process is
  newest,         \* the newest row made so far
  made,           \* history: the rows that have been in the live database
  meanwhile,      \* history: those made while a restore was replacing it
  twice           \* history: a table was rebuilt for the second time

databaseVars == <<live, backup, tmp, saved, opener, newest, made, meanwhile, twice>>

files == <<live, backup, tmp, saved>>

databaseHistory == <<newest, made, meanwhile, twice>>

\* A process that has not got the database open.
Closed == [step |-> "idle"]

\* There is no file of that name.
NoFile == [absent |-> TRUE]

-----------------------------------------------------------------------------
(***************************************************************************)
(* The schema                                                              *)
(***************************************************************************)

\* A table is missing, of an older release, rebuilt but without its indexes, or current.
EmptyFile == [schema |-> [t \in Table |-> "missing"], rows |-> [t \in Table |-> EmptyTable]]

Ids(db) == UNION {DOMAIN db.rows[t] : t \in Table}

Legacy(ids) == [schema |-> [t \in Table |-> "old"],
                rows |-> [t \in Table |-> [i \in ids[t] |-> [status |-> "active", supersedes |-> NoId]]]]

OlderDatabases ==
  {Legacy(ids) : ids \in {f \in [Table -> SUBSET (1 .. MaxId)] : \A t \in Table : f[t] \subseteq LegacyId[t]}}

\* INSERT INTO public_certs ... SELECT: every row active, no lineage.
RebuiltPublicCerts(rows) == [i \in DOMAIN rows |-> [status |-> "active", supersedes |-> NoId]]

\* One statement or transaction, on one table.
WithTable(db, t, schema, rows) ==
  [schema |-> [db.schema EXCEPT ![t] = schema], rows |-> [db.rows EXCEPT ![t] = rows]]

LegacyIds == UNION {LegacyId[t] : t \in Table}

Before(ids, i) == {j \in ids : j < i}

Latest(ids) == IF ids = {} THEN NoId ELSE CHOOSE i \in ids : \A j \in ids : j <= i

RebuiltPrivateCerts_mutant(rows) ==   \* all of them active
  [i \in DOMAIN rows |-> [status |-> "active", supersedes |-> Latest(Before(DOMAIN rows, i))]]

\* A chain in the order of legacySortKey, its last row active.
RebuiltPrivateCerts(rows) ==
  [i \in DOMAIN rows |-> [ status |-> IF i = Latest(DOMAIN rows) THEN "active" ELSE "superseded",
                           supersedes |-> Latest(Before(DOMAIN rows, i)) ]]

Rebuilt(t, rows) ==
  IF t = "public_certs" THEN RebuiltPublicCerts(rows) ELSE RebuiltPrivateCerts(rows)

\* What the unique index over the active rows demands.
OneActive(rows) == \A i, j \in DOMAIN rows : rows[i].status = "active" /\ rows[j].status = "active" => i = j

NeedsRebuild_mutant(schema) == schema \in {"old", "current"}   \* a column it asks for is never there

\* hasColumns: which tables are not rebuilt.
NeedsRebuild(schema) == schema = "old"

\* A whole Open of a file that nobody else has open.
Opened(db) ==
  [ schema |-> [t \in Table |-> "current"],
    rows |-> [t \in Table |-> IF NeedsRebuild(db.schema[t]) THEN Rebuilt(t, db.rows[t]) ELSE db.rows[t]] ]

\* An older database, or none and at most an older backup.
DatabaseInit ==
  /\ \/ live \in OlderDatabases /\ backup = NoFile
     \/ live = NoFile /\ backup \in OlderDatabases \cup {NoFile}
  /\ tmp = NoFile
  /\ saved = {}
  /\ opener = [p \in Process |-> Closed]
  /\ newest \in {n \in {0} \cup LegacyIds : \A i \in LegacyIds : i <= n}
  /\ made = IF live = NoFile THEN {} ELSE Ids(live)
  /\ meanwhile = {}
  /\ twice = FALSE

-----------------------------------------------------------------------------
(***************************************************************************)
(* Open, in steps                                                          *)
(***************************************************************************)

Proceed(p, rec) == opener' = [opener EXCEPT ![p] = rec]

Doing(p, step) == opener[p].step = step

Opening(then) == [step |-> "look", table |-> 1, then |-> then]

\* SQLite makes the file if there is none.
OpenLive(p, then) ==
  /\ live' = IF live = NoFile THEN EmptyFile ELSE live
  /\ Proceed(p, Opening(then))

\* Any command, and the server for every request.
Open(p) ==
  /\ Doing(p, "idle")
  /\ OpenLive(p, "work")
  /\ UNCHANGED <<backup, tmp, saved, databaseHistory>>

This(p) == Order[opener[p].table]

\* tableExists and tableColumns.
LookAtTable(p) ==
  /\ Doing(p, "look")
  /\ Proceed(p, [step |-> "change", table |-> opener[p].table, then |-> opener[p].then,
                 seen |-> live.schema[This(p)]])
  /\ UNCHANGED <<files, databaseHistory>>

\* CREATE TABLE IF NOT EXISTS, or the rebuild.
ChangeTable(p) ==
  /\ Doing(p, "change")
  /\ LET t == This(p)
     IN  /\ live' = IF live.schema[t] = "missing" THEN WithTable(live, t, "rebuilt", live.rows[t])
                    ELSE IF NeedsRebuild(opener[p].seen)
                    THEN WithTable(live, t, "rebuilt", Rebuilt(t, live.rows[t]))
                    ELSE live
         /\ twice' = (twice \/ (opener[p].seen = "old" /\ live.schema[t] # "old"))
  /\ Proceed(p, [step |-> "index", table |-> opener[p].table, then |-> opener[p].then])
  /\ UNCHANGED <<backup, tmp, saved, newest, made, meanwhile>>

IndexTable_mutant(p) ==   \* ensureSchema returns after the first table
  /\ Doing(p, "index")
  /\ OneActive(live.rows[This(p)])
  /\ live' = WithTable(live, This(p), "current", live.rows[This(p)])
  /\ Proceed(p, [step |-> opener[p].then])
  /\ UNCHANGED <<backup, tmp, saved, databaseHistory>>

\* CREATE UNIQUE INDEX IF NOT EXISTS fails on two active rows, and Open with it.
IndexTable(p) ==
  /\ Doing(p, "index")
  /\ OneActive(live.rows[This(p)])
  /\ live' = WithTable(live, This(p), "current", live.rows[This(p)])
  /\ Proceed(p, IF opener[p].table < Len(Order)
                THEN [step |-> "look", table |-> opener[p].table + 1, then |-> opener[p].then]
                ELSE [step |-> opener[p].then])
  /\ UNCHANGED <<backup, tmp, saved, databaseHistory>>

-----------------------------------------------------------------------------
(***************************************************************************)
(* Work on the open database                                               *)
(***************************************************************************)

\* A restore that has taken its safety backup of the database.
Replacing == \E p \in Process : opener[p].step \in {"remove", "rename"}

\* A certificate supersedes the active one of its name.
Issue(p, t) ==
  LET i   == newest + 1
      old == {j \in DOMAIN live.rows[t] : live.rows[t][j].status = "active"}
      row(j) == IF j = i THEN [status |-> "active", supersedes |-> Latest(old)]
                ELSE IF j \in old THEN [live.rows[t][j] EXCEPT !.status = "superseded"]
                ELSE live.rows[t][j]
  IN  /\ Doing(p, "work")
      /\ i <= MaxId
      /\ live' = WithTable(live, t, live.schema[t], [j \in DOMAIN live.rows[t] \cup {i} |-> row(j)])
      /\ newest' = i
      /\ made' = made \cup {i}
      /\ meanwhile' = IF Replacing THEN meanwhile \cup {i} ELSE meanwhile
      /\ Proceed(p, Closed)
      /\ UNCHANGED <<backup, tmp, saved, twice>>

Revoke(p, t) ==
  /\ Doing(p, "work")
  /\ \E i \in DOMAIN live.rows[t] :
       /\ live.rows[t][i].status # "revoked"
       /\ live' = WithTable(live, t, live.schema[t],
                            [live.rows[t] EXCEPT ![i].status = "revoked"])
  /\ Proceed(p, Closed)
  /\ UNCHANGED <<backup, tmp, saved, databaseHistory>>

-----------------------------------------------------------------------------
(***************************************************************************)
(* backup-db --force                                                       *)
(***************************************************************************)

\* The old backup goes first.
BackupDB(p) ==
  /\ Doing(p, "idle")
  /\ backup' = NoFile
  /\ OpenLive(p, "backup")
  /\ UNCHANGED <<tmp, saved, databaseHistory>>

\* VACUUM INTO fails if the file is there again.
BackupTo(p) ==
  /\ Doing(p, "backup")
  /\ backup = NoFile
  /\ backup' = live
  /\ Proceed(p, Closed)
  /\ UNCHANGED <<live, tmp, saved, databaseHistory>>

-----------------------------------------------------------------------------
(***************************************************************************)
(* restore-db --force, one at a time                                       *)
(***************************************************************************)

Restoring(p) ==
  \/ opener[p].step \in {"validated", "copied", "save", "remove", "rename", "done"}
  \/ "then" \in DOMAIN opener[p] /\ opener[p].then \in {"save", "done"}

\* The backup is opened, which migrates it, and closed, ...
RestoreDB(p) ==
  /\ Doing(p, "idle")
  /\ \A q \in Process : ~Restoring(q)
  /\ backup # NoFile
  /\ \A t \in Table : OneActive(Opened(backup).rows[t])
  /\ backup' = Opened(backup)
  /\ Proceed(p, [step |-> "validated"])
  /\ UNCHANGED <<live, tmp, saved, databaseHistory>>

\* ... and the file that has its name by then, which a backup-db --force may have
\* replaced, is copied beside the database.
CopyBackup(p) ==
  /\ Doing(p, "validated")
  /\ backup # NoFile
  /\ tmp' = backup
  /\ Proceed(p, [step |-> "copied"])
  /\ UNCHANGED <<live, backup, saved, databaseHistory>>

\* A database that is there is opened, ...
OpenReplaced(p) ==
  /\ Doing(p, "copied")
  /\ Proceed(p, IF live = NoFile THEN [step |-> "rename"] ELSE Opening("save"))
  /\ UNCHANGED <<files, databaseHistory>>

SaveLive_mutant(p) ==   \* no safety backup
  /\ Doing(p, "save")
  /\ Proceed(p, [step |-> "remove"])
  /\ UNCHANGED <<files, databaseHistory>>

\* ... is copied, under a name of its own, ...
SaveLive(p) ==
  /\ Doing(p, "save")
  /\ saved' = saved \cup Ids(live)
  /\ Proceed(p, [step |-> "remove"])
  /\ UNCHANGED <<live, backup, tmp, databaseHistory>>

\* What a process does with a file that has lost its name is lost with it.
OnlyProceeds(p, rec) == opener' = [q \in Process |-> IF q = p THEN rec ELSE Closed]

\* ... and removed.
RemoveLive(p) ==
  /\ Doing(p, "remove")
  /\ live' = NoFile
  /\ OnlyProceeds(p, [step |-> "rename"])
  /\ UNCHANGED <<backup, tmp, saved, databaseHistory>>

\* The copy takes its name, and is opened once more.
RenameRestored(p) ==
  /\ Doing(p, "rename")
  /\ live' = tmp
  /\ tmp' = NoFile
  /\ made' = made \cup Ids(tmp)
  /\ OnlyProceeds(p, Opening("done"))
  /\ UNCHANGED <<backup, saved, newest, meanwhile, twice>>

\* A process ends: its work done, with an error, or killed.  A copy that a restore
\* leaves is nobody's; the next one removes it.
End(p) ==
  /\ ~Doing(p, "idle")
  /\ Proceed(p, Closed)
  /\ tmp' = IF Restoring(p) THEN NoFile ELSE tmp
  /\ UNCHANGED <<live, backup, saved, databaseHistory>>

DatabaseNext ==
  \E p \in Process :
    \/ Open(p)
    \/ LookAtTable(p)
    \/ ChangeTable(p)
    \/ IndexTable(p)
    \/ \E t \in Issued : Issue(p, t)
    \/ \E t \in Revoked : Revoke(p, t)
    \/ BackupDB(p)
    \/ BackupTo(p)
    \/ RestoreDB(p)
    \/ CopyBackup(p)
    \/ OpenReplaced(p)
    \/ SaveLive(p)
    \/ RemoveLive(p)
    \/ RenameRestored(p)
    \/ End(p)

DatabaseSpec == DatabaseInit /\ [][DatabaseNext]_databaseVars

-----------------------------------------------------------------------------
(***************************************************************************)
(* Properties                                                              *)
(***************************************************************************)

Migrated(db, t) == db.schema[t] \in {"rebuilt", "current"}

\* A process that has opened the database finds every table there and of this
\* release, whoever else opens it, restores it or dies on it meanwhile.
OpenedIsCurrent ==
  \A p \in Process : opener[p].step \in {"work", "backup", "save"} =>
    live # NoFile /\ \A t \in Table : Migrated(live, t)

\* However backups and restores are cut off and repeated, a certificate that was
\* once in the database is in the database or in a safety backup of it, unless it
\* was made while a restore was already replacing the database.
CertificatesKept ==
  made \subseteq (IF live = NoFile THEN {} ELSE Ids(live)) \cup saved \cup meanwhile

\* No crash in the middle of a migration, and no order of opening, leaves a
\* database that cannot be opened any more; only a table that was rebuilt twice,
\* by two processes that both saw it old, can end like that.
AlwaysOpens ==
  live # NoFile /\ ~twice => \A t \in Table : Migrated(live, t) => OneActive(live.rows[t])

Becomes(row, new) ==
  /\ row.supersedes = new.supersedes
  /\ row.status # new.status => <<row.status, new.status>> \in
       {<<"active", "superseded">>, <<"active", "revoked">>, <<"superseded", "revoked">>}

\* What has been recorded since a table was migrated, that one certificate took
\* the place of another or that one is revoked, is not forgotten when the
\* database is opened again: only a restore, or a second rebuild, undoes it.
HistoryStands ==
  [][ live # NoFile /\ live' # NoFile /\ ~twice' /\ ~(tmp # NoFile /\ tmp' = NoFile) =>
        \A t \in Table : Migrated(live, t) =>
          /\ Migrated(live', t)
          /\ \A i \in DOMAIN live.rows[t] :
               i \in DOMAIN live'.rows[t] /\ Becomes(live.rows[t][i], live'.rows[t][i]) ]_databaseVars

=============================================================================
