------------------------------- MODULE Schema -------------------------------
(***************************************************************************)
(* Database.startup(): ping until the server answers, then bring the       *)
(* schema to the entities as far as schema_mode allows (sql.py). Several   *)
(* processes, of an old and a new version, start against one database; the *)
(* inspection and the DDL that follows it are separate steps.              *)
(***************************************************************************)
EXTENDS Integers, FiniteSetsExt, Functions, TLC

CONSTANTS Procs,
          Entities,   \* process -> its tables: table -> [columns: name -> type, fks: column -> on_delete, indexes]
          Mode,       \* process -> "off", "create" or "sync"
          Drops,      \* processes with drop_columns
          Initial,    \* databases: [tables, indexes, doubled: indexes whose rows are not unique]
          Retries     \* startup_retries

VARIABLES db,         \* the database
          at,         \* process -> step of its startup
          tries,      \* process -> pings that failed
          seen,       \* process -> what its last inspection found
          told        \* process -> what it has logged as stale or missing

vars == << db, at, tries, seen, told >>

Init == /\ db \in Initial
        /\ at = [p \in Procs |-> "ping"] /\ tries = [p \in Procs |-> 0]
        /\ seen = [p \in Procs |-> db] /\ told = [p \in Procs |-> {}]

Go(p, step) == at' = [at EXCEPT ![p] = step]
Look(p) == seen' = [seen EXCEPT ![p] = db]
Tell(p, problems) == told' = [told EXCEPT ![p] = @ \cup problems]
Tables(p) == DOMAIN Entities[p]
Present(p) == Tables(p) \cap DOMAIN db.tables
Declared(p) == UNION {{<< t, i >> : i \in Entities[p][t].indexes} : t \in Tables(p)}

-----------------------------------------------------------------------------
(* _wait_until_reachable: a transient error is retried startup_retries     *)
(* times in all, another one ends the startup at once.                     *)
Ping(p) ==
  /\ at[p] = "ping"
  /\ \/ Go(p, IF Mode[p] = "off" THEN "indexes" ELSE "look") /\ UNCHANGED tries
     \/ /\ tries' = [tries EXCEPT ![p] = @ + 1]
        /\ IF tries[p] + 1 < Retries THEN UNCHANGED at ELSE Go(p, "failed")
     \/ Go(p, "failed") /\ tries' = [tries EXCEPT ![p] = Retries]
  /\ UNCHANGED << db, seen, told >>

(* create_all: which tables are missing, then CREATE TABLE, in a           *)
(* transaction: a table another process made since is an error.            *)
LookTables(p) == /\ at[p] = "look" /\ Look(p) /\ Go(p, "create")
                 /\ UNCHANGED << db, tries, told >>

CreateTables(p) ==
  /\ at[p] = "create"
  /\ LET missing == Tables(p) \ DOMAIN seen[p].tables
     IN  IF missing \cap DOMAIN db.tables # {} THEN Go(p, "failed") /\ UNCHANGED db
         ELSE /\ db' = [db EXCEPT !.tables =
                   [t \in DOMAIN db.tables \cup missing |->
                      IF t \in missing THEN [columns |-> Entities[p][t].columns, fks |-> Entities[p][t].fks]
                      ELSE db.tables[t]]]
              /\ Go(p, "indexes")
  /\ UNCHANGED << tries, seen, told >>

(* _ensure_indexes: CREATE INDEX IF NOT EXISTS, one by one, errors logged; *)
(* schema_mode "off" only looks (_audit_indexes).                          *)
Indexes(p) ==
  /\ at[p] = "indexes"
  /\ IF Mode[p] = "off"
     THEN Tell(p, {x \in Declared(p) \ db.indexes : x[1] \in Present(p)}) /\ UNCHANGED db
     ELSE /\ db' = [db EXCEPT !.indexes = @ \cup (Declared(p) \ db.doubled)]
          /\ Tell(p, (Declared(p) \cap db.doubled) \ db.indexes)
  /\ Go(p, "fks")
  /\ UNCHANGED << tries, seen >>

Group(action) == IF action \in {"NO ACTION", "RESTRICT"} THEN "NO ACTION" ELSE action

(* _audit_foreign_keys: a key that is missing or behaves otherwise is told *)
(* of, never changed.                                                      *)
Stale(p, t) == {c \in DOMAIN Entities[p][t].fks :
  c \notin DOMAIN db.tables[t].fks \/ Group(db.tables[t].fks[c]) # Group(Entities[p][t].fks[c])}
ForeignKeys(p) ==
  /\ at[p] = "fks"
  /\ Tell(p, UNION {{<< t, c, "fk" >> : c \in Stale(p, t)} : t \in Present(p)})
  /\ Go(p, IF Mode[p] = "sync" THEN "inspect" ELSE "ready")
  /\ UNCHANGED << db, tries, seen >>

-----------------------------------------------------------------------------
Inspect(p) == /\ at[p] = "inspect" /\ Look(p) /\ Go(p, "sync")
              /\ UNCHANGED << db, tries, told >>

Without(f, S) == Restrict(f, DOMAIN f \ S)
Adding(f, S, types) == [c \in DOMAIN f \cup S |-> IF c \in DOMAIN f THEN f[c] ELSE types[c]]

(* Bug: a column whose type differs is taken for a new one. *)
Sync_Retypes(p) ==
  /\ at[p] = "sync"
  /\ db' = [db EXCEPT !.tables = [t \in DOMAIN @ |->
        IF t \in Tables(p) THEN [@[t] EXCEPT !.columns = Entities[p][t].columns @@ @] ELSE @[t]]]
  /\ Go(p, "ready")
  /\ UNCHANGED << tries, seen, told >>

(* _sync_table in one transaction: ADD what was missing, DROP what is too  *)
(* much if drop_columns allows (an old SQLite refuses), tell of the rest.  *)
(* A column another process added since is an error, and ends the startup. *)
Sync(p) ==
  /\ at[p] = "sync"
  /\ LET have(t) == DOMAIN seen[p].tables[t].columns
         want(t) == DOMAIN Entities[p][t].columns
         known == Tables(p) \cap DOMAIN seen[p].tables
         clash == \E t \in known : (want(t) \ have(t)) \cap DOMAIN db.tables[t].columns # {}
         extra(t) == have(t) \ want(t)
         differ(t) == {c \in want(t) \cap have(t) : seen[p].tables[t].columns[c] # Entities[p][t].columns[c]}
     IN  IF clash THEN Go(p, "failed") /\ UNCHANGED << db, told >>
         ELSE \E works \in BOOLEAN :
           LET gone(t) == IF p \in Drops /\ works THEN extra(t) ELSE {}
           IN  /\ db' = [db EXCEPT !.tables = [t \in DOMAIN db.tables |->
                     IF t \notin known THEN db.tables[t]
                     ELSE [db.tables[t] EXCEPT !.columns = Adding(Without(db.tables[t].columns, gone(t)),
                                                    want(t) \ have(t), Entities[p][t].columns)]]]
               /\ Tell(p, UNION {{<< t, c, "type" >> : c \in differ(t)}
                                 \cup {<< t, c, "extra" >> : c \in extra(t) \ gone(t)} : t \in known})
               /\ Go(p, "ready")
  /\ UNCHANGED << tries, seen >>

Next == \E p \in Procs : Ping(p) \/ LookTables(p) \/ CreateTables(p) \/ Indexes(p)
                         \/ ForeignKeys(p) \/ Inspect(p) \/ Sync(p)

Spec == Init /\ [][Next]_vars

-----------------------------------------------------------------------------
(* A process that is ready has what its entities declare, or has said in   *)
(* the log that it has not: tables and indexes that hold, foreign keys     *)
(* with their on_delete, and under "sync" the columns and their types.     *)
ReadyOrTold == \A p \in Procs : at[p] = "ready" =>
  /\ Mode[p] # "off" => Tables(p) \subseteq DOMAIN db.tables
  /\ \A x \in Declared(p) : x \in db.indexes \cup told[p] \/ x[1] \notin DOMAIN db.tables
  /\ \A t \in Present(p) : \A c \in DOMAIN Entities[p][t].fks :
       c \notin Stale(p, t) \/ << t, c, "fk" >> \in told[p]
  /\ Mode[p] = "sync" => \A t \in Tables(p) : \A c \in DOMAIN Entities[p][t].columns :
       \/ << t, c, "type" >> \in told[p]
       \/ c \in DOMAIN db.tables[t].columns /\ db.tables[t].columns[c] = Entities[p][t].columns[c]

(* No start changes the type of a column that holds data, and only one     *)
(* with drop_columns takes any away.                                       *)
KeepsData == \A t \in DOMAIN db.tables : \A c \in DOMAIN db.tables[t].columns :
  \/ c \in DOMAIN db'.tables[t].columns /\ db'.tables[t].columns[c] = db.tables[t].columns[c]
  \/ \E p \in Drops : at[p] = "sync" /\ at'[p] = "ready"
DataStays == [][KeepsData]_vars

(* Processes that start together all come up, unless the server is to blame. *)
AllComeUp == \A p \in Procs : at[p] = "failed" => tries[p] = Retries
=============================================================================
