------------------------------- MODULE Stores -------------------------------
(***************************************************************************)
(* The parts of infrastructure/database that several tasks or processes    *)
(* are in at once, side by side: the circuit breaker (this module extends  *)
(* it), the SQL session, MongoDB, the repository with its subscribers, and *)
(* the schema at startup. A behaviour is one of one part, which `part'     *)
(* names; the others stay where they began. MCData adds the memory store   *)
(* and the query builder.                                                  *)
(***************************************************************************)
EXTENDS CircuitBreaker, Sequences

CONSTANTS NULL, ABSENT, Parts,               \* the parts to check
          SessionTasks, SessionRequests,     \* SQL: tasks; those that start as a request
          SessionPool, SessionListeners,     \* connections; listeners of an event
          SessionOps, SessionDepth,          \* bounds: statements and blocks; nesting
          MongoEntities, MongoRefs, MongoChildren, MongoInitial,    \* as in MongoStore
          MongoTasks, MongoModes, MongoIds, MongoCalls,
          WatchedTasks, WatchedIds, WatchedValues, WatchedOnDelete, \* as in Watched
          WatchedHeard, WatchedHookFails, WatchedInitial, WatchedOps,
          Starting, StartEntities, StartMode, StartDrops,           \* as in Schema
          StartInitial, StartRetries

VARIABLE part

(* ------------------------------------------------------------------- SQL *)
VARIABLES sTask, sConns, sUow, sDurable, sOutcome, sMeant, sOps
sessionVars == << sTask, sConns, sUow, sDurable, sOutcome, sMeant, sOps >>
Session == INSTANCE SqlSession WITH
  Tasks <- SessionTasks, Requests <- SessionRequests, PoolSize <- SessionPool,
  Listeners <- SessionListeners, SpawnInside <- FALSE, MaxOps <- SessionOps,
  MaxDepth <- SessionDepth,
  task <- sTask, conns <- sConns, uow <- sUow, durable <- sDurable, outcome <- sOutcome,
  meant <- sMeant, ops <- sOps

(* One task of a request at a time opens its connection: there is one      *)
(* listener, or one connection.                                            *)
ASSUME SessionAssumption ==
  /\ IsFiniteSet(SessionTasks) /\ NULL \notin SessionTasks \cup Nat
  /\ SessionPool \in Nat /\ SessionListeners \in Nat /\ SessionOps \in Nat
  /\ SessionListeners <= 1 \/ SessionPool <= 1

(* --------------------------------------------------------------- MongoDB *)
VARIABLES gDocs, gCounter, gMode, gTodo, gCall, gSaved, gCalls
mongoVars == << gDocs, gCounter, gMode, gTodo, gCall, gSaved, gCalls >>
Documents == INSTANCE MongoStore WITH
  Entities <- MongoEntities, Refs <- MongoRefs, Children <- MongoChildren,
  Initial <- MongoInitial, Tasks <- MongoTasks, Modes <- MongoModes,
  MaxId <- MongoIds, MaxCalls <- MongoCalls,
  docs <- gDocs, counter <- gCounter, mode <- gMode, todo <- gTodo, call <- gCall,
  saved <- gSaved, calls <- gCalls

(* Every child is on its parent's list, nothing dangles at the start, and   *)
(* nobody deletes while others save: _check_references says of itself that *)
(* it leaves a gap there.                                                  *)
ASSUME MongoAssumption ==
  /\ MongoIds \in Nat /\ NULL # ABSENT /\ NULL \notin Nat /\ ABSENT \notin Nat
  /\ DOMAIN MongoRefs \subseteq MongoEntities
  /\ MongoChildren \in [MongoEntities -> Seq(DOMAIN MongoRefs)]
  /\ \A e \in DOMAIN MongoRefs :
       /\ MongoRefs[e].parent \in MongoEntities
       /\ MongoRefs[e].on_delete \in {"CASCADE", "SET NULL", "RESTRICT"}
       /\ \E k \in DOMAIN MongoChildren[MongoRefs[e].parent] : MongoChildren[MongoRefs[e].parent][k] = e
  /\ MongoInitial \subseteq [MongoEntities -> [1 .. MongoIds -> 1 .. MongoIds \cup {NULL, ABSENT}]]
  /\ \A docs \in MongoInitial, e \in DOMAIN MongoRefs, i \in 1 .. MongoIds :
       docs[e][i] \in 1 .. MongoIds => docs[MongoRefs[e].parent][docs[e][i]] # ABSENT
  /\ \A mode \in MongoModes : /\ mode \in [MongoTasks -> {"saver", "deleter", "absent"}]
                              /\ \A t, u \in MongoTasks : ~ (mode[t] = "saver" /\ mode[u] = "deleter")

(* ---------------------------------------------- repository and subscribers *)
VARIABLES wRows, wOp, wOps
watchVars == << wRows, wOp, wOps >>
Watch == INSTANCE Watched WITH
  Tasks <- WatchedTasks, Ids <- WatchedIds, Values <- WatchedValues,
  OnDelete <- WatchedOnDelete, Heard <- WatchedHeard,
  HookFails <- WatchedHookFails, Initial <- WatchedInitial, MaxOps <- WatchedOps,
  rows <- wRows, op <- wOp, ops <- wOps

(* Ids are those of rows, "user" is nobody's child.                        *)
ASSUME WatchedAssumption ==
  /\ IsFiniteSet(WatchedIds) /\ IsFiniteSet(DOMAIN WatchedOnDelete)
  /\ Watch!NoUser \notin WatchedIds /\ "user" \notin DOMAIN WatchedOnDelete
  /\ WatchedInitial \subseteq [Watch!Entities -> [WatchedIds ->
       {<< >>} \cup {<< v >> : v \in WatchedValues \cup WatchedIds \cup {Watch!NoUser}}]]

(* ---------------------------------------------------------------- schema *)
VARIABLES dDb, dAt, dTries, dSeen, dTold
startupVars == << dDb, dAt, dTries, dSeen, dTold >>
Startup == INSTANCE Schema WITH
  Procs <- Starting, Entities <- StartEntities, Mode <- StartMode, Drops <- StartDrops,
  Initial <- StartInitial, Retries <- StartRetries,
  db <- dDb, at <- dAt, tries <- dTries, seen <- dSeen, told <- dTold

(* Processes of one deployment: schema_mode is "off" for all or for none,   *)
(* and who may drop columns declares those that the others bring up.       *)
ASSUME StartupAssumption ==
  /\ \A d \in StartInitial :
       /\ d = [tables |-> d.tables, indexes |-> d.indexes, doubled |-> d.doubled]
       /\ \A t \in DOMAIN d.tables : d.tables[t] = [columns |-> d.tables[t].columns, fks |-> d.tables[t].fks]
  /\ StartMode \in [Starting -> {"off", "create", "sync"}]
  /\ \A p, q \in Starting : StartMode[p] = "off" => StartMode[q] = "off"
  /\ \A p \in Starting, q \in Starting \cap StartDrops : StartMode[p] = "sync" /\ StartMode[q] = "sync" =>
       \A t \in DOMAIN StartEntities[p] \cap DOMAIN StartEntities[q] :
         DOMAIN StartEntities[p][t].columns \subseteq DOMAIN StartEntities[q][t].columns

(* ----------------------------------------------------------- composition *)
NoDocuments ==
  /\ gDocs = NULL /\ gCounter = NULL /\ gMode = NULL /\ gTodo = NULL /\ gCall = NULL
  /\ gSaved = NULL /\ gCalls = NULL
NoWatch ==
  /\ wRows = NULL /\ wOp = NULL /\ wOps = NULL
NoStartup ==
  /\ dDb = NULL /\ dAt = NULL /\ dTries = NULL /\ dSeen = NULL /\ dTold = NULL

StoresInit ==
  /\ part \in Parts
  /\ Init /\ Session!Init
  /\ IF part = "mongo" THEN Documents!Init ELSE NoDocuments
  /\ IF part = "watched" THEN Watch!Init ELSE NoWatch
  /\ IF part = "schema" THEN Startup!Init ELSE NoStartup

Rest == /\ UNCHANGED part
        /\ IF part = "circuit" THEN TRUE ELSE UNCHANGED vars
        /\ IF part = "session" THEN TRUE ELSE UNCHANGED sessionVars
        /\ IF part = "mongo" THEN TRUE ELSE UNCHANGED mongoVars
        /\ IF part = "watched" THEN TRUE ELSE UNCHANGED watchVars
        /\ IF part = "schema" THEN TRUE ELSE UNCHANGED startupVars

StoresNext == \/ part = "circuit" /\ Next /\ Rest
              \/ part = "session" /\ Session!Next /\ Rest
              \/ part = "mongo" /\ Documents!Next /\ Rest
              \/ part = "watched" /\ Watch!Next /\ Rest
              \/ part = "schema" /\ Startup!Next /\ Rest

storesVars == << part, vars, sessionVars, mongoVars, watchVars, startupVars >>
StoresSpec == StoresInit /\ [][StoresNext]_storesVars
-----------------------------------------------------------------------------
(* SQL: the writes on disk are those of scopes that ended well, and        *)
(* connections go back. (database/sql.py.)                                 *)
SessionSafe == Session!SessionSafe

(* MongoDB: references hold and no acknowledged document is lost, without  *)
(* transactions. (database/mongo.py.)                                      *)
StaysWhole == part = "mongo" => Documents!StaysWhole

(* Subscribers hear of each change once, with the rows before and after.   *)
(* (database/repository.py, database/subscribers.py.)                      *)
ToldRight == part = "watched" => Watch!ToldRight

(* A process that serves has the tables and columns it needs or has told   *)
(* what is missing, and bringing them up to date costs no data that was    *)
(* not meant to go. (database/sql.py.)                                     *)
SchemaRight == /\ [](part = "schema" => Startup!ReadyOrTold)
               /\ [][part = "schema" => Startup!KeepsData]_startupVars
=============================================================================
