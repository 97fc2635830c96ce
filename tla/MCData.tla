------------------------------- MODULE MCData -------------------------------
(***************************************************************************)
(* infrastructure/database, checked side by side: the parts of Stores, the *)
(* memory store and the query builder. A behaviour is one of one part,     *)
(* which `part' names; the others stay where they began, or have no state  *)
(* at all.                                                                 *)
(***************************************************************************)
EXTENDS Stores, TLC

CONSTANTS MemoryOps, BuilderCalls, WhereParts  \* bounds: operations; calls of the builder; comparisons

INSTANCE Conditions

(* ---------------------------------------------------------- memory store *)
MemoryRefs == << [child |-> "item", parent |-> "user", on_delete |-> "CASCADE"],
                 [child |-> "note", parent |-> "item", on_delete |-> "SET NULL"],
                 [child |-> "badge", parent |-> "user", on_delete |-> "RESTRICT"] >>
MemoryRow(k, r) == << [key |-> k, ref |-> r], NULL >>
MemoryInitial == {[user |-> MemoryRow("k", NULL), item |-> MemoryRow(NULL, 1),
                   note |-> MemoryRow(NULL, 1), badge |-> b] : b \in {<< NULL, NULL >>, MemoryRow(NULL, 1)}}
VARIABLES mTables, mCounters, mKind, mUow, mStack, mLock, mFailed, mLog, mAgreed, mOps
memoryVars == << mTables, mCounters, mKind, mUow, mStack, mLock, mFailed, mLog, mAgreed, mOps >>
Memory == INSTANCE MemoryStore WITH
  Entities <- {"user", "item", "badge", "note"}, Keys <- {NULL, "k"}, UniqueOn <- {"user"},
  Refs <- MemoryRefs, Initial <- MemoryInitial, Tasks <- {"a", "b"},
  Kinds <- {[a |-> "worker", b |-> "worker"], [a |-> "request", b |-> "absent"]},
  MaxId <- 2, MaxOps <- MemoryOps, MaxDepth <- 2,
  tables <- mTables, counters <- mCounters, kind <- mKind, uow <- mUow, stack <- mStack,
  lock <- mLock, failed <- mFailed, log <- mLog, agreed <- mAgreed, ops <- mOps

(* ----------------------------- values for the constants of Stores, MongoDB *)
ChainOfRefs == [item  |-> [parent |-> "user", on_delete |-> "CASCADE"],
                note  |-> [parent |-> "item", on_delete |-> "SET NULL"],
                mark  |-> [parent |-> "item", on_delete |-> "CASCADE"],
                badge |-> [parent |-> "user", on_delete |-> "RESTRICT"]]
ChainOfChildren == [user |-> << "item", "badge" >>, item |-> << "note", "mark" >>,
                    note |-> << >>, mark |-> << >>, badge |-> << >>]
MongoDocs(u2, i2, b) ==
  LET leaf == << 1, IF i2 = ABSENT THEN ABSENT ELSE 2 >>
  IN  [user |-> << NULL, u2 >>, item |-> << 1, i2 >>, badge |-> << b, ABSENT >>, note |-> leaf, mark |-> leaf]
FewDocs == {MongoDocs(u2, i2, b) : u2 \in {NULL, ABSENT}, i2 \in {1, ABSENT}, b \in {1, ABSENT}}
SaversOrDeleter == {[a |-> "saver", b |-> "saver"], [a |-> "deleter", b |-> "absent"]}

(* ------------------------------------------------------------- subscribers *)
TwoKinds == [item |-> "CASCADE", note |-> "SET NULL"]
WatchedRows == {<< << >>, << >> >>, << << 0 >>, << >> >>, << << 1 >>, << 1 >> >>}
FewRows == {[user |-> << << 0 >>, << >> >>, item |-> i, note |-> << << 0 >>, << >> >>] : i \in WatchedRows}

(* ---------------------------------------------------------------- schema *)
(* One process creates the tables of an older version, two of the next one *)
(* bring them up to date; what they find may be from before.               *)
NoFk == [x \in {} |-> ""]
Table(columns, fks, indexes) == [columns |-> columns, fks |-> fks, indexes |-> indexes]
NewTables == [users |-> Table([id |-> "int", mail |-> "text", age |-> "int"], NoFk, {"uq"}),
              items |-> Table([id |-> "int", user |-> "int"], [user |-> "CASCADE"], {"ix"})]
Versions == [old  |-> [users |-> Table([id |-> "int", mail |-> "text"], NoFk, {"uq"})],
             new  |-> NewTables, new2 |-> NewTables]
OldCreates == [old |-> "create", new |-> "sync", new2 |-> "sync"]
Found(tables, doubled) == [tables |-> tables, indexes |-> {}, doubled |-> doubled]
Databases == {Found(NoFk, {})} \cup
  {Found([users |-> [columns |-> [id |-> "int", mail |-> m, old |-> "int"], fks |-> NoFk],
          items |-> [columns |-> [id |-> "int"] @@ u, fks |-> f]], {<< "users", "uq" >>}) :
     m \in {"text", "int"}, u \in {NoFk, [user |-> "int"]}, f \in {NoFk, [user |-> "RESTRICT"]}}

(* ----------------------------------------------------------- where and or *)
tN == Column("t", "n")
tM == Column("t", "m")
tS == Column("t", "s")
WhereRows == [n : {NULL, 1, 2}, m : {NULL, 1}, s : {NULL, "An", "an"}]
Leaves ==
  {Compare(tN, op, Literal(1)) : op \in {"eq", "ne", "gt", "gte", "lt", "lte"}}
  \cup {Compare(tN, op, tM) : op \in {"eq", "ne", "gt", "lt"}}
  \cup {Compare(tN, op, Literal(v)) : op \in {"in", "nin"}, v \in {{}, {1}, {NULL, 1}}}
  \cup {Compare(tS, op, Literal({"An"})) : op \in {"like", "ilike"}}
  \cup {Compare(tN, "between", Literal(<< 2, 3 >>)), Compare(tN, "eq", Literal(NULL))}
  \cup {Equals(tM, NULL), Differs(tM, NULL)}
FewLeaves == {Compare(tN, "eq", Literal(1)), Compare(tN, "ne", Literal(1)), Compare(tN, "lt", tM),
              Compare(tS, "ilike", Literal({"An"})), Equals(tM, NULL)}
VARIABLES fBranches, fRow
filterVars == << fBranches, fRow >>
Filter == INSTANCE Where WITH
  Rows <- WhereRows, Leaves <- Leaves, Few <- FewLeaves, MaxParts <- WhereParts,
  branches <- fBranches, row <- fRow

(* --------------------------------------- select, join, group, order, page *)
Event(i, c, n) == [id |-> i, camera |-> c, n |-> n]
Camera(i, p) == [id |-> i, parent |-> p]
SelectStores == {[event |-> << Event(1, NULL, n), Event(2, c, 1), Event(3, 9, 2) >>,
                  camera |-> << Camera(1, NULL), Camera(2, p) >>] : c \in {1, 2}, n \in {NULL, 1}, p \in {NULL, 1}}
SelectReferences == {[owner |-> "event", field |-> "camera", target |-> "camera", column |-> "id"],
                     [owner |-> "camera", field |-> "parent", target |-> "camera", column |-> "id"]}
ofCamera == Column("event", "camera")
eventN == Column("event", "n")
cameraId == Column("camera", "id")
parent == Column("camera", "parent")
Count == Aggregate("count", NULL, FALSE)
VARIABLES qStore, qSpec, qCalls
queryVars == << qStore, qSpec, qCalls >>
Query == INSTANCE Select WITH
  Stores <- SelectStores, References <- SelectReferences, JoinKinds <- {"inner", "left", "right", "outer"},
  Wheres <- {Compare(eventN, "gt", Literal(1)), Compare(parent, "isnull", Literal(TRUE)),
             Compare(cameraId, "eq", ofCamera)},
  GroupColumns <- {ofCamera, parent},
  Havings <- {Compare(Count, "gt", Literal(1)), Compare(Aggregate("max", eventN, FALSE), "lt", Literal(2))},
  Selections <- {"c" :> ofCamera, "p" :> parent, "c" :> ofCamera @@ "k" :> Count,
                 "k" :> Aggregate("count", eventN, FALSE) @@ "s" :> Aggregate("sum", eventN, TRUE),
                 "k" :> Aggregate("min", eventN, FALSE)},
  OrderItems <- {[column |-> ofCamera, descending |-> FALSE], [column |-> eventN, descending |-> TRUE],
                 [column |-> Count, descending |-> TRUE]},
  MaxJoins <- 1, MaxCalls <- BuilderCalls,
  store <- qStore, spec <- qSpec, calls <- qCalls

(* ------------------------------------------------------ include and nest *)
Rec(i, u) == [id |-> i, up |-> u]
ChainStores == {[zone |-> << Rec(1, NULL), Rec(2, NULL) >>,
                 camera |-> << Rec(1, 2), Rec(2, u), Rec(3, 1) >>,
                 event |-> << Rec(1, 2), Rec(2, v), Rec(3, w) >>] : << u, v, w >> \in {<< NULL, 2, 3 >>, << 1, 1, 1 >>}}
VARIABLES nStore, nRoot, nIncludes, nNest, nSelects, nOrders, nLimit, nPc, nRun, nGot, nGiven,
          nRuns, nTouched, nWrites
nestVars == << nStore, nRoot, nIncludes, nNest, nSelects, nOrders, nLimit, nPc, nRun, nGot,
               nGiven, nRuns, nTouched, nWrites >>
Nest == INSTANCE Nesting WITH
  Stores <- ChainStores,
  References <- {[owner |-> "event", target |-> "camera"], [owner |-> "camera", target |-> "zone"]},
  Chains <- {<< "camera" >>, << "zone", "camera" >>, << "event" >>, << "zone", "camera", "event" >>,
             << "event", "camera" >>, << "zone" >>},
  Selections <- {{"id"}, {"up"}}, IN_CHUNK <- 2, MaxRuns <- 1, MaxWrites <- 1,
  store <- nStore, root <- nRoot, includes <- nIncludes, nest <- nNest, selects <- nSelects,
  orders <- nOrders, limit <- nLimit, pc <- nPc, run <- nRun, got <- nGot, given <- nGiven,
  runs <- nRuns, touched <- nTouched, writes <- nWrites

(* ----------------------------------------------------------- composition *)
NoMemory ==
  /\ mTables = NULL /\ mCounters = NULL /\ mKind = NULL /\ mUow = NULL /\ mStack = NULL
  /\ mLock = NULL /\ mFailed = NULL /\ mLog = NULL /\ mAgreed = NULL /\ mOps = NULL
NoFilter ==
  /\ fBranches = NULL /\ fRow = NULL
NoQuery ==
  /\ qStore = NULL /\ qSpec = NULL /\ qCalls = NULL
NoNest ==
  /\ nStore = NULL /\ nRoot = NULL /\ nIncludes = NULL /\ nNest = NULL /\ nSelects = NULL
  /\ nOrders = NULL /\ nLimit = NULL /\ nPc = NULL /\ nRun = NULL /\ nGot = NULL /\ nGiven = NULL
  /\ nRuns = NULL /\ nTouched = NULL /\ nWrites = NULL

DataInit ==
  /\ StoresInit
  /\ IF part = "memory" THEN Memory!Init ELSE NoMemory
  /\ IF part = "where" THEN Filter!Init ELSE NoFilter
  /\ IF part = "select" THEN Query!Init ELSE NoQuery
  /\ IF part = "nesting" THEN Nest!Init ELSE NoNest

Others == /\ UNCHANGED storesVars
          /\ IF part = "memory" THEN TRUE ELSE UNCHANGED memoryVars
          /\ IF part = "where" THEN TRUE ELSE UNCHANGED filterVars
          /\ IF part = "select" THEN TRUE ELSE UNCHANGED queryVars
          /\ IF part = "nesting" THEN TRUE ELSE UNCHANGED nestVars

DataNext == \/ StoresNext /\ UNCHANGED << memoryVars, filterVars, queryVars, nestVars >>
            \/ part = "memory" /\ Memory!Next /\ Others
            \/ part = "where" /\ Filter!Next /\ Others
            \/ part = "select" /\ Query!Next /\ Others
            \/ part = "nesting" /\ Nest!Next /\ Others

dataVars == << storesVars, memoryVars, filterVars, queryVars, nestVars >>
DataSpec == DataInit /\ [][DataNext]_dataVars

(* The clock runs and calls begin from the start: their fairness is bound  *)
(* to their part.                                                          *)
DataFairSpec ==
  /\ DataSpec
  /\ WF_vars(part = "circuit" /\ Tick)
  /\ \A c \in Calls : /\ WF_vars(part = "circuit" /\ Begin(c)) /\ WF_vars(TimedOut(c))
                      /\ WF_vars(call[c] = "sent" /\ Answered(c))
                      /\ SF_vars(call[c] = "sent" /\ Succeeds(c))
  /\ \A t \in SessionTasks :
       /\ WF_sessionVars(Session!Connected(t)) /\ WF_sessionVars(Session!Emitted(t))
       /\ WF_sessionVars(Session!Leave(t, FALSE)) /\ WF_sessionVars(Session!End(t, FALSE))
       /\ WF_sessionVars(Session!Return(t))
-----------------------------------------------------------------------------
(* The memory store: what the tasks wrote is there as they left it, and    *)
(* keys and references hold. (database/memory.py.)                         *)
Consistent == part = "memory" => Memory!Consistent

(* A filter without NULL keeps the same rows in memory, in SQL and in      *)
(* MongoDB, those that it means. (query.py evaluate, sql.py, mongo.py.)    *)
BackendsAgree == part = "where" => Filter!BackendsAgree

(* A query with joins, groups and pages has the rows in memory that SQL    *)
(* would give. (query.py 670-1283, memory.py 211-300, sql.py _compile.)    *)
SelectAgrees == part = "select" => Query!SelectAgrees

(* Nested rows are all there, each under its own. (query.py 1250-1500.)    *)
NestedWhole == part = "nesting" => Nest!NestedWhole

(* Every call of the database ends, the circuit closes again, and whoever  *)
(* waits for a connection of the pool gets one.                            *)
DataLives == EveryCallEnds /\ Recovers /\ Session!GetsConnection
=============================================================================
