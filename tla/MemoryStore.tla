----------------------------- MODULE MemoryStore ----------------------------
(***************************************************************************)
(* The in-memory database (memory.py). One copy of the tables, written in  *)
(* place; a request, and each transaction() block, keeps a copy from       *)
(* before its first write and puts it back when it fails. An operation     *)
(* runs without an await, so it is one step; between two steps any other   *)
(* task runs. Every entity has a column `key`, unique where UniqueOn says, *)
(* and a foreign key `ref` where Refs says.                                *)
(***************************************************************************)
EXTENDS Integers, FiniteSetsExt, SequencesExt

CONSTANTS NULL, Entities, Keys,
          Refs,         \* [child, parent, on_delete] in the order declared
          UniqueOn,     \* entities with a unique key
          Initial,      \* what the tables may hold at first
          Tasks, Kinds, \* Kinds: which of them are "request", "worker", "absent"
          MaxId, MaxOps, MaxDepth

VARIABLES tables,       \* entity -> id -> record or NULL
          counters,     \* entity -> last id given
          kind,         \* task -> what it is
          uow,          \* task -> copy taken by MemoryUnitOfWork, or NULL
          stack,        \* task -> copies of its open transaction() blocks
          lock,         \* the task in the outermost transaction(), or NULL
          failed,       \* task -> an exception is on its way out
          log,          \* history: task -> its writes that stand so far
          agreed,       \* history: the tables as the finished tasks meant them
          ops

vars == << tables, counters, kind, uow, stack, lock, failed, log, agreed, ops >>

Ids == 1..MaxId
Working(t) == kind[t] \in {"request", "worker"}

Init == /\ tables \in Initial /\ agreed = tables
        /\ counters = [e \in Entities |-> Cardinality({i \in Ids : tables[e][i] # NULL})]
        /\ kind \in Kinds
        /\ uow = [t \in Tasks |-> NULL] /\ stack = [t \in Tasks |-> << >>]
        /\ lock = NULL /\ failed = [t \in Tasks |-> FALSE]
        /\ log = [t \in Tasks |-> << >>] /\ ops = 0

-----------------------------------------------------------------------------
(* The operations, on given tables: what is left and whether it raised.    *)
Present(db, e) == {i \in Ids : db[e][i] # NULL}
RefOf(e) == SelectSeq(Refs, LAMBDA r : r.child = e)

(* _check_unique: NULL equals NULL here. *)
UniqueOk(db, e, id) ==
  e \in UniqueOn => \A i \in Present(db, e) \ {id} : db[e][i].key # db[e][id].key

(* _check_references: the parent exists. *)
ReferencesOk(db, e, id) ==
  \A k \in DOMAIN RefOf(e) : db[e][id].ref # NULL => db[RefOf(e)[k].parent][db[e][id].ref] # NULL

(* save: checked first, then written. *)
Saved(db, op) ==
  LET new == [db EXCEPT ![op.entity][op.id] = op.record]
      ok  == UniqueOk(new, op.entity, op.id) /\ ReferencesOk(new, op.entity, op.id)
  IN  [db |-> IF ok THEN new ELSE db, ok |-> ok]

(* update_one through _apply: written in place, then checked. *)
Updated(db, op) ==
  IF db[op.entity][op.id] = NULL THEN [db |-> db, ok |-> TRUE]
  ELSE LET new == [db EXCEPT ![op.entity][op.id] = op.record]
       IN  [db |-> new, ok |-> UniqueOk(new, op.entity, op.id) /\ ReferencesOk(new, op.entity, op.id)]

Without(db, e, ids) == [db EXCEPT ![e] = [i \in Ids |-> IF i \in ids THEN NULL ELSE @[i]]]

(* delete_where_ids and _cascade: each foreign key to the entity in turn,  *)
(* then the rows themselves. What was done before a RESTRICT raises stays. *)
RECURSIVE Deleted(_, _, _)
Deleted(db, e, ids) ==
  LET apply(acc, r) ==
        LET children == {i \in Present(acc.db, r.child) : acc.db[r.child][i].ref \in ids}
        IN  CASE ~acc.ok \/ r.parent # e \/ children = {} -> acc
              [] acc.ok /\ r.parent = e /\ children # {} /\ r.on_delete = "CASCADE" ->
                   Deleted(acc.db, r.child, children)
              [] acc.ok /\ r.parent = e /\ children # {} /\ r.on_delete = "SET NULL" ->
                   [acc EXCEPT !.db[r.child] =
                      [i \in Ids |-> IF i \in children THEN [@[i] EXCEPT !.ref = NULL] ELSE @[i]]]
              [] OTHER -> [acc EXCEPT !.ok = FALSE]
      below == FoldLeft(apply, [db |-> db, ok |-> TRUE], Refs)
  IN  IF below.ok THEN [below EXCEPT !.db = Without(@, e, ids)] ELSE below

Applied(db, op) == CASE op.what = "save"   -> Saved(db, op)
                     [] op.what = "update" -> Updated(db, op)
                     [] op.what = "delete" -> Deleted(db, op.entity, {op.id} \cap Present(db, op.entity))

(* _next_id: past the counter and past every id there is. *)
NextId(e) == Max({counters[e]} \cup Present(tables, e) \cup {0}) + 1

-----------------------------------------------------------------------------
(* One operation of a task. In a request the unit of work joins first.     *)
Operation(t, op) ==
  /\ Working(t) /\ ~failed[t] /\ ops < MaxOps
  /\ LET result == Applied(tables, op)
     IN  /\ tables' = result.db
         /\ failed' = [failed EXCEPT ![t] = ~result.ok]
         /\ log' = IF result.ok THEN [log EXCEPT ![t] = Append(@, op)] ELSE log
         /\ uow' = IF kind[t] = "request" /\ uow[t] = NULL
                   THEN [uow EXCEPT ![t] = tables] ELSE uow
  /\ ops' = ops + 1

Write(t) ==
  /\ stack[t] # << >> \/ kind[t] = "request"
  /\ \E e \in Entities, key \in Keys, ref \in Ids \cup {NULL} :
       LET record == [key |-> key, ref |-> ref]
           hasRef == RefOf(e) # << >>
       IN  /\ (~hasRef => ref = NULL) /\ (e \notin UniqueOn => key = NULL)
           /\ \/ /\ NextId(e) <= MaxId
                 /\ Operation(t, [what |-> "save", entity |-> e, id |-> NextId(e), record |-> record])
                 /\ counters' = [counters EXCEPT ![e] = IF failed'[t] THEN @ ELSE NextId(e)]
              \/ \E i \in Present(tables, e) :
                   /\ \/ \E what \in {"save", "update"} :
                           Operation(t, [what |-> what, entity |-> e, id |-> i, record |-> record])
                      \/ key = NULL /\ ref = NULL
                         /\ Operation(t, [what |-> "delete", entity |-> e, id |-> i, record |-> NULL])
                   /\ UNCHANGED counters
  /\ UNCHANGED << kind, stack, lock, agreed >>

-----------------------------------------------------------------------------
(* async with db.transaction(): the outermost block queues for the lock.   *)
Enter(t) ==
  /\ Working(t) /\ ~failed[t] /\ Len(stack[t]) < MaxDepth /\ ops < MaxOps
  /\ stack[t] = << >> => lock = NULL
  /\ lock' = t
  /\ stack' = [stack EXCEPT ![t] = Append(@, [tables |-> tables, kept |-> Len(log[t])])]
  /\ UNCHANGED << tables, counters, kind, uow, failed, log, agreed, ops >>

Redo(db, ops_) == FoldLeft(LAMBDA acc, op : Applied(acc, op).db, db, ops_)
(* Outside a request the outermost block decides; in one, the request does. *)
Decides(t) == kind[t] = "worker" /\ Len(stack[t]) = 1

Pop(t) ==
  /\ stack' = [stack EXCEPT ![t] = Front(@)]
  /\ lock' = IF Len(stack[t]) = 1 THEN NULL ELSE lock

(* The end of the block. *)
Leave(t) ==
  /\ stack[t] # << >> /\ ~failed[t]
  /\ Pop(t)
  /\ agreed' = IF Decides(t) THEN Redo(agreed, log[t]) ELSE agreed
  /\ log' = IF Decides(t) THEN [log EXCEPT ![t] = << >>] ELSE log
  /\ kind' = IF Decides(t) THEN [kind EXCEPT ![t] = "done"] ELSE kind
  /\ UNCHANGED << tables, counters, uow, failed, ops >>

(* Bug: the block is left without putting its copy back. *)
Abort_Keeps(t) ==
  /\ stack[t] # << >>
  /\ tables' = tables
  /\ log' = [log EXCEPT ![t] = SubSeq(@, 1, Last(stack[t]).kept)]
  /\ Pop(t)
  /\ failed' = [failed EXCEPT ![t] = @ /\ ~Decides(t)]
  /\ kind' = IF Decides(t) THEN [kind EXCEPT ![t] = "done"] ELSE kind
  /\ UNCHANGED << counters, uow, agreed, ops >>

(* tx.rollback() ends the block; any other exception goes on outwards.     *)
Abort(t) ==
  /\ stack[t] # << >>
  /\ tables' = Last(stack[t]).tables
  /\ log' = [log EXCEPT ![t] = SubSeq(@, 1, Last(stack[t]).kept)]
  /\ Pop(t)
  /\ failed' = [failed EXCEPT ![t] = @ /\ ~Decides(t)]
  /\ kind' = IF Decides(t) THEN [kind EXCEPT ![t] = "done"] ELSE kind
  /\ UNCHANGED << counters, uow, agreed, ops >>

(* on_request_end, with or without an error. *)
RequestEnd(t, error) ==
  /\ kind[t] = "request" /\ stack[t] = << >>
  /\ failed[t] => error
  /\ tables' = IF error /\ uow[t] # NULL THEN uow[t] ELSE tables
  /\ agreed' = IF error THEN agreed ELSE Redo(agreed, log[t])
  /\ kind' = [kind EXCEPT ![t] = "done"]
  /\ uow' = [uow EXCEPT ![t] = NULL]
  /\ failed' = [failed EXCEPT ![t] = FALSE]
  /\ log' = [log EXCEPT ![t] = << >>]
  /\ UNCHANGED << counters, stack, lock, ops >>

Next == \E t \in Tasks :
          \/ Write(t) \/ Enter(t) \/ Leave(t) \/ Abort(t)
          \/ RequestEnd(t, TRUE) \/ RequestEnd(t, FALSE)

Spec == Init /\ [][Next]_vars

-----------------------------------------------------------------------------
Quiet == \A t \in Tasks : kind[t] \in {"done", "absent"} \/ (stack[t] = << >> /\ uow[t] = NULL)

(* With nobody at work the tables hold what the tasks that ended well      *)
(* wrote, in the order they ended, and nothing of those that did not: a    *)
(* test on memory sees the rollback production would have.                 *)
CommittedStands == Quiet => tables = agreed

(* Unique keys and foreign keys hold, whatever was cascaded, refused or    *)
(* rolled back on the way.                                                 *)
Integrity == Quiet => \A e \in Entities : \A i \in Present(tables, e) :
                        UniqueOk(tables, e, i) /\ (\A k \in DOMAIN RefOf(e) :
                          tables[e][i].ref # NULL => tables[RefOf(e)[k].parent][tables[e][i].ref] # NULL)

Consistent == CommittedStands /\ Integrity
=============================================================================
