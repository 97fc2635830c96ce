----------------------------- MODULE SqlSession -----------------------------
(***************************************************************************)
(* Connections and transactions of the SQL backend. A request has one unit *)
(* of work that connects at its first statement; transaction() is a        *)
(* savepoint on it, or a connection of its own outside a request. Which    *)
(* connection a statement takes is read from context variables, which a    *)
(* task copies from the one that creates it: a listener of emit() runs in  *)
(* the request, one of dispatch() in a request of its own, a worker in     *)
(* none, and all of them inside the transaction() that was open.           *)
(***************************************************************************)
EXTENDS Integers, FiniteSetsExt, SequencesExt

CONSTANTS NULL, Tasks, Requests,   \* tasks; those that start as a request
          PoolSize,                \* connections open at once
          Listeners,               \* listeners of an emitted event
          SpawnInside,             \* may a task be created inside transaction()?
          MaxOps, MaxDepth

VARIABLES task,        \* task -> where it is and the context it runs in
          conns,       \* connections, in the order they were opened
          uow,         \* scope -> its connection, or NULL
          durable,     \* writes on disk
          outcome,     \* scope -> "open", "ok" or "error"
          meant,       \* history: scope -> writes that stand when it ends well
          ops          \* statements and blocks so far

vars == << task, conns, uow, durable, outcome, meant, ops >>

Absent == [pc |-> "absent", scope |-> NULL, tx |-> NULL, blocks |-> << >>, for |-> NULL, parent |-> NULL]

Init == /\ task = [t \in Tasks |-> Absent]
        /\ conns = << >> /\ uow = [s \in Tasks |-> NULL] /\ durable = {}
        /\ outcome = [s \in Tasks |-> "open"] /\ meant = [s \in Tasks |-> {}] /\ ops = 0

Open == {c \in DOMAIN conns : conns[c].open}
Runs(t) == task[t].pc = "run"
Close(c) == [conns EXCEPT ![c].open = FALSE]

-----------------------------------------------------------------------------
(* Tasks. *)
Start(t) ==
  /\ t \in Requests /\ task[t] = Absent
  /\ task' = [task EXCEPT ![t] = [@ EXCEPT !.pc = "run", !.scope = t]]
  /\ UNCHANGED << conns, uow, durable, outcome, meant, ops >>

MaySpawn(t) == Runs(t) /\ (SpawnInside \/ task[t].tx = NULL)
Idle == {c \in Tasks \ Requests : task[c] = Absent}
Child(t, scope) == [Absent EXCEPT !.pc = "run", !.scope = scope, !.tx = task[t].tx, !.parent = t]

(* emit(): the listeners run at once, in the caller's scope; it waits.     *)
Emit(t) ==
  /\ MaySpawn(t) /\ task[t].scope # NULL
  /\ \E cs \in kSubset(Listeners, Idle) :
       task' = [c \in Tasks |-> CASE c \in cs -> Child(t, task[t].scope)
                                  [] c = t    -> [task[t] EXCEPT !.pc = "emit"]
                                  [] OTHER    -> task[c]]
  /\ UNCHANGED << conns, uow, durable, outcome, meant, ops >>

Emitted(t) ==
  /\ task[t].pc = "emit"
  /\ \A c \in Tasks : task[c].parent = t /\ task[c].scope = task[t].scope => task[c].pc = "done"
  /\ task' = [task EXCEPT ![t].pc = "run"]
  /\ UNCHANGED << conns, uow, durable, outcome, meant, ops >>

(* dispatch(): a scope of its own. A worker: detach_request_scope().       *)
Spawn(t, scoped) ==
  /\ MaySpawn(t)
  /\ \E c \in Idle : task' = [task EXCEPT ![c] = Child(t, IF scoped THEN c ELSE NULL)]
  /\ UNCHANGED << conns, uow, durable, outcome, meant, ops >>

-----------------------------------------------------------------------------
(* Statements. _conn: the open transaction, else the connection of the     *)
(* request, else one for this statement alone.                             *)
ConnOf(t) == IF task[t].tx # NULL THEN task[t].tx
             ELSE IF task[t].scope # NULL THEN uow[task[t].scope] ELSE NULL

Note(t, w) == meant' = IF task[t].scope = NULL THEN meant
                       ELSE [meant EXCEPT ![task[t].scope] = @ \cup {w}]

Write(t) ==
  /\ Runs(t) /\ ops < MaxOps
  /\ ops' = ops + 1
  /\ LET c == ConnOf(t)
         w == << t, ops >>
     IN  \/ /\ c # NULL /\ c \in Open
            /\ conns' = [conns EXCEPT ![c].log = @ \cup {w}]
            /\ Note(t, w)
            /\ UNCHANGED << task, durable >>
         \/ /\ c # NULL /\ c \notin Open          \* raises: this connection is closed
            /\ UNCHANGED << task, conns, durable, meant >>
         \/ /\ c = NULL /\ task[t].scope = NULL   \* engine.begin()
            /\ Cardinality(Open) < PoolSize
            /\ durable' = durable \cup {w}
            /\ UNCHANGED << task, conns, meant >>
         \/ /\ c = NULL /\ task[t].scope # NULL
            /\ task' = [task EXCEPT ![t] = [@ EXCEPT !.pc = "connect", !.for = "write"]]
            /\ UNCHANGED << conns, durable, meant >>
  /\ UNCHANGED << uow, outcome >>

(* transaction(): a savepoint where there is a connection. *)
Block(t, c, own) == [conn |-> c, own |-> own, before |-> task[t].tx,
                     mark |-> IF own THEN {} ELSE conns[c].log]

Within(k, b) == [k EXCEPT !.tx = b.conn, !.blocks = Append(k.blocks, b)]

Enter(t) ==
  /\ Runs(t) /\ Len(task[t].blocks) < MaxDepth /\ ops < MaxOps
  /\ ops' = ops + 1
  /\ LET c == ConnOf(t)
     IN  \/ /\ c # NULL /\ c \in Open
            /\ task' = [task EXCEPT ![t] = Within(@, Block(t, c, FALSE))]
         \/ /\ c = NULL
            /\ task' = [task EXCEPT ![t] = [@ EXCEPT !.pc = "connect", !.for = "tx"]]
  /\ UNCHANGED << conns, uow, durable, outcome, meant >>

Closed(c) == Close(c)

(* engine.connect() returns: it is awaited between the test of the unit of *)
(* work and the assignment.                                                *)
Connected(t) ==
  /\ task[t].pc = "connect" /\ Cardinality(Open) < PoolSize
  /\ LET c == Len(conns) + 1
         w == << t, ops - 1 >>
         writing == task[t].for = "write"
         scope == task[t].scope
     IN  /\ conns' = Append(conns, [open |-> TRUE, log |-> IF writing THEN {w} ELSE {}])
         /\ uow' = IF scope = NULL THEN uow ELSE [uow EXCEPT ![scope] = c]
         /\ IF writing THEN Note(t, w) ELSE meant' = meant
         /\ LET k == [task[t] EXCEPT !.pc = "run", !.for = NULL]
                b == [conn |-> c, own |-> scope = NULL, before |-> NULL, mark |-> {}]
            IN  task' = [task EXCEPT ![t] = IF writing THEN k ELSE Within(k, b)]
  /\ UNCHANGED << durable, outcome, ops >>

(* The end of a block: RELEASE or COMMIT, ROLLBACK TO or ROLLBACK.         *)
Leave(t, rollback) ==
  /\ Runs(t) /\ task[t].blocks # << >>
  /\ LET b == Last(task[t].blocks)
         undone == conns[b.conn].log \ b.mark
     IN  /\ task' = [task EXCEPT ![t].tx = b.before, ![t].blocks = Front(@)]
         /\ conns' = CASE b.own -> Closed(b.conn)
                       [] ~b.own /\ rollback -> [conns EXCEPT ![b.conn].log = b.mark]
                       [] OTHER -> conns
         /\ durable' = IF b.own /\ ~rollback THEN durable \cup conns[b.conn].log ELSE durable
         /\ meant' = IF rollback THEN [s \in Tasks |-> IF s = task[t].scope THEN meant[s] \ undone ELSE meant[s]]
                     ELSE meant
  /\ UNCHANGED << uow, outcome, ops >>

-----------------------------------------------------------------------------
(* Bug: the request commits whether its handler raised or not. *)
Decide_Commit(t, error) == durable' = IF uow[t] = NULL THEN durable ELSE durable \cup conns[uow[t]].log

(* on_request_end: commit or roll back, and close. *)
Decide(t, error) == durable' = IF uow[t] = NULL \/ error THEN durable ELSE durable \cup conns[uow[t]].log

End(t, error) ==
  /\ Runs(t) /\ task[t].scope = t /\ task[t].blocks = << >>
  /\ Decide(t, error)
  /\ conns' = IF uow[t] = NULL THEN conns ELSE Closed(uow[t])
  /\ uow' = [uow EXCEPT ![t] = NULL]
  /\ outcome' = [outcome EXCEPT ![t] = IF error THEN "error" ELSE "ok"]
  /\ task' = [task EXCEPT ![t].pc = "done"]
  /\ UNCHANGED << meant, ops >>

(* A listener of emit() or a worker returns; its scope is not its own. *)
Return(t) ==
  /\ Runs(t) /\ task[t].scope # t /\ task[t].blocks = << >>
  /\ task' = [task EXCEPT ![t].pc = "done"]
  /\ UNCHANGED << conns, uow, durable, outcome, meant, ops >>

Next == \E t \in Tasks :
          \/ Start(t) \/ Emit(t) \/ Emitted(t) \/ Spawn(t, TRUE) \/ Spawn(t, FALSE)
          \/ Write(t) \/ Enter(t) \/ Connected(t)
          \/ Leave(t, TRUE) \/ Leave(t, FALSE)
          \/ End(t, TRUE) \/ End(t, FALSE) \/ Return(t)

(* Every task is run; a wait for the pool is over when there is room.      *)
Spec == /\ Init /\ [][Next]_vars
        /\ \A t \in Tasks : /\ WF_vars(Connected(t)) /\ WF_vars(Emitted(t))
                            /\ WF_vars(Leave(t, FALSE)) /\ WF_vars(End(t, FALSE)) /\ WF_vars(Return(t))

-----------------------------------------------------------------------------
(* What a request wrote is on disk when it ended well, all of it, and none *)
(* of it when it failed.                                                   *)
AllOrNothing ==
  \A s \in Tasks : /\ outcome[s] = "ok" => meant[s] \subseteq durable
                   /\ outcome[s] = "error" => meant[s] \cap durable = {}

(* When nobody works, every connection is back in the pool.                *)
PoolWhole == (\A t \in Tasks : task[t].pc \in {"absent", "done"}) => Open = {}

SessionSafe == AllOrNothing /\ PoolWhole

(* Whoever waits for a connection gets one, if tasks end.                  *)
GetsConnection == \A t \in Tasks : []<>(task[t].pc # "connect")
=============================================================================
