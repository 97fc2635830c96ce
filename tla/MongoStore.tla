----------------------------- MODULE MongoStore -----------------------------
(***************************************************************************)
(* Writes to MongoDB, which has no foreign keys and here no transactions:  *)
(* mongo.py looks parents up before a save and walks the children before a *)
(* delete, one command at a time. Each command is a step; the process may  *)
(* die between two of them, and other tasks run there. What one command    *)
(* does is atomic, as the server has it.                                   *)
(***************************************************************************)
EXTENDS Integers, FiniteSetsExt, SequencesExt

CONSTANTS NULL, Entities,
          Refs,         \* entity with a foreign key -> [parent, on_delete]
          Children,     \* entity -> the entities with a key to it, as declared
          Initial,      \* collections: entity -> id -> ref, NULL or ABSENT
          ABSENT,
          Tasks, Modes, \* Modes: task -> "saver" or "deleter" or "absent"
          MaxId, MaxCalls

VARIABLES docs,         \* entity -> id -> the foreign key, or ABSENT
          counter,      \* entity -> seq of _fam_counters
          mode,
          todo,         \* task -> commands it still has to send
          call,         \* task -> what it was called with, NULL between calls
          saved,        \* history: entity -> id -> key an acknowledged new save gave it
          calls

vars == << docs, counter, mode, todo, call, saved, calls >>

Ids == 1..MaxId
HasRef(e) == e \in DOMAIN Refs
Alive(e) == {i \in Ids : docs[e][i] # ABSENT}

Init == /\ docs \in Initial
        /\ counter = [e \in Entities |-> 0]
        /\ mode \in Modes
        /\ todo = [t \in Tasks |-> << >>] /\ call = [t \in Tasks |-> NULL]
        /\ saved = [e \in Entities |-> [i \in Ids |-> ABSENT]] /\ calls = 0

Answer(t) == /\ call' = [call EXCEPT ![t] = NULL]
             /\ todo' = [todo EXCEPT ![t] = << >>]

-----------------------------------------------------------------------------
(* save(obj), with an id of the caller's or none: the parent is looked up, *)
(* a number drawn, the document inserted or replaced.                      *)
Save(t, e, id, ref) ==
  /\ mode[t] = "saver" /\ call[t] = NULL /\ calls < MaxCalls
  /\ ~ HasRef(e) => ref = NULL
  /\ calls' = calls + 1
  /\ call' = [call EXCEPT ![t] = [entity |-> e, id |-> id, ref |-> ref]]
  /\ todo' = [todo EXCEPT ![t] = (IF ref = NULL THEN << >> ELSE << [cmd |-> "check"] >>)
                 \o (IF id = NULL THEN << [cmd |-> "number"], [cmd |-> "insert"] >>
                                  ELSE << [cmd |-> "replace"] >>)]
  /\ UNCHANGED << docs, counter, mode, saved >>

Next1(t, cmd) == call[t] # NULL /\ todo[t] # << >> /\ Head(todo[t]).cmd = cmd
Pop(t) == todo' = [todo EXCEPT ![t] = Tail(@)] /\ call' = call

(* _check_references: ConflictError ends the call. *)
CheckParent(t) ==
  /\ Next1(t, "check")
  /\ IF docs[Refs[call[t].entity].parent][call[t].ref] # ABSENT THEN Pop(t) ELSE Answer(t)
  /\ UNCHANGED << docs, counter, mode, saved, calls >>

(* _next_id: $inc in one command. *)
Number(t) ==
  /\ Next1(t, "number") /\ counter[call[t].entity] < MaxId
  /\ LET e == call[t].entity
     IN  /\ counter' = [counter EXCEPT ![e] = @ + 1]
         /\ call' = [call EXCEPT ![t].id = counter[e] + 1]
  /\ todo' = [todo EXCEPT ![t] = Tail(@)]
  /\ UNCHANGED << docs, mode, saved, calls >>

(* insert_one refuses an id in use. *)
Insert(t) ==
  /\ Next1(t, "insert")
  /\ LET c == call[t]
         free == docs[c.entity][c.id] = ABSENT
     IN  /\ docs' = IF free THEN [docs EXCEPT ![c.entity][c.id] = c.ref] ELSE docs
         /\ saved' = IF free THEN [saved EXCEPT ![c.entity][c.id] = c.ref] ELSE saved
  /\ Answer(t)
  /\ UNCHANGED << counter, mode, calls >>

(* replace_one with upsert: what the caller named is his to replace.       *)
Replace(t) ==
  /\ Next1(t, "replace")
  /\ docs' = [docs EXCEPT ![call[t].entity][call[t].id] = call[t].ref]
  /\ saved' = [saved EXCEPT ![call[t].entity][call[t].id] = ABSENT]
  /\ Answer(t)
  /\ UNCHANGED << counter, mode, calls >>

-----------------------------------------------------------------------------
(* delete(entity, id): _cascade, then the document.                        *)
Cascade(e, ids) ==
  [k \in DOMAIN Children[e] |->
     [cmd |-> Refs[Children[e][k]].on_delete, child |-> Children[e][k], ids |-> ids]]

Delete(t, e, id) ==
  /\ mode[t] = "deleter" /\ call[t] = NULL /\ calls < MaxCalls
  /\ calls' = calls + 1
  /\ call' = [call EXCEPT ![t] = [entity |-> e, id |-> id, ref |-> NULL]]
  /\ todo' = [todo EXCEPT ![t] = Cascade(e, {id}) \o << [cmd |-> "remove", child |-> e, ids |-> {id}] >>]
  /\ UNCHANGED << docs, counter, mode, saved >>

Of(c) == {i \in Ids : docs[c.child][i] \in c.ids}
Without(e, ids) == docs' = [docs EXCEPT ![e] = [i \in Ids |-> IF i \in ids THEN ABSENT ELSE @[i]]]

(* Bug: the children go before their own children are looked for. *)
FindChildren_First(t) ==
  /\ Next1(t, "CASCADE")
  /\ LET c == Head(todo[t])
     IN  todo' = [todo EXCEPT ![t] = << [c EXCEPT !.cmd = "drop"] >> \o Cascade(c.child, Of(c)) \o Tail(@)]
  /\ UNCHANGED << docs, counter, mode, call, saved, calls >>

(* CASCADE: the children's ids, then their children, then the children.    *)
FindChildren(t) ==
  /\ Next1(t, "CASCADE")
  /\ LET c == Head(todo[t])
     IN  todo' = [todo EXCEPT ![t] =
           IF Of(c) = {} THEN Tail(@)
           ELSE Cascade(c.child, Of(c)) \o << [c EXCEPT !.cmd = "drop"] >> \o Tail(@)]
  /\ UNCHANGED << docs, counter, mode, call, saved, calls >>

DropChildren(t) ==
  /\ Next1(t, "drop")
  /\ Without(Head(todo[t]).child, Of(Head(todo[t])))
  /\ Pop(t)
  /\ UNCHANGED << counter, mode, saved, calls >>

SetNull(t) ==
  /\ Next1(t, "SET NULL")
  /\ LET c == Head(todo[t])
     IN  docs' = [docs EXCEPT ![c.child] = [i \in Ids |-> IF i \in Of(c) THEN NULL ELSE @[i]]]
  /\ Pop(t)
  /\ UNCHANGED << counter, mode, saved, calls >>

(* RESTRICT: a child that is left ends the call with ConflictError.        *)
RestrictChildren(t) ==
  /\ Next1(t, "RESTRICT")
  /\ IF Of(Head(todo[t])) = {} THEN Pop(t) ELSE Answer(t)
  /\ UNCHANGED << docs, counter, mode, saved, calls >>

RemoveParent(t) ==
  /\ Next1(t, "remove")
  /\ Without(call[t].entity, {call[t].id})
  /\ Answer(t)
  /\ UNCHANGED << counter, mode, saved, calls >>

(* The process dies; what it had not sent is never sent.                   *)
Crash == /\ \E t \in Tasks : call[t] # NULL
         /\ call' = [t \in Tasks |-> NULL] /\ todo' = [t \in Tasks |-> << >>]
         /\ UNCHANGED << docs, counter, mode, saved, calls >>

Next == \/ \E t \in Tasks, e \in Entities :
             \/ \E id \in Ids \cup {NULL}, ref \in Ids \cup {NULL} : Save(t, e, id, ref)
             \/ \E id \in Alive(e) : Delete(t, e, id)
        \/ \E t \in Tasks : \/ CheckParent(t) \/ Number(t) \/ Insert(t) \/ Replace(t)
                            \/ FindChildren(t) \/ DropChildren(t) \/ SetNull(t) \/ RestrictChildren(t) \/ RemoveParent(t)
        \/ Crash

Spec == Init /\ [][Next]_vars

-----------------------------------------------------------------------------
(* No document points to one that is not there: not half way through a     *)
(* delete, not after the process died in it, not after a refusal.          *)
NoDangling ==
  \A e \in DOMAIN Refs : \A i \in Alive(e) :
    docs[e][i] # NULL => docs[Refs[e].parent][docs[e][i]] # ABSENT

(* A new document that was acknowledged is as it was saved until someone   *)
(* names its id: a number drawn twice or taken by hand does not overwrite it. *)
NewStays == (\A t \in Tasks : mode[t] # "deleter") =>
  \A e \in Entities : \A i \in Ids : saved[e][i] # ABSENT => docs[e][i] = saved[e][i]

StaysWhole == NoDangling /\ NewStays
=============================================================================
