------------------------------ MODULE Watched ------------------------------
(***************************************************************************)
(* Entity subscribers: repository.py reads the row before a write, calls   *)
(* the before hooks, writes, calls the after hooks, and for a delete tells *)
(* of the children that on_delete took along, read before it. Every one of *)
(* these is awaited; other tasks write in between, and a hook may raise.   *)
(***************************************************************************)
EXTENDS Integers, FiniteSets, SequencesExt

CONSTANTS NULL, Tasks,
          Ids, Values,
          OnDelete,     \* children of "user": entity -> "CASCADE" or "SET NULL"
          Heard,        \* entities with a subscriber
          HookFails,    \* hooks that may raise
          Initial,      \* tables: entity -> id -> << >> or << value >>
          MaxOps

VARIABLES rows,         \* entity -> id -> << >> (no such row) or << value >>
          op,           \* task -> the repository call it is in, or NULL
          ops

vars == << rows, op, ops >>
Entities == {"user"} \cup DOMAIN OnDelete

(* A child's value is the id of its user, or NoUser. *)
NoUser == 0

Init == rows \in Initial /\ op = [t \in Tasks |-> NULL] /\ ops = 0

Set(t, r) == op' = [op EXCEPT ![t] = r]
At(t, step) == op[t] # NULL /\ op[t].step = step
Event(hook, e, i, before, after) == [hook |-> hook, entity |-> e, id |-> i, before |-> before, after |-> after]

-----------------------------------------------------------------------------
(* A call of save (no id is an insert), update or delete; one without a    *)
(* subscriber goes straight to the backend.                                *)
Begin(t, kind, e, i, v) ==
  /\ op[t] = NULL /\ ops < MaxOps
  /\ kind = "delete" => e = "user"
  /\ (e # "user") => v \in Ids \cup {NoUser}
  /\ ops' = ops + 1
  /\ Set(t, [kind |-> kind, entity |-> e, id |-> i, value |-> v, before |-> << >>, kids |-> << >>,
             told |-> << >>, effects |-> {}, alone |-> TRUE, failed |-> FALSE,
             step |-> CASE kind = "delete" -> "children"
                        [] kind # "delete" /\ e \notin Heard -> "write"
                        [] kind = "insert" /\ e \in Heard -> "before"
                        [] OTHER -> "image"])
  /\ UNCHANGED rows

(* Bug: the children are read when the parent is gone. *)
ReadChildren_Late(t) ==
  /\ At(t, "children")
  /\ Set(t, [op[t] EXCEPT !.step = IF "user" \in Heard THEN "image" ELSE "write"])
  /\ UNCHANGED << rows, ops >>

(* _children_to_report: those whose entity has a subscriber.               *)
ReadChildren(t) ==
  /\ At(t, "children")
  /\ LET kids == {k \in (DOMAIN OnDelete \cap Heard) \X Ids : rows[k[1]][k[2]] = << op[t].id >>}
         told(k) == Event(IF OnDelete[k[1]] = "CASCADE" THEN "after_remove" ELSE "after_update",
                          k[1], k[2], << op[t].id >>,
                          IF OnDelete[k[1]] = "CASCADE" THEN << >> ELSE << NoUser >>)
     IN  Set(t, [op[t] EXCEPT !.kids = SetToSeq({told(k) : k \in kids}),
                    !.step = IF "user" \in Heard \/ kids # {} THEN "image" ELSE "write"])
  /\ UNCHANGED << rows, ops >>

(* _before_image; update and delete of a row that is not there end here.   *)
ReadBefore(t) ==
  /\ At(t, "image")
  /\ LET before == rows[op[t].entity][op[t].id]
     IN  Set(t, [op[t] EXCEPT !.before = before,
                    !.step = IF before = << >> /\ op[t].kind # "save" THEN "done" ELSE "before"])
  /\ UNCHANGED << rows, ops >>

BeforeHook(t) ==
  /\ At(t, "before")
  /\ \/ Set(t, [op[t] EXCEPT !.step = "write"])
     \/ "before" \in HookFails /\ Set(t, [op[t] EXCEPT !.step = "done", !.failed = TRUE])
  /\ UNCHANGED << rows, ops >>

-----------------------------------------------------------------------------
(* What the backend does in one go: the rows after the write.              *)
After(kind, e, i, v) ==
  [f \in Entities |-> [j \in Ids |->
     IF f = e /\ j = i
     THEN CASE kind = "delete" -> << >>
            [] kind = "update" -> (IF rows[e][i] = << >> THEN << >> ELSE << v >>)
            [] OTHER -> << v >>
     ELSE IF kind = "delete" /\ f # "user" /\ rows["user"][i] # << >> /\ rows[f][j] = << i >>
     THEN (IF OnDelete[f] = "CASCADE" THEN << >> ELSE << NoUser >>)
     ELSE rows[f][j]]]

(* The foreign key is checked, or the write is refused.                    *)
Allowed(e, v) == e # "user" /\ v # NoUser => rows["user"][v] # << >>

(* The row it writes; every row it changes, and its own though it stays.   *)
Written(o) == IF o.kind = "insert" THEN CHOOSE j \in Ids : rows[o.entity][j] = << >> ELSE o.id
RowsAfter(o) == After(o.kind, o.entity, Written(o), o.value)
Effects(o) ==
  {d \in {Event("", f, j, rows[f][j], RowsAfter(o)[f][j]) : f \in Entities, j \in Ids} :
     d.before # d.after \/ (d.entity = o.entity /\ d.id = Written(o) /\ d.after # << >>)}
Wrote(o) ==
  [o EXCEPT !.id = Written(o), !.effects = Effects(o),
     !.step = IF (o.entity \in Heard \/ o.kids # << >>) /\ Effects(o) # {} THEN "after" ELSE "done"]

Write(t) ==
  /\ At(t, "write")
  /\ LET o == op[t]
     IN  /\ o.kind = "insert" => \E j \in Ids : rows[o.entity][j] = << >>
         /\ IF o.kind # "delete" /\ ~ Allowed(o.entity, o.value)
            THEN Set(t, [o EXCEPT !.step = "done", !.failed = TRUE]) /\ UNCHANGED rows
            ELSE /\ rows' = RowsAfter(o)
                 /\ op' = [u \in Tasks |->
                      IF u = t THEN Wrote(o)
                      ELSE IF op[u] # NULL /\ op[u].step # "done" /\ RowsAfter(o) # rows
                           THEN [op[u] EXCEPT !.alone = FALSE] ELSE op[u]]
  /\ UNCHANGED ops

(* The after hooks of the row, if its entity has a subscriber, then those  *)
(* of its children one by one.                                             *)
AfterHook(t) ==
  /\ At(t, "after")
  /\ LET o == op[t]
         hook == CASE o.kind = "delete" -> "after_remove" [] o.kind = "insert" -> "after_insert"
                   [] OTHER -> "after_update"
         own == Event(hook, o.entity, o.id, o.before, IF o.kind = "delete" THEN << >> ELSE << o.value >>)
         told == IF o.entity \in Heard THEN Append(o.told, own) ELSE o.told
     IN  \/ Set(t, [o EXCEPT !.told = told, !.step = IF o.kids = << >> THEN "done" ELSE "kids"])
         \/ "after" \in HookFails /\ Set(t, [o EXCEPT !.told = told, !.step = "done", !.failed = TRUE])
  /\ UNCHANGED << rows, ops >>

ReportCascade(t) ==
  /\ At(t, "kids")
  /\ LET o == op[t]
         told == Append(o.told, Head(o.kids))
     IN  \/ Set(t, [o EXCEPT !.told = told, !.kids = Tail(@), !.step = IF Len(o.kids) = 1 THEN "done" ELSE @])
         \/ "after" \in HookFails /\ Set(t, [o EXCEPT !.told = told, !.step = "done", !.failed = TRUE])
  /\ UNCHANGED << rows, ops >>

Return(t) == At(t, "done") /\ Set(t, NULL) /\ UNCHANGED << rows, ops >>

Next == \E t \in Tasks :
          \/ \E e \in Entities, i \in Ids, v \in Values : \E kind \in {"insert", "save", "update", "delete"} :
               Begin(t, kind, e, i, v)
          \/ ReadChildren(t) \/ ReadBefore(t) \/ BeforeHook(t) \/ Write(t)
          \/ AfterHook(t) \/ ReportCascade(t) \/ Return(t)

Spec == Init /\ [][Next]_vars

-----------------------------------------------------------------------------
(* What a finished call told its subscribers. *)
Told(t) == {[e EXCEPT !.hook = ""] : e \in ToSet(op[t].told)}
Ought(t) == {e \in op[t].effects : e.entity \in Heard}

(* When nobody wrote during the call, the subscribers were told of what it *)
(* changed: each row they listen to, a child too, once, as it was before   *)
(* and after, and of nothing else.                                         *)
ToldAll == \A t \in Tasks : At(t, "done") /\ op[t].alone /\ ~ op[t].failed =>
  Told(t) = Ought(t) /\ Len(op[t].told) = Cardinality(Told(t))

(* Nobody is told of a write that did not happen: a hook that stops it, a  *)
(* row that is gone, a refused key.                                        *)
ToldOnlyDone == \A t \in Tasks : op[t] # NULL /\ op[t].told # << >> => op[t].effects # {}

(* The row itself is told of with what was written, whoever else wrote.    *)
ToldTruly == \A t \in Tasks : At(t, "done") /\ ~ op[t].failed /\ op[t].entity \in Heard =>
  \A e \in op[t].effects : e.entity = op[t].entity =>
    \E k \in DOMAIN op[t].told : op[t].told[k].id = e.id /\ op[t].told[k].after = e.after

ToldRight == ToldAll /\ ToldOnlyDone /\ ToldTruly

(* A deleted user's children are all told of, each of them.                *)
EveryChildTold == \A t \in Tasks : At(t, "done") /\ ~ op[t].failed => Ought(t) \subseteq Told(t)
=============================================================================
