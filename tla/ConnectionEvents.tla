--------------------------- MODULE ConnectionEvents ---------------------------
(***************************************************************************)
(* core/connection.py: ConnectionEvents, which turns the signs of life of  *)
(* one infrastructure (mark_connected, mark_disconnected, called whenever  *)
(* the infrastructure notices something) into calls of the handlers that   *)
(* the application declared, one change of state after the other.          *)
(*                                                                         *)
(* A change is known by its number.  The infrastructures differ in one     *)
(* thing: RabbitMQ, MQTT and Kafka end their connection loop before they   *)
(* call close(), whereas a Redis client still carries out commands, and    *)
(* every command that succeeds calls mark_connected.                       *)
(***************************************************************************)
EXTENDS Naturals, Sequences

CONSTANTS OnConnect,          \* number of on_connect handlers
          OnDisconnect,       \* number of on_disconnect handlers
          MarksWhileClosing,  \* the infrastructure is Redis
          MaxChanges,         \* bound: changes of state
          MaxAborts           \* bound: handlers that end in CancelledError

ASSUME EventsAssumption == /\ OnConnect \in Nat /\ OnDisconnect \in Nat
                           /\ MarksWhileClosing \in BOOLEAN
                           /\ MaxChanges \in Nat /\ MaxAborts \in Nat

VARIABLES connected,  \* _connected
          changes,    \* changes of state so far
          queue,      \* _queue: changes with handlers to call
          task,       \* _task, which runs _drain
          current,    \* the change whose handlers _drain is calling
          hook,       \* which of these handlers
          last,       \* the latest change whose handlers were called
          phase,      \* "open"; "joining" and "closed": close()
          aborts      \* handlers that ended in CancelledError so far

vars == <<connected, changes, queue, task, current, hook, last, phase, aborts>>

Events == {"connect", "disconnect"}
Change == [event : Events, number : 1..MaxChanges]
NoChange == [event |-> "disconnect", number |-> 0]

Hooks(event) == IF event = "connect" THEN OnConnect ELSE OnDisconnect

TypeOK == /\ connected \in BOOLEAN
          /\ changes \in 0..MaxChanges
          /\ queue \in Seq(Change)
          /\ task \in {"none", "waiting", "handling", "dead"}
          /\ current \in Change \cup {NoChange}
          /\ hook \in 0..Hooks(current.event)
          /\ last \in Change \cup {NoChange}
          /\ phase \in {"open", "joining", "closed"}
          /\ aborts \in 0..MaxAborts

Init == /\ connected = FALSE /\ changes = 0
        /\ queue = <<>> /\ task = "none"
        /\ current = NoChange /\ hook = 0 /\ last = NoChange
        /\ phase = "open" /\ aborts = 0

(* Bug: the newest change is handled first.                                *)
Enqueue_InFront(change) ==
  IF Hooks(change.event) = 0
  THEN UNCHANGED <<queue, task>>
  ELSE /\ queue' = <<change>> \o queue
       /\ task' = IF task \in {"none", "dead"} THEN "waiting" ELSE task

(***************************************************************************)
(* mark_connected and mark_disconnected: nothing unless the state changes. *)
(* _enqueue starts the task when there is none, or when it died.           *)
(***************************************************************************)
Enqueue(change) ==
  IF Hooks(change.event) = 0
  THEN UNCHANGED <<queue, task>>
  ELSE /\ queue' = Append(queue, change)
       /\ task' = IF task \in {"none", "dead"} THEN "waiting" ELSE task

(* Bug: every sign of life is reported, not only changes.                  *)
Mark_Unfiltered(up) ==
  /\ phase = "open" \/ MarksWhileClosing
  /\ changes < MaxChanges
  /\ changes' = changes + 1
  /\ connected' = up
  /\ Enqueue([event |-> IF up THEN "connect" ELSE "disconnect", number |-> changes'])
  /\ UNCHANGED <<current, hook, last, phase, aborts>>

Mark(up) ==
  /\ phase = "open" \/ MarksWhileClosing
  /\ connected # up
  /\ changes < MaxChanges
  /\ changes' = changes + 1
  /\ connected' = up
  /\ Enqueue([event |-> IF up THEN "connect" ELSE "disconnect", number |-> changes'])
  /\ UNCHANGED <<current, hook, last, phase, aborts>>

MarkConnected == Mark(TRUE)
MarkDisconnected == Mark(FALSE)

(***************************************************************************)
(* _drain: take the oldest change and call its handlers in turn.           *)
(***************************************************************************)
Take ==
  /\ task = "waiting" /\ queue # <<>>
  /\ current' = Head(queue)
  /\ queue' = Tail(queue)
  /\ last' = Head(queue)
  /\ task' = "handling" /\ hook' = 1
  /\ UNCHANGED <<connected, changes, phase, aborts>>

(* The handler returns, or raises an Exception, which is logged.           *)
HandlerEnds ==
  /\ task = "handling"
  /\ IF hook < Hooks(current.event)
     THEN hook' = hook + 1 /\ UNCHANGED <<task, current>>
     ELSE hook' = 0 /\ task' = "waiting" /\ current' = NoChange
  /\ UNCHANGED <<connected, changes, queue, last, phase, aborts>>

(* CancelledError is no Exception: it leaves _run, and _drain with it.     *)
HandlerAborts ==
  /\ task = "handling" /\ aborts < MaxAborts
  /\ aborts' = aborts + 1
  /\ hook' = 0 /\ task' = "dead" /\ current' = NoChange
  /\ UNCHANGED <<connected, changes, queue, last, phase>>

(***************************************************************************)
(* close(): forget the state, let the queued changes be handled within     *)
(* CLOSE_TIMEOUT_SECONDS, then cancel the task.                            *)
(***************************************************************************)
Close ==
  /\ phase = "open"
  /\ phase' = IF task = "none" THEN "closed" ELSE "joining"
  /\ connected' = FALSE
  /\ UNCHANGED <<changes, queue, task, current, hook, last, aborts>>

CancelTask ==
  /\ phase' = "closed"
  /\ task' = "none" /\ queue' = <<>> /\ current' = NoChange /\ hook' = 0
  /\ UNCHANGED <<connected, changes, last, aborts>>

Joined ==
  /\ phase = "joining"
  /\ queue = <<>> /\ task # "handling"
  /\ CancelTask

CloseTimeout == phase = "joining" /\ CancelTask

Next == \/ MarkConnected \/ MarkDisconnected
        \/ Take \/ HandlerEnds \/ HandlerAborts
        \/ Close \/ Joined \/ CloseTimeout

Spec == Init /\ [][Next]_vars

(***************************************************************************)
(* The task runs and the timer of close() fires.  Handlers end, but a      *)
(* handler that close() waits for may hang.                                *)
(***************************************************************************)
FairSpec == /\ Spec
            /\ WF_vars(Take) /\ WF_vars(CloseTimeout)
            /\ WF_vars(phase = "open" /\ HandlerEnds)
-----------------------------------------------------------------------------
(* Handlers run one after the other, in the order in which the state       *)
(* changed: what waits is newer than what was handled, oldest first.       *)
InOrder == /\ \A i, k \in 1..Len(queue) : i < k => queue[i].number < queue[k].number
           /\ \A i \in 1..Len(queue) : last.number < queue[i].number

(* "Offline" never runs before "online", and neither twice in a row: the   *)
(* changes reported to the handlers take turns, the first is a connect.    *)
(* With both kinds of handlers; NoChange counts as a disconnect.           *)
TakesTurns == [][last' # last => last'.event # last.event]_vars

(* As long as close() was not called, every change is reported, and only   *)
(* a dead task (a handler ended in CancelledError) holds it up.            *)
AllReported ==
  \A n \in 1..MaxChanges :
    changes >= n ~> last.number >= n \/ task = "dead" \/ phase # "open"

(* What _run says: a broken handler does not kill the task, which would    *)
(* silence every later change.                                             *)
NeverSilenced ==
  \A n \in 1..MaxChanges : changes >= n ~> last.number >= n \/ phase # "open"

(* A handler that hangs does not hold the application back: close() ends.  *)
CloseEnds == phase = "joining" ~> phase = "closed"
=============================================================================
