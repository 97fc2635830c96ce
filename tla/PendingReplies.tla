---------------------------- MODULE PendingReplies ----------------------------
(***************************************************************************)
(* core/rpc.py: PendingReplies, the book of the calls that wait for an     *)
(* answer, together with the transport that uses it, the RabbitMQ broker:  *)
(* its send(), its reply consumer, its reaction to a lost connection and   *)
(* its shutdown.                                                           *)
(*                                                                         *)
(* A call is known by its number, in the order of open().  The book maps   *)
(* the correlation id of a message to the future of the call that chose    *)
(* it.  Messages may be delayed, reordered, lost and duplicated.           *)
(***************************************************************************)
EXTENDS Naturals, FiniteSets

CONSTANTS MaxCallers,  \* tasks that call send(), each one call at a time
          MaxCalls     \* bound: calls in the life of the process

ASSUME PendingAssumption == MaxCallers \in Nat /\ MaxCalls \in Nat

Callers == 1..MaxCallers
Calls == 1..MaxCalls
NoCall == 0
Ids == 1..(MaxCallers + MaxCalls)
Messages == [id : Ids, call : Calls]

VARIABLES opened,    \* calls opened so far
          pending,   \* _pending: for each id, the call whose future is there
          future,    \* the future of each call
          answer,    \* the call whose answer that future was given
          at,        \* where each caller is in send()
          mine,      \* the call of each caller
          requests,  \* requests that reached the other side
          replies,   \* replies on their way to this process
          conn,      \* "up" or "down"
          phase      \* "open"; "closing" and "closed": shutdown()

book == <<opened, pending, future, answer>>
callers == <<at, mine>>
net == <<requests, replies>>
link == <<conn, phase>>
vars == <<book, callers, net, link>>

FutureStates == {"new", "open", "answered", "lost", "cancelled"}

TypeOK == /\ opened \in 0..MaxCalls
          /\ pending \in [Ids -> Calls \cup {NoCall}]
          /\ future \in [Calls -> FutureStates]
          /\ answer \in [Calls -> Calls \cup {NoCall}]
          /\ at \in [Callers -> {"idle", "publishing", "sent", "waiting"}]
          /\ mine \in [Callers -> Calls \cup {NoCall}]
          /\ \A c \in Callers : at[c] = "idle" <=> mine[c] = NoCall
          /\ requests \subseteq Messages
          /\ replies \subseteq Messages
          /\ conn \in {"up", "down"}
          /\ phase \in {"open", "closing", "closed"}

Init == /\ opened = 0
        /\ pending = [i \in Ids |-> NoCall]
        /\ future = [n \in Calls |-> "new"]
        /\ answer = [n \in Calls |-> NoCall]
        /\ at = [c \in Callers |-> "idle"]
        /\ mine = [c \in Callers |-> NoCall]
        /\ requests = {} /\ replies = {}
        /\ conn = "up" /\ phase = "open"

InFlight(c) == at[c] # "idle"

(* Bug: an id stands for the caller, not for the call.                     *)
NewId_PerCaller(c, n) == c

(* new_correlation_id: every call has an id of its own.                    *)
NewId(c, n) == n

Message(c) == [id |-> NewId(c, mine[c]), call |-> mine[c]]

(***************************************************************************)
(* The methods of the book.                                                *)
(***************************************************************************)
(* deliver(id, packet): False when nobody waits for that id any more.      *)
Deliver(id, packet) ==
  LET n == pending[id] IN
  /\ pending' = [pending EXCEPT ![id] = NoCall]
  /\ IF n # NoCall /\ future[n] = "open"
     THEN /\ future' = [future EXCEPT ![n] = "answered"]
          /\ answer' = [answer EXCEPT ![n] = packet]
     ELSE UNCHANGED <<future, answer>>
  /\ UNCHANGED opened

(* Bug: the book is emptied and nobody is woken.                           *)
ResolveAll_ForgetsThem(result) ==
  /\ pending' = [i \in Ids |-> NoCall]
  /\ UNCHANGED <<opened, future, answer>>

(* fail_all and cancel_all: the book is swapped for an empty one and every *)
(* future that was in it is resolved.                                      *)
ResolveAll(result) ==
  LET inBook == {pending[i] : i \in Ids} IN
  /\ pending' = [i \in Ids |-> NoCall]
  /\ future' = [n \in Calls |-> IF n \in inBook /\ future[n] = "open"
                                THEN result ELSE future[n]]
  /\ UNCHANGED <<opened, answer>>

(* Bug: wait() has no finally block.                                       *)
CleanUp_Forgotten(c) == UNCHANGED <<opened, pending, answer>>

(* The finally of wait(): the place in the book is given back.             *)
CleanUp(c) == /\ pending' = [pending EXCEPT ![NewId(c, mine[c])] = NoCall]
              /\ UNCHANGED <<opened, answer>>

Return(c) == /\ at' = [at EXCEPT ![c] = "idle"]
             /\ mine' = [mine EXCEPT ![c] = NoCall]

(***************************************************************************)
(* send(): take a place in the book first, publish, then wait.             *)
(***************************************************************************)
Open(c) ==
  /\ at[c] = "idle"
  /\ conn = "up" /\ phase # "closed"
  /\ opened < MaxCalls
  /\ opened' = opened + 1
  /\ pending' = [pending EXCEPT ![NewId(c, opened')] = opened']
  /\ future' = [future EXCEPT ![opened'] = "open"]
  /\ at' = [at EXCEPT ![c] = "publishing"]
  /\ mine' = [mine EXCEPT ![c] = opened']
  /\ UNCHANGED <<answer, net, link>>

(* The request reaches the other side, before publish() returns.           *)
Transmit(c) ==
  /\ at[c] = "publishing" /\ conn = "up"
  /\ at' = [at EXCEPT ![c] = "sent"]
  /\ requests' = requests \cup {Message(c)}
  /\ UNCHANGED <<book, mine, replies, link>>

(* publish() returns (the broker confirmed, or the message is lost).       *)
Published(c) ==
  /\ at[c] \in {"publishing", "sent"}
  /\ at' = [at EXCEPT ![c] = "waiting"]
  /\ UNCHANGED <<book, mine, net, link>>

(* publish() raises or is cancelled: the place is given back by deliver.   *)
PublishFails(c) ==
  /\ at[c] \in {"publishing", "sent"}
  /\ Deliver(NewId(c, mine[c]), NoCall)
  /\ Return(c)
  /\ UNCHANGED <<net, link>>

(* wait() wakes up: with the answer, or with the error put in the future.  *)
Wakes(c) ==
  /\ at[c] = "waiting" /\ future[mine[c]] # "open"
  /\ CleanUp(c) /\ UNCHANGED future
  /\ Return(c)
  /\ UNCHANGED <<net, link>>

(* The timeout of wait_for, or the cancellation of the caller; an answer   *)
(* may have been delivered just before.                                    *)
GivesUp(c) ==
  /\ at[c] = "waiting"
  /\ CleanUp(c)
  /\ future' = [future EXCEPT ![mine[c]] = IF @ = "open" THEN "cancelled" ELSE @]
  /\ Return(c)
  /\ UNCHANGED <<net, link>>

(***************************************************************************)
(* The other side, and the reply consumer.                                 *)
(***************************************************************************)
Answer(m) ==
  /\ m \in requests
  /\ requests' = requests \ {m}
  /\ replies' = replies \cup {m}
  /\ UNCHANGED <<book, callers, link>>

(* _on_reply; a message that stays in the network will come once more.     *)
OnReply(m) ==
  /\ m \in replies
  /\ conn = "up"
  /\ Deliver(m.id, m.call)
  /\ replies' \in {replies, replies \ {m}}
  /\ UNCHANGED <<callers, requests, link>>

Lose == \/ \E m \in requests : requests' = requests \ {m} /\ UNCHANGED <<book, callers, replies, link>>
        \/ \E m \in replies : replies' = replies \ {m} /\ UNCHANGED <<book, callers, requests, link>>

(***************************************************************************)
(* The connection, and shutdown(): _on_close does nothing while it runs.   *)
(***************************************************************************)
OnClose ==
  /\ conn = "up"
  /\ conn' = "down"
  /\ IF phase = "open" THEN ResolveAll("lost") ELSE UNCHANGED book
  /\ UNCHANGED <<phase, callers, net>>

Reconnect ==
  /\ conn = "down" /\ phase = "open"
  /\ conn' = "up"
  /\ UNCHANGED <<phase, book, callers, net>>

BeginShutdown ==
  /\ phase = "open"
  /\ phase' = "closing"
  /\ UNCHANGED <<conn, book, callers, net>>

Shutdown ==
  /\ phase = "closing" /\ conn = "down"
  /\ phase' = "closed"
  /\ ResolveAll("cancelled")
  /\ UNCHANGED <<conn, callers, net>>

CallerStep(c) == \/ Open(c) \/ Transmit(c) \/ Published(c) \/ PublishFails(c)
                 \/ Wakes(c) \/ GivesUp(c)

Next == \/ \E c \in Callers : CallerStep(c)
        \/ \E m \in requests : Answer(m)
        \/ \E m \in replies : OnReply(m)
        \/ Lose \/ OnClose \/ Reconnect \/ BeginShutdown \/ Shutdown

Spec == Init /\ [][Next]_vars

(***************************************************************************)
(* publish() ends one way or the other (it has a time limit of its own),   *)
(* a resolved future wakes its caller, and shutdown() goes on.  No         *)
(* fairness for GivesUp: what follows must not need the time limit.        *)
(***************************************************************************)
FairSpec == /\ Spec
            /\ WF_vars(phase = "closing" /\ OnClose) /\ WF_vars(Shutdown)
            /\ \A c \in Callers : /\ WF_vars(Published(c) \/ PublishFails(c))
                                  /\ WF_vars(Wakes(c))
-----------------------------------------------------------------------------
(* A caller is never handed the answer to another call, however late,      *)
(* duplicated or reordered the replies are.                                *)
OwnReply == \A n \in Calls : answer[n] \in {n, NoCall}

(* The book does not grow with the calls that failed: every entry belongs  *)
(* to a caller that is still in send() for that very call.                 *)
NoLeak == \A i \in Ids : pending[i] # NoCall =>
            \E c \in Callers : InFlight(c) /\ mine[c] = pending[i]

(* A caller whose future is unresolved can be woken: its place in the book *)
(* is still there, under the id it sent.                                   *)
Reachable == \A c \in Callers :
               InFlight(c) /\ future[mine[c]] = "open"
                 => pending[NewId(c, mine[c])] = mine[c]

(* When the connection is lost, or the application stops, nobody is left   *)
(* to stand out the rest of the time limit: a call in flight then ends,    *)
(* without its timeout.                                                    *)
LossWakes == \A c \in Callers, n \in Calls :
               mine[c] = n /\ (conn = "down" \/ phase # "open") ~> mine[c] # n
=============================================================================
