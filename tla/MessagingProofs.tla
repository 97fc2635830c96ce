---------------------------- MODULE MessagingProofs ----------------------------
(***************************************************************************)
(* Proofs about the parts of infrastructure/ that exchange messages, for   *)
(* any number of tasks, processes, calls, losses and messages: one section *)
(* for the inductive invariant of each part, and at the end the theorems   *)
(* about MCMessaging, of which each is a step away from its section.       *)
(***************************************************************************)
EXTENDS MCMessaging, Integers, FiniteSetTheorems, WellFoundedInduction, TLAPS

(***************************************************************************)
(* The book of pending replies: no caller gets another call's answer, the  *)
(* book holds the calls in flight and nothing else, and a caller that      *)
(* waits can be woken.                                                     *)
(***************************************************************************)
USE PendingAssumption
USE DEF Callers, Calls, NoCall, Ids, FutureStates, InFlight, NewId,
        book, callers, net, link, vars

AtStates == {"idle", "publishing", "sent", "waiting"}

(* A caller in send() has a call of its own, one that was opened.          *)
Calling == /\ \A c \in Callers : InFlight(c) <=> mine[c] # NoCall
           /\ \A c \in Callers : mine[c] <= opened
           /\ \A c, d \in Callers : mine[c] = mine[d] /\ mine[c] # NoCall => c = d

(* An id stands for the call of the same number, in the book and on the    *)
(* wire.                                                                   *)
OneId == /\ \A i \in Ids : pending[i] \in {i, NoCall}
         /\ \A m \in requests \cup replies : m.id = m.call

BookInv == TypeOK /\ Calling /\ OneId /\ NoLeak /\ Reachable /\ OwnReply

LEMMA BookInit == Init => BookInv
BY DEF Init, BookInv, TypeOK, Calling, OneId, NoLeak, Reachable, OwnReply, Messages

-----------------------------------------------------------------------------
(***************************************************************************)
(* What the operations on the book do to the part of the state they        *)
(* change.                                                                 *)
(***************************************************************************)
LEMMA MessageType ==
  ASSUME TypeOK, Calling, NEW c \in Callers, InFlight(c)
  PROVE  Message(c) \in Messages /\ Message(c).id = Message(c).call
BY DEF TypeOK, Calling, Message, Messages

LEMMA DeliverBook ==
  ASSUME BookInv, NEW i \in Ids, NEW packet \in {i, NoCall}, Deliver(i, packet)
  PROVE  /\ opened' = opened
         /\ pending' = [pending EXCEPT ![i] = NoCall]
         /\ future' \in [Calls -> FutureStates]
         /\ answer' \in [Calls -> Calls \cup {NoCall}]
         /\ \A n \in Calls : answer'[n] \in {n, NoCall}
         /\ \A n \in Calls : future'[n] = "open" => future[n] = "open" /\ n # pending[i]
<1>1. CASE pending[i] # NoCall /\ future[pending[i]] = "open"
  <2>1. pending[i] = i
    BY <1>1 DEF BookInv, OneId
  <2>2. i \in Calls
    BY <1>1, <2>1 DEF BookInv, TypeOK
  <2>3. /\ opened' = opened
        /\ pending' = [pending EXCEPT ![i] = NoCall]
        /\ future' = [future EXCEPT ![i] = "answered"]
        /\ answer' = [answer EXCEPT ![i] = packet]
    BY <1>1, <2>1 DEF Deliver
  <2>4. answer' \in [Calls -> Calls \cup {NoCall}] /\ \A n \in Calls : answer'[n] \in {n, NoCall}
    BY <2>2, <2>3 DEF BookInv, TypeOK, OwnReply
  <2>5. future' \in [Calls -> FutureStates] /\ future'[i] = "answered"
    BY <2>2, <2>3 DEF BookInv, TypeOK
  <2>6. \A n \in Calls : future'[n] = "open" => future[n] = "open" /\ n # i
    BY <2>2, <2>3, <2>5 DEF BookInv, TypeOK
  <2> QED
    BY <2>1, <2>3, <2>4, <2>5, <2>6
<1>2. CASE ~(pending[i] # NoCall /\ future[pending[i]] = "open")
  BY <1>2 DEF Deliver, BookInv, TypeOK, OwnReply
<1> QED
  BY <1>1, <1>2

LEMMA ResolveBook ==
  ASSUME BookInv, NEW result \in FutureStates \ {"open"}, ResolveAll(result)
  PROVE  /\ opened' = opened /\ answer' = answer
         /\ pending' = [i \in Ids |-> NoCall]
         /\ future' \in [Calls -> FutureStates]
         /\ \A c \in Callers : InFlight(c) => future'[mine[c]] # "open"
<1>1. ASSUME NEW c \in Callers, InFlight(c) PROVE future'[mine[c]] # "open"
  <2>1. mine[c] \in Calls /\ mine[c] \in Ids
    BY <1>1 DEF BookInv, TypeOK, Calling
  <2>2. future[mine[c]] = "open" => mine[c] \in {pending[i] : i \in Ids}
    BY <1>1, <2>1 DEF BookInv, Reachable
  <2> QED
    BY <2>1, <2>2 DEF ResolveAll, BookInv, TypeOK
<1> QED
  BY <1>1 DEF ResolveAll, BookInv, TypeOK

(* A caller leaves send() and its place in the book is given back.         *)
LEMMA LeaveStep ==
  ASSUME BookInv, NEW c \in Callers, InFlight(c), Return(c),
         pending' = [pending EXCEPT ![mine[c]] = NoCall],
         \A n \in Calls : future'[n] = "open" => future[n] = "open",
         UNCHANGED <<opened, requests, replies>>
  PROVE  Calling' /\ OneId' /\ NoLeak' /\ Reachable'
<1>1. mine[c] \in Calls /\ mine[c] \in Ids
  BY DEF BookInv, TypeOK, Calling
<1>2. /\ at' = [at EXCEPT ![c] = "idle"]
      /\ mine' = [mine EXCEPT ![c] = NoCall]
  BY DEF Return
<1>3. Calling'
  BY <1>1, <1>2 DEF BookInv, TypeOK, Calling
<1>4. OneId'
  BY <1>1 DEF BookInv, TypeOK, OneId
<1>5. NoLeak'
  <2> SUFFICES ASSUME NEW i \in Ids, pending'[i] # NoCall
               PROVE \E d \in Callers : at'[d] # "idle" /\ mine'[d] = pending'[i]
    BY DEF NoLeak
  <2>1. i # mine[c] /\ pending'[i] = pending[i] /\ pending[i] = i
    BY <1>1 DEF BookInv, TypeOK, OneId
  <2>2. PICK d \in Callers : InFlight(d) /\ mine[d] = pending[i]
    BY <2>1 DEF BookInv, NoLeak
  <2> QED
    BY <1>2, <2>1, <2>2 DEF BookInv, TypeOK
<1>6. Reachable'
  <2> SUFFICES ASSUME NEW d \in Callers, at'[d] # "idle", future'[mine'[d]] = "open"
               PROVE pending'[mine'[d]] = mine'[d]
    BY DEF Reachable
  <2>1. d # c /\ InFlight(d) /\ mine'[d] = mine[d] /\ mine[d] \in Calls
    BY <1>2 DEF BookInv, TypeOK, Calling
  <2>2. mine[d] # mine[c]
    BY <2>1, <1>1 DEF BookInv, Calling
  <2>3. pending[mine[d]] = mine[d]
    BY <2>1 DEF BookInv, Reachable
  <2> QED
    BY <2>1, <2>2, <2>3, <1>1 DEF BookInv, TypeOK
<1> QED
  BY <1>3, <1>4, <1>5, <1>6

-----------------------------------------------------------------------------
LEMMA OpenStep == ASSUME BookInv, NEW c \in Callers, Open(c) PROVE BookInv'
<1>1. /\ opened' = opened + 1 /\ opened' \in Calls /\ opened' \in Ids
      /\ pending' = [pending EXCEPT ![opened'] = opened']
      /\ future' = [future EXCEPT ![opened'] = "open"]
      /\ at' = [at EXCEPT ![c] = "publishing"]
      /\ mine' = [mine EXCEPT ![c] = opened']
      /\ UNCHANGED <<answer, requests, replies, conn, phase>>
  BY DEF Open, BookInv, TypeOK
<1>2. \A d \in Callers : mine[d] < opened'
  <2> TAKE d \in Callers
  <2>1. mine[d] \in Nat /\ opened \in Nat /\ mine[d] <= opened
    BY DEF BookInv, Calling, TypeOK
  <2>2. opened' = opened + 1
    BY <1>1
  <2> QED
    BY <2>1, <2>2
<1>3. TypeOK'
  BY <1>1 DEF BookInv, TypeOK
<1>4. Calling'
  BY <1>1, <1>2 DEF BookInv, TypeOK, Calling
<1>5. OneId'
  BY <1>1 DEF BookInv, TypeOK, OneId
<1>6. NoLeak'
  <2> SUFFICES ASSUME NEW i \in Ids, pending'[i] # NoCall
               PROVE \E d \in Callers : at'[d] # "idle" /\ mine'[d] = pending'[i]
    BY DEF NoLeak
  <2>1. CASE i = opened'
    BY <2>1, <1>1 DEF BookInv, TypeOK
  <2>2. CASE i # opened'
    <3>1. pending'[i] = pending[i]
      BY <2>2, <1>1 DEF BookInv, TypeOK
    <3>2. PICK d \in Callers : InFlight(d) /\ mine[d] = pending[i]
      BY <3>1 DEF BookInv, NoLeak
    <3>3. d # c
      BY <3>2 DEF Open
    <3> QED
      BY <3>1, <3>2, <3>3, <1>1 DEF BookInv, TypeOK
  <2> QED
    BY <2>1, <2>2
<1>7. Reachable'
  <2> SUFFICES ASSUME NEW d \in Callers, at'[d] # "idle", future'[mine'[d]] = "open"
               PROVE pending'[mine'[d]] = mine'[d]
    BY DEF Reachable
  <2>1. CASE d = c
    BY <2>1, <1>1 DEF BookInv, TypeOK
  <2>2. CASE d # c
    <3>1. InFlight(d) /\ mine'[d] = mine[d] /\ mine[d] \in Calls /\ mine[d] # opened'
      BY <2>2, <1>1, <1>2 DEF BookInv, TypeOK, Calling
    <3>2. pending[mine[d]] = mine[d]
      BY <3>1, <1>1 DEF BookInv, TypeOK, Reachable
    <3> QED
      BY <3>1, <3>2, <1>1 DEF BookInv, TypeOK
  <2> QED
    BY <2>1, <2>2
<1>8. OwnReply'
  BY <1>1 DEF BookInv, OwnReply
<1> QED
  BY <1>3, <1>4, <1>5, <1>6, <1>7, <1>8 DEF BookInv

LEMMA SendStep ==
  ASSUME BookInv, NEW c \in Callers, Transmit(c) \/ Published(c) PROVE BookInv'
<1>1. /\ at[c] \in {"publishing", "sent"} /\ InFlight(c)
      /\ \E s \in {"sent", "waiting"} : at' = [at EXCEPT ![c] = s]
      /\ requests' \subseteq requests \cup {Message(c)}
      /\ UNCHANGED <<opened, pending, future, answer, mine, replies, conn, phase>>
  BY DEF Transmit, Published
<1>2. \A d \in Callers : at'[d] # "idle" <=> at[d] # "idle"
  BY <1>1 DEF BookInv, TypeOK
<1>3. requests' \subseteq Messages /\ \A m \in requests' : m.id = m.call
  BY <1>1, MessageType DEF BookInv, TypeOK, OneId
<1>4. TypeOK'
  BY <1>1, <1>3 DEF BookInv, TypeOK
<1>5. Calling' /\ NoLeak' /\ Reachable' /\ OwnReply'
  BY <1>1, <1>2 DEF BookInv, Calling, NoLeak, Reachable, OwnReply
<1>6. OneId'
  BY <1>1, <1>3 DEF BookInv, OneId
<1> QED
  BY <1>4, <1>5, <1>6 DEF BookInv

LEMMA PublishFailsStep == ASSUME BookInv, NEW c \in Callers, PublishFails(c) PROVE BookInv'
<1>1. /\ InFlight(c) /\ mine[c] \in Calls /\ mine[c] \in Ids
      /\ Deliver(mine[c], NoCall) /\ Return(c)
      /\ UNCHANGED <<requests, replies, conn, phase>>
  BY DEF PublishFails, BookInv, TypeOK, Calling
<1>2. /\ opened' = opened
      /\ pending' = [pending EXCEPT ![mine[c]] = NoCall]
      /\ future' \in [Calls -> FutureStates]
      /\ answer' \in [Calls -> Calls \cup {NoCall}]
      /\ \A n \in Calls : answer'[n] \in {n, NoCall}
      /\ \A n \in Calls : future'[n] = "open" => future[n] = "open"
  BY <1>1, DeliverBook
<1>3. Calling' /\ OneId' /\ NoLeak' /\ Reachable'
  BY <1>1, <1>2, LeaveStep
<1>4. TypeOK'
  BY <1>1, <1>2 DEF BookInv, TypeOK, Return
<1> QED
  BY <1>2, <1>3, <1>4 DEF BookInv, OwnReply

LEMMA WaitStep == ASSUME BookInv, NEW c \in Callers, Wakes(c) \/ GivesUp(c) PROVE BookInv'
<1>1. /\ InFlight(c) /\ mine[c] \in Calls /\ mine[c] \in Ids /\ Return(c)
      /\ pending' = [pending EXCEPT ![mine[c]] = NoCall]
      /\ UNCHANGED <<opened, answer, requests, replies, conn, phase>>
  BY DEF Wakes, GivesUp, CleanUp, BookInv, TypeOK, Calling
<1>2. /\ future' \in [Calls -> FutureStates]
      /\ \A n \in Calls : future'[n] = "open" => future[n] = "open"
  BY <1>1 DEF Wakes, GivesUp, BookInv, TypeOK
<1>3. Calling' /\ OneId' /\ NoLeak' /\ Reachable'
  BY <1>1, <1>2, LeaveStep
<1>4. TypeOK'
  BY <1>1, <1>2 DEF BookInv, TypeOK, Return
<1> QED
  BY <1>1, <1>3, <1>4 DEF BookInv, OwnReply

LEMMA OnReplyStep == ASSUME BookInv, NEW m \in replies, OnReply(m) PROVE BookInv'
<1>1. /\ m.id \in Ids /\ m.call = m.id /\ Deliver(m.id, m.id)
      /\ replies' \subseteq replies
      /\ UNCHANGED <<at, mine, requests, conn, phase>>
  BY DEF OnReply, BookInv, TypeOK, OneId, Messages
<1>2. /\ opened' = opened
      /\ pending' = [pending EXCEPT ![m.id] = NoCall]
      /\ future' \in [Calls -> FutureStates]
      /\ answer' \in [Calls -> Calls \cup {NoCall}]
      /\ \A n \in Calls : answer'[n] \in {n, NoCall}
      /\ \A n \in Calls : future'[n] = "open" => future[n] = "open" /\ n # pending[m.id]
  BY <1>1, DeliverBook
<1>3. TypeOK'
  BY <1>1, <1>2 DEF BookInv, TypeOK
<1>4. Calling' /\ OneId' /\ OwnReply'
  BY <1>1, <1>2 DEF BookInv, TypeOK, Calling, OneId, OwnReply
<1>5. NoLeak'
  BY <1>1, <1>2 DEF BookInv, TypeOK, NoLeak
<1>6. Reachable'
  <2> SUFFICES ASSUME NEW d \in Callers, InFlight(d), future'[mine[d]] = "open"
               PROVE pending'[mine[d]] = mine[d]
    BY <1>1 DEF Reachable
  <2>1. mine[d] \in Calls /\ mine[d] \in Ids
    BY DEF BookInv, TypeOK, Calling
  <2>2. pending[mine[d]] = mine[d] /\ mine[d] # pending[m.id]
    BY <1>2, <2>1 DEF BookInv, Reachable
  <2> QED
    BY <1>1, <1>2, <2>1, <2>2 DEF BookInv, TypeOK
<1> QED
  BY <1>3, <1>4, <1>5, <1>6 DEF BookInv

LEMMA ResolveStep ==
  ASSUME BookInv, NEW result \in FutureStates \ {"open"}, ResolveAll(result),
         conn' \in {"up", "down"}, phase' \in {"open", "closing", "closed"},
         UNCHANGED <<callers, net>>
  PROVE  BookInv'
<1>1. /\ opened' = opened /\ answer' = answer
      /\ pending' = [i \in Ids |-> NoCall]
      /\ future' \in [Calls -> FutureStates]
      /\ \A c \in Callers : InFlight(c) => future'[mine[c]] # "open"
  BY ResolveBook
<1> QED
  BY <1>1 DEF BookInv, TypeOK, Calling, OneId, NoLeak, Reachable, OwnReply

(* The steps that leave the book and the callers alone.                    *)
LEMMA OtherStep ==
  ASSUME BookInv, UNCHANGED <<book, callers>>,
         requests' \cup replies' \subseteq requests \cup replies,
         conn' \in {"up", "down"}, phase' \in {"open", "closing", "closed"}
  PROVE  BookInv'
BY DEF BookInv, TypeOK, Calling, OneId, NoLeak, Reachable, OwnReply

LEMMA BookNext == ASSUME BookInv, [Next]_vars PROVE BookInv'
<1>1. ASSUME NEW c \in Callers, CallerStep(c) PROVE BookInv'
  BY <1>1, OpenStep, SendStep, PublishFailsStep, WaitStep DEF CallerStep
<1>2. ASSUME NEW m \in requests, Answer(m) PROVE BookInv'
  BY <1>2, OtherStep DEF Answer, BookInv, TypeOK
<1>3. ASSUME NEW m \in replies, OnReply(m) PROVE BookInv'
  BY <1>3, OnReplyStep
<1>4. CASE Lose
  BY <1>4, OtherStep DEF Lose, BookInv, TypeOK
<1>5. CASE OnClose
  <2>1. CASE phase = "open"
    BY <1>5, <2>1, ResolveStep DEF OnClose
  <2>2. CASE phase # "open"
    BY <1>5, <2>2, OtherStep DEF OnClose, BookInv, TypeOK
  <2> QED
    BY <2>1, <2>2
<1>6. CASE Reconnect \/ BeginShutdown \/ UNCHANGED vars
  BY <1>6, OtherStep DEF Reconnect, BeginShutdown, BookInv, TypeOK
<1>7. CASE Shutdown
  BY <1>7, ResolveStep DEF Shutdown, BookInv, TypeOK
<1> QED
  BY <1>1, <1>2, <1>3, <1>4, <1>5, <1>6, <1>7 DEF Next
HIDE DEF Callers, Calls, NoCall, Ids, FutureStates, InFlight, NewId,
         book, callers, net, link, vars

-----------------------------------------------------------------------------
(***************************************************************************)
(* The queues of a subscriber with auto_delete: as long as nobody starts   *)
(* while another shuts down, cleaning up takes nothing away from those     *)
(* that run.                                                               *)
(***************************************************************************)
USE DEF Queues!SettingUp, Queues!Cleaning, Queues!queues, Queues!vars

QueuePlaces == {"off", "failed", "on"} \cup Queues!SettingUp \cup Queues!Cleaning

QueueKinds == /\ qAt \in [Listeners -> QueuePlaces]
              /\ qListening \in SUBSET Listeners
              /\ qMain \in BOOLEAN /\ qRetry \in BOOLEAN /\ qDlq \in BOOLEAN

(* Nobody sets up while another cleans.                                    *)
Apart == \A p, q \in Listeners : ~ (qAt[p] \in Queues!SettingUp /\ qAt[q] \in Queues!Cleaning)

(* The consumers are those that are on, and they keep the queue alive.     *)
Consuming == /\ \A p \in Listeners : qAt[p] = "on" <=> p \in qListening
             /\ qListening # {} => qMain

(* Who has declared a queue, and may still use it, finds it.               *)
Declared == \A p \in Listeners : /\ qAt[p] \in {"main", "retry", "consume", "on"} => qDlq
                                 /\ qAt[p] \in {"consume", "on"} => qRetry

(* Who deletes has seen that the queue is gone, and it still is.           *)
StillGone == \A p \in Listeners : qAt[p] \in {"delete retry", "delete dlq"} => ~ qMain

QueuesInv == QueueKinds /\ Apart /\ Consuming /\ Declared /\ StillGone /\ Queues!NothingTaken

LEMMA QueuesInit == Queues!Init => QueuesInv
BY DEF Queues!Init, QueuesInv, QueuePlaces, QueueKinds, Apart, Consuming, Declared, StillGone,
   Queues!NothingTaken

-----------------------------------------------------------------------------
(* The steps of _setup.                                                    *)
LEMMA SetupKeeps ==
  ASSUME QueuesInv, NEW p \in Listeners,
         \/ Queues!Start(p) \/ Queues!DeclareDlq(p) \/ Queues!DeclareMain(p)
         \/ Queues!DeclareRetry(p) \/ Queues!Consume(p)
  PROVE  QueuesInv'
<1> USE DEF QueuesInv, QueuePlaces, QueueKinds, Queues!NothingTaken, Queues!Goto
<1>1. CASE Queues!Start(p)
  <2>1. \A q \in Listeners : qAt[q] \notin Queues!Cleaning
    BY <1>1 DEF Queues!Start, Queues!Others
  <2> QED BY <1>1, <2>1 DEF Queues!Start, Apart, Consuming, Declared, StillGone
<1>2. CASE Queues!DeclareDlq(p)
  BY <1>2 DEF Queues!DeclareDlq, Apart, Consuming, Declared, StillGone
<1>3. CASE Queues!DeclareMain(p)
  <2>1. \A q \in Listeners : qAt[q] \notin Queues!Cleaning
    BY <1>3 DEF Queues!DeclareMain, Apart
  <2> QED BY <1>3, <2>1 DEF Queues!DeclareMain, Apart, Consuming, Declared, StillGone
<1>4. CASE Queues!DeclareRetry(p)
  BY <1>4 DEF Queues!DeclareRetry, Apart, Consuming, Declared, StillGone
<1>5. CASE Queues!Consume(p)
  <2>1. CASE qMain
    <3>1. qAt' = [qAt EXCEPT ![p] = "on"] /\ qListening' = qListening \cup {p}
      BY <1>5, <2>1 DEF Queues!Consume
    <3> QED BY <1>5, <2>1, <3>1 DEF Queues!Consume, Apart, Consuming, Declared, StillGone
  <2>2. CASE ~ qMain
    <3>1. qAt' = [qAt EXCEPT ![p] = "failed"] /\ qListening' = qListening
      BY <1>5, <2>2 DEF Queues!Consume
    <3> QED BY <1>5, <2>2, <3>1 DEF Queues!Consume, Apart, Consuming, Declared, StillGone
  <2> QED BY <2>1, <2>2
<1> QED BY <1>1, <1>2, <1>3, <1>4, <1>5

(* A failure finds its queue; a consumer that goes leaves the others the   *)
(* queue they listen on.                                                   *)
LEMMA FailKeeps ==
  ASSUME QueuesInv, NEW p \in Listeners, Queues!Fail(p)
  PROVE  QueuesInv'
<1>1. qRetry /\ qDlq
  BY DEF QueuesInv, Declared, Queues!Fail
<1> QED
  BY <1>1 DEF Queues!Fail, QueuesInv, QueuePlaces, QueueKinds, Apart, Consuming, Declared,
     StillGone, Queues!NothingTaken

LEMMA GoneKeeps ==
  ASSUME QueueKinds, Consuming, NEW p \in Listeners, NEW s \in QueuePlaces \ {"on"},
         Queues!Gone(p), Queues!Goto(p, s)
  PROVE  Consuming' /\ qListening' \in SUBSET Listeners /\ qMain' \in BOOLEAN /\ (qMain' => qMain)
BY DEF QueueKinds, QueuePlaces, Consuming, Queues!Gone, Queues!Goto

LEMMA StopsKeeps ==
  ASSUME QueuesInv, NEW p \in Listeners, Queues!GivesUp(p)
  PROVE  QueuesInv'
<1>1. /\ qAt[p] = "failed" /\ qAt' = [qAt EXCEPT ![p] = "off"]
      /\ qMain' = qMain /\ qListening' = qListening
      /\ qRetry' = qRetry /\ qDlq' = qDlq
  BY DEF Queues!GivesUp, Queues!Goto
<1>2. QueueKinds'
  BY <1>1 DEF QueuesInv, QueueKinds, QueuePlaces
<1>3. Apart' /\ Consuming' /\ Declared' /\ StillGone'
  BY <1>1 DEF QueuesInv, QueueKinds, QueuePlaces, Apart, Consuming, Declared, StillGone
<1>4. Queues!NothingTaken'
  BY DEF QueuesInv, Queues!NothingTaken, Queues!GivesUp
<1> QED BY <1>2, <1>3, <1>4 DEF QueuesInv

LEMMA LeaveKeeps ==
  ASSUME QueuesInv, NEW p \in Listeners, Queues!Cancel(p) \/ Queues!Crash(p) \/ Queues!GivesUp(p)
  PROVE  QueuesInv'
<1> USE DEF QueuesInv, QueuePlaces, QueueKinds, Queues!NothingTaken
<1>1. CASE Queues!Cancel(p)
  <2>1. \A q \in Listeners : qAt[q] \notin Queues!SettingUp
    BY <1>1 DEF Queues!Cancel, Queues!Others
  <2>2. Consuming' /\ qListening' \in SUBSET Listeners /\ qMain' \in BOOLEAN /\ (qMain' => qMain)
    BY <1>1, GoneKeeps DEF Queues!Cancel
  <2> QED BY <1>1, <2>1, <2>2 DEF Queues!Cancel, Queues!Goto, Apart, Declared, StillGone
<1>2. CASE Queues!Crash(p)
  <2>1. Consuming' /\ qListening' \in SUBSET Listeners /\ qMain' \in BOOLEAN /\ (qMain' => qMain)
    BY <1>2, GoneKeeps DEF Queues!Crash
  <2> QED BY <1>2, <2>1 DEF Queues!Crash, Queues!Goto, Apart, Declared, StillGone
<1>3. CASE Queues!GivesUp(p)
  BY <1>3, StopsKeeps
<1> QED BY <1>1, <1>2, <1>3

(* Cleaning up: whoever deletes is alone with queues nobody needs.         *)
LEMMA CleanKeeps ==
  ASSUME QueuesInv, NEW p \in Listeners, Queues!Ask(p) \/ Queues!DeleteRetry(p) \/ Queues!DeleteDlq(p)
  PROVE  QueuesInv'
<1> USE DEF QueuesInv, QueuePlaces, QueueKinds, Queues!NothingTaken, Queues!Goto
<1>1. CASE Queues!Ask(p)
  BY <1>1 DEF Queues!Ask, Apart, Consuming, Declared, StillGone
<1>2. ASSUME qAt[p] \in {"delete retry", "delete dlq"}
      PROVE  qListening = {} /\ \A q \in Listeners : qAt[q] \notin Queues!SettingUp \cup {"on"}
  BY <1>2 DEF Apart, Consuming, StillGone
<1>3. CASE Queues!DeleteRetry(p)
  BY <1>2, <1>3 DEF Queues!DeleteRetry, Apart, Consuming, Declared, StillGone
<1>4. CASE Queues!DeleteDlq(p)
  BY <1>2, <1>4 DEF Queues!DeleteDlq, Apart, Consuming, Declared, StillGone
<1> QED BY <1>1, <1>3, <1>4

LEMMA QueuesNext == ASSUME QueuesInv, [Queues!Next]_queueVars PROVE QueuesInv'
<1>1. CASE UNCHANGED queueVars
  BY <1>1 DEF queueVars, QueuesInv, QueueKinds, Apart, Consuming, Declared, StillGone,
     Queues!NothingTaken
<1>2. CASE Queues!Next
  BY <1>2, SetupKeeps, FailKeeps, LeaveKeeps, CleanKeeps DEF Queues!Next
<1> QED BY <1>1, <1>2
HIDE DEF Queues!SettingUp, Queues!Cleaning, Queues!queues, Queues!vars

-----------------------------------------------------------------------------
(* The Kafka partition, whose proof is in KafkaConsumersProofs.            *)
Records3 == SubSeq(<< "good", "junk", "invalid" >>, 1, Records)
PartitionProofs == INSTANCE KafkaConsumersProofs WITH
  Procs <- Partners, Body <- Records3, MaxRetries <- Attempts, DeadLetter <- TRUE,
  MaxMoves <- Moves, MaxCrashes <- Losses,
  proc <- kProc, owner <- kOwner, committed <- kCommitted, moves <- kMoves,
  crashes <- kCrashes, tasks <- kTasks, settled <- kSettled, deliveries <- kDeliveries

-----------------------------------------------------------------------------
(***************************************************************************)
(* The Kafka broker: nobody waits for a reply that the loop is past or     *)
(* will not read.  One consumer is moved to the ends of all its topics     *)
(* whenever one is added, so this takes callers of one reply topic.        *)
(***************************************************************************)
OneTopic == \A c, d \in KafkaCallers : ReplyTopic[c] = ReplyTopic[d]

KafkaPlaces == {"idle", "lock", "start", "assign", "seek", "publish", "wait"}
KafkaHolding == {"start", "assign", "seek"}
KafkaBeyond == {"publish", "wait"}
KafkaOutcomes == {<< >>, << "lost" >>, << "cancelled" >>} \cup (KafkaCallers \X Nat)

KafkaCalling == [at : KafkaPlaces, calls : Nat, open : BOOLEAN, outcome : KafkaOutcomes]

KafkaKinds ==
  /\ bCaller \in [KafkaCallers -> KafkaCalling]
  /\ bLog \in [Kafka!Topics -> Seq(KafkaCallers \X Nat)]
  /\ bPosition \in [Kafka!Topics -> Nat]
  /\ bTopics \subseteq Kafka!Topics /\ bAssigned = bTopics
  /\ bReading \in BOOLEAN
  /\ \A t \in Kafka!Topics : bPosition[t] <= Len(bLog[t])
  /\ \A c \in KafkaCallers : bCaller[c].open => bCaller[c].at \in KafkaBeyond
  /\ bSupervisor \in {"none", "sleep"} /\ bReady \in BOOLEAN /\ bProducer \in BOOLEAN

(* Who makes or moves the consumer holds the lock.                         *)
KafkaLocking == \A c \in KafkaCallers : bCaller[c].at \in KafkaHolding => bLock = c

(* Until shutdown, a topic that is known is read, or about to be; who has  *)
(* got past the lock has its topic read; and nobody has while the consumer *)
(* is being moved.                                                         *)
KafkaListening == ~ Kafka!Closing =>
  /\ bTopics = {} \/ bReading \/ \E c \in KafkaCallers : bCaller[c].at = "seek"
  /\ bConsumer = "none" => bTopics = {}
  /\ \A c \in KafkaCallers : bCaller[c].at = "seek" => ReplyTopic[c] \in bTopics
  /\ \A c \in KafkaCallers : bCaller[c].at \in KafkaBeyond => bReading /\ ReplyTopic[c] \in bTopics
  /\ \A c, d \in KafkaCallers : ~ (bCaller[c].at \in KafkaHolding /\ bCaller[d].at \in KafkaBeyond)

(* Replies are to calls that were made, none to one not yet published, and *)
(* none to a call that is open has been passed over.                       *)
KafkaAnswers == \A c \in KafkaCallers, t \in Kafka!Topics : \A i \in DOMAIN bLog[t] :
  /\ bLog[t][i][1] = c => bLog[t][i][2] <= bCaller[c].calls
  /\ bCaller[c].at \in {"lock", "publish"} \cup KafkaHolding => bLog[t][i] # << c, bCaller[c].calls >>
  /\ ~ Kafka!Closing /\ bCaller[c].open /\ i <= bPosition[t] => bLog[t][i] # << c, bCaller[c].calls >>

KafkaHooked == /\ Kafka!HooksAreDue
               /\ bPhase = "new" => ~ bReady /\ ~ bProducer /\ bSupervisor = "none"

KafkaInv == KafkaKinds /\ KafkaLocking /\ KafkaListening /\ KafkaAnswers /\ KafkaHooked /\ Kafka!OwnAnswer

LEMMA KafkaInit == Kafka!Init => KafkaInv
<1> SUFFICES ASSUME Kafka!Init PROVE KafkaInv
  OBVIOUS
<1>1. [at |-> "idle", calls |-> 0, open |-> FALSE, outcome |-> << >>] \in KafkaCalling
  BY DEF KafkaCalling, KafkaPlaces, KafkaOutcomes
<1>2. /\ bLog \in [Kafka!Topics -> Seq(KafkaCallers \X Nat)] /\ bPosition \in [Kafka!Topics -> Nat]
      /\ \A t \in Kafka!Topics : bPosition[t] <= Len(bLog[t])
  BY DEF Kafka!Init
<1>3. KafkaKinds
  BY <1>1, <1>2 DEF Kafka!Init, KafkaKinds
<1> QED BY <1>1, <1>3 DEF Kafka!Init, KafkaInv, KafkaLocking, KafkaListening, KafkaAnswers,
        KafkaHooked, Kafka!HooksAreDue, Kafka!OwnAnswer, KafkaHolding, KafkaBeyond, Kafka!Closing

(* A step of one caller.                                                   *)
LEMMA KafkaMoved ==
  ASSUME KafkaKinds, NEW c \in KafkaCallers, NEW s \in KafkaPlaces, Kafka!At(c, s)
  PROVE  /\ bCaller' \in [KafkaCallers -> KafkaCalling] /\ bCaller'[c].at = s
         /\ bCaller'[c].calls = bCaller[c].calls /\ bCaller'[c].open = bCaller[c].open
         /\ bCaller'[c].outcome = bCaller[c].outcome
         /\ \A d \in KafkaCallers \ {c} : bCaller'[d] = bCaller[d]
BY DEF KafkaKinds, Kafka!At, KafkaCalling

LEMMA KafkaReadyStep ==
  ASSUME KafkaKinds, NEW c \in KafkaCallers, Kafka!Ready(c)
  PROVE  /\ bCaller' \in [KafkaCallers -> KafkaCalling] /\ bLock' = NULL
         /\ bCaller'[c].at = "publish" /\ bCaller'[c].open
         /\ bCaller'[c].calls = bCaller[c].calls /\ bCaller'[c].outcome = bCaller[c].outcome
         /\ \A d \in KafkaCallers \ {c} : bCaller'[d] = bCaller[d]
BY DEF KafkaKinds, Kafka!Ready, KafkaCalling, KafkaPlaces

(* What changes neither the callers nor the consumer.                      *)
LEMMA KafkaLinkKeeps ==
  ASSUME KafkaInv, UNCHANGED << Kafka!replies, bLock, bCaller >>, Kafka!Closing => Kafka!Closing',
         bSupervisor' \in {"none", "sleep"}, bReady' \in BOOLEAN, bProducer' \in BOOLEAN, KafkaHooked'
  PROVE  KafkaInv'
BY DEF KafkaInv, KafkaKinds, KafkaLocking, KafkaListening, KafkaAnswers, Kafka!OwnAnswer, Kafka!replies, Kafka!Closing

LEMMA KafkaConnectionKeeps ==
  ASSUME KafkaInv,
         Kafka!Startup \/ Kafka!Reconnect \/ Kafka!Beat \/ Kafka!Beaten \/ Kafka!Lose \/ Kafka!Return \/ Kafka!Shutdown \/ Kafka!Closed
  PROVE  KafkaInv'
<1> USE DEF KafkaInv, KafkaKinds, KafkaHooked, Kafka!HooksAreDue, Kafka!Closing
<1>1. CASE Kafka!Startup \/ Kafka!Reconnect
  <2>1. Kafka!Closing' <=> Kafka!Closing
    BY <1>1 DEF Kafka!Startup, Kafka!Reconnect
  <2>2. CASE bServer
    <3>1. bSupervisor' = "none" /\ bProducer' = TRUE /\ bReady' = TRUE
      BY <1>1, <2>2 DEF Kafka!Startup, Kafka!Reconnect, Kafka!Connect
    <3>2. bPhase' # "new"
      BY <1>1 DEF Kafka!Startup, Kafka!Reconnect
    <3>3. KafkaHooked'
      BY <3>1, <3>2
    <3> QED BY <1>1, <2>1, <3>1, <3>3, KafkaLinkKeeps DEF Kafka!Startup, Kafka!Reconnect
  <2>3. CASE ~ bServer
    <3>1. bSupervisor' = "sleep" /\ UNCHANGED << bProducer, bReady >>
      BY <1>1, <2>3 DEF Kafka!Startup, Kafka!Reconnect, Kafka!Connect
    <3>2. KafkaHooked'
      BY <1>1, <3>1 DEF Kafka!Startup, Kafka!Reconnect
    <3> QED BY <1>1, <2>1, <3>1, <3>2, KafkaLinkKeeps DEF Kafka!Startup, Kafka!Reconnect
  <2> QED BY <2>2, <2>3 
<1>2. CASE Kafka!Beat \/ Kafka!Beaten \/ Kafka!Lose \/ Kafka!Return
  BY <1>2, KafkaLinkKeeps DEF Kafka!Beat, Kafka!Beaten, Kafka!Lose, Kafka!Return
<1>3. CASE Kafka!Shutdown \/ Kafka!Closed
  BY <1>3, KafkaLinkKeeps DEF Kafka!Shutdown, Kafka!Closed
<1> QED BY <1>1, <1>2, <1>3

LEMMA KafkaSendKeeps == ASSUME KafkaInv, NEW c \in KafkaCallers, Kafka!Send(c) PROVE KafkaInv'
<1>2. /\ bCaller' \in [KafkaCallers -> KafkaCalling]
      /\ bCaller[c].at = "idle" /\ bCaller'[c].at = "lock" /\ bCaller'[c].open = bCaller[c].open
      /\ bCaller'[c].calls = bCaller[c].calls + 1 /\ bCaller'[c].outcome = << >>
      /\ \A d \in KafkaCallers \ {c} : bCaller'[d] = bCaller[d]
  BY DEF Kafka!Send, KafkaInv, KafkaKinds, KafkaCalling, KafkaPlaces, KafkaOutcomes
<1>3. KafkaKinds'
  BY <1>2 DEF Kafka!Send, Kafka!link, Kafka!replies, KafkaInv, KafkaKinds, KafkaBeyond
<1>4. KafkaLocking' /\ KafkaListening'
  BY <1>2 DEF Kafka!Send, Kafka!link, Kafka!replies, KafkaInv, KafkaLocking, KafkaListening, KafkaHolding, KafkaBeyond, Kafka!Closing
<1>5. KafkaAnswers'
  <2> SUFFICES ASSUME NEW d \in KafkaCallers, NEW t \in Kafka!Topics, NEW i \in DOMAIN bLog[t]
               PROVE  /\ bLog[t][i][1] = d => bLog[t][i][2] <= bCaller'[d].calls
                      /\ bCaller'[d].at \in {"lock", "publish"} \cup KafkaHolding => bLog[t][i] # << d, bCaller'[d].calls >>
                      /\ ~ Kafka!Closing /\ bCaller'[d].open /\ i <= bPosition[t] => bLog[t][i] # << d, bCaller'[d].calls >>
    BY DEF Kafka!Send, Kafka!link, Kafka!replies, KafkaAnswers, Kafka!Closing
  <2>1. bLog[t][i] \in KafkaCallers \X Nat /\ (bLog[t][i][1] = d => bLog[t][i][2] <= bCaller[d].calls)
    BY DEF KafkaInv, KafkaKinds, KafkaAnswers
  <2>2. CASE d = c
    <3>1. bCaller[c].calls \in Nat /\ bCaller'[c].calls = bCaller[c].calls + 1
      BY <1>2 DEF KafkaInv, KafkaKinds, KafkaCalling
    <3> QED BY <2>1, <2>2, <3>1
  <2>3. CASE d # c
    BY <1>2, <2>3 DEF KafkaInv, KafkaAnswers
  <2> QED BY <2>2, <2>3
<1>6. KafkaHooked' /\ Kafka!OwnAnswer'
  BY <1>2 DEF Kafka!Send, Kafka!link, KafkaInv, KafkaHooked, Kafka!HooksAreDue, Kafka!OwnAnswer
<1> QED BY <1>3, <1>4, <1>5, <1>6 DEF KafkaInv

(* A caller that gets on or leaves, and keeps its call: the log and what   *)
(* is read of it stay.                                                     *)
LEMMA KafkaOnKeeps ==
  ASSUME KafkaInv, NEW c \in KafkaCallers, NEW s \in KafkaPlaces, bCaller' \in [KafkaCallers -> KafkaCalling],
         bCaller'[c].at = s, bCaller'[c].calls = bCaller[c].calls,
         bCaller'[c].outcome = bCaller[c].outcome,
         \A d \in KafkaCallers \ {c} : bCaller'[d] = bCaller[d],
         s \in {"lock", "publish"} \cup KafkaHolding => bCaller[c].at \in {"lock", "publish"} \cup KafkaHolding,
         bCaller'[c].open => bCaller[c].open \/ s = "publish",
         UNCHANGED << bLog, bPosition, bPhase, bSupervisor, bReady, bProducer >>
  PROVE  KafkaAnswers' /\ KafkaHooked' /\ Kafka!OwnAnswer'
<1>1. KafkaAnswers'
  <2> SUFFICES ASSUME NEW d \in KafkaCallers, NEW t \in Kafka!Topics, NEW i \in DOMAIN bLog[t]
               PROVE  /\ bLog[t][i][1] = d => bLog[t][i][2] <= bCaller'[d].calls
                      /\ bCaller'[d].at \in {"lock", "publish"} \cup KafkaHolding => bLog[t][i] # << d, bCaller'[d].calls >>
                      /\ ~ Kafka!Closing /\ bCaller'[d].open /\ i <= bPosition[t] => bLog[t][i] # << d, bCaller'[d].calls >>
    BY DEF KafkaAnswers, Kafka!Closing
  <2>1. CASE d = c
    BY <2>1 DEF KafkaInv, KafkaAnswers
  <2>2. CASE d # c
    BY <2>2 DEF KafkaInv, KafkaAnswers
  <2> QED BY <2>1, <2>2
<1> QED BY <1>1 DEF KafkaInv, KafkaHooked, Kafka!HooksAreDue, Kafka!OwnAnswer

LEMMA KafkaLockedKeeps == ASSUME KafkaInv, OneTopic, NEW c \in KafkaCallers, Kafka!Locked(c) PROVE KafkaInv'
<1> USE DEF KafkaPlaces, KafkaHolding, KafkaBeyond
<1>1. bCaller[c].at = "lock" /\ bLock = NULL /\ UNCHANGED << Kafka!link, bTopics, bAssigned, bReading, bLog, bPosition >>
  BY DEF Kafka!Locked
<1>0. \A d \in KafkaCallers : bCaller[d].at \notin KafkaHolding
  BY <1>1, KafkaAssumption DEF KafkaInv, KafkaLocking
<1>2. CASE bConsumer = "none" /\ bConsumer' = "made" /\ bLock' = c /\ Kafka!At(c, "start")
  <2>1. KafkaKinds' /\ KafkaAnswers' /\ KafkaHooked' /\ Kafka!OwnAnswer'
    BY <1>1, <1>2, KafkaMoved, KafkaOnKeeps DEF KafkaInv, KafkaKinds, Kafka!link
  <2>2. \A d \in KafkaCallers : bCaller[d].at \in KafkaBeyond => Kafka!Closing
    BY <1>2 DEF KafkaInv, KafkaListening
  <2>3. KafkaLocking' /\ KafkaListening'
    BY <1>1, <1>0, <1>2, <2>2, KafkaMoved DEF KafkaInv, KafkaLocking, KafkaListening, Kafka!Closing, Kafka!link
  <2> QED BY <2>1, <2>3 DEF KafkaInv
<1>3. CASE bConsumer # "none" /\ ReplyTopic[c] \notin bTopics /\ bLock' = c /\ Kafka!At(c, "assign") /\ UNCHANGED bConsumer
  <2>1. KafkaKinds' /\ KafkaAnswers' /\ KafkaHooked' /\ Kafka!OwnAnswer'
    BY <1>1, <1>3, KafkaMoved, KafkaOnKeeps DEF KafkaInv, KafkaKinds, Kafka!link
  <2>2. \A d \in KafkaCallers : bCaller[d].at \in KafkaBeyond => Kafka!Closing
    BY <1>3 DEF OneTopic, KafkaInv, KafkaListening
  <2>3. KafkaLocking' /\ KafkaListening'
    BY <1>1, <1>0, <1>3, <2>2, KafkaMoved DEF KafkaInv, KafkaLocking, KafkaListening, Kafka!Closing, Kafka!link
  <2> QED BY <2>1, <2>3 DEF KafkaInv
<1>4. CASE bConsumer # "none" /\ ReplyTopic[c] \in bTopics /\ Kafka!Ready(c) /\ UNCHANGED bConsumer
  <2>2. /\ bCaller' \in [KafkaCallers -> KafkaCalling] /\ bLock' = NULL
        /\ bCaller'[c].at = "publish" /\ bCaller'[c].open
        /\ bCaller'[c].calls = bCaller[c].calls /\ bCaller'[c].outcome = bCaller[c].outcome
        /\ \A d \in KafkaCallers \ {c} : bCaller'[d] = bCaller[d]
    BY <1>4, KafkaReadyStep DEF KafkaInv
  <2>3. KafkaKinds' /\ KafkaAnswers' /\ KafkaHooked' /\ Kafka!OwnAnswer'
    BY <1>1, <2>2, KafkaOnKeeps DEF KafkaInv, KafkaKinds, Kafka!link
  <2>5. KafkaLocking' /\ KafkaListening'
    BY <1>1, <1>4, <2>2, <1>0 DEF KafkaInv, KafkaLocking, KafkaListening, Kafka!Closing, Kafka!link
  <2> QED BY <2>3, <2>5 DEF KafkaInv
<1> QED BY <1>2, <1>3, <1>4 DEF Kafka!Locked

LEMMA KafkaMakeKeeps == ASSUME KafkaInv, NEW c \in KafkaCallers, Kafka!Started(c) \/ Kafka!Assign(c) PROVE KafkaInv'
<1> USE DEF KafkaPlaces, KafkaHolding, KafkaBeyond
<1>1. CASE Kafka!Started(c)
  <2>1. Kafka!At(c, "assign") /\ bConsumer' = "started" /\ UNCHANGED << Kafka!link, bLock, bTopics, bAssigned, bReading, bLog, bPosition >>
    BY <1>1 DEF Kafka!Started
  <2>2. bCaller[c].at = "start"
    BY <1>1 DEF Kafka!Started
  <2>3. KafkaKinds' /\ KafkaAnswers' /\ KafkaHooked' /\ Kafka!OwnAnswer'
    BY <2>1, <2>2, KafkaMoved, KafkaOnKeeps DEF KafkaInv, KafkaKinds, Kafka!link
  <2>4. KafkaLocking' /\ KafkaListening'
    BY <2>1, <2>2, KafkaMoved DEF KafkaInv, KafkaLocking, KafkaListening, Kafka!Closing, Kafka!link
  <2> QED BY <2>3, <2>4 DEF KafkaInv
<1>2. CASE Kafka!Assign(c)
  <2>1. bCaller[c].at = "assign" /\ bLock = c /\ UNCHANGED << Kafka!link, bConsumer, bReading, bLog, bPosition >>
    BY <1>2 DEF Kafka!Assign, KafkaInv, KafkaLocking
  <2>2. CASE bConsumer = "started" /\ ReplyTopic[c] \in {"p", "q"}
    <3>1. bTopics' = bTopics \cup {ReplyTopic[c]} /\ bAssigned' = bTopics' /\ Kafka!At(c, "seek") /\ bLock' = bLock
      BY <1>2, <2>2 DEF Kafka!Assign
    <3>0. ReplyTopic[c] \in Kafka!Topics
      BY DEF Kafka!Topics
    <3>2. KafkaKinds' /\ KafkaAnswers' /\ KafkaHooked' /\ Kafka!OwnAnswer'
      BY <2>1, <3>0, <3>1, KafkaMoved, KafkaOnKeeps DEF KafkaInv, KafkaKinds, Kafka!link
    <3>3. KafkaLocking' /\ KafkaListening'
      BY <2>1, <2>2, <3>1, KafkaMoved DEF KafkaInv, KafkaLocking, KafkaListening, Kafka!Closing, Kafka!link
    <3> QED BY <3>2, <3>3 DEF KafkaInv
  <2>3. CASE ~ (bConsumer = "started" /\ ReplyTopic[c] \in {"p", "q"})
    <3>1. bLock' = NULL /\ Kafka!At(c, "idle") /\ UNCHANGED << bTopics, bAssigned >>
      BY <1>2, <2>3 DEF Kafka!Assign, Kafka!Fail
    <3>2. KafkaKinds' /\ KafkaAnswers' /\ KafkaHooked' /\ Kafka!OwnAnswer'
      BY <2>1, <3>1, KafkaMoved, KafkaOnKeeps DEF KafkaInv, KafkaKinds, Kafka!link
    <3>3. \A d \in KafkaCallers \ {c} : bCaller[d].at \notin KafkaHolding
      BY <2>1 DEF KafkaInv, KafkaLocking
    <3>4. KafkaLocking' /\ KafkaListening'
      BY <2>1, <3>1, <3>3, KafkaMoved DEF KafkaInv, KafkaLocking, KafkaListening, Kafka!Closing, Kafka!link
    <3> QED BY <3>2, <3>4 DEF KafkaInv
  <2> QED BY <2>2, <2>3
<1> QED BY <1>1, <1>2

(* The consumer is moved to the ends while nobody waits for what it        *)
(* passes over.                                                            *)
LEMMA KafkaSoughtKeeps == ASSUME KafkaInv, OneTopic, NEW c \in KafkaCallers, Kafka!Sought(c) PROVE KafkaInv'
<1> USE DEF KafkaPlaces, KafkaHolding, KafkaBeyond
<1>1. /\ bCaller[c].at = "seek" /\ bLock = c /\ UNCHANGED << Kafka!link, bConsumer, bTopics, bAssigned, bLog >>
      /\ bPosition' = [t \in Kafka!Topics |-> IF t \in bAssigned THEN Len(bLog[t]) ELSE bPosition[t]]
      /\ bReading' = TRUE /\ Kafka!Ready(c)
  BY DEF Kafka!Sought, KafkaInv, KafkaLocking
<1>3. /\ bCaller' \in [KafkaCallers -> KafkaCalling] /\ bLock' = NULL
      /\ bCaller'[c].at = "publish" /\ bCaller'[c].open
      /\ bCaller'[c].calls = bCaller[c].calls /\ bCaller'[c].outcome = bCaller[c].outcome
      /\ \A d \in KafkaCallers \ {c} : bCaller'[d] = bCaller[d]
  BY <1>1, KafkaReadyStep DEF KafkaInv
<1>4. KafkaKinds'
  <2>1. \A t \in Kafka!Topics : Len(bLog[t]) \in Nat /\ bPosition'[t] \in Nat /\ bPosition'[t] <= Len(bLog[t])
    BY <1>1 DEF KafkaInv, KafkaKinds
  <2> QED BY <1>1, <1>3, <2>1 DEF KafkaInv, KafkaKinds, Kafka!link
<1>5. KafkaLocking' /\ KafkaListening'
  <2>1. ~ Kafka!Closing => ReplyTopic[c] \in bTopics
    BY <1>1 DEF OneTopic, KafkaInv, KafkaListening
  <2> QED BY <1>1, <1>3, <2>1 DEF KafkaInv, KafkaLocking, KafkaListening, Kafka!Closing, Kafka!link
<1>6. KafkaAnswers'
  <2> SUFFICES ASSUME NEW d \in KafkaCallers, NEW t \in Kafka!Topics, NEW i \in DOMAIN bLog[t]
               PROVE  /\ bLog[t][i][1] = d => bLog[t][i][2] <= bCaller'[d].calls
                      /\ bCaller'[d].at \in {"lock", "publish"} \cup KafkaHolding => bLog[t][i] # << d, bCaller'[d].calls >>
                      /\ ~ Kafka!Closing /\ bCaller'[d].open => bLog[t][i] # << d, bCaller'[d].calls >>
    BY <1>1 DEF KafkaAnswers, Kafka!Closing, Kafka!link
  <2>1. CASE d = c
    BY <1>1, <1>3, <2>1 DEF KafkaInv, KafkaAnswers
  <2>2. CASE d # c
    <3>1. ~ Kafka!Closing => ~ bCaller[d].open
      BY <1>1 DEF KafkaInv, KafkaKinds, KafkaListening
    <3> QED BY <1>3, <2>2, <3>1 DEF KafkaInv, KafkaAnswers
  <2> QED BY <2>1, <2>2
<1>7. KafkaHooked' /\ Kafka!OwnAnswer'
  BY <1>1, <1>3 DEF KafkaInv, KafkaHooked, Kafka!HooksAreDue, Kafka!OwnAnswer, Kafka!link
<1> QED BY <1>4, <1>5, <1>6, <1>7 DEF KafkaInv

LEMMA KafkaPublishKeeps ==
  ASSUME KafkaInv, NEW c \in KafkaCallers, Kafka!Published(c, TRUE) \/ Kafka!Published(c, FALSE) \/ Kafka!Wakes(c) \/ Kafka!GivesUp(c)
  PROVE  KafkaInv'
<1> USE DEF KafkaPlaces, KafkaHolding, KafkaBeyond
<1>1. /\ bCaller[c].at \in KafkaBeyond /\ UNCHANGED << Kafka!link, Kafka!replies, bLock >>
      /\ bCaller' \in [KafkaCallers -> KafkaCalling] /\ bCaller'[c].at \in {"idle", "wait"}
      /\ bCaller'[c].calls = bCaller[c].calls /\ bCaller'[c].outcome = bCaller[c].outcome
      /\ bCaller'[c].at = "idle" => ~ bCaller'[c].open
      /\ bCaller'[c].open => bCaller[c].open
      /\ \A d \in KafkaCallers \ {c} : bCaller'[d] = bCaller[d]
  <2>1. CASE Kafka!Published(c, TRUE)
    BY <2>1, KafkaMoved DEF Kafka!Published, KafkaInv
  <2>2. CASE Kafka!Published(c, FALSE)
    <3>1. bCaller' = [bCaller EXCEPT ![c].at = "idle", ![c].open = FALSE]
      BY <2>2 DEF Kafka!Published
    <3>2. bCaller[c].at = "publish" /\ UNCHANGED << Kafka!link, Kafka!replies, bLock >>
      BY <2>2 DEF Kafka!Published
    <3> QED BY <3>1, <3>2 DEF KafkaInv, KafkaKinds, KafkaCalling
  <2>4. CASE Kafka!Wakes(c)
    BY <2>4, KafkaMoved DEF Kafka!Wakes, KafkaInv
  <2>3. CASE Kafka!GivesUp(c)
    BY <2>3 DEF Kafka!GivesUp, KafkaInv, KafkaKinds, KafkaCalling
  <2> QED BY <2>1, <2>2, <2>3, <2>4
<1>2. KafkaKinds' /\ KafkaAnswers' /\ KafkaHooked' /\ Kafka!OwnAnswer'
  BY <1>1, KafkaOnKeeps DEF KafkaInv, KafkaKinds, Kafka!link, Kafka!replies
<1>3. KafkaLocking' /\ KafkaListening'
  BY <1>1 DEF KafkaInv, KafkaLocking, KafkaListening, Kafka!Closing, Kafka!link, Kafka!replies
<1> QED BY <1>2, <1>3 DEF KafkaInv

LEMMA KafkaAnswerKeeps == ASSUME KafkaInv, NEW c \in KafkaCallers, Kafka!Answer(c) PROVE KafkaInv'
<1> DEFINE t == ReplyTopic[c]
           reply == << c, bCaller[c].calls >>
<1>1. /\ t \in Kafka!Topics /\ bLog' = [bLog EXCEPT ![t] = Append(@, reply)] /\ bCaller[c].at = "wait"
      /\ reply \in KafkaCallers \X Nat
      /\ UNCHANGED << Kafka!link, bConsumer, bTopics, bAssigned, bReading, bPosition, bLock, bCaller >>
  BY DEF Kafka!Answer, Kafka!Topics, KafkaInv, KafkaKinds, KafkaCalling
<1>2. bLog[t] \in Seq(KafkaCallers \X Nat)
  BY <1>1 DEF KafkaInv, KafkaKinds
<1>3. /\ bLog' \in [Kafka!Topics -> Seq(KafkaCallers \X Nat)] /\ Len(bLog'[t]) = Len(bLog[t]) + 1
      /\ bLog'[t][Len(bLog[t]) + 1] = reply
      /\ \A i \in DOMAIN bLog[t] : bLog'[t][i] = bLog[t][i]
      /\ DOMAIN bLog'[t] = DOMAIN bLog[t] \cup {Len(bLog[t]) + 1}
      /\ \A u \in Kafka!Topics \ {t} : bLog'[u] = bLog[u]
  BY <1>1, <1>2 DEF KafkaInv, KafkaKinds
<1>4. KafkaKinds'
  <2>1. ASSUME NEW u \in Kafka!Topics PROVE bPosition[u] <= Len(bLog'[u])
    <3>1. bPosition[u] \in Nat /\ bLog[u] \in Seq(KafkaCallers \X Nat) /\ bPosition[u] <= Len(bLog[u])
      BY DEF KafkaInv, KafkaKinds
    <3>2. Len(bLog[u]) \in Nat
      BY <3>1
    <3>3. Len(bLog'[u]) \in {Len(bLog[u]), Len(bLog[u]) + 1}
      BY <1>3
    <3> QED BY <3>1, <3>2, <3>3
  <2> QED BY <1>1, <1>3, <2>1 DEF KafkaInv, KafkaKinds, Kafka!link
<1>5. KafkaLocking' /\ KafkaListening' /\ KafkaHooked' /\ Kafka!OwnAnswer'
  BY <1>1 DEF KafkaInv, KafkaLocking, KafkaListening, Kafka!Closing, Kafka!link, KafkaHooked, Kafka!HooksAreDue, Kafka!OwnAnswer
<1>6. KafkaAnswers'
  <2> SUFFICES ASSUME NEW d \in KafkaCallers, NEW u \in Kafka!Topics, NEW i \in DOMAIN bLog'[u]
               PROVE  /\ bLog'[u][i][1] = d => bLog'[u][i][2] <= bCaller[d].calls
                      /\ bCaller[d].at \in {"lock", "publish"} \cup KafkaHolding => bLog'[u][i] # << d, bCaller[d].calls >>
                      /\ ~ Kafka!Closing /\ bCaller[d].open /\ i <= bPosition[u] => bLog'[u][i] # << d, bCaller[d].calls >>
    BY <1>1 DEF KafkaAnswers, Kafka!Closing, Kafka!link
  <2>1. CASE u # t \/ i \in DOMAIN bLog[t]
    <3>1. i \in DOMAIN bLog[u] /\ bLog'[u][i] = bLog[u][i]
      BY <1>3, <2>1
    <3> QED BY <3>1 DEF KafkaInv, KafkaAnswers
  <2>2. CASE u = t /\ i = Len(bLog[t]) + 1
    <3>1. bPosition[t] <= Len(bLog[t]) /\ bPosition[t] \in Nat /\ Len(bLog[t]) \in Nat
      BY <1>1, <1>2 DEF KafkaInv, KafkaKinds
    <3>2. bLog'[u][i] = reply /\ bCaller[c].calls \in Nat /\ ~ (i <= bPosition[u])
      BY <1>1, <1>3, <2>2, <3>1 DEF KafkaInv, KafkaKinds, KafkaCalling
    <3> QED BY <1>1, <3>2 DEF KafkaHolding
  <2> QED BY <1>3, <2>1, <2>2
<1> QED BY <1>4, <1>5, <1>6 DEF KafkaInv

(* The loop goes on by one: the reply is its caller's, or nobody's.        *)
LEMMA KafkaReadKeeps == ASSUME KafkaInv, NEW t \in Kafka!Topics, Kafka!Read(t) PROVE KafkaInv'
<1> DEFINE reply == bLog[t][bPosition[t] + 1]
<1>1. /\ bPosition[t] < Len(bLog[t]) /\ bPosition' = [bPosition EXCEPT ![t] = @ + 1]
      /\ UNCHANGED << Kafka!link, bConsumer, bTopics, bAssigned, bReading, bLog, bLock >>
      /\ bCaller' = [c \in KafkaCallers |-> IF Kafka!Fits(reply, c)
                                       THEN [bCaller[c] EXCEPT !.open = FALSE, !.outcome = reply]
                                       ELSE bCaller[c]]
  BY DEF Kafka!Read
<1>2. bLog[t] \in Seq(KafkaCallers \X Nat) /\ bPosition[t] \in Nat /\ bPosition[t] + 1 \in DOMAIN bLog[t]
  <2>1. bLog[t] \in Seq(KafkaCallers \X Nat) /\ bPosition[t] \in Nat
    BY DEF KafkaInv, KafkaKinds
  <2>2. Len(bLog[t]) \in Nat
    BY <2>1
  <2>3. bPosition[t] < Len(bLog[t])
    BY <1>1
  <2>4. bPosition[t] + 1 \in 1..Len(bLog[t])
    BY <2>1, <2>2, <2>3
  <2> QED BY <2>1, <2>4
<1>3. reply \in KafkaCallers \X Nat
  BY <1>2
<1>4. ASSUME NEW c \in KafkaCallers
      PROVE  /\ bCaller'[c] \in KafkaCalling
             /\ bCaller'[c].at = bCaller[c].at /\ bCaller'[c].calls = bCaller[c].calls
             /\ bCaller'[c].open => bCaller[c].open /\ reply # << c, bCaller[c].calls >>
             /\ bCaller'[c].outcome \in {bCaller[c].outcome, << c, bCaller[c].calls >>}
  <2>1. bCaller[c] \in KafkaCalling
    BY DEF KafkaInv, KafkaKinds
  <2>2. CASE Kafka!Fits(reply, c)
    <3>1. bCaller'[c] = [bCaller[c] EXCEPT !.open = FALSE, !.outcome = reply]
      BY <1>1, <2>2
    <3>2. reply = << c, bCaller[c].calls >>
      BY <2>2 DEF Kafka!Fits
    <3> QED BY <1>3, <2>1, <3>1, <3>2 DEF KafkaCalling, KafkaOutcomes
  <2>3. CASE ~ Kafka!Fits(reply, c)
    BY <1>1, <2>1, <2>3 DEF Kafka!Fits
  <2> QED BY <2>2, <2>3
<1>5. bCaller' \in [KafkaCallers -> KafkaCalling]
  BY <1>1, <1>4
<1>6. KafkaKinds'
  <2>1. bPosition \in [Kafka!Topics -> Nat] /\ \A u \in Kafka!Topics : bPosition[u] <= Len(bLog[u])
    BY DEF KafkaInv, KafkaKinds
  <2>2. bPosition[t] + 1 <= Len(bLog[t])
    BY <1>2
  <2>3. bPosition' \in [Kafka!Topics -> Nat] /\ \A u \in Kafka!Topics : bPosition'[u] <= Len(bLog[u])
    <3>1. bPosition' = [bPosition EXCEPT ![t] = @ + 1]
      BY <1>1
    <3> QED BY <2>1, <2>2, <3>1
  <2> QED BY <1>1, <1>4, <1>5, <2>3 DEF KafkaInv, KafkaKinds, Kafka!link
<1>7. KafkaLocking' /\ KafkaListening' /\ KafkaHooked'
  BY <1>1, <1>4 DEF KafkaInv, KafkaLocking, KafkaListening, Kafka!Closing, Kafka!link, KafkaHooked, Kafka!HooksAreDue
<1>8. Kafka!OwnAnswer'
  BY <1>4 DEF KafkaInv, Kafka!OwnAnswer
<1>9. KafkaAnswers'
  <2> SUFFICES ASSUME NEW d \in KafkaCallers, NEW u \in Kafka!Topics, NEW i \in DOMAIN bLog[u]
               PROVE  /\ bLog[u][i][1] = d => bLog[u][i][2] <= bCaller[d].calls
                      /\ bCaller[d].at \in {"lock", "publish"} \cup KafkaHolding => bLog[u][i] # << d, bCaller[d].calls >>
                      /\ ~ Kafka!Closing /\ bCaller'[d].open /\ i <= bPosition'[u] => bLog[u][i] # << d, bCaller[d].calls >>
    <3>1. bLog' = bLog /\ bPhase' = bPhase
      BY <1>1 DEF Kafka!link
    <3>2. \A d \in KafkaCallers : bCaller'[d].at = bCaller[d].at /\ bCaller'[d].calls = bCaller[d].calls
      BY <1>4
    <3> QED BY <3>1, <3>2 DEF KafkaAnswers, Kafka!Closing
  <2>1. bLog[u] \in Seq(KafkaCallers \X Nat) /\ i \in Nat /\ bPosition[u] \in Nat
    BY DEF KafkaInv, KafkaKinds
  <2>2. i <= bPosition'[u] => i <= bPosition[u] \/ (u = t /\ i = bPosition[t] + 1)
    <3>1. bPosition' = [bPosition EXCEPT ![t] = @ + 1] /\ bPosition \in [Kafka!Topics -> Nat]
      BY <1>1 DEF KafkaInv, KafkaKinds
    <3> QED BY <2>1, <3>1
  <2> QED BY <1>4, <2>2 DEF KafkaInv, KafkaAnswers
<1> QED BY <1>6, <1>7, <1>8, <1>9 DEF KafkaInv

LEMMA KafkaCloseKeeps == ASSUME KafkaInv, Kafka!CloseRpc PROVE KafkaInv'
<1>1. /\ bTopics' = {} /\ bAssigned' = {} /\ bReading' = FALSE /\ bPhase = "closing" /\ bPhase' = "rpc closed"
      /\ UNCHANGED << bServer, bLosses, bProducer, bConnected, bSupervisor, bHealth, bReady, bLog, bPosition, bLock >>
      /\ bCaller' = [c \in KafkaCallers |-> IF bCaller[c].open
                      THEN [bCaller[c] EXCEPT !.open = FALSE, !.outcome = << "cancelled" >>] ELSE bCaller[c]]
  BY DEF Kafka!CloseRpc, Kafka!Resolve
<1>2. ASSUME NEW c \in KafkaCallers
      PROVE  /\ bCaller'[c] \in KafkaCalling /\ ~ bCaller'[c].open
             /\ bCaller'[c].at = bCaller[c].at /\ bCaller'[c].calls = bCaller[c].calls
             /\ bCaller'[c].outcome \in {bCaller[c].outcome, << "cancelled" >>}
  <2>1. bCaller[c] \in KafkaCalling
    BY DEF KafkaInv, KafkaKinds
  <2>2. CASE bCaller[c].open
    <3>1. bCaller'[c] = [bCaller[c] EXCEPT !.open = FALSE, !.outcome = << "cancelled" >>]
      BY <1>1, <2>2
    <3> QED BY <2>1, <3>1 DEF KafkaCalling, KafkaOutcomes
  <2>3. CASE ~ bCaller[c].open
    BY <1>1, <2>1, <2>3
  <2> QED BY <2>2, <2>3
<1>3. KafkaKinds'
  BY <1>1, <1>2 DEF KafkaInv, KafkaKinds
<1>4. KafkaLocking' /\ KafkaListening' /\ KafkaHooked' /\ Kafka!OwnAnswer'
  BY <1>1, <1>2 DEF KafkaInv, KafkaLocking, KafkaListening, Kafka!Closing, KafkaHooked, Kafka!HooksAreDue, Kafka!OwnAnswer
<1>5. KafkaAnswers'
  <2>1. bLog' = bLog /\ KafkaAnswers
    BY <1>1 DEF KafkaInv
  <2>2. \A c \in KafkaCallers : bCaller'[c].at = bCaller[c].at /\ bCaller'[c].calls = bCaller[c].calls /\ ~ bCaller'[c].open
    BY <1>2
  <2> QED BY <2>1, <2>2 DEF KafkaAnswers
<1> QED BY <1>3, <1>4, <1>5 DEF KafkaInv

LEMMA KafkaNext == ASSUME KafkaInv, OneTopic, [Kafka!Next]_kafkaVars PROVE KafkaInv'
<1>1. CASE UNCHANGED kafkaVars
  BY <1>1, KafkaLinkKeeps DEF kafkaVars, Kafka!replies, KafkaInv, KafkaKinds, KafkaHooked, Kafka!HooksAreDue, Kafka!Closing
<1>2. ASSUME NEW c \in KafkaCallers,
             \/ Kafka!Send(c) \/ Kafka!Locked(c) \/ Kafka!Started(c) \/ Kafka!Assign(c) \/ Kafka!Sought(c)
             \/ Kafka!Published(c, TRUE) \/ Kafka!Published(c, FALSE) \/ Kafka!Answer(c) \/ Kafka!Wakes(c) \/ Kafka!GivesUp(c)
      PROVE  KafkaInv'
  BY <1>2, KafkaSendKeeps, KafkaLockedKeeps, KafkaMakeKeeps, KafkaSoughtKeeps, KafkaPublishKeeps, KafkaAnswerKeeps
<1>3. ASSUME Kafka!LoopDies PROVE KafkaInv'
  BY <1>3 DEF Kafka!LoopDies
<1> QED BY <1>1, <1>2, <1>3, KafkaConnectionKeeps, KafkaCloseKeeps, KafkaReadKeeps DEF Kafka!Next

LEMMA KafkaInvIsSafe == KafkaInv => Kafka!BrokerSafe
<1> SUFFICES ASSUME KafkaInv PROVE Kafka!BrokerSafe
  OBVIOUS
<1>1. Kafka!NoDeafWait
  <2> SUFFICES ASSUME bPhase = "open", NEW c \in KafkaCallers, bCaller[c].at = "wait", bCaller[c].open
               PROVE  /\ bReading /\ ReplyTopic[c] \in bAssigned
                      /\ \A i \in 1..bPosition[ReplyTopic[c]] : bLog[ReplyTopic[c]][i] # << c, bCaller[c].calls >>
    BY DEF Kafka!NoDeafWait
  <2>1. ReplyTopic[c] \in Kafka!Topics
    BY DEF Kafka!Topics
  <2>2. 1..bPosition[ReplyTopic[c]] \subseteq DOMAIN bLog[ReplyTopic[c]]
    BY <2>1 DEF KafkaInv, KafkaKinds
  <2>3. bPosition[ReplyTopic[c]] \in Nat
    BY <2>1 DEF KafkaInv, KafkaKinds
  <2>4. ASSUME NEW i \in 1..bPosition[ReplyTopic[c]] PROVE bLog[ReplyTopic[c]][i] # << c, bCaller[c].calls >>
    BY <2>1, <2>2, <2>3 DEF KafkaInv, KafkaAnswers, Kafka!Closing
  <2> QED BY <2>4 DEF KafkaInv, KafkaKinds, KafkaListening, Kafka!Closing, KafkaBeyond
<1> QED BY <1>1 DEF Kafka!BrokerSafe, KafkaInv, KafkaHooked

-----------------------------------------------------------------------------
(***************************************************************************)
(* The RabbitMQ broker: the server is told of an exchange what it was told *)
(* before, calls share the one channel that is not closed, and nobody      *)
(* waits on one that went with its connection.                             *)
(***************************************************************************)
RabbitStages == {"idle", "lock", "declare", "publish", "rpc lock", "rpc", "open", "ask", "wait"}
RabbitAnswers == {NULL, "unavailable", "other kind", "ok", "partial", "lost", "refused", "timeout"}
RabbitAllKinds == {NULL, Rabbit!DefaultKind} \cup {Op[u].kind : u \in RabbitUsers}
                  \cup {OnServer[n] : n \in DOMAIN OnServer}

RabbitTask == [at : RabbitStages, calls : Nat, kind : RabbitAllKinds, conn : Nat, chan : Nat, flying : Nat,
         sent : Nat, stored : Nat, left : Nat, outcome : RabbitAnswers]
RabbitKinds ==
  /\ eTask \in [RabbitUsers -> RabbitTask] /\ eExchanges \in [DOMAIN OnServer -> RabbitAllKinds]
  /\ eKnown \in [Rabbit!Names -> RabbitAllKinds] /\ eEpoch \in Nat /\ eChannels \in Nat /\ eRpc \in 0..eChannels
  /\ eDead \subseteq 1..eChannels /\ eUp \in BOOLEAN
  /\ eSupervisor \in {"none", "sleep"} /\ eHooks \subseteq Hooks /\ DOMAIN eRan = Hooks
  /\ ePhase \in {"new", "open", "closing", "closed"}
(* A call: it holds the lock where it needs it, has a channel that is the  *)
(* shared one if it is not closed, and nobody waits deaf.                  *)
RabbitPlaced(u) ==
  /\ eTask[u].at \in {"declare", "rpc"} => eLock = u
  /\ eTask[u].at = "declare" => eKnown[Op[u].name] = NULL
  /\ eTask[u].at \in {"lock", "declare"} => Op[u].op = "publish"
  /\ eTask[u].at \in {"rpc lock", "rpc", "open"} => Op[u].op = "send"
  /\ eTask[u].at = "rpc" => eRpc = 0 \/ eRpc \in eDead
  /\ eTask[u].at \in {"open", "ask", "wait"} =>
       /\ eTask[u].chan \in 1..eChannels
       /\ eTask[u].chan \notin eDead => eTask[u].chan = eRpc
  /\ eTask[u].at = "wait" /\ ePhase # "closing" =>
       eUp /\ (eTask[u].chan \in eDead => eTask[u].chan \in eRefused)
  /\ eTask[u].flying <= Parallel /\ eTask[u].sent <= eTask[u].stored

(* The supervisor makes the first connection; until then the server has    *)
(* been told nothing.                                                      *)
RabbitOnce ==
  /\ eUp => eEpoch > 0 /\ ePhase # "closed"
  /\ ePhase = "new" => eEpoch = 0 /\ eSupervisor = "none"
  /\ eSupervisor = "sleep" => eEpoch = 0
  /\ eEpoch = 0 => eExchanges = OnServer
  /\ ~ eUp => 1..eChannels \subseteq eDead

(* What was declared by publishing is remembered.                          *)
RabbitRemembered ==
  /\ Rabbit!KnownIsTrue
  /\ ePhase # "closed" => \A u \in RabbitUsers : Op[u].op = "publish" /\ eKnown[Op[u].name] = NULL =>
       eExchanges[Op[u].name] = OnServer[Op[u].name]

RabbitInv == RabbitKinds /\ RabbitOnce /\ RabbitRemembered /\ Rabbit!HooksAreDue /\ \A u \in RabbitUsers : RabbitPlaced(u)

LEMMA RabbitInit == Rabbit!Init => RabbitInv
<1> SUFFICES ASSUME Rabbit!Init PROVE RabbitInv
  OBVIOUS
<1>1. [at |-> "idle", calls |-> 0, kind |-> NULL, conn |-> 0, chan |-> 0,
       flying |-> 0, sent |-> 0, stored |-> 0, left |-> 0, outcome |-> NULL] \in RabbitTask
  BY DEF RabbitTask, RabbitStages, RabbitAnswers, RabbitAllKinds
<1>2. RabbitKinds
  <2>1. eTask \in [RabbitUsers -> RabbitTask] /\ eKnown \in [Rabbit!Names -> RabbitAllKinds]
    BY <1>1 DEF Rabbit!Init, RabbitAllKinds
  <2>2. eRpc \in 0..eChannels /\ eDead \subseteq 1..eChannels /\ eChannels \in Nat /\ eEpoch \in Nat
    BY DEF Rabbit!Init
  <2>3. OnServer \in [DOMAIN OnServer -> RabbitAllKinds]
    BY RabbitAssumption DEF RabbitAllKinds
  <2> QED BY <2>1, <2>2, <2>3, RabbitAssumption DEF Rabbit!Init, RabbitKinds
<1>3. RabbitOnce /\ RabbitRemembered /\ Rabbit!HooksAreDue
  BY RabbitAssumption DEF Rabbit!Init, RabbitOnce, RabbitRemembered, Rabbit!KnownIsTrue, Rabbit!HooksAreDue, Rabbit!Names
<1>4. \A u \in RabbitUsers : RabbitPlaced(u)
  <2>1. Parallel \in Nat
    BY RabbitAssumption
  <2>2. \A u \in RabbitUsers : eTask[u].at = "idle" /\ eTask[u].flying = 0 /\ eTask[u].sent = 0 /\ eTask[u].stored = 0
    BY DEF Rabbit!Init
  <2>3. \A u \in RabbitUsers : eTask[u].flying <= Parallel /\ eTask[u].sent <= eTask[u].stored
    BY <2>1, <2>2
  <2> QED BY <2>2, <2>3 DEF RabbitPlaced
<1> QED BY <1>2, <1>3, <1>4 DEF RabbitInv

(* A connection made for the first time: all calls are over, or have found *)
(* that there is none.                                                     *)
LEMMA RabbitConnectKeeps == ASSUME RabbitInv, Rabbit!Startup \/ Rabbit!Reconnect PROVE RabbitInv'
<1>1. eEpoch = 0 /\ eExchanges = OnServer /\ ~ eUp
  BY DEF Rabbit!Startup, Rabbit!Reconnect, RabbitInv, RabbitOnce, RabbitKinds
<1>2. /\ UNCHANGED << eServer, eHooks, eRan, eLosses, eExchanges, eLock, eRpc, eChannels, eDead, eRefused, eTask >>
      /\ Rabbit!TryConnect /\ ePhase' \in {"open", ePhase} /\ ePhase' \notin {"new", "closed", "closing"} /\ ePhase \notin {"closing", "closed"}
  BY DEF Rabbit!Startup, Rabbit!Reconnect, Rabbit!Closing, RabbitInv, RabbitOnce, RabbitKinds
<1>3. CASE eServer
  <2>1. eUp' = TRUE /\ eEpoch' = eEpoch + 1 /\ eRunning' = eRunning \cup eHooks /\ eSupervisor' = "none" /\ eKnown' = [n \in Rabbit!Names |-> NULL]
    BY <1>2, <1>3 DEF Rabbit!TryConnect, Rabbit!Connected
  <2>2. RabbitKinds'
    BY <1>2, <2>1, RabbitAssumption DEF RabbitInv, RabbitKinds, RabbitAllKinds
  <2>3. RabbitOnce' /\ RabbitRemembered' /\ Rabbit!HooksAreDue'
    BY <1>1, <1>2, <2>1 DEF RabbitInv, RabbitOnce, RabbitKinds, RabbitRemembered, Rabbit!KnownIsTrue, Rabbit!HooksAreDue, Rabbit!Names
  <2>4. ASSUME NEW u \in RabbitUsers PROVE RabbitPlaced(u)'
    <3>1. RabbitPlaced(u)
      BY DEF RabbitInv
    <3>2. Op[u].name \in Rabbit!Names
      BY DEF Rabbit!Names
    <3> QED BY <1>2, <2>1, <3>1, <3>2 DEF RabbitPlaced
  <2> QED BY <2>2, <2>3, <2>4 DEF RabbitInv
<1>4. CASE ~ eServer
  <2>1. eSupervisor' = "sleep" /\ UNCHANGED << eUp, eEpoch, eRunning, eKnown >>
    BY <1>2, <1>4 DEF Rabbit!TryConnect
  <2>2. RabbitKinds'
    BY <1>2, <2>1 DEF RabbitInv, RabbitKinds, Rabbit!Names
  <2>3. RabbitOnce' /\ RabbitRemembered' /\ Rabbit!HooksAreDue'
    BY <1>1, <1>2, <2>1 DEF RabbitInv, RabbitOnce, RabbitKinds, RabbitRemembered, Rabbit!KnownIsTrue, Rabbit!HooksAreDue
  <2>4. ASSUME NEW u \in RabbitUsers PROVE RabbitPlaced(u)'
    <3>1. RabbitPlaced(u)
      BY DEF RabbitInv
    <3> QED BY <1>2, <2>1, <3>1 DEF RabbitPlaced
  <2> QED BY <2>2, <2>3, <2>4 DEF RabbitInv
<1> QED BY <1>3, <1>4

LEMMA RabbitLinkKeeps ==
  ASSUME RabbitInv, Rabbit!ServerBack \/ Rabbit!Restored \/ Rabbit!Stop \/ \E h \in Hooks : Rabbit!OnReady(h) \/ Rabbit!RunHook(h)
  PROVE  RabbitInv'
<1>1. /\ UNCHANGED << eExchanges, eKnown, eLock, eRpc, eChannels, eDead, eRefused, eTask >>
      /\ ePhase' = ePhase \/ (ePhase' = "closing" /\ ePhase = "open")
  BY DEF Rabbit!ServerBack, Rabbit!Restored, Rabbit!Stop, Rabbit!OnReady, Rabbit!RunHook
<1>2. eUp => eUp'
  BY DEF Rabbit!ServerBack, Rabbit!Restored, Rabbit!Stop, Rabbit!OnReady, Rabbit!RunHook
<1>3. RabbitKinds'
  <2>1. CASE Rabbit!ServerBack \/ Rabbit!Stop
    BY <1>1, <2>1 DEF Rabbit!ServerBack, Rabbit!Stop, RabbitInv, RabbitKinds
  <2>2. CASE Rabbit!Restored
    BY <1>1, <2>2 DEF Rabbit!Restored, RabbitInv, RabbitKinds, Rabbit!Connected
  <2>3. ASSUME NEW h \in Hooks, Rabbit!OnReady(h) PROVE RabbitKinds'
    BY <1>1, <2>3 DEF Rabbit!OnReady, RabbitInv, RabbitKinds
  <2>4. ASSUME NEW h \in Hooks, Rabbit!RunHook(h) PROVE RabbitKinds'
    BY <1>1, <2>4 DEF Rabbit!RunHook, RabbitInv, RabbitKinds
  <2> QED BY <2>1, <2>2, <2>3, <2>4
<1>4. RabbitOnce'
  <2>1. CASE Rabbit!Restored
    BY <1>1, <2>1 DEF Rabbit!Restored, Rabbit!Connected, Rabbit!Closing, RabbitInv, RabbitKinds, RabbitOnce
  <2>2. CASE ~ Rabbit!Restored
    <3>1. UNCHANGED << eUp, eEpoch >> /\ eSupervisor' \in {eSupervisor, "none"}
      BY <2>2 DEF Rabbit!ServerBack, Rabbit!Stop, Rabbit!OnReady, Rabbit!RunHook
    <3> QED BY <1>1, <3>1 DEF RabbitInv, RabbitOnce
  <2> QED BY <2>1, <2>2
<1>5. RabbitRemembered'
  BY <1>1 DEF RabbitInv, RabbitRemembered, Rabbit!KnownIsTrue
<1>6. Rabbit!HooksAreDue'
  <2>1. CASE Rabbit!Restored
    BY <2>1 DEF Rabbit!Restored, Rabbit!Connected, Rabbit!HooksAreDue
  <2>2. CASE Rabbit!ServerBack \/ Rabbit!Stop
    BY <2>2 DEF Rabbit!ServerBack, Rabbit!Stop, RabbitInv, Rabbit!HooksAreDue
  <2>3. ASSUME NEW h \in Hooks, Rabbit!OnReady(h) PROVE Rabbit!HooksAreDue'
    BY <2>3 DEF Rabbit!OnReady, RabbitInv, Rabbit!HooksAreDue
  <2>4. ASSUME NEW h \in Hooks, Rabbit!RunHook(h) PROVE Rabbit!HooksAreDue'
    BY <2>4 DEF Rabbit!RunHook, RabbitInv, Rabbit!HooksAreDue, RabbitKinds
  <2> QED BY <2>1, <2>2, <2>3, <2>4
<1>7. ASSUME NEW u \in RabbitUsers PROVE RabbitPlaced(u)'
  <2>1. RabbitPlaced(u)
    BY DEF RabbitInv
  <2> QED BY <1>1, <1>2, <2>1 DEF RabbitPlaced
<1> QED BY <1>3, <1>4, <1>5, <1>6, <1>7 DEF RabbitInv

(* All channels go at once, and with them those who wait.                  *)
LEMMA RabbitFailAllKeeps ==
  ASSUME RabbitKinds, Rabbit!FailAll, NEW u \in RabbitUsers
  PROVE  /\ eTask' \in [RabbitUsers -> RabbitTask]
         /\ eTask[u].at = "wait" => eTask'[u].at = "idle" /\ eTask'[u].flying = eTask[u].flying
                                   /\ eTask'[u].sent = eTask[u].sent /\ eTask'[u].stored = eTask[u].stored
         /\ eTask[u].at # "wait" => eTask'[u] = eTask[u]
<1>1. eTask' = [v \in RabbitUsers |-> IF eTask[v].at = "wait" THEN [eTask[v] EXCEPT !.at = "idle", !.outcome = "lost"] ELSE eTask[v]]
  BY DEF Rabbit!FailAll
<1>2. ASSUME NEW v \in RabbitUsers
      PROVE  /\ eTask'[v] \in RabbitTask
             /\ eTask[v].at = "wait" => eTask'[v].at = "idle" /\ eTask'[v].flying = eTask[v].flying
                                   /\ eTask'[v].sent = eTask[v].sent /\ eTask'[v].stored = eTask[v].stored
             /\ eTask[v].at # "wait" => eTask'[v] = eTask[v]
  <2>1. eTask[v] \in RabbitTask
    BY DEF RabbitKinds
  <2>2. CASE eTask[v].at = "wait"
    <3>1. eTask'[v] = [eTask[v] EXCEPT !.at = "idle", !.outcome = "lost"]
      BY <1>1, <2>2
    <3> QED BY <2>1, <2>2, <3>1 DEF RabbitTask, RabbitStages, RabbitAnswers
  <2>3. CASE eTask[v].at # "wait"
    BY <1>1, <2>1, <2>3
  <2> QED BY <2>2, <2>3
<1> QED BY <1>1, <1>2

LEMMA RabbitBreakKeeps == ASSUME RabbitInv, Rabbit!Break PROVE RabbitInv'
<1>1. /\ eUp' = FALSE /\ eDead' = 1..eChannels
      /\ UNCHANGED << ePhase, eEpoch, eSupervisor, eHooks, eRunning, eRan, eExchanges, eKnown, eLock, eChannels, eRefused >>
      /\ eRpc' \in {0, eRpc}
  BY DEF Rabbit!Break
<1>2. IF eUp /\ ~ Rabbit!Closing THEN Rabbit!FailAll ELSE UNCHANGED eTask
  BY DEF Rabbit!Break
<1>3. eTask' \in [RabbitUsers -> RabbitTask]
  BY <1>2, RabbitFailAllKeeps DEF RabbitInv, RabbitKinds, Rabbit!FailAll
<1>4. RabbitKinds'
  <2>1. eRpc' \in 0..eChannels /\ eDead' \subseteq 1..eChannels
    BY <1>1 DEF RabbitInv, RabbitKinds
  <2> QED BY <1>1, <1>3, <2>1 DEF RabbitInv, RabbitKinds
<1>5. RabbitOnce' /\ RabbitRemembered' /\ Rabbit!HooksAreDue'
  BY <1>1 DEF RabbitInv, RabbitOnce, RabbitRemembered, Rabbit!KnownIsTrue, Rabbit!HooksAreDue
<1>6. ASSUME NEW u \in RabbitUsers PROVE RabbitPlaced(u)'
  <2>1. RabbitPlaced(u)
    BY DEF RabbitInv
  <2>2. eRpc' = 0 \/ eRpc' \in eDead'
    BY <1>1 DEF RabbitInv, RabbitKinds
  <2>3. CASE eUp /\ ~ Rabbit!Closing
    <3>1. /\ eTask[u].at = "wait" => eTask'[u].at = "idle" /\ eTask'[u].flying = eTask[u].flying
                                   /\ eTask'[u].sent = eTask[u].sent /\ eTask'[u].stored = eTask[u].stored
          /\ eTask[u].at # "wait" => eTask'[u] = eTask[u]
      BY <1>2, <2>3, RabbitFailAllKeeps DEF RabbitInv
    <3> QED BY <1>1, <2>1, <2>2, <3>1 DEF RabbitPlaced
  <2>4. CASE ~ eUp \/ Rabbit!Closing
    <3>1. eTask' = eTask
      BY <1>2, <2>4
    <3>2. eTask[u].at = "wait" => ePhase = "closing"
      BY <2>1, <2>4 DEF RabbitPlaced, Rabbit!Closing, RabbitInv, RabbitOnce
    <3> QED BY <1>1, <2>1, <2>2, <3>1, <3>2 DEF RabbitPlaced
  <2> QED BY <2>3, <2>4
<1> QED BY <1>4, <1>5, <1>6 DEF RabbitInv

LEMMA RabbitCloseKeeps == ASSUME RabbitInv, Rabbit!Close PROVE RabbitInv'
<1>1. /\ eUp' = FALSE /\ eDead' = 1..eChannels /\ eRpc' = 0 /\ ePhase = "closing" /\ ePhase' = "closed"
      /\ UNCHANGED << eEpoch, eSupervisor, eHooks, eRunning, eRan, eExchanges, eLock, eChannels, eRefused >>
      /\ eKnown' = [n \in Rabbit!Names |-> NULL] /\ Rabbit!FailAll
  BY DEF Rabbit!Close
<1>2. RabbitKinds'
  <2>1. eRpc' \in 0..eChannels /\ eDead' \subseteq 1..eChannels /\ eKnown' \in [Rabbit!Names -> RabbitAllKinds]
    BY <1>1 DEF RabbitInv, RabbitKinds, RabbitAllKinds
  <2>2. eTask' \in [RabbitUsers -> RabbitTask]
    BY <1>1, RabbitFailAllKeeps DEF RabbitInv, RabbitKinds, Rabbit!FailAll
  <2> QED BY <1>1, <2>1, <2>2 DEF RabbitInv, RabbitKinds
<1>3. RabbitOnce' /\ RabbitRemembered' /\ Rabbit!HooksAreDue'
  BY <1>1 DEF RabbitInv, RabbitOnce, RabbitRemembered, Rabbit!KnownIsTrue, Rabbit!HooksAreDue
<1>4. ASSUME NEW u \in RabbitUsers PROVE RabbitPlaced(u)'
  <2>1. RabbitPlaced(u) /\ Op[u].name \in Rabbit!Names
    BY DEF RabbitInv, Rabbit!Names
  <2>2. /\ eTask[u].at = "wait" => eTask'[u].at = "idle" /\ eTask'[u].flying = eTask[u].flying
                                  /\ eTask'[u].sent = eTask[u].sent /\ eTask'[u].stored = eTask[u].stored
        /\ eTask[u].at # "wait" => eTask'[u] = eTask[u]
    BY <1>1, RabbitFailAllKeeps DEF RabbitInv
  <2> QED BY <1>1, <2>1, <2>2 DEF RabbitPlaced
<1> QED BY <1>2, <1>3, <1>4 DEF RabbitInv

(* A step of one call that changes nothing but itself and the lock.        *)
LEMMA RabbitUserKeeps ==
  ASSUME RabbitInv, NEW u \in RabbitUsers, eTask' \in [RabbitUsers -> RabbitTask],
         \A v \in RabbitUsers \ {u} : eTask'[v] = eTask[v],
         UNCHANGED << Rabbit!link, eExchanges, eKnown, eRpc, eChannels, eDead, eRefused >>,
         eLock' = eLock \/ eLock \in {NULL, u}, RabbitPlaced(u)'
  PROVE  RabbitInv'
<1>1. RabbitKinds'
  BY DEF RabbitInv, RabbitKinds, Rabbit!link
<1>2. RabbitOnce' /\ RabbitRemembered' /\ Rabbit!HooksAreDue'
  BY DEF RabbitInv, RabbitOnce, RabbitRemembered, Rabbit!KnownIsTrue, Rabbit!HooksAreDue, Rabbit!link
<1>3. ASSUME NEW v \in RabbitUsers \ {u} PROVE RabbitPlaced(v)'
  <2>1. RabbitPlaced(v)
    BY DEF RabbitInv
  <2>2. eTask[v].at \in {"declare", "rpc"} => eLock' = v
    BY <2>1, RabbitAssumption DEF RabbitPlaced
  <2>3. eTask'[v] = eTask[v] /\ UNCHANGED << eExchanges, eKnown, eRpc, eChannels, eDead, eRefused, ePhase, eUp >>
    BY DEF Rabbit!link
  <2> QED BY <2>1, <2>2, <2>3 DEF RabbitPlaced
<1> QED BY <1>1, <1>2, <1>3 DEF RabbitInv

(* A step on, and the end of a call.                                       *)
LEMMA RabbitMoved ==
  ASSUME RabbitKinds, NEW u \in RabbitUsers, NEW s \in RabbitStages, Rabbit!Move(u, s)
  PROVE  /\ eTask' \in [RabbitUsers -> RabbitTask] /\ eTask'[u].at = s
         /\ eTask'[u].flying = eTask[u].flying /\ eTask'[u].sent = eTask[u].sent
         /\ eTask'[u].stored = eTask[u].stored /\ eTask'[u].chan = eTask[u].chan
         /\ eTask'[u].kind = eTask[u].kind
         /\ \A v \in RabbitUsers \ {u} : eTask'[v] = eTask[v]
BY DEF RabbitKinds, Rabbit!Move, RabbitTask

LEMMA RabbitEnded ==
  ASSUME RabbitKinds, NEW u \in RabbitUsers, NEW how \in RabbitAnswers, Rabbit!End(u, how)
  PROVE  /\ eTask' \in [RabbitUsers -> RabbitTask] /\ eTask'[u].at = "idle"
         /\ eTask'[u].flying = eTask[u].flying /\ eTask'[u].sent = eTask[u].sent
         /\ eTask'[u].stored = eTask[u].stored
         /\ \A v \in RabbitUsers \ {u} : eTask'[v] = eTask[v]
<1>1. "idle" \in RabbitStages
  BY DEF RabbitStages
<1> QED BY <1>1 DEF RabbitKinds, Rabbit!End, RabbitTask

LEMMA RabbitEndKeeps ==
  ASSUME RabbitInv, NEW u \in RabbitUsers, NEW how \in RabbitAnswers, Rabbit!End(u, how),
         UNCHANGED << Rabbit!link, eExchanges, eKnown, eRpc, eChannels, eDead, eRefused >>,
         eLock' = eLock \/ eLock \in {NULL, u}
  PROVE  RabbitInv'
<1>1. RabbitPlaced(u)
  BY DEF RabbitInv
<1>2. /\ eTask' \in [RabbitUsers -> RabbitTask] /\ eTask'[u].at = "idle"
      /\ eTask'[u].flying = eTask[u].flying /\ eTask'[u].sent = eTask[u].sent
      /\ eTask'[u].stored = eTask[u].stored
      /\ \A v \in RabbitUsers \ {u} : eTask'[v] = eTask[v]
  BY RabbitEnded DEF RabbitInv
<1>3. RabbitPlaced(u)'
  BY <1>1, <1>2 DEF RabbitPlaced
<1> QED BY <1>2, <1>3, RabbitUserKeeps

LEMMA RabbitCallKeeps == ASSUME RabbitInv, NEW u \in RabbitUsers, Rabbit!Call(u) PROVE RabbitInv'
<1>1. /\ eTask[u].at = "idle" /\ UNCHANGED << Rabbit!link, eExchanges, eKnown, eLock, eRpc, eChannels, eDead, eRefused >>
      /\ \A v \in RabbitUsers \ {u} : eTask'[v] = eTask[v]
  BY DEF Rabbit!Call, RabbitInv, RabbitKinds
<1>2. eTask[u] \in RabbitTask /\ eEpoch \in Nat /\ eRpc \in Nat /\ Op[u].batch \in Nat /\ Rabbit!Wanted(u) \in RabbitAllKinds
  BY RabbitAssumption DEF RabbitInv, RabbitKinds, Rabbit!Wanted, RabbitAllKinds
<1>3. /\ eTask' \in [RabbitUsers -> RabbitTask]
      /\ eTask'[u].flying = 0 /\ eTask'[u].sent = 0 /\ eTask'[u].stored = 0 /\ eTask'[u].chan = eRpc
      /\ eTask'[u].at \in {"idle", "open", "rpc lock", "lock", "publish"}
      /\ eTask'[u].at \in {"open", "rpc lock"} => Op[u].op = "send"
      /\ eTask'[u].at = "open" => eRpc # 0 /\ eRpc \notin eDead
      /\ eTask'[u].at = "lock" => Op[u].op # "send"
  <2> DEFINE r == [at |-> Rabbit!Begins(u), calls |-> eTask[u].calls + 1, kind |-> Rabbit!Wanted(u), conn |-> eEpoch, chan |-> eRpc,
                   flying |-> 0, sent |-> 0, stored |-> 0, left |-> Op[u].batch, outcome |-> Rabbit!Refusal(u)]
  <2>1. eTask' = [eTask EXCEPT ![u] = r]
    BY DEF Rabbit!Call
  <2>2. /\ Rabbit!Begins(u) \in {"idle", "open", "rpc lock", "lock", "publish"}
        /\ Rabbit!Begins(u) \in {"open", "rpc lock"} => Op[u].op = "send"
        /\ Rabbit!Begins(u) = "open" => eRpc # 0 /\ eRpc \notin eDead
        /\ Rabbit!Begins(u) = "lock" => Op[u].op # "send"
    BY DEF Rabbit!Begins
  <2>3. Rabbit!Refusal(u) \in RabbitAnswers /\ Rabbit!Begins(u) \in RabbitStages
    BY <2>2 DEF RabbitAnswers, Rabbit!Refusal, RabbitStages
  <2>4. r \in RabbitTask
    BY <1>2, <2>3 DEF RabbitTask
  <2>6. eTask' \in [RabbitUsers -> RabbitTask] /\ eTask'[u] = r
    BY <2>1, <2>4 DEF RabbitInv, RabbitKinds
  <2>7. /\ eTask'[u].flying = 0 /\ eTask'[u].sent = 0 /\ eTask'[u].stored = 0
        /\ eTask'[u].chan = eRpc /\ eTask'[u].at = Rabbit!Begins(u)
    BY <2>6
  <2> QED BY <2>2, <2>6, <2>7
<1>4. RabbitPlaced(u)'
  <2>1. Parallel \in Nat
    BY RabbitAssumption
  <2>2. eRpc # 0 => eRpc \in 1..eChannels
    BY DEF RabbitInv, RabbitKinds
  <2>3. Op[u].op # "send" => Op[u].op = "publish"
    BY RabbitAssumption
  <2>4. eTask'[u].flying <= Parallel /\ eTask'[u].sent <= eTask'[u].stored
    <3>1. eTask'[u].flying = 0 /\ eTask'[u].sent = 0 /\ eTask'[u].stored = 0
      BY <1>3
    <3> QED BY <2>1, <3>1
  <2> QED BY <1>1, <1>3, <2>2, <2>3, <2>4 DEF RabbitPlaced
<1> QED BY <1>1, <1>3, <1>4, RabbitUserKeeps

LEMMA RabbitLockedKeeps == ASSUME RabbitInv, NEW u \in RabbitUsers, Rabbit!Locked(u) PROVE RabbitInv'
<1> DEFINE k == eKnown[Op[u].name]
<1>1. /\ eTask[u].at = "lock" /\ eLock = NULL /\ UNCHANGED << Rabbit!link, eExchanges, eKnown, eRpc, eChannels, eDead, eRefused >>
  BY DEF Rabbit!Locked
<1>2. RabbitPlaced(u)
  BY DEF RabbitInv
<1>3. CASE k = NULL
  <2>1. eLock' = u /\ Rabbit!Move(u, "declare")
    BY <1>3 DEF Rabbit!Locked
  <2> QED BY <1>1, <1>2, <1>3, <2>1, RabbitMoved, RabbitUserKeeps DEF RabbitPlaced, RabbitStages, RabbitInv
<1>4. CASE k # NULL /\ k = eTask[u].kind
  <2>1. UNCHANGED eLock /\ Rabbit!Move(u, "publish")
    BY <1>4 DEF Rabbit!Locked
  <2> QED BY <1>1, <1>2, <2>1, RabbitMoved, RabbitUserKeeps DEF RabbitPlaced, RabbitStages, RabbitInv
<1>5. CASE k # NULL /\ k # eTask[u].kind
  <2>1. UNCHANGED eLock /\ Rabbit!End(u, "other kind")
    BY <1>5 DEF Rabbit!Locked
  <2> QED BY <1>1, <2>1, RabbitEndKeeps DEF RabbitAnswers
<1> QED BY <1>3, <1>4, <1>5

(* The declaration is remembered by the only one that makes it.            *)
LEMMA RabbitDeclaredKeeps == ASSUME RabbitInv, NEW u \in RabbitUsers, Rabbit!Declared(u) PROVE RabbitInv'
<1>1. RabbitPlaced(u) /\ eTask[u].at = "declare" /\ eLock = u /\ eLock' = NULL /\ UNCHANGED << Rabbit!link, eRpc, eChannels, eDead, eRefused >>
  BY DEF Rabbit!Declared, RabbitInv, RabbitPlaced
<1>2. CASE ~ (Rabbit!Alive(u) /\ Rabbit!Fits(u))
  <2>1. Rabbit!End(u, IF Rabbit!Alive(u) THEN "refused" ELSE "lost") /\ UNCHANGED << eExchanges, eKnown >>
    BY <1>2 DEF Rabbit!Declared
  <2>2. (IF Rabbit!Alive(u) THEN "refused" ELSE "lost") \in RabbitAnswers
    BY DEF RabbitAnswers
  <2> QED BY <1>1, <2>1, <2>2, RabbitEndKeeps
<1>3. CASE Rabbit!Alive(u) /\ Rabbit!Fits(u)
  <2> DEFINE n == Op[u].name  kind == eTask[u].kind
  <2>1. /\ eExchanges' = [eExchanges EXCEPT ![n] = kind] /\ eKnown' = [eKnown EXCEPT ![n] = kind]
        /\ Rabbit!Move(u, "publish")
    BY <1>3 DEF Rabbit!Declared
  <2>2. n \in DOMAIN OnServer /\ n \in Rabbit!Names /\ kind \in RabbitAllKinds /\ eUp
    BY <1>3, RabbitAssumption DEF RabbitInv, RabbitKinds, RabbitTask, Rabbit!Names, Rabbit!Alive
  <2>3. /\ eTask' \in [RabbitUsers -> RabbitTask] /\ eTask'[u].at = "publish"
        /\ eTask'[u].flying = eTask[u].flying /\ eTask'[u].sent = eTask[u].sent
        /\ eTask'[u].stored = eTask[u].stored
        /\ \A v \in RabbitUsers \ {u} : eTask'[v] = eTask[v]
    BY <2>1, RabbitMoved DEF RabbitInv, RabbitStages
  <2>4. /\ eExchanges'[n] = kind /\ eKnown'[n] = kind
        /\ \A m \in Rabbit!Names \ {n} : eKnown'[m] = eKnown[m]
        /\ \A m \in DOMAIN OnServer \ {n} : eExchanges'[m] = eExchanges[m]
        /\ eExchanges' \in [DOMAIN OnServer -> RabbitAllKinds] /\ eKnown' \in [Rabbit!Names -> RabbitAllKinds]
    BY <2>1, <2>2 DEF RabbitInv, RabbitKinds
  <2>5. RabbitKinds'
    BY <1>1, <2>3, <2>4 DEF RabbitInv, RabbitKinds, Rabbit!link
  <2>6. RabbitOnce' /\ Rabbit!HooksAreDue'
    BY <1>1, <2>2 DEF RabbitInv, RabbitOnce, Rabbit!HooksAreDue, Rabbit!link
  <2>7. RabbitRemembered'
    <3>1. Rabbit!Names \subseteq DOMAIN OnServer
      BY RabbitAssumption DEF Rabbit!Names
    <3>2. Rabbit!KnownIsTrue'
      BY <2>4, <3>1 DEF RabbitInv, RabbitRemembered, Rabbit!KnownIsTrue
    <3>3. ASSUME ePhase # "closed", NEW v \in RabbitUsers, Op[v].op = "publish", eKnown'[Op[v].name] = NULL
          PROVE  eExchanges'[Op[v].name] = OnServer[Op[v].name]
      <4>1. Op[v].name \in Rabbit!Names
        BY DEF Rabbit!Names
      <4>2. CASE Op[v].name # n
        BY <2>4, <3>1, <3>3, <4>1, <4>2 DEF RabbitInv, RabbitRemembered
      <4>3. CASE Op[v].name = n
        <5>1. OnServer[n] = eExchanges[n]
          BY <1>1, <3>3 DEF RabbitInv, RabbitRemembered, RabbitPlaced
        <5>2. eExchanges[n] \in {NULL, kind}
          BY <1>3 DEF Rabbit!Fits
        <5> QED BY <2>4, <3>3, <4>3, <5>1, <5>2
      <4> QED BY <4>2, <4>3
    <3> QED BY <1>1, <3>2, <3>3 DEF RabbitRemembered, Rabbit!link
  <2>8. ASSUME NEW v \in RabbitUsers PROVE RabbitPlaced(v)'
    <3>1. CASE v = u
      BY <1>1, <2>3, <3>1 DEF RabbitPlaced
    <3>2. CASE v # u
      <4>1. RabbitPlaced(v) /\ eTask'[v] = eTask[v]
        BY <2>3, <3>2 DEF RabbitInv
      <4>2. eTask[v].at \notin {"declare", "rpc"}
        BY <1>1, <3>2, <4>1 DEF RabbitPlaced
      <4> QED BY <1>1, <4>1, <4>2 DEF RabbitPlaced, Rabbit!link
    <3> QED BY <3>1, <3>2
  <2> QED BY <2>5, <2>6, <2>7, <2>8 DEF RabbitInv
<1> QED BY <1>2, <1>3

LEMMA RabbitPublishKeeps ==
  ASSUME RabbitInv, NEW u \in RabbitUsers, Rabbit!Send(u) \/ Rabbit!Confirmed(u) \/ Rabbit!Published(u)
  PROVE  RabbitInv'
<1>1. /\ eTask[u].at = "publish" /\ UNCHANGED << Rabbit!link, eExchanges, eKnown, eLock, eRpc, eChannels, eDead, eRefused >>
  BY DEF Rabbit!Send, Rabbit!Confirmed, Rabbit!Published
<1>2. RabbitPlaced(u) /\ eTask[u] \in RabbitTask /\ eTask \in [RabbitUsers -> RabbitTask]
  BY DEF RabbitInv, RabbitKinds
<1>3. /\ eTask[u].flying \in Nat /\ eTask[u].sent \in Nat /\ eTask[u].stored \in Nat /\ eTask[u].left \in Nat
      /\ eTask[u].flying <= Parallel /\ eTask[u].sent <= eTask[u].stored /\ Parallel \in Nat
  BY <1>2, RabbitAssumption DEF RabbitTask, RabbitPlaced
<1>4. CASE Rabbit!Send(u)
  <2>1. /\ eTask' = [eTask EXCEPT ![u].left = @ - 1, ![u].flying = @ + 1]
        /\ eTask[u].left > 0 /\ eTask[u].flying < Parallel
    BY <1>4 DEF Rabbit!Send, Rabbit!Room
  <2>2. eTask[u].left - 1 \in Nat /\ eTask[u].flying + 1 \in Nat /\ eTask[u].flying + 1 <= Parallel
    BY <1>3, <2>1
  <2>3. /\ eTask' \in [RabbitUsers -> RabbitTask] /\ eTask'[u].at = "publish" /\ eTask'[u].flying = eTask[u].flying + 1
        /\ eTask'[u].sent = eTask[u].sent /\ eTask'[u].stored = eTask[u].stored
        /\ \A v \in RabbitUsers \ {u} : eTask'[v] = eTask[v]
    BY <1>1, <1>2, <2>1, <2>2 DEF RabbitTask
  <2>4. RabbitPlaced(u)'
    BY <1>3, <2>2, <2>3 DEF RabbitPlaced
  <2> QED BY <1>1, <2>3, <2>4, RabbitUserKeeps
<1>5. CASE Rabbit!Confirmed(u)
  <2>1. /\ eTask[u].flying > 0
        /\ \/ eTask' = [eTask EXCEPT ![u].flying = @ - 1, ![u].sent = @ + 1, ![u].stored = @ + 1]
           \/ eTask' = [eTask EXCEPT ![u].flying = @ - 1, ![u].stored = @ + 1]
           \/ eTask' = [eTask EXCEPT ![u].flying = @ - 1]
    BY <1>5 DEF Rabbit!Confirmed
  <2>2. /\ eTask[u].flying - 1 \in Nat /\ eTask[u].flying - 1 <= Parallel
        /\ eTask[u].sent + 1 \in Nat /\ eTask[u].stored + 1 \in Nat
        /\ eTask[u].sent <= eTask[u].stored + 1 /\ eTask[u].sent + 1 <= eTask[u].stored + 1
    BY <1>3, <2>1
  <2>3. /\ eTask' \in [RabbitUsers -> RabbitTask] /\ eTask'[u].at = "publish" /\ eTask'[u].flying = eTask[u].flying - 1
        /\ \/ eTask'[u].sent = eTask[u].sent + 1 /\ eTask'[u].stored = eTask[u].stored + 1
           \/ eTask'[u].sent = eTask[u].sent /\ eTask'[u].stored = eTask[u].stored + 1
           \/ eTask'[u].sent = eTask[u].sent /\ eTask'[u].stored = eTask[u].stored
        /\ \A v \in RabbitUsers \ {u} : eTask'[v] = eTask[v]
    BY <1>1, <1>2, <2>1, <2>2 DEF RabbitTask
  <2>4. RabbitPlaced(u)'
    <3>1. eTask'[u].flying <= Parallel /\ eTask'[u].sent <= eTask'[u].stored
      BY <1>3, <2>2, <2>3
    <3> QED BY <2>3, <3>1 DEF RabbitPlaced
  <2> QED BY <1>1, <2>3, <2>4, RabbitUserKeeps
<1>6. CASE Rabbit!Published(u)
  <2>1. Rabbit!End(u, IF eTask[u].sent = Op[u].batch THEN "ok" ELSE "partial")
    BY <1>6 DEF Rabbit!Published
  <2>2. (IF eTask[u].sent = Op[u].batch THEN "ok" ELSE "partial") \in RabbitAnswers
    BY DEF RabbitAnswers
  <2> QED BY <1>1, <2>1, <2>2, RabbitEndKeeps
<1> QED BY <1>4, <1>5, <1>6

LEMMA RabbitRpcLockedKeeps == ASSUME RabbitInv, NEW u \in RabbitUsers, Rabbit!RpcLocked(u) PROVE RabbitInv'
<1>1. /\ eTask[u].at = "rpc lock" /\ eLock = NULL
      /\ UNCHANGED << Rabbit!link, eExchanges, eKnown, eRpc, eChannels, eDead, eRefused >>
  BY DEF Rabbit!RpcLocked
<1>2. RabbitPlaced(u) /\ eTask[u] \in RabbitTask /\ eTask \in [RabbitUsers -> RabbitTask] /\ eRpc \in 0..eChannels /\ eChannels \in Nat /\ eEpoch \in Nat
  BY DEF RabbitInv, RabbitKinds
<1>3. eRpc \in Nat /\ (eRpc # 0 => eRpc \in 1..eChannels) /\ "rpc" \in RabbitStages /\ "open" \in RabbitStages
  BY <1>2 DEF RabbitStages
<1>4. CASE eRpc # 0 /\ eRpc \notin eDead
  <2>1. eTask' = [eTask EXCEPT ![u].at = "open", ![u].chan = eRpc, ![u].conn = eEpoch] /\ UNCHANGED eLock
    BY <1>4 DEF Rabbit!RpcLocked
  <2>2. /\ eTask' \in [RabbitUsers -> RabbitTask] /\ eTask'[u].at = "open" /\ eTask'[u].chan = eRpc
        /\ eTask'[u].flying = eTask[u].flying
        /\ eTask'[u].sent = eTask[u].sent /\ eTask'[u].stored = eTask[u].stored
        /\ \A v \in RabbitUsers \ {u} : eTask'[v] = eTask[v]
    BY <1>2, <1>3, <2>1 DEF RabbitTask
  <2>3. RabbitPlaced(u)'
    BY <1>1, <1>2, <1>3, <1>4, <2>2 DEF RabbitPlaced
  <2> QED BY <1>1, <2>1, <2>2, <2>3, RabbitUserKeeps
<1>5. CASE ~ (eRpc # 0 /\ eRpc \notin eDead)
  <2>1. eTask' = [eTask EXCEPT ![u].at = "rpc", ![u].conn = eEpoch] /\ eLock' = u
    BY <1>5 DEF Rabbit!RpcLocked
  <2>2. /\ eTask' \in [RabbitUsers -> RabbitTask] /\ eTask'[u].at = "rpc"
        /\ eTask'[u].flying = eTask[u].flying
        /\ eTask'[u].sent = eTask[u].sent /\ eTask'[u].stored = eTask[u].stored
        /\ \A v \in RabbitUsers \ {u} : eTask'[v] = eTask[v]
    BY <1>2, <1>3, <2>1 DEF RabbitTask
  <2>3. RabbitPlaced(u)'
    BY <1>1, <1>2, <1>5, <2>1, <2>2 DEF RabbitPlaced
  <2> QED BY <1>1, <2>1, <2>2, <2>3, RabbitUserKeeps
<1> QED BY <1>4, <1>5

(* A new channel is opened only when the one before is closed, or gone.    *)
LEMMA RabbitRpcOpenedKeeps == ASSUME RabbitInv, NEW u \in RabbitUsers, Rabbit!RpcOpened(u) PROVE RabbitInv'
<1>1. eTask[u].at = "rpc" /\ eLock' = NULL /\ UNCHANGED << Rabbit!link, eExchanges, eKnown, eDead, eRefused >>
  BY DEF Rabbit!RpcOpened
<1>2. RabbitPlaced(u) /\ eLock = u /\ eTask[u] \in RabbitTask /\ eTask \in [RabbitUsers -> RabbitTask] /\ eRpc \in 0..eChannels /\ eChannels \in Nat
  BY <1>1 DEF RabbitInv, RabbitKinds, RabbitPlaced
<1>3. CASE ~ Rabbit!Alive(u)
  <2>1. Rabbit!End(u, "lost") /\ UNCHANGED << eRpc, eChannels >>
    BY <1>3 DEF Rabbit!RpcOpened
  <2> QED BY <1>1, <1>2, <2>1, RabbitEndKeeps DEF RabbitAnswers
<1>4. CASE Rabbit!Alive(u)
  <2>1. /\ eChannels' = eChannels + 1 /\ eRpc' = eChannels'
        /\ eTask' = [eTask EXCEPT ![u].at = "open", ![u].chan = eRpc']
    BY <1>4 DEF Rabbit!RpcOpened
  <2>2. /\ eChannels' \in Nat /\ eRpc' \in Nat /\ eRpc' \in 0..eChannels' /\ eRpc' \in 1..eChannels'
        /\ 1..eChannels \subseteq 1..eChannels' /\ eRpc' \notin 1..eChannels
    BY <1>2, <2>1
  <2>3. /\ eTask' \in [RabbitUsers -> RabbitTask] /\ eTask'[u].at = "open" /\ eTask'[u].chan = eRpc'
        /\ eTask'[u].flying = eTask[u].flying
        /\ eTask'[u].sent = eTask[u].sent /\ eTask'[u].stored = eTask[u].stored
        /\ \A v \in RabbitUsers \ {u} : eTask'[v] = eTask[v]
    BY <1>2, <2>1, <2>2 DEF RabbitTask, RabbitStages
  <2>4. RabbitKinds'
    <3>1. eDead' \subseteq 1..eChannels'
      BY <1>1, <2>2 DEF RabbitInv, RabbitKinds
    <3> QED BY <1>1, <2>2, <2>3, <3>1 DEF RabbitInv, RabbitKinds, Rabbit!link
  <2>5. RabbitOnce' /\ RabbitRemembered' /\ Rabbit!HooksAreDue'
    BY <1>1, <1>4 DEF RabbitInv, RabbitOnce, RabbitRemembered, Rabbit!KnownIsTrue, Rabbit!HooksAreDue, Rabbit!link, Rabbit!Alive
  <2>6. ASSUME NEW v \in RabbitUsers PROVE RabbitPlaced(v)'
    <3>0. RabbitPlaced(v)
      BY DEF RabbitInv
    <3>1. CASE v = u
      BY <1>1, <1>2, <2>2, <2>3, <3>1 DEF RabbitPlaced
    <3>2. CASE v # u
      <4>1. eTask'[v] = eTask[v] /\ eTask[v].at \notin {"declare", "rpc"}
        BY <1>2, <2>3, <3>0, <3>2 DEF RabbitPlaced
      <4>2. eTask[v].at \in {"open", "ask", "wait"} => eTask[v].chan \in 1..eChannels /\ eTask[v].chan \in eDead
        <5>1. eRpc = 0 \/ eRpc \in eDead
          BY <1>1, <1>2 DEF RabbitPlaced
        <5>2. 0 \notin 1..eChannels
          BY <1>2
        <5> QED BY <3>0, <5>1, <5>2 DEF RabbitPlaced
      <4> QED BY <1>1, <2>2, <3>0, <4>1, <4>2 DEF RabbitPlaced, Rabbit!link
    <3> QED BY <3>1, <3>2
  <2> QED BY <2>4, <2>5, <2>6 DEF RabbitInv
<1> QED BY <1>3, <1>4

LEMMA RabbitRpcDeclaredKeeps == ASSUME RabbitInv, NEW u \in RabbitUsers, Rabbit!RpcDeclared(u) PROVE RabbitInv'
<1> DEFINE n == Op[u].name  c == eTask[u].chan
<1>1. eTask[u].at = "open" /\ UNCHANGED << Rabbit!link, eKnown, eLock, eRpc, eChannels >>
  BY DEF Rabbit!RpcDeclared
<1>2. RabbitPlaced(u) /\ Op[u].op = "send" /\ c \in 1..eChannels /\ (c \notin eDead => c = eRpc)
  BY <1>1 DEF RabbitInv, RabbitPlaced
<1>3. CASE c \in eDead
  <2>1. Rabbit!End(u, "lost") /\ UNCHANGED << eExchanges, eDead, eRefused >>
    BY <1>3 DEF Rabbit!RpcDeclared
  <2> QED BY <1>1, <2>1, RabbitEndKeeps DEF RabbitAnswers
<1>4. CASE c \notin eDead /\ eExchanges[n] \in {NULL, Rabbit!RpcKind(u)}
  <2>1. eExchanges' = [eExchanges EXCEPT ![n] = Rabbit!RpcKind(u)] /\ Rabbit!Move(u, "ask") /\ UNCHANGED << eDead, eRefused >>
    BY <1>4 DEF Rabbit!RpcDeclared
  <2>2. /\ eTask' \in [RabbitUsers -> RabbitTask] /\ eTask'[u].at = "ask" /\ eTask'[u].chan = c
        /\ eTask'[u].flying = eTask[u].flying /\ eTask'[u].sent = eTask[u].sent
        /\ eTask'[u].stored = eTask[u].stored
        /\ \A v \in RabbitUsers \ {u} : eTask'[v] = eTask[v]
    BY <2>1, RabbitMoved DEF RabbitInv, RabbitStages
  <2>3. n \in DOMAIN OnServer /\ n \in Rabbit!Names /\ Rabbit!RpcKind(u) \in RabbitAllKinds /\ eUp
    <3>1. eUp
      BY <1>2, <1>4 DEF RabbitInv, RabbitOnce, RabbitKinds
    <3> QED BY <3>1, RabbitAssumption DEF RabbitInv, RabbitKinds, Rabbit!Names, Rabbit!RpcKind, RabbitAllKinds
  <2>4. /\ eExchanges'[n] = Rabbit!RpcKind(u) /\ eExchanges' \in [DOMAIN OnServer -> RabbitAllKinds]
        /\ \A m \in DOMAIN OnServer \ {n} : eExchanges'[m] = eExchanges[m]
    BY <2>1, <2>3 DEF RabbitInv, RabbitKinds
  <2>5. RabbitKinds'
    BY <1>1, <2>1, <2>2, <2>4 DEF RabbitInv, RabbitKinds, Rabbit!link
  <2>6. RabbitOnce' /\ Rabbit!HooksAreDue'
    BY <1>1, <2>1, <2>3 DEF RabbitInv, RabbitOnce, Rabbit!HooksAreDue, Rabbit!link
  <2>7. RabbitRemembered'
    <3>1. Rabbit!Names \subseteq DOMAIN OnServer
      BY RabbitAssumption DEF Rabbit!Names
    <3>2. eKnown[n] # NULL => eKnown[n] = Rabbit!RpcKind(u)
      BY <1>4, <2>3 DEF RabbitInv, RabbitRemembered, Rabbit!KnownIsTrue
    <3>3. Rabbit!KnownIsTrue'
      BY <1>1, <2>4, <3>1, <3>2 DEF RabbitInv, RabbitRemembered, Rabbit!KnownIsTrue
    <3>4. \A v \in RabbitUsers : Op[v].op = "publish" => Op[v].name # n /\ Op[v].name \in Rabbit!Names
      BY <1>2, RabbitAssumption DEF Rabbit!Names
    <3> QED BY <1>1, <2>4, <3>1, <3>3, <3>4 DEF RabbitInv, RabbitRemembered, Rabbit!link
  <2>8. ASSUME NEW v \in RabbitUsers PROVE RabbitPlaced(v)'
    <3>0. RabbitPlaced(v)
      BY DEF RabbitInv
    <3>1. CASE v = u
      BY <1>1, <1>2, <2>1, <2>2, <3>1 DEF RabbitPlaced
    <3>2. CASE v # u
      BY <1>1, <2>1, <2>2, <3>0, <3>2 DEF RabbitPlaced, Rabbit!link
    <3> QED BY <3>1, <3>2
  <2> QED BY <2>5, <2>6, <2>7, <2>8 DEF RabbitInv
<1>5. CASE c \notin eDead /\ eExchanges[n] \notin {NULL, Rabbit!RpcKind(u)}
  <2>1. /\ eDead' = eDead \cup {c} /\ eRefused' = eRefused \cup {c}
        /\ Rabbit!End(u, "refused") /\ UNCHANGED eExchanges
    BY <1>5 DEF Rabbit!RpcDeclared
  <2>2. /\ eTask' \in [RabbitUsers -> RabbitTask] /\ eTask'[u].at = "idle"
        /\ eTask'[u].flying = eTask[u].flying /\ eTask'[u].sent = eTask[u].sent
        /\ eTask'[u].stored = eTask[u].stored
        /\ \A v \in RabbitUsers \ {u} : eTask'[v] = eTask[v]
    BY <2>1, RabbitEnded DEF RabbitInv, RabbitAnswers
  <2>3. RabbitKinds'
    BY <1>1, <1>2, <2>1, <2>2 DEF RabbitInv, RabbitKinds, Rabbit!link
  <2>4. RabbitOnce' /\ RabbitRemembered' /\ Rabbit!HooksAreDue'
    BY <1>1, <2>1 DEF RabbitInv, RabbitOnce, RabbitRemembered, Rabbit!KnownIsTrue, Rabbit!HooksAreDue, Rabbit!link
  <2>5. ASSUME NEW v \in RabbitUsers PROVE RabbitPlaced(v)'
    <3>0. RabbitPlaced(v)
      BY DEF RabbitInv
    <3>1. CASE v = u
      BY <1>1, <1>2, <2>1, <2>2, <3>1 DEF RabbitPlaced
    <3>2. CASE v # u
      BY <1>1, <2>1, <2>2, <3>0, <3>2 DEF RabbitPlaced, Rabbit!link
    <3> QED BY <3>1, <3>2
  <2> QED BY <2>3, <2>4, <2>5 DEF RabbitInv
<1> QED BY <1>3, <1>4, <1>5

LEMMA RabbitAskKeeps == ASSUME RabbitInv, NEW u \in RabbitUsers, Rabbit!Asked(u) \/ Rabbit!Answered(u) PROVE RabbitInv'
<1>1. UNCHANGED << Rabbit!link, eExchanges, eKnown, eLock, eRpc, eChannels, eDead, eRefused >>
  BY DEF Rabbit!Asked, Rabbit!Answered
<1>2. CASE Rabbit!Asked(u) /\ Rabbit!Move(u, "wait") /\ eTask[u].chan \notin eDead
  <2>1. RabbitPlaced(u) /\ eTask[u].at = "ask" /\ eTask[u].chan \in 1..eChannels
    BY <1>2 DEF Rabbit!Asked, RabbitInv, RabbitPlaced
  <2>2. eUp
    BY <1>2, <2>1 DEF RabbitInv, RabbitOnce, RabbitKinds
  <2>3. /\ eTask' \in [RabbitUsers -> RabbitTask] /\ eTask'[u].at = "wait" /\ eTask'[u].chan = eTask[u].chan
        /\ eTask'[u].flying = eTask[u].flying /\ eTask'[u].sent = eTask[u].sent
        /\ eTask'[u].stored = eTask[u].stored
        /\ \A v \in RabbitUsers \ {u} : eTask'[v] = eTask[v]
    BY <1>2, RabbitMoved DEF RabbitInv, RabbitStages
  <2>4. RabbitPlaced(u)'
    BY <1>1, <1>2, <2>1, <2>2, <2>3 DEF RabbitPlaced, Rabbit!link
  <2> QED BY <1>1, <2>3, <2>4, RabbitUserKeeps
<1>3. CASE Rabbit!End(u, "lost") \/ Rabbit!End(u, "timeout") \/ Rabbit!End(u, "ok")
  BY <1>1, <1>3, RabbitEndKeeps DEF RabbitAnswers
<1> QED BY <1>2, <1>3 DEF Rabbit!Asked, Rabbit!Answered

LEMMA RabbitNext == ASSUME RabbitInv, [Rabbit!Next]_rabbitVars PROVE RabbitInv'
<1>1. CASE UNCHANGED rabbitVars
  <2>1. RabbitKinds' /\ RabbitOnce' /\ RabbitRemembered' /\ Rabbit!HooksAreDue'
    BY <1>1 DEF rabbitVars, RabbitInv, RabbitKinds, RabbitOnce, RabbitRemembered, Rabbit!KnownIsTrue, Rabbit!HooksAreDue
  <2>2. ASSUME NEW u \in RabbitUsers PROVE RabbitPlaced(u)'
    BY <1>1 DEF rabbitVars, RabbitInv, RabbitPlaced
  <2> QED BY <2>1, <2>2 DEF RabbitInv
<1>2. ASSUME NEW u \in RabbitUsers, Rabbit!Step(u) PROVE RabbitInv'
  BY <1>2, RabbitLockedKeeps, RabbitDeclaredKeeps, RabbitPublishKeeps, RabbitRpcLockedKeeps, RabbitRpcOpenedKeeps, RabbitRpcDeclaredKeeps, RabbitAskKeeps
     DEF Rabbit!Step
<1> QED BY <1>1, <1>2, RabbitConnectKeeps, RabbitLinkKeeps, RabbitBreakKeeps, RabbitCloseKeeps, RabbitCallKeeps DEF Rabbit!Next

LEMMA RabbitInvIsSafe == RabbitInv => Rabbit!RabbitSafe
<1> SUFFICES ASSUME RabbitInv PROVE Rabbit!RabbitSafe
  OBVIOUS
<1>1. ASSUME NEW u \in RabbitUsers PROVE RabbitPlaced(u)
  BY DEF RabbitInv
<1>2. Rabbit!NoSelfContradiction
  BY <1>1 DEF Rabbit!NoSelfContradiction, Rabbit!Alive, RabbitInv, RabbitOnce, RabbitRemembered, RabbitPlaced
<1>3. Rabbit!NoDeafWait /\ Rabbit!OneChannel /\ Rabbit!WithinConcurrency /\ Rabbit!CountsConfirmed
  BY <1>1 DEF Rabbit!NoDeafWait, Rabbit!OneChannel, Rabbit!WithinConcurrency, Rabbit!CountsConfirmed, RabbitPlaced
<1> QED BY <1>2, <1>3 DEF Rabbit!RabbitSafe, RabbitInv, RabbitRemembered

-----------------------------------------------------------------------------
(***************************************************************************)
(* The Redis client: an open call has a loop that is subscribed for it or  *)
(* that will fail it, there is one such loop, the handlers hear in order,  *)
(* and a supervisor is at work until the hooks have been run.              *)
(***************************************************************************)
RedisStages == {"idle", "lock", "subscribe", "publish", "wait"}
RedisOutcomes == {NULL, "answer", "lost", "cancelled"}
RedisCalling == [at : RedisStages, calls : Nat, open : BOOLEAN, outcome : RedisOutcomes]
RedisReading == [at : {"none", "subscribe", "listen", "handle", "sleep"}, cut : BOOLEAN, inbox : Seq(Nat)]

RedisKinds ==
  /\ rCaller \in [RedisCallers -> RedisCalling] /\ rReader \in RedisReading
  /\ rHeard \in Seq(Nat) /\ rPublished \in Nat
  /\ rMade \in Nat /\ rPubsub \in {0, rMade} /\ DOMAIN rSubs = 0..rMade
  /\ rLoops \in {{}, {0}, {rPubsub}}

(* What has been read of the channel, and is there to be read, is in the   *)
(* order in which it was published.                                        *)
RedisOrdered ==
  /\ Redis!HeardInOrder
  /\ \A i, j \in DOMAIN rReader.inbox : i < j => rReader.inbox[i] < rReader.inbox[j]
  /\ \A i \in DOMAIN rHeard, j \in DOMAIN rReader.inbox : rHeard[i] < rReader.inbox[j]
  /\ \A i \in DOMAIN rHeard : rHeard[i] <= rPublished
  /\ \A j \in DOMAIN rReader.inbox : rReader.inbox[j] <= rPublished

(* An open call has a loop that is subscribed for it, or that has nothing  *)
(* to read and is about to fail everybody; what is noted as subscribed is. *)
RedisAttended == ~ Redis!Closing =>
  /\ \A c \in RedisCallers : rCaller[c].open => \E p \in rLoops : p = 0 \/ Channel[c] \in rSubs[p]
  /\ rPubsub # 0 => rChannels \subseteq rSubs[rPubsub]

RedisHooked == /\ Redis!HooksAreDue
               /\ rPhase = "new" => rSupervisor = "none" /\ rReader.at = "none"

RedisInv == RedisKinds /\ RedisOrdered /\ RedisAttended /\ RedisHooked

LEMMA RedisInit == Redis!Init => RedisInv
<1> SUFFICES ASSUME Redis!Init PROVE RedisInv
  OBVIOUS
<1>1. [at |-> "idle", calls |-> 0, open |-> FALSE, outcome |-> NULL] \in RedisCalling
  BY DEF RedisCalling, RedisStages, RedisOutcomes
<1>2. [at |-> "none", cut |-> FALSE, inbox |-> << >>] \in RedisReading
  BY DEF RedisReading
<1>3. RedisKinds
  BY <1>1, <1>2 DEF Redis!Init, RedisKinds, Redis!Pubsubs
<1> QED BY <1>3 DEF Redis!Init, RedisInv, RedisOrdered, Redis!HeardInOrder, RedisAttended, RedisHooked, Redis!HooksAreDue

(* The part of the state each step leaves alone.                           *)
LEMMA RedisCallsStay ==
  ASSUME RedisInv, UNCHANGED Redis!rpc, rPhase' \in {rPhase, "closing"} \/ (rPhase \in {"new", "rpc closed"} /\ rPhase' \in {"open", "closed"} /\ (rPhase = "new" <=> rPhase' = "open"))
  PROVE  RedisAttended' /\ rMade' \in Nat /\ rPubsub' \in {0, rMade'} /\ DOMAIN rSubs' = 0..rMade'
         /\ rLoops' \in {{}, {0}, {rPubsub'}} /\ rCaller' \in [RedisCallers -> RedisCalling]
BY DEF RedisInv, RedisKinds, RedisAttended, Redis!rpc, Redis!Closing

(* The connection, its supervisor and its health check.                    *)
LEMMA RedisClientKeeps ==
  ASSUME RedisInv,
         \/ Redis!Startup \/ Redis!Supervise \/ Redis!Recover \/ Redis!Beat \/ Redis!Beaten \/ Redis!Command \/ Redis!Commanded
         \/ Redis!Return \/ Redis!Shutdown \/ Redis!Closed
  PROVE  RedisInv'
<1>1. UNCHANGED << Redis!rpc, rHeard, rPublished >>
  BY DEF Redis!Startup, Redis!Supervise, Redis!Recover, Redis!Beat, Redis!Beaten, Redis!Command, Redis!Commanded, Redis!Return, Redis!Shutdown, Redis!Closed, Redis!runner
<1>2. rPhase' = rPhase \/ (rPhase = "new" /\ rPhase' = "open") \/ rPhase' = "closing" \/ (rPhase = "rpc closed" /\ rPhase' = "closed")
  BY DEF Redis!Startup, Redis!Supervise, Redis!Recover, Redis!Beat, Redis!Beaten, Redis!Command, Redis!Commanded, Redis!Return, Redis!Shutdown, Redis!Closed
<1>3. rReader' \in {rReader, [rReader EXCEPT !.at = "subscribe"], [rReader EXCEPT !.at = "none"]}
  BY DEF Redis!Startup, Redis!Supervise, Redis!Recover, Redis!Beat, Redis!Beaten, Redis!Command, Redis!Commanded, Redis!Return, Redis!Shutdown, Redis!Closed, Redis!runner, Redis!Setup, Redis!Reader
<1>4. rReader' \in RedisReading /\ rReader'.inbox = rReader.inbox
  BY <1>3 DEF RedisInv, RedisKinds, RedisReading
<1>5. RedisKinds' /\ RedisAttended'
  BY <1>1, <1>2, <1>4, RedisCallsStay DEF RedisInv, RedisKinds
<1>6. RedisOrdered'
  BY <1>1, <1>4 DEF RedisInv, RedisOrdered, Redis!HeardInOrder
<1>7. RedisHooked'
  <2>1. rReader \in RedisReading
    BY DEF RedisInv, RedisKinds
  <2>2. CASE Redis!Startup \/ Redis!Recover
    <3>1. Redis!Startup => rPhase = "new" /\ rPhase' = "open"
      BY DEF Redis!Startup
    <3>2. Redis!Recover => rPhase' = rPhase /\ rSupervisor = "ping"
      BY DEF Redis!Recover
    <3>3. rPhase' # "new" /\ (Redis!Startup => rSupervisor = "none") /\ (rReader.at = "none" \/ rPhase' # "open")
      <4>1. /\ rPhase = "new" => rSupervisor = "none" /\ rReader.at = "none"
            /\ rPhase = "open" /\ rSupervisor # "none" => rReader.at = "none"
        BY DEF RedisInv, RedisHooked, Redis!HooksAreDue
      <4> QED BY <2>2, <3>1, <3>2, <4>1
    <3>4. CASE rServer
      <4>1. Redis!Setup
        BY <2>2, <3>4 DEF Redis!Startup, Redis!Recover
      <4>2. Redis!Startup => rSupervisor' = rSupervisor
        BY <3>4 DEF Redis!Startup
      <4>3. Redis!Recover => rSupervisor' = "none"
        BY <3>4 DEF Redis!Recover
      <4>4. rReader'.at # "none"
        BY <2>1, <4>1 DEF Redis!Setup, RedisReading
      <4> QED BY <2>2, <3>3, <4>2, <4>3, <4>4 DEF RedisHooked, Redis!HooksAreDue
    <3>5. CASE ~ rServer
      <4>1. rSupervisor' = "sleep" /\ rReader' = rReader
        BY <2>2, <3>5 DEF Redis!Startup, Redis!Recover
      <4> QED BY <3>3, <4>1 DEF RedisHooked, Redis!HooksAreDue
    <3> QED BY <3>4, <3>5
  <2>3. CASE Redis!Shutdown
    BY <2>3 DEF Redis!Shutdown, RedisHooked, Redis!HooksAreDue
  <2>4. CASE Redis!Supervise
    BY <2>4 DEF Redis!Supervise, Redis!runner, RedisInv, RedisHooked, Redis!HooksAreDue
  <2>5. CASE Redis!Beat \/ Redis!Beaten \/ Redis!Command \/ Redis!Commanded \/ Redis!Return
    BY <2>5 DEF Redis!Beat, Redis!Beaten, Redis!Command, Redis!Commanded, Redis!Return, Redis!runner, RedisInv, RedisHooked, Redis!HooksAreDue
  <2>6. CASE Redis!Closed
    BY <2>6 DEF Redis!Closed, RedisHooked, Redis!HooksAreDue
  <2> QED BY <2>2, <2>3, <2>4, <2>5, <2>6
<1> QED BY <1>5, <1>6, <1>7 DEF RedisInv

LEMMA RedisLoseKeeps == ASSUME RedisInv, Redis!Lose PROVE RedisInv'
<1>1. /\ rReader' = [rReader EXCEPT !.cut = @ \/ rReader.at \in {"listen", "handle"}]
      /\ UNCHANGED << rPhase, rSupervisor, rHeard, rPublished, rPubsub, rChannels, rMade, rSubs, rLoops, rCaller >>
  BY DEF Redis!Lose
<1>2. rReader' \in RedisReading /\ rReader'.inbox = rReader.inbox /\ rReader'.at = rReader.at
  BY <1>1 DEF RedisInv, RedisKinds, RedisReading
<1>3. RedisKinds' /\ RedisAttended' /\ RedisHooked'
  BY <1>1, <1>2 DEF RedisInv, RedisKinds, RedisAttended, RedisHooked, Redis!HooksAreDue, Redis!Closing
<1>4. RedisOrdered'
  BY <1>1, <1>2 DEF RedisInv, RedisOrdered, Redis!HeardInOrder
<1> QED BY <1>3, <1>4 DEF RedisInv

(* The reader and its messages.                                            *)
LEMMA RedisReaderKeeps ==
  ASSUME RedisInv, UNCHANGED << Redis!client, Redis!rpc >>, rReader' \in RedisReading, rHeard' \in Seq(Nat), rPublished' \in Nat,
         rReader'.at = "none" <=> rReader.at = "none", RedisOrdered'
  PROVE  RedisInv'
<1>1. RedisKinds' /\ RedisAttended'
  BY RedisCallsStay DEF RedisInv, RedisKinds, Redis!client
<1>2. RedisHooked'
  BY DEF RedisInv, RedisHooked, Redis!HooksAreDue, Redis!client
<1> QED BY <1>1, <1>2 DEF RedisInv

LEMMA RedisListenKeeps ==
  ASSUME RedisInv, Redis!Subscribe \/ Redis!Retry \/ Redis!Handled \/ Redis!Cut
  PROVE  RedisInv'
<1>0. rReader \in RedisReading
  BY DEF RedisInv, RedisKinds
<1>1. UNCHANGED << Redis!client, Redis!rpc, rHeard, rPublished >>
  BY DEF Redis!Subscribe, Redis!Retry, Redis!Handled, Redis!Cut
<1>2. rReader' \in RedisReading /\ rReader.at # "none" /\ rReader'.at # "none" /\ rReader'.inbox \in {<< >>, rReader.inbox}
  <2>1. CASE Redis!Subscribe
    <3>1. rReader' = [at |-> IF rServer THEN "listen" ELSE "sleep", cut |-> FALSE, inbox |-> << >>] /\ rReader.at = "subscribe"
      BY <2>1 DEF Redis!Subscribe
    <3> QED BY <3>1 DEF RedisReading
  <2>2. CASE Redis!Retry \/ Redis!Handled \/ Redis!Cut
    BY <1>0, <2>2 DEF Redis!Retry, Redis!Handled, Redis!Cut, Redis!Reader, RedisReading
  <2> QED BY <2>1, <2>2
<1>3. RedisOrdered'
  BY <1>1, <1>2 DEF RedisInv, RedisOrdered, Redis!HeardInOrder
<1> QED BY <1>1, <1>2, <1>3, RedisReaderKeeps DEF RedisInv, RedisKinds

LEMMA RedisHandleKeeps == ASSUME RedisInv, Redis!Handle PROVE RedisInv'
<1> DEFINE inbox1 == rReader.inbox
<1>1. /\ rReader.at = "listen" /\ inbox1 # << >> /\ rReader' = [rReader EXCEPT !.at = "handle", !.inbox = Tail(@)]
      /\ rHeard' = Append(rHeard, Head(inbox1)) /\ UNCHANGED << rPublished, Redis!client, Redis!rpc >>
  BY DEF Redis!Handle
<1>2. rReader \in RedisReading /\ inbox1 \in Seq(Nat) /\ rHeard \in Seq(Nat) /\ rPublished \in Nat
  BY DEF RedisInv, RedisKinds, RedisReading
<1>3. /\ Head(inbox1) = inbox1[1] /\ 1 \in DOMAIN inbox1 /\ inbox1[1] \in Nat /\ Tail(inbox1) \in Seq(Nat)
      /\ \A j \in DOMAIN Tail(inbox1) : Tail(inbox1)[j] = inbox1[j + 1] /\ j + 1 \in DOMAIN inbox1 /\ j \in Nat /\ j >= 1
  BY <1>1, <1>2
<1>4. rReader' \in RedisReading /\ rReader'.at = "handle" /\ rReader'.inbox = Tail(inbox1)
  BY <1>1, <1>2, <1>3 DEF RedisReading
<1>5. /\ rHeard' \in Seq(Nat) /\ Len(rHeard) \in Nat
      /\ DOMAIN rHeard' = DOMAIN rHeard \cup {Len(rHeard) + 1}
      /\ \A i \in DOMAIN rHeard : rHeard'[i] = rHeard[i] /\ i <= Len(rHeard) /\ i \in Nat
      /\ rHeard'[Len(rHeard) + 1] = inbox1[1]
  BY <1>1, <1>2, <1>3
<1>6. RedisOrdered'
  <2>1. ASSUME NEW i \in DOMAIN rHeard', NEW j \in DOMAIN rHeard', i < j PROVE rHeard'[i] < rHeard'[j]
    <3>1. i \in DOMAIN rHeard
      BY <1>5, <2>1
    <3>2. CASE j \in DOMAIN rHeard
      BY <1>5, <2>1, <3>1, <3>2 DEF RedisInv, RedisOrdered, Redis!HeardInOrder
    <3>3. CASE j = Len(rHeard) + 1
      BY <1>3, <1>5, <3>1, <3>3 DEF RedisInv, RedisOrdered
    <3> QED BY <1>5, <3>2, <3>3
  <2>2. ASSUME NEW i \in DOMAIN Tail(inbox1), NEW j \in DOMAIN Tail(inbox1), i < j PROVE Tail(inbox1)[i] < Tail(inbox1)[j]
    <3>1. i + 1 < j + 1 /\ i + 1 \in DOMAIN inbox1 /\ j + 1 \in DOMAIN inbox1
      BY <1>3, <2>2
    <3> QED BY <1>3, <3>1 DEF RedisInv, RedisOrdered
  <2>3. ASSUME NEW i \in DOMAIN rHeard', NEW j \in DOMAIN Tail(inbox1) PROVE rHeard'[i] < Tail(inbox1)[j]
    <3>1. 1 < j + 1 /\ j + 1 \in DOMAIN inbox1 /\ Tail(inbox1)[j] = inbox1[j + 1]
      BY <1>3
    <3>2. CASE i \in DOMAIN rHeard
      BY <1>5, <3>1, <3>2 DEF RedisInv, RedisOrdered
    <3>3. CASE i = Len(rHeard) + 1
      BY <1>3, <1>5, <3>1, <3>3 DEF RedisInv, RedisOrdered
    <3> QED BY <1>5, <3>2, <3>3
  <2>4. \A i \in DOMAIN rHeard' : rHeard'[i] <= rPublished
    BY <1>3, <1>5 DEF RedisInv, RedisOrdered
  <2>5. \A j \in DOMAIN Tail(inbox1) : Tail(inbox1)[j] <= rPublished
    BY <1>3 DEF RedisInv, RedisOrdered
  <2> QED BY <1>1, <1>4, <2>1, <2>2, <2>3, <2>4, <2>5 DEF RedisOrdered, Redis!HeardInOrder
<1> QED BY <1>1, <1>2, <1>4, <1>5, <1>6, RedisReaderKeeps

LEMMA RedisPublishKeeps == ASSUME RedisInv, Redis!Publish PROVE RedisInv'
<1> DEFINE inbox1 == rReader.inbox
<1>1. rPublished' = rPublished + 1 /\ UNCHANGED << rHeard, Redis!client, Redis!rpc >>
  BY DEF Redis!Publish
<1>2. rReader \in RedisReading /\ inbox1 \in Seq(Nat) /\ rHeard \in Seq(Nat) /\ rPublished \in Nat
  BY DEF RedisInv, RedisKinds, RedisReading
<1>3. CASE rReader' = rReader
  <2>1. /\ \A i \in DOMAIN rHeard : rHeard[i] \in Nat /\ rHeard[i] <= rPublished
        /\ \A j \in DOMAIN inbox1 : inbox1[j] \in Nat /\ inbox1[j] <= rPublished
    BY <1>2 DEF RedisInv, RedisOrdered
  <2>2. /\ \A i \in DOMAIN rHeard : rHeard[i] <= rPublished + 1
        /\ \A j \in DOMAIN inbox1 : inbox1[j] <= rPublished + 1
    BY <1>2, <2>1
  <2>3. RedisOrdered'
    BY <1>1, <1>3, <2>2 DEF RedisInv, RedisOrdered, Redis!HeardInOrder
  <2> QED BY <1>1, <1>2, <1>3, <2>3, RedisReaderKeeps
<1>4. CASE rReader' = [rReader EXCEPT !.inbox = Append(@, rPublished + 1)]
  <2>1. rReader' \in RedisReading /\ rReader'.at = rReader.at /\ rReader'.inbox = Append(inbox1, rPublished + 1)
    <3>1. Append(inbox1, rPublished + 1) \in Seq(Nat)
      BY <1>2
    <3> QED BY <1>2, <1>4, <3>1 DEF RedisReading
  <2>2. /\ Len(inbox1) \in Nat /\ DOMAIN rReader'.inbox = DOMAIN inbox1 \cup {Len(inbox1) + 1}
        /\ \A j \in DOMAIN inbox1 : rReader'.inbox[j] = inbox1[j] /\ j \in Nat /\ j <= Len(inbox1) /\ inbox1[j] \in Nat
        /\ rReader'.inbox[Len(inbox1) + 1] = rPublished + 1
    BY <1>2, <2>1
  <2>3. /\ \A i \in DOMAIN rHeard : rHeard[i] \in Nat /\ rHeard[i] < rPublished + 1
        /\ \A j \in DOMAIN inbox1 : inbox1[j] < rPublished + 1
    <3>1. /\ \A i \in DOMAIN rHeard : rHeard[i] \in Nat /\ rHeard[i] <= rPublished
          /\ \A j \in DOMAIN inbox1 : inbox1[j] \in Nat /\ inbox1[j] <= rPublished
      BY <1>2 DEF RedisInv, RedisOrdered
    <3> QED BY <1>2, <3>1
  <2>4. ASSUME NEW i \in DOMAIN rReader'.inbox, NEW j \in DOMAIN rReader'.inbox, i < j
        PROVE  rReader'.inbox[i] < rReader'.inbox[j]
    <3>1. i \in DOMAIN inbox1
      BY <2>2, <2>4
    <3> QED BY <2>2, <2>3, <2>4, <3>1 DEF RedisInv, RedisOrdered
  <2>5. ASSUME NEW i \in DOMAIN rHeard, NEW j \in DOMAIN rReader'.inbox PROVE rHeard[i] < rReader'.inbox[j]
    BY <2>2, <2>3 DEF RedisInv, RedisOrdered
  <2>6. /\ \A i \in DOMAIN rHeard : rHeard[i] <= rPublished + 1
        /\ \A j \in DOMAIN rReader'.inbox : rReader'.inbox[j] <= rPublished + 1
    BY <1>2, <2>2, <2>3
  <2>7. RedisOrdered'
    BY <1>1, <2>4, <2>5, <2>6 DEF RedisInv, RedisOrdered, Redis!HeardInOrder
  <2> QED BY <1>1, <1>2, <2>1, <2>7, RedisReaderKeeps
<1> QED BY <1>3, <1>4 DEF Redis!Publish

(* A step of the calls: the reader, the hooks and the messages stay.       *)
LEMMA RedisCallKeeps ==
  ASSUME RedisInv, UNCHANGED << Redis!client, Redis!runner >>, rCaller' \in [RedisCallers -> RedisCalling],
         rMade' \in Nat, rPubsub' \in {0, rMade'}, DOMAIN rSubs' = 0..rMade',
         rLoops' \in {{}, {0}, {rPubsub'}}, RedisAttended'
  PROVE  RedisInv'
<1>1. RedisKinds' /\ RedisHooked'
  BY DEF RedisInv, RedisKinds, RedisHooked, Redis!HooksAreDue, Redis!client, Redis!runner
<1>2. RedisOrdered'
  BY DEF RedisInv, RedisOrdered, Redis!HeardInOrder, Redis!client, Redis!runner
<1> QED BY <1>1, <1>2 DEF RedisInv

(* Calls that go on or end, without a loop or a subscription changing.     *)
LEMMA RedisOnKeeps ==
  ASSUME RedisInv, UNCHANGED << Redis!client, Redis!runner, rPubsub, rChannels, rMade, rSubs, rLoops >>,
         rCaller' \in [RedisCallers -> RedisCalling],
         \A d \in RedisCallers : rCaller'[d].open => rCaller[d].open
  PROVE  RedisInv'
<1>1. RedisAttended'
  BY DEF RedisInv, RedisAttended, Redis!Closing, Redis!client
<1> QED BY <1>1, RedisCallKeeps DEF RedisInv, RedisKinds

LEMMA RedisStepKeeps ==
  ASSUME RedisInv, NEW c \in RedisCallers,
         \/ Redis!Send(c) \/ Redis!Published(c, TRUE) \/ Redis!Published(c, FALSE) \/ Redis!Answer(c) \/ Redis!Wakes(c) \/ Redis!GivesUp(c)
  PROVE  RedisInv'
<1>1. UNCHANGED << Redis!client, Redis!runner, rPubsub, rChannels, rMade, rSubs, rLoops >>
  BY DEF Redis!Send, Redis!Published, Redis!Answer, Redis!Wakes, Redis!GivesUp
<1>2. rCaller \in [RedisCallers -> RedisCalling] /\ rCaller[c] \in RedisCalling
  BY DEF RedisInv, RedisKinds
<1>3. \/ rCaller' = rCaller \/ rCaller' = [rCaller EXCEPT ![c].at = "lock", ![c].calls = @ + 1]
      \/ rCaller' = [rCaller EXCEPT ![c].at = "wait"] \/ rCaller' = [rCaller EXCEPT ![c].at = "idle"]
      \/ rCaller' = [rCaller EXCEPT ![c].at = "idle", ![c].open = FALSE]
  BY DEF Redis!Send, Redis!Published, Redis!Answer, Redis!Wakes, Redis!GivesUp, Redis!At
<1>4. "lock" \in RedisStages /\ "wait" \in RedisStages /\ "idle" \in RedisStages
  BY DEF RedisStages
<1>5. rCaller' \in [RedisCallers -> RedisCalling] /\ \A d \in RedisCallers : rCaller'[d].open => rCaller[d].open
  BY <1>2, <1>3, <1>4 DEF RedisCalling
<1> QED BY <1>1, <1>5, RedisOnKeeps

LEMMA RedisLockedKeeps == ASSUME RedisInv, NEW c \in RedisCallers, Redis!Locked(c) PROVE RedisInv'
<1>1. UNCHANGED << Redis!client, Redis!runner, rLoops >> /\ rSubs' = [p \in 0..rMade' |-> IF p \in Redis!Pubsubs THEN rSubs[p] ELSE {}]
  BY DEF Redis!Locked
<1>2. \/ UNCHANGED << rPubsub, rChannels, rMade >>
      \/ rPubsub = 0 /\ rMade' = rMade + 1 /\ rPubsub' = rMade + 1 /\ rChannels' = {}
  BY DEF Redis!Locked
<1>3. Redis!At(c, "idle") \/ Redis!At(c, "subscribe")
  BY DEF Redis!Locked
<1>4. rCaller' \in [RedisCallers -> RedisCalling] /\ \A d \in RedisCallers : rCaller'[d].open => rCaller[d].open
  BY <1>3 DEF Redis!At, RedisInv, RedisKinds, RedisCalling, RedisStages
<1>5. rMade \in Nat /\ rMade' \in Nat /\ rPubsub' \in {0, rMade'} /\ DOMAIN rSubs' = 0..rMade' /\ rLoops' \in {{}, {0}, {rPubsub'}}
  BY <1>1, <1>2 DEF RedisInv, RedisKinds
<1>6. rLoops \subseteq 0..rMade /\ rPubsub \in 0..rMade /\ 0..rMade \subseteq 0..rMade' /\ \A p \in 0..rMade : rSubs'[p] = rSubs[p]
  <2>1. rMade \in Nat /\ rMade' \in {rMade, rMade + 1} /\ 0 \in 0..rMade /\ rMade \in 0..rMade
    BY <1>2, <1>5
  <2>2. 0..rMade \subseteq 0..rMade'
    BY <2>1
  <2> QED BY <1>1, <2>1, <2>2 DEF RedisInv, RedisKinds, Redis!Pubsubs
<1>7. RedisAttended'
  BY <1>1, <1>2, <1>4, <1>6 DEF RedisInv, RedisAttended, Redis!Closing, Redis!client
<1> QED BY <1>1, <1>4, <1>5, <1>7, RedisCallKeeps

LEMMA RedisReadyCalls ==
  ASSUME RedisKinds, NEW c \in RedisCallers, Redis!Ready(c)
  PROVE  rCaller' \in [RedisCallers -> RedisCalling] /\ \A d \in RedisCallers \ {c} : rCaller'[d] = rCaller[d]
<1>1. rCaller' = [rCaller EXCEPT ![c].at = "publish", ![c].open = TRUE, ![c].outcome = NULL]
  BY DEF Redis!Ready
<1>2. "publish" \in RedisStages /\ NULL \in RedisOutcomes /\ rCaller \in [RedisCallers -> RedisCalling]
  BY DEF RedisStages, RedisOutcomes, RedisKinds
<1> QED BY <1>1, <1>2 DEF RedisCalling

(* Ready to publish: a loop runs, and it reads what was subscribed to or   *)
(* it reads nothing.                                                       *)
LEMMA RedisReadyKeeps ==
  ASSUME RedisInv, NEW c \in RedisCallers, Redis!Ready(c), UNCHANGED << Redis!client, Redis!runner, rPubsub, rMade >>,
         DOMAIN rSubs' = 0..rMade, \A p \in 0..rMade : rSubs[p] \subseteq rSubs'[p],
         rPubsub # 0 => Channel[c] \in rSubs'[rPubsub] /\ rChannels' \subseteq rSubs'[rPubsub]
  PROVE  RedisInv'
<1>1. rLoops' = IF rLoops = {} THEN {rPubsub} ELSE rLoops
  BY DEF Redis!Ready
<1>2. rCaller' \in [RedisCallers -> RedisCalling] /\ \A d \in RedisCallers \ {c} : rCaller'[d] = rCaller[d]
  BY RedisReadyCalls DEF RedisInv
<1>3. rLoops \in {{}, {0}, {rPubsub}} /\ rMade \in Nat /\ rPubsub \in {0, rMade}
  BY DEF RedisInv, RedisKinds
<1>4. rLoops' \in {{0}, {rPubsub}} /\ (rLoops = {} \/ rLoops' = rLoops) /\ rLoops \subseteq 0..rMade
  BY <1>1, <1>3
<1>5. ASSUME ~ Redis!Closing, NEW d \in RedisCallers, rCaller'[d].open PROVE \E p \in rLoops' : p = 0 \/ Channel[d] \in rSubs'[p]
  <2>1. CASE d = c
    BY <1>3, <1>4, <2>1
  <2>2. CASE d # c
    <3>1. PICK p \in rLoops : p = 0 \/ Channel[d] \in rSubs[p]
      BY <1>2, <1>5, <2>2 DEF RedisInv, RedisAttended
    <3> QED BY <1>4, <3>1
  <2> QED BY <2>1, <2>2
<1>6. RedisAttended'
  BY <1>5 DEF RedisAttended, Redis!Closing, Redis!client
<1> QED BY <1>2, <1>3, <1>4, <1>6, RedisCallKeeps

LEMMA RedisSubscribedKeeps == ASSUME RedisInv, NEW c \in RedisCallers, Redis!Subscribed(c, rMade) PROVE RedisInv'
<1>1. UNCHANGED << Redis!client, Redis!runner, rPubsub, rMade >> /\ rMade \in Nat /\ rPubsub \in {0, rMade} /\ DOMAIN rSubs = 0..rMade
  BY DEF Redis!Subscribed, RedisInv, RedisKinds
<1>2. CASE rPubsub # 0 /\ Channel[c] \in rChannels
  <2>1. Redis!Ready(c) /\ UNCHANGED << rChannels, rSubs >>
    BY <1>2 DEF Redis!Subscribed
  <2>2. CASE ~ Redis!Closing
    <3>1. rChannels \subseteq rSubs[rPubsub]
      BY <1>2, <2>2 DEF RedisInv, RedisAttended
    <3> QED BY <1>1, <1>2, <2>1, <3>1, RedisReadyKeeps
  <2>3. CASE Redis!Closing
    <3>1. RedisAttended'
      BY <1>1, <2>3 DEF RedisAttended, Redis!Closing, Redis!client
    <3>2. rCaller' \in [RedisCallers -> RedisCalling]
      BY <2>1, RedisReadyCalls DEF RedisInv
    <3>3. rLoops' \in {{}, {0}, {rPubsub}}
      BY <2>1 DEF Redis!Ready, RedisInv, RedisKinds
    <3> QED BY <1>1, <2>1, <3>1, <3>2, <3>3, RedisCallKeeps
  <2> QED BY <2>2, <2>3
<1>3. CASE Redis!Ready(c) /\ rChannels' = rChannels \cup {Channel[c]} /\ rSubs' = [rSubs EXCEPT ![rMade] = @ \cup {Channel[c]}]
  <2>1. DOMAIN rSubs' = 0..rMade /\ (\A p \in 0..rMade : rSubs[p] \subseteq rSubs'[p]) /\ rSubs'[rMade] = rSubs[rMade] \cup {Channel[c]}
    BY <1>1, <1>3
  <2>2. CASE ~ Redis!Closing
    <3>1. rPubsub # 0 => Channel[c] \in rSubs'[rPubsub] /\ rChannels' \subseteq rSubs'[rPubsub]
      BY <1>1, <1>3, <2>1, <2>2 DEF RedisInv, RedisAttended
    <3> QED BY <1>1, <1>3, <2>1, <3>1, RedisReadyKeeps
  <2>3. CASE Redis!Closing
    <3>1. RedisAttended'
      BY <1>1, <2>3 DEF RedisAttended, Redis!Closing, Redis!client
    <3>2. rCaller' \in [RedisCallers -> RedisCalling]
      BY <1>3, RedisReadyCalls DEF RedisInv
    <3>3. rLoops' \in {{}, {0}, {rPubsub}}
      BY <1>3 DEF Redis!Ready, RedisInv, RedisKinds
    <3> QED BY <1>1, <2>1, <3>1, <3>2, <3>3, RedisCallKeeps
  <2> QED BY <2>2, <2>3
<1>4. CASE Redis!At(c, "idle") /\ UNCHANGED << rChannels, rSubs, rLoops >>
  <2>1. rCaller' \in [RedisCallers -> RedisCalling] /\ \A d \in RedisCallers : rCaller'[d].open => rCaller[d].open
    BY <1>4 DEF Redis!At, RedisInv, RedisKinds, RedisCalling, RedisStages
  <2> QED BY <1>1, <1>4, <2>1, RedisOnKeeps
<1> QED BY <1>2, <1>3, <1>4 DEF Redis!Subscribed

(* Nobody's call is left open when the loop ends.                          *)
LEMMA RedisResolved ==
  ASSUME RedisInv, NEW outcome \in RedisOutcomes, Redis!Resolve(outcome)
  PROVE  rCaller' \in [RedisCallers -> RedisCalling] /\ \A c \in RedisCallers : ~ rCaller'[c].open
<1>1. ASSUME NEW c \in RedisCallers PROVE rCaller'[c] \in RedisCalling /\ ~ rCaller'[c].open
  <2>1. rCaller[c] \in RedisCalling /\ rCaller'[c] = IF rCaller[c].open THEN [rCaller[c] EXCEPT !.open = FALSE, !.outcome = outcome] ELSE rCaller[c]
    BY DEF Redis!Resolve, RedisInv, RedisKinds
  <2> QED BY <2>1 DEF RedisCalling
<1> QED BY <1>1 DEF Redis!Resolve

LEMMA RedisLoopKeeps ==
  ASSUME RedisInv, NEW p \in Redis!Pubsubs, Redis!Read(p) \/ Redis!Mended(p) \/ Redis!LoopDies(p)
  PROVE  RedisInv'
<1>1. CASE Redis!Read(p)
  <2>1. UNCHANGED << Redis!client, Redis!runner, rPubsub, rChannels, rMade, rSubs, rLoops >> /\ Redis!Deliver(Head(rInbox[p]))
    BY <1>1 DEF Redis!Read
  <2>2. rCaller \in [RedisCallers -> RedisCalling]
    BY DEF RedisInv, RedisKinds
  <2>3. PICK c : Redis!Deliver(c)
    BY <2>1
  <2>4. rCaller' = rCaller \/ rCaller' = [rCaller EXCEPT ![c].open = FALSE, ![c].outcome = "answer"]
    BY <2>3 DEF Redis!Deliver
  <2>5. rCaller' \in [RedisCallers -> RedisCalling] /\ \A d \in RedisCallers : rCaller'[d].open => rCaller[d].open
    <3>1. rCaller' \in [RedisCallers -> RedisCalling] /\ \A d \in RedisCallers : rCaller'[d].open => rCaller[d].open
      <4>1. ASSUME NEW d \in RedisCallers PROVE rCaller'[d] \in RedisCalling /\ (rCaller'[d].open => rCaller[d].open)
        <5>1. rCaller[d] \in RedisCalling
          BY <2>2
        <5>2. rCaller'[d] = rCaller[d] \/ rCaller'[d] = [rCaller[d] EXCEPT !.open = FALSE, !.outcome = "answer"]
          BY <2>2, <2>4
        <5> QED BY <5>1, <5>2 DEF RedisCalling, RedisOutcomes
      <4>2. rCaller' = [d \in RedisCallers |-> rCaller'[d]]
        BY <2>2, <2>4
      <4> QED BY <4>1, <4>2
    <3> QED BY <3>1
  <2> QED BY <2>1, <2>5, RedisOnKeeps
<1>2. CASE Redis!Mended(p)
  BY <1>2, RedisOnKeeps DEF Redis!Mended, RedisInv, RedisKinds
<1>3. CASE Redis!LoopDies(p)
  <2>1. /\ p \in rLoops /\ rLoops' = rLoops \ {p} /\ rPubsub' = 0 /\ rChannels' = {} /\ rSubs' = [rSubs EXCEPT ![p] = {}]
        /\ UNCHANGED << Redis!client, Redis!runner, rMade >> /\ IF Redis!Closing THEN UNCHANGED rCaller ELSE Redis!Resolve("lost")
    BY <1>3 DEF Redis!LoopDies
  <2>2. rCaller' \in [RedisCallers -> RedisCalling] /\ (~ Redis!Closing => \A c \in RedisCallers : ~ rCaller'[c].open)
    <3>1. CASE Redis!Closing
      BY <2>1, <3>1 DEF RedisInv, RedisKinds
    <3>2. CASE ~ Redis!Closing
      BY <2>1, <3>2, RedisResolved DEF RedisOutcomes
    <3> QED BY <3>1, <3>2
  <2>3. rMade' \in Nat /\ DOMAIN rSubs' = 0..rMade' /\ rLoops' = {}
    BY <2>1 DEF RedisInv, RedisKinds
  <2>4. RedisAttended'
    BY <2>1, <2>2 DEF RedisAttended, Redis!Closing, Redis!client
  <2> QED BY <2>1, <2>2, <2>3, <2>4, RedisCallKeeps
<1> QED BY <1>1, <1>2, <1>3

LEMMA RedisCloseKeeps == ASSUME RedisInv, Redis!CloseRpc PROVE RedisInv'
<1>1. /\ rPhase' = "rpc closed" /\ Redis!Resolve("cancelled") /\ rLoops' = {} /\ rPubsub' = 0
      /\ rSubs' = [p \in Redis!Pubsubs |-> {}] /\ UNCHANGED << rSupervisor, Redis!runner, rMade >>
  BY DEF Redis!CloseRpc
<1>2. rCaller' \in [RedisCallers -> RedisCalling]
  BY <1>1, RedisResolved DEF RedisOutcomes
<1>3. RedisKinds' /\ RedisAttended' /\ RedisHooked'
  BY <1>1, <1>2 DEF RedisInv, RedisKinds, Redis!Pubsubs, RedisAttended, Redis!Closing, RedisHooked, Redis!HooksAreDue, Redis!runner
<1>4. RedisOrdered'
  BY <1>1 DEF RedisInv, RedisOrdered, Redis!HeardInOrder, Redis!runner
<1> QED BY <1>3, <1>4 DEF RedisInv

LEMMA RedisNext == ASSUME RedisInv, [Redis!Next]_redisVars PROVE RedisInv'
<1>1. CASE UNCHANGED redisVars
  BY <1>1, RedisReaderKeeps DEF redisVars, Redis!client, Redis!rpc, Redis!runner, RedisInv, RedisKinds, RedisOrdered, Redis!HeardInOrder
<1>2. ASSUME NEW c \in RedisCallers,
             \/ Redis!Send(c) \/ Redis!Locked(c) \/ Redis!Subscribed(c, rMade) \/ Redis!Published(c, TRUE)
             \/ Redis!Published(c, FALSE) \/ Redis!Answer(c) \/ Redis!Wakes(c) \/ Redis!GivesUp(c)
      PROVE  RedisInv'
  BY <1>2, RedisStepKeeps, RedisLockedKeeps, RedisSubscribedKeeps
<1> QED BY <1>1, <1>2, RedisClientKeeps, RedisLoseKeeps, RedisListenKeeps, RedisHandleKeeps, RedisPublishKeeps, RedisLoopKeeps, RedisCloseKeeps DEF Redis!Next

LEMMA RedisInvIsSafe == RedisInv => Redis!RedisSafe
<1> SUFFICES ASSUME RedisInv PROVE Redis!RedisSafe
  OBVIOUS
<1>1. Redis!NoDeafWait
  BY DEF Redis!NoDeafWait, RedisInv, RedisAttended, Redis!Closing
<1>2. Redis!OneLoop
  BY DEF Redis!OneLoop, RedisInv, RedisKinds
<1>3. Redis!HeardInOrder
  BY DEF RedisInv, RedisOrdered
<1>4. Redis!HooksAreDue
  BY DEF RedisInv, RedisHooked
<1> QED BY <1>1, <1>2, <1>3, <1>4 DEF Redis!RedisSafe

-----------------------------------------------------------------------------
(***************************************************************************)
(* RabbitMQ consumers: what a callback holds is unacknowledged, every copy *)
(* had the attempts before its own, and calls are paid for by failures of  *)
(* the attempt before and by copies that went back to the queue.           *)
(***************************************************************************)
ConsumersDone(m) == m \in cGood \cup cDead \cup cDropped
ConsumersKept(c) == cReady[c] > 0 \/ cDelayed[c] > 0 \/ \E p \in ConsumerProcs : cUnacked[p][c] > 0
ConsumersAfter(c) == \E d \in Consumers!Copies : Consumers!Body(d) = Consumers!Body(c) /\ Consumers!Header(d) > Consumers!Header(c) /\ ConsumersKept(d)
ConsumersHolding(p, c) == {t \in Consumers!Tasks : cSlot[t].step # "idle" /\ cSlot[t].live /\ cSlot[t].proc = p /\ cSlot[t].copy = c}
ConsumersTrying(c) == {t \in Consumers!Tasks : cSlot[t].step \in {"handler", "publish"} /\ cSlot[t].copy = c}
ConsumersPending(c) == IF Consumers!Header(c) = 0 THEN 0 ELSE Cardinality(ConsumersTrying(<< Consumers!Body(c), Consumers!Header(c) - 1 >>))

ConsumersCovered == \A p \in ConsumerProcs, c \in Consumers!Copies : Cardinality(ConsumersHolding(p, c)) <= cUnacked[p][c]
ConsumersPassed == \A t \in Consumers!Tasks : cSlot[t].step = "ack" => ConsumersDone(Consumers!Body(cSlot[t].copy)) \/ ConsumersAfter(cSlot[t].copy)
ConsumersReached == \A c \in Consumers!Copies : ConsumersKept(c) => \A h \in 0..Consumers!Header(c) - 1 : cCalls[<< Consumers!Body(c), h >>] > 0
ConsumersTried == \A t \in Consumers!Tasks :
  cSlot[t].step # "idle" => \A h \in 0..Consumers!Header(cSlot[t].copy) : cCalls[<< Consumers!Body(cSlot[t].copy), h >>] > 0
ConsumersEnds == \A t \in Consumers!Tasks :
  /\ cSlot[t].step = "reject" => Consumers!Body(cSlot[t].copy) \in (Orders \cap {"junk"}) \/ Consumers!Header(cSlot[t].copy) = Attempts
  /\ cSlot[t].step = "publish" => Consumers!Header(cSlot[t].copy) < Attempts
ConsumersPaid == \A c \in Consumers!Copies : cCalls[c] + cReady[c] + cDelayed[c] + ConsumersPending(c) <= Consumers!Before(c) + cAgain[c]
ConsumersInv == /\ Consumers!TypeOK /\ ConsumersCovered /\ ConsumersPassed /\ ConsumersReached /\ ConsumersTried /\ ConsumersEnds /\ ConsumersPaid
                /\ Consumers!NothingLost /\ Consumers!EarnedItsEnd

LEMMA CopyFacts ==
  /\ \A c \in Consumers!Copies : Consumers!Body(c) \in Orders /\ Consumers!Header(c) \in 0..Attempts /\ c = << Consumers!Body(c), Consumers!Header(c) >>
  /\ \A m \in Orders, h \in 0..Attempts :
       << m, h >> \in Consumers!Copies /\ Consumers!Body(<< m, h >>) = m /\ Consumers!Header(<< m, h >>) = h
BY DEF Consumers!Copies, Consumers!Body, Consumers!Header

LEMMA AgainFacts ==
  ASSUME NEW c \in Consumers!Copies, Consumers!Header(c) < Attempts
  PROVE  /\ Consumers!Again(c) \in Consumers!Copies /\ Consumers!Body(Consumers!Again(c)) = Consumers!Body(c) /\ Consumers!Header(Consumers!Again(c)) = Consumers!Header(c) + 1
         /\ c = << Consumers!Body(Consumers!Again(c)), Consumers!Header(Consumers!Again(c)) - 1 >>
<1>1. /\ Consumers!Body(c) \in Orders /\ Consumers!Header(c) \in 0..Attempts
      /\ c = << Consumers!Body(c), Consumers!Header(c) >> /\ Consumers!Header(c) + 1 \in 0..Attempts /\ (Consumers!Header(c) + 1) - 1 = Consumers!Header(c)
  BY CopyFacts, ConsumersInstance DEF Consumers!ConsumersAssumption
<1> QED BY <1>1, CopyFacts DEF Consumers!Again, Consumers!Attempt

LEMMA ConsumersTaskFacts ==
  ASSUME Consumers!TypeOK, NEW t \in Consumers!Tasks, cSlot[t].step # "idle"
  PROVE  /\ cSlot[t].step \in Consumers!Steps /\ cSlot[t].proc \in ConsumerProcs /\ cSlot[t].copy \in Consumers!Copies
         /\ cSlot[t].live \in BOOLEAN /\ cSlot[t] \in Consumers!Busy
         /\ Consumers!Body(cSlot[t].copy) \in Orders /\ Consumers!Header(cSlot[t].copy) \in 0..Attempts
<1>1. cSlot[t] \in Consumers!Busy
  BY DEF Consumers!TypeOK, Consumers!Idle
<1> QED BY <1>1, CopyFacts DEF Consumers!Busy

LEMMA ConsumersCounts ==
  /\ \A S : S \in SUBSET Consumers!Tasks => IsFiniteSet(S) /\ Cardinality(S) \in Nat
  /\ \A S, T : S \subseteq T /\ T \in SUBSET Consumers!Tasks => Cardinality(S) <= Cardinality(T)
  /\ \A S, t : S \in SUBSET Consumers!Tasks /\ t \in S => Cardinality(S \ {t}) = Cardinality(S) - 1 /\ Cardinality(S) > 0
  /\ \A S, t : S \in SUBSET Consumers!Tasks /\ t \in Consumers!Tasks /\ t \notin S => Cardinality(S \cup {t}) = Cardinality(S) + 1
  /\ Cardinality({}) = 0
<1>1. IsFiniteSet(Consumers!Tasks)
  BY FS_Interval, ConsumersInstance DEF Consumers!Tasks, Consumers!ConsumersAssumption
<1>2. \A S : S \in SUBSET Consumers!Tasks => IsFiniteSet(S) /\ Cardinality(S) \in Nat
  BY <1>1, FS_Subset, FS_CardinalityType
<1>3. \A S, T : S \subseteq T /\ T \in SUBSET Consumers!Tasks => Cardinality(S) <= Cardinality(T)
  BY <1>2, FS_Subset
<1>4. \A S, t : S \in SUBSET Consumers!Tasks /\ t \in S => Cardinality(S \ {t}) = Cardinality(S) - 1
  BY <1>2, FS_RemoveElement
<1>5. \A S, t : S \in SUBSET Consumers!Tasks /\ t \in S => Cardinality(S) > 0
  <2>1. \A S, t : S \in SUBSET Consumers!Tasks /\ t \in S => Cardinality(S \ {t}) \in Nat
    BY <1>2
  <2>2. \A S, t : S \in SUBSET Consumers!Tasks /\ t \in S => Cardinality(S) \in Nat /\ Cardinality(S) - 1 \in Nat
    BY <2>1, <1>2, <1>4
  <2> QED BY <2>2
<1>6. \A S, t : S \in SUBSET Consumers!Tasks /\ t \in Consumers!Tasks /\ t \notin S => Cardinality(S \cup {t}) = Cardinality(S) + 1
  BY <1>2, FS_AddElement
<1> QED BY <1>2, <1>3, <1>4, <1>5, <1>6, FS_EmptySet

LEMMA ConsumersNumberFacts ==
  ASSUME Consumers!TypeOK, NEW c \in Consumers!Copies
  PROVE  /\ cReady[c] \in Nat /\ cDelayed[c] \in Nat /\ cCalls[c] \in Nat /\ cAgain[c] \in Nat
         /\ \A p \in ConsumerProcs : cUnacked[p][c] \in Nat
         /\ Consumers!Before(c) \in Nat /\ ConsumersPending(c) \in Nat
<1>1. Consumers!Body(c) \in Orders /\ Consumers!Header(c) \in 0..Attempts /\ Attempts \in Nat
  BY CopyFacts, ConsumersInstance DEF Consumers!ConsumersAssumption
<1>2. Consumers!Header(c) # 0 => Consumers!Header(c) - 1 \in 0..Attempts
  BY <1>1
<1>3. Consumers!Header(c) # 0 => << Consumers!Body(c), Consumers!Header(c) - 1 >> \in Consumers!Copies
  BY <1>1, <1>2, CopyFacts
<1>4. Consumers!Before(c) \in Nat
  BY <1>3 DEF Consumers!Before, Consumers!TypeOK
<1>5. ConsumersPending(c) \in Nat
  <2>1. \A d : ConsumersTrying(d) \in SUBSET Consumers!Tasks
    BY DEF ConsumersTrying
  <2> QED BY <2>1, ConsumersCounts DEF ConsumersPending
<1> QED BY <1>4, <1>5 DEF Consumers!TypeOK
ConsumersCallsGrow == \A c \in Consumers!Copies : cCalls[c] <= cCalls'[c]
ConsumersDoneGrows == cGood \subseteq cGood' /\ cDead \subseteq cDead' /\ cDropped \subseteq cDropped'
ConsumersSurvives == \A c \in Consumers!Copies : ConsumersKept(c) => ConsumersKept(c)' \/ ConsumersDone(Consumers!Body(c))' \/ ConsumersAfter(c)'
ConsumersFresh == \A c \in Consumers!Copies :
  ConsumersKept(c)' => ConsumersKept(c) \/ \E t \in Consumers!Tasks : cSlot[t].step = "publish" /\ c = Consumers!Again(cSlot[t].copy)
ConsumersEnded == \A m \in Orders :
  Consumers!GivenUp(m)' => Consumers!GivenUp(m) \/ \E t \in Consumers!Tasks : cSlot[t].step = "reject" /\ Consumers!Body(cSlot[t].copy) = m
ConsumersGoes(t) ==
  \/ cSlot'[t].step = "idle"
  \/ /\ cSlot[t].step # "idle" /\ cSlot'[t].copy = cSlot[t].copy
     /\ \/ cSlot'[t].step = cSlot[t].step
        \/ cSlot'[t].step = "ack" /\ (ConsumersDone(Consumers!Body(cSlot[t].copy))' \/ ConsumersAfter(cSlot[t].copy)')
        \/ cSlot'[t].step = "reject" /\ Consumers!GivesUp(cSlot[t].copy)
        \/ cSlot'[t].step = "publish" /\ ~Consumers!GivesUp(cSlot[t].copy)
        \/ cSlot'[t].step = "nack"
  \/ /\ cSlot'[t].step = "handler" /\ cSlot'[t].copy \in Consumers!Copies
     /\ ConsumersKept(cSlot'[t].copy) /\ cCalls'[cSlot'[t].copy] > 0
ConsumersMoves == /\ ConsumersCallsGrow /\ ConsumersDoneGrows /\ ConsumersSurvives /\ ConsumersFresh /\ ConsumersEnded
                  /\ \A t \in Consumers!Tasks : ConsumersGoes(t)

LEMMA ConsumersCarried ==
  ASSUME ConsumersInv, Consumers!TypeOK', ConsumersCovered', ConsumersPaid', ConsumersMoves
  PROVE  ConsumersInv'
<1> USE ConsumersInstance DEF Consumers!ConsumersAssumption
<1>a. /\ Consumers!TypeOK /\ ConsumersPassed /\ ConsumersReached /\ ConsumersTried /\ ConsumersEnds /\ Consumers!NothingLost /\ Consumers!EarnedItsEnd
      /\ ConsumersCallsGrow /\ ConsumersDoneGrows /\ ConsumersSurvives /\ ConsumersFresh /\ ConsumersEnded /\ \A t \in Consumers!Tasks : ConsumersGoes(t)
  BY DEF ConsumersInv, ConsumersMoves
<1>b. \A m \in Orders, h \in 0..Attempts : cCalls[<< m, h >>] > 0 => cCalls'[<< m, h >>] > 0
  <2>1. \A m \in Orders, h \in 0..Attempts : << m, h >> \in Consumers!Copies
    BY CopyFacts
  <2>2. \A c \in Consumers!Copies : cCalls[c] \in Nat /\ cCalls'[c] \in Nat
    BY <1>a DEF Consumers!TypeOK
  <2> QED BY <2>1, <2>2, <1>a DEF ConsumersCallsGrow
<1>c. \A m : ConsumersDone(m) => ConsumersDone(m)'
  BY <1>a DEF ConsumersDone, ConsumersDoneGrows
<1>d. \A c \in Consumers!Copies : ConsumersAfter(c) => ConsumersDone(Consumers!Body(c))' \/ ConsumersAfter(c)'
  <2> SUFFICES ASSUME NEW c \in Consumers!Copies, ConsumersAfter(c)
               PROVE  ConsumersDone(Consumers!Body(c))' \/ ConsumersAfter(c)'
    OBVIOUS
  <2>1. PICK d \in Consumers!Copies : Consumers!Body(d) = Consumers!Body(c) /\ Consumers!Header(d) > Consumers!Header(c) /\ ConsumersKept(d)
    BY DEF ConsumersAfter
  <2>2. ConsumersKept(d)' \/ ConsumersDone(Consumers!Body(d))' \/ ConsumersAfter(d)'
    BY <1>a, <2>1 DEF ConsumersSurvives
  <2>3. CASE ConsumersKept(d)'
    BY <2>1, <2>3 DEF ConsumersAfter
  <2>4. CASE ConsumersDone(Consumers!Body(d))'
    BY <2>1, <2>4
  <2>5. CASE ConsumersAfter(d)'
    <3>1. PICK e \in Consumers!Copies : Consumers!Body(e) = Consumers!Body(d) /\ Consumers!Header(e) > Consumers!Header(d) /\ ConsumersKept(e)'
      BY <2>5 DEF ConsumersAfter
    <3>2. Consumers!Header(c) \in Int /\ Consumers!Header(d) \in Int /\ Consumers!Header(e) \in Int
      BY CopyFacts
    <3>3. Consumers!Body(e) = Consumers!Body(c) /\ Consumers!Header(e) > Consumers!Header(c)
      BY <3>1, <3>2, <2>1
    <3> QED BY <3>1, <3>3 DEF ConsumersAfter
  <2> QED BY <2>2, <2>3, <2>4, <2>5
<1>1. ConsumersPassed'
  <2> SUFFICES ASSUME NEW t \in Consumers!Tasks, cSlot'[t].step = "ack"
               PROVE  ConsumersDone(Consumers!Body(cSlot[t].copy))' \/ ConsumersAfter(cSlot[t].copy)'
    BY DEF ConsumersPassed
  <2>1. ConsumersGoes(t)
    BY <1>a
  <2>2. cSlot[t].step # "idle" /\ cSlot'[t].copy = cSlot[t].copy
    BY <2>1 DEF ConsumersGoes
  <2>3. CASE cSlot[t].step = "ack"
    <3>1. ConsumersDone(Consumers!Body(cSlot[t].copy)) \/ ConsumersAfter(cSlot[t].copy)
      BY <1>a, <2>3 DEF ConsumersPassed
    <3>2. cSlot[t].copy \in Consumers!Copies
      BY <1>a, <2>2, ConsumersTaskFacts
    <3> QED BY <3>1, <3>2, <2>2, <1>c, <1>d
  <2>4. CASE ConsumersDone(Consumers!Body(cSlot[t].copy))' \/ ConsumersAfter(cSlot[t].copy)'
    BY <2>4, <2>2
  <2> QED BY <2>1, <2>2, <2>3, <2>4 DEF ConsumersGoes
<1>2. ConsumersReached'
  <2> SUFFICES ASSUME NEW c \in Consumers!Copies, ConsumersKept(c)', NEW h \in 0..Consumers!Header(c) - 1
               PROVE  cCalls'[<< Consumers!Body(c), h >>] > 0
    BY DEF ConsumersReached
  <2>1. Consumers!Body(c) \in Orders /\ Consumers!Header(c) \in 0..Attempts
    BY CopyFacts
  <2>2. h \in 0..Attempts
    BY <2>1
  <2>3. CASE ConsumersKept(c)
    BY <1>a, <1>b, <2>1, <2>2, <2>3 DEF ConsumersReached
  <2>4. CASE \E t \in Consumers!Tasks : cSlot[t].step = "publish" /\ c = Consumers!Again(cSlot[t].copy)
    <3>1. PICK t \in Consumers!Tasks : cSlot[t].step = "publish" /\ c = Consumers!Again(cSlot[t].copy)
      BY <2>4
    <3>2. cSlot[t].copy \in Consumers!Copies /\ Consumers!Header(cSlot[t].copy) < Attempts /\ Consumers!Header(cSlot[t].copy) \in Int
      BY <1>a, <3>1, ConsumersTaskFacts DEF ConsumersEnds
    <3>3. Consumers!Body(c) = Consumers!Body(cSlot[t].copy) /\ Consumers!Header(c) = Consumers!Header(cSlot[t].copy) + 1
      BY <3>1, <3>2, AgainFacts
    <3>4. h \in 0..Consumers!Header(cSlot[t].copy)
      BY <3>2, <3>3
    <3>5. cCalls[<< Consumers!Body(c), h >>] > 0
      BY <1>a, <3>1, <3>3, <3>4 DEF ConsumersTried
    <3> QED BY <3>5, <1>b, <2>1, <2>2
  <2> QED BY <1>a, <2>3, <2>4 DEF ConsumersFresh
<1>3. ConsumersTried'
  <2> SUFFICES ASSUME NEW t \in Consumers!Tasks, cSlot'[t].step # "idle", NEW h \in 0..Consumers!Header(cSlot'[t].copy)
               PROVE  cCalls'[<< Consumers!Body(cSlot'[t].copy), h >>] > 0
    BY DEF ConsumersTried
  <2>1. ConsumersGoes(t)
    BY <1>a
  <2>2. CASE cSlot[t].step # "idle" /\ cSlot'[t].copy = cSlot[t].copy
    <3>1. cCalls[<< Consumers!Body(cSlot[t].copy), h >>] > 0
      BY <1>a, <2>2 DEF ConsumersTried
    <3>2. Consumers!Body(cSlot[t].copy) \in Orders /\ Consumers!Header(cSlot[t].copy) \in 0..Attempts
      BY <1>a, <2>2, ConsumersTaskFacts
    <3>3. h \in 0..Attempts
      BY <3>2, <2>2
    <3> QED BY <3>1, <3>2, <3>3, <2>2, <1>b
  <2>3. CASE cSlot'[t].copy \in Consumers!Copies /\ ConsumersKept(cSlot'[t].copy) /\ cCalls'[cSlot'[t].copy] > 0
    <3> DEFINE c == cSlot'[t].copy
    <3>1. Consumers!Body(c) \in Orders /\ Consumers!Header(c) \in 0..Attempts /\ c = << Consumers!Body(c), Consumers!Header(c) >>
      BY CopyFacts, <2>3
    <3>2. CASE h = Consumers!Header(c)
      BY <2>3, <3>1, <3>2
    <3>3. CASE h # Consumers!Header(c)
      <4>1. h \in 0..Consumers!Header(c) - 1 /\ h \in 0..Attempts
        BY <3>1, <3>3
      <4>2. cCalls[<< Consumers!Body(c), h >>] > 0
        BY <1>a, <2>3, <4>1 DEF ConsumersReached
      <4> QED BY <4>1, <4>2, <3>1, <1>b
    <3> QED BY <3>2, <3>3
  <2> QED BY <2>1, <2>2, <2>3 DEF ConsumersGoes
<1>4. ConsumersEnds'
  <2> SUFFICES ASSUME NEW t \in Consumers!Tasks, cSlot'[t].step \in {"reject", "publish"}
               PROVE  /\ cSlot'[t].step = "reject" => Consumers!Body(cSlot'[t].copy) \in (Orders \cap {"junk"}) \/ Consumers!Header(cSlot'[t].copy) = Attempts
                      /\ cSlot'[t].step = "publish" => Consumers!Header(cSlot'[t].copy) < Attempts
    BY DEF ConsumersEnds
  <2>1. ConsumersGoes(t)
    BY <1>a
  <2>2. cSlot[t].step # "idle" /\ cSlot'[t].copy = cSlot[t].copy
    BY <2>1 DEF ConsumersGoes
  <2>3. Consumers!Header(cSlot[t].copy) \in 0..Attempts
    BY <1>a, <2>2, ConsumersTaskFacts
  <2>4. CASE cSlot'[t].step = cSlot[t].step
    BY <1>a, <2>2, <2>4 DEF ConsumersEnds
  <2>5. CASE cSlot'[t].step = "reject" /\ Consumers!GivesUp(cSlot[t].copy)
    BY <2>2, <2>3, <2>5 DEF Consumers!GivesUp, Consumers!Attempt
  <2>6. CASE cSlot'[t].step = "publish" /\ ~Consumers!GivesUp(cSlot[t].copy)
    BY <2>2, <2>3, <2>6 DEF Consumers!GivesUp, Consumers!Attempt
  <2> QED BY <2>1, <2>2, <2>4, <2>5, <2>6 DEF ConsumersGoes
<1>5. Consumers!NothingLost'
  <2> SUFFICES ASSUME NEW m \in Orders
               PROVE  ConsumersDone(m)' \/ \E c \in Consumers!Copies : Consumers!Body(c) = m /\ ConsumersKept(c)'
    BY DEF Consumers!NothingLost, Consumers!GivenUp, Consumers!InBroker, ConsumersDone, ConsumersKept
  <2>1. ConsumersDone(m) \/ \E c \in Consumers!Copies : Consumers!Body(c) = m /\ ConsumersKept(c)
    BY <1>a DEF Consumers!NothingLost, Consumers!GivenUp, Consumers!InBroker, ConsumersDone, ConsumersKept
  <2>2. CASE ConsumersDone(m)
    BY <2>2, <1>c
  <2>3. CASE \E c \in Consumers!Copies : Consumers!Body(c) = m /\ ConsumersKept(c)
    <3>1. PICK c \in Consumers!Copies : Consumers!Body(c) = m /\ ConsumersKept(c)
      BY <2>3
    <3>2. ConsumersKept(c)' \/ ConsumersDone(m)' \/ ConsumersAfter(c)'
      BY <3>1, <1>a DEF ConsumersSurvives
    <3>3. CASE ConsumersAfter(c)'
      BY <3>1, <3>3 DEF ConsumersAfter
    <3> QED BY <3>1, <3>2, <3>3
  <2> QED BY <2>1, <2>2, <2>3
<1>6. Consumers!EarnedItsEnd'
  <2> SUFFICES ASSUME NEW m \in Orders, Consumers!GivenUp(m)', m \notin (Orders \cap {"junk"})
               PROVE  \A h \in 0..Attempts : cCalls'[<< m, h >>] > 0
    BY DEF Consumers!EarnedItsEnd
  <2>1. CASE Consumers!GivenUp(m)
    BY <2>1, <1>a, <1>b DEF Consumers!EarnedItsEnd
  <2>2. CASE \E t \in Consumers!Tasks : cSlot[t].step = "reject" /\ Consumers!Body(cSlot[t].copy) = m
    <3>1. PICK t \in Consumers!Tasks : cSlot[t].step = "reject" /\ Consumers!Body(cSlot[t].copy) = m
      BY <2>2
    <3>2. Consumers!Header(cSlot[t].copy) = Attempts
      BY <3>1, <1>a DEF ConsumersEnds
    <3>3. \A h \in 0..Attempts : cCalls[<< m, h >>] > 0
      BY <3>1, <3>2, <1>a DEF ConsumersTried
    <3> QED BY <3>3, <1>b
  <2> QED BY <2>1, <2>2, <1>a DEF ConsumersEnded
<1> QED BY <1>1, <1>2, <1>3, <1>4, <1>5, <1>6 DEF ConsumersInv
LEMMA ConsumersTyped ==
  ASSUME Consumers!TypeOK, ConsumersCovered, Consumers!Next
  PROVE  Consumers!TypeOK'
<1> USE ConsumersInstance DEF Consumers!ConsumersAssumption
<1>1. \A bag \in [Consumers!Copies -> Nat], c \in Consumers!Copies : Consumers!Plus(bag, c) \in [Consumers!Copies -> Nat]
  BY DEF Consumers!Plus
<1>2. \A bag \in [Consumers!Copies -> Nat], c \in Consumers!Copies : bag[c] > 0 => Consumers!Minus(bag, c) \in [Consumers!Copies -> Nat]
  BY DEF Consumers!Minus
<1>3. Consumers!Empty \in [Consumers!Copies -> Nat]
  BY DEF Consumers!Empty
<1>4. ASSUME NEW p \in ConsumerProcs, Consumers!ProcStep(p)
      PROVE  Consumers!TypeOK'
  <2>1. ASSUME Consumers!PutBack(p)
        PROVE  /\ cReady' \in [Consumers!Copies -> Nat] /\ cUnacked' \in [ConsumerProcs -> [Consumers!Copies -> Nat]]
               /\ cAgain' \in [Consumers!Copies -> Nat]
    BY <2>1, <1>3 DEF Consumers!PutBack, Consumers!TypeOK
  <2>2. ASSUME Consumers!Outlive(p)
        PROVE  cSlot' \in [Consumers!Tasks -> Consumers!Busy \cup {Consumers!Idle}]
    <3>1. \A t \in Consumers!Tasks : cSlot[t].proc = p => cSlot[t] \in Consumers!Busy
      BY DEF Consumers!TypeOK, Consumers!Idle, Consumers!ConsumersAssumption
    <3>2. \A t \in Consumers!Tasks : cSlot[t].proc = p => [cSlot[t] EXCEPT !.live = FALSE] \in Consumers!Busy
      BY <3>1 DEF Consumers!Busy
    <3> QED BY <2>2, <3>2 DEF Consumers!Outlive, Consumers!TypeOK
  <2>3. CASE Consumers!Connect(p)
    BY <2>3 DEF Consumers!Connect, Consumers!TypeOK, Consumers!broker, Consumers!history
  <2>4. CASE Consumers!Setup(p)
    BY <2>4 DEF Consumers!Setup, Consumers!TypeOK, Consumers!broker, Consumers!history
  <2>5. CASE Consumers!SetupFails(p)
    BY <2>5 DEF Consumers!SetupFails, Consumers!TypeOK, Consumers!broker, Consumers!history, Consumers!Fail
  <2>6. CASE Consumers!ConnectionLost(p)
    BY <2>6, <2>1, <2>2 DEF Consumers!ConnectionLost, Consumers!TypeOK, Consumers!PutBack, Consumers!Fail
  <2>7. CASE Consumers!Crash(p)
    BY <2>7, <2>1 DEF Consumers!Crash, Consumers!TypeOK, Consumers!PutBack, Consumers!Fail
  <2>8. CASE Consumers!Shutdown(p)
    BY <2>8 DEF Consumers!Shutdown, Consumers!TypeOK, Consumers!broker, Consumers!history
  <2>9. CASE Consumers!Close(p)
    BY <2>9, <2>1, <2>2 DEF Consumers!Close, Consumers!TypeOK, Consumers!PutBack
  <2> QED BY <1>4, <2>3, <2>4, <2>5, <2>6, <2>7, <2>8, <2>9 DEF Consumers!ProcStep
<1>5. ASSUME NEW p \in ConsumerProcs, NEW t \in Consumers!Tasks, NEW c \in Consumers!Copies, Consumers!Deliver(p, t, c)
      PROVE  Consumers!TypeOK'
  <2>1. [step |-> "handler", proc |-> p, copy |-> c, live |-> TRUE] \in Consumers!Busy
    BY DEF Consumers!Busy, Consumers!Steps
  <2>2. cReady' \in [Consumers!Copies -> Nat] /\ cCalls' \in [Consumers!Copies -> Nat]
    BY <1>5, <1>1, <1>2 DEF Consumers!Deliver, Consumers!TypeOK
  <2>3. cUnacked' \in [ConsumerProcs -> [Consumers!Copies -> Nat]]
    <3>1. cUnacked[p] \in [Consumers!Copies -> Nat]
      BY DEF Consumers!TypeOK
    <3>2. Consumers!Plus(cUnacked[p], c) \in [Consumers!Copies -> Nat]
      BY <3>1, <1>1
    <3> QED BY <1>5, <3>2 DEF Consumers!Deliver, Consumers!TypeOK
  <2> QED BY <1>5, <2>1, <2>2, <2>3 DEF Consumers!Deliver, Consumers!TypeOK, Consumers!procs
<1>6. ASSUME NEW t \in Consumers!Tasks, Consumers!TaskStep(t)
      PROVE  Consumers!TypeOK'
  <2>1. cSlot[t].step \in Consumers!Steps => cSlot[t] \in Consumers!Busy /\ cSlot[t].copy \in Consumers!Copies /\ Consumers!Body(cSlot[t].copy) \in Orders
    BY ConsumersTaskFacts DEF Consumers!Steps
  <2>2. ASSUME NEW s \in Consumers!Steps, cSlot[t] \in Consumers!Busy, Consumers!Goto(t, s)
        PROVE  cSlot' \in [Consumers!Tasks -> Consumers!Busy \cup {Consumers!Idle}]
    <3>1. [cSlot[t] EXCEPT !.step = s] \in Consumers!Busy
      BY <2>2 DEF Consumers!Busy
    <3> QED BY <3>1, <2>2 DEF Consumers!Goto, Consumers!TypeOK
  <2>3. ASSUME Consumers!Free(t)
        PROVE  cSlot' \in [Consumers!Tasks -> Consumers!Busy \cup {Consumers!Idle}]
    BY <2>3 DEF Consumers!Free, Consumers!TypeOK
  <2>4. ASSUME cSlot[t].step \in Consumers!Steps, Consumers!Settle(t)
        PROVE  cUnacked' \in [ConsumerProcs -> [Consumers!Copies -> Nat]]
    <3>1. cSlot[t].proc \in ConsumerProcs /\ cSlot[t].copy \in Consumers!Copies /\ cSlot[t].live \in BOOLEAN
      BY <2>4, <2>1 DEF Consumers!Busy
    <3>2. CASE ~cSlot[t].live
      BY <3>2, <2>4 DEF Consumers!Settle, Consumers!TypeOK
    <3>3. CASE cSlot[t].live
      <4>1. t \in ConsumersHolding(cSlot[t].proc, cSlot[t].copy)
        BY <3>3, <2>4 DEF ConsumersHolding, Consumers!Steps
      <4>2. Cardinality(ConsumersHolding(cSlot[t].proc, cSlot[t].copy)) > 0 /\ Cardinality(ConsumersHolding(cSlot[t].proc, cSlot[t].copy)) \in Nat
        BY <4>1, ConsumersCounts DEF ConsumersHolding
      <4>3. cUnacked[cSlot[t].proc] \in [Consumers!Copies -> Nat] /\ cUnacked[cSlot[t].proc][cSlot[t].copy] \in Nat
        BY <3>1 DEF Consumers!TypeOK
      <4>4. cUnacked[cSlot[t].proc][cSlot[t].copy] > 0
        BY <4>2, <4>3, <3>1 DEF ConsumersCovered
      <4>5. Consumers!Minus(cUnacked[cSlot[t].proc], cSlot[t].copy) \in [Consumers!Copies -> Nat]
        BY <4>3, <4>4, <3>1, <1>2
      <4> QED BY <4>5, <3>3, <2>4 DEF Consumers!Settle, Consumers!TypeOK
    <3> QED BY <3>1, <3>2, <3>3
  <2>5. CASE Consumers!HandlerReturns(t)
    BY <2>5, <2>1, <2>2 DEF Consumers!HandlerReturns, Consumers!Steps, Consumers!TypeOK, Consumers!broker, Consumers!procs
  <2>6. CASE Consumers!HandlerRaises(t)
    <3>1. (IF Consumers!GivesUp(cSlot[t].copy) THEN "reject" ELSE "publish") \in Consumers!Steps
      BY DEF Consumers!Steps
    <3>2. cSlot' \in [Consumers!Tasks -> Consumers!Busy \cup {Consumers!Idle}]
      BY <2>6, <3>1, <2>1, <2>2 DEF Consumers!HandlerRaises, Consumers!Steps
    <3> QED BY <2>6, <3>2 DEF Consumers!HandlerRaises, Consumers!TypeOK, Consumers!broker, Consumers!procs, Consumers!history
  <2>7. CASE Consumers!HandlerAborts(t)
    BY <2>7, <2>3 DEF Consumers!HandlerAborts, Consumers!TypeOK, Consumers!broker, Consumers!procs, Consumers!history
  <2>8. CASE Consumers!Ack(t)
    BY <2>8, <2>3, <2>4 DEF Consumers!Ack, Consumers!Steps, Consumers!TypeOK, Consumers!procs, Consumers!history
  <2>9. CASE Consumers!Reject(t)
    BY <2>9, <2>1, <2>3, <2>4 DEF Consumers!Reject, Consumers!Steps, Consumers!TypeOK, Consumers!procs, Consumers!history
  <2>10. CASE Consumers!Publish(t)
    <3>1. Consumers!Header(cSlot[t].copy) < Attempts => Consumers!Again(cSlot[t].copy) \in Consumers!Copies
      BY <2>10, <2>1, AgainFacts DEF Consumers!Publish, Consumers!Steps
    <3>2. cSlot[t] \in Consumers!Busy
      BY <2>10, <2>1 DEF Consumers!Publish, Consumers!Steps
    <3>3. cDelayed' \in [Consumers!Copies -> Nat]
      BY <2>10, <3>1, <1>1 DEF Consumers!Publish, Consumers!TypeOK, Consumers!Plus
    <3>4. cSlot' \in [Consumers!Tasks -> Consumers!Busy \cup {Consumers!Idle}]
      BY <2>10, <3>2, <2>2 DEF Consumers!Publish, Consumers!Steps
    <3>5. cFaults' \in 0..Faults
      BY <2>10 DEF Consumers!Publish, Consumers!Fail, Consumers!TypeOK
    <3> QED BY <2>10, <3>3, <3>4, <3>5 DEF Consumers!Publish, Consumers!TypeOK, Consumers!procs, Consumers!history
  <2>11. CASE Consumers!PublishFails(t)
    BY <2>11, <2>1, <2>2 DEF Consumers!PublishFails, Consumers!Fail, Consumers!Steps, Consumers!TypeOK, Consumers!broker, Consumers!procs, Consumers!history
  <2>12. CASE Consumers!Nack(t)
    <3>1. cSlot[t].copy \in Consumers!Copies
      BY <2>12, <2>1 DEF Consumers!Nack, Consumers!Steps
    <3>2. cReady' \in [Consumers!Copies -> Nat] /\ cAgain' \in [Consumers!Copies -> Nat]
      BY <2>12, <3>1, <1>1 DEF Consumers!Nack, Consumers!TypeOK
    <3> QED BY <2>12, <2>3, <2>4, <3>2 DEF Consumers!Nack, Consumers!Steps, Consumers!TypeOK, Consumers!procs
  <2> QED BY <1>6, <2>5, <2>6, <2>7, <2>8, <2>9, <2>10, <2>11, <2>12 DEF Consumers!TaskStep, Consumers!Answer
<1>7. ASSUME NEW c \in Consumers!Copies, Consumers!RetryDue(c)
      PROVE  Consumers!TypeOK'
  <2>1. cDelayed' \in [Consumers!Copies -> Nat] /\ cReady' \in [Consumers!Copies -> Nat]
    BY <1>7, <1>1, <1>2 DEF Consumers!RetryDue, Consumers!TypeOK
  <2> QED BY <1>7, <2>1 DEF Consumers!RetryDue, Consumers!TypeOK, Consumers!procs, Consumers!history
<1> QED BY <1>4, <1>5, <1>6, <1>7 DEF Consumers!Next
(* What a change of the callbacks in progress means for the counts.        *)
LEMMA ConsumersFewerTrying ==
  ASSUME \A c : ConsumersTrying(c)' \subseteq ConsumersTrying(c)
  PROVE  \A c \in Consumers!Copies : ConsumersPending(c)' <= ConsumersPending(c)
<1>1. \A d : ConsumersTrying(d) \in SUBSET Consumers!Tasks
  BY DEF ConsumersTrying
<1>2. \A d : Cardinality(ConsumersTrying(d))' <= Cardinality(ConsumersTrying(d))
  BY <1>1, ConsumersCounts
<1>3. ASSUME NEW c \in Consumers!Copies
      PROVE  ConsumersPending(c)' <= ConsumersPending(c)
  BY <1>2 DEF ConsumersPending
<1> QED BY <1>3

LEMMA ConsumersFewerHolding ==
  ASSUME Consumers!TypeOK, Consumers!TypeOK', ConsumersCovered, cUnacked' = cUnacked,
         \A p \in ConsumerProcs, c \in Consumers!Copies : ConsumersHolding(p, c)' \subseteq ConsumersHolding(p, c)
  PROVE  ConsumersCovered'
<1> SUFFICES ASSUME NEW p \in ConsumerProcs, NEW c \in Consumers!Copies
             PROVE  Cardinality(ConsumersHolding(p, c)') <= cUnacked[p][c]
  BY DEF ConsumersCovered
<1>1. ConsumersHolding(p, c) \in SUBSET Consumers!Tasks /\ ConsumersHolding(p, c)' \in SUBSET Consumers!Tasks
  BY DEF ConsumersHolding
<1>2. Cardinality(ConsumersHolding(p, c)') <= Cardinality(ConsumersHolding(p, c))
  BY <1>1, ConsumersCounts
<1>3. Cardinality(ConsumersHolding(p, c)') \in Nat /\ Cardinality(ConsumersHolding(p, c)) \in Nat
  BY <1>1, ConsumersCounts
<1>4. Cardinality(ConsumersHolding(p, c)) <= cUnacked[p][c] /\ cUnacked[p][c] \in Nat
  BY DEF ConsumersCovered, Consumers!TypeOK
<1> QED BY <1>2, <1>3, <1>4

LEMMA ConsumersSamePaid ==
  ASSUME Consumers!TypeOK, Consumers!TypeOK', ConsumersPaid, \A c \in Consumers!Copies : ConsumersPending(c)' <= ConsumersPending(c),
         UNCHANGED << cReady, cDelayed, cCalls, cAgain >>
  PROVE  ConsumersPaid'
<1> SUFFICES ASSUME NEW c \in Consumers!Copies
             PROVE  cCalls[c] + cReady[c] + cDelayed[c] + ConsumersPending(c)' <= Consumers!Before(c) + cAgain[c]
  BY DEF ConsumersPaid, Consumers!Before
<1>1. /\ cReady[c] \in Nat /\ cDelayed[c] \in Nat /\ cCalls[c] \in Nat /\ cAgain[c] \in Nat
      /\ Consumers!Before(c) \in Nat /\ ConsumersPending(c) \in Nat
  BY ConsumersNumberFacts
<1>2. ConsumersPending(c)' \in Nat
  <2>1. \A d : ConsumersTrying(d)' \in SUBSET Consumers!Tasks
    BY DEF ConsumersTrying
  <2>2. \A d : Cardinality(ConsumersTrying(d)') \in Nat
    BY <2>1, ConsumersCounts
  <2> QED BY <2>2 DEF ConsumersPending
<1> QED BY <1>1, <1>2 DEF ConsumersPaid

(* An answer on a channel that is there settles a copy that is on it.      *)
LEMMA ConsumersSettling ==
  ASSUME Consumers!TypeOK, ConsumersCovered, Consumers!TypeOK', NEW t \in Consumers!Tasks, cSlot[t].step # "idle", Consumers!Settle(t), Consumers!Free(t)
  PROVE  /\ ConsumersCovered'
         /\ \A p \in ConsumerProcs, d \in Consumers!Copies : cUnacked'[p][d] = IF cSlot[t].live /\ p = cSlot[t].proc /\ d = cSlot[t].copy
                                                           THEN cUnacked[p][d] - 1 ELSE cUnacked[p][d]
         /\ cSlot[t].live => cUnacked[cSlot[t].proc][cSlot[t].copy] > 0
         /\ \A c : ConsumersTrying(c)' \subseteq ConsumersTrying(c)
<1>1. cSlot[t].proc \in ConsumerProcs /\ cSlot[t].copy \in Consumers!Copies /\ cSlot[t].live \in BOOLEAN
  BY ConsumersTaskFacts
<1>2. /\ cSlot'[t] = Consumers!Idle /\ \A u \in Consumers!Tasks \ {t} : cSlot'[u] = cSlot[u]
  BY DEF Consumers!Free, Consumers!TypeOK
<1>3. \A p \in ConsumerProcs, d \in Consumers!Copies : cUnacked'[p][d] = IF cSlot[t].live /\ p = cSlot[t].proc /\ d = cSlot[t].copy
                                                     THEN cUnacked[p][d] - 1 ELSE cUnacked[p][d]
  BY <1>1 DEF Consumers!Settle, Consumers!Minus, Consumers!TypeOK
<1>4. ASSUME NEW p \in ConsumerProcs, NEW d \in Consumers!Copies
      PROVE  ConsumersHolding(p, d)' = ConsumersHolding(p, d) \ {t}
  BY <1>2 DEF ConsumersHolding, Consumers!Idle
<1>5. ASSUME NEW p \in ConsumerProcs, NEW d \in Consumers!Copies
      PROVE  /\ Cardinality(ConsumersHolding(p, d)') <= cUnacked'[p][d]
             /\ cSlot[t].live /\ p = cSlot[t].proc /\ d = cSlot[t].copy => cUnacked[p][d] > 0
  <2>1. ConsumersHolding(p, d) \in SUBSET Consumers!Tasks /\ Cardinality(ConsumersHolding(p, d)) \in Nat
    BY ConsumersCounts DEF ConsumersHolding
  <2>2. Cardinality(ConsumersHolding(p, d)) <= cUnacked[p][d] /\ cUnacked[p][d] \in Nat
    BY DEF ConsumersCovered, Consumers!TypeOK
  <2>3. CASE cSlot[t].live /\ p = cSlot[t].proc /\ d = cSlot[t].copy
    <3>1. t \in ConsumersHolding(p, d)
      BY <2>3 DEF ConsumersHolding
    <3>2. Cardinality(ConsumersHolding(p, d) \ {t}) = Cardinality(ConsumersHolding(p, d)) - 1 /\ Cardinality(ConsumersHolding(p, d)) > 0
      BY <2>1, <3>1, ConsumersCounts
    <3>3. cUnacked'[p][d] = cUnacked[p][d] - 1
      BY <1>3, <2>3
    <3>4. Cardinality(ConsumersHolding(p, d)') = Cardinality(ConsumersHolding(p, d)) - 1
      BY <3>2, <1>4
    <3> QED BY <3>2, <3>3, <3>4, <2>1, <2>2
  <2>4. CASE ~(cSlot[t].live /\ p = cSlot[t].proc /\ d = cSlot[t].copy)
    <3>1. t \notin ConsumersHolding(p, d)
      BY <2>4 DEF ConsumersHolding
    <3>2. ConsumersHolding(p, d)' = ConsumersHolding(p, d)
      BY <3>1, <1>4
    <3>3. cUnacked'[p][d] = cUnacked[p][d]
      BY <1>3, <2>4
    <3> QED BY <3>2, <3>3, <2>2, <2>4
  <2> QED BY <2>3, <2>4
<1>6. \A c : ConsumersTrying(c)' \subseteq ConsumersTrying(c)
  BY <1>2 DEF ConsumersTrying, Consumers!Idle
<1>7. ConsumersCovered'
  BY <1>5 DEF ConsumersCovered
<1>8. cSlot[t].live => cUnacked[cSlot[t].proc][cSlot[t].copy] > 0
  BY <1>5, <1>1
<1> QED BY <1>3, <1>6, <1>7, <1>8
LEMMA ConsumersQuietStep ==
  ASSUME ConsumersInv, Consumers!TypeOK', UNCHANGED << Consumers!broker, cSlot, Consumers!history >>
  PROVE  ConsumersInv'
BY DEF ConsumersInv, ConsumersCovered, ConsumersPassed, ConsumersReached, ConsumersTried, ConsumersEnds, ConsumersPaid, Consumers!NothingLost, Consumers!EarnedItsEnd, Consumers!broker, Consumers!history,
       ConsumersHolding, ConsumersTrying, ConsumersPending, Consumers!Before, ConsumersDone, ConsumersAfter, ConsumersKept, Consumers!GivenUp, Consumers!InBroker

(* The handler ends, or the publishing: the broker hears nothing of it.    *)
LEMMA ConsumersHandlerStep ==
  ASSUME ConsumersInv, Consumers!TypeOK', NEW t \in Consumers!Tasks,
         Consumers!HandlerReturns(t) \/ Consumers!HandlerRaises(t) \/ Consumers!HandlerAborts(t) \/ Consumers!PublishFails(t)
  PROVE  ConsumersInv'
<1>1. Consumers!TypeOK /\ ConsumersCovered /\ ConsumersPaid
  BY DEF ConsumersInv
<1>2. cSlot[t].step \in {"handler", "publish"}
  BY DEF Consumers!HandlerReturns, Consumers!HandlerRaises, Consumers!HandlerAborts, Consumers!PublishFails
<1>3. cSlot[t] \in Consumers!Busy /\ cSlot[t].copy \in Consumers!Copies
  BY <1>1, <1>2, ConsumersTaskFacts
<1>4. \A u \in Consumers!Tasks : u # t => cSlot'[u] = cSlot[u]
  BY <1>1 DEF Consumers!HandlerReturns, Consumers!HandlerRaises, Consumers!HandlerAborts, Consumers!PublishFails, Consumers!Goto, Consumers!Free, Consumers!TypeOK
<1>5. /\ UNCHANGED << cReady, cDelayed, cUnacked, cDead, cDropped, cCalls, cAgain >> /\ cGood \subseteq cGood'
  BY DEF Consumers!HandlerReturns, Consumers!HandlerRaises, Consumers!HandlerAborts, Consumers!PublishFails, Consumers!broker, Consumers!history
<1>6. \/ cSlot'[t] = Consumers!Idle
      \/ /\ cSlot'[t].copy = cSlot[t].copy /\ cSlot'[t].proc = cSlot[t].proc /\ cSlot'[t].live = cSlot[t].live
         /\ \/ cSlot'[t].step = "ack" /\ Consumers!Body(cSlot[t].copy) \in cGood'
            \/ cSlot'[t].step = "reject" /\ Consumers!GivesUp(cSlot[t].copy)
            \/ cSlot'[t].step = "publish" /\ ~Consumers!GivesUp(cSlot[t].copy) /\ cSlot[t].step = "handler"
            \/ cSlot'[t].step = "nack"
  <2>1. CASE Consumers!HandlerReturns(t)
    BY <1>1, <1>3, <2>1 DEF Consumers!HandlerReturns, Consumers!Goto, Consumers!TypeOK, Consumers!Busy
  <2>2. CASE Consumers!HandlerRaises(t)
    BY <1>1, <1>3, <2>2 DEF Consumers!HandlerRaises, Consumers!Goto, Consumers!TypeOK, Consumers!Busy
  <2>3. CASE Consumers!HandlerAborts(t)
    BY <1>1, <2>3 DEF Consumers!HandlerAborts, Consumers!Free, Consumers!TypeOK
  <2>4. CASE Consumers!PublishFails(t)
    BY <1>1, <1>3, <2>4 DEF Consumers!PublishFails, Consumers!Goto, Consumers!TypeOK, Consumers!Busy
  <2> QED BY <2>1, <2>2, <2>3, <2>4
<1>7. ConsumersCovered'
  <2>1. \A p \in ConsumerProcs, c \in Consumers!Copies : ConsumersHolding(p, c)' \subseteq ConsumersHolding(p, c)
    BY <1>2, <1>4, <1>6 DEF ConsumersHolding, Consumers!Idle
  <2> QED BY <1>1, <1>5, <2>1, ConsumersFewerHolding
<1>8. ConsumersPaid'
  <2>1. \A c : ConsumersTrying(c)' \subseteq ConsumersTrying(c)
    BY <1>2, <1>4, <1>6 DEF ConsumersTrying, Consumers!Idle
  <2>2. \A c \in Consumers!Copies : ConsumersPending(c)' <= ConsumersPending(c)
    BY <2>1, ConsumersFewerTrying
  <2> QED BY <1>1, <1>5, <2>2, ConsumersSamePaid
<1>9. ConsumersMoves
  <2>1. ConsumersCallsGrow
    BY <1>1, <1>5 DEF ConsumersCallsGrow, Consumers!TypeOK
  <2>2. ConsumersSurvives /\ ConsumersFresh
    BY <1>5 DEF ConsumersSurvives, ConsumersFresh, ConsumersKept
  <2>3. ASSUME NEW u \in Consumers!Tasks
        PROVE  ConsumersGoes(u)
    <3>1. CASE u # t
      BY <1>4, <3>1 DEF ConsumersGoes
    <3>2. CASE u = t /\ cSlot'[t] = Consumers!Idle
      BY <3>2 DEF ConsumersGoes, Consumers!Idle
    <3>3. CASE u = t /\ cSlot'[t] # Consumers!Idle
      BY <3>3, <1>2, <1>6 DEF ConsumersGoes, ConsumersDone
    <3> QED BY <3>1, <3>2, <3>3
  <2> QED BY <1>5, <2>1, <2>2, <2>3 DEF ConsumersMoves, ConsumersDoneGrows, ConsumersEnded, Consumers!GivenUp
<1> QED BY <1>7, <1>8, <1>9, ConsumersCarried

LEMMA ConsumersDeliverStep ==
  ASSUME ConsumersInv, Consumers!TypeOK', NEW p \in ConsumerProcs, NEW t \in Consumers!Tasks, NEW c \in Consumers!Copies, Consumers!Deliver(p, t, c)
  PROVE  ConsumersInv'
<1>1. Consumers!TypeOK /\ ConsumersCovered /\ ConsumersPaid
  BY DEF ConsumersInv
<1>2. /\ cSlot[t] = Consumers!Idle /\ cSlot'[t] = [step |-> "handler", proc |-> p, copy |-> c, live |-> TRUE]
      /\ \A u \in Consumers!Tasks : u # t => cSlot'[u] = cSlot[u]
  BY <1>1 DEF Consumers!Deliver, Consumers!TypeOK
<1>3. /\ \A d \in Consumers!Copies : /\ cReady'[d] = IF d = c THEN cReady[d] - 1 ELSE cReady[d]
                           /\ cCalls'[d] = IF d = c THEN cCalls[d] + 1 ELSE cCalls[d]
      /\ \A q \in ConsumerProcs, d \in Consumers!Copies :
           cUnacked'[q][d] = IF q = p /\ d = c THEN cUnacked[q][d] + 1 ELSE cUnacked[q][d]
      /\ cReady[c] > 0
      /\ UNCHANGED << cDelayed, cDead, cDropped, cGood, cAgain >>
  <2>1. cUnacked[p] \in [Consumers!Copies -> Nat]
    BY <1>1 DEF Consumers!TypeOK
  <2>2. /\ \A d \in Consumers!Copies : /\ cReady'[d] = IF d = c THEN cReady[d] - 1 ELSE cReady[d]
                             /\ cCalls'[d] = IF d = c THEN cCalls[d] + 1 ELSE cCalls[d]
    BY <1>1 DEF Consumers!Deliver, Consumers!Minus, Consumers!Plus, Consumers!TypeOK
  <2>3. \A q \in ConsumerProcs, d \in Consumers!Copies :
           cUnacked'[q][d] = IF q = p /\ d = c THEN cUnacked[q][d] + 1 ELSE cUnacked[q][d]
    BY <1>1, <2>1 DEF Consumers!Deliver, Consumers!Plus, Consumers!TypeOK
  <2> QED BY <2>2, <2>3 DEF Consumers!Deliver
<1>4. ConsumersCovered'
  <2> SUFFICES ASSUME NEW q \in ConsumerProcs, NEW d \in Consumers!Copies
               PROVE  Cardinality(ConsumersHolding(q, d)') <= cUnacked'[q][d]
    BY DEF ConsumersCovered
  <2>1. ConsumersHolding(q, d) \in SUBSET Consumers!Tasks /\ Cardinality(ConsumersHolding(q, d)) \in Nat
    BY ConsumersCounts DEF ConsumersHolding
  <2>2. Cardinality(ConsumersHolding(q, d)) <= cUnacked[q][d] /\ cUnacked[q][d] \in Nat
    BY <1>1 DEF ConsumersCovered, Consumers!TypeOK
  <2>3. CASE q = p /\ d = c
    <3>1. ConsumersHolding(q, d)' = ConsumersHolding(q, d) \cup {t} /\ t \notin ConsumersHolding(q, d)
      BY <1>2, <2>3 DEF ConsumersHolding, Consumers!Idle
    <3>2. Cardinality(ConsumersHolding(q, d) \cup {t}) = Cardinality(ConsumersHolding(q, d)) + 1
      BY <3>1, <2>1, ConsumersCounts
    <3>3. Cardinality(ConsumersHolding(q, d)') = Cardinality(ConsumersHolding(q, d)) + 1
      BY <3>1, <3>2
    <3>4. cUnacked'[q][d] = cUnacked[q][d] + 1
      BY <1>3, <2>3
    <3> QED BY <3>3, <3>4, <2>1, <2>2
  <2>4. CASE ~(q = p /\ d = c)
    <3>1. ConsumersHolding(q, d)' = ConsumersHolding(q, d)
      BY <1>2, <2>4 DEF ConsumersHolding, Consumers!Idle
    <3>2. cUnacked'[q][d] = cUnacked[q][d]
      BY <1>3, <2>4
    <3> QED BY <3>1, <3>2, <2>2
  <2> QED BY <2>3, <2>4
<1>5. ConsumersPaid'
  <2> SUFFICES ASSUME NEW d \in Consumers!Copies
               PROVE  cCalls'[d] + cReady'[d] + cDelayed[d] + ConsumersPending(d)' <= Consumers!Before(d)' + cAgain[d]
    BY <1>3 DEF ConsumersPaid
  <2>1. /\ cReady[d] \in Nat /\ cDelayed[d] \in Nat /\ cCalls[d] \in Nat /\ cAgain[d] \in Nat
        /\ Consumers!Before(d) \in Nat /\ ConsumersPending(d) \in Nat
    BY <1>1, ConsumersNumberFacts
  <2>2. cCalls[d] + cReady[d] + cDelayed[d] + ConsumersPending(d) <= Consumers!Before(d) + cAgain[d]
    BY <1>1 DEF ConsumersPaid
  <2>3. cCalls'[d] + cReady'[d] = cCalls[d] + cReady[d]
    BY <1>3, <2>1
  <2>4. CASE Consumers!Header(d) # 0 /\ << Consumers!Body(d), Consumers!Header(d) - 1 >> = c
    <3>1. ConsumersTrying(c)' = ConsumersTrying(c) \cup {t} /\ t \notin ConsumersTrying(c)
      BY <1>2 DEF ConsumersTrying, Consumers!Idle
    <3>2. ConsumersTrying(c) \in SUBSET Consumers!Tasks
      BY DEF ConsumersTrying
    <3>3. Cardinality(ConsumersTrying(c) \cup {t}) = Cardinality(ConsumersTrying(c)) + 1
      BY <3>1, <3>2, ConsumersCounts
    <3>4. ConsumersPending(d)' = ConsumersPending(d) + 1
      BY <2>4, <3>1, <3>3 DEF ConsumersPending
    <3>5. Consumers!Before(d)' = Consumers!Before(d) + 1
      BY <2>4, <1>3 DEF Consumers!Before
    <3> QED BY <2>1, <2>2, <2>3, <3>4, <3>5, <1>3
  <2>5. CASE ~(Consumers!Header(d) # 0 /\ << Consumers!Body(d), Consumers!Header(d) - 1 >> = c)
    <3>1. ConsumersPending(d)' = ConsumersPending(d)
      <4>1. \A e : e # c => ConsumersTrying(e)' = ConsumersTrying(e)
        BY <1>2 DEF ConsumersTrying, Consumers!Idle
      <4> QED BY <2>5, <4>1 DEF ConsumersPending
    <3>2. Consumers!Before(d)' = Consumers!Before(d)
      <4>1. CASE Consumers!Header(d) = 0
        BY <4>1 DEF Consumers!Before
      <4>2. CASE Consumers!Header(d) # 0
        <5>1. Consumers!Body(d) \in Orders /\ Consumers!Header(d) - 1 \in 0..Attempts
          BY CopyFacts, <4>2, ConsumersInstance DEF Consumers!ConsumersAssumption
        <5>2. << Consumers!Body(d), Consumers!Header(d) - 1 >> \in Consumers!Copies
          BY <5>1, CopyFacts
        <5> QED BY <4>2, <5>2, <2>5, <1>3 DEF Consumers!Before
      <4> QED BY <4>1, <4>2
    <3> QED BY <2>1, <2>2, <2>3, <3>1, <3>2, <1>3
  <2> QED BY <2>4, <2>5
<1>6. ConsumersMoves
  <2>1. ConsumersCallsGrow
    BY <1>1, <1>3 DEF ConsumersCallsGrow, Consumers!TypeOK
  <2>2. ASSUME NEW d \in Consumers!Copies
        PROVE  ConsumersKept(d)' <=> ConsumersKept(d)
    <3>1. cReady[d] \in Nat /\ \A q \in ConsumerProcs : cUnacked[q][d] \in Nat
      BY <1>1 DEF Consumers!TypeOK
    <3>2. CASE d = c
      <4>1. cUnacked'[p][d] > 0
        BY <3>1, <3>2, <1>3
      <4> QED BY <3>2, <4>1, <1>3 DEF ConsumersKept
    <3>3. CASE d # c
      BY <3>3, <1>3 DEF ConsumersKept
    <3> QED BY <3>2, <3>3
  <2>3. ASSUME NEW u \in Consumers!Tasks
        PROVE  ConsumersGoes(u)
    <3>1. CASE u # t
      BY <1>2, <3>1 DEF ConsumersGoes
    <3>2. CASE u = t
      <4>1. ConsumersKept(c)
        BY <1>3 DEF ConsumersKept
      <4>2. cCalls'[c] > 0
        BY <1>1, <1>3 DEF Consumers!TypeOK
      <4> QED BY <3>2, <4>1, <4>2, <1>2 DEF ConsumersGoes
    <3> QED BY <3>1, <3>2
  <2> QED BY <1>3, <2>1, <2>2, <2>3 DEF ConsumersMoves, ConsumersSurvives, ConsumersFresh, ConsumersDoneGrows, ConsumersEnded, Consumers!GivenUp
<1> QED BY <1>4, <1>5, <1>6, ConsumersCarried
LEMMA ConsumersAckStep ==
  ASSUME ConsumersInv, Consumers!TypeOK', NEW t \in Consumers!Tasks, Consumers!Ack(t) \/ Consumers!Reject(t)
  PROVE  ConsumersInv'
<1>1. Consumers!TypeOK /\ ConsumersCovered /\ ConsumersPaid /\ ConsumersPassed
  BY DEF ConsumersInv
<1>2. cSlot[t].step \in {"ack", "reject"} /\ Consumers!Settle(t) /\ Consumers!Free(t)
  BY DEF Consumers!Ack, Consumers!Reject
<1>3. cSlot[t].copy \in Consumers!Copies /\ Consumers!Body(cSlot[t].copy) \in Orders /\ cSlot[t].live \in BOOLEAN
  BY <1>1, <1>2, ConsumersTaskFacts
<1>4. /\ ConsumersCovered'
      /\ \A p \in ConsumerProcs, d \in Consumers!Copies : cUnacked'[p][d] = IF cSlot[t].live /\ p = cSlot[t].proc /\ d = cSlot[t].copy
                                                        THEN cUnacked[p][d] - 1 ELSE cUnacked[p][d]
      /\ \A c : ConsumersTrying(c)' \subseteq ConsumersTrying(c)
  BY <1>1, <1>2, ConsumersSettling
<1>5. UNCHANGED << cReady, cDelayed, cCalls, cAgain, cGood >> /\ cDead \subseteq cDead' /\ cDropped \subseteq cDropped'
  BY DEF Consumers!Ack, Consumers!Reject, Consumers!history
<1>6. ConsumersPaid'
  <2>1. \A c \in Consumers!Copies : ConsumersPending(c)' <= ConsumersPending(c)
    BY <1>4, ConsumersFewerTrying
  <2> QED BY <1>1, <1>5, <2>1, ConsumersSamePaid
<1>7. \A d \in Consumers!Copies : d # cSlot[t].copy \/ ~cSlot[t].live => (ConsumersKept(d) => ConsumersKept(d)')
  BY <1>4, <1>5 DEF ConsumersKept
<1>8. \A d \in Consumers!Copies : ConsumersKept(d)' => ConsumersKept(d)
  <2> SUFFICES ASSUME NEW d \in Consumers!Copies, NEW p \in ConsumerProcs, cUnacked'[p][d] > 0
               PROVE  cUnacked[p][d] > 0
    BY <1>5 DEF ConsumersKept
  <2>1. cUnacked[p][d] \in Nat
    BY <1>1 DEF Consumers!TypeOK
  <2> QED BY <1>4, <2>1
<1>9. ConsumersCallsGrow
  BY <1>1, <1>5 DEF ConsumersCallsGrow, Consumers!TypeOK
<1>10. ConsumersSurvives
  <2> SUFFICES ASSUME NEW d \in Consumers!Copies, ConsumersKept(d), ~ConsumersKept(d)'
               PROVE  ConsumersDone(Consumers!Body(d))' \/ ConsumersAfter(d)'
    BY DEF ConsumersSurvives
  <2>1. d = cSlot[t].copy /\ cSlot[t].live
    BY <1>7
  <2>2. CASE cSlot[t].step = "reject"
    BY <2>1, <2>2 DEF Consumers!Ack, Consumers!Reject, ConsumersDone
  <2>3. CASE cSlot[t].step = "ack"
    <3>1. ConsumersDone(Consumers!Body(d)) \/ ConsumersAfter(d)
      BY <1>1, <2>1, <2>3 DEF ConsumersPassed
    <3>2. CASE ConsumersDone(Consumers!Body(d))
      BY <3>2, <1>5 DEF ConsumersDone
    <3>3. CASE ConsumersAfter(d)
      <4>1. PICK e \in Consumers!Copies : Consumers!Body(e) = Consumers!Body(d) /\ Consumers!Header(e) > Consumers!Header(d) /\ ConsumersKept(e)
        BY <3>3 DEF ConsumersAfter
      <4>2. e # d
        <5>1. Consumers!Header(d) \in Int
          BY CopyFacts
        <5> QED BY <4>1, <5>1
      <4>3. ConsumersKept(e)'
        BY <4>1, <4>2, <2>1, <1>7
      <4> QED BY <4>1, <4>3 DEF ConsumersAfter
    <3> QED BY <3>1, <3>2, <3>3
  <2> QED BY <1>2, <2>2, <2>3
<1>11. ConsumersEnded
  BY <1>5 DEF ConsumersEnded, Consumers!GivenUp, Consumers!Ack, Consumers!Reject
<1>12. \A u \in Consumers!Tasks : ConsumersGoes(u)
  BY <1>1, <1>2 DEF ConsumersGoes, Consumers!Free, Consumers!TypeOK, Consumers!Idle
<1>13. ConsumersMoves
  BY <1>5, <1>8, <1>9, <1>10, <1>11, <1>12 DEF ConsumersMoves, ConsumersFresh, ConsumersDoneGrows
<1> QED BY <1>4, <1>6, <1>13, ConsumersCarried

LEMMA ConsumersNackStep ==
  ASSUME ConsumersInv, Consumers!TypeOK', NEW t \in Consumers!Tasks, Consumers!Nack(t)
  PROVE  ConsumersInv'
<1>1. Consumers!TypeOK /\ ConsumersCovered /\ ConsumersPaid
  BY DEF ConsumersInv
<1>2. cSlot[t].step = "nack" /\ Consumers!Settle(t) /\ Consumers!Free(t)
  BY DEF Consumers!Nack
<1>3. cSlot[t].copy \in Consumers!Copies /\ cSlot[t].proc \in ConsumerProcs /\ cSlot[t].live \in BOOLEAN
  BY <1>1, <1>2, ConsumersTaskFacts
<1>4. /\ ConsumersCovered'
      /\ \A p \in ConsumerProcs, d \in Consumers!Copies : cUnacked'[p][d] = IF cSlot[t].live /\ p = cSlot[t].proc /\ d = cSlot[t].copy
                                                        THEN cUnacked[p][d] - 1 ELSE cUnacked[p][d]
      /\ cSlot[t].live => cUnacked[cSlot[t].proc][cSlot[t].copy] > 0
      /\ \A c : ConsumersTrying(c)' \subseteq ConsumersTrying(c)
  BY <1>1, <1>2, ConsumersSettling
<1>5. /\ UNCHANGED << cDelayed, cCalls, cGood, cDead, cDropped >>
      /\ \A d \in Consumers!Copies : /\ cReady'[d] = IF cSlot[t].live /\ d = cSlot[t].copy THEN cReady[d] + 1 ELSE cReady[d]
                           /\ cAgain'[d] = IF cSlot[t].live /\ d = cSlot[t].copy THEN cAgain[d] + 1 ELSE cAgain[d]
  BY <1>1, <1>3 DEF Consumers!Nack, Consumers!Plus, Consumers!TypeOK
<1>6. ConsumersPaid'
  <2> SUFFICES ASSUME NEW d \in Consumers!Copies
               PROVE  cCalls[d] + cReady'[d] + cDelayed[d] + ConsumersPending(d)' <= Consumers!Before(d) + cAgain'[d]
    BY <1>5 DEF ConsumersPaid, Consumers!Before
  <2>1. /\ cReady[d] \in Nat /\ cDelayed[d] \in Nat /\ cCalls[d] \in Nat /\ cAgain[d] \in Nat
        /\ Consumers!Before(d) \in Nat /\ ConsumersPending(d) \in Nat
    BY <1>1, ConsumersNumberFacts
  <2>2. cCalls[d] + cReady[d] + cDelayed[d] + ConsumersPending(d) <= Consumers!Before(d) + cAgain[d]
    BY <1>1 DEF ConsumersPaid
  <2>3. ConsumersPending(d)' <= ConsumersPending(d) /\ ConsumersPending(d)' \in Nat
    <3>1. ConsumersPending(d)' <= ConsumersPending(d)
      BY <1>4, ConsumersFewerTrying
    <3>2. \A e : ConsumersTrying(e)' \in SUBSET Consumers!Tasks
      BY DEF ConsumersTrying
    <3>3. \A e : Cardinality(ConsumersTrying(e)') \in Nat
      BY <3>2, ConsumersCounts
    <3> QED BY <3>1, <3>3 DEF ConsumersPending
  <2>4. /\ cReady'[d] = IF cSlot[t].live /\ d = cSlot[t].copy THEN cReady[d] + 1 ELSE cReady[d]
        /\ cAgain'[d] = IF cSlot[t].live /\ d = cSlot[t].copy THEN cAgain[d] + 1 ELSE cAgain[d]
    BY <1>5
  <2> QED BY <2>1, <2>2, <2>3, <2>4
<1>7. ConsumersMoves
  <2>1. ConsumersCallsGrow
    BY <1>1, <1>5 DEF ConsumersCallsGrow, Consumers!TypeOK
  <2>2. ASSUME NEW d \in Consumers!Copies
        PROVE  ConsumersKept(d)' <=> ConsumersKept(d)
    <3>1. cReady[d] \in Nat
      BY <1>1 DEF Consumers!TypeOK
    <3>2. CASE cSlot[t].live /\ d = cSlot[t].copy
      <4>1. cReady'[d] > 0 /\ cUnacked[cSlot[t].proc][d] > 0
        BY <3>1, <3>2, <1>4, <1>5
      <4> QED BY <4>1, <1>3 DEF ConsumersKept
    <3>3. CASE ~(cSlot[t].live /\ d = cSlot[t].copy)
      <4>1. cReady'[d] = cReady[d] /\ cDelayed' = cDelayed /\ \A p \in ConsumerProcs : cUnacked'[p][d] = cUnacked[p][d]
        BY <3>3, <1>4, <1>5
      <4> QED BY <4>1 DEF ConsumersKept
    <3> QED BY <3>2, <3>3
  <2>3. \A u \in Consumers!Tasks : ConsumersGoes(u)
    BY <1>1, <1>2 DEF ConsumersGoes, Consumers!Free, Consumers!TypeOK, Consumers!Idle
  <2> QED BY <1>5, <2>1, <2>2, <2>3 DEF ConsumersMoves, ConsumersSurvives, ConsumersFresh, ConsumersDoneGrows, ConsumersEnded, Consumers!GivenUp
<1> QED BY <1>4, <1>6, <1>7, ConsumersCarried

LEMMA ConsumersRetryStep ==
  ASSUME ConsumersInv, Consumers!TypeOK', NEW c \in Consumers!Copies, Consumers!RetryDue(c)
  PROVE  ConsumersInv'
<1>1. Consumers!TypeOK /\ ConsumersCovered /\ ConsumersPaid
  BY DEF ConsumersInv
<1>2. /\ cDelayed[c] > 0
      /\ \A d \in Consumers!Copies : /\ cReady'[d] = IF d = c THEN cReady[d] + 1 ELSE cReady[d]
                           /\ cDelayed'[d] = IF d = c THEN cDelayed[d] - 1 ELSE cDelayed[d]
      /\ UNCHANGED << cUnacked, cSlot, cCalls, cGood, cAgain, cDead, cDropped >>
  BY <1>1 DEF Consumers!RetryDue, Consumers!Plus, Consumers!Minus, Consumers!TypeOK, Consumers!history
<1>3. ConsumersCovered'
  BY <1>1, <1>2 DEF ConsumersCovered, ConsumersHolding
<1>4. ConsumersPaid'
  <2> SUFFICES ASSUME NEW d \in Consumers!Copies
               PROVE  cCalls[d] + cReady'[d] + cDelayed'[d] + ConsumersPending(d) <= Consumers!Before(d) + cAgain[d]
    BY <1>2 DEF ConsumersPaid, Consumers!Before, ConsumersPending, ConsumersTrying
  <2>1. /\ cReady[d] \in Nat /\ cDelayed[d] \in Nat /\ cCalls[d] \in Nat /\ cAgain[d] \in Nat
        /\ Consumers!Before(d) \in Nat /\ ConsumersPending(d) \in Nat
    BY <1>1, ConsumersNumberFacts
  <2>2. cReady'[d] + cDelayed'[d] = cReady[d] + cDelayed[d]
    BY <1>2, <2>1
  <2>3. cReady'[d] \in Nat /\ cDelayed'[d] \in Nat
    BY DEF Consumers!TypeOK
  <2>4. cCalls[d] + cReady[d] + cDelayed[d] + ConsumersPending(d) <= Consumers!Before(d) + cAgain[d]
    BY <1>1 DEF ConsumersPaid
  <2> QED BY <2>1, <2>2, <2>3, <2>4
<1>5. ConsumersMoves
  <2>1. ConsumersCallsGrow
    BY <1>1, <1>2 DEF ConsumersCallsGrow, Consumers!TypeOK
  <2>2. ASSUME NEW d \in Consumers!Copies
        PROVE  ConsumersKept(d)' <=> ConsumersKept(d)
    <3>1. cReady[d] \in Nat /\ cDelayed[d] \in Nat
      BY <1>1 DEF Consumers!TypeOK
    <3>2. CASE d = c
      <4>1. cReady'[d] > 0 /\ cDelayed[d] > 0
        BY <3>1, <3>2, <1>2
      <4> QED BY <4>1 DEF ConsumersKept
    <3>3. CASE d # c
      BY <3>3, <1>2 DEF ConsumersKept
    <3> QED BY <3>2, <3>3
  <2>3. \A u \in Consumers!Tasks : ConsumersGoes(u)
    BY <1>2 DEF ConsumersGoes
  <2> QED BY <1>2, <2>1, <2>2, <2>3 DEF ConsumersMoves, ConsumersSurvives, ConsumersFresh, ConsumersDoneGrows, ConsumersEnded, Consumers!GivenUp
<1> QED BY <1>3, <1>4, <1>5, ConsumersCarried
LEMMA ConsumersPublishStep ==
  ASSUME ConsumersInv, Consumers!TypeOK', NEW t \in Consumers!Tasks, Consumers!Publish(t)
  PROVE  ConsumersInv'
<1>0. PICK a : a = cSlot[t].copy
  OBVIOUS
<1> DEFINE b == Consumers!Again(a)
<1>1. Consumers!TypeOK /\ ConsumersCovered /\ ConsumersPaid /\ ConsumersEnds
  BY DEF ConsumersInv
<1>2. cSlot[t].step = "publish"
  BY DEF Consumers!Publish
<1>3. cSlot[t] \in Consumers!Busy /\ a \in Consumers!Copies /\ Consumers!Header(a) < Attempts
  BY <1>0, <1>1, <1>2, ConsumersTaskFacts DEF ConsumersEnds
<1>4. /\ b \in Consumers!Copies /\ Consumers!Body(b) = Consumers!Body(a) /\ Consumers!Header(b) = Consumers!Header(a) + 1
      /\ a = << Consumers!Body(b), Consumers!Header(b) - 1 >> /\ Consumers!Header(a) \in Nat
  BY <1>3, AgainFacts, CopyFacts
<1>5. /\ cSlot'[t].step \in {"ack", "nack"} /\ cSlot'[t].copy = a
      /\ cSlot'[t].proc = cSlot[t].proc /\ cSlot'[t].live = cSlot[t].live
      /\ \A u \in Consumers!Tasks : u # t => cSlot'[u] = cSlot[u]
  BY <1>0, <1>1, <1>3 DEF Consumers!Publish, Consumers!Goto, Consumers!TypeOK, Consumers!Busy
<1>6. /\ \A d \in Consumers!Copies : cDelayed'[d] = IF d = b THEN cDelayed[d] + 1 ELSE cDelayed[d]
      /\ UNCHANGED << cReady, cUnacked, cDead, cDropped, cCalls, cGood, cAgain >>
  BY <1>0, <1>1 DEF Consumers!Publish, Consumers!Plus, Consumers!TypeOK, Consumers!history
<1>7. ConsumersCovered'
  <2>1. \A p \in ConsumerProcs, c \in Consumers!Copies : ConsumersHolding(p, c)' \subseteq ConsumersHolding(p, c)
    BY <1>0, <1>2, <1>5 DEF ConsumersHolding
  <2> QED BY <1>1, <1>6, <2>1, ConsumersFewerHolding
<1>8. ConsumersPaid'
  <2> SUFFICES ASSUME NEW d \in Consumers!Copies
               PROVE  cCalls[d] + cReady[d] + cDelayed'[d] + ConsumersPending(d)' <= Consumers!Before(d) + cAgain[d]
    BY <1>6 DEF ConsumersPaid, Consumers!Before
  <2>1. /\ cReady[d] \in Nat /\ cDelayed[d] \in Nat /\ cCalls[d] \in Nat /\ cAgain[d] \in Nat
        /\ Consumers!Before(d) \in Nat /\ ConsumersPending(d) \in Nat
    BY <1>1, ConsumersNumberFacts
  <2>2. cCalls[d] + cReady[d] + cDelayed[d] + ConsumersPending(d) <= Consumers!Before(d) + cAgain[d]
    BY <1>1 DEF ConsumersPaid
  <2>3. \A e : ConsumersTrying(e)' \subseteq ConsumersTrying(e) /\ ConsumersTrying(e) \in SUBSET Consumers!Tasks
    BY <1>0, <1>2, <1>5 DEF ConsumersTrying
  <2>4. CASE d = b
    <3>1. ConsumersTrying(a)' = ConsumersTrying(a) \ {t} /\ t \in ConsumersTrying(a)
      BY <1>0, <1>2, <1>5 DEF ConsumersTrying
    <3>2. Cardinality(ConsumersTrying(a) \ {t}) = Cardinality(ConsumersTrying(a)) - 1
      BY <3>1, <2>3, ConsumersCounts
    <3>3. Consumers!Header(b) # 0
      BY <1>4
    <3>4. ConsumersPending(b) = Cardinality(ConsumersTrying(a)) /\ ConsumersPending(b)' = Cardinality(ConsumersTrying(a)')
      BY <3>3, <1>4 DEF ConsumersPending
    <3>5. ConsumersPending(b)' = ConsumersPending(b) - 1
      BY <3>1, <3>2, <3>4
    <3>6. cDelayed'[b] = cDelayed[b] + 1
      BY <1>4, <1>6
    <3> QED BY <3>5, <3>6, <2>1, <2>2, <2>4
  <2>5. CASE d # b
    <3>1. ConsumersPending(d)' <= ConsumersPending(d)
      BY <2>3, ConsumersFewerTrying
    <3>2. \A e : Cardinality(ConsumersTrying(e)') \in Nat
      <4>1. \A e : ConsumersTrying(e)' \in SUBSET Consumers!Tasks
        BY DEF ConsumersTrying
      <4> QED BY <4>1, ConsumersCounts
    <3>3. ConsumersPending(d)' \in Nat
      BY <3>2 DEF ConsumersPending
    <3>4. cDelayed'[d] = cDelayed[d]
      BY <1>6, <2>5
    <3> QED BY <3>1, <3>3, <3>4, <2>1, <2>2
  <2> QED BY <2>4, <2>5
<1>9. ConsumersMoves
  <2>1. ConsumersCallsGrow
    BY <1>1, <1>6 DEF ConsumersCallsGrow, Consumers!TypeOK
  <2>2. ASSUME NEW d \in Consumers!Copies
        PROVE  (ConsumersKept(d) => ConsumersKept(d)') /\ (d # b => ConsumersKept(d)' = ConsumersKept(d))
    <3>1. cDelayed[d] \in Nat
      BY <1>1 DEF Consumers!TypeOK
    <3>2. cDelayed'[d] = cDelayed[d] \/ cDelayed'[d] = cDelayed[d] + 1
      BY <1>6
    <3>3. d # b => cDelayed'[d] = cDelayed[d]
      BY <1>6
    <3> QED BY <3>1, <3>2, <3>3, <1>6 DEF ConsumersKept
  <2>3. ConsumersFresh
    BY <1>0, <1>2, <2>2 DEF ConsumersFresh
  <2>4. \E d \in Consumers!Copies : Consumers!Body(d) = Consumers!Body(a) /\ Consumers!Header(d) > Consumers!Header(a) /\ ConsumersKept(d)'
    <3>1. cDelayed'[b] > 0
      BY <1>1, <1>4, <1>6 DEF Consumers!TypeOK
    <3>2. ConsumersKept(b)' /\ Consumers!Header(b) > Consumers!Header(a)
      BY <3>1, <1>4 DEF ConsumersKept
    <3> QED BY <3>2, <1>4
  <2>5. ASSUME NEW u \in Consumers!Tasks
        PROVE  ConsumersGoes(u)
    <3>1. CASE u # t
      BY <1>5, <3>1 DEF ConsumersGoes
    <3>2. CASE u = t
      BY <3>2, <1>0, <1>2, <1>5, <2>4 DEF ConsumersGoes, ConsumersAfter
    <3> QED BY <3>1, <3>2
  <2> QED BY <1>6, <2>1, <2>2, <2>3, <2>5 DEF ConsumersMoves, ConsumersSurvives, ConsumersDoneGrows, ConsumersEnded, Consumers!GivenUp
<1> QED BY <1>7, <1>8, <1>9, ConsumersCarried

ConsumersCut(p, t) ==
  \/ cSlot'[t] = Consumers!Idle
  \/ cSlot[t] # Consumers!Idle /\ cSlot[t].proc = p /\ cSlot'[t] = [cSlot[t] EXCEPT !.live = FALSE]
  \/ cSlot'[t] = cSlot[t] /\ cSlot[t].proc # p

(* The connection of a process is gone, and its callbacks are cut off.     *)
LEMMA ConsumersPutBackStep ==
  ASSUME ConsumersInv, Consumers!TypeOK', NEW p \in ConsumerProcs, Consumers!PutBack(p),
         \A t \in Consumers!Tasks : ConsumersCut(p, t)
  PROVE  ConsumersInv'
<1>1. Consumers!TypeOK /\ ConsumersCovered /\ ConsumersPaid
  BY DEF ConsumersInv
<1>2. /\ \A d \in Consumers!Copies : cReady'[d] = cReady[d] + cUnacked[p][d] /\ cAgain'[d] = cAgain[d] + cUnacked[p][d]
      /\ \A q \in ConsumerProcs, d \in Consumers!Copies : cUnacked'[q][d] = IF q = p THEN 0 ELSE cUnacked[q][d]
      /\ UNCHANGED << cDelayed, cCalls, cGood, cDead, cDropped >>
  BY <1>1 DEF Consumers!PutBack, Consumers!Empty, Consumers!TypeOK
<1>3. \A t \in Consumers!Tasks : \/ cSlot'[t].step = "idle"
                       \/ /\ cSlot[t].step # "idle" /\ cSlot'[t].step = cSlot[t].step
                          /\ cSlot'[t].copy = cSlot[t].copy /\ cSlot'[t].proc = cSlot[t].proc
                          /\ \/ cSlot[t].proc = p /\ cSlot'[t].live = FALSE
                             \/ cSlot[t].proc # p /\ cSlot'[t].live = cSlot[t].live
  <2> SUFFICES ASSUME NEW t \in Consumers!Tasks, cSlot'[t].step # "idle"
               PROVE  /\ cSlot[t].step # "idle" /\ cSlot'[t].step = cSlot[t].step
                      /\ cSlot'[t].copy = cSlot[t].copy /\ cSlot'[t].proc = cSlot[t].proc
                      /\ \/ cSlot[t].proc = p /\ cSlot'[t].live = FALSE
                         \/ cSlot[t].proc # p /\ cSlot'[t].live = cSlot[t].live
    OBVIOUS
  <2>1. cSlot'[t] # Consumers!Idle /\ ConsumersCut(p, t)
    BY DEF Consumers!Idle
  <2>2. cSlot[t] # Consumers!Idle => cSlot[t] \in Consumers!Busy
    BY <1>1 DEF Consumers!TypeOK
  <2> QED BY <2>1, <2>2 DEF Consumers!Busy, Consumers!Steps, ConsumersCut
<1>4. ConsumersCovered'
  <2> SUFFICES ASSUME NEW q \in ConsumerProcs, NEW d \in Consumers!Copies
               PROVE  Cardinality(ConsumersHolding(q, d)') <= cUnacked'[q][d]
    BY DEF ConsumersCovered
  <2>1. CASE q = p
    <3>1. ConsumersHolding(q, d)' = {}
      BY <1>3, <2>1 DEF ConsumersHolding
    <3> QED BY <3>1, <2>1, <1>2, ConsumersCounts
  <2>2. CASE q # p
    <3>1. ConsumersHolding(q, d)' \subseteq ConsumersHolding(q, d) /\ ConsumersHolding(q, d) \in SUBSET Consumers!Tasks
      BY <1>3, <2>2 DEF ConsumersHolding
    <3>2. Cardinality(ConsumersHolding(q, d)') <= Cardinality(ConsumersHolding(q, d))
      BY <3>1, ConsumersCounts
    <3>3. Cardinality(ConsumersHolding(q, d)') \in Nat /\ Cardinality(ConsumersHolding(q, d)) \in Nat
      BY <3>1, ConsumersCounts
    <3>4. Cardinality(ConsumersHolding(q, d)) <= cUnacked[q][d] /\ cUnacked[q][d] \in Nat
      BY <1>1 DEF ConsumersCovered, Consumers!TypeOK
    <3> QED BY <3>2, <3>3, <3>4, <2>2, <1>2
  <2> QED BY <2>1, <2>2
<1>5. ConsumersPaid'
  <2> SUFFICES ASSUME NEW d \in Consumers!Copies
               PROVE  cCalls[d] + cReady'[d] + cDelayed[d] + ConsumersPending(d)' <= Consumers!Before(d) + cAgain'[d]
    BY <1>2 DEF ConsumersPaid, Consumers!Before
  <2>1. /\ cReady[d] \in Nat /\ cDelayed[d] \in Nat /\ cCalls[d] \in Nat /\ cAgain[d] \in Nat
        /\ Consumers!Before(d) \in Nat /\ ConsumersPending(d) \in Nat /\ cUnacked[p][d] \in Nat
    BY <1>1, ConsumersNumberFacts
  <2>2. cCalls[d] + cReady[d] + cDelayed[d] + ConsumersPending(d) <= Consumers!Before(d) + cAgain[d]
    BY <1>1 DEF ConsumersPaid
  <2>3. \A e : ConsumersTrying(e)' \subseteq ConsumersTrying(e) /\ ConsumersTrying(e)' \in SUBSET Consumers!Tasks
    BY <1>3 DEF ConsumersTrying
  <2>4. ConsumersPending(d)' <= ConsumersPending(d)
    BY <2>3, ConsumersFewerTrying
  <2>5. ConsumersPending(d)' \in Nat
    <3>1. \A e : Cardinality(ConsumersTrying(e)') \in Nat
      BY <2>3, ConsumersCounts
    <3> QED BY <3>1 DEF ConsumersPending
  <2>6. cReady'[d] = cReady[d] + cUnacked[p][d] /\ cAgain'[d] = cAgain[d] + cUnacked[p][d]
    BY <1>2
  <2> QED BY <2>1, <2>2, <2>4, <2>5, <2>6
<1>6. ConsumersMoves
  <2>1. ConsumersCallsGrow
    BY <1>1, <1>2 DEF ConsumersCallsGrow, Consumers!TypeOK
  <2>2. ASSUME NEW d \in Consumers!Copies
        PROVE  ConsumersKept(d)' <=> ConsumersKept(d)
    <3>1. cReady[d] \in Nat /\ \A q \in ConsumerProcs : cUnacked[q][d] \in Nat
      BY <1>1 DEF Consumers!TypeOK
    <3>2. cReady'[d] = cReady[d] + cUnacked[p][d] /\ \A q \in ConsumerProcs : cUnacked'[q][d] = IF q = p THEN 0 ELSE cUnacked[q][d]
      BY <1>2
    <3>3. cReady'[d] > 0 <=> cReady[d] > 0 \/ cUnacked[p][d] > 0
      BY <3>1, <3>2
    <3> QED BY <3>2, <3>3, <1>2 DEF ConsumersKept
  <2>3. \A u \in Consumers!Tasks : ConsumersGoes(u)
    BY <1>3 DEF ConsumersGoes
  <2> QED BY <1>2, <2>1, <2>2, <2>3 DEF ConsumersMoves, ConsumersSurvives, ConsumersFresh, ConsumersDoneGrows, ConsumersEnded, Consumers!GivenUp
<1> QED BY <1>4, <1>5, <1>6, ConsumersCarried
LEMMA ConsumersInit == Consumers!Init => ConsumersInv
<1> SUFFICES ASSUME Consumers!Init
             PROVE  ConsumersInv
  OBVIOUS
<1> USE ConsumersInstance DEF Consumers!ConsumersAssumption
<1>1. \A t \in Consumers!Tasks : cSlot[t].step = "idle"
  BY DEF Consumers!Init, Consumers!Idle
<1>2. /\ \A c \in Consumers!Copies : cReady[c] = (IF Consumers!Header(c) = 0 THEN 1 ELSE 0) /\ cDelayed[c] = 0 /\ cCalls[c] = 0 /\ cAgain[c] = 0
      /\ \A p \in ConsumerProcs, c \in Consumers!Copies : cUnacked[p][c] = 0
      /\ cDead = {} /\ cDropped = {} /\ cGood = {}
  BY DEF Consumers!Init, Consumers!Empty
<1>3. Consumers!TypeOK
  BY DEF Consumers!Init, Consumers!TypeOK, Consumers!Empty
<1>4. ConsumersCovered
  <2>1. \A p \in ConsumerProcs, c \in Consumers!Copies : ConsumersHolding(p, c) = {}
    BY <1>1 DEF ConsumersHolding
  <2> QED BY <1>2, <2>1, ConsumersCounts DEF ConsumersCovered
<1>5. ConsumersPaid
  <2> SUFFICES ASSUME NEW c \in Consumers!Copies
               PROVE  cCalls[c] + cReady[c] + cDelayed[c] + ConsumersPending(c) <= Consumers!Before(c) + cAgain[c]
    BY DEF ConsumersPaid
  <2>1. \A e : ConsumersTrying(e) = {}
    BY <1>1 DEF ConsumersTrying
  <2>2. ConsumersPending(c) = 0
    BY <2>1, ConsumersCounts DEF ConsumersPending
  <2>3. Consumers!Before(c) \in Nat
    BY <1>3, ConsumersNumberFacts
  <2>4. Consumers!Header(c) = 0 => Consumers!Before(c) = 1
    BY DEF Consumers!Before
  <2>5. cReady[c] = (IF Consumers!Header(c) = 0 THEN 1 ELSE 0) /\ cDelayed[c] = 0 /\ cCalls[c] = 0 /\ cAgain[c] = 0
    BY <1>2
  <2> QED BY <2>2, <2>3, <2>4, <2>5
<1>6. ConsumersPassed /\ ConsumersTried /\ ConsumersEnds
  BY <1>1 DEF ConsumersPassed, ConsumersTried, ConsumersEnds
<1>7. ConsumersReached
  <2>1. \A c \in Consumers!Copies : ConsumersKept(c) => Consumers!Header(c) = 0
    BY <1>2 DEF ConsumersKept
  <2> QED BY <2>1 DEF ConsumersReached
<1>8. Consumers!NothingLost
  <2> SUFFICES ASSUME NEW m \in Orders
               PROVE  Consumers!InBroker(m)
    BY DEF Consumers!NothingLost
  <2>1. << m, 0 >> \in Consumers!Copies /\ Consumers!Body(<< m, 0 >>) = m /\ Consumers!Header(<< m, 0 >>) = 0
    BY CopyFacts
  <2>2. cReady[<< m, 0 >>] > 0
    BY <2>1, <1>2
  <2> QED BY <2>1, <2>2 DEF Consumers!InBroker
<1>9. Consumers!EarnedItsEnd
  BY <1>2 DEF Consumers!EarnedItsEnd, Consumers!GivenUp
<1> QED BY <1>3, <1>4, <1>5, <1>6, <1>7, <1>8, <1>9 DEF ConsumersInv

LEMMA ConsumersNext == ConsumersInv /\ [Consumers!Next]_consumerVars => ConsumersInv'
<1> SUFFICES ASSUME ConsumersInv, [Consumers!Next]_consumerVars
             PROVE  ConsumersInv'
  OBVIOUS
<1>1. CASE UNCHANGED consumerVars
  BY <1>1, ConsumersQuietStep DEF consumerVars, Consumers!broker, Consumers!history, Consumers!procs, ConsumersInv, Consumers!TypeOK
<1>2. CASE Consumers!Next
  <2>1. Consumers!TypeOK'
    BY <1>2, ConsumersTyped DEF ConsumersInv
  <2>2. ASSUME NEW p \in ConsumerProcs, Consumers!ProcStep(p)
        PROVE  ConsumersInv'
    <3>1. CASE Consumers!Connect(p)
      BY <2>1, <3>1, ConsumersQuietStep DEF Consumers!Connect
    <3>2. CASE Consumers!Setup(p)
      BY <2>1, <3>2, ConsumersQuietStep DEF Consumers!Setup
    <3>3. CASE Consumers!SetupFails(p)
      BY <2>1, <3>3, ConsumersQuietStep DEF Consumers!SetupFails
    <3>4. CASE Consumers!Shutdown(p)
      BY <2>1, <3>4, ConsumersQuietStep DEF Consumers!Shutdown
    <3>5. Consumers!TypeOK /\ NULL \notin ConsumerProcs
      BY ConsumersInstance DEF ConsumersInv, Consumers!ConsumersAssumption
    <3>6. ASSUME Consumers!Outlive(p)
          PROVE  \A t \in Consumers!Tasks : ConsumersCut(p, t)
      BY <3>5, <3>6 DEF Consumers!Outlive, Consumers!Idle, ConsumersCut
    <3>7. CASE Consumers!ConnectionLost(p)
      <4>1. Consumers!PutBack(p) /\ Consumers!Outlive(p)
        BY <3>7 DEF Consumers!ConnectionLost
      <4> QED BY <2>1, <3>6, <4>1, ConsumersPutBackStep
    <3>8. CASE Consumers!Close(p)
      <4>1. Consumers!PutBack(p) /\ Consumers!Outlive(p)
        BY <3>8 DEF Consumers!Close
      <4> QED BY <2>1, <3>6, <4>1, ConsumersPutBackStep
    <3>9. CASE Consumers!Crash(p)
      <4>1. Consumers!PutBack(p) /\ cSlot' = [t \in Consumers!Tasks |-> IF cSlot[t].proc = p THEN Consumers!Idle ELSE cSlot[t]]
        BY <3>9 DEF Consumers!Crash
      <4>2. \A t \in Consumers!Tasks : ConsumersCut(p, t)
        BY <4>1 DEF ConsumersCut
      <4> QED BY <2>1, <4>1, <4>2, ConsumersPutBackStep
    <3> QED BY <2>2, <3>1, <3>2, <3>3, <3>4, <3>7, <3>8, <3>9 DEF Consumers!ProcStep
  <2>3. ASSUME NEW t \in Consumers!Tasks, Consumers!TaskStep(t)
        PROVE  ConsumersInv'
    BY <2>1, <2>3, ConsumersHandlerStep, ConsumersAckStep, ConsumersNackStep, ConsumersPublishStep DEF Consumers!TaskStep, Consumers!Answer
  <2> QED BY <1>2, <2>1, <2>2, <2>3, ConsumersDeliverStep, ConsumersRetryStep DEF Consumers!Next
<1> QED BY <1>1, <1>2

LEMMA ConsumersInvIsSafe == ConsumersInv => Consumers!NothingLost /\ Consumers!EarnedItsEnd /\ Consumers!AttemptsBounded
<1> SUFFICES ASSUME ConsumersInv, NEW c \in Consumers!Copies
             PROVE  Consumers!NothingLost /\ Consumers!EarnedItsEnd /\ cCalls[c] <= Consumers!Before(c) + cAgain[c]
  BY DEF ConsumersInv, Consumers!AttemptsBounded
<1>1. /\ cReady[c] \in Nat /\ cDelayed[c] \in Nat /\ cCalls[c] \in Nat /\ cAgain[c] \in Nat
      /\ Consumers!Before(c) \in Nat /\ ConsumersPending(c) \in Nat
  BY ConsumersNumberFacts DEF ConsumersInv
<1>2. cCalls[c] + cReady[c] + cDelayed[c] + ConsumersPending(c) <= Consumers!Before(c) + cAgain[c]
  BY DEF ConsumersInv, ConsumersPaid
<1> QED BY <1>1, <1>2 DEF ConsumersInv

-----------------------------------------------------------------------------
(***************************************************************************)
(* MQTT: what narrowing does to any list of filters; and the client, of    *)
(* which the list is the one that its handlers and callers asked for.      *)
(***************************************************************************)
(* A filter that validate_topic_filter lets through, and a list of them.   *)
MqttGood(f) == f \in Seq(STRING) /\ Mqtt!ValidFilter(f)
MqttRows == [filter : {f \in Seq(STRING) : Mqtt!ValidFilter(f)}, qos : Mqtt!Qos]

LEMMA MqttNextIn == \A n, l \in Nat : n < l => n + 1 \in 1 .. l
OBVIOUS

LEMMA MqttCoversItself == ASSUME NEW a, MqttGood(a) PROVE Mqtt!Covers(a, a)
<1>1. a \in Seq(STRING) /\ a # << >> /\ Len(a) \in Nat \ {0}
      /\ \A i \in 1 .. Len(a) : a[i] = "#" => i = Len(a)
  BY DEF MqttGood, Mqtt!ValidFilter
<1>2. CASE a[Len(a)] = "#"
  <2>1. Len(a) - 1 \in 0 .. Len(a) /\ Len(a) - 1 < Len(a) /\ a[(Len(a) - 1) + 1] = "#"
    BY <1>1, <1>2
  <2>2. \A i \in 1 .. (Len(a) - 1) : i \in DOMAIN a /\ a[i] # "#"
    BY <1>1
  <2> QED
    BY <2>1, <2>2 DEF Mqtt!Covers
<1>3. CASE a[Len(a)] # "#"
  <2>1. Len(a) \in 0 .. Len(a) /\ \A i \in 1 .. Len(a) : i \in DOMAIN a /\ a[i] # "#"
    BY <1>1, <1>3
  <2> QED
    BY <2>1 DEF Mqtt!Covers
<1> QED BY <1>2, <1>3

LEMMA MqttCoversMatches ==
  ASSUME NEW a, NEW b, NEW t, MqttGood(a), MqttGood(b), t \in Seq(STRING), t[1] \notin Dollar,
         Mqtt!Covers(a, b), Mqtt!Matches(b, t)
  PROVE  Mqtt!Matches(a, t)
<1>0. Len(a) \in Nat
  BY DEF MqttGood
<1>1. /\ a \in Seq(STRING) /\ Len(a) \in Nat \ {0} /\ DOMAIN a = 1 .. Len(a)
      /\ \A i \in 1 .. Len(a) : a[i] = "#" => i = Len(a)
  BY DEF MqttGood, Mqtt!ValidFilter
<1>2. b \in Seq(STRING) /\ Len(b) \in Nat \ {0} /\ DOMAIN b = 1 .. Len(b)
  BY DEF MqttGood, Mqtt!ValidFilter
<1>3. Len(t) \in Nat /\ DOMAIN t = 1 .. Len(t)
  OBVIOUS
<1>4. PICK n \in 0 .. Len(a) :
        /\ \A i \in 1 .. n : i \in DOMAIN b /\ b[i] # "#" /\ a[i] \in {"+", b[i]}
        /\ (n = Len(a) /\ n = Len(b)) \/ (n < Len(a) /\ a[n + 1] = "#")
  BY DEF Mqtt!Covers
<1>5. /\ \A i \in 1 .. Len(b) : b[i] = "#" \/ (i \in DOMAIN t /\ b[i] \in {"+", t[i]})
      /\ Len(b) = Len(t) \/ b[Len(b)] = "#"
  BY <1>2 DEF Mqtt!Matches
<1>6. ASSUME NEW i \in 1 .. n PROVE i \in DOMAIN t /\ a[i] \in {"+", t[i]}
  BY <1>4, <1>5, <1>2
<1>7. CASE n = Len(a) /\ n = Len(b)
  <2>1. b[Len(b)] # "#"
    BY <1>7, <1>4, <1>2
  <2>2. Len(a) = Len(t)
    BY <2>1, <1>7, <1>5
  <2> QED
    BY <2>2, <1>7, <1>6, <1>1 DEF Mqtt!Matches
<1>8. CASE n < Len(a) /\ a[n + 1] = "#"
  <2>1. n + 1 = Len(a)
    <3>1. n + 1 \in 1 .. Len(a)
      <4>1. n \in Nat /\ Len(a) \in Nat /\ n < Len(a)
        BY <1>8, <1>0
      <4> QED BY <4>1, MqttNextIn
    <3> QED
      BY <3>1, <1>8, <1>1
  <2>2. \A i \in 1 .. Len(a) : i \in 1 .. n \/ i = n + 1
    BY <2>1, <1>1
  <2> QED
    BY <2>1, <2>2, <1>8, <1>6, <1>1 DEF Mqtt!Matches
<1> QED BY <1>4, <1>7, <1>8

LEMMA MqttCoversOneWay ==
  ASSUME NEW a, NEW b, MqttGood(a), MqttGood(b), Mqtt!Covers(a, b), Mqtt!Covers(b, a)
  PROVE  a = b
<1>0. Len(a) \in Nat /\ Len(b) \in Nat
  BY DEF MqttGood
<1>1. /\ a \in Seq(STRING) /\ Len(a) \in Nat \ {0} /\ DOMAIN a = 1 .. Len(a)
      /\ \A i \in 1 .. Len(a) : a[i] = "#" => i = Len(a)
  BY DEF MqttGood, Mqtt!ValidFilter
<1>2. /\ b \in Seq(STRING) /\ Len(b) \in Nat \ {0} /\ DOMAIN b = 1 .. Len(b)
      /\ \A i \in 1 .. Len(b) : b[i] = "#" => i = Len(b)
  BY DEF MqttGood, Mqtt!ValidFilter
<1>3. PICK n \in 0 .. Len(a) :
        /\ \A i \in 1 .. n : i \in DOMAIN b /\ b[i] # "#" /\ a[i] \in {"+", b[i]}
        /\ (n = Len(a) /\ n = Len(b)) \/ (n < Len(a) /\ a[n + 1] = "#")
  BY DEF Mqtt!Covers
<1>4. PICK m \in 0 .. Len(b) :
        /\ \A i \in 1 .. m : i \in DOMAIN a /\ a[i] # "#" /\ b[i] \in {"+", a[i]}
        /\ (m = Len(b) /\ m = Len(a)) \/ (m < Len(b) /\ b[m + 1] = "#")
  BY DEF Mqtt!Covers
<1>5. Len(a) = Len(b) /\ \A i \in 1 .. Len(a) : a[i] = b[i]
  <2>1. CASE n = Len(a) /\ n = Len(b)
    <3>1. m = Len(b)
      <4>1. ASSUME m < Len(b), b[m + 1] = "#" PROVE FALSE
        <5>1. m + 1 \in 1 .. n
          BY <4>1, <2>1, <1>2
        <5> QED
          BY <5>1, <4>1, <1>3
      <4> QED
        BY <4>1, <1>4
    <3> QED
      BY <3>1, <2>1, <1>3, <1>4
  <2>2. CASE n < Len(a) /\ a[n + 1] = "#"
    <3>1. n + 1 = Len(a)
      <4>1. n + 1 \in 1 .. Len(a)
        <5>1. n \in Nat /\ Len(a) \in Nat /\ n < Len(a)
          BY <2>2, <1>0
        <5> QED BY <5>1, MqttNextIn
      <4> QED
        BY <4>1, <2>2, <1>1
    <3>2. m < Len(b) /\ b[m + 1] = "#"
      <4>1. m = Len(a) => n + 1 \in 1 .. m
        BY <3>1, <1>1
      <4>2. m # Len(a)
        BY <4>1, <2>2, <1>4
      <4> QED
        BY <4>2, <1>4
    <3>3. m + 1 = Len(b)
      <4>1. m + 1 \in 1 .. Len(b)
        <5>1. m \in Nat /\ Len(b) \in Nat /\ m < Len(b)
          BY <3>2, <1>0
        <5> QED BY <5>1, MqttNextIn
      <4> QED
        BY <4>1, <3>2, <1>2
    <3>4. ~ n < m
      <4>1. n < m => n + 1 \in 1 .. m
        BY <1>3, <1>4
      <4> QED
        BY <4>1, <2>2, <1>4
    <3>5. ~ m < n
      <4>1. m < n => m + 1 \in 1 .. n
        BY <1>3, <1>4
      <4> QED
        BY <4>1, <3>2, <1>3
    <3>6. n = m
      BY <3>4, <3>5
    <3>7. \A i \in 1 .. Len(a) : i \in 1 .. n \/ i = n + 1
      BY <3>1, <1>1
    <3> QED
      BY <3>1, <3>2, <3>3, <3>6, <3>7, <2>2, <1>3, <1>4
  <2> QED BY <1>3, <2>1, <2>2
<1> QED
  <2>1. a = [i \in 1 .. Len(a) |-> a[i]] /\ b = [i \in 1 .. Len(b) |-> b[i]]
    BY <1>1, <1>2
  <2> QED BY <2>1, <1>5

LEMMA MqttMaxOfLevels ==
  ASSUME NEW S \in SUBSET Mqtt!Qos, S # {}
  PROVE  Mqtt!Max(S) \in S /\ \A x \in S : Mqtt!Max(S) >= x
<1>1. \E x \in S : \A y \in S : x >= y
  <2>1. CASE 2 \in S
    BY <2>1 DEF Mqtt!Qos
  <2>2. CASE 2 \notin S /\ 1 \in S
    <3>1. S \subseteq 0 .. 1
      BY <2>2 DEF Mqtt!Qos
    <3> QED
      BY <2>2, <3>1
  <2>3. CASE 2 \notin S /\ 1 \notin S
    <3>1. \A x \in S : x = 0
      BY <2>3 DEF Mqtt!Qos
    <3> QED
      BY <3>1
  <2> QED BY <2>1, <2>2, <2>3
<1> QED
  BY <1>1 DEF Mqtt!Max

LEMMA MqttMinOfPlaces ==
  ASSUME NEW n \in Nat, NEW S \in SUBSET (1 .. n), S # {}
  PROVE  Mqtt!Min(S) \in S
<1> DEFINE R == {p \in Nat \X Nat : p[1] < p[2]}
<1>a. IsWellFoundedOn(R, Nat)
  BY NatLessThanWellFounded DEF OpToRel
<1>1. \E x \in S : \A y \in S : ~ (<< y, x >> \in R)
  <2> HIDE DEF R
  <2>1. S \subseteq Nat
    OBVIOUS
  <2> QED BY <2>1, <1>a, WFMin
<1>2. \E x \in S : \A y \in S : x <= y
  <2>1. \A x, y \in S : ~ (<< y, x >> \in R) => x <= y
    <3>1. \A x, y \in Nat : << y, x >> \in R <=> y < x
      OBVIOUS
    <3>2. \A x \in S : x \in Nat
      OBVIOUS
    <3> HIDE DEF R
    <3> QED BY <3>1, <3>2
  <2> QED BY <1>1, <2>1
<1> QED
  BY <1>2 DEF Mqtt!Min

-----------------------------------------------------------------------------
(* The narrowing of any list of subscriptions.                             *)
MqttWider(s, i) == {j \in DOMAIN s \ {i} : Mqtt!Covers(s[j].filter, s[i].filter)}
MqttGoes(s, i) == IF MqttWider(s, i) = {} THEN i ELSE Mqtt!Min(MqttWider(s, i))
MqttTakes(s, j) == {s[j].qos} \cup {s[i].qos : i \in {k \in DOMAIN s : MqttGoes(s, k) = j}}
MqttNarrow(s) == {[filter |-> s[j].filter, qos |-> Mqtt!Max(MqttTakes(s, j))] : j \in {MqttGoes(s, i) : i \in DOMAIN s}}

LEMMA MqttNarrowIs == Mqtt!Narrowed = MqttNarrow(mSubs)
BY DEF Mqtt!Narrowed, MqttNarrow, Mqtt!Into, MqttGoes, MqttWider, MqttTakes

LEMMA MqttGoesTo ==
  ASSUME NEW s \in Seq(MqttRows), NEW i \in DOMAIN s
  PROVE  /\ MqttGoes(s, i) \in DOMAIN s
         /\ Mqtt!Covers(s[MqttGoes(s, i)].filter, s[i].filter)
         /\ MqttGoes(s, i) # i => MqttGoes(s, i) \in MqttWider(s, i)
<1>1. CASE MqttWider(s, i) = {}
  <2>1. s[i] \in MqttRows
    OBVIOUS
  <2>2. Mqtt!Covers(s[i].filter, s[i].filter)
    BY <2>1, MqttCoversItself DEF MqttRows, MqttGood
  <2> QED BY <1>1, <2>2 DEF MqttGoes
<1>2. CASE MqttWider(s, i) # {}
  <2>1. Len(s) \in Nat /\ MqttWider(s, i) \subseteq 1 .. Len(s)
    BY DEF MqttWider
  <2>2. Mqtt!Min(MqttWider(s, i)) \in MqttWider(s, i)
    BY <1>2, <2>1, MqttMinOfPlaces
  <2> QED BY <1>2, <2>2 DEF MqttGoes, MqttWider
<1> QED BY <1>1, <1>2

LEMMA MqttTakesBest ==
  ASSUME NEW s \in Seq(MqttRows), NEW j \in DOMAIN s
  PROVE  /\ Mqtt!Max(MqttTakes(s, j)) \in Mqtt!Qos
         /\ \A i \in DOMAIN s : MqttGoes(s, i) = j => Mqtt!Max(MqttTakes(s, j)) >= s[i].qos
<1>1. \A i \in DOMAIN s : s[i] \in MqttRows
  OBVIOUS
<1>2. MqttTakes(s, j) \in SUBSET Mqtt!Qos /\ MqttTakes(s, j) # {}
  BY <1>1 DEF MqttTakes, MqttRows
<1>3. \A i \in DOMAIN s : MqttGoes(s, i) = j => s[i].qos \in MqttTakes(s, j)
  BY DEF MqttTakes
<1> HIDE DEF MqttRows
<1> QED BY <1>2, <1>3, MqttMaxOfLevels

(* Each one asked for is covered by one that is made, of a level as high.  *)
LEMMA MqttNarrowCovers ==
  ASSUME NEW s \in Seq(MqttRows), NEW i \in DOMAIN s
  PROVE  \E r \in MqttNarrow(s) : Mqtt!Covers(r.filter, s[i].filter) /\ r.qos >= s[i].qos
<1>1. PICK j \in DOMAIN s : j = MqttGoes(s, i)
  BY MqttGoesTo
<1>2. PICK r : r = [filter |-> s[j].filter, qos |-> Mqtt!Max(MqttTakes(s, j))]
  OBVIOUS
<1>3. r \in MqttNarrow(s)
  BY <1>1, <1>2 DEF MqttNarrow
<1>4. Mqtt!Covers(r.filter, s[i].filter)
  BY <1>1, <1>2, MqttGoesTo
<1>5. r.qos >= s[i].qos
  BY <1>1, <1>2, MqttTakesBest
<1> QED BY <1>3, <1>4, <1>5

(* Each one that is made was asked for.                                    *)
LEMMA MqttNarrowFrom ==
  ASSUME NEW s \in Seq(MqttRows), NEW r \in MqttNarrow(s)
  PROVE  /\ r \in MqttRows
         /\ \E i \in DOMAIN s : r.filter = s[MqttGoes(s, i)].filter /\ MqttGoes(s, i) \in DOMAIN s
<1>1. PICK i \in DOMAIN s : r = [filter |-> s[MqttGoes(s, i)].filter, qos |-> Mqtt!Max(MqttTakes(s, MqttGoes(s, i)))]
  BY DEF MqttNarrow
<1>2. PICK j \in DOMAIN s : j = MqttGoes(s, i)
  BY MqttGoesTo
<1>3. s[j] \in MqttRows /\ Mqtt!Max(MqttTakes(s, j)) \in Mqtt!Qos
  BY MqttTakesBest
<1>4. r.filter = s[j].filter /\ r = [filter |-> s[j].filter, qos |-> Mqtt!Max(MqttTakes(s, j))]
  BY <1>1, <1>2
<1>5. r \in MqttRows
  BY <1>3, <1>4 DEF MqttRows
<1> QED BY <1>2, <1>4, <1>5

-----------------------------------------------------------------------------
(* subscribe_topic keeps the list one of different filters.                *)
MqttApart(s) == \A i, j \in DOMAIN s : s[i].filter = s[j].filter => i = j
MqttList == mSubs \in Seq(MqttRows) /\ MqttApart(mSubs)

MqttHas(s, f) == \E i \in DOMAIN s : s[i].filter = f
MqttAdds(s, s2, f, q) ==
  /\ Mqtt!ValidFilter(f)
  /\ \/ MqttHas(s, f) /\ s2 = [i \in DOMAIN s |->
           IF s[i].filter = f THEN [filter |-> f, qos |-> Mqtt!Max({q, s[i].qos})] ELSE s[i]]
     \/ ~ MqttHas(s, f) /\ s2 = Append(s, [filter |-> f, qos |-> q])

LEMMA MqttAddsKeeps ==
  ASSUME NEW s \in Seq(MqttRows), MqttApart(s), NEW s2, NEW f \in Seq(STRING), NEW q \in Mqtt!Qos, MqttAdds(s, s2, f, q)
  PROVE  /\ s2 \in Seq(MqttRows) /\ MqttApart(s2)
         /\ \E i \in DOMAIN s2 : s2[i].filter = f /\ s2[i].qos >= q
         /\ \A i \in DOMAIN s : \E j \in DOMAIN s2 :
              s2[j].filter = s[i].filter /\ s2[j].qos >= s[i].qos
         /\ \A j \in DOMAIN s2 : s2[j].filter = f \/ \E i \in DOMAIN s : s2[j].filter = s[i].filter
<1>1. s \in Seq(MqttRows) /\ Len(s) \in Nat /\ DOMAIN s = 1 .. Len(s) /\ MqttApart(s)
  OBVIOUS
<1>2. Mqtt!ValidFilter(f)
  BY DEF MqttAdds
<1>3. \A i \in DOMAIN s : s[i] \in MqttRows /\ s[i].qos \in Mqtt!Qos /\ s[i].filter \in Seq(STRING)
                             /\ Mqtt!ValidFilter(s[i].filter)
  <2>1. \A i \in DOMAIN s : s[i] \in MqttRows
    BY <1>1
  <2>2. \A r \in MqttRows : r.qos \in Mqtt!Qos /\ r.filter \in Seq(STRING) /\ Mqtt!ValidFilter(r.filter)
    BY DEF MqttRows
  <2> HIDE DEF MqttRows
  <2> QED BY <2>1, <2>2
<1>4. CASE ~ MqttHas(s, f) /\ s2 = Append(s, [filter |-> f, qos |-> q])
  <2>1. PICK r : r = [filter |-> f, qos |-> q]
    OBVIOUS
  <2>2. r \in MqttRows /\ r.filter = f /\ r.qos = q
    BY <2>1, <1>2 DEF MqttRows
  <2>3. s2 = Append(s, r)
    BY <1>4, <2>1
  <2>4. /\ s2 \in Seq(MqttRows) /\ DOMAIN s2 = 1 .. (Len(s) + 1) /\ s2[Len(s) + 1] = r
        /\ \A i \in 1 .. Len(s) : s2[i] = s[i]
    BY <2>2, <2>3, <1>1
  <2>5. \A j \in DOMAIN s2 : j \in DOMAIN s \/ j = Len(s) + 1
    BY <2>4, <1>1
  <2>6. \A i \in DOMAIN s : i \in DOMAIN s2 /\ s2[i] = s[i] /\ s[i].filter # f
    BY <2>4, <1>1, <1>4 DEF MqttHas
  <2>7. MqttApart(s2)
    BY <2>2, <2>4, <2>5, <2>6, <1>1 DEF MqttApart
  <2>8. Len(s) + 1 \in DOMAIN s2
    BY <2>4, <1>1
  <2>9. q >= q /\ \A i \in DOMAIN s : s[i].qos >= s[i].qos
    <3>1. \A x \in Mqtt!Qos : x >= x
      BY DEF Mqtt!Qos
    <3> QED BY <3>1, <1>3
  <2> HIDE DEF MqttRows
  <2> QED
    BY <2>2, <2>4, <2>5, <2>6, <2>7, <2>8, <2>9
<1>5. CASE MqttHas(s, f) /\ s2 = [i \in DOMAIN s |->
               IF s[i].filter = f THEN [filter |-> f, qos |-> Mqtt!Max({q, s[i].qos})] ELSE s[i]]
  <2>1. \A i \in DOMAIN s : {q, s[i].qos} \in SUBSET Mqtt!Qos /\ {q, s[i].qos} # {}
    BY <1>3
  <2>2. \A i \in DOMAIN s : /\ Mqtt!Max({q, s[i].qos}) \in Mqtt!Qos
                               /\ Mqtt!Max({q, s[i].qos}) >= q /\ Mqtt!Max({q, s[i].qos}) >= s[i].qos
    BY <2>1, MqttMaxOfLevels
  <2>3. DOMAIN s2 = DOMAIN s
    BY <1>5
  <2>4. ASSUME NEW i \in DOMAIN s
        PROVE  /\ s2[i] \in MqttRows /\ s2[i].filter = s[i].filter /\ s2[i].qos >= s[i].qos
               /\ s[i].filter = f => s2[i].qos >= q
    <3>1. s[i].qos >= s[i].qos
      <4>1. \A x \in Mqtt!Qos : x >= x
        BY DEF Mqtt!Qos
      <4> QED BY <4>1, <1>3
    <3>2. CASE s[i].filter = f
      <4>1. s2[i] = [filter |-> f, qos |-> Mqtt!Max({q, s[i].qos})]
        BY <3>2, <1>5
      <4> QED BY <4>1, <3>2, <2>2, <1>2 DEF MqttRows
    <3>3. CASE s[i].filter # f
      BY <3>3, <3>1, <1>3, <1>5
    <3> QED BY <3>2, <3>3
  <2>5. s2 \in Seq(MqttRows)
    <3>1. \A i \in 1 .. Len(s) : s2[i] \in MqttRows
      BY <2>4, <1>1
    <3>2. s2 = [i \in 1 .. Len(s) |-> s2[i]]
      BY <1>5, <1>1
    <3> HIDE DEF MqttRows
    <3> QED BY <3>1, <3>2, <1>1
  <2>6. MqttApart(s2)
    BY <2>3, <2>4, <1>1 DEF MqttApart
  <2>7. PICK k \in DOMAIN s : s[k].filter = f
    BY <1>5 DEF MqttHas
  <2> HIDE DEF MqttRows
  <2> QED
    BY <2>3, <2>4, <2>5, <2>6, <2>7
<1> QED BY <1>4, <1>5 DEF MqttAdds

LEMMA MqttSubscribeKeeps ==
  ASSUME MqttList, NEW f \in Seq(STRING), NEW q \in Mqtt!Qos, Mqtt!Subscribe(f, q)
  PROVE  /\ MqttList'
         /\ \E i \in DOMAIN mSubs' : mSubs'[i].filter = f /\ mSubs'[i].qos >= q
         /\ \A i \in DOMAIN mSubs : \E j \in DOMAIN mSubs' :
              mSubs'[j].filter = mSubs[i].filter /\ mSubs'[j].qos >= mSubs[i].qos
         /\ \A j \in DOMAIN mSubs' : mSubs'[j].filter = f \/ \E i \in DOMAIN mSubs : mSubs'[j].filter = mSubs[i].filter
<1>1. MqttAdds(mSubs, mSubs', f, q)
  BY DEF Mqtt!Subscribe, MqttAdds, Mqtt!Asked, MqttHas
<1> HIDE DEF MqttRows
<1> QED BY <1>1, MqttAddsKeeps DEF MqttList

MqttWays == {<< "lost" >>, << "refused" >>, << "timeout" >>, << >>}
MqttCalls == [at : {"idle", "listen", "publish", "wait"}, calls : Nat, with : Nat, open : BOOLEAN,
          outcome : Seq(MqttWays \cup (MqttCallers \X Nat))]
MqttKinds ==
  /\ MqttList /\ mSession \in Nat
  /\ mTodo \in SUBSET MqttRows /\ mServed \in SUBSET MqttRows /\ IsFiniteSet(mTodo) /\ IsFiniteSet(mServed)
  /\ mInbox \in Seq(Mqtt!Messages) /\ (mWork # NULL => mWork \in Mqtt!Works)
  /\ mSent \in 0 .. Len(MqttStream) /\ mHandled \in [DOMAIN MqttHandlers -> Seq(Nat)]
  /\ mCaller \in [MqttCallers -> MqttCalls]

MqttHolds == mLoop \in {"subscribe", "read"}
MqttLinked ==
  /\ mClient = IF MqttHolds THEN mSession ELSE 0
  /\ MqttHolds => mSession > 0
  /\ mConnected = (mLoop = "read") /\ mStatus = IF mConnected THEN "up" ELSE "down"
  /\ (mWire => MqttHolds) /\ (~ mWire => mServed = {})
  /\ mLoop # "off" => mPhase = "open"
  /\ mWork # NULL => mLoop = "read"
  /\ mPhase = "open" => \A i \in DOMAIN MqttHandlers : MqttHandlers[i] \in mRegistered

MqttAsked ==
  /\ \A i \in DOMAIN MqttHandlers : MqttHandlers[i] \in mRegistered =>
       \E j \in DOMAIN mSubs : mSubs[j].filter = MqttWants[MqttHandlers[i]].filter /\ mSubs[j].qos >= MqttWants[MqttHandlers[i]].qos
  /\ \A j \in DOMAIN mSubs : mSubs[j].filter \in Mqtt!Every

(* The handlers are subscribed, and a message of others comes once.        *)
MqttBackIn(S) == \A i \in DOMAIN MqttHandlers : \E r \in S :
  Mqtt!Covers(r.filter, MqttWants[MqttHandlers[i]].filter) /\ r.qos >= MqttWants[MqttHandlers[i]].qos
MqttOnceIn(S) == \A n \in DOMAIN MqttStream : \A r, s \in S : Mqtt!Matches(r.filter, MqttStream[n]) /\ Mqtt!Matches(s.filter, MqttStream[n]) => r = s
MqttBack == mWire => /\ MqttBackIn(mTodo \cup mServed) /\ MqttOnceIn(mTodo \cup mServed)
                     /\ mLoop = "read" => mTodo = {}

MqttListened(c) ==
  mCaller[c].open => /\ mCaller[c].with = mSession /\ MqttHolds /\ mCaller[c].at \in {"publish", "wait"}
                     /\ mWire => \E r \in mServed : Mqtt!Matches(r.filter, Mqtt!ReplyTopic(MqttPattern[c]))
MqttAwaited(c) == IF mCaller[c].open \/ mCaller[c].at = "listen" THEN 1 ELSE 0
MqttCounted(c) == mCaller[c].calls <= TaskCalls /\ mCaller[c].calls = Len(mCaller[c].outcome) + MqttAwaited(c)
MqttOwnEnds(o, c) == \A n \in DOMAIN o : o[n] \in MqttCallers \X Nat => o[n] = << c, n >>
MqttCall(c) == MqttListened(c) /\ MqttCounted(c) /\ MqttOwnEnds(mCaller[c].outcome, c)
MqttCalled == \A c \in MqttCallers : MqttCall(c)

MqttTold(m) == m.number # 0 => m.number <= mSent /\ m.topic = MqttStream[m.number]
MqttOrder ==
  /\ \A k \in DOMAIN mInbox : MqttTold(mInbox[k])
  /\ \A j, k \in DOMAIN mInbox : j < k /\ mInbox[j].number # 0 /\ mInbox[k].number # 0 => mInbox[j].number < mInbox[k].number
  /\ mWork # NULL => /\ MqttTold(mWork.msg)
                     /\ \A k \in DOMAIN mInbox : mInbox[k].number # 0 => mWork.msg.number < mInbox[k].number
MqttHeardBy(i, n) == \E l \in DOMAIN mHandled[i] : mHandled[i][l] = n
MqttHeard == \A i \in DOMAIN MqttHandlers :
  /\ \A j, k \in DOMAIN mHandled[i] : j < k => mHandled[i][j] < mHandled[i][k]
  /\ \A j \in DOMAIN mHandled[i] : /\ mHandled[i][j] \in 1 .. mSent /\ Mqtt!Serves(MqttHandlers[i], MqttStream[mHandled[i][j]])
                                   /\ \A k \in DOMAIN mInbox : mInbox[k].number # 0 => mHandled[i][j] < mInbox[k].number
                                   /\ mWork # NULL /\ mWork.msg.number # 0 =>
                                        IF i \in mWork.left THEN mHandled[i][j] < mWork.msg.number
                                        ELSE mHandled[i][j] <= mWork.msg.number
MqttAll ==
  /\ mWork # NULL => \A i \in DOMAIN MqttHandlers :
       /\ i \in mWork.left => Mqtt!Serves(MqttHandlers[i], mWork.msg.topic)
       /\ Mqtt!Serves(MqttHandlers[i], mWork.msg.topic) /\ mWork.msg.number # 0 => i \in mWork.left \/ MqttHeardBy(i, mWork.msg.number)
  /\ mPhase # "closed" => \A i, j \in DOMAIN MqttHandlers : \A k \in DOMAIN mHandled[i] :
       Mqtt!Serves(MqttHandlers[j], MqttStream[mHandled[i][k]]) =>
         MqttHeardBy(j, mHandled[i][k]) \/ (mWork # NULL /\ mWork.msg.number = mHandled[i][k] /\ j \in mWork.left)
MqttInv == MqttKinds /\ MqttLinked /\ MqttAsked /\ MqttBack /\ MqttCalled /\ MqttOrder /\ MqttHeard /\ MqttAll

-----------------------------------------------------------------------------
(* What the broker hands out joins the inbox at its end.                   *)
LEMMA MqttDeliverAdds ==
  ASSUME MqttKinds, NEW m \in Mqtt!Messages, Mqtt!Deliver(m)
  PROVE  \E n \in Nat :
           /\ mInbox' \in Seq(Mqtt!Messages) /\ Len(mInbox') = Len(mInbox) + n
           /\ \A k \in 1 .. Len(mInbox) : mInbox'[k] = mInbox[k]
           /\ \A k \in 1 .. Len(mInbox') : k > Len(mInbox) => mInbox'[k] = m
           /\ (\A r, s \in mServed : Mqtt!Matches(r.filter, m.topic) /\ Mqtt!Matches(s.filter, m.topic) => r = s) => n <= 1
<1> DEFINE S == {r \in mServed : Mqtt!Matches(r.filter, m.topic)}
<1>1. mInbox \in Seq(Mqtt!Messages) /\ Len(mInbox) \in Nat
  BY DEF MqttKinds
<1>2. CASE ~ mWire
  <2>1. mInbox' = mInbox
    BY <1>2 DEF Mqtt!Deliver
  <2>2. mInbox' \in Seq(Mqtt!Messages) /\ Len(mInbox') = Len(mInbox) + 0
    BY <2>1, <1>1
  <2>3. \A k \in 1 .. Len(mInbox') : ~ k > Len(mInbox)
    BY <2>1, <1>1
  <2>4. \A k \in 1 .. Len(mInbox) : mInbox'[k] = mInbox[k]
    BY <2>1
  <2> HIDE DEF Mqtt!Messages
  <2> WITNESS 0 \in Nat
  <2> QED BY <2>2, <2>3, <2>4
<1>3. CASE mWire
  <2>1. IsFiniteSet(S)
    BY FS_Subset DEF MqttKinds
  <2>2. PICK n \in Nat : n = Cardinality(S)
    BY <2>1, FS_CardinalityType
  <2>3. mInbox' = mInbox \o [i \in 1 .. n |-> m]
    BY <2>2, <1>3 DEF Mqtt!Deliver, Mqtt!Copies, Mqtt!Cardinality, Cardinality
  <2>4. PICK t \in Seq(Mqtt!Messages) : t = [i \in 1 .. n |-> m] /\ Len(t) = n /\ \A i \in 1 .. n : t[i] = m
    <3>1. [i \in 1 .. n |-> m] \in Seq(Mqtt!Messages)
      OBVIOUS
    <3>2. Len([i \in 1 .. n |-> m]) = n
      OBVIOUS
    <3> QED BY <3>1, <3>2
  <2>5. mInbox' = mInbox \o t
    BY <2>3, <2>4
  <2>6. /\ mInbox' \in Seq(Mqtt!Messages) /\ Len(mInbox') = Len(mInbox) + n
        /\ \A k \in 1 .. Len(mInbox) : mInbox'[k] = mInbox[k]
        /\ \A k \in 1 .. Len(mInbox') : k > Len(mInbox) => mInbox'[k] = t[k - Len(mInbox)]
    <3> HIDE DEF Mqtt!Messages
    <3> QED BY <2>4, <2>5, <1>1
  <2>7. \A k \in 1 .. Len(mInbox') : k > Len(mInbox) => mInbox'[k] = m
    <3>1. \A k \in 1 .. Len(mInbox') : k > Len(mInbox) => k - Len(mInbox) \in 1 .. n
      BY <2>6, <1>1
    <3> QED BY <3>1, <2>4, <2>6
  <2>8. ASSUME \A r, s \in mServed : Mqtt!Matches(r.filter, m.topic) /\ Mqtt!Matches(s.filter, m.topic) => r = s
        PROVE  n <= 1
    <3>1. CASE S = {}
      <4>1. n = 0
        BY <3>1, <2>2, FS_EmptySet
      <4> QED BY <4>1
    <3>2. CASE S # {}
      <4>1. PICK r \in S : TRUE
        BY <3>2
      <4>2. \A s \in S : s = r
        BY <2>8
      <4>3. S = {r}
        <5> HIDE DEF S
        <5> QED BY <4>1, <4>2
      <4>4. n = 1
        <5> HIDE DEF S
        <5> QED BY <4>3, <2>2, FS_Singleton
      <4> QED BY <4>4
    <3> QED BY <3>1, <3>2
  <2> QED BY <2>6, <2>7, <2>8
<1> QED BY <1>2, <1>3

(* The invariant of the messages: what is made for one caller has number 0 *)
(* and disturbs no order.                                                  *)
MqttHushed == \A k \in DOMAIN mInbox' : mInbox'[k].number # 0 => k \in DOMAIN mInbox /\ mInbox'[k] = mInbox[k]

LEMMA MqttHushedDelivery ==
  ASSUME MqttKinds, NEW m \in Mqtt!Messages, m.number = 0, Mqtt!Deliver(m)
  PROVE  MqttHushed /\ mInbox' \in Seq(Mqtt!Messages)
<1>1. mInbox \in Seq(Mqtt!Messages) /\ Len(mInbox) \in Nat
  BY DEF MqttKinds
<1>2. PICK n \in Nat : /\ mInbox' \in Seq(Mqtt!Messages) /\ Len(mInbox') = Len(mInbox) + n
                       /\ \A k \in 1 .. Len(mInbox) : mInbox'[k] = mInbox[k]
                       /\ \A k \in 1 .. Len(mInbox') : k > Len(mInbox) => mInbox'[k] = m
  BY MqttDeliverAdds
<1>3. ASSUME NEW k \in 1 .. Len(mInbox'), mInbox'[k].number # 0 PROVE k \in 1 .. Len(mInbox) /\ mInbox'[k] = mInbox[k]
  <2>1. ~ k > Len(mInbox)
    BY <1>2, <1>3
  <2>2. k \in 1 .. Len(mInbox)
    BY <2>1, <1>1, <1>2
  <2> QED BY <2>2, <1>2
<1> HIDE DEF Mqtt!Messages
<1> QED BY <1>1, <1>2, <1>3 DEF MqttHushed

LEMMA MqttHushedKeeps ==
  ASSUME MqttOrder, MqttHeard, MqttHushed, UNCHANGED << mSent, mHandled, mWork >>
  PROVE  MqttOrder' /\ MqttHeard'
<1>1. MqttOrder'
  BY DEF MqttOrder, MqttHushed, MqttTold
<1>2. MqttHeard'
  BY DEF MqttHeard, MqttHushed
<1> QED BY <1>1, <1>2

-----------------------------------------------------------------------------
(* The start, and what makes no difference.                                *)
LEMMA MqttInit == ASSUME Mqtt!ClientAssumption, Mqtt!Init PROVE MqttInv
<1>1. /\ mPhase = "new" /\ mRegistered = {} /\ mLoop = "off" /\ mSession = 0 /\ mClient = 0 /\ mWire = FALSE
      /\ mTodo = {} /\ mServed = {} /\ mConnected = FALSE /\ mStatus = "down" /\ mInbox = << >>
      /\ mWork = NULL /\ mSent = 0 /\ mSubs = << >>
      /\ mHandled = [i \in DOMAIN MqttHandlers |-> << >>]
      /\ mCaller = [c \in MqttCallers |-> [at |-> "idle", calls |-> 0, with |-> 0, open |-> FALSE, outcome |-> << >>]]
  BY DEF Mqtt!Init, Mqtt!TopicsInit
<1>2. IsFiniteSet({}) /\ Len(MqttStream) \in Nat /\ TaskCalls \in Nat
  BY FS_EmptySet DEF Mqtt!ClientAssumption
<1>3. mCaller \in [MqttCallers -> MqttCalls]
  <2>1. << >> \in Seq(MqttWays \cup (MqttCallers \X Nat))
    OBVIOUS
  <2>2. [at |-> "idle", calls |-> 0, with |-> 0, open |-> FALSE, outcome |-> << >>] \in MqttCalls
    BY <2>1 DEF MqttCalls
  <2> QED BY <2>2, <1>1
<1>4. mHandled \in [DOMAIN MqttHandlers -> Seq(Nat)] /\ \A i \in DOMAIN MqttHandlers : mHandled[i] = << >>
  <2>1. << >> \in Seq(Nat)
    OBVIOUS
  <2> QED BY <2>1, <1>1
<1>5. MqttKinds
  <2>1. mInbox \in Seq(Mqtt!Messages) /\ mSubs \in Seq(MqttRows)
    BY <1>1
  <2>2. MqttApart(mSubs)
    BY <1>1 DEF MqttApart
  <2> QED BY <2>1, <2>2, <1>1, <1>2, <1>3, <1>4 DEF MqttKinds, MqttList
<1>6. MqttLinked
  BY <1>1 DEF MqttLinked, MqttHolds
<1>7. MqttAsked
  BY <1>1 DEF MqttAsked
<1>8. MqttBack
  BY <1>1 DEF MqttBack
<1>9. MqttCalled
  <2>1. \A c \in MqttCallers : /\ ~ mCaller[c].open /\ mCaller[c].calls = 0 /\ mCaller[c].outcome = << >>
                               /\ mCaller[c].at = "idle"
    BY <1>1
  <2>2. Len(<< >>) = 0 /\ DOMAIN << >> = {} /\ 0 <= TaskCalls
    BY <1>2
  <2>3. ASSUME NEW c \in MqttCallers PROVE MqttCall(c)
    <3>1. Len(mCaller[c].outcome) = 0 /\ DOMAIN mCaller[c].outcome = {}
      BY <2>1, <2>2
    <3>2. MqttCounted(c)
      BY <2>1, <2>2, <3>1 DEF MqttCounted, MqttAwaited
    <3> QED BY <2>1, <3>1, <3>2 DEF MqttCall, MqttListened, MqttOwnEnds
  <2> QED BY <2>3 DEF MqttCalled
<1>10. MqttOrder
  BY <1>1 DEF MqttOrder
<1>11. MqttHeard /\ MqttAll
  BY <1>1, <1>4 DEF MqttHeard, MqttAll
<1> QED BY <1>5, <1>6, <1>7, <1>8, <1>9, <1>10, <1>11 DEF MqttInv

LEMMA MqttStutter == ASSUME MqttInv, UNCHANGED mqttVars PROVE MqttInv'
<1>1. MqttKinds' /\ MqttLinked'
  BY DEF mqttVars, Mqtt!link, Mqtt!book, MqttInv, MqttKinds, MqttList, MqttLinked, MqttHolds
<1>2. MqttAsked' /\ MqttBack'
  BY DEF mqttVars, Mqtt!link, Mqtt!book, MqttInv, MqttAsked, MqttBack
<1>3. MqttCalled' /\ MqttOrder'
  BY DEF mqttVars, Mqtt!link, Mqtt!book, MqttInv, MqttCalled, MqttCall, MqttListened, MqttAwaited, MqttCounted, MqttOwnEnds, MqttOrder, MqttTold, MqttHolds
<1>4. MqttHeard' /\ MqttAll'
  BY DEF mqttVars, Mqtt!link, Mqtt!book, MqttInv, MqttHeard, MqttAll, MqttHeardBy
<1> QED BY <1>1, <1>2, <1>3, <1>4 DEF MqttInv

LEMMA MqttCallsSame ==
  ASSUME MqttCalled, UNCHANGED << mCaller, mSession >>, MqttHolds => MqttHolds', mWire' => mWire /\ mServed \subseteq mServed'
  PROVE  MqttCalled'
BY DEF MqttCalled, MqttCall, MqttListened, MqttAwaited, MqttCounted, MqttOwnEnds

-----------------------------------------------------------------------------
(* Registering and connecting.                                             *)
LEMMA MqttRegisterKeeps ==
  ASSUME Mqtt!ClientAssumption, MqttInv, NEW h \in DOMAIN MqttHandlers, Mqtt!Register(MqttHandlers[h])
  PROVE  MqttInv'
<1>1. /\ mPhase = "new" /\ mRegistered' = mRegistered \cup {MqttHandlers[h]}
      /\ Mqtt!Subscribe(MqttWants[MqttHandlers[h]].filter, MqttWants[MqttHandlers[h]].qos)
      /\ UNCHANGED << mPhase, mLoop, mSession, mClient, mWire, mLosses, mTodo, mConnected, mStatus,
                      mServed, mInbox, mWork, mSent, mHandled, Mqtt!book, mRequests >>
  BY DEF Mqtt!Register
<1>2. PICK f \in Seq(STRING), q \in Mqtt!Qos : f = MqttWants[MqttHandlers[h]].filter /\ q = MqttWants[MqttHandlers[h]].qos
  <2>1. MqttHandlers[h] \in DOMAIN MqttWants
    BY DEF Mqtt!ClientAssumption
  <2>2. MqttWants[MqttHandlers[h]] \in [filter : Seq(STRING), qos : Mqtt!Qos]
    BY <2>1 DEF Mqtt!ClientAssumption
  <2> QED BY <2>2
<1>3. /\ MqttList'
      /\ \E i \in DOMAIN mSubs' : mSubs'[i].filter = f /\ mSubs'[i].qos >= q
      /\ \A i \in DOMAIN mSubs : \E j \in DOMAIN mSubs' :
           mSubs'[j].filter = mSubs[i].filter /\ mSubs'[j].qos >= mSubs[i].qos
      /\ \A j \in DOMAIN mSubs' : mSubs'[j].filter = f \/ \E i \in DOMAIN mSubs : mSubs'[j].filter = mSubs[i].filter
  BY <1>1, <1>2, MqttSubscribeKeeps DEF MqttInv, MqttKinds
<1>4. MqttKinds'
  BY <1>1, <1>3 DEF MqttInv, MqttKinds, Mqtt!book
<1>5. MqttLinked'
  BY <1>1 DEF MqttInv, MqttLinked, MqttHolds
<1>6. MqttAsked'
  <2>1. ASSUME NEW i \in DOMAIN MqttHandlers, MqttHandlers[i] \in mRegistered'
        PROVE  \E j \in DOMAIN mSubs' : mSubs'[j].filter = MqttWants[MqttHandlers[i]].filter /\ mSubs'[j].qos >= MqttWants[MqttHandlers[i]].qos
    <3>1. CASE MqttHandlers[i] = MqttHandlers[h]
      BY <3>1, <1>2, <1>3
    <3>2. CASE MqttHandlers[i] \in mRegistered
      <4>1. PICK k \in DOMAIN mSubs : mSubs[k].filter = MqttWants[MqttHandlers[i]].filter /\ mSubs[k].qos >= MqttWants[MqttHandlers[i]].qos
        BY <3>2 DEF MqttInv, MqttAsked
      <4>2. PICK j \in DOMAIN mSubs' : mSubs'[j].filter = mSubs[k].filter /\ mSubs'[j].qos >= mSubs[k].qos
        BY <1>3
      <4>3. mSubs'[j].qos \in Nat /\ mSubs[k].qos \in Nat /\ MqttWants[MqttHandlers[i]].qos \in Nat
        <5>1. mSubs[k] \in MqttRows /\ mSubs'[j] \in MqttRows
          BY <1>3 DEF MqttInv, MqttKinds, MqttList
        <5>2. MqttWants[MqttHandlers[i]].qos \in Mqtt!Qos
          BY DEF Mqtt!ClientAssumption
        <5> QED BY <5>1, <5>2 DEF MqttRows, Mqtt!Qos
      <4>4. mSubs'[j].qos >= MqttWants[MqttHandlers[i]].qos
        BY <4>1, <4>2, <4>3
      <4> QED BY <4>1, <4>2, <4>4
    <3> QED BY <2>1, <3>1, <3>2, <1>1
  <2>2. ASSUME NEW j \in DOMAIN mSubs'
        PROVE  mSubs'[j].filter \in Mqtt!Every
    <3>1. CASE mSubs'[j].filter = f
      BY <3>1, <1>2 DEF Mqtt!Every
    <3>2. CASE \E i \in DOMAIN mSubs : mSubs'[j].filter = mSubs[i].filter
      BY <3>2 DEF MqttInv, MqttAsked
    <3> QED BY <3>1, <3>2, <1>3
  <2> QED BY <2>1, <2>2 DEF MqttAsked
<1>7. MqttBack'
  BY <1>1 DEF MqttInv, MqttBack
<1>8. MqttCalled'
  BY <1>1, MqttCallsSame DEF MqttInv, MqttHolds, Mqtt!book
<1>9. MqttOrder' /\ MqttHeard' /\ MqttAll'
  BY <1>1 DEF MqttInv, MqttOrder, MqttTold, MqttHeard, MqttAll, MqttHeardBy
<1> QED BY <1>4, <1>5, <1>6, <1>7, <1>8, <1>9 DEF MqttInv

LEMMA MqttStartupKeeps == ASSUME MqttInv, Mqtt!Startup \/ Mqtt!Again PROVE MqttInv'
<1>1. /\ UNCHANGED << mSubs, mRegistered, mSession, mClient, mWire, mLosses, mTodo, mConnected, mStatus,
                      mServed, mInbox, mWork, mSent, mHandled, Mqtt!book, mRequests >>
      /\ ~ MqttHolds /\ mLoop' = "connect" /\ mPhase' = "open" /\ mPhase # "closed" /\ ~ mConnected
      /\ \A i \in DOMAIN MqttHandlers : MqttHandlers[i] \in mRegistered
  BY DEF Mqtt!Startup, Mqtt!Again, MqttInv, MqttLinked, MqttHolds
<1>2. MqttKinds' /\ MqttAsked'
  BY <1>1 DEF MqttInv, MqttKinds, MqttList, MqttAsked, Mqtt!book
<1>3. MqttLinked'
  BY <1>1 DEF MqttInv, MqttLinked, MqttHolds
<1>4. MqttBack'
  BY <1>1 DEF MqttInv, MqttBack, MqttLinked
<1>5. MqttCalled'
  BY <1>1, MqttCallsSame DEF MqttInv, MqttHolds, Mqtt!book
<1>6. MqttOrder' /\ MqttHeard' /\ MqttAll'
  BY <1>1 DEF MqttInv, MqttOrder, MqttTold, MqttHeard, MqttAll, MqttHeardBy
<1> QED BY <1>2, <1>3, <1>4, <1>5, <1>6 DEF MqttInv

-----------------------------------------------------------------------------
(* What is subscribed to after a connection.                               *)
LEMMA MqttNarrowIsFinite == ASSUME NEW s \in Seq(MqttRows) PROVE IsFiniteSet(MqttNarrow(s))
<1> DEFINE row(i) == [filter |-> s[MqttGoes(s, i)].filter, qos |-> Mqtt!Max(MqttTakes(s, MqttGoes(s, i)))]
           f == [i \in DOMAIN s |-> row(i)]
<1>1. IsFiniteSet(DOMAIN s)
  <2>1. DOMAIN s = 1 .. Len(s) /\ Len(s) \in Int /\ 1 \in Int
    OBVIOUS
  <2> QED BY <2>1, FS_Interval
<1>2. f \in Surjection(DOMAIN s, MqttNarrow(s))
  BY DEF MqttNarrow, Surjection
<1> QED BY <1>1, <1>2, FS_Surjection

LEMMA MqttAppendsIn == ASSUME NEW S, NEW s \in Seq(S), NEW e \in S PROVE Append(s, e) \in Seq(S)
OBVIOUS

LEMMA MqttReplyTopics == ASSUME Mqtt!ClientAssumption, NEW p \in Seq(STRING) PROVE Mqtt!ReplyTopic(p) \in Seq(STRING)
BY MqttAppendsIn, Zenon DEF Mqtt!ReplyTopic, Mqtt!ClientAssumption

LEMMA MqttStreamTopics ==
  ASSUME Mqtt!ClientAssumption, NEW n \in DOMAIN MqttStream
  PROVE  MqttStream[n] \in Seq(STRING) /\ Mqtt!ComesOnce(MqttStream[n])
<1> DEFINE T == {t \in Seq(STRING) : Mqtt!ValidTopic(t) /\ t[1] \notin Dollar /\ Mqtt!ComesOnce(t)}
<1>1. MqttStream \in Seq(T) /\ T \subseteq Seq(STRING) /\ \A t \in T : Mqtt!ComesOnce(t)
  BY DEF Mqtt!ClientAssumption
<1> HIDE DEF T
<1>2. MqttStream[n] \in T
  BY <1>1
<1> QED BY <1>1, <1>2

LEMMA MqttAnswersAlone ==
  ASSUME Mqtt!ClientAssumption, NEW c \in MqttCallers, NEW n \in DOMAIN MqttStream
  PROVE  ~ Mqtt!Matches(Mqtt!ReplyTopic(MqttPattern[c]), MqttStream[n])
<1>1. PICK p \in Seq(STRING) : p = MqttPattern[c] /\ p # << >> /\ \A i \in 1 .. Len(p) : p[i] \notin Mqtt!Wild
  BY DEF Mqtt!ClientAssumption, Mqtt!ValidTopic
<1>2. PICK f \in Seq(STRING) : f = Mqtt!ReplyTopic(MqttPattern[c]) /\ f = Append(p, "reply")
  BY <1>1, MqttReplyTopics DEF Mqtt!ReplyTopic
<1>3. Len(f) \in Nat \ {0} /\ DOMAIN f = 1 .. Len(f) /\ \A i \in 1 .. Len(f) : f[i] # "+" /\ f[i] # "#"
  BY <1>1, <1>2 DEF Mqtt!Wild
<1>4. PICK t \in Seq(STRING) : t = MqttStream[n] /\ t # f
  <2>1. MqttStream[n] # Mqtt!ReplyTopic(MqttPattern[c])
    BY DEF Mqtt!ClientAssumption
  <2>2. MqttStream[n] \in Seq(STRING)
    BY MqttStreamTopics
  <2> QED BY <2>1, <2>2, <1>2
<1>5. ASSUME Mqtt!Matches(f, t) PROVE FALSE
  <2>1. Len(f) = Len(t) /\ \A i \in 1 .. Len(f) : f[i] = t[i]
    BY <1>3, <1>5 DEF Mqtt!Matches
  <2>2. f = [i \in 1 .. Len(f) |-> f[i]] /\ t = [i \in 1 .. Len(t) |-> t[i]]
    OBVIOUS
  <2> QED BY <2>1, <2>2, <1>4
<1> QED BY <1>2, <1>4, <1>5

LEMMA MqttNarrowBack ==
  ASSUME Mqtt!ClientAssumption, MqttList, MqttAsked, \A i \in DOMAIN MqttHandlers : MqttHandlers[i] \in mRegistered
  PROVE  MqttBackIn(MqttNarrow(mSubs))
<1> SUFFICES ASSUME NEW i \in DOMAIN MqttHandlers
             PROVE  \E r \in MqttNarrow(mSubs) : Mqtt!Covers(r.filter, MqttWants[MqttHandlers[i]].filter) /\ r.qos >= MqttWants[MqttHandlers[i]].qos
  BY DEF MqttBackIn
<1>1. PICK j \in DOMAIN mSubs : mSubs[j].filter = MqttWants[MqttHandlers[i]].filter /\ mSubs[j].qos >= MqttWants[MqttHandlers[i]].qos
  BY DEF MqttAsked
<1>2. PICK r \in MqttNarrow(mSubs) : Mqtt!Covers(r.filter, mSubs[j].filter) /\ r.qos >= mSubs[j].qos
  BY MqttNarrowCovers DEF MqttList
<1>3. r.qos \in Mqtt!Qos /\ mSubs[j].qos \in Mqtt!Qos /\ MqttWants[MqttHandlers[i]].qos \in Mqtt!Qos
  <2>1. r \in MqttRows /\ mSubs[j] \in MqttRows
    BY MqttNarrowFrom DEF MqttList
  <2> QED BY <2>1 DEF MqttRows, Mqtt!ClientAssumption
<1> QED BY <1>1, <1>2, <1>3 DEF Mqtt!Qos

LEMMA MqttNarrowOnce ==
  ASSUME Mqtt!ClientAssumption, MqttList, MqttAsked, \A i \in DOMAIN MqttHandlers : MqttHandlers[i] \in mRegistered
  PROVE  MqttOnceIn(MqttNarrow(mSubs))
<1> SUFFICES ASSUME NEW n \in DOMAIN MqttStream, NEW r \in MqttNarrow(mSubs), NEW s \in MqttNarrow(mSubs),
                    Mqtt!Matches(r.filter, MqttStream[n]), Mqtt!Matches(s.filter, MqttStream[n])
             PROVE  r = s
  BY DEF MqttOnceIn
<1> DEFINE those == {f \in Mqtt!Every : Mqtt!Matches(f, MqttStream[n])}
           row(j) == [filter |-> mSubs[j].filter, qos |-> Mqtt!Max(MqttTakes(mSubs, j))]
<1>1. mSubs \in Seq(MqttRows) /\ MqttApart(mSubs) /\ \A j \in DOMAIN mSubs : mSubs[j].filter \in Mqtt!Every
  BY DEF MqttList, MqttAsked
<1>2. Mqtt!ComesOnce(MqttStream[n])
  BY MqttStreamTopics
<1>3. ASSUME NEW q \in MqttNarrow(mSubs), Mqtt!Matches(q.filter, MqttStream[n])
      PROVE  \E a \in DOMAIN mSubs : \E i \in DOMAIN mSubs :
               a = MqttGoes(mSubs, i) /\ q = row(a) /\ mSubs[a].filter \in those
  <2>1. PICK i \in DOMAIN mSubs : q = row(MqttGoes(mSubs, i))
    BY DEF MqttNarrow
  <2>2. PICK a \in DOMAIN mSubs : a = MqttGoes(mSubs, i)
    BY <1>1, MqttGoesTo
  <2> QED BY <2>1, <2>2, <1>1, <1>3
<1>4. PICK f \in those : \A g \in those \ {f} : Mqtt!Covers(f, g) /\ \A h \in Mqtt!Every \ {g} : ~ Mqtt!Covers(g, h)
  <2>1. those # {}
    BY <1>3
  <2> QED BY <2>1, <1>2 DEF Mqtt!ComesOnce
<1>5. PICK j \in DOMAIN mSubs : mSubs[j].filter = f
  <2>1. \A c \in MqttCallers : f # Mqtt!ReplyTopic(MqttPattern[c])
    BY MqttAnswersAlone
  <2>2. PICK i \in DOMAIN MqttHandlers : f = MqttWants[MqttHandlers[i]].filter
    BY <2>1 DEF Mqtt!Every
  <2> QED BY <2>2 DEF MqttAsked
<1>6. ASSUME NEW a \in DOMAIN mSubs, NEW i \in DOMAIN mSubs, a = MqttGoes(mSubs, i), mSubs[a].filter \in those
      PROVE  mSubs[a].filter = f
  <2>1. ASSUME mSubs[a].filter # f PROVE FALSE
    <3>1. Mqtt!Covers(f, mSubs[a].filter) /\ \A h \in Mqtt!Every \ {mSubs[a].filter} : ~ Mqtt!Covers(mSubs[a].filter, h)
      BY <2>1, <1>4, <1>6
    <3>2. j \in MqttWider(mSubs, a)
      BY <2>1, <3>1, <1>5 DEF MqttWider
    <3>3. i # a
      <4>1. Mqtt!Min(MqttWider(mSubs, a)) \in MqttWider(mSubs, a)
        <5>1. MqttWider(mSubs, a) \subseteq 1 .. Len(mSubs) /\ Len(mSubs) \in Nat
          BY <1>1 DEF MqttWider
        <5>2. MqttWider(mSubs, a) # {}
          BY <3>2
        <5> QED BY <5>1, <5>2, MqttMinOfPlaces
      <4>2. MqttGoes(mSubs, a) \in MqttWider(mSubs, a)
        BY <3>2, <4>1 DEF MqttGoes
      <4> QED BY <4>2, <1>6 DEF MqttWider
    <3>4. Mqtt!Covers(mSubs[a].filter, mSubs[i].filter)
      BY <1>1, <1>6, MqttGoesTo
    <3>5. mSubs[i].filter # mSubs[a].filter
      BY <3>3, <1>1 DEF MqttApart
    <3> QED BY <3>1, <3>4, <3>5, <1>1
  <2> QED BY <2>1
<1>7. PICK a \in DOMAIN mSubs : r = row(a) /\ mSubs[a].filter = f
  BY <1>3, <1>6
<1>8. PICK b \in DOMAIN mSubs : s = row(b) /\ mSubs[b].filter = f
  BY <1>3, <1>6
<1>9. a = b
  BY <1>7, <1>8, <1>1 DEF MqttApart
<1> QED BY <1>7, <1>8, <1>9

LEMMA MqttConnectKeeps == ASSUME Mqtt!ClientAssumption, MqttInv, Mqtt!Connect PROVE MqttInv'
<1>1. /\ ~ MqttHolds /\ mLoop' = "subscribe" /\ mSession' = mSession + 1 /\ mClient' = mSession' /\ mWire' = TRUE
      /\ mTodo' = MqttNarrow(mSubs) /\ mServed' = {} /\ mPhase = "open" /\ ~ mConnected
      /\ UNCHANGED << mSubs, mPhase, mRegistered, mLosses, mConnected, mStatus,
                      mInbox, mWork, mSent, mHandled, Mqtt!book, mRequests >>
  BY MqttNarrowIs DEF Mqtt!Connect, MqttInv, MqttLinked, MqttHolds
<1>2. mSession \in Nat /\ MqttList
  BY DEF MqttInv, MqttKinds
<1>3. \A i \in DOMAIN MqttHandlers : MqttHandlers[i] \in mRegistered
  BY <1>1 DEF MqttInv, MqttLinked
<1>4. MqttKinds'
  <2>1. MqttNarrow(mSubs) \in SUBSET MqttRows /\ IsFiniteSet(MqttNarrow(mSubs)) /\ IsFiniteSet({})
    BY <1>2, MqttNarrowFrom, MqttNarrowIsFinite, FS_EmptySet DEF MqttList
  <2>2. mSession' \in Nat
    BY <1>1, <1>2
  <2>3. /\ mTodo' \in SUBSET MqttRows /\ IsFiniteSet(mTodo') /\ mServed' \in SUBSET MqttRows /\ IsFiniteSet(mServed')
    BY <2>1, <1>1
  <2> QED BY <1>1, <2>2, <2>3 DEF MqttInv, MqttKinds, MqttList, Mqtt!book
<1>5. MqttLinked'
  BY <1>1, <1>2 DEF MqttInv, MqttLinked, MqttHolds
<1>6. MqttAsked'
  BY <1>1 DEF MqttInv, MqttAsked
<1>7. MqttBack'
  <2>1. mTodo' \cup mServed' = MqttNarrow(mSubs)
    BY <1>1
  <2>2. MqttBackIn(MqttNarrow(mSubs)) /\ MqttOnceIn(MqttNarrow(mSubs))
    BY <1>2, <1>3, MqttNarrowBack, MqttNarrowOnce DEF MqttInv
  <2>3. MqttBackIn(mTodo' \cup mServed') /\ MqttOnceIn(mTodo' \cup mServed')
    BY <2>1, <2>2
  <2> QED BY <1>1, <2>3 DEF MqttBack, MqttBackIn, MqttOnceIn
<1>8. MqttCalled'
  BY <1>1 DEF MqttInv, MqttCalled, MqttCall, MqttListened, MqttAwaited, MqttCounted, MqttOwnEnds, Mqtt!book
<1>9. MqttOrder' /\ MqttHeard' /\ MqttAll'
  BY <1>1 DEF MqttInv, MqttOrder, MqttTold, MqttHeard, MqttAll, MqttHeardBy
<1> QED BY <1>4, <1>5, <1>6, <1>7, <1>8, <1>9 DEF MqttInv

LEMMA MqttSubscribeNextKeeps == ASSUME MqttInv, Mqtt!SubscribeNext PROVE MqttInv'
<1>1. PICK r \in mTodo : mTodo' = mTodo \ {r} /\ mServed' = mServed \cup {r}
  BY DEF Mqtt!SubscribeNext
<1>2. /\ mLoop = "subscribe" /\ mWire
      /\ UNCHANGED << mSubs, mPhase, mRegistered, mLoop, mSession, mClient, mWire, mLosses, mConnected, mStatus,
                      mInbox, mWork, mSent, mHandled, Mqtt!book, mRequests >>
  BY DEF Mqtt!SubscribeNext
<1>3. MqttKinds'
  <2>1. IsFiniteSet(mTodo \ {r}) /\ IsFiniteSet(mServed \cup {r})
    BY FS_RemoveElement, FS_AddElement DEF MqttInv, MqttKinds
  <2>2. IsFiniteSet(mTodo') /\ IsFiniteSet(mServed') /\ mTodo' \in SUBSET MqttRows /\ mServed' \in SUBSET MqttRows
    BY <2>1, <1>1 DEF MqttInv, MqttKinds
  <2> QED BY <2>2, <1>2 DEF MqttInv, MqttKinds, MqttList, Mqtt!book
<1>4. MqttLinked' /\ MqttAsked'
  BY <1>2 DEF MqttInv, MqttLinked, MqttAsked, MqttHolds
<1>5. MqttBack'
  <2>1. mTodo' \cup mServed' = mTodo \cup mServed
    BY <1>1
  <2>2. MqttBackIn(mTodo \cup mServed) /\ MqttOnceIn(mTodo \cup mServed)
    BY <1>2 DEF MqttInv, MqttBack
  <2>3. MqttBackIn(mTodo' \cup mServed') /\ MqttOnceIn(mTodo' \cup mServed')
    BY <2>1, <2>2
  <2> QED BY <1>2, <2>3 DEF MqttBack, MqttBackIn, MqttOnceIn
<1>6. MqttCalled'
  BY <1>1, <1>2, MqttCallsSame DEF MqttInv, MqttHolds, Mqtt!book
<1>7. MqttOrder' /\ MqttHeard' /\ MqttAll'
  BY <1>2 DEF MqttInv, MqttOrder, MqttTold, MqttHeard, MqttAll, MqttHeardBy
<1> QED BY <1>3, <1>4, <1>5, <1>6, <1>7 DEF MqttInv

LEMMA MqttSubscribedKeeps == ASSUME MqttInv, Mqtt!Subscribed PROVE MqttInv'
<1>1. /\ mLoop = "subscribe" /\ mWire /\ mTodo = {} /\ mLoop' = "read" /\ mConnected' = TRUE /\ mStatus' = "up"
      /\ UNCHANGED << mSubs, mPhase, mRegistered, mSession, mClient, mWire, mLosses, mTodo,
                      mServed, mInbox, mWork, mSent, mHandled, Mqtt!book, mRequests >>
  BY DEF Mqtt!Subscribed
<1>2. MqttKinds' /\ MqttAsked'
  BY <1>1 DEF MqttInv, MqttKinds, MqttList, MqttAsked, Mqtt!book
<1>3. MqttLinked'
  BY <1>1 DEF MqttInv, MqttLinked, MqttHolds
<1>4. MqttBack'
  BY <1>1 DEF MqttInv, MqttBack, MqttBackIn, MqttOnceIn
<1>5. MqttCalled'
  BY <1>1, MqttCallsSame DEF MqttInv, MqttHolds, Mqtt!book
<1>6. MqttOrder' /\ MqttHeard' /\ MqttAll'
  BY <1>1 DEF MqttInv, MqttOrder, MqttTold, MqttHeard, MqttAll, MqttHeardBy
<1> QED BY <1>2, <1>3, <1>4, <1>5, <1>6 DEF MqttInv

LEMMA MqttBreakKeeps == ASSUME MqttInv, Mqtt!Break PROVE MqttInv'
<1>1. /\ mWire /\ mWire' = FALSE /\ mServed' = {}
      /\ UNCHANGED << mSubs, mPhase, mRegistered, mLoop, mSession, mClient, mTodo, mConnected, mStatus,
                      mInbox, mWork, mSent, mHandled, Mqtt!book, mRequests >>
  BY DEF Mqtt!Break
<1>2. MqttKinds' /\ MqttAsked'
  <2>1. IsFiniteSet(mServed') /\ mServed' \in SUBSET MqttRows
    BY <1>1, FS_EmptySet
  <2> QED BY <2>1, <1>1 DEF MqttInv, MqttKinds, MqttList, MqttAsked, Mqtt!book
<1>3. MqttLinked' /\ MqttBack'
  BY <1>1 DEF MqttInv, MqttLinked, MqttHolds, MqttBack
<1>5. MqttCalled'
  BY <1>1, MqttCallsSame DEF MqttInv, MqttHolds, Mqtt!book
<1>6. MqttOrder' /\ MqttHeard' /\ MqttAll'
  BY <1>1 DEF MqttInv, MqttOrder, MqttTold, MqttHeard, MqttAll, MqttHeardBy
<1> QED BY <1>2, <1>3, <1>5, <1>6 DEF MqttInv

-----------------------------------------------------------------------------
(* How calls end.                                                          *)
MqttOutcomes == MqttWays \cup (MqttCallers \X Nat)

LEMMA MqttWaysAlone == \A w \in MqttWays : w \notin MqttCallers \X Nat
BY DEF MqttWays

LEMMA MqttOutcomeGrows ==
  ASSUME NEW c, NEW o \in Seq(MqttOutcomes), NEW w \in MqttOutcomes, MqttOwnEnds(o, c),
         w \in MqttCallers \X Nat => w = << c, Len(o) + 1 >>
  PROVE  /\ Append(o, w) \in Seq(MqttOutcomes) /\ Len(Append(o, w)) = Len(o) + 1 /\ MqttOwnEnds(Append(o, w), c)
<1>1. Append(o, w) \in Seq(MqttOutcomes) /\ Len(Append(o, w)) = Len(o) + 1 /\ Len(o) \in Nat
  OBVIOUS
<1>2. ASSUME NEW n \in DOMAIN Append(o, w), Append(o, w)[n] \in MqttCallers \X Nat
      PROVE  Append(o, w)[n] = << c, n >>
  <2>1. CASE n = Len(o) + 1
    <3>1. Append(o, w)[n] = w
      BY <2>1
    <3> QED BY <3>1, <2>1, <1>2
  <2>2. CASE n # Len(o) + 1
    <3>1. n \in DOMAIN o /\ Append(o, w)[n] = o[n]
      BY <2>2, <1>1
    <3> QED BY <3>1, <1>2 DEF MqttOwnEnds
  <2> QED BY <2>1, <2>2
<1> QED BY <1>1, <1>2 DEF MqttOwnEnds

LEMMA MqttCallerKinds ==
  ASSUME MqttKinds, NEW c \in MqttCallers
  PROVE  mCaller[c] \in MqttCalls /\ mCaller[c].outcome \in Seq(MqttOutcomes) /\ Len(mCaller[c].outcome) \in Nat /\ mCaller[c].calls \in Nat
BY DEF MqttKinds, MqttCalls, MqttOutcomes

(* One caller takes a step.                                                *)
LEMMA MqttCallerMoves ==
  ASSUME MqttKinds, MqttCalled, NEW c \in MqttCallers, NEW u \in MqttCalls, mCaller' = [mCaller EXCEPT ![c] = u],
         mSession' = mSession, MqttHolds => MqttHolds', mWire' => mWire /\ mServed \subseteq mServed',
         u.open => /\ u.with = mSession /\ MqttHolds' /\ u.at \in {"publish", "wait"}
                   /\ mWire' => \E r \in mServed' : Mqtt!Matches(r.filter, Mqtt!ReplyTopic(MqttPattern[c])),
         u.calls <= TaskCalls, u.calls = Len(u.outcome) + IF u.open \/ u.at = "listen" THEN 1 ELSE 0,
         MqttOwnEnds(u.outcome, c)
  PROVE  mCaller' \in [MqttCallers -> MqttCalls] /\ MqttCalled'
<1>1. mCaller \in [MqttCallers -> MqttCalls]
  BY DEF MqttKinds
<1>2. mCaller'[c] = u /\ \A d \in MqttCallers \ {c} : mCaller'[d] = mCaller[d]
  BY <1>1
<1>3. mCaller' \in [MqttCallers -> MqttCalls]
  BY <1>1
<1>4. MqttCall(c)'
  BY <1>2 DEF MqttCall, MqttListened, MqttCounted, MqttAwaited, MqttOwnEnds
<1>5. ASSUME NEW d \in MqttCallers \ {c} PROVE MqttCall(d)'
  <2>1. MqttCall(d)
    BY DEF MqttCalled
  <2> QED BY <2>1, <1>2 DEF MqttCall, MqttListened, MqttCounted, MqttAwaited, MqttOwnEnds
<1> QED BY <1>3, <1>4, <1>5 DEF MqttCalled

LEMMA MqttFailAllKeeps ==
  ASSUME MqttKinds, MqttCalled, Mqtt!FailAll
  PROVE  mCaller' \in [MqttCallers -> MqttCalls] /\ MqttCalled' /\ \A c \in MqttCallers : ~ mCaller'[c].open
<1>1. ASSUME NEW c \in MqttCallers
      PROVE  mCaller'[c] \in MqttCalls /\ MqttCall(c)' /\ ~ mCaller'[c].open
  <2>1. MqttCall(c)
    BY DEF MqttCalled
  <2>2. CASE mCaller[c].open
    <3>1. PICK o \in Seq(MqttOutcomes) : o = mCaller[c].outcome /\ Len(o) \in Nat /\ MqttOwnEnds(o, c)
      BY <2>1, MqttCallerKinds DEF MqttCall
    <3>2. PICK p \in Seq(MqttOutcomes) : p = Append(o, << "lost" >>) /\ Len(p) = Len(o) + 1 /\ MqttOwnEnds(p, c)
      <4>1. << "lost" >> \in MqttOutcomes /\ << "lost" >> \notin MqttCallers \X Nat
        BY MqttWaysAlone DEF MqttOutcomes, MqttWays
      <4> QED BY <4>1, <3>1, MqttOutcomeGrows
    <3>3. mCaller'[c] = [mCaller[c] EXCEPT !.open = FALSE, !.outcome = p]
      BY <2>2, <3>1, <3>2 DEF Mqtt!FailAll
    <3>4. mCaller[c].at \in {"publish", "wait"}
      BY <2>1, <2>2 DEF MqttCall, MqttListened
    <3>5. mCaller[c] \in MqttCalls
      BY MqttCallerKinds
    <3>6. /\ mCaller'[c] \in MqttCalls /\ ~ mCaller'[c].open /\ mCaller'[c].outcome = p
          /\ mCaller'[c].at = mCaller[c].at /\ mCaller'[c].calls = mCaller[c].calls
      BY <3>3, <3>5 DEF MqttCalls, MqttOutcomes
    <3>7. MqttCounted(c)'
      <4>1. MqttCounted(c) /\ MqttAwaited(c) = 1
        BY <2>1, <2>2 DEF MqttCall, MqttAwaited
      <4>2. MqttAwaited(c)' = 0
        BY <3>4, <3>6 DEF MqttAwaited
      <4> QED BY <4>1, <4>2, <3>1, <3>2, <3>6 DEF MqttCounted
    <3> QED BY <3>2, <3>6, <3>7 DEF MqttCall, MqttListened, MqttOwnEnds
  <2>3. CASE ~ mCaller[c].open
    <3>1. mCaller'[c] = mCaller[c] /\ mCaller[c] \in MqttCalls
      BY <2>3, MqttCallerKinds DEF Mqtt!FailAll
    <3> QED BY <3>1, <2>1, <2>3 DEF MqttCall, MqttListened, MqttCounted, MqttAwaited, MqttOwnEnds
  <2> QED BY <2>2, <2>3
<1>2. mCaller' \in [MqttCallers -> MqttCalls]
  <2>1. mCaller' = [c \in MqttCallers |-> mCaller'[c]]
    BY DEF Mqtt!FailAll
  <2> QED BY <2>1, <1>1
<1> QED BY <1>1, <1>2 DEF MqttCalled

LEMMA MqttLostKeeps == ASSUME MqttInv, Mqtt!Lost PROVE MqttInv'
<1>1. /\ MqttHolds /\ ~ mWire /\ mWork = NULL /\ mLoop' = "sleep" /\ mClient' = 0 /\ mConnected' = FALSE
      /\ mStatus' = "down" /\ mInbox' = << >> /\ Mqtt!FailAll
      /\ UNCHANGED << mSubs, mPhase, mRegistered, mSession, mWire, mLosses, mTodo,
                      mServed, mWork, mSent, mHandled, mReplyTopics, mRequests >>
  BY DEF Mqtt!Lost, MqttHolds
<1>2. mCaller' \in [MqttCallers -> MqttCalls] /\ MqttCalled'
  BY <1>1, MqttFailAllKeeps DEF MqttInv
<1>3. MqttKinds' /\ MqttAsked'
  <2>1. mInbox' \in Seq(Mqtt!Messages)
    BY <1>1
  <2> QED BY <2>1, <1>1, <1>2 DEF MqttInv, MqttKinds, MqttList, MqttAsked
<1>4. MqttLinked' /\ MqttBack'
  BY <1>1 DEF MqttInv, MqttLinked, MqttHolds, MqttBack
<1>5. MqttOrder'
  BY <1>1 DEF MqttOrder
<1>6. MqttHeard'
  BY <1>1 DEF MqttInv, MqttHeard
<1>7. MqttAll'
  BY <1>1 DEF MqttInv, MqttAll, MqttHeardBy
<1> QED BY <1>2, <1>3, <1>4, <1>5, <1>6, <1>7 DEF MqttInv

LEMMA MqttShutdownKeeps == ASSUME MqttInv, Mqtt!Shutdown PROVE MqttInv'
<1>1. /\ mPhase' = "closed" /\ mLoop' = "off" /\ mClient' = 0 /\ mWire' = FALSE /\ mConnected' = FALSE
      /\ mStatus' = "down" /\ mServed' = {} /\ mInbox' = << >> /\ mWork' = NULL
      /\ IF mLoop \in {"subscribe", "read"} THEN Mqtt!FailAll ELSE UNCHANGED mCaller
      /\ UNCHANGED << mSubs, mRegistered, mSession, mLosses, mTodo, mSent, mHandled, mReplyTopics, mRequests >>
  BY DEF Mqtt!Shutdown
<1>2. mCaller' \in [MqttCallers -> MqttCalls] /\ MqttCalled'
  <2>1. CASE MqttHolds
    BY <2>1, <1>1, MqttFailAllKeeps DEF MqttInv, MqttHolds
  <2>2. CASE ~ MqttHolds
    <3>1. UNCHANGED mCaller
      BY <2>2, <1>1 DEF MqttHolds
    <3> QED BY <3>1, <2>2, <1>1, MqttCallsSame DEF MqttInv, MqttKinds
  <2> QED BY <2>1, <2>2
<1>3. MqttKinds' /\ MqttAsked'
  <2>1. mInbox' \in Seq(Mqtt!Messages) /\ IsFiniteSet(mServed') /\ mServed' \in SUBSET MqttRows
    BY <1>1, FS_EmptySet
  <2> QED BY <2>1, <1>1, <1>2 DEF MqttInv, MqttKinds, MqttList, MqttAsked
<1>4. MqttLinked' /\ MqttBack'
  BY <1>1 DEF MqttInv, MqttLinked, MqttHolds, MqttBack
<1>5. MqttOrder'
  BY <1>1 DEF MqttOrder
<1>6. MqttHeard'
  BY <1>1 DEF MqttInv, MqttHeard
<1>7. MqttAll'
  BY <1>1 DEF MqttAll
<1> QED BY <1>2, <1>3, <1>4, <1>5, <1>6, <1>7 DEF MqttInv

-----------------------------------------------------------------------------
(* What arrives.                                                           *)
LEMMA MqttPublishKeeps == ASSUME Mqtt!ClientAssumption, MqttInv, Mqtt!Publish PROVE MqttInv'
<1>1. /\ mSent \in Nat /\ Len(MqttStream) \in Nat /\ mSent < Len(MqttStream) /\ mSent' = mSent + 1
      /\ UNCHANGED << mSubs, Mqtt!link, mServed, mWork, mHandled, Mqtt!book, mRequests >>
  BY DEF Mqtt!Publish, MqttInv, MqttKinds, Mqtt!ClientAssumption
<1>2. mSent + 1 \in 1 .. Len(MqttStream) /\ mSent + 1 \in DOMAIN MqttStream /\ mSent' \in 0 .. Len(MqttStream)
  <2>1. mSent + 1 \in 1 .. Len(MqttStream)
    BY <1>1, MqttNextIn
  <2> QED BY <2>1, <1>1 DEF Mqtt!ClientAssumption
<1>3. PICK m \in Mqtt!Messages : /\ m.topic = MqttStream[mSent + 1] /\ m.number = mSent + 1 /\ Mqtt!Deliver(m)
  <2>1. [topic |-> MqttStream[mSent + 1], number |-> mSent + 1, call |-> NULL] \in Mqtt!Messages
    BY <1>1, <1>2, MqttStreamTopics DEF Mqtt!Messages
  <2>2. Mqtt!Deliver([topic |-> MqttStream[mSent + 1], number |-> mSent + 1, call |-> NULL])
    BY <1>1 DEF Mqtt!Publish
  <2> QED BY <2>1, <2>2
<1>4. \A r, s \in mServed : Mqtt!Matches(r.filter, m.topic) /\ Mqtt!Matches(s.filter, m.topic) => r = s
  <2>1. CASE mWire
    BY <2>1, <1>2, <1>3 DEF MqttInv, MqttBack, MqttOnceIn
  <2>2. CASE ~ mWire
    BY <2>2 DEF MqttInv, MqttLinked
  <2> QED BY <2>1, <2>2
<1>5. PICK n \in 0 .. 1 :
        /\ mInbox' \in Seq(Mqtt!Messages) /\ Len(mInbox') = Len(mInbox) + n
        /\ \A k \in 1 .. Len(mInbox) : mInbox'[k] = mInbox[k]
        /\ \A k \in 1 .. Len(mInbox') : k > Len(mInbox) => mInbox'[k] = m
  <2>1. PICK n \in Nat :
           /\ mInbox' \in Seq(Mqtt!Messages) /\ Len(mInbox') = Len(mInbox) + n
           /\ \A k \in 1 .. Len(mInbox) : mInbox'[k] = mInbox[k]
           /\ \A k \in 1 .. Len(mInbox') : k > Len(mInbox) => mInbox'[k] = m
           /\ n <= 1
    BY <1>3, <1>4, MqttDeliverAdds DEF MqttInv
  <2>2. n \in 0 .. 1
    BY <2>1
  <2> HIDE DEF Mqtt!Messages
  <2> QED BY <2>1, <2>2
<1>6. /\ mInbox \in Seq(Mqtt!Messages) /\ Len(mInbox) \in Nat /\ DOMAIN mInbox = 1 .. Len(mInbox)
      /\ DOMAIN mInbox' = 1 .. Len(mInbox')
  BY <1>5 DEF MqttInv, MqttKinds
<1>7. ASSUME NEW k \in DOMAIN mInbox'
      PROVE  \/ k \in DOMAIN mInbox /\ mInbox'[k] = mInbox[k] /\ MqttTold(mInbox[k]) /\ mInbox[k].number \in Nat
             \/ k = Len(mInbox) + 1 /\ mInbox'[k] = m
  <2>1. CASE k > Len(mInbox)
    BY <2>1, <1>5, <1>6
  <2>2. CASE ~ k > Len(mInbox)
    <3>1. k \in 1 .. Len(mInbox)
      BY <2>2, <1>6
    <3>2. mInbox[k] \in Mqtt!Messages
      <4> HIDE DEF Mqtt!Messages
      <4> QED BY <3>1, <1>6
    <3> QED BY <3>1, <3>2, <1>5, <1>6 DEF Mqtt!Messages, MqttInv, MqttOrder
  <2> QED BY <2>1, <2>2
<1>8. \A k \in DOMAIN mInbox : mInbox[k].number <= mSent
  <2>1. \A k \in DOMAIN mInbox : MqttTold(mInbox[k]) /\ 0 <= mSent
    BY <1>1 DEF MqttInv, MqttOrder
  <2> QED BY <2>1 DEF MqttTold
<1>9. MqttOrder'
  <2>1. ASSUME NEW k \in DOMAIN mInbox', mInbox'[k].number # 0
        PROVE  mInbox'[k].number <= mSent' /\ mInbox'[k].topic = MqttStream[mInbox'[k].number]
    <3>1. CASE k \in DOMAIN mInbox /\ mInbox'[k] = mInbox[k] /\ MqttTold(mInbox[k]) /\ mInbox[k].number \in Nat
      BY <3>1, <2>1, <1>1 DEF MqttTold
    <3>2. CASE k = Len(mInbox) + 1 /\ mInbox'[k] = m
      BY <3>2, <1>1, <1>3
    <3> QED BY <3>1, <3>2, <1>7
  <2>2. ASSUME NEW j \in DOMAIN mInbox', NEW k \in DOMAIN mInbox', j < k, mInbox'[j].number # 0, mInbox'[k].number # 0
        PROVE  mInbox'[j].number < mInbox'[k].number
    <3>1. CASE k \in DOMAIN mInbox /\ mInbox'[k] = mInbox[k]
      <4>1. j # Len(mInbox) + 1
        BY <3>1, <2>2, <1>6
      <4>2. j \in DOMAIN mInbox /\ mInbox'[j] = mInbox[j]
        BY <4>1, <1>7
      <4> QED BY <4>2, <3>1, <2>2 DEF MqttInv, MqttOrder
    <3>2. CASE k = Len(mInbox) + 1 /\ mInbox'[k] = m
      <4>1. j # Len(mInbox) + 1
        BY <3>2, <2>2, <1>6
      <4>2. j \in DOMAIN mInbox /\ mInbox'[j] = mInbox[j] /\ mInbox[j].number \in Nat
        BY <4>1, <1>7
      <4> QED BY <4>2, <3>2, <1>1, <1>3, <1>8
    <3> QED BY <3>1, <3>2, <1>7
  <2>3. ASSUME mWork # NULL
        PROVE  /\ MqttTold(mWork.msg)'
               /\ \A k \in DOMAIN mInbox' : mInbox'[k].number # 0 => mWork.msg.number < mInbox'[k].number
    <3>1. mWork.msg.number \in Nat /\ MqttTold(mWork.msg)
      BY <2>3 DEF MqttInv, MqttKinds, Mqtt!Works, Mqtt!Messages, MqttOrder
    <3>2. mWork.msg.number <= mSent
      BY <3>1, <1>1 DEF MqttTold
    <3>3. MqttTold(mWork.msg)'
      BY <3>1, <1>1 DEF MqttTold
    <3>4. ASSUME NEW k \in DOMAIN mInbox', mInbox'[k].number # 0 PROVE mWork.msg.number < mInbox'[k].number
      <4>1. CASE k \in DOMAIN mInbox /\ mInbox'[k] = mInbox[k]
        BY <4>1, <3>4, <2>3 DEF MqttInv, MqttOrder
      <4>2. CASE k = Len(mInbox) + 1 /\ mInbox'[k] = m
        BY <4>2, <3>1, <3>2, <1>1, <1>3
      <4> QED BY <4>1, <4>2, <1>7
    <3> QED BY <3>3, <3>4
  <2> QED BY <2>1, <2>2, <2>3, <1>1 DEF MqttOrder, MqttTold
<1>10. MqttHeard'
  <2>1. ASSUME NEW i \in DOMAIN MqttHandlers, NEW j \in DOMAIN mHandled[i]
        PROVE  /\ mHandled[i][j] \in 1 .. mSent'
               /\ \A k \in DOMAIN mInbox' : mInbox'[k].number # 0 => mHandled[i][j] < mInbox'[k].number
    <3>1. mHandled[i][j] \in 1 .. mSent
      BY DEF MqttInv, MqttHeard
    <3>2. mHandled[i][j] \in 1 .. mSent'
      BY <3>1, <1>1
    <3>3. ASSUME NEW k \in DOMAIN mInbox', mInbox'[k].number # 0 PROVE mHandled[i][j] < mInbox'[k].number
      <4>1. CASE k \in DOMAIN mInbox /\ mInbox'[k] = mInbox[k]
        BY <4>1, <3>3 DEF MqttInv, MqttHeard
      <4>2. CASE k = Len(mInbox) + 1 /\ mInbox'[k] = m
        BY <4>2, <3>1, <1>1, <1>3
      <4> QED BY <4>1, <4>2, <1>7
    <3> QED BY <3>2, <3>3
  <2> QED BY <2>1, <1>1 DEF MqttInv, MqttHeard
<1>11. MqttKinds'
  <2> HIDE DEF Mqtt!Messages
  <2> QED BY <1>1, <1>2, <1>5 DEF MqttInv, MqttKinds, MqttList, Mqtt!link, Mqtt!book
<1>12. MqttLinked' /\ MqttAsked' /\ MqttBack'
  BY <1>1 DEF MqttInv, MqttLinked, MqttAsked, MqttBack, MqttHolds, Mqtt!link, MqttBackIn, MqttOnceIn
<1>13. MqttCalled'
  BY <1>1, MqttCallsSame DEF MqttInv, MqttHolds, Mqtt!link, Mqtt!book
<1>14. MqttAll'
  BY <1>1 DEF MqttInv, MqttAll, MqttHeardBy, Mqtt!link
<1> QED BY <1>9, <1>10, <1>11, <1>12, <1>13, <1>14 DEF MqttInv

LEMMA MqttAnswerKeeps == ASSUME Mqtt!ClientAssumption, MqttInv, NEW c \in MqttCallers, Mqtt!Answer(c) PROVE MqttInv'
<1>1. UNCHANGED << mSubs, Mqtt!link, mServed, mWork, mSent, mHandled, Mqtt!book >>
  BY DEF Mqtt!Answer
<1>2. PICK m \in Mqtt!Messages : m.number = 0 /\ Mqtt!Deliver(m)
  <2>1. PICK p \in Seq(STRING) : p = MqttPattern[c]
    BY DEF Mqtt!ClientAssumption
  <2>2. PICK k \in Nat : k = mCaller[c].calls
    BY MqttCallerKinds DEF MqttInv
  <2>3. [topic |-> Mqtt!ReplyTopic(p), number |-> 0, call |-> << c, k >>] \in Mqtt!Messages
    BY MqttReplyTopics DEF Mqtt!Messages
  <2>4. Mqtt!Deliver([topic |-> Mqtt!ReplyTopic(p), number |-> 0, call |-> << c, k >>])
    BY <2>1, <2>2 DEF Mqtt!Answer
  <2> QED BY <2>3, <2>4
<1>3. MqttHushed /\ mInbox' \in Seq(Mqtt!Messages)
  BY <1>2, MqttHushedDelivery DEF MqttInv
<1>4. MqttKinds'
  <2> HIDE DEF Mqtt!Messages
  <2> QED BY <1>1, <1>3 DEF MqttInv, MqttKinds, MqttList, Mqtt!link, Mqtt!book
<1>5. MqttLinked' /\ MqttAsked' /\ MqttBack'
  BY <1>1 DEF MqttInv, MqttLinked, MqttAsked, MqttBack, MqttHolds, Mqtt!link, MqttBackIn, MqttOnceIn
<1>6. MqttCalled'
  BY <1>1, MqttCallsSame DEF MqttInv, MqttHolds, Mqtt!link, Mqtt!book
<1>7. MqttAll'
  BY <1>1 DEF MqttInv, MqttAll, MqttHeardBy, Mqtt!link
<1>8. MqttOrder' /\ MqttHeard'
  BY <1>1, <1>3, MqttHushedKeeps DEF MqttInv
<1> QED BY <1>4, <1>5, <1>6, <1>7, <1>8 DEF MqttInv

LEMMA MqttReadKeeps == ASSUME MqttInv, Mqtt!Read PROVE MqttInv'
<1>1. /\ mLoop = "read" /\ mWork = NULL /\ mInbox # << >> /\ mInbox \in Seq(Mqtt!Messages) /\ Len(mInbox) \in Nat \ {0}
      /\ mInbox' = Tail(mInbox)
      /\ UNCHANGED << mSubs, Mqtt!link, mServed, mSent, mHandled, Mqtt!book, mRequests >>
  BY DEF Mqtt!Read, MqttInv, MqttKinds
<1>2. PICK m \in Mqtt!Messages : m = Head(mInbox) /\ m = mInbox[1]
  <2> HIDE DEF Mqtt!Messages
  <2> QED BY <1>1
<1>3. PICK l \in SUBSET DOMAIN MqttHandlers : /\ mWork' = [msg |-> m, left |-> l]
                                              /\ l = {i \in DOMAIN MqttHandlers : Mqtt!Serves(MqttHandlers[i], m.topic)}
  <2>1. Mqtt!Known = DOMAIN MqttHandlers
    BY <1>1 DEF Mqtt!Known, MqttInv, MqttLinked
  <2> QED BY <2>1, <1>2 DEF Mqtt!Read
<1>4. mWork' \in Mqtt!Works /\ mWork'.msg = m /\ mWork'.left = l
  BY <1>3 DEF Mqtt!Works
<1>5. /\ mInbox' \in Seq(Mqtt!Messages) /\ Len(mInbox') = Len(mInbox) - 1
      /\ \A k \in DOMAIN mInbox' : k + 1 \in DOMAIN mInbox /\ 1 < k + 1 /\ mInbox'[k] = mInbox[k + 1]
  <2> HIDE DEF Mqtt!Messages
  <2> QED BY <1>1
<1>6. 1 \in DOMAIN mInbox /\ m.number \in Nat
  BY <1>1, <1>2 DEF Mqtt!Messages
<1>7. MqttKinds'
  <2> HIDE DEF Mqtt!Messages, Mqtt!Works
  <2> QED BY <1>1, <1>4, <1>5 DEF MqttInv, MqttKinds, MqttList, Mqtt!link, Mqtt!book
<1>8. MqttLinked' /\ MqttAsked' /\ MqttBack'
  BY <1>1 DEF MqttInv, MqttLinked, MqttAsked, MqttBack, MqttHolds, Mqtt!link, MqttBackIn, MqttOnceIn
<1>9. MqttCalled'
  BY <1>1, MqttCallsSame DEF MqttInv, MqttHolds, Mqtt!link, Mqtt!book
<1>10. MqttOrder'
  <2>1. \A k \in DOMAIN mInbox' : MqttTold(mInbox'[k])
    BY <1>5 DEF MqttInv, MqttOrder
  <2>2. ASSUME NEW j \in DOMAIN mInbox', NEW k \in DOMAIN mInbox', j < k, mInbox'[j].number # 0, mInbox'[k].number # 0
        PROVE  mInbox'[j].number < mInbox'[k].number
    <3>1. j + 1 < k + 1
      BY <2>2, <1>5
    <3> QED BY <3>1, <2>2, <1>5 DEF MqttInv, MqttOrder
  <2>3. MqttTold(m)
    BY <1>2, <1>6 DEF MqttInv, MqttOrder
  <2>4. ASSUME NEW k \in DOMAIN mInbox', mInbox'[k].number # 0 PROVE m.number < mInbox'[k].number
    <3>1. mInbox'[k] = mInbox[k + 1] /\ k + 1 \in DOMAIN mInbox /\ 1 < k + 1
      BY <1>5
    <3>2. CASE m.number # 0
      BY <3>1, <3>2, <2>4, <1>2, <1>6 DEF MqttInv, MqttOrder
    <3>3. CASE m.number = 0
      <4>1. mInbox[k + 1].number \in Nat
        <5>1. mInbox[k + 1] \in Mqtt!Messages
          <6> HIDE DEF Mqtt!Messages
          <6> QED BY <3>1, <1>1
        <5> QED BY <5>1 DEF Mqtt!Messages
      <4> QED BY <4>1, <3>1, <3>3, <2>4
    <3> QED BY <3>2, <3>3
  <2> QED BY <2>1, <2>2, <2>3, <2>4, <1>1, <1>4 DEF MqttOrder, MqttTold
<1>11. MqttHeard'
  <2>1. ASSUME NEW i \in DOMAIN MqttHandlers, NEW j \in DOMAIN mHandled[i]
        PROVE  /\ \A k \in DOMAIN mInbox' : mInbox'[k].number # 0 => mHandled[i][j] < mInbox'[k].number
               /\ m.number # 0 => mHandled[i][j] < m.number /\ mHandled[i][j] <= m.number
    <3>1. \A k \in DOMAIN mInbox' : mInbox'[k].number # 0 => mHandled[i][j] < mInbox'[k].number
      BY <1>5 DEF MqttInv, MqttHeard
    <3>2. mHandled[i][j] \in 1 .. mSent /\ mSent \in Nat
      BY DEF MqttInv, MqttHeard, MqttKinds
    <3>3. m.number # 0 => mHandled[i][j] < m.number
      BY <1>2, <1>6 DEF MqttInv, MqttHeard
    <3> QED BY <3>1, <3>2, <3>3, <1>6
  <2> QED BY <2>1, <1>1, <1>4 DEF MqttInv, MqttHeard
<1>12. MqttAll'
  <2>1. \A i \in DOMAIN MqttHandlers : i \in l <=> Mqtt!Serves(MqttHandlers[i], m.topic)
    BY <1>3
  <2> QED BY <2>1, <1>1, <1>4 DEF MqttInv, MqttAll, MqttHeardBy, Mqtt!link
<1> QED BY <1>7, <1>8, <1>9, <1>10, <1>11, <1>12 DEF MqttInv

-----------------------------------------------------------------------------
(* One handler after the other.                                            *)
LEMMA MqttHandleKeeps == ASSUME Mqtt!ClientAssumption, MqttInv, Mqtt!Handle PROVE MqttInv'
<1>1. /\ mWork # NULL /\ mWork \in Mqtt!Works /\ mWork.left # {} /\ mWork' = [mWork EXCEPT !.left = Mqtt!Rest]
      /\ UNCHANGED << mSubs, Mqtt!link, mServed, mSent, Mqtt!book, mRequests >>
  BY DEF Mqtt!Handle, MqttInv, MqttKinds
<1>2. PICK x \in DOMAIN MqttHandlers : x = Mqtt!Next1 /\ x \in mWork.left
  <2>1. DOMAIN MqttHandlers = 1 .. Len(MqttHandlers) /\ Len(MqttHandlers) \in Nat
    BY DEF Mqtt!ClientAssumption
  <2>2. mWork.left \in SUBSET (1 .. Len(MqttHandlers))
    BY <1>1, <2>1 DEF Mqtt!Works
  <2>3. Mqtt!Next1 \in mWork.left
    BY <1>1, <2>1, <2>2, MqttMinOfPlaces DEF Mqtt!Next1
  <2> QED BY <2>1, <2>2, <2>3
<1>3. PICK n \in Nat : n = mWork.msg.number
  BY <1>1 DEF Mqtt!Works, Mqtt!Messages
<1>4. /\ mWork'.msg = mWork.msg /\ mWork'.left = mWork.left \ {x} /\ mWork' \in Mqtt!Works
  <2>1. mWork.left \ {x} \in SUBSET DOMAIN MqttHandlers
    BY <1>1 DEF Mqtt!Works
  <2>2. mWork' = [mWork EXCEPT !.left = mWork.left \ {x}]
    BY <1>1, <1>2 DEF Mqtt!Rest
  <2> HIDE DEF Mqtt!Messages
  <2> QED BY <2>1, <2>2, <1>1 DEF Mqtt!Works
<1>5. mWork' # NULL
  BY <1>4 DEF Mqtt!ClientAssumption
<1>6. MqttHushed /\ mInbox' \in Seq(Mqtt!Messages)
  <2>1. CASE UNCHANGED mInbox
    BY <2>1 DEF MqttHushed, MqttInv, MqttKinds
  <2>2. CASE ~ UNCHANGED mInbox
    <3>1. /\ mWork.msg.call # NULL
          /\ Mqtt!Deliver([topic |-> Mqtt!ReplyTopic(mWork.msg.topic), number |-> 0, call |-> mWork.msg.call])
      BY <2>2 DEF Mqtt!Handle
    <3>2. PICK t \in Seq(STRING) : t = mWork.msg.topic
      BY <1>1 DEF Mqtt!Works, Mqtt!Messages
    <3>3. PICK m : m = [topic |-> Mqtt!ReplyTopic(t), number |-> 0, call |-> mWork.msg.call]
      OBVIOUS
    <3>4. m \in Mqtt!Messages /\ m.number = 0
      BY <3>2, <3>3, <1>1, MqttReplyTopics DEF Mqtt!Works, Mqtt!Messages
    <3>5. Mqtt!Deliver(m)
      BY <3>1, <3>2, <3>3
    <3> QED BY <3>4, <3>5, MqttHushedDelivery DEF MqttInv
  <2> QED BY <2>1, <2>2
<1>7. \/ n = 0 /\ mHandled' = mHandled
      \/ n # 0 /\ mHandled' = [mHandled EXCEPT ![x] = Append(mHandled[x], n)]
  BY <1>2, <1>3 DEF Mqtt!Handle
<1>8. mHandled \in [DOMAIN MqttHandlers -> Seq(Nat)]
  BY DEF MqttInv, MqttKinds
<1>9. /\ mHandled' \in [DOMAIN MqttHandlers -> Seq(Nat)]
      /\ \A i \in DOMAIN MqttHandlers \ {x} : mHandled'[i] = mHandled[i]
      /\ n = 0 => mHandled'[x] = mHandled[x]
      /\ n # 0 => /\ Len(mHandled'[x]) = Len(mHandled[x]) + 1 /\ mHandled'[x][Len(mHandled[x]) + 1] = n
                  /\ DOMAIN mHandled'[x] = DOMAIN mHandled[x] \cup {Len(mHandled[x]) + 1}
                  /\ \A j \in DOMAIN mHandled[x] : j <= Len(mHandled[x]) /\ mHandled'[x][j] = mHandled[x][j]
  <2>1. CASE n = 0
    BY <2>1, <1>7, <1>8
  <2>2. CASE n # 0
    <3>1. mHandled[x] \in Seq(Nat) /\ Len(mHandled[x]) \in Nat
      BY <1>8
    <3>2. PICK s \in Seq(Nat) : s = Append(mHandled[x], n)
      BY <3>1, MqttAppendsIn, Zenon
    <3>3. mHandled' = [mHandled EXCEPT ![x] = s]
      BY <2>2, <3>2, <1>7
    <3>4. /\ Len(s) = Len(mHandled[x]) + 1 /\ s[Len(mHandled[x]) + 1] = n
          /\ DOMAIN s = DOMAIN mHandled[x] \cup {Len(mHandled[x]) + 1}
          /\ \A j \in DOMAIN mHandled[x] : j <= Len(mHandled[x]) /\ s[j] = mHandled[x][j]
      BY <3>1, <3>2
    <3>5. mHandled'[x] = s
      BY <3>3, <1>8
    <3> QED BY <3>3, <3>4, <3>5, <2>2, <1>8
  <2> QED BY <2>1, <2>2
<1>10. \A i \in DOMAIN MqttHandlers : \A j \in DOMAIN mHandled[i] : j \in DOMAIN mHandled'[i] /\ mHandled'[i][j] = mHandled[i][j]
  BY <1>8, <1>9
<1>11. \A i \in DOMAIN MqttHandlers : \A j \in DOMAIN mHandled'[i] :
         \/ j \in DOMAIN mHandled[i] /\ mHandled'[i][j] = mHandled[i][j]
         \/ i = x /\ n # 0 /\ j = Len(mHandled[x]) + 1 /\ mHandled'[i][j] = n
  BY <1>8, <1>9
<1>12. \A y : \A i \in DOMAIN MqttHandlers : MqttHeardBy(i, y) => MqttHeardBy(i, y)'
  BY <1>10 DEF MqttHeardBy
<1>13. n # 0 => MqttHeardBy(x, n)'
  BY <1>9 DEF MqttHeardBy
<1>14. /\ n # 0 => n \in 1 .. mSent /\ mWork.msg.topic = MqttStream[n]
       /\ \A k \in DOMAIN mInbox : mInbox[k].number # 0 => n < mInbox[k].number
       /\ Mqtt!Serves(MqttHandlers[x], mWork.msg.topic)
  <2>1. MqttTold(mWork.msg) /\ mSent \in Nat
    BY <1>1 DEF MqttInv, MqttOrder, MqttKinds
  <2>2. n # 0 => n \in 1 .. mSent /\ mWork.msg.topic = MqttStream[n]
    BY <2>1, <1>3 DEF MqttTold
  <2> QED BY <2>2, <1>1, <1>2, <1>3 DEF MqttInv, MqttOrder, MqttAll
<1>15. MqttKinds'
  <2> HIDE DEF Mqtt!Messages, Mqtt!Works
  <2> QED BY <1>1, <1>4, <1>6, <1>9 DEF MqttInv, MqttKinds, MqttList, Mqtt!link, Mqtt!book
<1>16. MqttLinked' /\ MqttAsked' /\ MqttBack'
  BY <1>1 DEF MqttInv, MqttLinked, MqttAsked, MqttBack, MqttHolds, Mqtt!link, MqttBackIn, MqttOnceIn
<1>17. MqttCalled'
  BY <1>1, MqttCallsSame DEF MqttInv, MqttHolds, Mqtt!link, Mqtt!book
<1>18. MqttOrder'
  BY <1>1, <1>4, <1>6 DEF MqttInv, MqttOrder, MqttTold, MqttHushed
<1>19. ASSUME NEW i \in DOMAIN MqttHandlers, NEW j \in DOMAIN mHandled'[i]
       PROVE  /\ \A k \in DOMAIN mHandled'[i] : j < k => mHandled'[i][j] < mHandled'[i][k]
              /\ mHandled'[i][j] \in 1 .. mSent /\ Mqtt!Serves(MqttHandlers[i], MqttStream[mHandled'[i][j]])
              /\ \A k \in DOMAIN mInbox' : mInbox'[k].number # 0 => mHandled'[i][j] < mInbox'[k].number
              /\ n # 0 => IF i \in mWork'.left THEN mHandled'[i][j] < n ELSE mHandled'[i][j] <= n
  <2>1. CASE j \in DOMAIN mHandled[i] /\ mHandled'[i][j] = mHandled[i][j]
    <3>1. /\ mHandled[i][j] \in 1 .. mSent /\ Mqtt!Serves(MqttHandlers[i], MqttStream[mHandled[i][j]])
          /\ \A k \in DOMAIN mInbox : mInbox[k].number # 0 => mHandled[i][j] < mInbox[k].number
          /\ n # 0 => IF i \in mWork.left THEN mHandled[i][j] < n ELSE mHandled[i][j] <= n
      <4>1. /\ mHandled[i][j] \in 1 .. mSent /\ Mqtt!Serves(MqttHandlers[i], MqttStream[mHandled[i][j]])
            /\ \A k \in DOMAIN mInbox : mInbox[k].number # 0 => mHandled[i][j] < mInbox[k].number
        BY <2>1 DEF MqttInv, MqttHeard
      <4>2. n # 0 => IF i \in mWork.left THEN mHandled[i][j] < n ELSE mHandled[i][j] <= n
        BY <2>1, <1>1, <1>3 DEF MqttInv, MqttHeard
      <4> QED BY <4>1, <4>2
    <3>2. ASSUME NEW k \in DOMAIN mHandled'[i], j < k PROVE mHandled'[i][j] < mHandled'[i][k]
      <4>1. CASE k \in DOMAIN mHandled[i] /\ mHandled'[i][k] = mHandled[i][k]
        BY <4>1, <3>2, <2>1 DEF MqttInv, MqttHeard
      <4>2. CASE i = x /\ n # 0 /\ mHandled'[i][k] = n
        BY <4>2, <3>1, <2>1, <1>2
      <4> QED BY <4>1, <4>2, <1>11
    <3>3. mSent \in Nat
      BY DEF MqttInv, MqttKinds
    <3>4. n # 0 => IF i \in mWork'.left THEN mHandled[i][j] < n ELSE mHandled[i][j] <= n
      BY <3>1, <3>3, <1>3, <1>4
    <3> QED BY <3>1, <3>2, <3>4, <2>1, <1>6 DEF MqttHushed
  <2>2. CASE i = x /\ n # 0 /\ j = Len(mHandled[x]) + 1 /\ mHandled'[i][j] = n
    <3>1. ASSUME NEW k \in DOMAIN mHandled'[i], j < k PROVE FALSE
      <4>1. Len(mHandled[x]) \in Nat /\ k <= Len(mHandled[x]) + 1
        BY <2>2, <1>8, <1>9
      <4>2. k \in Nat
        BY <2>2, <1>9
      <4> QED BY <4>1, <4>2, <3>1, <2>2
    <3>2. Mqtt!Serves(MqttHandlers[i], MqttStream[n]) /\ n \in 1 .. mSent
      BY <2>2, <1>14
    <3>3. \A k \in DOMAIN mInbox' : mInbox'[k].number # 0 => n < mInbox'[k].number
      BY <1>6, <1>14 DEF MqttHushed
    <3>4. i \notin mWork'.left /\ n <= n
      BY <2>2, <1>4
    <3> QED BY <3>1, <3>2, <3>3, <3>4, <2>2
  <2> QED BY <2>1, <2>2, <1>11
<1>20. MqttHeard'
  BY <1>1, <1>3, <1>4, <1>19 DEF MqttHeard
<1>21. MqttAll'
  <2>1. ASSUME NEW i \in DOMAIN MqttHandlers
        PROVE  /\ i \in mWork'.left => Mqtt!Serves(MqttHandlers[i], mWork'.msg.topic)
               /\ Mqtt!Serves(MqttHandlers[i], mWork'.msg.topic) /\ mWork'.msg.number # 0 =>
                    i \in mWork'.left \/ MqttHeardBy(i, n)'
    <3>1. /\ i \in mWork.left => Mqtt!Serves(MqttHandlers[i], mWork.msg.topic)
          /\ Mqtt!Serves(MqttHandlers[i], mWork.msg.topic) /\ n # 0 => i \in mWork.left \/ MqttHeardBy(i, n)
      BY <1>1, <1>3 DEF MqttInv, MqttAll
    <3> QED BY <3>1, <1>3, <1>4, <1>12, <1>13
  <2>2. ASSUME mPhase # "closed", NEW i \in DOMAIN MqttHandlers, NEW j \in DOMAIN MqttHandlers, NEW k \in DOMAIN mHandled'[i],
               Mqtt!Serves(MqttHandlers[j], MqttStream[mHandled'[i][k]])
        PROVE  \/ \E l \in DOMAIN mHandled'[j] : mHandled'[j][l] = mHandled'[i][k]
               \/ n = mHandled'[i][k] /\ j \in mWork'.left
    <3>1. CASE k \in DOMAIN mHandled[i] /\ mHandled'[i][k] = mHandled[i][k]
      <4>1. PICK y : y = mHandled[i][k] /\ y \in 1 .. mSent
        BY <3>1 DEF MqttInv, MqttHeard
      <4>2. MqttHeardBy(j, y) \/ (n = y /\ j \in mWork.left)
        BY <2>2, <3>1, <4>1, <1>3 DEF MqttInv, MqttAll
      <4>3. mSent \in Nat
        BY DEF MqttInv, MqttKinds
      <4>4. MqttHeardBy(j, y)' \/ (n = y /\ j \in mWork'.left)
        <5>1. CASE MqttHeardBy(j, y)
          BY <5>1, <1>12
        <5>2. CASE n = y /\ j = x
          BY <5>2, <4>1, <4>3, <1>13
        <5>3. CASE n = y /\ j \in mWork.left /\ j # x
          BY <5>3, <1>4
        <5> QED BY <4>2, <5>1, <5>2, <5>3
      <4> QED BY <3>1, <4>1, <4>4 DEF MqttHeardBy
    <3>2. CASE n # 0 /\ mHandled'[i][k] = n
      <4>1. Mqtt!Serves(MqttHandlers[j], mWork.msg.topic)
        BY <3>2, <2>2, <1>14
      <4>2. j \in mWork'.left \/ MqttHeardBy(j, n)'
        BY <4>1, <3>2, <2>1, <1>3, <1>4
      <4> QED BY <4>2, <3>2 DEF MqttHeardBy
    <3> QED BY <3>1, <3>2, <1>11
  <2> QED BY <2>1, <2>2, <1>1, <1>3, <1>4, <1>5 DEF MqttAll, MqttHeardBy, Mqtt!link
<1> QED BY <1>15, <1>16, <1>17, <1>18, <1>20, <1>21 DEF MqttInv

LEMMA MqttOnReplyKeeps == ASSUME MqttInv, Mqtt!OnReply PROVE MqttInv'
<1>1. /\ mWork # NULL /\ mWork.left = {} /\ mWork' = NULL
      /\ UNCHANGED << mSubs, Mqtt!link, mServed, mInbox, mSent, mHandled, mReplyTopics, mRequests >>
  BY DEF Mqtt!OnReply
<1>2. PICK m : m = mWork.msg
  OBVIOUS
<1>3. ASSUME NEW c \in MqttCallers
      PROVE  mCaller'[c] \in MqttCalls /\ MqttCall(c)'
  <2>1. MqttCall(c) /\ mCaller[c] \in MqttCalls
    BY MqttCallerKinds DEF MqttInv, MqttCalled
  <2>2. CASE m.topic \in mReplyTopics /\ m.call # NULL /\ Mqtt!Belongs(c, m)
    <3>1. PICK o \in Seq(MqttOutcomes) : o = mCaller[c].outcome /\ Len(o) \in Nat /\ MqttOwnEnds(o, c)
      BY <2>1, MqttCallerKinds DEF MqttCall, MqttInv
    <3>2. mCaller[c].open /\ m.call = << c, mCaller[c].calls >> /\ mCaller[c].calls \in Nat
      BY <2>2, MqttCallerKinds DEF Mqtt!Belongs, MqttInv
    <3>3. MqttCounted(c) /\ MqttAwaited(c) = 1 /\ mCaller[c].at \in {"publish", "wait"}
      BY <2>1, <3>2 DEF MqttCall, MqttListened, MqttAwaited
    <3>4. mCaller[c].calls = Len(o) + 1
      BY <3>1, <3>3 DEF MqttCounted
    <3>5. PICK p \in Seq(MqttOutcomes) : p = Append(o, m.call) /\ Len(p) = Len(o) + 1 /\ MqttOwnEnds(p, c)
      <4>1. m.call \in MqttOutcomes /\ m.call = << c, Len(o) + 1 >>
        BY <3>2, <3>4 DEF MqttOutcomes
      <4> QED BY <4>1, <3>1, MqttOutcomeGrows
    <3>6. mCaller'[c] = [mCaller[c] EXCEPT !.open = FALSE, !.outcome = p]
      BY <2>2, <3>1, <3>5, <1>2 DEF Mqtt!OnReply
    <3>7. /\ mCaller'[c] \in MqttCalls /\ ~ mCaller'[c].open /\ mCaller'[c].outcome = p
          /\ mCaller'[c].at = mCaller[c].at /\ mCaller'[c].calls = mCaller[c].calls
      BY <3>6, <2>1 DEF MqttCalls, MqttOutcomes
    <3>8. MqttAwaited(c)' = 0
      BY <3>3, <3>7 DEF MqttAwaited
    <3>9. MqttCounted(c)'
      BY <3>1, <3>3, <3>5, <3>7, <3>8 DEF MqttCounted
    <3> QED BY <3>5, <3>7, <3>9 DEF MqttCall, MqttListened, MqttOwnEnds
  <2>3. CASE ~ (m.topic \in mReplyTopics /\ m.call # NULL /\ Mqtt!Belongs(c, m))
    <3>1. mCaller'[c] = mCaller[c]
      BY <2>3, <1>2 DEF Mqtt!OnReply
    <3> QED BY <3>1, <2>1, <1>1 DEF MqttCall, MqttListened, MqttCounted, MqttAwaited, MqttOwnEnds, Mqtt!link, MqttHolds
  <2> QED BY <2>2, <2>3
<1>4. mCaller' \in [MqttCallers -> MqttCalls] /\ MqttCalled'
  <2>1. mCaller' = [c \in MqttCallers |-> mCaller'[c]]
    BY DEF Mqtt!OnReply
  <2>2. mCaller' \in [MqttCallers -> MqttCalls]
    BY <2>1, <1>3
  <2> QED BY <2>2, <1>3 DEF MqttCalled
<1>5. MqttKinds'
  BY <1>1, <1>4 DEF MqttInv, MqttKinds, MqttList, Mqtt!link
<1>6. MqttLinked' /\ MqttAsked' /\ MqttBack'
  BY <1>1 DEF MqttInv, MqttLinked, MqttAsked, MqttBack, MqttHolds, Mqtt!link, MqttBackIn, MqttOnceIn
<1>7. MqttOrder' /\ MqttHeard'
  BY <1>1 DEF MqttInv, MqttOrder, MqttTold, MqttHeard
<1>8. MqttAll'
  BY <1>1 DEF MqttInv, MqttAll, MqttHeardBy, Mqtt!link
<1> QED BY <1>4, <1>5, <1>6, <1>7, <1>8 DEF MqttInv

-----------------------------------------------------------------------------
(* Calls.                                                                  *)
LEMMA MqttReplyRow ==
  ASSUME Mqtt!ClientAssumption, NEW c \in MqttCallers
  PROVE  /\ Mqtt!ReplyTopic(MqttPattern[c]) \in Seq(STRING) /\ Mqtt!ValidFilter(Mqtt!ReplyTopic(MqttPattern[c]))
         /\ Mqtt!Matches(Mqtt!ReplyTopic(MqttPattern[c]), Mqtt!ReplyTopic(MqttPattern[c]))
<1>1. PICK p \in Seq(STRING) : p = MqttPattern[c] /\ p # << >> /\ \A i \in 1 .. Len(p) : p[i] \notin Mqtt!Wild
  BY DEF Mqtt!ClientAssumption, Mqtt!ValidTopic
<1>2. PICK f \in Seq(STRING) : f = Mqtt!ReplyTopic(MqttPattern[c]) /\ f = Append(p, "reply")
  BY <1>1, MqttReplyTopics DEF Mqtt!ReplyTopic
<1>3. Len(f) \in Nat \ {0} /\ DOMAIN f = 1 .. Len(f) /\ \A i \in 1 .. Len(f) : f[i] # "+" /\ f[i] # "#"
  BY <1>1, <1>2 DEF Mqtt!Wild
<1>4. f # << >> /\ 1 \in 1 .. Len(f)
  BY <1>3
<1>5. Mqtt!ValidFilter(f)
  BY <1>3, <1>4 DEF Mqtt!ValidFilter
<1>6. Mqtt!Matches(f, f)
  BY <1>3, <1>4 DEF Mqtt!Matches, Mqtt!Wild
<1> QED BY <1>2, <1>5, <1>6

LEMMA MqttSubscribeSubs ==
  ASSUME Mqtt!ClientAssumption, MqttList, MqttAsked, NEW f \in Seq(STRING), f \in Mqtt!Every, NEW q \in Mqtt!Qos, Mqtt!Subscribe(f, q),
         UNCHANGED mRegistered
  PROVE  MqttList' /\ MqttAsked'
<1>1. /\ MqttList'
      /\ \A i \in DOMAIN mSubs : \E j \in DOMAIN mSubs' :
           mSubs'[j].filter = mSubs[i].filter /\ mSubs'[j].qos >= mSubs[i].qos
      /\ \A j \in DOMAIN mSubs' : mSubs'[j].filter = f \/ \E i \in DOMAIN mSubs : mSubs'[j].filter = mSubs[i].filter
  BY MqttSubscribeKeeps
<1>2. ASSUME NEW i \in DOMAIN MqttHandlers, MqttHandlers[i] \in mRegistered
      PROVE  \E j \in DOMAIN mSubs' : mSubs'[j].filter = MqttWants[MqttHandlers[i]].filter /\ mSubs'[j].qos >= MqttWants[MqttHandlers[i]].qos
  <2>1. PICK k \in DOMAIN mSubs : mSubs[k].filter = MqttWants[MqttHandlers[i]].filter /\ mSubs[k].qos >= MqttWants[MqttHandlers[i]].qos
    BY <1>2 DEF MqttAsked
  <2>2. PICK j \in DOMAIN mSubs' : mSubs'[j].filter = mSubs[k].filter /\ mSubs'[j].qos >= mSubs[k].qos
    BY <1>1
  <2>3. mSubs'[j].qos \in Nat /\ mSubs[k].qos \in Nat /\ MqttWants[MqttHandlers[i]].qos \in Nat
    <3>1. mSubs[k] \in MqttRows /\ mSubs'[j] \in MqttRows
      BY <1>1 DEF MqttList
    <3>2. MqttWants[MqttHandlers[i]].qos \in Mqtt!Qos
      BY DEF Mqtt!ClientAssumption
    <3> QED BY <3>1, <3>2 DEF MqttRows, Mqtt!Qos
  <2>4. mSubs'[j].qos >= MqttWants[MqttHandlers[i]].qos
    BY <2>1, <2>2, <2>3
  <2> QED BY <2>1, <2>2, <2>4
<1>3. \A j \in DOMAIN mSubs' : mSubs'[j].filter \in Mqtt!Every
  BY <1>1 DEF MqttAsked
<1> QED BY <1>1, <1>2, <1>3 DEF MqttAsked

LEMMA MqttSendKeeps == ASSUME Mqtt!ClientAssumption, MqttInv, NEW c \in MqttCallers, Mqtt!Send(c) PROVE MqttInv'
<1>1. /\ mCaller[c].at = "idle" /\ mCaller[c].calls < TaskCalls /\ Mqtt!Remember(c)
      /\ UNCHANGED << Mqtt!link, mServed, mInbox, mWork, mSent, mHandled, mRequests >>
  BY DEF Mqtt!Send
<1>2. PICK t \in Seq(STRING) : t = Mqtt!ReplyTopic(MqttPattern[c]) /\ t \in Mqtt!Every
  BY MqttReplyRow DEF Mqtt!Every
<1>3. MqttList' /\ MqttAsked'
  <2>1. CASE UNCHANGED mSubs
    BY <2>1, <1>1 DEF MqttInv, MqttKinds, MqttList, MqttAsked, Mqtt!link
  <2>2. CASE Mqtt!Subscribe(t, 1)
    <3>1. 1 \in Mqtt!Qos
      BY DEF Mqtt!Qos
    <3> QED BY <3>1, <2>2, <1>1, <1>2, MqttSubscribeSubs DEF MqttInv, MqttKinds, Mqtt!link
  <2> QED BY <2>1, <2>2, <1>1, <1>2 DEF Mqtt!Remember
<1>4. MqttCall(c) /\ mCaller[c] \in MqttCalls
  BY MqttCallerKinds DEF MqttInv, MqttCalled
<1>5. PICK o \in Seq(MqttOutcomes) : o = mCaller[c].outcome /\ Len(o) \in Nat /\ MqttOwnEnds(o, c)
  BY <1>4, MqttCallerKinds DEF MqttCall, MqttInv
<1>6. ~ mCaller[c].open /\ mCaller[c].calls = Len(o) /\ mCaller[c].calls \in Nat /\ TaskCalls \in Nat
  <2>1. ~ mCaller[c].open
    BY <1>1, <1>4 DEF MqttCall, MqttListened
  <2>2. MqttAwaited(c) = 0
    BY <2>1, <1>1 DEF MqttAwaited
  <2> QED BY <2>1, <2>2, <1>4, <1>5 DEF MqttCall, MqttCounted, MqttCalls, Mqtt!ClientAssumption
<1>7. PICK p \in Seq(MqttOutcomes) : p = Append(o, << "refused" >>) /\ Len(p) = Len(o) + 1 /\ MqttOwnEnds(p, c)
  <2>1. << "refused" >> \in MqttOutcomes /\ << "refused" >> \notin MqttCallers \X Nat
    BY MqttWaysAlone DEF MqttOutcomes, MqttWays
  <2> QED BY <2>1, <1>5, MqttOutcomeGrows
<1>8. mClient \in Nat
  BY DEF MqttInv, MqttKinds, MqttLinked
<1>9. PICK u : u = [mCaller[c] EXCEPT !.at = IF mClient = 0 THEN "idle" ELSE "listen", !.calls = @ + 1,
                                     !.with = mClient, !.outcome = IF mClient = 0 THEN p ELSE o]
  OBVIOUS
<1>10. mCaller' = [mCaller EXCEPT ![c] = u]
  <2>1. CASE mClient = 0
    <3>1. u = [mCaller[c] EXCEPT !.at = "idle", !.calls = @ + 1, !.with = mClient, !.outcome = Append(@, << "refused" >>)]
      BY <2>1, <1>5, <1>7, <1>9
    <3> QED BY <3>1, <2>1 DEF Mqtt!Send
  <2>2. CASE mClient # 0
    <3>1. u = [mCaller[c] EXCEPT !.at = "listen", !.calls = @ + 1, !.with = mClient, !.outcome = @]
      BY <2>2, <1>5, <1>9
    <3> QED BY <3>1, <2>2 DEF Mqtt!Send
  <2> QED BY <2>1, <2>2
<1>11. /\ u \in MqttCalls /\ ~ u.open /\ u.calls = mCaller[c].calls + 1 /\ u.outcome = IF mClient = 0 THEN p ELSE o
       /\ u.at = IF mClient = 0 THEN "idle" ELSE "listen"
  <2>1. CASE mClient = 0
    <3>1. u = [mCaller[c] EXCEPT !.at = "idle", !.calls = @ + 1, !.with = mClient, !.outcome = p]
      BY <2>1, <1>9
    <3>2. mCaller[c].calls + 1 \in Nat /\ u.calls = mCaller[c].calls + 1
      BY <3>1, <1>4, <1>6 DEF MqttCalls
    <3>3. ~ u.open /\ u.outcome = p /\ u.at = "idle"
      BY <3>1, <1>4, <1>6 DEF MqttCalls
    <3>4. PICK k \in Nat : u = [at |-> "idle", calls |-> k, with |-> mClient, open |-> FALSE, outcome |-> p]
      BY <3>1, <3>2, <1>4, <1>6 DEF MqttCalls
    <3>5. u \in MqttCalls
      <4>1. p \in Seq(MqttWays \cup (MqttCallers \X Nat))
        BY DEF MqttOutcomes
      <4> QED BY <4>1, <3>4, <1>8 DEF MqttCalls
    <3> QED BY <3>2, <3>3, <3>5, <2>1
  <2>2. CASE mClient # 0
    <3>1. u = [mCaller[c] EXCEPT !.at = "listen", !.calls = @ + 1, !.with = mClient, !.outcome = o]
      BY <2>2, <1>9
    <3>2. mCaller[c].calls + 1 \in Nat /\ u.calls = mCaller[c].calls + 1
      BY <3>1, <1>4, <1>6 DEF MqttCalls
    <3>3. ~ u.open /\ u.outcome = o /\ u.at = "listen"
      BY <3>1, <1>4, <1>6 DEF MqttCalls
    <3>4. PICK k \in Nat : u = [at |-> "listen", calls |-> k, with |-> mClient, open |-> FALSE, outcome |-> o]
      BY <3>1, <3>2, <1>4, <1>6 DEF MqttCalls
    <3>5. u \in MqttCalls
      <4>1. o \in Seq(MqttWays \cup (MqttCallers \X Nat))
        BY DEF MqttOutcomes
      <4> QED BY <4>1, <3>4, <1>8 DEF MqttCalls
    <3> QED BY <3>2, <3>3, <3>5, <2>2
  <2> QED BY <2>1, <2>2
<1>12. u.calls <= TaskCalls /\ u.calls = Len(u.outcome) + IF u.open \/ u.at = "listen" THEN 1 ELSE 0
  <2>1. u.calls <= TaskCalls
    BY <1>1, <1>5, <1>6, <1>11
  <2>2. CASE mClient = 0
    BY <2>1, <2>2, <1>5, <1>6, <1>7, <1>11
  <2>3. CASE mClient # 0
    BY <2>1, <2>3, <1>5, <1>6, <1>11
  <2> QED BY <2>2, <2>3
<1>13. MqttOwnEnds(u.outcome, c)
  BY <1>5, <1>7, <1>11
<1>14. mCaller' \in [MqttCallers -> MqttCalls] /\ MqttCalled'
  BY <1>1, <1>10, <1>11, <1>12, <1>13, MqttCallerMoves DEF MqttInv, Mqtt!link, MqttHolds
<1>15. MqttKinds'
  BY <1>1, <1>3, <1>14 DEF MqttInv, MqttKinds, Mqtt!link
<1>16. MqttLinked' /\ MqttBack'
  BY <1>1 DEF MqttInv, MqttLinked, MqttBack, MqttHolds, Mqtt!link, MqttBackIn, MqttOnceIn
<1>17. MqttOrder' /\ MqttHeard' /\ MqttAll'
  BY <1>1 DEF MqttInv, MqttOrder, MqttTold, MqttHeard, MqttAll, MqttHeardBy, Mqtt!link
<1> QED BY <1>3, <1>14, <1>15, <1>16, <1>17 DEF MqttInv

LEMMA MqttRefusedKinds ==
  ASSUME MqttKinds, MqttCalled, NEW c \in MqttCallers, mCaller[c].at = "listen"
  PROVE  \E p \in Seq(MqttOutcomes) : /\ p = Append(mCaller[c].outcome, << "refused" >>)
                                      /\ mCaller[c].calls = Len(p) /\ MqttOwnEnds(p, c)
                                      /\ ~ mCaller[c].open /\ mCaller[c].calls <= TaskCalls
                                      /\ mCaller[c].calls = Len(mCaller[c].outcome) + 1
<1>1. MqttCall(c) /\ mCaller[c] \in MqttCalls
  BY MqttCallerKinds DEF MqttCalled
<1>2. PICK o \in Seq(MqttOutcomes) : o = mCaller[c].outcome /\ Len(o) \in Nat /\ MqttOwnEnds(o, c)
  BY <1>1, MqttCallerKinds DEF MqttCall
<1>3. PICK p \in Seq(MqttOutcomes) : p = Append(o, << "refused" >>) /\ Len(p) = Len(o) + 1 /\ MqttOwnEnds(p, c)
  <2>1. << "refused" >> \in MqttOutcomes /\ << "refused" >> \notin MqttCallers \X Nat
    BY MqttWaysAlone DEF MqttOutcomes, MqttWays
  <2> QED BY <2>1, <1>2, MqttOutcomeGrows
<1>4. ~ mCaller[c].open /\ mCaller[c].calls <= TaskCalls /\ mCaller[c].calls = Len(o) + 1
  BY <1>1, <1>2 DEF MqttCall, MqttListened, MqttCounted, MqttAwaited
<1> QED BY <1>2, <1>3, <1>4

LEMMA MqttListensKeeps == ASSUME Mqtt!ClientAssumption, MqttInv, NEW c \in MqttCallers, Mqtt!Listens(c) PROVE MqttInv'
<1>1. /\ mCaller[c].at = "listen"
      /\ UNCHANGED << mSubs, Mqtt!link, mInbox, mWork, mSent, mHandled, mReplyTopics, mRequests >>
  BY DEF Mqtt!Listens
<1>2. PICK r : r = [filter |-> Mqtt!ReplyTopic(MqttPattern[c]), qos |-> 1]
  OBVIOUS
<1>3. r \in MqttRows /\ Mqtt!Matches(r.filter, Mqtt!ReplyTopic(MqttPattern[c]))
  BY <1>2, MqttReplyRow DEF MqttRows, Mqtt!Qos
<1>4. \/ mWire /\ mServed' = mServed \cup {r}
      \/ mServed' = mServed
  BY <1>2 DEF Mqtt!Listens, Mqtt!Alive
<1>5. PICK p \in Seq(MqttOutcomes) : /\ p = Append(mCaller[c].outcome, << "refused" >>)
                                     /\ mCaller[c].calls = Len(p) /\ MqttOwnEnds(p, c)
                                     /\ ~ mCaller[c].open /\ mCaller[c].calls <= TaskCalls
                                     /\ mCaller[c].calls = Len(mCaller[c].outcome) + 1
  BY <1>1, MqttRefusedKinds DEF MqttInv
<1>6. mCaller[c] \in MqttCalls /\ mCaller[c].outcome \in Seq(MqttOutcomes) /\ MqttOwnEnds(mCaller[c].outcome, c) /\ Len(p) \in Nat
  BY MqttCallerKinds DEF MqttInv, MqttCalled, MqttCall
<1>7. mCaller' \in [MqttCallers -> MqttCalls] /\ MqttCalled'
  <2>1. CASE Mqtt!Alive(c) /\ mConnected
    <3>1. PICK u : u = [mCaller[c] EXCEPT !.at = "publish", !.open = TRUE, !.with = mClient]
      OBVIOUS
    <3>2. mCaller' = [mCaller EXCEPT ![c] = u] /\ mServed' = mServed \cup {r}
      BY <2>1, <3>1, <1>2 DEF Mqtt!Listens
    <3>3. mClient = mSession /\ mClient \in Nat /\ MqttHolds
      BY <2>1 DEF MqttInv, MqttKinds, MqttLinked, MqttHolds
    <3>4. /\ u \in MqttCalls /\ u.open /\ u.with = mSession /\ u.at = "publish" /\ u.calls = mCaller[c].calls
          /\ u.outcome = mCaller[c].outcome
      BY <3>1, <3>3, <1>6 DEF MqttCalls
    <3>5. u.calls <= TaskCalls /\ u.calls = Len(u.outcome) + IF u.open \/ u.at = "listen" THEN 1 ELSE 0
      BY <3>4, <1>5
    <3>6. \E s \in mServed' : Mqtt!Matches(s.filter, Mqtt!ReplyTopic(MqttPattern[c]))
      BY <3>2, <1>3
    <3>7. MqttHolds' /\ mSession' = mSession /\ (mWire' => mWire) /\ mServed \subseteq mServed'
      BY <3>2, <3>3, <1>1 DEF MqttHolds, Mqtt!link
    <3>8. MqttOwnEnds(u.outcome, c)
      BY <3>4, <1>6
    <3> QED BY <3>2, <3>3, <3>4, <3>5, <3>6, <3>7, <3>8, MqttCallerMoves DEF MqttInv
  <2>2. CASE ~ (Mqtt!Alive(c) /\ mConnected)
    <3>1. PICK u : u = [mCaller[c] EXCEPT !.at = "idle", !.outcome = p]
      OBVIOUS
    <3>2. mCaller' = [mCaller EXCEPT ![c] = u]
      <4>1. Mqtt!Failed(c)
        BY <2>2 DEF Mqtt!Listens
      <4>2. u = [mCaller[c] EXCEPT !.at = "idle", !.outcome = Append(@, << "refused" >>)]
        BY <3>1, <1>5
      <4> QED BY <4>1, <4>2 DEF Mqtt!Failed
    <3>3. u \in MqttCalls /\ ~ u.open /\ u.at = "idle" /\ u.calls = mCaller[c].calls /\ u.outcome = p
      BY <3>1, <1>5, <1>6 DEF MqttCalls, MqttOutcomes
    <3>4. u.calls <= TaskCalls /\ u.calls = Len(u.outcome) + IF u.open \/ u.at = "listen" THEN 1 ELSE 0
      BY <3>3, <1>5, <1>6
    <3>5. mSession' = mSession /\ (MqttHolds => MqttHolds') /\ (mWire' => mWire /\ mServed \subseteq mServed')
      BY <1>1, <1>4 DEF MqttHolds, Mqtt!link
    <3>6. MqttOwnEnds(u.outcome, c)
      BY <3>3, <1>5
    <3> QED BY <3>2, <3>3, <3>4, <3>5, <3>6, MqttCallerMoves DEF MqttInv
  <2> QED BY <2>1, <2>2
<1>8. MqttKinds'
  <2>1. IsFiniteSet(mServed \cup {r})
    BY FS_AddElement DEF MqttInv, MqttKinds
  <2>2. IsFiniteSet(mServed') /\ mServed' \in SUBSET MqttRows
    BY <2>1, <1>3, <1>4 DEF MqttInv, MqttKinds
  <2> QED BY <2>2, <1>1, <1>7 DEF MqttInv, MqttKinds, MqttList, Mqtt!link
<1>9. MqttLinked' /\ MqttAsked'
  BY <1>1, <1>4 DEF MqttInv, MqttLinked, MqttAsked, MqttHolds, Mqtt!link
<1>10. MqttBack'
  <2>1. CASE mWire /\ mServed' = mServed \cup {r}
    <3>1. MqttBackIn(mTodo \cup mServed) /\ MqttOnceIn(mTodo \cup mServed)
      BY <2>1 DEF MqttInv, MqttBack
    <3>2. MqttBackIn(mTodo \cup mServed')
      BY <3>1, <2>1 DEF MqttBackIn
    <3>3. \A n \in DOMAIN MqttStream : ~ Mqtt!Matches(r.filter, MqttStream[n])
      BY <1>2, MqttAnswersAlone
    <3>4. MqttOnceIn(mTodo \cup mServed')
      BY <3>1, <3>3, <2>1 DEF MqttOnceIn
    <3> QED BY <3>2, <3>4, <1>1 DEF MqttBack, MqttInv, Mqtt!link, MqttBackIn, MqttOnceIn
  <2>2. CASE mServed' = mServed
    BY <2>2, <1>1 DEF MqttInv, MqttBack, Mqtt!link, MqttBackIn, MqttOnceIn
  <2> QED BY <2>1, <2>2, <1>4
<1>11. MqttOrder' /\ MqttHeard' /\ MqttAll'
  BY <1>1 DEF MqttInv, MqttOrder, MqttTold, MqttHeard, MqttAll, MqttHeardBy, Mqtt!link
<1> QED BY <1>7, <1>8, <1>9, <1>10, <1>11 DEF MqttInv

LEMMA MqttReachesKeeps == ASSUME Mqtt!ClientAssumption, MqttInv, NEW c \in MqttCallers, Mqtt!Reaches(c) PROVE MqttInv'
<1>1. /\ mCaller[c].at = "publish" /\ mCaller' = [mCaller EXCEPT ![c].at = "wait"]
      /\ UNCHANGED << mSubs, Mqtt!link, mServed, mWork, mSent, mHandled, mReplyTopics >>
  BY DEF Mqtt!Reaches
<1>2. PICK m \in Mqtt!Messages : m.number = 0 /\ Mqtt!Deliver(m)
  <2>1. PICK p \in Seq(STRING) : p = MqttPattern[c]
    BY DEF Mqtt!ClientAssumption
  <2>2. PICK k \in Nat : k = mCaller[c].calls
    BY MqttCallerKinds DEF MqttInv
  <2>3. [topic |-> p, number |-> 0, call |-> << c, k >>] \in Mqtt!Messages
    BY DEF Mqtt!Messages
  <2>4. Mqtt!Deliver([topic |-> p, number |-> 0, call |-> << c, k >>])
    BY <2>1, <2>2 DEF Mqtt!Reaches
  <2> QED BY <2>3, <2>4
<1>3. MqttHushed /\ mInbox' \in Seq(Mqtt!Messages)
  BY <1>2, MqttHushedDelivery DEF MqttInv
<1>4. mCaller' \in [MqttCallers -> MqttCalls] /\ MqttCalled'
  <2>1. PICK u : u = [mCaller[c] EXCEPT !.at = "wait"]
    OBVIOUS
  <2>2. mCaller' = [mCaller EXCEPT ![c] = u]
    BY <2>1, <1>1
  <2>3. MqttCall(c) /\ mCaller[c] \in MqttCalls
    BY MqttCallerKinds DEF MqttInv, MqttCalled
  <2>4. /\ u \in MqttCalls /\ u.open = mCaller[c].open /\ u.with = mCaller[c].with /\ u.at = "wait"
        /\ u.calls = mCaller[c].calls /\ u.outcome = mCaller[c].outcome
    BY <2>1, <2>3 DEF MqttCalls
  <2>5. u.calls <= TaskCalls /\ u.calls = Len(u.outcome) + IF u.open \/ u.at = "listen" THEN 1 ELSE 0
    BY <2>3, <2>4, <1>1 DEF MqttCall, MqttCounted, MqttAwaited
  <2>6. mSession' = mSession /\ (MqttHolds => MqttHolds') /\ (mWire' => mWire) /\ mServed' = mServed
    BY <1>1 DEF MqttHolds, Mqtt!link
  <2>7. u.open => /\ u.with = mSession /\ MqttHolds' /\ u.at \in {"publish", "wait"}
                  /\ mWire' => \E r \in mServed' : Mqtt!Matches(r.filter, Mqtt!ReplyTopic(MqttPattern[c]))
    BY <2>3, <2>4, <2>6 DEF MqttCall, MqttListened
  <2>8. MqttOwnEnds(u.outcome, c)
    BY <2>3, <2>4 DEF MqttCall
  <2> QED BY <2>2, <2>4, <2>5, <2>6, <2>7, <2>8, MqttCallerMoves DEF MqttInv
<1>5. MqttKinds'
  <2> HIDE DEF Mqtt!Messages
  <2> QED BY <1>1, <1>3, <1>4 DEF MqttInv, MqttKinds, MqttList, Mqtt!link
<1>6. MqttLinked' /\ MqttAsked' /\ MqttBack'
  BY <1>1 DEF MqttInv, MqttLinked, MqttAsked, MqttBack, MqttHolds, Mqtt!link, MqttBackIn, MqttOnceIn
<1>7. MqttAll'
  BY <1>1 DEF MqttInv, MqttAll, MqttHeardBy, Mqtt!link
<1>8. MqttOrder' /\ MqttHeard'
  BY <1>1, <1>3, MqttHushedKeeps DEF MqttInv
<1> QED BY <1>4, <1>5, <1>6, <1>7, <1>8 DEF MqttInv

LEMMA MqttEndsKeeps ==
  ASSUME Mqtt!ClientAssumption, MqttInv, NEW c \in MqttCallers, Mqtt!PublishFails(c) \/ Mqtt!Returns(c) \/ Mqtt!Timeout(c)
  PROVE  MqttInv'
<1>1. PICK w \in MqttWays : Mqtt!Ends(c, w)
  BY DEF Mqtt!PublishFails, Mqtt!Returns, Mqtt!Timeout, MqttWays
<1>2. /\ mCaller[c].at \in {"publish", "wait"}
      /\ UNCHANGED << mSubs, Mqtt!link, mServed, mInbox, mWork, mSent, mHandled, mReplyTopics, mRequests >>
  BY DEF Mqtt!PublishFails, Mqtt!Returns, Mqtt!Timeout
<1>3. MqttCall(c) /\ mCaller[c] \in MqttCalls /\ w \in MqttOutcomes /\ w \notin MqttCallers \X Nat
  BY MqttCallerKinds, MqttWaysAlone DEF MqttInv, MqttCalled, MqttOutcomes
<1>4. PICK o \in Seq(MqttOutcomes) : o = mCaller[c].outcome /\ Len(o) \in Nat /\ MqttOwnEnds(o, c)
  BY <1>3, MqttCallerKinds DEF MqttCall, MqttInv
<1>5. PICK p \in Seq(MqttOutcomes) : p = Append(o, w) /\ Len(p) = Len(o) + 1 /\ MqttOwnEnds(p, c)
  BY <1>3, <1>4, MqttOutcomeGrows
<1>6. PICK u : u = [mCaller[c] EXCEPT !.at = "idle", !.open = FALSE, !.outcome = IF mCaller[c].open THEN p ELSE o]
  OBVIOUS
<1>7. mCaller' = [mCaller EXCEPT ![c] = u]
  <2>1. CASE mCaller[c].open
    <3>1. u = [mCaller[c] EXCEPT !.at = "idle", !.open = FALSE, !.outcome = Append(@, w)]
      BY <2>1, <1>4, <1>5, <1>6
    <3> QED BY <3>1, <2>1, <1>1 DEF Mqtt!Ends
  <2>2. CASE ~ mCaller[c].open
    <3>1. u = [mCaller[c] EXCEPT !.at = "idle", !.open = FALSE, !.outcome = @]
      BY <2>2, <1>4, <1>6
    <3> QED BY <3>1, <2>2, <1>1 DEF Mqtt!Ends
  <2> QED BY <2>1, <2>2
<1>8. /\ u \in MqttCalls /\ ~ u.open /\ u.at = "idle" /\ u.calls = mCaller[c].calls
      /\ u.outcome = IF mCaller[c].open THEN p ELSE o
  BY <1>3, <1>6 DEF MqttCalls, MqttOutcomes
<1>9. u.calls <= TaskCalls /\ u.calls = Len(u.outcome) + IF u.open \/ u.at = "listen" THEN 1 ELSE 0
  <2>1. MqttAwaited(c) = IF mCaller[c].open THEN 1 ELSE 0
    BY <1>2 DEF MqttAwaited
  <2>2. MqttCounted(c)
    BY <1>3 DEF MqttCall
  <2>3. mCaller[c].calls = Len(o) + IF mCaller[c].open THEN 1 ELSE 0
    BY <2>1, <2>2, <1>4 DEF MqttCounted
  <2>4. CASE mCaller[c].open
    BY <2>2, <2>3, <2>4, <1>4, <1>5, <1>8 DEF MqttCounted
  <2>5. CASE ~ mCaller[c].open
    BY <2>2, <2>3, <2>5, <1>4, <1>5, <1>8 DEF MqttCounted
  <2> QED BY <2>4, <2>5
<1>10. MqttOwnEnds(u.outcome, c)
  BY <1>4, <1>5, <1>8
<1>11. mCaller' \in [MqttCallers -> MqttCalls] /\ MqttCalled'
  <2>1. mSession' = mSession /\ (MqttHolds => MqttHolds') /\ (mWire' => mWire) /\ mServed' = mServed
    BY <1>2 DEF MqttHolds, Mqtt!link
  <2> QED BY <2>1, <1>7, <1>8, <1>9, <1>10, MqttCallerMoves DEF MqttInv
<1>12. MqttKinds'
  BY <1>2, <1>11 DEF MqttInv, MqttKinds, MqttList, Mqtt!link
<1>13. MqttLinked' /\ MqttAsked' /\ MqttBack'
  BY <1>2 DEF MqttInv, MqttLinked, MqttAsked, MqttBack, MqttHolds, Mqtt!link, MqttBackIn, MqttOnceIn
<1>14. MqttOrder' /\ MqttHeard' /\ MqttAll'
  BY <1>2 DEF MqttInv, MqttOrder, MqttTold, MqttHeard, MqttAll, MqttHeardBy, Mqtt!link
<1> QED BY <1>11, <1>12, <1>13, <1>14 DEF MqttInv

-----------------------------------------------------------------------------
LEMMA MqttNext == ASSUME Mqtt!ClientAssumption, MqttInv, [Mqtt!Next]_mqttVars PROVE MqttInv'
<1>1. CASE UNCHANGED mqttVars
  BY <1>1, MqttStutter
<1>2. CASE Mqtt!Startup \/ Mqtt!Break \/ Mqtt!Shutdown \/ Mqtt!Publish
  BY <1>2, MqttStartupKeeps, MqttBreakKeeps, MqttShutdownKeeps, MqttPublishKeeps
<1>3. CASE Mqtt!Connecting
  BY <1>3, MqttConnectKeeps, MqttSubscribeNextKeeps, MqttSubscribedKeeps, MqttLostKeeps, MqttStartupKeeps DEF Mqtt!Connecting
<1>4. CASE Mqtt!Routing
  BY <1>4, MqttReadKeeps, MqttHandleKeeps, MqttOnReplyKeeps DEF Mqtt!Routing
<1>5. ASSUME NEW i \in DOMAIN MqttHandlers, Mqtt!Register(MqttHandlers[i]) PROVE MqttInv'
  BY <1>5, MqttRegisterKeeps
<1>6. ASSUME NEW c \in MqttCallers, Mqtt!Send(c) \/ Mqtt!CallStep(c) \/ Mqtt!Answer(c) PROVE MqttInv'
  BY <1>6, MqttSendKeeps, MqttListensKeeps, MqttReachesKeeps, MqttEndsKeeps, MqttAnswerKeeps DEF Mqtt!CallStep
<1> QED BY <1>1, <1>2, <1>3, <1>4, <1>5, <1>6 DEF Mqtt!Next

LEMMA MqttInvIsSafe == ASSUME Mqtt!ClientAssumption, MqttInv PROVE Mqtt!MqttSafe
<1>1. Mqtt!WouldHear
  BY DEF MqttInv, MqttCalled, MqttCall, MqttListened, Mqtt!WouldHear
<1>2. Mqtt!NobodyForgotten
  BY DEF MqttInv, MqttCalled, MqttCall, MqttListened, MqttLinked, MqttKinds, Mqtt!NobodyForgotten
<1>3. Mqtt!OwnAnswer
  <2> SUFFICES ASSUME NEW c \in MqttCallers, NEW n \in 1 .. TaskCalls
               PROVE  /\ Len(mCaller[c].outcome) <= mCaller[c].calls
                      /\ n \in DOMAIN mCaller[c].outcome /\ mCaller[c].outcome[n] \in MqttCallers \X (1 .. TaskCalls) =>
                           mCaller[c].outcome[n] = << c, n >>
    BY DEF Mqtt!OwnAnswer
  <2>1. MqttCall(c) /\ Len(mCaller[c].outcome) \in Nat
    BY MqttCallerKinds DEF MqttInv, MqttCalled
  <2>2. Len(mCaller[c].outcome) <= mCaller[c].calls
    <3>1. MqttAwaited(c) \in Nat
      BY DEF MqttAwaited
    <3>2. mCaller[c].calls = Len(mCaller[c].outcome) + MqttAwaited(c)
      BY <2>1 DEF MqttCall, MqttCounted
    <3> HIDE DEF MqttAwaited
    <3> QED BY <3>1, <3>2, <2>1
  <2>3. MqttCallers \X (1 .. TaskCalls) \subseteq MqttCallers \X Nat
    OBVIOUS
  <2> QED BY <2>1, <2>2, <2>3 DEF MqttCall, MqttOwnEnds
<1>4. Mqtt!HeardInOrder
  BY DEF MqttInv, MqttHeard, Mqtt!HeardInOrder
<1>5. Mqtt!AllHear
  BY DEF MqttInv, MqttAll, MqttHeardBy, Mqtt!AllHear
<1>6. Mqtt!HandlersAreBack
  <2>1. mLoop = "read" /\ mWire => mTodo \cup mServed = mServed /\ MqttBackIn(mTodo \cup mServed)
    BY DEF MqttInv, MqttBack
  <2> QED BY <2>1 DEF Mqtt!HandlersAreBack, MqttBackIn
<1>7. Mqtt!StatusIsTrue
  BY DEF MqttInv, MqttLinked, Mqtt!StatusIsTrue
<1> QED BY <1>1, <1>2, <1>3, <1>4, <1>5, <1>6, <1>7 DEF Mqtt!MqttSafe

-----------------------------------------------------------------------------
(* The list of filters on its own, whatever is asked for.                  *)
FilterList == tSubs \in Seq(MqttRows) /\ MqttApart(tSubs)

LEMMA FilterSame ==
  /\ \A a, b : Filtering!Covers(a, b) = Mqtt!Covers(a, b)
  /\ \A f, t : Filtering!Matches(f, t) = Mqtt!Matches(f, t)
  /\ \A S : Filtering!Max(S) = Mqtt!Max(S)
BY DEF Filtering!Covers, Mqtt!Covers, Filtering!Matches, Mqtt!Matches, Filtering!Wild, Mqtt!Wild,
       Filtering!Max, Mqtt!Max

LEMMA FilterNarrowIs == Filtering!Narrowed = MqttNarrow(tSubs)
BY DEF Filtering!Narrowed, Filtering!Into, Filtering!Covers, Filtering!Max, Filtering!Min,
       MqttNarrow, MqttGoes, MqttWider, MqttTakes, Mqtt!Covers, Mqtt!Max, Mqtt!Min

LEMMA FilterNext ==
  ASSUME FilterList, [Filtering!Wanted]_filterVars
  PROVE  FilterList'
<1>1. CASE UNCHANGED filterVars
  BY <1>1 DEF FilterList, filterVars
<1>2. ASSUME NEW f \in MqttFilters, NEW q \in Filtering!Qos, Filtering!Subscribe(f, q) PROVE FilterList'
  <2>1. f \in Seq(STRING) /\ q \in Mqtt!Qos
    BY FilteringInstance DEF Filtering!TopicsAssumption, Filtering!Qos, Mqtt!Qos
  <2>2. MqttAdds(tSubs, tSubs', f, q)
    BY <1>2 DEF Filtering!Subscribe, Filtering!Asked, Filtering!ValidFilter, Mqtt!ValidFilter,
                MqttAdds, MqttHas, Filtering!Max, Mqtt!Max
  <2> QED BY <2>1, <2>2, MqttAddsKeeps DEF FilterList
<1> QED BY <1>1, <1>2 DEF Filtering!Wanted

LEMMA FilterLevels ==
  ASSUME NEW S \in SUBSET MqttRows, NEW t
  PROVE  Filtering!Level(t, S) \in SUBSET Mqtt!Qos
BY DEF Filtering!Level, MqttRows

LEMMA FilterIsWell == ASSUME FilterList PROVE Filtering!NarrowedWell
<1> SUFFICES ASSUME NEW t \in Filtering!Common, Filtering!Level(t, Filtering!All) # {}
             PROVE  /\ Filtering!Level(t, Filtering!Narrowed) # {}
                    /\ Filtering!Max(Filtering!Level(t, Filtering!Narrowed)) >= Filtering!Max(Filtering!Level(t, Filtering!All))
  BY DEF Filtering!NarrowedWell
<1>1. t \in Seq(STRING) /\ t[1] \notin Dollar
  BY FilteringInstance DEF Filtering!Common, Filtering!TopicsAssumption
<1>2. tSubs \in Seq(MqttRows) /\ Filtering!All \in SUBSET MqttRows /\ Filtering!Narrowed \in SUBSET MqttRows
  BY MqttNarrowFrom, FilterNarrowIs DEF FilterList, Filtering!All
<1>3. Mqtt!Max(Filtering!Level(t, Filtering!All)) \in Filtering!Level(t, Filtering!All)
  BY <1>2, FilterLevels, MqttMaxOfLevels
<1>4. PICK i \in DOMAIN tSubs : /\ Filtering!Matches(tSubs[i].filter, t)
                                /\ tSubs[i].qos = Mqtt!Max(Filtering!Level(t, Filtering!All))
  BY <1>3 DEF Filtering!Level, Filtering!All
<1>5. PICK r \in Filtering!Narrowed : Mqtt!Covers(r.filter, tSubs[i].filter) /\ r.qos >= tSubs[i].qos
  BY <1>2, MqttNarrowCovers, FilterNarrowIs
<1>6. r \in MqttRows /\ tSubs[i] \in MqttRows
  BY <1>2
<1>7. Filtering!Matches(r.filter, t)
  <2>1. MqttGood(r.filter) /\ MqttGood(tSubs[i].filter)
    BY <1>6 DEF MqttRows, MqttGood
  <2>2. Mqtt!Matches(tSubs[i].filter, t)
    BY <1>4, FilterSame
  <2>3. Mqtt!Matches(r.filter, t)
    BY <2>1, <2>2, <1>1, <1>5, MqttCoversMatches
  <2> QED BY <2>3, FilterSame
<1>8. r.qos \in Filtering!Level(t, Filtering!Narrowed)
  BY <1>7 DEF Filtering!Level
<1>9. /\ Mqtt!Max(Filtering!Level(t, Filtering!Narrowed)) >= r.qos
      /\ Mqtt!Max(Filtering!Level(t, Filtering!Narrowed)) \in Mqtt!Qos
  BY <1>2, <1>8, FilterLevels, MqttMaxOfLevels
<1>10. r.qos \in Mqtt!Qos /\ tSubs[i].qos \in Mqtt!Qos
  BY <1>6 DEF MqttRows
<1>11. Mqtt!Max(Filtering!Level(t, Filtering!Narrowed)) >= Mqtt!Max(Filtering!Level(t, Filtering!All))
  BY <1>4, <1>5, <1>9, <1>10 DEF Mqtt!Qos
<1> QED BY <1>8, <1>11, FilterSame

LEMMA FilterAddsNone == ASSUME FilterList PROVE Filtering!NoneTooMany
<1> SUFFICES ASSUME NEW t \in OnTopics, Filtering!Level(t, Filtering!Narrowed) # {}
             PROVE  Filtering!Level(t, Filtering!All) # {}
  BY DEF Filtering!NoneTooMany
<1>1. PICK r \in Filtering!Narrowed : Filtering!Matches(r.filter, t)
  BY DEF Filtering!Level
<1>2. PICK j \in DOMAIN tSubs : r.filter = tSubs[j].filter
  BY MqttNarrowFrom, FilterNarrowIs DEF FilterList
<1>3. tSubs[j] \in Filtering!All /\ Filtering!Matches(tSubs[j].filter, t)
  BY <1>1, <1>2 DEF Filtering!All
<1> QED BY <1>3 DEF Filtering!Level

LEMMA FilterPairs == ASSUME FilterList PROVE Filtering!NarrowedPairs
<1> SUFFICES ASSUME Len(tSubs) = 2, NEW a \in Filtering!Narrowed, NEW b \in Filtering!Narrowed, Filtering!Covers(a.filter, b.filter)
             PROVE  a.filter = b.filter
  BY DEF Filtering!NarrowedPairs
<1>1. tSubs \in Seq(MqttRows) /\ DOMAIN tSubs = 1 .. 2 /\ tSubs[1] \in MqttRows /\ tSubs[2] \in MqttRows
  <2>1. tSubs \in Seq(MqttRows) /\ Len(tSubs) = 2
    BY DEF FilterList
  <2>2. DOMAIN tSubs = 1 .. 2
    BY <2>1
  <2>3. \A s \in Seq(MqttRows), i \in Nat : i \in 1 .. Len(s) => s[i] \in MqttRows
    <3> HIDE DEF MqttRows
    <3> QED OBVIOUS
  <2>4. 1 \in 1 .. Len(tSubs) /\ 2 \in 1 .. Len(tSubs)
    BY <2>1
  <2> HIDE DEF MqttRows
  <2> QED BY <2>1, <2>2, <2>3, <2>4
<1>2. PICK i \in DOMAIN tSubs : a.filter = tSubs[MqttGoes(tSubs, i)].filter /\ MqttGoes(tSubs, i) \in DOMAIN tSubs
  BY <1>1, MqttNarrowFrom, FilterNarrowIs
<1>3. PICK j \in DOMAIN tSubs : b.filter = tSubs[MqttGoes(tSubs, j)].filter /\ MqttGoes(tSubs, j) \in DOMAIN tSubs
  BY <1>1, MqttNarrowFrom, FilterNarrowIs
<1>4. PICK k \in DOMAIN tSubs : k = MqttGoes(tSubs, i)
  BY <1>2
<1>5. PICK l \in DOMAIN tSubs : l = MqttGoes(tSubs, j)
  BY <1>3
<1>6. ASSUME k # l PROVE FALSE
  <2>1. k \in MqttWider(tSubs, l)
    BY <1>2, <1>3, <1>4, <1>5, <1>6, FilterSame DEF MqttWider
  <2>2. j # l => j = k
    BY <1>1, <1>6
  <2>3. j = l => MqttGoes(tSubs, j) = k
    <3>1. ASSUME j = l PROVE MqttGoes(tSubs, j) = k
      <4>1. MqttWider(tSubs, j) # {}
        BY <3>1, <2>1
      <4>2. MqttGoes(tSubs, j) # j
        <5>1. Mqtt!Min(MqttWider(tSubs, j)) \in MqttWider(tSubs, j)
          BY <4>1, <1>1, MqttMinOfPlaces DEF MqttWider
        <5> QED BY <4>1, <5>1 DEF MqttGoes, MqttWider
      <4> QED BY <4>2, <3>1, <1>5
    <3> QED BY <3>1
  <2>4. j = k /\ l \in MqttWider(tSubs, k)
    BY <2>2, <2>3, <1>1, <1>5, <1>6, MqttGoesTo
  <2>5. Mqtt!Covers(tSubs[l].filter, tSubs[k].filter) /\ Mqtt!Covers(tSubs[k].filter, tSubs[l].filter)
    BY <2>1, <2>4 DEF MqttWider
  <2>6. MqttGood(tSubs[l].filter) /\ MqttGood(tSubs[k].filter)
    BY <1>1 DEF MqttRows, MqttGood
  <2>7. tSubs[l].filter = tSubs[k].filter
    BY <2>5, <2>6, MqttCoversOneWay
  <2> QED BY <2>7, <1>6 DEF FilterList, MqttApart
<1> QED BY <1>2, <1>3, <1>4, <1>5, <1>6

LEMMA FilterIsRight == ASSUME FilterList PROVE Filtering!NarrowedRight
BY FilterIsWell, FilterAddsNone, FilterPairs DEF Filtering!NarrowedRight

-----------------------------------------------------------------------------
(***************************************************************************)
(* The theorems.  A step of the whole is a step of one part, or none.      *)
(***************************************************************************)
LEMMA PartSteps ==
  ASSUME [MessagingNext]_messagingVars
  PROVE  /\ [Next]_vars /\ [Queues!Next]_queueVars /\ [Partition!Next]_partitionVars
         /\ [Kafka!Next]_kafkaVars /\ [Rabbit!Next]_rabbitVars
         /\ [Redis!Next]_redisVars /\ [Consumers!Next]_consumerVars
         /\ [Filtering!Wanted]_filterVars /\ [Mqtt!Next]_mqttVars
BY DEF MessagingNext, Rest, messagingVars

(* No caller is ever handed the answer to another call, whatever messages  *)
(* are late, duplicated or out of order.                                   *)
THEOREM NoForeignAnswer == Spec => []OwnReply
<1>1. BookInv => OwnReply
  BY DEF BookInv
<1> QED BY BookInit, BookNext, <1>1, PTL DEF Spec

(* The book holds no entry of a call that is over.                         *)
THEOREM BookDoesNotLeak == Spec => []NoLeak
<1>1. BookInv => NoLeak
  BY DEF BookInv
<1> QED BY BookInit, BookNext, <1>1, PTL DEF Spec

(* A caller whose future is unresolved has its place in the book, so that  *)
(* its answer, a lost connection or the shutdown can wake it.              *)
THEOREM WaitersAreReachable == Spec => []Reachable
<1>1. BookInv => Reachable
  BY DEF BookInv
<1> QED BY BookInit, BookNext, <1>1, PTL DEF Spec

(* consumers.py:465-472, for any number of processes: if nobody starts     *)
(* while another shuts down, no failed message is without a queue to go    *)
(* to, and no dead letter is deleted while somebody listens.               *)
THEOREM NothingIsTaken == MessagingSpec => []NothingTaken
<1>1. MessagingInit => QueuesInv
  BY QueuesInit DEF MessagingInit
<1>2. QueuesInv /\ [MessagingNext]_messagingVars => QueuesInv'
  BY PartSteps, QueuesNext
<1>3. QueuesInv => NothingTaken
  BY DEF QueuesInv, NothingTaken
<1> QED BY <1>1, <1>2, <1>3, PTL DEF MessagingSpec

(* kafka/consumers.py, for any number of processes, moves and crashes: an  *)
(* offset is committed only when everything before it has come to an end,  *)
(* records are begun in order, and one is delivered again only after a     *)
(* move or the end of a process.                                           *)
THEOREM PartitionIsSafe == MessagingSpec => []KafkaSafe
<1>1. PartitionProofs!Fits
  <2>1. Records3 \in Seq({"good", "invalid", "junk"})
    BY PartitionAssumption DEF Records3
  <2> QED BY <2>1, PartitionAssumption, ConsumersInstance
          DEF PartitionProofs!Fits, PartitionProofs!Offsets, Consumers!ConsumersAssumption
<1>2. MessagingInit => PartitionProofs!IInv
  <2>1. Partition!Init => PartitionProofs!Init
    BY DEF Partition!Init, PartitionProofs!Init, Partition!Off, PartitionProofs!Off,
       Partition!Offsets, PartitionProofs!Offsets, Records3
  <2> QED BY <1>1, <2>1, PartitionProofs!InitInv DEF MessagingInit
<1>3. PartitionProofs!IInv /\ [MessagingNext]_messagingVars => PartitionProofs!IInv'
  <2> USE DEF Partition!Go, PartitionProofs!Go, Partition!Group, PartitionProofs!Group, Partition!History, PartitionProofs!History, Partition!Member, PartitionProofs!Member,
              Partition!Settle, PartitionProofs!Settle, Partition!Leave, PartitionProofs!Leave, Partition!Off, PartitionProofs!Off, Partition!Offsets, PartitionProofs!Offsets,
              Records3
  <2>1. \A p \in Partners : Partition!Setup(p) => PartitionProofs!Setup(p)
    BY DEF Partition!Setup, PartitionProofs!Setup
  <2>2. \A p \in Partners, fine \in BOOLEAN : Partition!Start(p, fine) => PartitionProofs!Start(p, fine)
    BY DEF Partition!Start, PartitionProofs!Start
  <2>3. \A p \in Partners : Partition!Assign(p) => PartitionProofs!Assign(p)
    BY DEF Partition!Assign, PartitionProofs!Assign
  <2>4. \A p \in Partners : Partition!Poll(p) => PartitionProofs!Poll(p)
    BY DEF Partition!Poll, PartitionProofs!Poll
  <2>5. \A p \in Partners : Partition!Handled(p) => PartitionProofs!Handled(p)
    BY DEF Partition!Handled, PartitionProofs!Handled
  <2>6. \A p \in Partners : Partition!Permanent(p) => PartitionProofs!Permanent(p)
    BY DEF Partition!Permanent, PartitionProofs!Permanent
  <2>7. \A p \in Partners : Partition!Fails(p) => PartitionProofs!Fails(p)
    BY DEF Partition!Fails, PartitionProofs!Fails
  <2>8. \A p \in Partners : Partition!Again(p) => PartitionProofs!Again(p)
    BY DEF Partition!Again, PartitionProofs!Again
  <2>9. \A p \in Partners, published \in BOOLEAN : Partition!MoveToDlt(p, published) => PartitionProofs!MoveToDlt(p, published)
    BY DEF Partition!MoveToDlt, PartitionProofs!MoveToDlt
  <2>10. \A p \in Partners : Partition!Commit(p) => PartitionProofs!Commit(p)
    BY DEF Partition!Commit, PartitionProofs!Commit
  <2>11. \A p \in Partners : Partition!Rest(p) => PartitionProofs!Rest(p)
    BY DEF Partition!Rest, PartitionProofs!Rest
  <2>12. \A p \in Partners : Partition!Lost(p) => PartitionProofs!Lost(p)
    BY DEF Partition!Lost, PartitionProofs!Lost
  <2>13. \A p \in Partners : Partition!Shutdown(p) => PartitionProofs!Shutdown(p)
    BY DEF Partition!Shutdown, PartitionProofs!Shutdown
  <2>14. \A p \in Partners : Partition!Crash(p) => PartitionProofs!Crash(p)
    BY DEF Partition!Crash, PartitionProofs!Crash
  <2>15. Partition!Revoke => PartitionProofs!Revoke
    BY DEF Partition!Revoke, PartitionProofs!Revoke
  <2>16. Partition!Expire => PartitionProofs!Expire
    BY DEF Partition!Expire, PartitionProofs!Expire
  <2> HIDE DEF Partition!Go, PartitionProofs!Go, Partition!Group, PartitionProofs!Group, Partition!History, PartitionProofs!History, Partition!Member, PartitionProofs!Member,
               Partition!Settle, PartitionProofs!Settle, Partition!Leave, PartitionProofs!Leave, Partition!Off, PartitionProofs!Off, Partition!Offsets, PartitionProofs!Offsets
  <2>17. \A p \in Partners : Partition!Run(p) => PartitionProofs!Run(p)
    BY <2>1, <2>2, <2>3, <2>4, <2>5, <2>6, <2>7, <2>8, <2>9, <2>10, <2>11 DEF Partition!Run, PartitionProofs!Run
  <2>18. [Partition!Next]_partitionVars => [PartitionProofs!Next]_(PartitionProofs!vars)
    BY <2>2, <2>12, <2>13, <2>14, <2>15, <2>16, <2>17
       DEF Partition!Next, PartitionProofs!Next, PartitionProofs!vars, partitionVars
  <2> QED BY <1>1, <2>18, PartSteps, PartitionProofs!NextKeeps
<1>4. PartitionProofs!IInv => KafkaSafe
  <2>1. PartitionProofs!KafkaSafe <=> Partition!KafkaSafe
    BY DEF Partition!KafkaSafe, PartitionProofs!KafkaSafe, Partition!NothingSkipped,
           PartitionProofs!NothingSkipped, Partition!OneAfterAnother,
           PartitionProofs!OneAfterAnother, Partition!AgainForAReason,
           PartitionProofs!AgainForAReason, Partition!Offsets, PartitionProofs!Offsets, Records3
  <2> QED BY <2>1, PartitionProofs!InvIsSafe DEF KafkaSafe
<1> QED BY <1>2, <1>3, <1>4, PTL DEF MessagingSpec

(* kafka/broker.py 300-420, for any number of calls and losses: where      *)
(* nothing fails and all callers have one reply topic, the loop reads on   *)
(* behind no reply that somebody waits for, an answer is the call's own,   *)
(* and the hooks have been run or the supervisor will see to it.           *)
THEOREM BrokerIsSafe == ASSUME OtherTopic = "p" PROVE MessagingSpec => []BrokerSafe
<1>0. OneTopic
  BY DEF OneTopic, ReplyTopic
<1>1. MessagingInit => KafkaInv
  BY KafkaInit DEF MessagingInit
<1>2. KafkaInv /\ [MessagingNext]_messagingVars => KafkaInv'
  BY <1>0, PartSteps, KafkaNext
<1>3. KafkaInv => BrokerSafe
  BY KafkaInvIsSafe DEF BrokerSafe
<1> QED BY <1>1, <1>2, <1>3, PTL DEF MessagingSpec

(* rabbitmq/broker.py, for any number of tasks, hooks, losses and items:   *)
(* the process never contradicts itself towards the server, what it        *)
(* remembers is true, hooks have run on the connection that is there,      *)
(* nobody waits on a channel that is gone, there is one such channel, and  *)
(* emit_many keeps to its concurrency and counts only what is stored.      *)
THEOREM RabbitIsSafe == MessagingSpec => []RabbitSafe
<1>1. MessagingInit => RabbitInv
  BY RabbitInit DEF MessagingInit
<1>2. RabbitInv /\ [MessagingNext]_messagingVars => RabbitInv'
  BY PartSteps, RabbitNext
<1>3. RabbitInv => RabbitSafe
  BY RabbitInvIsSafe DEF RabbitSafe
<1> QED BY <1>1, <1>2, <1>3, PTL DEF MessagingSpec

(* redis/client.py and redis/pubsub.py, for any number of losses, calls    *)
(* and messages: nobody waits deaf, there is one reply loop, the handlers  *)
(* hear the messages in order and none twice, and a supervisor is at work  *)
(* until the hooks have been run.                                          *)
THEOREM RedisIsSafe == MessagingSpec => []RedisSafe
<1>1. MessagingInit => RedisInv
  BY RedisInit DEF MessagingInit
<1>2. RedisInv /\ [MessagingNext]_messagingVars => RedisInv'
  BY PartSteps, RedisNext
<1>3. RedisInv => RedisSafe
  BY RedisInvIsSafe DEF RedisSafe
<1> QED BY <1>1, <1>2, <1>3, PTL DEF MessagingSpec

(* rabbitmq/consumers.py, for any number of processes, messages, attempts, *)
(* faults and cancelled handlers: no message is lost, none is given up     *)
(* before its attempts are used up, and an attempt is made once for every  *)
(* failure of the one before and every return of its copy to the queue.    *)
THEOREM ConsumersAreSafe == MessagingSpec => []ConsumersSafe
<1>1. MessagingInit => ConsumersInv
  BY ConsumersInit DEF MessagingInit
<1>2. ConsumersInv /\ [MessagingNext]_messagingVars => ConsumersInv'
  BY PartSteps, ConsumersNext
<1>3. ConsumersInv => ConsumersSafe
  BY ConsumersInvIsSafe DEF ConsumersSafe
<1> QED BY <1>1, <1>2, <1>3, PTL DEF MessagingSpec

(* mqtt/patterns.py, for any filters and topics: leaving out the filters   *)
(* that others cover costs no topic its subscription or its level, nothing *)
(* is subscribed to that nobody asked for, and of two filters no one that  *)
(* is covered stays.                                                       *)
THEOREM NarrowingIsRight == MessagingSpec => []NarrowedRight
<1>1. MessagingInit => FilterList
  BY DEF MessagingInit, Filtering!TopicsInit, FilterList, MqttApart
<1>2. FilterList /\ [MessagingNext]_messagingVars => FilterList'
  BY PartSteps, FilterNext
<1>3. FilterList => NarrowedRight
  BY FilterIsRight DEF NarrowedRight
<1> QED BY <1>1, <1>2, <1>3, PTL DEF MessagingSpec

(* mqtt/client.py, for any handlers, callers, losses and messages: whoever *)
(* waits would hear the answer, a loss leaves nobody waiting, each call    *)
(* has one end and no other call's answer, the handlers hear in order and  *)
(* all that asked, are subscribed again, and are told what is true.        *)
THEOREM MqttIsSafe == MessagingSpec => []MqttSafe
<1>1. MessagingInit => MqttInv
  BY MqttInit, MqttInstance DEF MessagingInit
<1>2. MqttInv /\ [MessagingNext]_messagingVars => MqttInv'
  BY PartSteps, MqttNext, MqttInstance
<1>3. MqttInv => MqttSafe
  BY MqttInvIsSafe, MqttInstance DEF MqttSafe
<1> QED BY <1>1, <1>2, <1>3, PTL DEF MessagingSpec
=============================================================================
