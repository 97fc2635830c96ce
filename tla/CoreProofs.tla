------------------------------ MODULE CoreProofs ------------------------------
(***************************************************************************)
(* Proofs about the parts of core/ that MCCore puts side by side, for      *)
(* every value of the constants: connection events, the event bus, the     *)
(* lifespan, the job queue and the container; and (by the modules about    *)
(* them) the pool of blocking calls and the WebSocket gateway.             *)
(***************************************************************************)
EXTENDS MCCore, FiniteSetTheorems, SequenceTheorems, TLAPS

-----------------------------------------------------------------------------
(***************************************************************************)
(* Connection events: changes are reported in order; and when the client   *)
(* ends its connection loop before close(), they take turns.               *)
(***************************************************************************)

USE EventsAssumption
USE DEF Events, Hooks, vars

(* Only changes with handlers are queued.                                  *)
Handled == \A i \in 1..Len(queue) : Hooks(queue[i].event) > 0

LEMMA NoChangeEvent == NoChange.event = "disconnect" /\ NoChange.number = 0
BY DEF NoChange

(* A change is queued with the next number, at the end.                    *)
LEMMA MarkType ==
  ASSUME TypeOK, NEW up \in BOOLEAN, Mark(up)
  PROVE  /\ changes' = changes + 1 /\ changes' \in 1..MaxChanges
         /\ connected' = up /\ connected # up
         /\ UNCHANGED <<current, hook, last, phase, aborts>>
         /\ task' \in {"none", "waiting", "handling", "dead"}
         /\ \/ queue' = queue
            \/ \E change \in Change : /\ change.number = changes'
                                      /\ change.event = "connect" <=> up
                                      /\ queue' = Append(queue, change)
<1> DEFINE change == [event |-> IF up THEN "connect" ELSE "disconnect", number |-> changes']
<1>1. changes' = changes + 1 /\ changes' \in 1..MaxChanges
  BY DEF TypeOK, Mark
<1>2. change \in Change /\ change.number = changes' /\ (change.event = "connect" <=> up)
  BY <1>1 DEF Change
<1>3. queue' = queue \/ queue' = Append(queue, change)
  BY DEF Mark, Enqueue
<1>4. task' \in {"none", "waiting", "handling", "dead"}
  BY DEF TypeOK, Mark, Enqueue
<1> QED
  BY <1>1, <1>2, <1>3, <1>4 DEF Mark

(* The head of the queue is taken, the others move up by one place.        *)
LEMMA TakeQueue ==
  ASSUME TypeOK, Take
  PROVE  /\ Len(queue) \in Nat /\ Len(queue) > 0 /\ queue \in Seq(Change)
         /\ current' = queue[1] /\ last' = queue[1] /\ queue[1] \in Change
         /\ queue' \in Seq(Change) /\ Len(queue') = Len(queue) - 1
         /\ \A i \in 1..Len(queue') : queue'[i] = queue[i + 1]
BY DEF TypeOK, Take

LEMMA ChangeFields ==
  ASSUME NEW change \in Change \cup {NoChange}
  PROVE  change.event \in Events /\ change.number \in Nat
BY NoChangeEvent DEF Change

LEMMA EmptyQueue == <<>> \in Seq(Change) /\ 1..Len(<<>>) = {}
OBVIOUS

LEMMA TypeInit == Init => TypeOK /\ Handled
<1> SUFFICES ASSUME Init PROVE TypeOK /\ Handled
  OBVIOUS
<1>1. Handled
  BY EmptyQueue DEF Init, Handled
<1>2. queue \in Seq(Change)
  BY EmptyQueue DEF Init
<1>3. hook \in 0..Hooks(current.event)
  BY NoChangeEvent DEF Init
<1> QED
  <2>1. changes \in 0..MaxChanges /\ aborts \in 0..MaxAborts
    BY DEF Init
  <2> QED
    BY <1>2, <1>1, <1>3, <2>1 DEF Init, TypeOK

LEMMA TypeStep == TypeOK /\ Handled /\ [Next]_vars => TypeOK' /\ Handled'
<1> SUFFICES ASSUME TypeOK, Handled, [Next]_vars PROVE TypeOK' /\ Handled'
  OBVIOUS
<1>1. ASSUME NEW up \in BOOLEAN, Mark(up) PROVE TypeOK' /\ Handled'
  <2>1. queue' \in Seq(Change)
    BY <1>1, MarkType DEF TypeOK
  <2>2. Handled'
    <3>1. CASE queue' = queue
      BY <3>1 DEF Handled
    <3>2. ASSUME NEW change, queue' = Append(queue, change), Hooks(change.event) # 0,
                 change.event \in Events
          PROVE Handled'
      BY <3>2 DEF TypeOK, Handled
    <3> QED
      BY <1>1, <3>1, <3>2 DEF Mark, Enqueue
  <2> QED
    BY <1>1, <2>1, <2>2, MarkType DEF TypeOK
<1>2. CASE Take
  <2>1. Handled'
    BY <1>2, TakeQueue DEF Handled
  <2>2. Hooks(queue[1].event) > 0
    BY <1>2, TakeQueue DEF Handled
  <2>3. hook' \in 0..Hooks(current'.event)
    BY <1>2, <2>2, TakeQueue DEF Take, Change
  <2> QED
    BY <1>2, <2>1, <2>3, TakeQueue DEF TypeOK, Take
<1>3. CASE HandlerEnds \/ HandlerAborts
  BY <1>3, NoChangeEvent DEF TypeOK, Handled, HandlerEnds, HandlerAborts
<1>4. CASE Close
  BY <1>4 DEF TypeOK, Handled, Close
<1>5. CASE Joined \/ CloseTimeout
  <2>1. CancelTask
    BY <1>5 DEF Joined, CloseTimeout
  <2>2. Handled' /\ queue' \in Seq(Change)
    BY <2>1, EmptyQueue DEF CancelTask, Handled
  <2>3. hook' \in 0..Hooks(current'.event)
    BY <2>1, NoChangeEvent DEF CancelTask
  <2> QED
    BY <2>1, <2>2, <2>3 DEF TypeOK, CancelTask
<1>6. CASE UNCHANGED vars
  BY <1>6 DEF TypeOK, Handled
<1> QED
  BY <1>1, <1>2, <1>3, <1>4, <1>5, <1>6 DEF Next, MarkConnected, MarkDisconnected

(* Every reachable state has the types of TypeOK: the handler that runs is *)
(* always one of those declared for the change at hand.                    *)
THEOREM TypeCorrect == Spec => []TypeOK
BY TypeInit, TypeStep, PTL DEF Spec

-----------------------------------------------------------------------------
(* The queue is in order, and no number is ahead of the count of changes.  *)
Numbered == /\ InOrder
            /\ last.number <= changes
            /\ \A i \in 1..Len(queue) : queue[i].number <= changes

LEMMA NumberedStep == TypeOK /\ Numbered /\ [Next]_vars => Numbered'
<1> SUFFICES ASSUME TypeOK, Numbered, [Next]_vars PROVE Numbered'
  OBVIOUS
<1>0. last.number \in Nat /\ changes \in Nat /\ \A i \in 1..Len(queue) : queue[i].number \in Nat
  <2>1. \A i \in 1..Len(queue) : queue[i] \in Change
    BY DEF TypeOK
  <2> QED
    BY <2>1, ChangeFields DEF TypeOK
<1>1. ASSUME NEW up \in BOOLEAN, Mark(up) PROVE Numbered'
  <2>1. CASE queue' = queue
    <3>1. last' = last /\ changes' = changes + 1
      BY <1>1, MarkType
    <3> QED BY <1>0, <2>1, <3>1 DEF Numbered, InOrder
  <2>2. ASSUME NEW change \in Change, change.number = changes', queue' = Append(queue, change)
        PROVE Numbered'
    <3>1. /\ Len(queue') = Len(queue) + 1 /\ Len(queue) \in Nat
          /\ queue'[Len(queue) + 1] = change
          /\ \A i \in 1..Len(queue) : queue'[i] = queue[i]
      BY <2>2 DEF TypeOK
    <3>2. changes' = changes + 1 /\ last' = last
      BY <1>1, MarkType
    <3>3. \A i \in 1..Len(queue') : queue'[i].number <= changes' /\ last'.number < queue'[i].number
      BY <1>0, <2>2, <3>1, <3>2 DEF Numbered, InOrder
    <3>4. \A i, k \in 1..Len(queue') : i < k => queue'[i].number < queue'[k].number
      BY <1>0, <2>2, <3>1, <3>2 DEF Numbered, InOrder
    <3> QED
      BY <1>0, <3>2, <3>3, <3>4 DEF Numbered, InOrder
  <2> QED
    BY <1>1, <2>1, <2>2, MarkType
<1>2. CASE Take
  BY <1>0, <1>2, TakeQueue DEF Numbered, InOrder, Take
<1>3. CASE Joined \/ CloseTimeout
  BY <1>3, EmptyQueue DEF Numbered, InOrder, Joined, CloseTimeout, CancelTask
<1>4. CASE UNCHANGED <<changes, queue, last>>
  BY <1>4 DEF Numbered, InOrder
<1> QED
  BY <1>1, <1>2, <1>3, <1>4
     DEF Next, MarkConnected, MarkDisconnected, HandlerEnds, HandlerAborts, Close

(* The changes reach the handlers in the order in which they happened.     *)
THEOREM ReportedInOrder == Spec => []InOrder
<1>1. Init => Numbered
  BY NoChangeEvent, EmptyQueue DEF Init, Numbered, InOrder
<1>2. Numbered => InOrder
  BY DEF Numbered
<1> QED
  BY <1>1, <1>2, TypeInit, TypeStep, NumberedStep, PTL DEF Spec

-----------------------------------------------------------------------------
(***************************************************************************)
(* Turns.  With handlers of both kinds every change is queued, and the     *)
(* filter of mark_* makes each one the opposite of the one before; the     *)
(* last one in the queue agrees with _connected until close() resets it.   *)
(***************************************************************************)
Newest == IF Len(queue) = 0 THEN last ELSE queue[Len(queue)]

Turns == /\ Len(queue) > 0 => queue[1].event # last.event
         /\ \A i \in 1..Len(queue) : i < Len(queue) => queue[i].event # queue[i + 1].event
         /\ phase = "open" => (connected <=> Newest.event = "connect")

LEMMA TurnsStep ==
  ASSUME OnConnect > 0, OnDisconnect > 0, ~MarksWhileClosing,
         TypeOK, Turns, [Next]_vars
  PROVE  Turns'
<1>0. /\ last.event \in Events /\ Len(queue) \in Nat
      /\ \A i \in 1..Len(queue) : queue[i].event \in Events
  <2>1. Len(queue) \in Nat /\ \A i \in 1..Len(queue) : queue[i] \in Change
    BY DEF TypeOK
  <2> QED
    BY <2>1, ChangeFields DEF TypeOK
<1>1. ASSUME NEW up \in BOOLEAN, Mark(up) PROVE Turns'
  <2> DEFINE change == [event |-> IF up THEN "connect" ELSE "disconnect", number |-> changes']
  <2>1. /\ queue' = Append(queue, change) /\ last' = last /\ phase = "open"
        /\ connected' = up /\ connected # up
    BY <1>1 DEF Mark, Enqueue
  <2>2. change \in Change /\ (change.event = "connect" <=> up)
    BY <1>1, MarkType DEF Change
  <2>3. /\ Len(queue') = Len(queue) + 1
        /\ queue'[Len(queue) + 1] = change
        /\ \A i \in 1..Len(queue) : queue'[i] = queue[i]
    BY <2>1, <2>2 DEF TypeOK
  <2>4. Newest.event # change.event /\ Newest.event \in Events
    BY <1>0, <2>1, <2>2 DEF Turns, Newest, TypeOK
  <2> HIDE DEF change
  <2>5. Len(queue') > 0 => queue'[1].event # last'.event
    BY <1>0, <2>1, <2>3, <2>4 DEF Turns, Newest
  <2>6. \A i \in 1..Len(queue') : i < Len(queue') => queue'[i].event # queue'[i + 1].event
    BY <1>0, <2>1, <2>3, <2>4 DEF Turns, Newest
  <2>7. Newest' = change
    BY <1>0, <2>3 DEF Newest
  <2> QED
    BY <2>1, <2>2, <2>5, <2>6, <2>7 DEF Turns
<1>2. CASE Take
  <2>1. Newest' = Newest
    BY <1>0, <1>2, TakeQueue DEF Newest
  <2> QED
    BY <1>0, <1>2, <2>1, TakeQueue DEF Turns, Take
<1>3. CASE Joined \/ CloseTimeout
  BY <1>3, EmptyQueue DEF Turns, Joined, CloseTimeout, CancelTask
<1>4. CASE Close
  BY <1>4 DEF Turns, Close
<1>5. CASE UNCHANGED <<queue, last, phase, connected>>
  BY <1>5 DEF Turns, Newest
<1> QED
  BY <1>1, <1>2, <1>3, <1>4, <1>5
     DEF Next, MarkConnected, MarkDisconnected, HandlerEnds, HandlerAborts

(* An infrastructure that ends its loop before close() reports a connect   *)
(* first, and then disconnects and connects in turn.                       *)
THEOREM ReportsTakeTurns ==
  ASSUME OnConnect > 0, OnDisconnect > 0, ~MarksWhileClosing
  PROVE  Spec => TakesTurns
<1>1. Init => Turns
  BY NoChangeEvent, EmptyQueue DEF Init, Turns, Newest
<1>2. TypeOK /\ Turns /\ [Next]_vars => (last' # last => last'.event # last.event)
  <2> SUFFICES ASSUME TypeOK, Turns, [Next]_vars, last' # last
               PROVE  last'.event # last.event
    OBVIOUS
  <2>1. Take
    BY DEF Next, MarkConnected, MarkDisconnected, Mark, HandlerEnds, HandlerAborts,
           Close, Joined, CloseTimeout, CancelTask
  <2> QED
    BY <2>1, TakeQueue DEF Turns
<1>3. TypeOK /\ Turns /\ [Next]_vars => Turns'
  BY TurnsStep
<1>4. (last' # last => last'.event # last.event) => [last' # last => last'.event # last.event]_vars
  OBVIOUS
<1> QED
  BY <1>1, <1>2, <1>3, TypeInit, TypeStep, PTL DEF Spec, TakesTurns

HIDE EventsAssumption
HIDE DEF Events, Hooks, vars

-----------------------------------------------------------------------------
(***************************************************************************)
(* Event bus: a handler that runs is one that its row of the book still    *)
(* has due, the dispatched ones are counted, and a row is answered once.   *)
(***************************************************************************)

LEMMA BusCounts == \A S : Bus!Cardinality(S) = Cardinality(S) /\ Bus!IsFiniteSet(S) = IsFiniteSet(S)
BY DEF Bus!Cardinality, Cardinality, Bus!IsFiniteSet, IsFiniteSet

Levels == STRING \cup {"*"}
BusEntry == [kind : {"emit", "dispatch"}, event : BusEvents, due : SUBSET BusListeners,
             ok : SUBSET BusListeners, ended : SUBSET BusListeners, answer : Int \cup {NULL}]
BusBooked == /\ bStarted \in BOOLEAN /\ bClosing \in BOOLEAN /\ bDynamic \subseteq BusListeners
             /\ bCalls \in Seq(BusEntry) /\ bGauge \in Int
             /\ IsFiniteSet(bTasks) /\ bTasks \subseteq (1..Len(bCalls)) \X BusListeners
             /\ bPending \subseteq Bus!Detached /\ bCancelled \subseteq Bus!Detached
BusUnanswered == \A t \in bTasks : t[2] \in bCalls[t[1]].due \ bCalls[t[1]].ended
BusInv == BusBooked /\ BusUnanswered /\ Bus!Tracked /\ Bus!GaugeTrue /\ Bus!WithinLimit /\ Bus!Isolated /\ Bus!Addressed

LEMMA MatchesFit ==
  ASSUME NEW p \in Seq(STRING), NEW e \in Seq(STRING), \A i \in DOMAIN p : p[i] = "#" => i = Len(p),
         Bus!Matches(p, e)
  PROVE  Bus!Fits(p, e)
<1>1. Len(p) \in Nat /\ Len(e) \in Nat /\ DOMAIN p = 1..Len(p) /\ DOMAIN e = 1..Len(e)
  OBVIOUS
<1>2. CASE \E i \in DOMAIN p : p[i] = "#"
  <2>1. Len(p) > 0 /\ p[Len(p)] = "#" /\ p # << >>
    BY <1>1, <1>2
  <2>2. Len(p) - 1 <= Len(e) /\ \A i \in 1..Len(p) - 1 : p[i] \in {"*", e[i]}
    BY <1>1, <1>2 DEF Bus!Matches
  <2> DEFINE n == Len(e) - (Len(p) - 1)
             s1 == SubSeq(p, 1, Len(p) - 1)
             s2 == [i \in 1..n |-> "*"]
  <2>3. n \in 0..Len(e)
    BY <1>1, <2>1, <2>2
  <2>4. s1 \in Seq(Levels) /\ Len(s1) = Len(p) - 1 /\ \A i \in 1..Len(p) - 1 : s1[i] = p[i]
    <3>1. Len(p) - 1 \in Int /\ \A i \in 1..Len(p) - 1 : p[i] \in Levels
      BY <1>1, <2>1 DEF Levels
    <3> QED BY <3>1, <1>1, <2>1, SubSeqProperties
  <2>5. s2 \in Seq(Levels) /\ Len(s2) = n /\ \A i \in 1..n : s2[i] = "*"
    <3>1. n \in Nat
      BY <2>3
    <3> HIDE DEF n
    <3>2. s2 \in [1..n -> Levels]
      BY DEF Levels
    <3>3. s2 \in Seq(Levels)
      BY <3>1, <3>2, SeqDef
    <3>4. DOMAIN s2 = 1..n
      OBVIOUS
    <3>5. Len(s2) = n
      BY <3>1, <3>3, <3>4, LenProperties
    <3> QED BY <3>3, <3>5
  <2> HIDE DEF s1, s2
  <2>6. /\ Len(s1 \o s2) = Len(e)
        /\ \A i \in 1..Len(e) : (s1 \o s2)[i] = IF i <= Len(p) - 1 THEN s1[i] ELSE s2[i - (Len(p) - 1)]
    <3>1. /\ Len(s1 \o s2) = Len(s1) + Len(s2)
          /\ \A i \in 1..Len(s1) + Len(s2) : (s1 \o s2)[i] = IF i <= Len(s1) THEN s1[i] ELSE s2[i - Len(s1)]
      BY <2>4, <2>5, ConcatProperties
    <3>2. Len(s1) + Len(s2) = Len(e)
      BY <1>1, <2>4, <2>5
    <3> QED BY <3>1, <3>2, <2>4
  <2>7. \A i \in 1..Len(e) : (s1 \o s2)[i] \in {"*", e[i]}
    <3> SUFFICES ASSUME NEW i \in 1..Len(e)
                 PROVE  (s1 \o s2)[i] \in {"*", e[i]}
      OBVIOUS
    <3>1. CASE i <= Len(p) - 1
      BY <3>1, <1>1, <2>2, <2>4, <2>6
    <3>2. CASE ~(i <= Len(p) - 1)
      <4>1. i - (Len(p) - 1) \in 1..n
        BY <3>2, <1>1, <2>1
      <4> QED BY <3>2, <4>1, <1>1, <2>5, <2>6
    <3> QED BY <3>1, <3>2
  <2>8. Bus!Spread(p, n) = s1 \o s2
    BY <2>1 DEF Bus!Spread, s1, s2
  <2> QED BY <1>1, <2>3, <2>6, <2>7, <2>8 DEF Bus!Fits
<1>3. CASE ~ \E i \in DOMAIN p : p[i] = "#"
  <2>1. Len(p) = Len(e) /\ \A i \in 1..Len(p) : p[i] \in {"*", e[i]}
    BY <1>1, <1>3 DEF Bus!Matches
  <2>2. Bus!Spread(p, 0) = p
    <3>1. p # << >> => Len(p) \in DOMAIN p
      BY <1>1, EmptySeq
    <3> QED BY <3>1, <1>3 DEF Bus!Spread
  <2>3. 0 \in 0..Len(e)
    BY <1>1
  <2> QED BY <1>1, <2>1, <2>2, <2>3 DEF Bus!Fits
<1> QED BY <1>2, <1>3

LEMMA BusRows ==
  ASSUME BusBooked
  PROVE  /\ Len(bCalls) \in Nat /\ DOMAIN bCalls = 1..Len(bCalls)
         /\ \A c \in 1..Len(bCalls) : bCalls[c] \in BusEntry
         /\ Bus!Detached \subseteq bTasks /\ IsFiniteSet(Bus!Detached)
         /\ IsFiniteSet(bPending) /\ IsFiniteSet(BusListeners)
         /\ \A t \in bTasks : t[1] \in 1..Len(bCalls) /\ t[2] \in BusListeners
<1>1. Len(bCalls) \in Nat /\ DOMAIN bCalls = 1..Len(bCalls) /\ \A c \in 1..Len(bCalls) : bCalls[c] \in BusEntry
  BY ElementOfSeq DEF BusBooked
<1>2. Bus!Detached \subseteq bTasks
  BY DEF Bus!Detached
<1>3. IsFiniteSet(Bus!Detached)
  BY <1>2, FS_Subset DEF BusBooked
<1>4. IsFiniteSet(bPending)
  BY <1>3, FS_Subset DEF BusBooked
<1>5. \A t \in bTasks : t[1] \in 1..Len(bCalls) /\ t[2] \in BusListeners
  BY DEF BusBooked
<1> QED BY <1>1, <1>2, <1>3, <1>4, <1>5, BusInstance, BusCounts DEF Bus!BusAssumption

(* A new row of the book, with its handlers.                               *)
LEMMA BusCalled ==
  ASSUME BusInv, NEW kind \in {"emit", "dispatch"}, NEW event \in BusEvents, NEW due \in SUBSET Bus!Targets(event),
         NEW answer \in Int \cup {NULL}, Bus!Call(kind, event, due, answer),
         kind = "emit" => answer = (IF due = {} THEN 0 ELSE NULL),
         bTasks' = bTasks \cup ({Len(bCalls) + 1} \X due),
         bPending' = bPending \cup (IF kind = "dispatch" THEN {Len(bCalls) + 1} \X due ELSE {}),
         bGauge' = bGauge + (IF kind = "dispatch" THEN Cardinality({Len(bCalls) + 1} \X due) ELSE 0),
         due # {} /\ kind = "dispatch" => Cardinality(bPending) < BusPending,
         UNCHANGED << bStarted, bClosing, bDynamic, bCancelled >>
  PROVE  BusInv'
<1> DEFINE n == Len(bCalls) + 1
           new == {n} \X due
           row == [kind |-> kind, event |-> event, due |-> due, ok |-> {}, ended |-> {}, answer |-> answer]
<1>1. BusBooked /\ BusUnanswered /\ Bus!Tracked /\ Bus!GaugeTrue /\ Bus!WithinLimit /\ Bus!Isolated /\ Bus!Addressed
  BY DEF BusInv
<1>2. /\ Len(bCalls) \in Nat /\ DOMAIN bCalls = 1..Len(bCalls)
      /\ \A c \in 1..Len(bCalls) : bCalls[c] \in BusEntry
      /\ Bus!Detached \subseteq bTasks /\ IsFiniteSet(Bus!Detached)
      /\ IsFiniteSet(bPending) /\ IsFiniteSet(BusListeners)
      /\ \A t \in bTasks : t[1] \in 1..Len(bCalls) /\ t[2] \in BusListeners
  BY <1>1, BusRows
<1>3. due \subseteq BusListeners /\ \A l \in due : Bus!Matches(BusPattern[l], event)
  BY <1>1, BusInstance, BusCounts DEF Bus!Targets, BusBooked, Bus!BusAssumption
<1>4. row \in BusEntry /\ bCalls' = Append(bCalls, row)
  BY <1>3 DEF BusEntry, Bus!Call
<1>5. /\ bCalls' \in Seq(BusEntry) /\ Len(bCalls') = n /\ bCalls'[n] = row
      /\ \A c \in 1..Len(bCalls) : bCalls'[c] = bCalls[c]
      /\ DOMAIN bCalls' = 1..n
  BY <1>4, <1>1, AppendProperties DEF BusBooked
<1>6. IsFiniteSet(due) /\ IsFiniteSet(new) /\ Cardinality(new) = Cardinality(due) /\ Cardinality(due) <= Cardinality(BusListeners)
  <2>1. IsFiniteSet(due) /\ Cardinality(due) <= Cardinality(BusListeners)
    BY <1>2, <1>3, FS_Subset
  <2>2. IsFiniteSet({n}) /\ Cardinality({n}) = 1
    BY FS_Singleton
  <2>3. IsFiniteSet(new) /\ Cardinality(new) = Cardinality({n}) * Cardinality(due)
    BY <2>1, <2>2, FS_Product
  <2>4. Cardinality(due) \in Nat
    BY <2>1, FS_CardinalityType
  <2> QED BY <2>1, <2>2, <2>3, <2>4
<1>7. \A t \in new : t[1] = n /\ t[2] \in due
  OBVIOUS
<1>8. bTasks' = bTasks \cup new /\ new \cap bTasks = {}
  BY <1>2, <1>7
<1>9. Bus!Detached' = Bus!Detached \cup (IF kind = "dispatch" THEN new ELSE {})
  <2>1. \A t \in bTasks : bCalls'[t[1]].kind = bCalls[t[1]].kind
    BY <1>2, <1>5
  <2>2. \A t \in new : bCalls'[t[1]].kind = kind
    BY <1>5, <1>7
  <2> QED BY <1>8, <2>1, <2>2 DEF Bus!Detached
<1> HIDE DEF new, n, row
<1>10. BusBooked'
  <2>1. IsFiniteSet(bTasks')
    <3>1. IsFiniteSet(bTasks)
      BY <1>1 DEF BusBooked
    <3>2. IsFiniteSet(bTasks \cup new)
      BY <3>1, <1>6, FS_Union
    <3>3. bTasks' = bTasks \cup new
      BY <1>8
    <3> QED BY <3>2, <3>3
  <2>2. Cardinality(new) \in Nat
    BY <1>6, FS_CardinalityType
  <2>3. bTasks' \subseteq (1..n) \X BusListeners
    BY <1>1, <1>2, <1>3, <1>8 DEF BusBooked, n, new
  <2>4. bGauge' \in Int
    BY <1>1, <2>2 DEF BusBooked, new, n
  <2>5. bPending' \subseteq Bus!Detached' /\ bCancelled' \subseteq Bus!Detached'
    BY <1>1, <1>9 DEF BusBooked, new, n
  <2> QED BY <1>1, <1>5, <2>1, <2>3, <2>4, <2>5 DEF BusBooked
<1>11. BusUnanswered'
  BY <1>1, <1>2, <1>5, <1>7, <1>8 DEF BusUnanswered, row
<1>12. Bus!Tracked'
  BY <1>1, <1>9 DEF Bus!Tracked, new, n
<1>13. Bus!GaugeTrue'
  <2>1. Cardinality(Bus!Detached \cup new) = Cardinality(Bus!Detached) + Cardinality(new)
    <3>1. Bus!Detached \cap new = {}
      BY <1>2, <1>8
    <3>2. Cardinality(Bus!Detached \cup new) = Cardinality(Bus!Detached) + Cardinality(new) - Cardinality({})
      BY <3>1, <1>2, <1>6, FS_Union
    <3>3. Cardinality(Bus!Detached) \in Nat /\ Cardinality(new) \in Nat /\ Cardinality({}) = 0
      BY <1>2, <1>6, FS_CardinalityType, FS_EmptySet
    <3> QED BY <3>2, <3>3
  <2>2. CASE kind = "dispatch"
    BY <2>1, <2>2, <1>1, <1>9, BusCounts DEF Bus!GaugeTrue, new, n
  <2>3. CASE kind # "dispatch"
    <3>1. Bus!Detached' = Bus!Detached
      BY <2>3, <1>9
    <3>2. bGauge' = bGauge
      BY <2>3, <1>1 DEF BusBooked
    <3> QED BY <3>1, <3>2, <1>1, BusCounts DEF Bus!GaugeTrue
  <2> QED BY <2>2, <2>3
<1>14. Bus!WithinLimit'
  <2>1. CASE kind = "dispatch" /\ due # {}
    <3>1. bPending' = bPending \cup new
      BY <2>1 DEF new, n
    <3>2. Cardinality(bPending \cup new) = Cardinality(bPending) + Cardinality(new) - Cardinality(bPending \cap new)
      BY <1>2, <1>6, FS_Union
    <3>3. Cardinality(bPending) \in Nat /\ Cardinality(new) \in Nat /\ Cardinality(bPending \cap new) \in Nat /\ Cardinality(BusListeners) \in Nat
      BY <1>2, <1>6, FS_CardinalityType, FS_Subset
    <3>4. Cardinality(bPending') <= Cardinality(bPending) + Cardinality(new)
      <4>1. Cardinality(bPending') = Cardinality(bPending) + Cardinality(new) - Cardinality(bPending \cap new)
        BY <3>1, <3>2
      <4> QED BY <4>1, <3>3
    <3>5. Cardinality(bPending') \in Nat
      BY <3>1, <3>2, <3>3, <1>2, <1>6, FS_Union, FS_CardinalityType
    <3>6. BusPending \in Nat
      BY BusInstance, BusCounts DEF Bus!BusAssumption
    <3> QED BY <3>3, <3>4, <3>5, <3>6, <1>6, <2>1, BusCounts DEF Bus!WithinLimit
  <2>2. CASE ~ (kind = "dispatch" /\ due # {})
    <3>1. bPending' = bPending
      BY <2>2
    <3> QED BY <3>1, <1>1, BusCounts DEF Bus!WithinLimit
  <2> QED BY <2>1, <2>2
<1>15. Bus!Isolated'
  <2> SUFFICES ASSUME NEW c \in 1..n, bCalls'[c].kind = "emit", bCalls'[c].answer \notin {NULL, Bus!Raised}
               PROVE  bCalls'[c].ended = bCalls'[c].due /\ bCalls'[c].answer = Cardinality(bCalls'[c].ok)
    BY <1>5, BusCounts DEF Bus!Isolated
  <2>1. CASE c = n
    <3>1. due = {} /\ answer = 0
      BY <2>1, <1>5 DEF row
    <3> QED BY <2>1, <3>1, <1>5, FS_EmptySet DEF row
  <2>2. CASE c # n
    <3>1. c \in 1..Len(bCalls)
      BY <2>2, <1>2 DEF n
    <3> QED BY <3>1, <1>1, <1>2, <1>5, BusCounts DEF Bus!Isolated
  <2> QED BY <2>1, <2>2
<1>16. Bus!Addressed'
  <2> SUFFICES ASSUME NEW c \in 1..n, NEW l \in bCalls'[c].due
               PROVE  Bus!Fits(BusPattern[l], bCalls'[c].event)
    BY <1>5 DEF Bus!Addressed
  <2>1. CASE c = n
    <3>1. l \in BusListeners /\ Bus!Matches(BusPattern[l], event) /\ bCalls'[c].event = event
      BY <2>1, <1>3, <1>5 DEF row
    <3>2. BusPattern[l] \in Seq(STRING) /\ event \in Seq(STRING) /\ \A i \in DOMAIN BusPattern[l] : BusPattern[l][i] = "#" => i = Len(BusPattern[l])
      BY <3>1, BusInstance, BusCounts DEF Bus!BusAssumption
    <3> QED BY <3>1, <3>2, MatchesFit
  <2>2. CASE c # n
    <3>1. c \in 1..Len(bCalls)
      BY <2>2, <1>2 DEF n
    <3> QED BY <3>1, <1>1, <1>2, <1>5 DEF Bus!Addressed
  <2> QED BY <2>1, <2>2
<1> QED BY <1>10, <1>11, <1>12, <1>13, <1>14, <1>15, <1>16 DEF BusInv

(* A handler is over: its row has it among those that ended.               *)
LEMMA BusOver ==
  ASSUME BusInv, NEW t \in bTasks, bTasks' = bTasks \ {t}, Bus!Finish(t),
         bCancelled' = bCancelled \ {t},
         bCalls' \in Seq(BusEntry), Len(bCalls') = Len(bCalls),
         \A c \in 1..Len(bCalls) : c # t[1] => bCalls'[c] = bCalls[c],
         LET old == bCalls[t[1]]
             row == bCalls'[t[1]]
         IN  /\ row.kind = old.kind /\ row.event = old.event /\ row.due = old.due
             /\ row.ended = old.ended \cup {t[2]}
             /\ old.answer \notin {NULL, Bus!Raised} => row.answer = old.answer
             /\ row.answer \notin {NULL, Bus!Raised} /\ old.answer \in {NULL, Bus!Raised}
                  => row.ended = row.due /\ row.answer = Cardinality(row.ok),
         UNCHANGED << bStarted, bClosing, bDynamic >>
  PROVE  BusInv'
<1>1. BusBooked /\ BusUnanswered /\ Bus!Tracked /\ Bus!GaugeTrue /\ Bus!WithinLimit /\ Bus!Isolated /\ Bus!Addressed
  BY DEF BusInv
<1>2. /\ Len(bCalls) \in Nat /\ DOMAIN bCalls = 1..Len(bCalls)
      /\ \A c \in 1..Len(bCalls) : bCalls[c] \in BusEntry
      /\ Bus!Detached \subseteq bTasks /\ IsFiniteSet(Bus!Detached)
      /\ IsFiniteSet(bPending) /\ IsFiniteSet(BusListeners)
      /\ \A u \in bTasks : u[1] \in 1..Len(bCalls) /\ u[2] \in BusListeners
  BY <1>1, BusRows
<1>3. PICK b : b = t[1] /\ b \in 1..Len(bCalls)
  BY <1>2
<1>4. DOMAIN bCalls' = 1..Len(bCalls)
  BY LenProperties
<1>5. \A c \in 1..Len(bCalls) : bCalls'[c].kind = bCalls[c].kind /\ bCalls'[c].due = bCalls[c].due /\ bCalls'[c].event = bCalls[c].event
  BY <1>3
<1>6. Bus!Detached' = Bus!Detached \ {t}
  BY <1>2, <1>5 DEF Bus!Detached
<1>7. IF t \in Bus!Detached THEN bPending' = bPending \ {t} /\ bGauge' = bGauge - 1
      ELSE bPending' = bPending /\ bGauge' = bGauge
  BY DEF Bus!Finish
<1>8. BusBooked'
  <2>1. IsFiniteSet(bTasks')
    <3>1. IsFiniteSet(bTasks)
      BY <1>1 DEF BusBooked
    <3>2. IsFiniteSet(bTasks \ {t})
      BY <3>1, FS_Subset
    <3> QED BY <3>2
  <2>2. bPending' \subseteq Bus!Detached'
    BY <1>1, <1>6, <1>7 DEF BusBooked
  <2>3. bCancelled' \subseteq Bus!Detached'
    BY <1>1, <1>6 DEF BusBooked
  <2>4. bGauge' \in Int
    BY <1>1, <1>7 DEF BusBooked
  <2> QED BY <1>1, <2>1, <2>2, <2>3, <2>4 DEF BusBooked
<1>9. BusUnanswered'
  <2> SUFFICES ASSUME NEW u \in bTasks \ {t}
               PROVE  u[2] \in bCalls'[u[1]].due \ bCalls'[u[1]].ended
    BY DEF BusUnanswered
  <2>1. u[2] \in bCalls[u[1]].due \ bCalls[u[1]].ended /\ u[1] \in 1..Len(bCalls)
    BY <1>1, <1>2 DEF BusUnanswered
  <2>2. CASE u[1] # t[1]
    BY <2>1, <2>2
  <2>3. CASE u[1] = t[1]
    <3>1. u[2] # t[2]
      <4>1. u \in (1..Len(bCalls)) \X BusListeners /\ t \in (1..Len(bCalls)) \X BusListeners
        BY <1>1 DEF BusBooked
      <4> QED BY <4>1, <2>3
    <3> QED BY <2>1, <2>3, <3>1
  <2> QED BY <2>2, <2>3
<1>10. Bus!Tracked'
  BY <1>1, <1>6, <1>7 DEF Bus!Tracked
<1>11. Bus!GaugeTrue'
  <2>1. CASE t \in Bus!Detached
    <3>1. Cardinality(Bus!Detached \ {t}) = Cardinality(Bus!Detached) - 1
      BY <2>1, <1>2, FS_RemoveElement
    <3> QED BY <3>1, <2>1, <1>1, <1>6, <1>7, BusCounts DEF Bus!GaugeTrue
  <2>2. CASE t \notin Bus!Detached
    <3>1. Bus!Detached' = Bus!Detached
      BY <2>2, <1>6
    <3> QED BY <3>1, <2>2, <1>1, <1>7, BusCounts DEF Bus!GaugeTrue
  <2> QED BY <2>1, <2>2
<1>12. Bus!WithinLimit'
  <2>1. bPending' \subseteq bPending
    BY <1>7
  <2>2. Cardinality(bPending') <= Cardinality(bPending)
    BY <2>1, <1>2, FS_Subset
  <2>3. Cardinality(bPending) \in Nat /\ Cardinality(bPending') \in Nat /\ Cardinality(BusListeners) \in Nat /\ BusPending \in Nat
    BY <2>1, <1>2, FS_Subset, FS_CardinalityType, BusInstance, BusCounts DEF Bus!BusAssumption
  <2> QED BY <2>2, <2>3, <1>1, BusCounts DEF Bus!WithinLimit
<1>13. Bus!Isolated'
  <2> SUFFICES ASSUME NEW c \in 1..Len(bCalls), bCalls'[c].kind = "emit", bCalls'[c].answer \notin {NULL, Bus!Raised}
               PROVE  bCalls'[c].ended = bCalls'[c].due /\ bCalls'[c].answer = Cardinality(bCalls'[c].ok)
    BY <1>4, BusCounts DEF Bus!Isolated
  <2>1. CASE c # t[1]
    BY <2>1, <1>1, <1>2, BusCounts DEF Bus!Isolated
  <2>2. CASE c = t[1] /\ bCalls[c].answer \in {NULL, Bus!Raised}
    BY <2>2
  <2>3. CASE c = t[1] /\ bCalls[c].answer \notin {NULL, Bus!Raised}
    <3>1. bCalls[c].ended = bCalls[c].due
      BY <2>3, <1>1, <1>2, <1>5, BusCounts DEF Bus!Isolated
    <3>2. t[2] \in bCalls[c].due \ bCalls[c].ended
      BY <2>3, <1>1 DEF BusUnanswered
    <3> QED BY <3>1, <3>2
  <2> QED BY <2>1, <2>2, <2>3
<1>14. Bus!Addressed'
  BY <1>1, <1>2, <1>4, <1>5 DEF Bus!Addressed
<1> QED BY <1>8, <1>9, <1>10, <1>11, <1>12, <1>13, <1>14 DEF BusInv

LEMMA BusEnded ==
  ASSUME BusInv, NEW t \in bTasks, t \notin bCancelled, NEW ok \in BOOLEAN, Bus!Ended(t, ok),
         UNCHANGED << bStarted, bClosing, bDynamic, bCancelled >>
  PROVE  BusInv'
<1>1. BusBooked /\ t[1] \in 1..Len(bCalls) /\ t[2] \in BusListeners /\ bCalls[t[1]] \in BusEntry
  BY BusRows DEF BusInv
<1> DEFINE old == bCalls[t[1]]
           call == [old EXCEPT !.ended = @ \cup {t[2]}, !.ok = IF ok THEN @ \cup {t[2]} ELSE @]
           row == IF call.ended = call.due /\ call.answer = NULL
                  THEN [call EXCEPT !.answer = Cardinality(call.ok)] ELSE call
<1>2. bTasks' = bTasks \ {t} /\ Bus!Finish(t) /\ bCalls' = [bCalls EXCEPT ![t[1]] = row]
  <2>1. /\ bTasks' = bTasks \ {t} /\ Bus!Finish(t)
        /\ bCalls' = [bCalls EXCEPT ![t[1]] = IF call.ended = call.due /\ call.answer = NULL
                        THEN [call EXCEPT !.answer = Bus!Cardinality(call.ok)] ELSE call]
    BY DEF Bus!Ended
  <2>2. Bus!Cardinality(call.ok) = Cardinality(call.ok)
    BY BusCounts
  <2> HIDE DEF call
  <2> QED BY <2>1, <2>2
<1>3. call \in BusEntry /\ IsFiniteSet(call.ok)
  <2>1. call \in BusEntry
    BY <1>1 DEF BusEntry
  <2>2. call.ok \subseteq BusListeners
    BY <2>1 DEF BusEntry
  <2> QED BY <2>1, <2>2, FS_Subset, BusInstance, BusCounts DEF Bus!BusAssumption
<1>4. /\ call.kind = old.kind /\ call.event = old.event /\ call.due = old.due
      /\ call.ended = old.ended \cup {t[2]} /\ call.answer = old.answer
  BY <1>1 DEF BusEntry
<1>5. Cardinality(call.ok) \in Int
  BY <1>3, FS_CardinalityType
<1> HIDE DEF call
<1>6. row \in BusEntry
  BY <1>3, <1>5 DEF BusEntry
<1>7. /\ row.kind = old.kind /\ row.event = old.event /\ row.due = old.due
      /\ row.ended = old.ended \cup {t[2]}
      /\ old.answer \notin {NULL, Bus!Raised} => row.answer = old.answer
      /\ row.answer \notin {NULL, Bus!Raised} /\ old.answer \in {NULL, Bus!Raised}
           => row.ended = row.due /\ row.answer = Cardinality(row.ok)
  BY <1>3, <1>4 DEF BusEntry
<1> HIDE DEF row
<1>8. /\ bCalls' \in Seq(BusEntry) /\ Len(bCalls') = Len(bCalls) /\ bCalls'[t[1]] = row
      /\ \A c \in 1..Len(bCalls) : c # t[1] => bCalls'[c] = bCalls[c]
  BY <1>1, <1>2, <1>6, ExceptSeq DEF BusBooked
<1>9. bCancelled' = bCancelled \ {t}
  OBVIOUS
<1> QED BY <1>2, <1>7, <1>8, <1>9, BusOver

LEMMA BusCancelled ==
  ASSUME BusInv, NEW t, Bus!Cancelled(t)
  PROVE  BusInv'
<1>0. t \in bTasks
  BY DEF Bus!Cancelled
<1>1. BusBooked /\ t[1] \in 1..Len(bCalls) /\ t[2] \in BusListeners /\ bCalls[t[1]] \in BusEntry
  BY <1>0, BusRows DEF BusInv
<1> DEFINE old == bCalls[t[1]]
           row == [old EXCEPT !.ended = @ \cup {t[2]}, !.answer = IF @ = NULL THEN Bus!Raised ELSE @]
<1>2. /\ row \in BusEntry
      /\ row.kind = old.kind /\ row.event = old.event /\ row.due = old.due
      /\ row.ended = old.ended \cup {t[2]}
      /\ row.answer = IF old.answer = NULL THEN Bus!Raised ELSE old.answer
  <2>1. Bus!Raised \in Int
    BY DEF Bus!Raised
  <2>2. (IF old.answer = NULL THEN Bus!Raised ELSE old.answer) \in Int \cup {NULL}
    BY <1>1, <2>1 DEF BusEntry
  <2>3. old.ended \cup {t[2]} \in SUBSET BusListeners
    BY <1>1 DEF BusEntry
  <2> QED BY <1>1, <2>2, <2>3 DEF BusEntry
<1>3. bCalls' = [bCalls EXCEPT ![t[1]] = row]
  BY <1>1 DEF Bus!Cancelled, BusBooked
<1> HIDE DEF row
<1>4. /\ bCalls' \in Seq(BusEntry) /\ Len(bCalls') = Len(bCalls) /\ bCalls'[t[1]] = row
      /\ \A c \in 1..Len(bCalls) : c # t[1] => bCalls'[c] = bCalls[c]
  BY <1>1, <1>2, <1>3, ExceptSeq DEF BusBooked
<1>5. bTasks' = bTasks \ {t} /\ Bus!Finish(t) /\ bCancelled' = bCancelled \ {t} /\ UNCHANGED << bStarted, bClosing, bDynamic >>
  BY DEF Bus!Cancelled
<1> QED BY <1>0, <1>2, <1>4, <1>5, BusOver

LEMMA BusInit == Bus!Init => BusInv
<1> SUFFICES ASSUME Bus!Init
             PROVE  BusInv
  OBVIOUS
<1>1. bCalls = << >> /\ bTasks = {} /\ bPending = {} /\ bCancelled = {} /\ bGauge = 0 /\ Len(bCalls) = 0 /\ DOMAIN bCalls = {}
  BY DEF Bus!Init
<1>2. Bus!Detached = {}
  BY <1>1 DEF Bus!Detached
<1>3. BusBooked
  <2>1. << >> \in Seq(BusEntry) /\ IsFiniteSet({})
    BY EmptySeq, FS_EmptySet
  <2>2. bCalls \in Seq(BusEntry) /\ IsFiniteSet(bTasks)
    BY <1>1, <2>1
  <2>3. bStarted \in BOOLEAN /\ bClosing \in BOOLEAN /\ bDynamic \subseteq BusListeners
    BY DEF Bus!Init
  <2> QED BY <1>1, <1>2, <2>2, <2>3 DEF BusBooked
<1>4. Bus!WithinLimit
  <2>1. Cardinality({}) = 0 /\ Cardinality(BusListeners) \in Nat /\ BusPending \in Nat \ {0}
    BY FS_EmptySet, FS_CardinalityType, BusInstance, BusCounts DEF Bus!BusAssumption
  <2> QED BY <1>1, <2>1, BusCounts DEF Bus!WithinLimit
<1>5. Bus!GaugeTrue /\ Bus!Tracked /\ BusUnanswered /\ Bus!Isolated /\ Bus!Addressed
  BY <1>1, <1>2, FS_EmptySet, BusCounts DEF Bus!GaugeTrue, Bus!Tracked, BusUnanswered, Bus!Isolated, Bus!Addressed
<1> QED BY <1>3, <1>4, <1>5 DEF BusInv

LEMMA BusNext == BusInv /\ [Bus!Next]_busVars => BusInv'
<1> SUFFICES ASSUME BusInv, [Bus!Next]_busVars
             PROVE  BusInv'
  OBVIOUS
<1>1. CASE UNCHANGED << bCalls, bTasks, bCancelled, bPending, bGauge >> /\ bStarted' \in BOOLEAN /\ bClosing' \in BOOLEAN /\ bDynamic' \subseteq BusListeners
  BY <1>1, BusCounts DEF BusInv, BusBooked, BusUnanswered, Bus!Tracked, Bus!GaugeTrue, Bus!WithinLimit, Bus!Isolated, Bus!Addressed, Bus!Detached
<1>2. CASE Bus!Drained
  <2>1. BusBooked /\ IsFiniteSet(bPending)
    BY BusRows DEF BusInv
  <2>2. Bus!Detached' = Bus!Detached
    BY <1>2 DEF Bus!Drained, Bus!Detached
  <2>3. BusBooked'
    BY <2>1, <2>2, <1>2 DEF Bus!Drained, BusBooked
  <2>4. Bus!WithinLimit'
    <3>1. Cardinality({}) = 0 /\ Cardinality(BusListeners) \in Nat /\ BusPending \in Nat \ {0} /\ bPending' = {}
      BY <1>2, FS_EmptySet, FS_CardinalityType, BusInstance, BusCounts DEF Bus!BusAssumption, Bus!Drained
    <3> QED BY <3>1, BusCounts DEF Bus!WithinLimit
  <2>5. UNCHANGED << bCalls, bTasks, bGauge >>
    BY <1>2 DEF Bus!Drained
  <2>6. Bus!Tracked'
    BY <2>2, <1>2 DEF Bus!Drained, Bus!Tracked, BusInv
  <2> QED BY <2>2, <2>3, <2>4, <2>5, <2>6, BusCounts DEF BusInv, BusUnanswered, Bus!GaugeTrue, Bus!Isolated, Bus!Addressed
<1>3. ASSUME NEW e \in BusEvents, Bus!Emit(e)
      PROVE  BusInv'
  <2>1. PICK due : due = Bus!Targets(e)
    OBVIOUS
  <2>2. Bus!Call("emit", e, due, IF due = {} THEN 0 ELSE NULL) /\ bTasks' = bTasks \cup ({Len(bCalls) + 1} \X due)
    BY <1>3, <2>1 DEF Bus!Emit
  <2>3. UNCHANGED << bStarted, bClosing, bDynamic, bCancelled, bPending, bGauge >>
    BY <1>3 DEF Bus!Emit
  <2>4. bGauge \in Int
    BY DEF BusInv, BusBooked
  <2>5. (IF due = {} THEN 0 ELSE NULL) \in Int \cup {NULL}
    OBVIOUS
  <2>6. /\ bPending' = bPending \cup (IF "emit" = "dispatch" THEN {Len(bCalls) + 1} \X due ELSE {})
        /\ bGauge' = bGauge + (IF "emit" = "dispatch" THEN Cardinality({Len(bCalls) + 1} \X due) ELSE 0)
    BY <2>3, <2>4
  <2> QED BY <2>1, <2>2, <2>3, <2>5, <2>6, BusCalled
<1>4. ASSUME NEW e \in BusEvents, Bus!Dispatch(e)
      PROVE  BusInv'
  <2>1. PICK due : due = IF Cardinality(bPending) >= BusPending THEN {} ELSE Bus!Targets(e)
    OBVIOUS
  <2>2. /\ Bus!Call("dispatch", e, due, Cardinality(due)) /\ bTasks' = bTasks \cup ({Len(bCalls) + 1} \X due)
        /\ bPending' = bPending \cup ({Len(bCalls) + 1} \X due)
        /\ bGauge' = bGauge + Cardinality({Len(bCalls) + 1} \X due)
        /\ UNCHANGED << bStarted, bClosing, bDynamic, bCancelled >>
    BY <1>4, <2>1, BusCounts DEF Bus!Dispatch
  <2>3. Cardinality(bPending) \in Nat /\ BusPending \in Nat
    BY BusRows, FS_CardinalityType, BusInstance, BusCounts DEF Bus!BusAssumption, BusInv
  <2>4. due \subseteq Bus!Targets(e) /\ (due # {} => Cardinality(bPending) < BusPending)
    BY <2>1, <2>3
  <2>5. Cardinality(due) \in Int
    <3>1. due \subseteq BusListeners
      BY <2>4, BusInstance, BusCounts DEF Bus!Targets, Bus!BusAssumption, BusInv, BusBooked
    <3> QED BY <3>1, FS_Subset, FS_CardinalityType, BusInstance, BusCounts DEF Bus!BusAssumption
  <2> QED BY <2>2, <2>4, <2>5, BusCalled
<1>5. ASSUME NEW t \in bTasks, Bus!Return(t) \/ Bus!Fail(t) \/ Bus!Timeout(t)
      PROVE  BusInv'
  <2>1. t \notin bCancelled /\ UNCHANGED << bStarted, bClosing, bDynamic, bCancelled >>
    BY <1>5 DEF Bus!Return, Bus!Fail, Bus!Timeout
  <2>2. CASE Bus!Return(t)
    BY <2>1, <2>2, BusEnded DEF Bus!Return
  <2>3. CASE Bus!Fail(t) \/ Bus!Timeout(t)
    BY <2>1, <2>3, BusEnded DEF Bus!Fail, Bus!Timeout
  <2> QED BY <1>5, <2>2, <2>3
<1>6. ASSUME NEW l \in BusListeners \ BusStatic, Bus!Subscribe(l) \/ Bus!Unsubscribe(l)
      PROVE  BusInv'
  <2>1. bStarted \in BOOLEAN /\ bClosing \in BOOLEAN /\ bDynamic \subseteq BusListeners
    BY DEF BusInv, BusBooked
  <2> QED BY <1>1, <1>6, <2>1 DEF Bus!Subscribe, Bus!Unsubscribe
<1>7. CASE Bus!Startup \/ Bus!Shutdown \/ UNCHANGED busVars
  <2>1. bStarted \in BOOLEAN /\ bClosing \in BOOLEAN /\ bDynamic \subseteq BusListeners
    BY DEF BusInv, BusBooked
  <2> QED BY <1>1, <1>7, <2>1 DEF Bus!Startup, Bus!Shutdown, busVars
<1> QED BY <1>2, <1>3, <1>4, <1>5, <1>6, <1>7, BusCancelled DEF Bus!Next

LEMMA BusInvIsSafe == BusInv => Bus!BusSafe
BY DEF BusInv, Bus!BusSafe

-----------------------------------------------------------------------------
(***************************************************************************)
(* Lifespan: what is started is what Startup has begun, less what Shutdown *)
(* has ended.                                                              *)
(***************************************************************************)

Begun(n) == {Life!Startup[i] : i \in 1..n}
Ended(n) == {Life!Shutdown[i] : i \in 1..n}
LifeInv == /\ lPhase \in {"starting", "serving", "stopping", "stopped", "failed"}
           /\ lPhase \in {"starting", "failed"} => lAt \in 1..19 /\ lUp = Begun(lAt - 1)
           /\ lPhase = "serving" => lAt = 1 /\ lUp = Begun(18)
           /\ lPhase \in {"stopping", "stopped"} => lAt \in 1..14 /\ lUp = Begun(18) \ Ended(lAt - 1)
           /\ Life!BackgroundIsHeard

LEMMA LifeParts ==
  /\ Len(Life!Startup) = 18 /\ Len(Life!Shutdown) = 13 /\ DOMAIN Life!Shutdown = 1..13
  /\ \A i \in 1..18 : Life!Startup[i] \in Life!Background => i > 15
  /\ Life!Infrastructure \cup {"events"} \subseteq Begun(15)
  /\ Life!Startup[1] = "database" /\ Life!Startup[16] = "jobs" /\ Life!Startup[17] = "scheduler" /\ Life!Startup[18] = "workers"
  /\ Life!Shutdown[1] = "workers" /\ Life!Shutdown[2] = "scheduler" /\ Life!Shutdown[3] = "jobs"
  /\ \A i \in 1..13 : Life!Shutdown[i] \in Life!Infrastructure \cup {"events"} => i > 3
  /\ \A i \in 1..12 : Life!Shutdown[i] # "database"
<1>1. Len(Life!Startup) = 18 /\ Len(Life!Shutdown) = 13 /\ DOMAIN Life!Shutdown = 1..13
  BY DEF Life!Startup, Life!Shutdown
<1>2. \A i \in 1..18 : Life!Startup[i] \in Life!Background => i > 15
  BY DEF Life!Startup, Life!Background
<1>3. Life!Infrastructure \cup {"events"} \subseteq Begun(15)
  <2>1. Life!Startup[1] = "database" /\ Life!Startup[2] = "websockets" /\ Life!Startup[3] = "broker" /\ Life!Startup[6] = "redis"
        /\ Life!Startup[11] = "mqtt" /\ Life!Startup[12] = "kafka" /\ Life!Startup[15] = "events"
    BY DEF Life!Startup
  <2> QED BY <2>1 DEF Begun, Life!Infrastructure
<1>4. Life!Startup[1] = "database" /\ Life!Startup[16] = "jobs" /\ Life!Startup[17] = "scheduler" /\ Life!Startup[18] = "workers"
  BY DEF Life!Startup
<1>5. Life!Shutdown[1] = "workers" /\ Life!Shutdown[2] = "scheduler" /\ Life!Shutdown[3] = "jobs"
  BY DEF Life!Shutdown
<1>6. \A i \in 1..13 : Life!Shutdown[i] \in Life!Infrastructure \cup {"events"} => i > 3
  BY DEF Life!Shutdown, Life!Infrastructure
<1>7. \A i \in 1..12 : Life!Shutdown[i] # "database"
  BY DEF Life!Shutdown
<1> QED BY <1>1, <1>2, <1>3, <1>4, <1>5, <1>6, <1>7

LEMMA LifeGrow ==
  /\ \A n \in 0..17 : Begun(n) \cup {Life!Startup[n + 1]} = Begun(n + 1)
  /\ \A n \in 0..12 : Ended(n) \cup {Life!Shutdown[n + 1]} = Ended(n + 1)
  /\ \A m, n \in 0..18 : m <= n => Begun(m) \subseteq Begun(n)
  /\ Begun(0) = {} /\ Ended(0) = {}
<1>1. \A n \in 0..17 : Begun(n) \cup {Life!Startup[n + 1]} = Begun(n + 1)
  <2>1. \A n \in 0..17 : 1..(n + 1) = (1..n) \cup {n + 1}
    OBVIOUS
  <2> QED BY <2>1 DEF Begun
<1>2. \A n \in 0..12 : Ended(n) \cup {Life!Shutdown[n + 1]} = Ended(n + 1)
  <2>1. \A n \in 0..12 : 1..(n + 1) = (1..n) \cup {n + 1}
    OBVIOUS
  <2> QED BY <2>1 DEF Ended
<1>3. \A m, n \in 0..18 : m <= n => Begun(m) \subseteq Begun(n)
  BY DEF Begun
<1>4. Begun(0) = {} /\ Ended(0) = {}
  BY DEF Begun, Ended
<1> QED BY <1>1, <1>2, <1>3, <1>4

LEMMA LifeReady == LifeInv => Life!BackgroundIsReady
<1> SUFFICES ASSUME LifeInv, NEW b \in Life!Background, b \in lUp
             PROVE  Life!Infrastructure \cup {"events"} \subseteq lUp
  BY DEF Life!BackgroundIsReady
<1>1. CASE lPhase \in {"starting", "failed"}
  <2>1. lAt \in 1..19 /\ lUp = Begun(lAt - 1)
    BY <1>1 DEF LifeInv
  <2>2. PICK i \in 1..lAt - 1 : b = Life!Startup[i]
    BY <2>1 DEF Begun
  <2>3. lAt - 1 \in 0..18 /\ i \in 1..18
    BY <2>1
  <2>4. i > 15
    BY <2>2, <2>3, LifeParts
  <2>5. Begun(15) \subseteq Begun(lAt - 1)
    BY <2>3, <2>4, LifeGrow
  <2> QED BY <2>1, <2>5, LifeParts
<1>2. CASE lPhase = "serving"
  <2>1. Begun(15) \subseteq Begun(18)
    BY LifeGrow
  <2> QED BY <1>2, <2>1, LifeParts DEF LifeInv
<1>3. CASE lPhase \in {"stopping", "stopped"}
  <2>1. lAt \in 1..14 /\ lUp = Begun(18) \ Ended(lAt - 1)
    BY <1>3 DEF LifeInv
  <2>2. lAt <= 3
    <3>1. b \notin Ended(lAt - 1) /\ b \in {"jobs", "scheduler", "workers"}
      BY <2>1 DEF Life!Background
    <3>2. \A i \in 1..lAt - 1 : b # Life!Shutdown[i]
      BY <3>1 DEF Ended
    <3> SUFFICES ASSUME lAt > 3
                 PROVE  FALSE
      BY <2>1
    <3>3. 1 \in 1..lAt - 1 /\ 2 \in 1..lAt - 1 /\ 3 \in 1..lAt - 1
      BY <2>1
    <3> QED BY <3>1, <3>2, <3>3, LifeParts
  <2>3. \A x \in Life!Infrastructure \cup {"events"} : x \notin Ended(lAt - 1)
    <3> SUFFICES ASSUME NEW i \in 1..lAt - 1, Life!Shutdown[i] \in Life!Infrastructure \cup {"events"}
                 PROVE  FALSE
      BY DEF Ended
    <3> QED BY <2>1, <2>2, LifeParts
  <2>4. Begun(15) \subseteq Begun(18)
    BY LifeGrow
  <2> QED BY <2>1, <2>3, <2>4, LifeParts
<1> QED BY <1>1, <1>2, <1>3 DEF LifeInv

LEMMA LifeBase == LifeInv => Life!DatabaseFirst
<1> SUFFICES ASSUME LifeInv, NEW s \in LifeSources, s \in lUp
             PROVE  "database" \in lUp
  BY DEF Life!DatabaseFirst
<1>1. \A n \in 1..18 : "database" \in Begun(n)
  <2>1. Life!Startup[1] = "database"
    BY LifeParts
  <2> QED BY <2>1 DEF Begun
<1>2. CASE lPhase \in {"starting", "failed"}
  <2>1. lAt \in 1..19 /\ lUp = Begun(lAt - 1)
    BY <1>2 DEF LifeInv
  <2>2. lAt # 1
    BY <2>1, LifeGrow
  <2> QED BY <1>1, <2>1, <2>2
<1>3. CASE lPhase = "serving"
  BY <1>1, <1>3 DEF LifeInv
<1>4. CASE lPhase \in {"stopping", "stopped"}
  <2>1. lAt \in 1..14 /\ lUp = Begun(18) \ Ended(lAt - 1)
    BY <1>4 DEF LifeInv
  <2>2. PICK j \in 1..13 : Life!Shutdown[j] = s
    BY LifeInstance, LifeParts DEF Life!LifespanAssumption
  <2>3. lAt <= 13
    <3> SUFFICES ASSUME lAt = 14
                 PROVE  s \in Ended(lAt - 1)
      BY <2>1
    <3> QED BY <2>2 DEF Ended
  <2>4. "database" \notin Ended(lAt - 1)
    <3> SUFFICES ASSUME NEW i \in 1..lAt - 1, Life!Shutdown[i] = "database"
                 PROVE  FALSE
      BY DEF Ended
    <3>1. i \in 1..12
      BY <2>1, <2>3
    <3> QED BY <3>1, LifeParts
  <2> QED BY <1>1, <2>1, <2>4
<1> QED BY <1>2, <1>3, <1>4 DEF LifeInv

LEMMA LifeInit == Life!Init => LifeInv
BY LifeGrow DEF Life!Init, LifeInv, Life!BackgroundIsHeard

LEMMA LifeNext == LifeInv /\ [Life!Next]_lifespanVars => LifeInv'
<1> SUFFICES ASSUME LifeInv, [Life!Next]_lifespanVars
             PROVE  LifeInv'
  OBVIOUS
<1>0. Life!BackgroundIsReady /\ Len(Life!Startup) = 18 /\ Len(Life!Shutdown) = 13
  BY LifeReady, LifeParts
<1>1. CASE Life!Start
  <2>1. lAt \in 1..18 /\ lUp = Begun(lAt - 1) /\ lUp' = lUp \cup {Life!Startup[lAt]} /\ lAt' = lAt + 1 /\ lPhase' = "starting"
    BY <1>0, <1>1 DEF Life!Start, LifeInv
  <2>2. lAt - 1 \in 0..17 /\ (lAt - 1) + 1 = lAt /\ lAt' - 1 = lAt /\ lAt' \in 1..19
    BY <2>1
  <2>3. lUp' = Begun(lAt' - 1)
    BY <2>1, <2>2, LifeGrow
  <2> QED BY <1>1, <2>1, <2>2, <2>3 DEF Life!Start, LifeInv, Life!BackgroundIsHeard
<1>2. CASE Life!StartFails
  BY <1>2 DEF Life!StartFails, LifeInv, Life!BackgroundIsHeard
<1>3. CASE Life!Serve
  <2>1. lAt \in 1..19 /\ lAt > 18 /\ lUp = Begun(lAt - 1)
    BY <1>0, <1>3 DEF Life!Serve, LifeInv
  <2>2. lUp = Begun(18)
    BY <2>1
  <2> QED BY <1>3, <2>2 DEF Life!Serve, LifeInv, Life!BackgroundIsHeard
<1>4. CASE Life!Stopping
  <2>1. lUp = Begun(18) \ Ended(0) /\ lAt = 1
    BY <1>4, LifeGrow DEF Life!Stopping, LifeInv
  <2> QED BY <1>4, <2>1 DEF Life!Stopping, LifeInv, Life!BackgroundIsHeard
<1>5. CASE Life!Stop
  <2>1. lAt \in 1..13 /\ lUp = Begun(18) \ Ended(lAt - 1) /\ lUp' = lUp \ {Life!Shutdown[lAt]} /\ lAt' = lAt + 1 /\ lPhase' = "stopping"
    BY <1>0, <1>5 DEF Life!Stop, LifeInv
  <2>2. lAt - 1 \in 0..12 /\ (lAt - 1) + 1 = lAt /\ lAt' - 1 = lAt /\ lAt' \in 1..14
    BY <2>1
  <2>3. lUp' = Begun(18) \ (Ended(lAt - 1) \cup {Life!Shutdown[lAt]})
    BY <2>1
  <2>4. lUp' = Begun(18) \ Ended(lAt' - 1)
    BY <2>2, <2>3, LifeGrow
  <2> QED BY <1>5, <2>1, <2>2, <2>4 DEF Life!Stop, LifeInv, Life!BackgroundIsHeard
<1>6. CASE Life!Stopped
  BY <1>6 DEF Life!Stopped, LifeInv, Life!BackgroundIsHeard
<1>7. CASE Life!RunJob
  BY <1>7 DEF Life!RunJob, LifeInv, Life!BackgroundIsHeard
<1>8. ASSUME NEW s \in LifeSources, Life!Event(s)
      PROVE  LifeInv'
  <2>1. s \in Life!Background => "events" \in lUp
    BY <1>0, <1>8 DEF Life!Event, Life!Running, Life!BackgroundIsReady
  <2> QED BY <1>8, <2>1 DEF Life!Event, LifeInv, Life!BackgroundIsHeard
<1>9. ASSUME NEW s \in LifeSources, Life!Submit(s)
      PROVE  LifeInv'
  <2>1. s \in Life!Background /\ lPhase = "stopping" => "jobs" \in lUp
    <3> SUFFICES ASSUME s \in {"jobs", "scheduler", "workers"}, lPhase = "stopping"
                 PROVE  "jobs" \in lUp
      BY DEF Life!Background
    <3>1. lAt \in 1..14 /\ lUp = Begun(18) \ Ended(lAt - 1) /\ s \in lUp
      BY <1>9 DEF LifeInv, Life!Submit, Life!Running
    <3>2. lAt <= 3
      <4> SUFFICES ASSUME lAt > 3
                   PROVE  s \in Ended(lAt - 1)
        BY <3>1
      <4>1. 1 \in 1..lAt - 1 /\ 2 \in 1..lAt - 1 /\ 3 \in 1..lAt - 1
        BY <3>1
      <4> QED BY <4>1, LifeParts DEF Ended
    <3>3. "jobs" \notin Ended(lAt - 1)
      <4> SUFFICES ASSUME NEW i \in 1..lAt - 1, Life!Shutdown[i] = "jobs"
                   PROVE  FALSE
        BY DEF Ended
      <4>1. i \in {1, 2}
        BY <3>1, <3>2
      <4> QED BY <4>1, LifeParts
    <3>4. "jobs" \in Begun(18)
      <4>1. Life!Startup[16] = "jobs"
        BY LifeParts
      <4> QED BY <4>1 DEF Begun
    <3> QED BY <3>1, <3>3, <3>4
  <2> QED BY <1>9, <2>1 DEF Life!Submit, LifeInv, Life!BackgroundIsHeard
<1>10. CASE UNCHANGED lifespanVars
  BY <1>10 DEF lifespanVars, LifeInv, Life!BackgroundIsHeard
<1> QED BY <1>1, <1>2, <1>3, <1>4, <1>5, <1>6, <1>7, <1>8, <1>9, <1>10 DEF Life!Next

LEMMA LifeInvIsSafe == LifeInv => Life!InOrder
BY LifeReady, LifeBase DEF LifeInv, Life!InOrder

-----------------------------------------------------------------------------
(***************************************************************************)
(* Job queue: what is queued is in the queue, what runs is with a worker,  *)
(* and what was accepted has been started or is in line.                   *)
(***************************************************************************)

JobKinds == /\ jQueue \in Seq(JobItems) /\ jWaiting \subseteq JobItems
            /\ jWorker \in [JobWorkers -> JobItems \cup {NULL}]
            /\ jFate \in [JobItems -> Jobs!Fates]
            /\ jAccepted \in Seq(JobItems) /\ jStarted \in Seq(JobItems)

JobQueued(i) == \E n \in 1..Len(jQueue) : jQueue[n] = i
JobCarried(i) == \E w \in JobWorkers : jWorker[w] = i

(* What is counted as queued is in the queue, once.                        *)
JobInQueue == /\ \A i \in JobItems : jFate[i] = "queued" <=> JobQueued(i)
              /\ \A m, n \in 1..Len(jQueue) : jQueue[m] = jQueue[n] => m = n

(* What is counted as running is with a worker, and with one only.         *)
JobAtWork == /\ \A i \in JobItems : jFate[i] = "running" <=> JobCarried(i)
             /\ \A v, w \in JobWorkers : jWorker[v] = jWorker[w] /\ jWorker[v] # NULL => v = w

(* A job that waits for room has not been taken.                           *)
JobStillNew == \A i \in jWaiting : jFate[i] = "new"

(* What was accepted has been started, or is in the queue.                 *)
JobLine == jAccepted = jStarted \o jQueue

JobInv == JobKinds /\ JobInQueue /\ JobAtWork /\ JobStillNew /\ JobLine

LEMMA JobInit == ASSUME Jobs!JobsAssumption PROVE Jobs!Init => JobInv
<1> SUFFICES ASSUME Jobs!Init PROVE JobInv
  OBVIOUS
<1>1. /\ jQueue = << >> /\ Len(jQueue) = 0 /\ jWaiting = {} /\ jAccepted = << >> /\ jStarted = << >>
      /\ \A i \in JobItems : jFate[i] = "new"
      /\ \A w \in JobWorkers : jWorker[w] = NULL
  BY DEF Jobs!Init
<1>2. JobKinds
  BY <1>1 DEF Jobs!Init, JobKinds, Jobs!Fates, Jobs!Settled
<1>3. JobInQueue /\ JobStillNew
  BY <1>1 DEF JobInQueue, JobQueued, JobStillNew
<1>4. JobAtWork
  BY <1>1 DEF Jobs!JobsAssumption, JobAtWork, JobCarried
<1>5. JobLine
  BY <1>1 DEF JobLine
<1> QED BY <1>2, <1>3, <1>4, <1>5 DEF JobInv

LEMMA JobStutter == ASSUME JobInv, UNCHANGED jobVars PROVE JobInv'
BY DEF jobVars, Jobs!vars, Jobs!runVars, Jobs!history, JobInv, JobKinds, JobInQueue, JobAtWork, JobStillNew, JobLine, JobQueued, JobCarried

-----------------------------------------------------------------------------
(* Sequences: a job joins at the end, the first one is moved over.         *)
LEMMA JoinsTheEnd ==
  ASSUME NEW S, NEW s \in Seq(S), NEW t \in Seq(S), NEW x \in S
  PROVE  Append(s \o t, x) = s \o Append(t, x)
OBVIOUS

LEMMA FirstMoves ==
  ASSUME NEW S, NEW s \in Seq(S), NEW t \in Seq(S), t # << >>
  PROVE  s \o t = Append(s, Head(t)) \o Tail(t)
OBVIOUS

LEMMA PrefixOfConcat ==
  ASSUME NEW S, NEW s \in Seq(S), NEW t \in Seq(S)
  PROVE  Jobs!IsPrefix(s, s \o t)
BY DEF Jobs!IsPrefix

-----------------------------------------------------------------------------
(* submit(): a job that is put in the queue was nowhere before.            *)
LEMMA JobPutKeeps ==
  ASSUME JobInv, NEW i \in JobItems, jFate[i] = "new", Jobs!Put(i),
         jWaiting' \subseteq jWaiting \ {i}, UNCHANGED << jWorker, jStarted >>
  PROVE  JobInv'
<1>1. /\ jQueue' = Append(jQueue, i) /\ jAccepted' = Append(jAccepted, i)
      /\ jFate' = [jFate EXCEPT ![i] = "queued"]
  BY DEF Jobs!Put, Jobs!Becomes
<1>2. JobKinds
  BY DEF JobInv
<1>3. JobKinds'
  BY <1>1, <1>2 DEF JobKinds, Jobs!Fates
<1>4. /\ Len(jQueue) \in Nat /\ Len(jQueue') = Len(jQueue) + 1 /\ jQueue'[Len(jQueue) + 1] = i
      /\ \A n \in 1..Len(jQueue) : jQueue'[n] = jQueue[n]
  BY <1>1, <1>2 DEF JobKinds
<1>5. \A j \in JobItems : jFate'[j] = IF j = i THEN "queued" ELSE jFate[j]
  BY <1>1, <1>2 DEF JobKinds
<1>6. ~ JobQueued(i)
  BY DEF JobInv, JobInQueue
<1>7. \A j \in JobItems : JobQueued(j)' <=> JobQueued(j) \/ j = i
  BY <1>4 DEF JobQueued
<1>8. JobInQueue'
  <2>1. \A j \in JobItems : jFate'[j] = "queued" <=> JobQueued(j)'
    BY <1>5, <1>7 DEF JobInv, JobInQueue
  <2>2. ASSUME NEW m \in 1..Len(jQueue'), NEW n \in 1..Len(jQueue'), jQueue'[m] = jQueue'[n]
        PROVE  m = n
    BY <1>4, <1>6, <2>2 DEF JobInv, JobInQueue, JobQueued
  <2> QED BY <2>1, <2>2 DEF JobInQueue
<1>9. JobAtWork'
  BY <1>5 DEF JobInv, JobAtWork, JobCarried
<1>10. JobStillNew'
  BY <1>2, <1>5 DEF JobInv, JobKinds, JobStillNew
<1>11. JobLine'
  <2>1. Append(jStarted \o jQueue, i) = jStarted \o Append(jQueue, i)
    BY <1>2, JoinsTheEnd DEF JobKinds
  <2> QED BY <1>1, <2>1 DEF JobInv, JobLine
<1> QED BY <1>3, <1>8, <1>9, <1>10, <1>11 DEF JobInv

LEMMA JobSubmitKeeps ==
  ASSUME JobInv, NEW i \in JobItems, Jobs!Submit(i) \/ Jobs!SubmitWait(i) \/ Jobs!PutAfterWait(i)
  PROVE  JobInv'
<1>1. CASE Jobs!Submit(i) /\ Jobs!Full
  <2>1. /\ jFate[i] = "new" /\ jFate' = [jFate EXCEPT ![i] = "rejected"] /\ i \notin jWaiting
        /\ UNCHANGED << jQueue, jWaiting, jWorker, jAccepted, jStarted >>
    BY <1>1 DEF Jobs!Submit, Jobs!Becomes, Jobs!runVars
  <2>2. \A j \in JobItems : jFate'[j] = IF j = i THEN "rejected" ELSE jFate[j]
    BY <2>1 DEF JobInv, JobKinds
  <2>3. JobKinds' /\ JobLine'
    BY <2>1 DEF JobInv, JobKinds, JobLine, Jobs!Fates
  <2>4. JobInQueue' /\ JobAtWork'
    BY <2>1, <2>2 DEF JobInv, JobInQueue, JobAtWork, JobQueued, JobCarried
  <2>5. JobStillNew'
    BY <2>1, <2>2 DEF JobInv, JobKinds, JobStillNew
  <2> QED BY <2>3, <2>4, <2>5 DEF JobInv
<1>2. CASE Jobs!Submit(i) /\ ~ Jobs!Full
  BY <1>2, JobPutKeeps DEF Jobs!Submit, Jobs!runVars
<1>3. CASE Jobs!SubmitWait(i)
  <2>1. /\ jFate[i] = "new" /\ jWaiting' = jWaiting \cup {i}
        /\ UNCHANGED << jQueue, jWorker, jFate, jAccepted, jStarted >>
    BY <1>3 DEF Jobs!SubmitWait, Jobs!runVars, Jobs!history
  <2> QED BY <2>1 DEF JobInv, JobKinds, JobInQueue, JobAtWork, JobStillNew, JobLine, JobQueued, JobCarried
<1>4. CASE Jobs!PutAfterWait(i)
  BY <1>4, JobPutKeeps DEF Jobs!PutAfterWait, Jobs!runVars, JobInv, JobStillNew
<1> QED BY <1>1, <1>2, <1>3, <1>4

-----------------------------------------------------------------------------
(* The workers.                                                            *)
LEMMA JobTakeKeeps ==
  ASSUME Jobs!JobsAssumption, JobInv, NEW w \in JobWorkers, Jobs!Take(w)
  PROVE  JobInv'
<1> DEFINE i == jQueue[1]
<1>1. /\ jWorker[w] = NULL /\ jQueue # << >> /\ jQueue' = Tail(jQueue) /\ Head(jQueue) = jQueue[1]
      /\ jStarted' = Append(jStarted, Head(jQueue)) /\ UNCHANGED << jWaiting, jAccepted >>
  BY DEF Jobs!Take, JobInv, JobKinds
<1>2. JobKinds
  BY DEF JobInv
<1>3. /\ Len(jQueue) \in Nat \ {0} /\ jQueue[1] \in JobItems
      /\ jQueue' \in Seq(JobItems) /\ Len(jQueue') = Len(jQueue) - 1
      /\ \A n \in 1..Len(jQueue') : jQueue'[n] = jQueue[n + 1]
  BY <1>1, <1>2 DEF JobKinds
<1>4. PICK j \in JobItems : j = jQueue[1]
  BY <1>3
<1>5. jFate[j] = "queued" /\ ~ JobCarried(j)
  BY <1>3, <1>4 DEF JobInv, JobInQueue, JobAtWork, JobQueued
<1>6. PICK x \in {NULL, j}, f \in {"running", "unknown"} :
        /\ jWorker' = [jWorker EXCEPT ![w] = x] /\ jFate' = [jFate EXCEPT ![j] = f]
        /\ f = "running" <=> x = j
  <2>1. NULL # j
    BY DEF Jobs!JobsAssumption
  <2>2. CASE j \in (JobItems \ {"x"})
    BY <1>1, <1>4, <2>1, <2>2 DEF Jobs!Take, Jobs!Becomes
  <2>3. CASE j \notin (JobItems \ {"x"})
    <3>1. jWorker' = [jWorker EXCEPT ![w] = NULL]
      BY <1>1, <1>2, <1>4, <2>3 DEF Jobs!Take, JobKinds
    <3> QED BY <1>1, <1>4, <2>1, <2>3, <3>1 DEF Jobs!Take, Jobs!Becomes
  <2> QED BY <2>2, <2>3
<1>7. /\ \A k \in JobItems : jFate'[k] = IF k = j THEN f ELSE jFate[k]
      /\ \A v \in JobWorkers : jWorker'[v] = IF v = w THEN x ELSE jWorker[v]
  BY <1>2, <1>6 DEF JobKinds
<1>8. JobKinds'
  <2>1. jWorker' \in [JobWorkers -> JobItems \cup {NULL}] /\ jFate' \in [JobItems -> Jobs!Fates]
    BY <1>2, <1>6 DEF JobKinds, Jobs!Fates, Jobs!Settled
  <2>2. jStarted' \in Seq(JobItems)
    BY <1>1, <1>2, <1>3 DEF JobKinds
  <2> QED BY <1>1, <1>2, <1>3, <2>1, <2>2 DEF JobKinds
<1>9. \A k \in JobItems : JobQueued(k)' <=> JobQueued(k) /\ k # j
  <2>1. ASSUME NEW k \in JobItems, JobQueued(k)' PROVE JobQueued(k) /\ k # j
    <3>1. PICK n \in 1..Len(jQueue') : jQueue'[n] = k
      BY <2>1 DEF JobQueued
    <3>2. n + 1 \in 1..Len(jQueue) /\ jQueue[n + 1] = k /\ n + 1 # 1 /\ 1 \in 1..Len(jQueue)
      BY <1>3, <3>1
    <3> QED BY <1>4, <3>2 DEF JobInv, JobInQueue, JobQueued
  <2>2. ASSUME NEW k \in JobItems, JobQueued(k), k # j PROVE JobQueued(k)'
    <3>1. PICK n \in 1..Len(jQueue) : jQueue[n] = k
      BY <2>2 DEF JobQueued
    <3>2. n - 1 \in 1..Len(jQueue') /\ jQueue'[n - 1] = jQueue[(n - 1) + 1] /\ (n - 1) + 1 = n
      BY <1>3, <1>4, <2>2, <3>1
    <3> QED BY <3>1, <3>2 DEF JobQueued
  <2> QED BY <2>1, <2>2
<1>10. JobInQueue'
  <2>1. \A k \in JobItems : jFate'[k] = "queued" <=> JobQueued(k)'
    BY <1>7, <1>9 DEF JobInv, JobInQueue
  <2>2. ASSUME NEW m \in 1..Len(jQueue'), NEW n \in 1..Len(jQueue'), jQueue'[m] = jQueue'[n]
        PROVE  m = n
    <3>1. m + 1 \in 1..Len(jQueue) /\ n + 1 \in 1..Len(jQueue) /\ jQueue[m + 1] = jQueue[n + 1]
      BY <1>3, <2>2
    <3>2. m + 1 = n + 1
      BY <3>1 DEF JobInv, JobInQueue
    <3> QED BY <1>3, <3>2
  <2> QED BY <2>1, <2>2 DEF JobInQueue
<1>11. \A k \in JobItems : JobCarried(k)' <=> JobCarried(k) \/ (k = j /\ x = j)
  BY <1>1, <1>6, <1>7 DEF JobCarried, Jobs!JobsAssumption
<1>12. JobAtWork'
  <2>1. \A k \in JobItems : jFate'[k] = "running" <=> JobCarried(k)'
    BY <1>5, <1>6, <1>7, <1>11 DEF JobInv, JobAtWork
  <2>2. ASSUME NEW u \in JobWorkers, NEW v \in JobWorkers, jWorker'[u] = jWorker'[v], jWorker'[u] # NULL
        PROVE  u = v
    BY <1>5, <1>6, <1>7, <2>2 DEF JobInv, JobAtWork, JobCarried
  <2> QED BY <2>1, <2>2 DEF JobAtWork
<1>13. JobStillNew'
  BY <1>1, <1>2, <1>5, <1>7 DEF JobInv, JobKinds, JobStillNew
<1>14. JobLine'
  BY <1>1, <1>2, FirstMoves DEF JobInv, JobKinds, JobLine
<1> QED BY <1>8, <1>10, <1>12, <1>13, <1>14 DEF JobInv

LEMMA JobWorkerKeeps ==
  ASSUME Jobs!JobsAssumption, JobInv, NEW w \in JobWorkers, Jobs!Succeed(w) \/ Jobs!Raise(w) \/ Jobs!Retry(w)
  PROVE  JobInv'
<1>1. ASSUME UNCHANGED << jQueue, jWaiting, jWorker, jFate, jAccepted, jStarted >> PROVE JobInv'
  BY <1>1 DEF JobInv, JobKinds, JobInQueue, JobAtWork, JobStillNew, JobLine, JobQueued, JobCarried
<1>2. ASSUME NEW f \in {"done", "failed"}, jWorker[w] # NULL, Jobs!Finish(w, f),
             UNCHANGED << jQueue, jWaiting, jAccepted, jStarted >>
      PROVE  JobInv'
  <2>1. PICK j \in JobItems : j = jWorker[w]
    BY <1>2 DEF JobInv, JobKinds
  <2>2. jWorker' = [jWorker EXCEPT ![w] = NULL] /\ jFate' = [jFate EXCEPT ![j] = f]
    BY <1>2, <2>1 DEF Jobs!Finish, Jobs!Becomes
  <2>3. jFate[j] = "running"
    BY <2>1 DEF JobInv, JobAtWork, JobCarried
  <2>4. /\ \A k \in JobItems : jFate'[k] = IF k = j THEN f ELSE jFate[k]
        /\ \A v \in JobWorkers : jWorker'[v] = IF v = w THEN NULL ELSE jWorker[v]
    BY <2>2 DEF JobInv, JobKinds
  <2>5. JobKinds' /\ JobLine'
    BY <1>2, <2>2 DEF JobInv, JobKinds, JobLine, Jobs!Fates, Jobs!Settled
  <2>6. JobInQueue'
    BY <1>2, <2>3, <2>4 DEF JobInv, JobInQueue, JobQueued
  <2>7. \A k \in JobItems : JobCarried(k)' <=> JobCarried(k) /\ k # j
    <3>1. \A v \in JobWorkers : jWorker[v] = j => v = w
      BY <1>2, <2>1 DEF JobInv, JobAtWork
    <3> QED BY <2>1, <2>4, <3>1 DEF JobCarried, Jobs!JobsAssumption
  <2>8. JobAtWork'
    BY <2>4, <2>7 DEF JobInv, JobAtWork
  <2>9. JobStillNew'
    BY <1>2, <2>3, <2>4 DEF JobInv, JobKinds, JobStillNew
  <2> QED BY <2>5, <2>6, <2>8, <2>9 DEF JobInv
<1>3. CASE Jobs!Succeed(w)
  BY <1>2, <1>3 DEF Jobs!Succeed, Jobs!history
<1>4. CASE Jobs!Raise(w)
  <2>1. CASE Jobs!LastAttempt(jWorker[w])
    BY <1>2, <1>4, <2>1 DEF Jobs!Raise, Jobs!history
  <2>2. CASE ~ Jobs!LastAttempt(jWorker[w])
    BY <1>1, <1>4, <2>2 DEF Jobs!Raise, Jobs!history
  <2> QED BY <2>1, <2>2
<1>5. CASE Jobs!Retry(w)
  BY <1>1, <1>5 DEF Jobs!Retry, Jobs!history
<1> QED BY <1>3, <1>4, <1>5

-----------------------------------------------------------------------------
(* shutdown(): what is cut is with no worker any more.                     *)
LEMMA JobStopKeeps ==
  ASSUME Jobs!JobsAssumption, JobInv, Jobs!Shutdown \/ Jobs!Joined \/ Jobs!DrainTimeout
  PROVE  JobInv'
<1>1. CASE Jobs!Shutdown /\ jQueue # << >>
  <2>1. UNCHANGED << jQueue, jWaiting, jWorker, jFate, jAccepted, jStarted >>
    BY <1>1 DEF Jobs!Shutdown, Jobs!runVars, Jobs!history
  <2> QED BY <2>1 DEF JobInv, JobKinds, JobInQueue, JobAtWork, JobStillNew, JobLine, JobQueued, JobCarried
<1>2. CASE Jobs!Stop
  <2>1. /\ \A w \in JobWorkers : jWorker'[w] = NULL
        /\ \A i \in JobItems : jFate'[i] = IF jFate[i] = "running" THEN "cut" ELSE jFate[i]
        /\ UNCHANGED << jQueue, jWaiting, jAccepted, jStarted >>
    BY <1>2 DEF Jobs!Stop, Jobs!history
  <2>2. JobKinds' /\ JobLine'
    BY <1>2 DEF Jobs!Stop, Jobs!history, JobInv, JobKinds, JobLine, Jobs!Fates, Jobs!Settled
  <2>3. JobInQueue'
    BY <2>1 DEF JobInv, JobInQueue, JobQueued
  <2>4. JobAtWork'
    BY <2>1 DEF JobAtWork, JobCarried, Jobs!JobsAssumption
  <2>5. JobStillNew'
    BY <2>1 DEF JobInv, JobKinds, JobStillNew
  <2> QED BY <2>2, <2>3, <2>4, <2>5 DEF JobInv
<1> QED BY <1>1, <1>2 DEF Jobs!Shutdown, Jobs!Joined, Jobs!DrainTimeout

LEMMA JobNext == ASSUME Jobs!JobsAssumption PROVE JobInv /\ [Jobs!Next]_jobVars => JobInv'
<1> SUFFICES ASSUME JobInv, [Jobs!Next]_jobVars PROVE JobInv'
  OBVIOUS
<1>1. CASE UNCHANGED jobVars
  BY <1>1, JobStutter
<1>2. ASSUME NEW w \in JobWorkers, Jobs!WorkerStep(w) PROVE JobInv'
  BY <1>2, JobTakeKeeps, JobWorkerKeeps DEF Jobs!WorkerStep
<1> QED BY <1>1, <1>2, JobSubmitKeeps, JobStopKeeps DEF Jobs!Next

-----------------------------------------------------------------------------
LEMMA CountOfOne ==
  ASSUME NEW S, \A x, y \in S : x = y
  PROVE  Cardinality(S) = IF S = {} THEN 0 ELSE 1
<1>1. CASE S = {}
  BY <1>1, FS_EmptySet
<1>2. CASE S # {}
  <2>1. PICK x : S = {x}
    BY <1>2
  <2> QED BY <1>2, <2>1, FS_Singleton
<1> QED BY <1>1, <1>2

LEMMA JobInvPlaced == ASSUME Jobs!JobsAssumption PROVE JobInv => Jobs!Placed
<1> SUFFICES ASSUME JobInv, NEW i \in JobItems
             PROVE  /\ Cardinality({n \in DOMAIN jQueue : jQueue[n] = i})
                         = (IF jFate[i] = "queued" THEN 1 ELSE 0)
                    /\ Cardinality({w \in JobWorkers : jWorker[w] = i})
                         = (IF jFate[i] = "running" THEN 1 ELSE 0)
  BY DEF Jobs!Placed, Jobs!Cardinality, Cardinality
<1>1. DOMAIN jQueue = 1..Len(jQueue)
  BY DEF JobInv, JobKinds
<1>2. PICK S : S = {n \in DOMAIN jQueue : jQueue[n] = i}
  OBVIOUS
<1>3. (\A m, n \in S : m = n) /\ (S # {} <=> jFate[i] = "queued")
  BY <1>1, <1>2 DEF JobInv, JobInQueue, JobQueued
<1>4. PICK T : T = {w \in JobWorkers : jWorker[w] = i}
  OBVIOUS
<1>5. (\A v, w \in T : v = w) /\ (T # {} <=> jFate[i] = "running")
  BY <1>4 DEF JobInv, JobAtWork, JobCarried, Jobs!JobsAssumption
<1> QED BY <1>2, <1>3, <1>4, <1>5, CountOfOne

LEMMA JobInvInOrder == JobInv => Jobs!InOrder
BY PrefixOfConcat DEF JobInv, JobKinds, JobLine, Jobs!InOrder

(* Who has joined has waited for every worker.                             *)
LEMMA JoinedCutsNothing ==
  ASSUME IsFiniteSet(JobWorkers), Jobs!JobsAssumption, JobInv, Jobs!Joined
  PROVE  \A i \in JobItems : jFate'[i] = "cut" => jFate[i] = "cut"
<1> DEFINE Busy == {w \in JobWorkers : jWorker[w] # NULL}
<1>1. IsFiniteSet(Busy)
  BY FS_Subset
<1>2. Cardinality(Busy) \in Nat /\ Len(jQueue) \in Nat /\ Len(jQueue) + Cardinality(Busy) = 0
  <2>1. Jobs!Cardinality(Busy) = Cardinality(Busy)
    BY DEF Jobs!Cardinality, Cardinality
  <2>2. Len(jQueue) + Jobs!Cardinality(Busy) = 0
    BY DEF Jobs!Joined, Jobs!Unfinished
  <2> QED BY <1>1, <2>1, <2>2, FS_CardinalityType DEF JobInv, JobKinds
<1>3. Busy = {}
  BY <1>1, <1>2, FS_EmptySet
<1>4. \A i \in JobItems : jFate[i] # "running"
  BY <1>3 DEF JobInv, JobAtWork, JobCarried, Jobs!JobsAssumption
<1>5. \A i \in JobItems : jFate'[i] = jFate[i]
  BY <1>4 DEF Jobs!Joined, Jobs!Stop
<1> QED BY <1>5

(* What the invariant gives to the theorem about the job queue.            *)
LEMMA JobKeeps ==
  /\ Jobs!Init => JobInv
  /\ JobInv /\ [Jobs!Next]_jobVars => JobInv'
  /\ JobInv => Jobs!Placed /\ Jobs!InOrder
  /\ JobInv => [Jobs!Joined => \A i \in JobItems : jFate'[i] = "cut" => jFate[i] = "cut"]_jobVars
<1>1. JobInv => [Jobs!Joined => \A i \in JobItems : jFate'[i] = "cut" => jFate[i] = "cut"]_jobVars
  BY JobsInstance, FiniteInstance, JoinedCutsNothing
<1> QED BY <1>1, JobsInstance, JobInit, JobNext, JobInvPlaced, JobInvInOrder

-----------------------------------------------------------------------------
(***************************************************************************)
(* The pool of blocking calls and the WebSocket gateway: the modules about *)
(* them, with the constants and the variables that they have here.         *)
(***************************************************************************)
PoolProofs == INSTANCE BlockingPoolProofs WITH
  NONE <- NULL, Size <- PoolSize, Calls <- PoolCalls, Stuck <- {},
  queue <- pQueue, idle <- pIdle, closed <- pClosed, threads <- pThreads, growing <- pGrowing, future <- pFuture

LEMMA PoolKeeps ==
  /\ Pool!Init => PoolProofs!IInv
  /\ PoolProofs!IInv /\ [Pool!Next]_poolVars => PoolProofs!IInv'
  /\ PoolProofs!IInv => Pool!PoolSafe
<1>1. PoolProofs!Fits
  BY PoolInstance DEF Pool!PoolAssumption, PoolProofs!Fits, PoolProofs!Items
<1>2. Pool!Init => PoolProofs!IInv
  <2>1. Pool!Init => PoolProofs!Init
    BY DEF Pool!Init, PoolProofs!Init
  <2> QED BY <1>1, <2>1, PoolProofs!InitInv
<1>3. PoolProofs!IInv /\ [Pool!Next]_poolVars => PoolProofs!IInv'
  <2>1. Pool!Next => PoolProofs!Next
    BY DEF Pool!Next, PoolProofs!Next, Pool!Submit, PoolProofs!Submit, Pool!Cancel, PoolProofs!Cancel,
           Pool!Grow, PoolProofs!Grow, Pool!Shutdown, PoolProofs!Shutdown, Pool!Idle, PoolProofs!Idle,
           Pool!Get, PoolProofs!Get, Pool!Leave, PoolProofs!Leave, Pool!Take, PoolProofs!Take,
           Pool!Return, PoolProofs!Return, Pool!At, PoolProofs!At, Pool!Go, PoolProofs!Go
  <2>2. [Pool!Next]_poolVars => [PoolProofs!Next]_(PoolProofs!vars)
    BY <2>1 DEF poolVars, PoolProofs!vars
  <2> QED BY <1>1, <2>2, PoolProofs!NextKeeps
<1>4. PoolProofs!IInv => Pool!PoolSafe
  <2>1. PoolProofs!PoolSafe => Pool!PoolSafe
    BY DEF Pool!PoolSafe, PoolProofs!PoolSafe, Pool!Counted, PoolProofs!Counted,
           Pool!FirstCome, PoolProofs!FirstCome, Pool!Cardinality, PoolProofs!Cardinality
  <2> QED BY <2>1, PoolProofs!InvIsSafe
<1> QED BY <1>2, <1>3, <1>4

WsProofs == INSTANCE GatewayProofs WITH
  Workers <- WsWorkers, Conns <- WsConns, Rooms <- WsRooms, Home <- WsHome, User <- WsUser,
  MaxConnections <- MaxClients, QueueSize <- WsQueue, MaxEmits <- WsEmits, MaxFrames <- WsFrames,
  conn <- wConn, open <- wOpen, index <- wIndex, gauge <- wGauge, emits <- wEmits, due <- wDue,
  got <- wGot, channel <- wChannel, listening <- wListening, stopping <- wStopping

LEMMA GatewaySteps == Gateway!Next => WsProofs!Next
BY DEF Gateway!Next, WsProofs!Next, Gateway!Step, WsProofs!Step, Gateway!Accept, WsProofs!Accept, Gateway!Reject, WsProofs!Reject,
       Gateway!Enter, WsProofs!Enter, Gateway!Greeted, WsProofs!Greeted,
       Gateway!TurnedAway, WsProofs!TurnedAway, Gateway!Receive, WsProofs!Receive,
       Gateway!ClientGone, WsProofs!ClientGone, Gateway!Disconnected, WsProofs!Disconnected,
       Gateway!Idle, WsProofs!Idle, Gateway!Handled, WsProofs!Handled,
       Gateway!LeaveRoom, WsProofs!LeaveRoom, Gateway!AskRoom, WsProofs!AskRoom,
       Gateway!NotAllowed, WsProofs!NotAllowed, Gateway!JoinRoom, WsProofs!JoinRoom,
       Gateway!Hooks, WsProofs!Hooks, Gateway!Gone, WsProofs!Gone,
       Gateway!CloseSoon, WsProofs!CloseSoon, Gateway!Write, WsProofs!Write,
       Gateway!Heartbeat, WsProofs!Heartbeat, Gateway!Emit, WsProofs!Emit,
       Gateway!Publish, WsProofs!Publish, Gateway!Remote, WsProofs!Remote,
       Gateway!Listen, WsProofs!Listen, Gateway!Shutdown, WsProofs!Shutdown,
       Gateway!CloseOne, WsProofs!CloseOne, Gateway!Down, WsProofs!Down,
       Gateway!In, WsProofs!In, Gateway!Enrol, WsProofs!Enrol, Gateway!Strike, WsProofs!Strike,
       Gateway!Add, WsProofs!Add, Gateway!Remove, WsProofs!Remove, Gateway!Send, WsProofs!Send,
       Gateway!Here, WsProofs!Here, Gateway!Go, WsProofs!Go, Gateway!Reply, WsProofs!Reply,
       Gateway!Others, WsProofs!Others, Gateway!Targets, WsProofs!Targets,
       Gateway!Deliver, WsProofs!Deliver, Gateway!Served, WsProofs!Served,
       Gateway!CONNECTED, WsProofs!CONNECTED, Gateway!ANSWER, WsProofs!ANSWER,
       Gateway!STOP, WsProofs!STOP, Gateway!Cardinality, WsProofs!Cardinality

LEMMA GatewayKeeps ==
  /\ Gateway!Init => WsProofs!IInv
  /\ WsProofs!IInv /\ [Gateway!Next]_gatewayVars => WsProofs!IInv'
  /\ WsProofs!IInv => Gateway!GatewaySafe
<1>1. WsProofs!GatewayAssumption
  BY GatewayInstance DEF Gateway!GatewayAssumption, WsProofs!GatewayAssumption,
                         Gateway!IsFiniteSet, WsProofs!IsFiniteSet
<1>2. Gateway!Init => WsProofs!IInv
  <2>1. Gateway!Init => WsProofs!Init
    BY DEF Gateway!Init, WsProofs!Init, Gateway!Nobody, WsProofs!Nobody
  <2> QED BY <1>1, <2>1, WsProofs!GatewayInit
<1>3. WsProofs!IInv /\ [Gateway!Next]_gatewayVars => WsProofs!IInv'
  <2>1. [Gateway!Next]_gatewayVars => [WsProofs!Next]_(WsProofs!vars)
    BY GatewaySteps DEF gatewayVars, WsProofs!vars
  <2> QED BY <1>1, <2>1, WsProofs!GatewayStep
<1>4. WsProofs!IInv => Gateway!GatewaySafe
  <2>1. WsProofs!GatewaySafe => Gateway!GatewaySafe
    BY DEF Gateway!GatewaySafe, WsProofs!GatewaySafe, Gateway!Registers, WsProofs!Registers,
           Gateway!GaugeTrue, WsProofs!GaugeTrue, Gateway!QuotaKept, WsProofs!QuotaKept,
           Gateway!OnceInOrder, WsProofs!OnceInOrder, Gateway!NoSilentLoss, WsProofs!NoSilentLoss,
           Gateway!Unsent, WsProofs!Unsent, Gateway!InLine, WsProofs!InLine,
           Gateway!Running, WsProofs!Running, Gateway!Registered, WsProofs!Registered,
           Gateway!In, WsProofs!In, Gateway!Cardinality, WsProofs!Cardinality
  <2> QED BY <1>1, <2>1, WsProofs!GatewayIsSafe
<1> QED BY <1>2, <1>3, <1>4

-----------------------------------------------------------------------------
(***************************************************************************)
(* Container: one task resolves at a time, what _building names is its     *)
(* stack, and each frame has, or still asks for, what it needs.            *)
(***************************************************************************)

CEntries == [on : Providers, lazy : BOOLEAN]
CFrames == [name : Providers, left : Seq(CEntries)]
CPhases == {"idle", "guards", "open", "ending", "closed"}

ContainerTypes ==
  /\ cInstances \in SUBSET (Providers \ OfRequest) /\ cBuilding \in Seq(Providers)
  /\ cStore \in [Requests -> Seq(Providers)] /\ cDue \in [Requests -> Seq(Providers)] /\ cTold \in [Requests -> Seq(Providers)]
  /\ cPhase \in [Requests -> CPhases] /\ cStack \in [Requests -> Seq(CFrames)] /\ cMade \in [Providers -> Int]
  /\ cResult \in [Requests -> [name : Providers \cup {""}, how : {"none", "ok", "cycle", "scope"}]]

(* One task at most is resolving, and _building holds the names of its     *)
(* stack, each once and none of them built.                                *)
OneStack == \A t, u \in Requests : cStack[t] # << >> /\ cStack[u] # << >> => t = u
Mirrored == \A t \in Requests : cStack[t] # << >> =>
  /\ cPhase[t] \in {"guards", "open"}
  /\ Len(cBuilding) = Len(cStack[t]) /\ cResult[t].name = cStack[t][1].name
  /\ \A i \in 1 .. Len(cStack[t]) : cBuilding[i] = cStack[t][i].name /\ ~ Wiring!Stored(t, cStack[t][i].name)
NoneTwice == \A i, j \in 1 .. Len(cBuilding) : cBuilding[i] = cBuilding[j] => i = j

(* A frame needs the one above it, and has the rest of what it needs: that *)
(* is built, or still to come, or being built.                             *)
WayOn(s) == \A i \in 1 .. Len(s) - 1 : s[i + 1].name \in Wiring!Needs(s[i].name)
OwnLeft(s) == \A i \in 1 .. Len(s) : \A k \in 1 .. Len(s[i].left) :
  \E j \in DOMAIN Requires[s[i].name] : s[i].left[k] = Requires[s[i].name][j]
HasOrNeeds(s) == \A i \in 1 .. Len(s) : s[i].name \notin OfRequest =>
  /\ i < Len(s) => s[i + 1].name \notin OfRequest
  /\ \A m \in Wiring!Needs(s[i].name) :
       \/ m \in cInstances
       \/ \E k \in 1 .. Len(s[i].left) : s[i].left[k] = [on |-> m, lazy |-> FALSE]
       \/ i < Len(s) /\ s[i + 1].name = m
WholeOnes == \A n \in cInstances : Wiring!Needs(n) \subseteq cInstances
CountedOnce == \A n \in Providers \ OfRequest : cMade[n] = IF n \in cInstances THEN 1 ELSE 0

(* At the end of a request: the hooks of the later ones are called, unless *)
(* one has raised.                                                         *)
NoneAgain(s) == \A i, j \in 1 .. Len(s) : s[i] = s[j] => i = j
NotTold(t) == cPhase[t] \in {"idle", "guards", "open"} => cTold[t] = << >>
EndsInOrder(t) == HookFailing = {} /\ cPhase[t] \in {"ending", "closed"} =>
  /\ Len(cDue[t]) <= Len(cStore[t]) /\ (cPhase[t] = "closed" => cDue[t] = << >>)
  /\ \A i \in 1 .. Len(cDue[t]) : cDue[t][i] = cStore[t][Len(cDue[t]) + 1 - i]
  /\ \A i \in 1 .. Len(cTold[t]) :
       /\ cTold[t][i] \in HookedUp
       /\ \E a \in 1 .. Len(cStore[t]) : a > Len(cDue[t]) /\ cStore[t][a] = cTold[t][i]
  /\ \A a \in 1 .. Len(cStore[t]) : a > Len(cDue[t]) /\ cStore[t][a] \in HookedUp =>
       \E i \in 1 .. Len(cTold[t]) : cTold[t][i] = cStore[t][a]
  /\ \A i, j \in 1 .. Len(cTold[t]) : i < j =>
       \E a, b \in 1 .. Len(cStore[t]) : a < b /\ cStore[t][a] = cTold[t][j] /\ cStore[t][b] = cTold[t][i]

StackInv == /\ OneStack /\ Wiring!NothingLeft /\ Mirrored /\ NoneTwice
             /\ \A t \in Requests : WayOn(cStack[t]) /\ OwnLeft(cStack[t]) /\ HasOrNeeds(cStack[t])
KeptInv == WholeOnes /\ CountedOnce /\ Wiring!CyclesAreReal
EndInv == \A t \in Requests : NoneAgain(cStore[t]) /\ NotTold(t) /\ EndsInOrder(t)

ContainerInv == ContainerTypes /\ StackInv /\ KeptInv /\ EndInv

-----------------------------------------------------------------------------
LEMMA NoFrames == WayOn(<< >>) /\ OwnLeft(<< >>) /\ HasOrNeeds(<< >>) /\ NoneAgain(<< >>)
<1>1. Len(<< >>) = 0 /\ 1 .. 0 = {} /\ 1 .. 0 - 1 = {}
  OBVIOUS
<1> QED BY <1>1 DEF WayOn, OwnLeft, HasOrNeeds, NoneAgain

LEMMA ContainerInit == Wiring!Init => ContainerInv
<1> SUFFICES ASSUME Wiring!Init PROVE ContainerInv
  OBVIOUS
<1>0. \A S : << >> \in Seq(S)
  OBVIOUS
<1>1. ContainerTypes
  <2>1. cStore \in [Requests -> Seq(Providers)] /\ cDue \in [Requests -> Seq(Providers)] /\ cTold \in [Requests -> Seq(Providers)]
    BY <1>0 DEF Wiring!Init
  <2>2. cStack \in [Requests -> Seq(CFrames)] /\ cBuilding \in Seq(Providers)
    BY <1>0 DEF Wiring!Init
  <2>3. cPhase \in [Requests -> CPhases] /\ cMade \in [Providers -> Int] /\ cInstances \in SUBSET (Providers \ OfRequest)
    <3>1. cPhase \in [Requests -> CPhases]
      BY DEF Wiring!Init, CPhases
    <3>2. cMade \in [Providers -> Int]
      <4>1. cMade = [n \in Providers |-> 0]
        BY DEF Wiring!Init
      <4> QED BY <4>1
    <3> QED BY <3>1, <3>2 DEF Wiring!Init
  <2>4. cResult \in [Requests -> [name : Providers \cup {""}, how : {"none", "ok", "cycle", "scope"}]]
    BY DEF Wiring!Init
  <2> QED BY <2>1, <2>2, <2>3, <2>4 DEF ContainerTypes
<1>2. StackInv
  <2>1. \A t \in Requests : cStack[t] = << >>
    BY DEF Wiring!Init
  <2>2. cBuilding = << >> /\ Len(cBuilding) = 0
    BY DEF Wiring!Init
  <2>3. \A t \in Requests : WayOn(cStack[t]) /\ OwnLeft(cStack[t]) /\ HasOrNeeds(cStack[t])
    BY <2>1, NoFrames
  <2> QED BY <2>1, <2>2, <2>3 DEF StackInv, OneStack, Wiring!NothingLeft, Mirrored, NoneTwice
<1>3. KeptInv
  BY DEF Wiring!Init, KeptInv, WholeOnes, CountedOnce, Wiring!CyclesAreReal
<1>4. EndInv
  <2>1. \A t \in Requests : cStore[t] = << >> /\ cTold[t] = << >> /\ cPhase[t] = "idle"
    BY DEF Wiring!Init
  <2> QED BY <2>1, NoFrames DEF EndInv, NotTold, EndsInOrder
<1> QED BY <1>1, <1>2, <1>3, <1>4 DEF ContainerInv

LEMMA NeedsAreNames == \A n : Wiring!Needs(n) \subseteq Providers
BY DEF Wiring!Needs

(* On an empty stack nothing is being built, whoever asks.                 *)
LEMMA AskedAlone ==
  ASSUME ContainerTypes, StackInv, NEW t \in Requests, Wiring!Runs(t), cStack[t] = << >>
  PROVE  cBuilding = << >> /\ \A u \in Requests : cStack[u] = << >>
<1>1. \A u \in Requests : cStack[u] = << >>
  BY WiringInstance DEF Wiring!Runs, Wiring!OnLoop
<1> QED BY <1>1 DEF StackInv, Wiring!NothingLeft

(* At the ends of requests nothing changes, or of one request only.        *)
LEMMA EndOfOne ==
  ASSUME EndInv, NEW t \in Requests, cStore' = cStore, NotTold(t)', EndsInOrder(t)',
         \A u \in Requests : u # t => cDue'[u] = cDue[u] /\ cTold'[u] = cTold[u] /\ cPhase'[u] = cPhase[u]
  PROVE  EndInv'
<1> SUFFICES ASSUME NEW u \in Requests PROVE NoneAgain(cStore[u])' /\ NotTold(u)' /\ EndsInOrder(u)'
  BY DEF EndInv
<1>1. NoneAgain(cStore[u]) /\ NotTold(u) /\ EndsInOrder(u)
  BY DEF EndInv
<1>2. NoneAgain(cStore[u])'
  BY <1>1 DEF NoneAgain
<1>3. CASE u = t
  BY <1>2, <1>3
<1>4. CASE u # t
  <2>1. cDue'[u] = cDue[u] /\ cTold'[u] = cTold[u] /\ cPhase'[u] = cPhase[u] /\ cStore'[u] = cStore[u]
    BY <1>4
  <2>2. NotTold(u)'
    BY <1>1, <2>1 DEF NotTold
  <2>3. EndsInOrder(u)'
    BY <1>1, <2>1 DEF EndsInOrder
  <2> QED BY <1>2, <2>2, <2>3
<1> QED BY <1>3, <1>4

LEMMA EndStays ==
  ASSUME EndInv, UNCHANGED << cStore, cDue, cPhase, cTold >>
  PROVE  EndInv'
BY DEF EndInv, NoneAgain, NotTold, EndsInOrder

LEMMA ResolveFirst ==
  ASSUME ContainerInv, NEW t \in Requests, NEW n \in Providers, cStack[t] = << >>, cBuilding = << >>,
         \A u \in Requests : cStack[u] = << >>, cPhase[t] \in {"guards", "open"},
         Wiring!Resolve(t, n, << >>), cTold' = cTold
  PROVE  ContainerInv'
<1> USE DEF ContainerInv
<1>0. Requires[n] \in Seq(CEntries)
  BY WiringInstance DEF Wiring!ContainerAssumption, CEntries
<1>1. CASE Wiring!Stored(t, n)
  <2>1. /\ cStack' = cStack
        /\ UNCHANGED << cInstances, cBuilding, cStore, cMade, cDue, cPhase >>
        /\ cResult' = [cResult EXCEPT ![t] = [name |-> n, how |-> "ok"]]
    BY <1>1 DEF Wiring!Resolve, ContainerTypes
  <2>2. ContainerTypes'
    BY <2>1 DEF ContainerTypes
  <2>3. StackInv'
    BY <2>1 DEF StackInv, OneStack, Wiring!NothingLeft, Mirrored, NoneTwice, WayOn, OwnLeft, HasOrNeeds, Wiring!Stored
  <2>4. Wiring!CyclesAreReal'
    BY <2>1 DEF Wiring!CyclesAreReal, KeptInv, ContainerTypes
  <2>5. KeptInv'
    BY <2>1, <2>4 DEF KeptInv, WholeOnes, CountedOnce
  <2>6. EndInv'
    BY <2>1, EndStays
  <2> QED BY <2>2, <2>3, <2>5, <2>6
<1>2. CASE ~ Wiring!Stored(t, n)
  <2> DEFINE f == [name |-> n, left |-> Requires[n]]
  <2>1. /\ cStack' = [cStack EXCEPT ![t] = << f >>] /\ cBuilding' = << n >>
        /\ UNCHANGED << cInstances, cStore, cMade, cDue, cPhase >>
        /\ cResult' = [cResult EXCEPT ![t] = [name |-> n, how |-> "none"]]
    <3>1. n \notin Wiring!ToSet(cBuilding) /\ Append(cBuilding, n) = << n >> /\ Append(<< >>, f) = << f >>
      BY DEF Wiring!ToSet
    <3> QED BY <1>2, <3>1 DEF Wiring!Resolve
  <2>2. f \in CFrames /\ << f >> \in Seq(CFrames)
    BY <1>0 DEF CFrames
  <2>3. ContainerTypes'
    <3>1. cBuilding' \in Seq(Providers)
      BY <2>1
    <3>2. cStack' \in [Requests -> Seq(CFrames)]
      BY <2>1, <2>2 DEF ContainerTypes
    <3>3. cResult' \in [Requests -> [name : Providers \cup {""}, how : {"none", "ok", "cycle", "scope"}]]
      BY <2>1 DEF ContainerTypes
    <3> QED BY <3>1, <3>2, <3>3, <2>1 DEF ContainerTypes
  <2>4. cStack'[t] = << f >> /\ \A u \in Requests : u # t => cStack'[u] = << >>
    BY <2>1 DEF ContainerTypes
  <2>5. OneStack' /\ Wiring!NothingLeft' /\ NoneTwice'
    BY <2>1, <2>4 DEF OneStack, Wiring!NothingLeft, NoneTwice
  <2>6. Mirrored'
    <3>1. Len(cBuilding') = 1 /\ cBuilding'[1] = n /\ Len(<< f >>) = 1 /\ << f >>[1] = f /\ f.name = n
      BY <2>1
    <3>2. cResult'[t].name = n /\ cPhase'[t] \in {"guards", "open"} /\ ~ Wiring!Stored(t, n)'
      BY <1>2, <2>1 DEF ContainerTypes, Wiring!Stored
    <3>3. Len(cStack'[t]) = 1 /\ cStack'[t][1].name = n
      BY <3>1, <2>4
    <3>4. \A i \in 1 .. Len(cStack'[t]) : i = 1
      BY <3>3
    <3>5. \A u \in Requests : cStack'[u] # << >> => u = t
      BY <2>4
    <3> QED BY <3>1, <3>2, <3>3, <3>4, <3>5 DEF Mirrored
  <2>7. WayOn(cStack'[t]) /\ OwnLeft(cStack'[t])
    <3>1. Len(<< f >>) = 1 /\ << f >>[1] = f /\ f.name = n /\ f.left = Requires[n] /\ 1 .. 1 - 1 = {} /\ 1 .. 1 = {1}
      OBVIOUS
    <3>2. \A k \in 1 .. Len(Requires[n]) : k \in DOMAIN Requires[n]
      BY <1>0
    <3> HIDE DEF f
    <3> QED BY <2>4, <3>1, <3>2 DEF WayOn, OwnLeft
  <2>8. HasOrNeeds(cStack[t])'
    <3>1. \A m \in Wiring!Needs(n) : \E k \in 1 .. Len(Requires[n]) : Requires[n][k] = [on |-> m, lazy |-> FALSE]
      <4>1. DOMAIN Requires[n] = 1 .. Len(Requires[n])
        BY <1>0
      <4> QED BY <4>1 DEF Wiring!Needs
    <3>2. Len(<< f >>) = 1 /\ << f >>[1] = f /\ f.name = n /\ f.left = Requires[n] /\ 1 .. 1 = {1} /\ ~ 1 < 1
      OBVIOUS
    <3> HIDE DEF f
    <3>3. Len(cStack'[t]) = 1 /\ cStack'[t][1] = f
      BY <3>2, <2>4
    <3>4. \A m \in Wiring!Needs(n) : \E k \in 1 .. Len(f.left) : f.left[k] = [on |-> m, lazy |-> FALSE]
      BY <3>1, <3>2
    <3>5. \A i \in 1 .. Len(cStack'[t]) : i = 1 /\ ~ i < Len(cStack'[t])
      BY <3>3
    <3> QED BY <3>2, <3>3, <3>4, <3>5 DEF HasOrNeeds
  <2>9. \A u \in Requests : u # t => WayOn(cStack'[u]) /\ OwnLeft(cStack'[u]) /\ HasOrNeeds(cStack[u])'
    <3> SUFFICES ASSUME NEW u \in Requests, u # t
                 PROVE  WayOn(cStack'[u]) /\ OwnLeft(cStack'[u]) /\ HasOrNeeds(cStack[u])'
      OBVIOUS
    <3>1. cStack'[u] = << >> /\ Len(<< >>) = 0 /\ 1 .. 0 = {}
      BY <2>4
    <3> QED BY <3>1, NoFrames DEF HasOrNeeds
  <2>10. StackInv'
    <3>1. \A u \in Requests : WayOn(cStack'[u]) /\ OwnLeft(cStack'[u])
      BY <2>7, <2>9
    <3>2. \A u \in Requests : HasOrNeeds(cStack[u])'
      BY <2>8, <2>9
    <3>3. \A u \in Requests : (WayOn(cStack[u]) /\ OwnLeft(cStack[u]) /\ HasOrNeeds(cStack[u]))'
      BY <3>1, <3>2 DEF WayOn, OwnLeft, HasOrNeeds
    <3> QED BY <2>5, <2>6, <3>3 DEF StackInv
  <2>11. Wiring!CyclesAreReal'
    BY <2>1 DEF Wiring!CyclesAreReal, KeptInv, ContainerTypes
  <2>12. KeptInv'
    BY <2>1, <2>11 DEF KeptInv, WholeOnes, CountedOnce
  <2>13. EndInv'
    BY <2>1, EndStays
  <2> QED BY <2>3, <2>10, <2>12, <2>13
<1> QED BY <1>1, <1>2

(* An error on the stack: all of it goes.                                  *)
LEMMA RaiseKeeps ==
  ASSUME ContainerInv, NEW t \in Requests, cStack[t] # << >>, NEW how \in {"scope", "cycle"},
         Wiring!Raise(t, cResult[t].name, how), cTold' = cTold,
         how = "cycle" => \E S \in SUBSET Providers : cResult[t].name \in S /\ \A n \in S : Wiring!Needs(n) \cap S # {}
  PROVE  ContainerInv'
<1> USE DEF ContainerInv
<1>1. Len(cBuilding) = Len(cStack[t]) /\ \A u \in Requests : u # t => cStack[u] = << >>
  BY DEF StackInv, OneStack, Mirrored
<1>2. cBuilding' = << >>
  <2>1. cBuilding' = SubSeq(cBuilding, 1, 0)
    <3>1. Len(cBuilding) - Len(cStack[t]) = 0
      <4>1. cStack[t] \in Seq(CFrames)
        BY DEF ContainerTypes
      <4>2. Len(cStack[t]) \in Nat
        BY <4>1
      <4> QED BY <1>1, <4>2
    <3> QED BY <3>1 DEF Wiring!Raise
  <2>2. cBuilding \in Seq(Providers)
    BY DEF ContainerTypes
  <2>3. SubSeq(cBuilding, 1, 0) = << >>
    BY <2>2
  <2> QED BY <2>1, <2>3
<1>3. /\ cStack' = [cStack EXCEPT ![t] = << >>] /\ cDue' = [cDue EXCEPT ![t] = << >>]
      /\ cPhase' = [cPhase EXCEPT ![t] = "open"] /\ UNCHANGED << cInstances, cStore, cMade >>
      /\ cResult' = [cResult EXCEPT ![t] = [name |-> cResult[t].name, how |-> how]]
  BY DEF Wiring!Raise
<1>4. \A u \in Requests : cStack'[u] = << >>
  BY <1>1, <1>3 DEF ContainerTypes
<1>5. ContainerTypes'
  <2>1. cResult' \in [Requests -> [name : Providers \cup {""}, how : {"none", "ok", "cycle", "scope"}]]
    BY <1>3 DEF ContainerTypes
  <2>2. cPhase' \in [Requests -> CPhases]
    BY <1>3 DEF ContainerTypes, CPhases
  <2>3. << >> \in Seq(Providers) /\ << >> \in Seq(CFrames)
    OBVIOUS
  <2>4. cDue' \in [Requests -> Seq(Providers)] /\ cStack' \in [Requests -> Seq(CFrames)]
    BY <1>3, <2>3 DEF ContainerTypes
  <2> QED BY <2>1, <2>2, <2>3, <2>4, <1>2, <1>3 DEF ContainerTypes
<1>6. StackInv'
  BY <1>2, <1>4 DEF StackInv, OneStack, Wiring!NothingLeft, Mirrored, NoneTwice, WayOn, OwnLeft, HasOrNeeds
<1>7. Wiring!CyclesAreReal'
  <2> SUFFICES ASSUME NEW u \in Requests, cResult'[u].how = "cycle"
               PROVE  \E S \in SUBSET Providers : cResult'[u].name \in S /\ \A n \in S : Wiring!Needs(n) \cap S # {}
    BY DEF Wiring!CyclesAreReal, Wiring!Needs
  <2>1. CASE u = t
    BY <2>1, <1>3 DEF ContainerTypes
  <2>2. CASE u # t
    BY <2>2, <1>3 DEF ContainerTypes, KeptInv, Wiring!CyclesAreReal
  <2> QED BY <2>1, <2>2
<1>8. KeptInv'
  BY <1>3, <1>7 DEF KeptInv, WholeOnes, CountedOnce
<1>9. EndInv'
  <2>1. cPhase[t] \in {"guards", "open"}
    BY DEF StackInv, Mirrored
  <2>2. cTold'[t] = << >>
    BY <2>1 DEF EndInv, NotTold
  <2>3. \A u \in Requests : u # t => cPhase'[u] = cPhase[u] /\ cDue'[u] = cDue[u]
    BY <1>3 DEF ContainerTypes
  <2>4. cPhase'[t] = "open"
    BY <1>3 DEF ContainerTypes
  <2>5. NotTold(t)' /\ EndsInOrder(t)'
    BY <2>2, <2>4 DEF NotTold, EndsInOrder
  <2> QED BY <2>3, <2>5, <1>3, EndOfOne
<1> QED BY <1>5, <1>6, <1>8, <1>9

LEMMA FrontIs ==
  ASSUME NEW S, NEW s \in Seq(S), s # << >>
  PROVE  Wiring!Front(s) \in Seq(S) /\ Len(Wiring!Front(s)) = Len(s) - 1 /\ \A i \in 1 .. Len(s) - 1 : Wiring!Front(s)[i] = s[i]
<1>1. Len(s) \in Nat \ {0} /\ Wiring!Front(s) = SubSeq(s, 1, Len(s) - 1)
  BY DEF Wiring!Front
<1>2. Wiring!Front(s) \in Seq(S)
  BY <1>1
<1>3. 1 \in Int /\ Len(s) - 1 \in Int /\ \A i \in 1 .. Len(s) - 1 : s[i] \in S
  BY <1>1
<1>4. /\ Len(SubSeq(s, 1, Len(s) - 1)) = IF 1 <= Len(s) - 1 THEN (Len(s) - 1) - 1 + 1 ELSE 0
      /\ \A i \in 1 .. (Len(s) - 1) - 1 + 1 : SubSeq(s, 1, Len(s) - 1)[i] = s[1 + i - 1]
  BY <1>3, SubSeqProperties
<1>5. Len(Wiring!Front(s)) = Len(s) - 1 /\ \A i \in 1 .. Len(s) - 1 : Wiring!Front(s)[i] = s[i]
  <2>1. Len(Wiring!Front(s)) = Len(s) - 1
    <3>1. CASE Len(s) = 1
      BY <3>1, <1>1, <1>4
    <3>2. CASE Len(s) # 1
      <4>1. 1 <= Len(s) - 1 /\ (Len(s) - 1) - 1 + 1 = Len(s) - 1
        <5> DEFINE k == Len(s)
        <5>1. k \in Nat \ {0} /\ k # 1
          BY <3>2, <1>1
        <5> HIDE DEF k
        <5>2. 1 <= k - 1 /\ (k - 1) - 1 + 1 = k - 1
          BY <5>1
        <5> QED BY <5>2 DEF k
      <4> QED BY <4>1, <1>1, <1>4
    <3> QED BY <3>1, <3>2
  <2>2. \A i \in 1 .. Len(s) - 1 : i \in 1 .. (Len(s) - 1) - 1 + 1 /\ 1 + i - 1 = i
    BY <1>1
  <2>3. \A i \in 1 .. Len(s) - 1 : Wiring!Front(s)[i] = s[i]
    BY <1>1, <1>4, <2>2
  <2> QED BY <2>1, <2>3
<1> QED BY <1>1, <1>2, <1>5

(* What resolving the next of the arguments leaves of the stack.           *)
Later(s) == Append(Wiring!Front(s), [Wiring!Last(s) EXCEPT !.left = Tail(@)])

LEMMA LaterIs ==
  ASSUME NEW s \in Seq(CFrames), s # << >>, Wiring!Last(s).left # << >>
  PROVE  /\ Later(s) \in Seq(CFrames) /\ Len(Later(s)) = Len(s) /\ Later(s) # << >> /\ Len(s) >= 1
         /\ \A i \in 1 .. Len(s) : Later(s)[i].name = s[i].name
         /\ \A i \in 1 .. Len(s) : i < Len(s) => Later(s)[i] = s[i]
         /\ Wiring!Last(s) = s[Len(s)] /\ Wiring!Last(s) \in CFrames
         /\ Later(s)[Len(s)].left = Tail(s[Len(s)].left)
<1>1. /\ Len(s) \in Nat \ {0} /\ Wiring!Last(s) = s[Len(s)] /\ Wiring!Last(s) \in CFrames /\ Wiring!Front(s) \in Seq(CFrames)
      /\ Len(Wiring!Front(s)) = Len(s) - 1 /\ \A i \in 1 .. Len(s) - 1 : Wiring!Front(s)[i] = s[i]
  <2>1. Len(s) \in Nat \ {0} /\ Wiring!Last(s) = s[Len(s)]
    BY DEF Wiring!Last
  <2> QED BY <2>1, FrontIs
<1> DEFINE f == [Wiring!Last(s) EXCEPT !.left = Tail(@)]
<1>2. f \in CFrames /\ f.name = Wiring!Last(s).name /\ f.left = Tail(Wiring!Last(s).left)
  <2>1. Wiring!Last(s).left \in Seq(CEntries) /\ Wiring!Last(s).left # << >> /\ Wiring!Last(s) \in CFrames
    BY <1>1 DEF CFrames
  <2>2. Tail(Wiring!Last(s).left) \in Seq(CEntries)
    BY <2>1
  <2> QED BY <2>1, <2>2 DEF CFrames
<1> HIDE DEF f
<1>3. Later(s) = Append(Wiring!Front(s), f)
  BY DEF Later, f
<1>4. /\ Later(s) \in Seq(CFrames) /\ Len(Later(s)) = Len(s) /\ Later(s)[Len(s)] = f
      /\ \A i \in 1 .. Len(s) - 1 : Later(s)[i] = s[i]
  BY <1>1, <1>2, <1>3
<1>5. \A i \in 1 .. Len(s) : i < Len(s) => Later(s)[i] = s[i]
  BY <1>1, <1>4
<1>6. \A i \in 1 .. Len(s) : Later(s)[i].name = s[i].name
  BY <1>1, <1>2, <1>4, <1>5
<1>7. Later(s) # << >>
  BY <1>1, <1>4
<1> QED BY <1>1, <1>2, <1>4, <1>5, <1>6, <1>7

LEMMA LaterKeeps ==
  ASSUME NEW s \in Seq(CFrames), s # << >>, Wiring!Last(s).left # << >>, WayOn(s), OwnLeft(s), HasOrNeeds(s)
  PROVE  /\ WayOn(Later(s)) /\ OwnLeft(Later(s))
         /\ Head(Wiring!Last(s).left) \in CEntries
         /\ \E j \in DOMAIN Requires[Wiring!Last(s).name] : Head(Wiring!Last(s).left) = Requires[Wiring!Last(s).name][j]
         /\ \/ Wiring!Last(s).name \in OfRequest
            \/ Head(Wiring!Last(s).left).lazy
            \/ Head(Wiring!Last(s).left).on \in cInstances
            => HasOrNeeds(Later(s))
<1> DEFINE L == Len(s)
           lf == Wiring!Last(s).left
           d == Head(lf)
           z == Later(s)
<1>1. /\ z \in Seq(CFrames) /\ Len(z) = L /\ L \in Nat /\ L >= 1 /\ Wiring!Last(s) = s[L] /\ Wiring!Last(s) \in CFrames
      /\ \A i \in 1 .. L : z[i].name = s[i].name
      /\ \A i \in 1 .. L : i < L => z[i] = s[i]
      /\ z[L].left = Tail(lf)
  BY LaterIs
<1>2. lf \in Seq(CEntries) /\ lf # << >>
  BY <1>1 DEF CFrames
<1>3. /\ d \in CEntries /\ d = lf[1] /\ Len(lf) \in Nat /\ Len(lf) >= 1 /\ Len(Tail(lf)) = Len(lf) - 1
      /\ \A k \in 1 .. Len(Tail(lf)) : Tail(lf)[k] = lf[k + 1]
      /\ \A k \in 1 .. Len(lf) : k # 1 => lf[k] = Tail(lf)[k - 1] /\ k - 1 \in 1 .. Len(Tail(lf))
  <2> HIDE DEF lf
  <2>1. Len(lf) \in Nat /\ Len(lf) >= 1 /\ d = lf[1] /\ d \in CEntries
    BY <1>2
  <2>2. Len(Tail(lf)) = Len(lf) - 1 /\ \A k \in 1 .. Len(lf) - 1 : Tail(lf)[k] = lf[k + 1]
    BY <1>2
  <2>3. \A k \in 1 .. Len(lf) : k # 1 => lf[k] = Tail(lf)[k - 1] /\ k - 1 \in 1 .. Len(Tail(lf))
    <3> SUFFICES ASSUME NEW k \in 1 .. Len(lf), k # 1
                 PROVE  lf[k] = Tail(lf)[k - 1] /\ k - 1 \in 1 .. Len(Tail(lf))
      BY <2>1
    <3>1. k - 1 \in 1 .. Len(lf) - 1 /\ (k - 1) + 1 = k
      BY <2>1
    <3> QED BY <3>1, <2>2
  <2> QED BY <2>1, <2>2, <2>3
<1> HIDE DEF L, lf, d, z
<1>4. WayOn(z)
  BY <1>1 DEF WayOn, L
<1>5. OwnLeft(z)
  <2> SUFFICES ASSUME NEW i \in 1 .. L, NEW k \in 1 .. Len(z[i].left)
               PROVE  \E j \in DOMAIN Requires[s[i].name] : z[i].left[k] = Requires[s[i].name][j]
    <3>1. \A i \in 1 .. Len(z) : i \in 1 .. L /\ z[i].name = s[i].name
      BY <1>1
    <3> QED BY <3>1 DEF OwnLeft
  <2>1. CASE i < L
    BY <2>1, <1>1 DEF OwnLeft, L
  <2>2. CASE ~ i < L
    <3>1. i = L /\ L \in 1 .. Len(s) /\ s[L].left = lf
      BY <2>2, <1>1 DEF L, lf
    <3>2. k \in 1 .. Len(Tail(lf)) /\ z[i].left[k] = lf[k + 1] /\ k + 1 \in 1 .. Len(lf)
      BY <3>1, <1>1, <1>3
    <3> QED BY <3>1, <3>2 DEF OwnLeft
  <2> QED BY <2>1, <2>2
<1>6. \E j \in DOMAIN Requires[Wiring!Last(s).name] : d = Requires[Wiring!Last(s).name][j]
  <2>1. L \in 1 .. Len(s) /\ 1 \in 1 .. Len(s[L].left) /\ s[L].left[1] = d
    BY <1>1, <1>3 DEF L, lf
  <2> QED BY <2>1, <1>1 DEF OwnLeft
<1>7. ASSUME Wiring!Last(s).name \in OfRequest \/ d.lazy \/ d.on \in cInstances
      PROVE  HasOrNeeds(z)
  <2> SUFFICES ASSUME NEW i \in 1 .. L, s[i].name \notin OfRequest
               PROVE  /\ i < L => z[i + 1].name \notin OfRequest
                      /\ \A m \in Wiring!Needs(s[i].name) :
                           \/ m \in cInstances
                           \/ \E k \in 1 .. Len(z[i].left) : z[i].left[k] = [on |-> m, lazy |-> FALSE]
                           \/ i < L /\ z[i + 1].name = m
    <3>1. Len(z) = L /\ \A i \in 1 .. L : z[i].name = s[i].name
      BY <1>1
    <3> QED BY <3>1 DEF HasOrNeeds
  <2>0. i \in 1 .. Len(s) /\ (i < L => i + 1 \in 1 .. L /\ z[i + 1].name = s[i + 1].name)
    BY <1>1 DEF L
  <2>1. CASE i < L
    BY <2>0, <2>1, <1>1 DEF HasOrNeeds, L
  <2>2. CASE ~ i < L
    <3>1. i = L /\ s[i].left = lf
      BY <2>2, <1>1 DEF lf
    <3>2. \A m \in Wiring!Needs(s[i].name) : m \in cInstances \/ \E k \in 1 .. Len(lf) : lf[k] = [on |-> m, lazy |-> FALSE]
      BY <2>0, <2>2, <3>1 DEF HasOrNeeds, L
    <3>3. ASSUME NEW m \in Wiring!Needs(s[i].name), m \notin cInstances
          PROVE  \E k \in 1 .. Len(Tail(lf)) : Tail(lf)[k] = [on |-> m, lazy |-> FALSE]
      <4>1. PICK k \in 1 .. Len(lf) : lf[k] = [on |-> m, lazy |-> FALSE]
        BY <3>2, <3>3
      <4>2. k # 1
        <5> SUFFICES ASSUME k = 1 PROVE FALSE
          OBVIOUS
        <5>1. d.on = m /\ d.lazy = FALSE
          BY <4>1, <1>3
        <5> QED BY <5>1, <1>7, <3>1, <3>3, <1>1
      <4> QED BY <4>1, <4>2, <1>3
    <3> QED BY <2>2, <3>1, <3>3, <1>1
  <2> QED BY <2>1, <2>2
<1> QED BY <1>3, <1>4, <1>5, <1>6, <1>7 DEF d, lf, z

(* The stack of t moves on: an argument is there, or can wait.             *)
LEMMA MoveKeeps ==
  ASSUME ContainerInv, NEW t \in Requests, cStack[t] # << >>, Wiring!Top(t).left # << >>,
         cStack' = [cStack EXCEPT ![t] = Later(cStack[t])], HasOrNeeds(Later(cStack[t])),
         UNCHANGED << cInstances, cBuilding, cStore, cMade, cDue, cPhase, cTold >>,
         \/ cResult' = cResult
         \/ cResult' = [cResult EXCEPT ![t] = [name |-> cResult[t].name, how |-> "none"]]
  PROVE  ContainerInv'
<1> DEFINE s == cStack[t]
           z == Later(s)
<1> USE DEF ContainerInv
<1>1. s \in Seq(CFrames) /\ s # << >> /\ Wiring!Last(s).left # << >> /\ WayOn(s) /\ OwnLeft(s) /\ HasOrNeeds(s)
  BY DEF ContainerTypes, Wiring!Top, StackInv
<1>2. WayOn(z) /\ OwnLeft(z)
  BY <1>1, LaterKeeps
<1>3. z \in Seq(CFrames) /\ Len(z) = Len(s) /\ z # << >> /\ Len(s) >= 1 /\ Len(s) \in Nat
      /\ \A i \in 1 .. Len(s) : z[i].name = s[i].name
  BY <1>1, LaterIs
<1> HIDE DEF s, z
<1>4. cStack'[t] = z /\ \A u \in Requests : u # t => cStack'[u] = cStack[u]
  BY DEF ContainerTypes, s, z
<1>5. \A u \in Requests : cResult'[u].name = cResult[u].name /\ (cResult'[u].how = "cycle" => cResult[u].how = "cycle")
  <2>1. CASE cResult' = cResult
    BY <2>1
  <2>2. CASE cResult' = [cResult EXCEPT ![t] = [name |-> cResult[t].name, how |-> "none"]]
    BY <2>2 DEF ContainerTypes
  <2> QED BY <2>1, <2>2
<1>6. ContainerTypes'
  <2>1. cStack' \in [Requests -> Seq(CFrames)]
    BY <1>3 DEF ContainerTypes, s, z
  <2>2. cResult' \in [Requests -> [name : Providers \cup {""}, how : {"none", "ok", "cycle", "scope"}]]
    <3>1. CASE cResult' = cResult
      BY <3>1 DEF ContainerTypes
    <3>2. CASE cResult' = [cResult EXCEPT ![t] = [name |-> cResult[t].name, how |-> "none"]]
      BY <3>2 DEF ContainerTypes
    <3> QED BY <3>1, <3>2
  <2> QED BY <2>1, <2>2 DEF ContainerTypes
<1>7. StackInv'
  <2>1. \A u \in Requests : cStack'[u] = << >> <=> cStack[u] = << >>
    BY <1>1, <1>3, <1>4 DEF s
  <2>2. OneStack' /\ Wiring!NothingLeft' /\ NoneTwice'
    BY <2>1 DEF OneStack, Wiring!NothingLeft, NoneTwice, StackInv
  <2>3. Mirrored'
    <3> SUFFICES ASSUME NEW u \in Requests, cStack'[u] # << >>
                 PROVE  /\ cPhase[u] \in {"guards", "open"}
                        /\ Len(cBuilding) = Len(cStack'[u]) /\ cResult'[u].name = cStack'[u][1].name
                        /\ \A i \in 1 .. Len(cStack'[u]) : cBuilding[i] = cStack'[u][i].name /\ ~ Wiring!Stored(u, cStack'[u][i].name)
      BY DEF Mirrored, Wiring!Stored
    <3>1. u = t
      BY <2>1, <1>1 DEF StackInv, OneStack, s
    <3>2. /\ cPhase[t] \in {"guards", "open"}
          /\ Len(cBuilding) = Len(s) /\ cResult[t].name = s[1].name
          /\ \A i \in 1 .. Len(s) : cBuilding[i] = s[i].name /\ ~ Wiring!Stored(t, s[i].name)
      BY <1>1 DEF StackInv, Mirrored, s
    <3>3. 1 \in 1 .. Len(s) /\ z[1].name = s[1].name
      BY <1>3
    <3> QED BY <3>1, <3>2, <3>3, <1>3, <1>4, <1>5
  <2>4. \A u \in Requests : WayOn(cStack'[u]) /\ OwnLeft(cStack'[u]) /\ HasOrNeeds(cStack'[u])
    BY <1>2, <1>4 DEF StackInv, s, z
  <2>5. \A u \in Requests : (WayOn(cStack[u]) /\ OwnLeft(cStack[u]) /\ HasOrNeeds(cStack[u]))'
    BY <2>4 DEF WayOn, OwnLeft, HasOrNeeds
  <2> QED BY <2>2, <2>3, <2>5 DEF StackInv
<1>8. KeptInv'
  BY <1>5 DEF KeptInv, WholeOnes, CountedOnce, Wiring!CyclesAreReal
<1>9. EndInv'
  BY EndStays
<1> QED BY <1>6, <1>7, <1>8, <1>9

(* The argument is not there: it is what is built next.                    *)
LEMMA PushKeeps ==
  ASSUME ContainerInv, NEW t \in Requests, cStack[t] # << >>, Wiring!Top(t).left # << >>, NEW n \in Providers,
         Head(Wiring!Top(t).left) = [on |-> n, lazy |-> FALSE],
         Wiring!Top(t).name \in OfRequest \/ n \notin OfRequest,
         ~ Wiring!Stored(t, n), n \notin Wiring!ToSet(cBuilding),
         cStack' = [cStack EXCEPT ![t] = Append(Later(cStack[t]), [name |-> n, left |-> Requires[n]])],
         cBuilding' = Append(cBuilding, n),
         UNCHANGED << cInstances, cStore, cMade, cDue, cPhase, cTold >>,
         cResult' = [cResult EXCEPT ![t] = [name |-> cResult[t].name, how |-> "none"]]
  PROVE  ContainerInv'
<1> DEFINE s == cStack[t]
           z == Later(s)
           f == [name |-> n, left |-> Requires[n]]
           y == Append(z, f)
           L == Len(s)
<1> USE DEF ContainerInv
<1>1. s \in Seq(CFrames) /\ s # << >> /\ Wiring!Last(s).left # << >> /\ WayOn(s) /\ OwnLeft(s) /\ HasOrNeeds(s)
  BY DEF ContainerTypes, Wiring!Top, StackInv
<1>2. WayOn(z) /\ OwnLeft(z)
  BY <1>1, LaterKeeps
<1>3. z \in Seq(CFrames) /\ Len(z) = L /\ z # << >> /\ L >= 1 /\ L \in Nat
      /\ (\A i \in 1 .. L : z[i].name = s[i].name) /\ (\A i \in 1 .. L : i < L => z[i] = s[i])
      /\ Wiring!Last(s) = s[L] /\ z[L].left = Tail(s[L].left)
  BY <1>1, LaterIs
<1>4. n \in Wiring!Needs(s[L].name)
  BY <1>1, <1>3, LaterKeeps DEF Wiring!Needs, Wiring!Top
<1>5. Requires[n] \in Seq(CEntries) /\ f \in CFrames /\ f.name = n /\ f.left = Requires[n]
  BY WiringInstance DEF Wiring!ContainerAssumption, CEntries, CFrames
<1>6. s[L].left \in Seq(CEntries) /\ s[L].left # << >> /\ Head(s[L].left) = [on |-> n, lazy |-> FALSE]
      /\ (s[L].name \in OfRequest \/ n \notin OfRequest)
  <2>1. s[L] \in CFrames /\ Wiring!Top(t) = s[L]
    BY <1>1, <1>3 DEF Wiring!Top
  <2> QED BY <2>1 DEF CFrames
<1> HIDE DEF s, z, f, L
<1>7. y \in Seq(CFrames) /\ Len(y) = L + 1 /\ y[L + 1] = f /\ \A i \in 1 .. L : y[i] = z[i]
  BY <1>3, <1>5
<1>8. \A i \in 1 .. Len(y) : i \in 1 .. L \/ i = L + 1
  BY <1>3, <1>7
<1> HIDE DEF y
<1>9. WayOn(y)
  <2> SUFFICES ASSUME NEW i \in 1 .. L PROVE y[i + 1].name \in Wiring!Needs(y[i].name)
    BY <1>3, <1>7 DEF WayOn
  <2>1. CASE i < L
    <3>1. i \in 1 .. L - 1 /\ i + 1 \in 1 .. L
      BY <2>1, <1>3
    <3> QED BY <3>1, <1>2, <1>3, <1>7 DEF WayOn
  <2>2. CASE ~ i < L
    BY <2>2, <1>3, <1>4, <1>5, <1>7
  <2> QED BY <2>1, <2>2
<1>10. OwnLeft(y)
  <2> SUFFICES ASSUME NEW i \in 1 .. Len(y), NEW k \in 1 .. Len(y[i].left)
               PROVE  \E j \in DOMAIN Requires[y[i].name] : y[i].left[k] = Requires[y[i].name][j]
    BY DEF OwnLeft
  <2>1. CASE i \in 1 .. L
    <3>1. y[i] = z[i] /\ i \in 1 .. Len(z)
      BY <2>1, <1>3, <1>7
    <3> QED BY <3>1, <1>2 DEF OwnLeft
  <2>2. CASE i = L + 1
    <3>1. k \in 1 .. Len(Requires[n]) /\ DOMAIN Requires[n] = 1 .. Len(Requires[n])
      BY <2>2, <1>5, <1>7
    <3> QED BY <3>1, <2>2, <1>5, <1>7
  <2> QED BY <2>1, <2>2, <1>8
<1>11. HasOrNeeds(y)
  <2> SUFFICES ASSUME NEW i \in 1 .. Len(y), y[i].name \notin OfRequest
               PROVE  /\ i < Len(y) => y[i + 1].name \notin OfRequest
                      /\ \A m \in Wiring!Needs(y[i].name) :
                           \/ m \in cInstances
                           \/ \E k \in 1 .. Len(y[i].left) : y[i].left[k] = [on |-> m, lazy |-> FALSE]
                           \/ i < Len(y) /\ y[i + 1].name = m
    BY DEF HasOrNeeds
  <2>1. CASE i \in 1 .. L /\ i < L
    <3>1. i + 1 \in 1 .. L /\ i < Len(y) /\ y[i] = s[i] /\ y[i + 1].name = s[i + 1].name /\ i \in 1 .. Len(s) /\ i < Len(s)
      BY <2>1, <1>3, <1>7 DEF L
    <3> QED BY <3>1, <1>1 DEF HasOrNeeds
  <2>2. CASE i \in 1 .. L /\ ~ i < L
    <3>1. i = L /\ i < Len(y) /\ y[i + 1].name = n /\ y[i].name = s[L].name /\ y[i].left = Tail(s[L].left) /\ i \in 1 .. Len(s) /\ ~ i < Len(s)
      BY <2>2, <1>3, <1>5, <1>7 DEF L
    <3>2. ASSUME NEW m \in Wiring!Needs(s[L].name), m \notin cInstances, m # n
          PROVE  \E k \in 1 .. Len(Tail(s[L].left)) : Tail(s[L].left)[k] = [on |-> m, lazy |-> FALSE]
      <4> DEFINE lf == s[L].left
      <4>1. PICK k \in 1 .. Len(lf) : lf[k] = [on |-> m, lazy |-> FALSE]
        BY <3>1, <3>2, <1>1 DEF HasOrNeeds
      <4>2. lf[1].on = n /\ lf[k].on = m /\ Len(lf) \in Nat
        BY <4>1, <1>6
      <4>3. k # 1
        BY <4>2, <3>2
      <4>4. Len(Tail(lf)) = Len(lf) - 1 /\ \A j \in 1 .. Len(lf) - 1 : Tail(lf)[j] = lf[j + 1]
        BY <1>6
      <4> HIDE DEF lf
      <4>5. k - 1 \in 1 .. Len(lf) - 1 /\ (k - 1) + 1 = k
        BY <4>2, <4>3
      <4>6. Tail(lf)[k - 1] = lf[k]
        BY <4>4, <4>5
      <4>7. k - 1 \in 1 .. Len(Tail(lf)) /\ Tail(lf)[k - 1] = [on |-> m, lazy |-> FALSE]
        BY <4>1, <4>4, <4>5, <4>6
      <4> QED BY <4>7 DEF lf
    <3> QED BY <3>1, <3>2, <1>6
  <2>3. CASE i = L + 1
    <3>1. DOMAIN Requires[n] = 1 .. Len(Requires[n])
      BY <1>5
    <3>2. y[i].name = n /\ y[i].left = Requires[n] /\ ~ i < Len(y)
      BY <2>3, <1>3, <1>5, <1>7
    <3>3. \A m \in Wiring!Needs(n) : \E k \in 1 .. Len(Requires[n]) : Requires[n][k] = [on |-> m, lazy |-> FALSE]
      BY <3>1 DEF Wiring!Needs
    <3> QED BY <3>2, <3>3
  <2> QED BY <2>1, <2>2, <2>3, <1>8
<1>12. cStack'[t] = y /\ \A u \in Requests : u # t => cStack'[u] = cStack[u]
  BY DEF ContainerTypes, y, z, f, s
<1>13. y # << >> /\ \A u \in Requests : u # t => cStack[u] = << >>
  <2>1. \A u \in Requests : u # t => cStack[u] = << >>
    BY <1>1 DEF StackInv, OneStack, s
  <2> QED BY <2>1, <1>3, <1>7
<1>14. /\ cPhase[t] \in {"guards", "open"} /\ cBuilding \in Seq(Providers)
       /\ Len(cBuilding) = L /\ cResult[t].name = s[1].name
       /\ \A i \in 1 .. L : cBuilding[i] = s[i].name /\ ~ Wiring!Stored(t, s[i].name)
  BY <1>1 DEF StackInv, Mirrored, s, L, ContainerTypes
<1>15. cBuilding' \in Seq(Providers) /\ Len(cBuilding') = L + 1 /\ cBuilding'[L + 1] = n /\ \A i \in 1 .. L : cBuilding'[i] = cBuilding[i]
  BY <1>14
<1>16. ContainerTypes'
  <2>1. cStack' \in [Requests -> Seq(CFrames)]
    BY <1>7 DEF ContainerTypes, s, z, f, y
  <2>2. cResult' \in [Requests -> [name : Providers \cup {""}, how : {"none", "ok", "cycle", "scope"}]]
    BY DEF ContainerTypes
  <2> QED BY <2>1, <2>2, <1>15 DEF ContainerTypes
<1>17. StackInv'
  <2>1. OneStack' /\ Wiring!NothingLeft'
    BY <1>12, <1>13 DEF OneStack, Wiring!NothingLeft
  <2>2. NoneTwice'
    <3>1. \A i \in 1 .. L : cBuilding[i] # n
      BY <1>14 DEF Wiring!ToSet
    <3>2. \A i \in 1 .. L + 1 : i \in 1 .. L \/ i = L + 1
      BY <1>3
    <3>3. \A i, j \in 1 .. L : cBuilding[i] = cBuilding[j] => i = j
      BY <1>14 DEF StackInv, NoneTwice
    <3> QED BY <1>15, <3>1, <3>2, <3>3 DEF NoneTwice
  <2>3. Mirrored'
    <3>1. 1 \in 1 .. L /\ y[1].name = s[1].name
      BY <1>3, <1>7
    <3>2. cResult'[t].name = s[1].name
      BY <1>14 DEF ContainerTypes
    <3>3. \A i \in 1 .. L + 1 : cBuilding'[i] = y[i].name /\ ~ Wiring!Stored(t, y[i].name)
      BY <1>3, <1>5, <1>7, <1>8, <1>14, <1>15
    <3>4. /\ cPhase[t] \in {"guards", "open"}
          /\ Len(cBuilding') = Len(y) /\ cResult'[t].name = y[1].name
          /\ \A i \in 1 .. Len(y) : cBuilding'[i] = y[i].name /\ ~ Wiring!Stored(t, y[i].name)
      BY <3>1, <3>2, <3>3, <1>7, <1>14, <1>15
    <3>5. \A u \in Requests : cStack'[u] # << >> => u = t
      BY <1>12, <1>13
    <3>6. \A u \in Requests : cStack'[u] # << >> =>
            /\ cPhase[u] \in {"guards", "open"}
            /\ Len(cBuilding') = Len(cStack'[u]) /\ cResult'[u].name = cStack'[u][1].name
            /\ \A i \in 1 .. Len(cStack'[u]) : cBuilding'[i] = cStack'[u][i].name /\ ~ Wiring!Stored(u, cStack'[u][i].name)
      BY <3>4, <3>5, <1>12
    <3> QED BY <3>6 DEF Mirrored, Wiring!Stored
  <2>4. \A u \in Requests : WayOn(cStack'[u]) /\ OwnLeft(cStack'[u]) /\ HasOrNeeds(cStack'[u])
    BY <1>9, <1>10, <1>11, <1>12 DEF StackInv
  <2>5. \A u \in Requests : (WayOn(cStack[u]) /\ OwnLeft(cStack[u]) /\ HasOrNeeds(cStack[u]))'
    <3> SUFFICES ASSUME NEW u \in Requests
                 PROVE  (WayOn(cStack[u]) /\ OwnLeft(cStack[u]) /\ HasOrNeeds(cStack[u]))'
      OBVIOUS
    <3>1. WayOn(cStack'[u]) /\ OwnLeft(cStack'[u]) /\ HasOrNeeds(cStack'[u])
      BY <2>4
    <3>2. WayOn(cStack[u])'
      BY <3>1 DEF WayOn
    <3>3. OwnLeft(cStack[u])'
      BY <3>1 DEF OwnLeft
    <3>4. HasOrNeeds(cStack[u])'
      BY <3>1 DEF HasOrNeeds
    <3> QED BY <3>2, <3>3, <3>4
  <2> QED BY <2>1, <2>2, <2>3, <2>5 DEF StackInv
<1>18. \A u \in Requests : cResult'[u].name = cResult[u].name /\ (cResult'[u].how = "cycle" => cResult[u].how = "cycle")
  BY DEF ContainerTypes
<1>19. KeptInv'
  BY <1>18 DEF KeptInv, WholeOnes, CountedOnce, Wiring!CyclesAreReal
<1>20. EndInv'
  BY EndStays
<1> QED BY <1>16, <1>17, <1>19, <1>20

(* The name is on the stack already: there is a way on from all of them.   *)
LEMMA CircleIsReal ==
  ASSUME ContainerInv, NEW t \in Requests, cStack[t] # << >>, NEW n \in Wiring!Needs(Wiring!Top(t).name), n \in Wiring!ToSet(cBuilding)
  PROVE  \E S \in SUBSET Providers : cResult[t].name \in S /\ \A m \in S : Wiring!Needs(m) \cap S # {}
<1> DEFINE s == cStack[t]
           L == Len(s)
           S == Wiring!ToSet(cBuilding)
<1> USE DEF ContainerInv
<1>1. s \in Seq(CFrames) /\ L \in Nat /\ L >= 1 /\ WayOn(s) /\ Wiring!Top(t) = s[L]
  <2>1. s \in Seq(CFrames) /\ s # << >> /\ WayOn(s) /\ Wiring!Top(t) = s[L]
    BY DEF ContainerTypes, StackInv, Wiring!Top, Wiring!Last
  <2> HIDE DEF s
  <2> QED BY <2>1
<1>2. /\ cBuilding \in Seq(Providers) /\ Len(cBuilding) = L /\ cResult[t].name = s[1].name
      /\ \A i \in 1 .. L : cBuilding[i] = s[i].name
  BY DEF StackInv, Mirrored, ContainerTypes
<1> HIDE DEF s, L
<1>3. S \subseteq Providers /\ \A i \in 1 .. L : s[i].name \in S
  BY <1>2 DEF Wiring!ToSet
<1>4. ASSUME NEW m \in S PROVE Wiring!Needs(m) \cap S # {}
  <2>1. PICK i \in 1 .. L : m = s[i].name
    BY <1>2 DEF Wiring!ToSet
  <2>2. CASE i < L
    <3>1. i \in 1 .. L - 1 /\ i + 1 \in 1 .. L
      BY <2>2, <1>1
    <3>2. s[i + 1].name \in Wiring!Needs(m)
      BY <3>1, <2>1, <1>1 DEF WayOn, L
    <3>3. s[i + 1].name \in S
      BY <3>1, <1>3
    <3> QED BY <3>2, <3>3
  <2>3. CASE ~ i < L
    BY <2>1, <2>3, <1>1
  <2> QED BY <2>2, <2>3
<1>5. cResult[t].name \in S
  BY <1>1, <1>2, <1>3
<1> QED BY <1>3, <1>4, <1>5

LEMMA DependencyKeeps ==
  ASSUME ContainerInv, NEW t \in Requests, Wiring!Dependency(t)
  PROVE  ContainerInv'
<1> DEFINE d == Head(Wiring!Top(t).left)
           rest == Append(Wiring!Front(cStack[t]), [Wiring!Top(t) EXCEPT !.left = Tail(@)])
<1> USE DEF ContainerInv
<1>1. cStack[t] # << >> /\ Wiring!Top(t).left # << >> /\ cTold' = cTold /\ rest = Later(cStack[t])
  BY DEF Wiring!Dependency, Later, Wiring!Top
<1>2. cStack[t] \in Seq(CFrames) /\ WayOn(cStack[t]) /\ OwnLeft(cStack[t]) /\ HasOrNeeds(cStack[t]) /\ Wiring!Top(t) = Wiring!Last(cStack[t])
  BY DEF ContainerTypes, StackInv, Wiring!Top
<1>3. d \in CEntries /\ \E j \in DOMAIN Requires[Wiring!Top(t).name] : d = Requires[Wiring!Top(t).name][j]
  BY <1>1, <1>2, LaterKeeps
<1>4. ASSUME Wiring!Top(t).name \in OfRequest \/ d.lazy \/ d.on \in cInstances
      PROVE  HasOrNeeds(rest)
  BY <1>1, <1>2, <1>4, LaterKeeps
<1>5. CASE d.lazy
  <2>1. /\ cStack' = [cStack EXCEPT ![t] = rest]
        /\ UNCHANGED << cInstances, cBuilding, cStore, cMade, cResult, cDue, cPhase >>
    BY <1>5 DEF Wiring!Dependency
  <2> HIDE DEF d, rest
  <2> QED BY <1>1, <1>4, <1>5, <2>1, MoveKeeps
<1>6. CASE ~ d.lazy /\ Wiring!Top(t).name \notin OfRequest /\ d.on \in OfRequest
  <2>1. Wiring!Raise(t, cResult[t].name, "scope")
    BY <1>6 DEF Wiring!Dependency
  <2> QED BY <1>1, <2>1, RaiseKeeps
<1>7. CASE ~ d.lazy /\ (Wiring!Top(t).name \in OfRequest \/ d.on \notin OfRequest)
  <2>1. Wiring!Resolve(t, d.on, rest)
    BY <1>7 DEF Wiring!Dependency
  <2>2. d = [on |-> d.on, lazy |-> FALSE] /\ d.on \in Providers
    BY <1>3, <1>7 DEF CEntries
  <2>3. d.on \in Wiring!Needs(Wiring!Top(t).name)
    BY <1>3, <2>2 DEF Wiring!Needs
  <2>4. rest # << >>
    BY <1>1, <1>2, LaterIs
  <2> HIDE DEF d, rest
  <2>5. CASE Wiring!Stored(t, d.on)
    <3>1. /\ cStack' = [cStack EXCEPT ![t] = rest]
          /\ UNCHANGED << cInstances, cBuilding, cStore, cMade, cDue, cPhase >>
          /\ cResult' = [cResult EXCEPT ![t] = [name |-> cResult[t].name, how |-> "none"]]
      BY <1>1, <2>1, <2>4, <2>5 DEF Wiring!Resolve
    <3>2. HasOrNeeds(rest)
      BY <1>4, <1>7, <2>5 DEF Wiring!Stored
    <3> QED BY <1>1, <3>1, <3>2, MoveKeeps
  <2>6. CASE ~ Wiring!Stored(t, d.on) /\ d.on \in Wiring!ToSet(cBuilding)
    <3>1. Wiring!Raise(t, cResult[t].name, "cycle")
      BY <1>1, <2>1, <2>6 DEF Wiring!Resolve
    <3>2. \E S \in SUBSET Providers : cResult[t].name \in S /\ \A n \in S : Wiring!Needs(n) \cap S # {}
      BY <1>1, <2>3, <2>6, CircleIsReal
    <3> QED BY <1>1, <3>1, <3>2, RaiseKeeps
  <2>7. CASE ~ Wiring!Stored(t, d.on) /\ d.on \notin Wiring!ToSet(cBuilding)
    <3>1. /\ cStack' = [cStack EXCEPT ![t] = Append(rest, [name |-> d.on, left |-> Requires[d.on]])]
          /\ cBuilding' = Append(cBuilding, d.on)
          /\ UNCHANGED << cInstances, cStore, cMade, cDue, cPhase >>
          /\ cResult' = [cResult EXCEPT ![t] = [name |-> cResult[t].name, how |-> "none"]]
      BY <1>1, <2>1, <2>7 DEF Wiring!Resolve
    <3>2. d = Head(Wiring!Top(t).left)
      BY DEF d
    <3> QED BY <1>1, <1>7, <2>2, <2>7, <3>1, <3>2, PushKeeps
  <2> QED BY <2>5, <2>6, <2>7
<1> QED BY <1>5, <1>6, <1>7

(* A constructor returns: all that it needs is there.                      *)
LEMMA ConstructKeeps ==
  ASSUME ContainerInv, NEW t \in Requests, Wiring!Construct(t)
  PROVE  ContainerInv'
<1> DEFINE s == cStack[t]
           z == Wiring!Front(s)
           L == Len(s)
           n == Wiring!Top(t).name
<1> USE DEF ContainerInv
<1>1. s \in Seq(CFrames) /\ s # << >> /\ WayOn(s) /\ OwnLeft(s) /\ HasOrNeeds(s) /\ L \in Nat /\ L >= 1
  <2>1. s \in Seq(CFrames) /\ s # << >> /\ WayOn(s) /\ OwnLeft(s) /\ HasOrNeeds(s)
    BY DEF ContainerTypes, StackInv, Wiring!Construct
  <2> HIDE DEF s
  <2> QED BY <2>1
<1>2. /\ z \in Seq(CFrames) /\ Len(z) = L - 1 /\ \A i \in 1 .. L - 1 : z[i] = s[i]
  BY <1>1, FrontIs
<1>3. Wiring!Top(t) = s[L] /\ s[L].left = << >> /\ s[L] \in CFrames /\ n = s[L].name /\ n \in Providers
  <2>1. Wiring!Top(t) = s[L] /\ s[L].left = << >>
    BY DEF Wiring!Construct, Wiring!Top, Wiring!Last
  <2>2. s[L] \in CFrames
    BY <1>1
  <2> QED BY <2>1, <2>2 DEF CFrames
<1>4. /\ cBuilding' = Wiring!Front(cBuilding) /\ cStack' = [cStack EXCEPT ![t] = z]
      /\ UNCHANGED << cPhase, cDue, cTold >>
      /\ cResult' = [cResult EXCEPT ![t].how = IF L = 1 THEN "ok" ELSE @]
  BY DEF Wiring!Construct
<1>5. IF n \in OfRequest
      THEN cStore' = [cStore EXCEPT ![t] = Append(@, n)] /\ UNCHANGED << cInstances, cMade >>
      ELSE /\ cInstances' = cInstances \cup {n} /\ cMade' = [cMade EXCEPT ![n] = @ + 1]
           /\ UNCHANGED cStore
  BY DEF Wiring!Construct
<1>6. /\ cPhase[t] \in {"guards", "open"} /\ cBuilding \in Seq(Providers) /\ cBuilding # << >>
      /\ Len(cBuilding) = L /\ cResult[t].name = s[1].name
      /\ \A i \in 1 .. L : cBuilding[i] = s[i].name /\ ~ Wiring!Stored(t, s[i].name)
  <2>1. /\ cPhase[t] \in {"guards", "open"} /\ cBuilding \in Seq(Providers)
        /\ Len(cBuilding) = L /\ cResult[t].name = s[1].name
        /\ \A i \in 1 .. L : cBuilding[i] = s[i].name /\ ~ Wiring!Stored(t, s[i].name)
    BY <1>1 DEF StackInv, Mirrored, ContainerTypes
  <2> QED BY <2>1, <1>1
<1>7. \A u \in Requests : u # t => cStack[u] = << >>
  BY <1>1 DEF StackInv, OneStack
<1> HIDE DEF s, z, L, n
<1>8. /\ cBuilding' \in Seq(Providers) /\ Len(cBuilding') = L - 1 /\ \A i \in 1 .. L - 1 : cBuilding'[i] = cBuilding[i]
  BY <1>4, <1>6, FrontIs
<1>9. cStack'[t] = z /\ \A u \in Requests : u # t => cStack'[u] = << >>
  BY <1>4, <1>7 DEF ContainerTypes
<1>10. ~ Wiring!Stored(t, n) /\ \A i \in 1 .. L - 1 : i \in 1 .. L /\ s[i].name # n
  <2>1. L \in 1 .. L /\ \A i \in 1 .. L - 1 : i \in 1 .. L /\ i # L
    BY <1>1
  <2>2. \A i, j \in 1 .. L : cBuilding[i] = cBuilding[j] => i = j
    BY <1>6 DEF StackInv, NoneTwice
  <2> QED BY <2>1, <2>2, <1>3, <1>6
<1>11. \A u \in Requests : cResult'[u].name = cResult[u].name /\ (cResult'[u].how = "cycle" => cResult[u].how = "cycle")
  BY <1>4 DEF ContainerTypes
<1>12. ContainerTypes'
  <2>1. cStack' \in [Requests -> Seq(CFrames)]
    BY <1>2, <1>4 DEF ContainerTypes
  <2>2. cResult' \in [Requests -> [name : Providers \cup {""}, how : {"none", "ok", "cycle", "scope"}]]
    BY <1>4 DEF ContainerTypes
  <2>3. cStore' \in [Requests -> Seq(Providers)]
    <3>1. CASE n \in OfRequest
      <4>1. cStore[t] \in Seq(Providers)
        BY DEF ContainerTypes
      <4>2. Append(cStore[t], n) \in Seq(Providers)
        BY <4>1, <1>3
      <4> QED BY <4>2, <3>1, <1>5 DEF ContainerTypes
    <3>2. CASE n \notin OfRequest
      BY <3>2, <1>5 DEF ContainerTypes
    <3> QED BY <3>1, <3>2
  <2>4. cInstances' \in SUBSET (Providers \ OfRequest) /\ cMade' \in [Providers -> Int]
    <3>1. CASE n \in OfRequest
      BY <3>1, <1>5 DEF ContainerTypes
    <3>2. CASE n \notin OfRequest
      <4>1. cInstances' \in SUBSET (Providers \ OfRequest)
        BY <3>2, <1>3, <1>5 DEF ContainerTypes
      <4>2. cMade' \in [Providers -> Int]
        <5>1. cMade' = [cMade EXCEPT ![n] = @ + 1] /\ cMade \in [Providers -> Int] /\ n \in Providers
          BY <3>2, <1>3, <1>5 DEF ContainerTypes
        <5>2. cMade[n] + 1 \in Int
          BY <5>1
        <5> QED BY <5>1, <5>2
      <4> QED BY <4>1, <4>2
    <3> QED BY <3>1, <3>2
  <2> QED BY <2>1, <2>2, <2>3, <2>4, <1>4, <1>8 DEF ContainerTypes
<1>13. \A i \in 1 .. L - 1 :
         IF s[i].name \in OfRequest THEN s[i].name \notin Wiring!ToSet(cStore'[t]) ELSE s[i].name \notin cInstances'
  <2> SUFFICES ASSUME NEW m, m # n, ~ Wiring!Stored(t, m)
               PROVE  IF m \in OfRequest THEN m \notin Wiring!ToSet(cStore'[t]) ELSE m \notin cInstances'
    BY <1>6, <1>10
  <2>2. CASE n \in OfRequest
    <3>1. cStore'[t] = Append(cStore[t], n) /\ cInstances' = cInstances /\ cStore[t] \in Seq(Providers)
      BY <2>2, <1>5 DEF ContainerTypes
    <3>2. m \notin Wiring!ToSet(cStore[t]) => m \notin Wiring!ToSet(cStore'[t])
      BY <3>1 DEF Wiring!ToSet
    <3> QED BY <3>1, <3>2 DEF Wiring!Stored
  <2>3. CASE n \notin OfRequest
    BY <2>3, <1>5 DEF Wiring!Stored
  <2> QED BY <2>2, <2>3
<1>14. StackInv'
  <2>1. OneStack'
    BY <1>9 DEF OneStack
  <2>2. Wiring!NothingLeft'
    <3>1. z = << >> => L - 1 = 0
      BY <1>2
    <3>2. L - 1 = 0 => cBuilding' = << >>
      BY <1>8
    <3> QED BY <3>1, <3>2, <1>9 DEF Wiring!NothingLeft
  <2>3. NoneTwice'
    <3>1. \A i, j \in 1 .. L : cBuilding[i] = cBuilding[j] => i = j
      BY <1>6 DEF StackInv, NoneTwice
    <3> QED BY <3>1, <1>8, <1>10 DEF NoneTwice
  <2>4. Mirrored'
    <3>1. z # << >> => 1 \in 1 .. L - 1 /\ z[1].name = s[1].name
      BY <1>2, <1>1
    <3>2. cResult'[t].name = s[1].name /\ cPhase' = cPhase
      BY <1>4, <1>6, <1>11
    <3>3. \A i \in 1 .. L - 1 : cBuilding'[i] = z[i].name
      BY <1>2, <1>6, <1>8, <1>10
    <3>4. \A i \in 1 .. L - 1 :
            IF z[i].name \in OfRequest THEN z[i].name \notin Wiring!ToSet(cStore'[t]) ELSE z[i].name \notin cInstances'
      BY <1>13, <1>2
    <3>5. \A u \in Requests : cStack'[u] # << >> => u = t
      BY <1>9
    <3>6. \A u \in Requests : cStack'[u] # << >> =>
            /\ cPhase'[u] \in {"guards", "open"}
            /\ Len(cBuilding') = Len(cStack'[u]) /\ cResult'[u].name = cStack'[u][1].name
            /\ \A i \in 1 .. Len(cStack'[u]) :
                 /\ cBuilding'[i] = cStack'[u][i].name
                 /\ IF cStack'[u][i].name \in OfRequest THEN cStack'[u][i].name \notin Wiring!ToSet(cStore'[u])
                    ELSE cStack'[u][i].name \notin cInstances'
      BY <3>1, <3>2, <3>3, <3>4, <3>5, <1>2, <1>6, <1>8, <1>9
    <3> QED BY <3>6 DEF Mirrored, Wiring!Stored
  <2>5. \A i \in 1 .. L - 1 : i \in 1 .. L /\ i < L /\ i \in 1 .. Len(s)
    BY <1>1 DEF L
  <2>6. WayOn(z) /\ OwnLeft(z)
    <3>1. WayOn(z)
      <4>1. \A i \in 1 .. (L - 1) - 1 : i \in 1 .. L - 1 /\ i + 1 \in 1 .. L - 1
        BY <1>1
      <4> QED BY <4>1, <1>1, <1>2 DEF WayOn, L
    <3>2. OwnLeft(z)
      <4> SUFFICES ASSUME NEW i \in 1 .. L - 1, NEW k \in 1 .. Len(z[i].left)
                   PROVE  \E j \in DOMAIN Requires[z[i].name] : z[i].left[k] = Requires[z[i].name][j]
        BY <1>2 DEF OwnLeft
      <4>1. z[i] = s[i] /\ i \in 1 .. Len(s)
        BY <2>5, <1>2
      <4> QED BY <4>1, <1>1 DEF OwnLeft
    <3> QED BY <3>1, <3>2
  <2>7. \A i \in 1 .. L - 1 : z[i].name \notin OfRequest =>
          /\ i < L - 1 => z[i + 1].name \notin OfRequest
          /\ \A m \in Wiring!Needs(z[i].name) :
               \/ m \in cInstances'
               \/ \E k \in 1 .. Len(z[i].left) : z[i].left[k] = [on |-> m, lazy |-> FALSE]
               \/ i < L - 1 /\ z[i + 1].name = m
    <3> SUFFICES ASSUME NEW i \in 1 .. L - 1, s[i].name \notin OfRequest
                 PROVE  /\ i < L - 1 => z[i + 1].name \notin OfRequest
                        /\ \A m \in Wiring!Needs(s[i].name) :
                             \/ m \in cInstances'
                             \/ \E k \in 1 .. Len(s[i].left) : s[i].left[k] = [on |-> m, lazy |-> FALSE]
                             \/ i < L - 1 /\ z[i + 1].name = m
      BY <1>2
    <3>1. /\ s[i + 1].name \notin OfRequest
          /\ \A m \in Wiring!Needs(s[i].name) :
               \/ m \in cInstances
               \/ \E k \in 1 .. Len(s[i].left) : s[i].left[k] = [on |-> m, lazy |-> FALSE]
               \/ s[i + 1].name = m
      BY <2>5, <1>1 DEF HasOrNeeds, L
    <3>2. cInstances \subseteq cInstances'
      BY <1>5
    <3>3. CASE i < L - 1
      <4>1. z[i + 1] = s[i + 1]
        BY <3>3, <1>1, <1>2
      <4> QED BY <4>1, <3>1, <3>2, <3>3
    <3>4. CASE ~ i < L - 1
      <4>1. i + 1 = L /\ s[i + 1].name = n
        BY <3>4, <1>1, <1>3
      <4>2. n \in cInstances'
        BY <4>1, <3>1, <1>5
      <4> QED BY <4>1, <4>2, <3>1, <3>2, <3>4
    <3> QED BY <3>3, <3>4
  <2>8. \A u \in Requests : (WayOn(cStack[u]) /\ OwnLeft(cStack[u]) /\ HasOrNeeds(cStack[u]))'
    <3> SUFFICES ASSUME NEW u \in Requests
                 PROVE  (WayOn(cStack[u]) /\ OwnLeft(cStack[u]) /\ HasOrNeeds(cStack[u]))'
      OBVIOUS
    <3>1. CASE u = t
      <4>1. WayOn(cStack[u])'
        BY <3>1, <2>6, <1>9 DEF WayOn
      <4>2. OwnLeft(cStack[u])'
        BY <3>1, <2>6, <1>9 DEF OwnLeft
      <4>3. HasOrNeeds(cStack[u])'
        BY <3>1, <2>7, <1>2, <1>9 DEF HasOrNeeds
      <4> QED BY <4>1, <4>2, <4>3
    <3>2. CASE u # t
      <4>1. cStack'[u] = << >> /\ Len(<< >>) = 0 /\ 1 .. 0 = {} /\ 1 .. 0 - 1 = {}
        BY <3>2, <1>9
      <4> QED BY <4>1 DEF WayOn, OwnLeft, HasOrNeeds
    <3> QED BY <3>1, <3>2
  <2> QED BY <2>1, <2>2, <2>3, <2>4, <2>8 DEF StackInv
<1>15. KeptInv'
  <2>1. Wiring!CyclesAreReal'
    BY <1>11 DEF KeptInv, Wiring!CyclesAreReal
  <2>2. WholeOnes'
    <3>1. n \notin OfRequest => Wiring!Needs(n) \subseteq cInstances
      <4>1. L \in 1 .. Len(s) /\ ~ L < Len(s) /\ 1 .. Len(s[L].left) = {}
        BY <1>1, <1>3 DEF L
      <4> QED BY <4>1, <1>1, <1>3 DEF HasOrNeeds
    <3> QED BY <3>1, <1>5 DEF KeptInv, WholeOnes
  <2>3. CountedOnce'
    <3>1. n \notin OfRequest => n \notin cInstances
      BY <1>10 DEF Wiring!Stored
    <3>2. CASE n \in OfRequest
      BY <3>2, <1>5 DEF KeptInv, CountedOnce
    <3>3. CASE n \notin OfRequest
      <4>1. cMade[n] = 0 /\ cMade'[n] = cMade[n] + 1 /\ \A m \in Providers : m # n => cMade'[m] = cMade[m]
        BY <3>1, <3>3, <1>3, <1>5 DEF KeptInv, CountedOnce, ContainerTypes
      <4> QED BY <4>1, <3>3, <1>5 DEF KeptInv, CountedOnce
    <3> QED BY <3>2, <3>3
  <2> QED BY <2>1, <2>2, <2>3 DEF KeptInv
<1>16. EndInv'
  <2> SUFFICES ASSUME NEW u \in Requests PROVE (NoneAgain(cStore[u]) /\ NotTold(u) /\ EndsInOrder(u))'
    BY DEF EndInv
  <2>0. NoneAgain(cStore[u]) /\ NotTold(u) /\ EndsInOrder(u) /\ UNCHANGED << cPhase, cDue, cTold >>
    BY <1>4 DEF EndInv
  <2>1. CASE u = t /\ n \in OfRequest
    <3>1. cStore'[t] = Append(cStore[t], n) /\ cStore[t] \in Seq(Providers) /\ n \notin Wiring!ToSet(cStore[t])
      BY <2>1, <1>5, <1>10 DEF ContainerTypes, Wiring!Stored
    <3>2. NoneAgain(cStore'[t])
      BY <3>1, <2>0, <2>1 DEF NoneAgain, Wiring!ToSet
    <3>3. NotTold(t)' /\ EndsInOrder(t)'
      BY <2>0, <2>1, <1>6 DEF NotTold, EndsInOrder
    <3>4. NoneAgain(cStore[t])'
      BY <3>2 DEF NoneAgain
    <3> QED BY <2>1, <3>3, <3>4
  <2>2. CASE ~ (u = t /\ n \in OfRequest)
    <3>1. cStore'[u] = cStore[u]
      BY <2>2, <1>5 DEF ContainerTypes
    <3> QED BY <3>1, <2>0 DEF NoneAgain, NotTold, EndsInOrder
  <2> QED BY <2>1, <2>2
<1> QED BY <1>12, <1>14, <1>15, <1>16

-----------------------------------------------------------------------------
LEMMA StacksStay ==
  ASSUME StackInv, UNCHANGED << cStack, cInstances >>
  PROVE  \A u \in Requests : (WayOn(cStack[u]) /\ OwnLeft(cStack[u]) /\ HasOrNeeds(cStack[u]))'
<1> SUFFICES ASSUME NEW u \in Requests
             PROVE  (WayOn(cStack[u]) /\ OwnLeft(cStack[u]) /\ HasOrNeeds(cStack[u]))'
  OBVIOUS
<1>1. WayOn(cStack[u]) /\ OwnLeft(cStack[u]) /\ HasOrNeeds(cStack[u])
  BY DEF StackInv
<1>2. WayOn(cStack[u])'
  BY <1>1 DEF WayOn
<1>3. OwnLeft(cStack[u])'
  BY <1>1 DEF OwnLeft
<1>4. HasOrNeeds(cStack[u])'
  BY <1>1 DEF HasOrNeeds
<1> QED BY <1>2, <1>3, <1>4

(* Nothing is resolved: only the phase and what is due change.             *)
LEMMA CalmKeeps ==
  ASSUME ContainerTypes, StackInv, KeptInv, NEW t \in Requests, cStack[t] = << >>,
         \A u \in Requests : u # t => cPhase'[u] = cPhase[u],
         UNCHANGED << cInstances, cBuilding, cStore, cStack, cMade, cResult >>
  PROVE  StackInv' /\ KeptInv'
<1>1. Mirrored'
  BY DEF StackInv, Mirrored, Wiring!Stored
<1>2. StackInv'
  <2>1. OneStack' /\ Wiring!NothingLeft' /\ NoneTwice'
    BY DEF StackInv, OneStack, Wiring!NothingLeft, NoneTwice
  <2> QED BY <1>1, <2>1, StacksStay DEF StackInv
<1>3. KeptInv'
  BY DEF KeptInv, WholeOnes, CountedOnce, Wiring!CyclesAreReal
<1> QED BY <1>2, <1>3

LEMMA AskKeeps ==
  ASSUME ContainerInv, NEW t \in Requests, NEW n \in Resolved, Wiring!Ask(t, n)
  PROVE  ContainerInv'
<1>1. n \in Providers
  BY WiringInstance DEF Wiring!ContainerAssumption
<1>2. Wiring!Resolve(t, n, << >>) /\ cStack[t] = << >> /\ cPhase[t] \in {"guards", "open"} /\ cTold' = cTold /\ Wiring!Runs(t)
  BY DEF Wiring!Ask
<1> QED BY <1>1, <1>2, AskedAlone, ResolveFirst DEF ContainerInv

LEMMA GuardKeeps ==
  ASSUME ContainerInv, NEW t \in Requests, Wiring!GuardRun(t)
  PROVE  ContainerInv'
<1> USE DEF ContainerInv
<1> DEFINE g == Head(cDue[t])
<1>1. /\ cPhase[t] = "guards" /\ Wiring!Runs(t) /\ cStack[t] = << >> /\ cDue[t] # << >> /\ cDue[t] \in Seq(Providers)
      /\ cTold' = cTold
  BY DEF Wiring!GuardRun, ContainerTypes
<1>2. g \in Providers
  BY <1>1
<1>3. CASE ~ Wiring!Stored(t, g) /\ Wiring!Resolve(t, g, << >>)
  BY <1>1, <1>2, <1>3, AskedAlone, ResolveFirst
<1>4. CASE /\ cDue' = [cDue EXCEPT ![t] = Tail(@)]
           /\ UNCHANGED << cInstances, cBuilding, cStore, cStack, cMade, cResult, cPhase >>
  <2>1. Tail(cDue[t]) \in Seq(Providers)
    BY <1>1
  <2>2. ContainerTypes'
    BY <1>1, <1>4, <2>1 DEF ContainerTypes
  <2>3. EndInv'
    <3>1. \A u \in Requests : u # t => cDue'[u] = cDue[u]
      BY <1>4 DEF ContainerTypes
    <3>2. NotTold(t)' /\ EndsInOrder(t)'
      BY <1>1, <1>4 DEF EndInv, NotTold, EndsInOrder
    <3> QED BY <1>1, <1>4, <3>1, <3>2, EndOfOne
  <2> QED BY <1>1, <1>4, <2>2, <2>3, CalmKeeps
<1>5. CASE /\ cDue' = [cDue EXCEPT ![t] = << >>] /\ cPhase' = [cPhase EXCEPT ![t] = "open"]
           /\ UNCHANGED << cInstances, cBuilding, cStore, cStack, cMade, cResult >>
  <2>1. << >> \in Seq(Providers) /\ "open" \in CPhases
    BY DEF CPhases
  <2>2. ContainerTypes'
    BY <1>1, <1>5, <2>1 DEF ContainerTypes
  <2>3. cPhase'[t] = "open" /\ \A u \in Requests : u # t => cDue'[u] = cDue[u] /\ cPhase'[u] = cPhase[u]
    BY <1>5 DEF ContainerTypes
  <2>4. EndInv'
    <3>1. NotTold(t)' /\ EndsInOrder(t)'
      BY <1>1, <1>5, <2>3 DEF EndInv, NotTold, EndsInOrder
    <3> QED BY <1>1, <1>5, <2>3, <3>1, EndOfOne
  <2> QED BY <1>1, <1>5, <2>2, <2>3, <2>4, CalmKeeps
<1> QED BY <1>3, <1>4, <1>5 DEF Wiring!GuardRun

LEMMA OpenKeeps ==
  ASSUME ContainerInv, NEW t \in Requests, Wiring!Open(t) \/ Wiring!Handler(t)
  PROVE  ContainerInv'
<1> USE DEF ContainerInv
<1>1. CheckedBy \in Seq(Providers)
  BY WiringInstance DEF Wiring!ContainerAssumption
<1>2. /\ cPhase[t] \in {"idle", "guards"} /\ cPhase'[t] \in {"guards", "open"} /\ cPhase' \in [Requests -> CPhases]
      /\ cDue' \in [Requests -> Seq(Providers)]
      /\ \A u \in Requests : u # t => cDue'[u] = cDue[u] /\ cPhase'[u] = cPhase[u]
      /\ UNCHANGED << cInstances, cBuilding, cStore, cStack, cMade, cTold, cResult >>
  <2>1. CASE Wiring!Open(t)
    BY <2>1, <1>1 DEF Wiring!Open, ContainerTypes, CPhases
  <2>2. CASE Wiring!Handler(t)
    BY <2>2 DEF Wiring!Handler, ContainerTypes, CPhases
  <2> QED BY <2>1, <2>2
<1>3. cStack[t] = << >>
  BY DEF Wiring!Open, Wiring!Handler, StackInv, Mirrored
<1>4. ContainerTypes'
  BY <1>2 DEF ContainerTypes
<1>5. EndInv'
  <2>1. NotTold(t)' /\ EndsInOrder(t)'
    BY <1>2 DEF EndInv, NotTold, EndsInOrder
  <2> QED BY <1>2, <2>1, EndOfOne
<1> QED BY <1>2, <1>3, <1>4, <1>5, CalmKeeps

LEMMA CloseKeeps ==
  ASSUME ContainerInv, NEW t \in Requests, Wiring!Close(t)
  PROVE  ContainerInv'
<1> USE DEF ContainerInv
<1>1. /\ cPhase[t] = "open" /\ cStack[t] = << >> /\ cPhase' = [cPhase EXCEPT ![t] = "ending"]
      /\ cDue' = [cDue EXCEPT ![t] = Wiring!Reverse(cStore[t])]
      /\ UNCHANGED << cInstances, cBuilding, cStore, cStack, cMade, cTold, cResult >>
  BY DEF Wiring!Close
<1>2. cStore[t] \in Seq(Providers)
  BY DEF ContainerTypes
<1>3. /\ Wiring!Reverse(cStore[t]) \in Seq(Providers) /\ Len(Wiring!Reverse(cStore[t])) = Len(cStore[t])
      /\ \A i \in 1 .. Len(cStore[t]) : Wiring!Reverse(cStore[t])[i] = cStore[t][Len(cStore[t]) + 1 - i]
  <2>1. Wiring!Reverse(cStore[t]) = [i \in 1 .. Len(cStore[t]) |-> cStore[t][(Len(cStore[t]) - i) + 1]]
    BY DEF Wiring!Reverse
  <2>2. \A i \in 1 .. Len(cStore[t]) : (Len(cStore[t]) - i) + 1 \in 1 .. Len(cStore[t])
    BY <1>2
  <2>3. \A i \in 1 .. Len(cStore[t]) : cStore[t][(Len(cStore[t]) - i) + 1] \in Providers
    BY <1>2, <2>2
  <2>4. \A i \in 1 .. Len(cStore[t]) : (Len(cStore[t]) - i) + 1 = Len(cStore[t]) + 1 - i
    BY <1>2
  <2>5. Wiring!Reverse(cStore[t]) \in Seq(Providers) /\ Len(Wiring!Reverse(cStore[t])) = Len(cStore[t])
    BY <1>2, <2>1, <2>3, SeqDef
  <2> QED BY <2>1, <2>4, <2>5
<1>4. cPhase'[t] = "ending" /\ cDue'[t] = Wiring!Reverse(cStore[t]) /\ \A u \in Requests : u # t => cDue'[u] = cDue[u] /\ cPhase'[u] = cPhase[u]
  BY <1>1 DEF ContainerTypes
<1>5. ContainerTypes'
  BY <1>1, <1>3 DEF ContainerTypes, CPhases
<1>6. EndsInOrder(t)'
  <2>1. cTold[t] = << >>
    BY <1>1 DEF EndInv, NotTold
  <2>2. Len(cStore[t]) \in Nat /\ Len(cTold[t]) = 0
    BY <1>2, <2>1
  <2>3. \A a \in 1 .. Len(cStore[t]) : ~ a > Len(cStore[t])
    BY <2>2
  <2>4. 1 .. 0 = {}
    OBVIOUS
  <2>5. cTold'[t] = cTold[t] /\ cStore'[t] = cStore[t] /\ cPhase'[t] = "ending"
    BY <1>1, <1>4
  <2>6. /\ Len(cDue'[t]) <= Len(cStore[t])
        /\ \A i \in 1 .. Len(cDue'[t]) : cDue'[t][i] = cStore[t][Len(cDue'[t]) + 1 - i]
        /\ \A a \in 1 .. Len(cStore[t]) : ~ a > Len(cDue'[t])
    BY <1>3, <1>4, <2>2, <2>3
  <2>7. \A i \in 1 .. Len(cTold[t]) : FALSE
    BY <2>2, <2>4
  <2> QED BY <2>5, <2>6, <2>7 DEF EndsInOrder
<1>7. EndInv'
  <2>1. NotTold(t)'
    BY <1>4 DEF NotTold
  <2> QED BY <2>1, <1>1, <1>4, <1>6, EndOfOne
<1> QED BY <1>1, <1>4, <1>5, <1>7, CalmKeeps

LEMMA ClosedKeeps ==
  ASSUME ContainerInv, NEW t \in Requests, Wiring!Closed(t)
  PROVE  ContainerInv'
<1> USE DEF ContainerInv
<1>1. /\ cPhase[t] = "ending" /\ cDue[t] = << >> /\ cPhase' = [cPhase EXCEPT ![t] = "closed"]
      /\ UNCHANGED << cInstances, cBuilding, cStore, cDue, cStack, cMade, cTold, cResult >>
  BY DEF Wiring!Closed
<1>2. cPhase'[t] = "closed" /\ \A u \in Requests : u # t => cPhase'[u] = cPhase[u]
  BY <1>1 DEF ContainerTypes
<1>3. cStack[t] = << >>
  BY <1>1 DEF StackInv, Mirrored
<1>4. ContainerTypes'
  BY <1>1 DEF ContainerTypes, CPhases
<1>5. EndInv'
  <2>1. EndsInOrder(t) /\ UNCHANGED << cDue, cTold, cStore >>
    BY <1>1 DEF EndInv
  <2>2. NotTold(t)'
    BY <1>2 DEF NotTold
  <2>3. EndsInOrder(t)'
    BY <1>1, <1>2, <2>1 DEF EndsInOrder
  <2> QED BY <2>2, <2>3, <1>1, <1>2, EndOfOne
<1> QED BY <1>1, <1>2, <1>3, <1>4, <1>5, CalmKeeps

LEMMA HookInOrder ==
  ASSUME ContainerInv, NEW t \in Requests, Wiring!Hook(t), HookFailing = {}
  PROVE  EndsInOrder(t)'
<1> USE DEF ContainerInv
<1> DEFINE q == cDue[t]
           s == cStore[t]
           o == cTold[t]
           h == Head(q)
<1>1. /\ cPhase[t] = "ending" /\ q # << >>
      /\ cTold' = [cTold EXCEPT ![t] = IF h \in HookedUp THEN Append(@, h) ELSE @]
      /\ cDue' = [cDue EXCEPT ![t] = Tail(@)]
      /\ UNCHANGED << cInstances, cBuilding, cStore, cPhase, cStack, cMade, cResult >>
  BY DEF Wiring!Hook
<1>2. q \in Seq(Providers) /\ s \in Seq(Providers) /\ o \in Seq(Providers)
  BY DEF ContainerTypes
<1>4. /\ Len(q) \in Nat /\ Len(q) >= 1 /\ h = q[1] /\ h \in Providers /\ Tail(q) \in Seq(Providers)
      /\ Len(Tail(q)) = Len(q) - 1 /\ Len(s) \in Nat /\ Len(o) \in Nat
      /\ \A i \in 1 .. Len(q) - 1 : Tail(q)[i] = q[i + 1]
  BY <1>1, <1>2
<1>14. Len(q) \in Nat /\ Len(q) >= 1 /\ Len(s) \in Nat /\ Len(o) \in Nat
  BY <1>4
<1>5. EndsInOrder(t) /\ NoneAgain(s)
  BY DEF EndInv
<1>6. /\ Len(q) <= Len(s)
      /\ \A i \in 1 .. Len(q) : q[i] = s[Len(q) + 1 - i]
      /\ \A i \in 1 .. Len(o) :
           /\ o[i] \in HookedUp
                                 /\ \E a \in 1 .. Len(s) : a > Len(q) /\ s[a] = o[i]
      /\ \A a \in 1 .. Len(s) : a > Len(q) /\ s[a] \in HookedUp => \E i \in 1 .. Len(o) : o[i] = s[a]
      /\ \A i, j \in 1 .. Len(o) : i < j =>
           \E a, b \in 1 .. Len(s) : a < b /\ s[a] = o[j] /\ s[b] = o[i]
  BY <1>1, <1>5 DEF EndsInOrder
<1>7. cDue'[t] = Tail(q) /\ cTold'[t] = (IF h \in HookedUp THEN Append(o, h) ELSE o)
      /\ \A u \in Requests : u # t => cDue'[u] = cDue[u] /\ cTold'[u] = cTold[u]
  BY <1>1 DEF ContainerTypes
<1> HIDE DEF q, s, o, h
<1>9. /\ h = s[Len(q)] /\ Len(q) \in 1 .. Len(s)
      /\ \A i \in 1 .. Len(q) - 1 : Tail(q)[i] = s[(Len(q) - 1) + 1 - i]
  <2>1. 1 \in 1 .. Len(q) /\ Len(q) + 1 - 1 = Len(q)
    BY <1>4
  <2>2. \A i \in 1 .. Len(q) - 1 : i + 1 \in 1 .. Len(q) /\ Len(q) + 1 - (i + 1) = (Len(q) - 1) + 1 - i
    BY <1>14
  <2>3. q[1] = s[Len(q) + 1 - 1] /\ \A i \in 1 .. Len(q) - 1 : q[i + 1] = s[Len(q) + 1 - (i + 1)]
    BY <2>1, <2>2, <1>6
  <2>4. Len(q) \in 1 .. Len(s)
    BY <1>6, <1>14
  <2> QED BY <2>1, <2>2, <2>3, <2>4, <1>4
<1>10. \A a \in 1 .. Len(s) : a > Len(q) - 1 <=> a > Len(q) \/ a = Len(q)
  BY <1>14
<1>11. \E p \in Seq(Providers) :
         /\ p = cTold'[t]
         /\ \A i \in 1 .. Len(p) :
              /\ p[i] \in HookedUp
                                    /\ \E a \in 1 .. Len(s) : a > Len(q) - 1 /\ s[a] = p[i]
         /\ \A a \in 1 .. Len(s) : a > Len(q) - 1 /\ s[a] \in HookedUp => \E i \in 1 .. Len(p) : p[i] = s[a]
         /\ \A i, j \in 1 .. Len(p) : i < j =>
              \E a, b \in 1 .. Len(s) : a < b /\ s[a] = p[j] /\ s[b] = p[i]
  <2>1. CASE h \notin HookedUp
    <3>1. cTold'[t] = o /\ s[Len(q)] \notin HookedUp
      BY <2>1, <1>7, <1>9
    <3>2. \A a \in 1 .. Len(s) : a > Len(q) - 1 /\ s[a] \in HookedUp => \E i \in 1 .. Len(o) : o[i] = s[a]
      BY <3>1, <1>6, <1>10
    <3>3. \A i \in 1 .. Len(o) :
            /\ o[i] \in HookedUp
            /\ \E a \in 1 .. Len(s) : a > Len(q) - 1 /\ s[a] = o[i]
      BY <1>6, <1>10
    <3> QED BY <3>1, <3>2, <3>3, <1>2, <1>6
  <2>2. CASE h \in HookedUp
    <3>1. PICK p : p = Append(o, h)
      OBVIOUS
    <3>2. /\ p \in Seq(Providers) /\ Len(p) = Len(o) + 1 /\ p[Len(o) + 1] = h /\ \A i \in 1 .. Len(o) : p[i] = o[i]
      BY <3>1, <1>2, <1>4
    <3>3. \A i \in 1 .. Len(p) : i \in 1 .. Len(o) \/ i = Len(o) + 1
      BY <3>2, <1>4
    <3>4. \A i \in 1 .. Len(p) :
            /\ p[i] \in HookedUp
            /\ \E a \in 1 .. Len(s) : a > Len(q) - 1 /\ s[a] = p[i]
      <4> SUFFICES ASSUME NEW i \in 1 .. Len(p)
                   PROVE  p[i] \in HookedUp /\ \E a \in 1 .. Len(s) : a > Len(q) - 1 /\ s[a] = p[i]
        OBVIOUS
      <4>1. CASE i \in 1 .. Len(o)
        <5>1. PICK a \in 1 .. Len(s) : a > Len(q) /\ s[a] = o[i]
          BY <4>1, <1>6
        <5>2. a > Len(q) - 1
          BY <5>1, <1>10
        <5> QED BY <4>1, <5>1, <5>2, <3>2, <1>6
      <4>2. CASE i = Len(o) + 1
        <5>1. p[i] = s[Len(q)] /\ Len(q) > Len(q) - 1
          BY <4>2, <3>2, <1>9, <1>14
        <5> QED BY <5>1, <2>2, <1>9
      <4> QED BY <4>1, <4>2, <3>3
    <3>5. ASSUME NEW a \in 1 .. Len(s), a > Len(q) - 1, s[a] \in HookedUp
          PROVE  \E i \in 1 .. Len(p) : p[i] = s[a]
      <4>1. \A i \in 1 .. Len(o) : i \in 1 .. Len(p)
        BY <3>2, <1>4
      <4>2. Len(o) + 1 \in 1 .. Len(p)
        BY <3>2, <1>4
      <4>3. CASE a > Len(q)
        BY <4>1, <4>3, <3>2, <3>5, <1>6
      <4>4. CASE a = Len(q)
        BY <4>2, <4>4, <3>2, <1>9
      <4> QED BY <4>3, <4>4, <3>5, <1>10
    <3>6. ASSUME NEW i \in 1 .. Len(p), NEW j \in 1 .. Len(p), i < j
          PROVE  \E a, b \in 1 .. Len(s) : a < b /\ s[a] = p[j] /\ s[b] = p[i]
      <4>1. CASE j \in 1 .. Len(o)
        <5>1. i \in 1 .. Len(o)
          BY <4>1, <3>3, <3>6, <1>4
        <5>2. p[i] = o[i] /\ p[j] = o[j]
          BY <4>1, <5>1, <3>2
        <5> QED BY <4>1, <5>1, <5>2, <3>6, <1>6
      <4>2. CASE j = Len(o) + 1
        <5>1. i \in 1 .. Len(o)
          BY <4>2, <3>3, <3>6, <1>4
        <5>2. PICK b \in 1 .. Len(s) : b > Len(q) /\ s[b] = o[i]
          BY <5>1, <1>6
        <5> QED BY <4>2, <5>1, <5>2, <3>2, <1>9, <1>4
      <4> QED BY <4>1, <4>2, <3>3
    <3> QED BY <2>2, <3>1, <3>2, <3>4, <3>5, <3>6, <1>7
  <2> QED BY <2>1, <2>2
<1>12. EndsInOrder(t)'
  <2>1. Len(q) - 1 <= Len(s) /\ cPhase'[t] = "ending" /\ cStore'[t] = s /\ cDue'[t] = Tail(q)
    BY <1>1, <1>4, <1>6, <1>7 DEF s
  <2> QED BY <2>1, <1>4, <1>9, <1>11 DEF EndsInOrder
<1> QED BY <1>12

LEMMA HookKeeps ==
  ASSUME ContainerInv, NEW t \in Requests, Wiring!Hook(t)
  PROVE  ContainerInv'
<1> USE DEF ContainerInv
<1>1. /\ cPhase[t] = "ending" /\ cDue[t] # << >>
      /\ cTold' = [cTold EXCEPT ![t] = IF Head(cDue[t]) \in HookedUp THEN Append(@, Head(cDue[t])) ELSE @]
      /\ cDue' = [cDue EXCEPT ![t] = Tail(@)] \/ cDue' = [cDue EXCEPT ![t] = << >>]
      /\ UNCHANGED << cInstances, cBuilding, cStore, cPhase, cStack, cMade, cResult >>
  BY DEF Wiring!Hook
<1>2. cStack[t] = << >>
  BY <1>1 DEF StackInv, Mirrored
<1>3. ContainerTypes'
  <2> DEFINE new == IF Head(cDue[t]) \in HookedUp THEN Append(cTold[t], Head(cDue[t])) ELSE cTold[t]
  <2>1. cDue[t] \in Seq(Providers) /\ cTold[t] \in Seq(Providers)
    BY DEF ContainerTypes
  <2>2. Tail(cDue[t]) \in Seq(Providers) /\ new \in Seq(Providers) /\ << >> \in Seq(Providers)
    BY <2>1, <1>1
  <2>3. cTold' = [cTold EXCEPT ![t] = new]
    BY <1>1
  <2> HIDE DEF new
  <2>4. cTold' \in [Requests -> Seq(Providers)]
    BY <2>2, <2>3 DEF ContainerTypes
  <2>5. cDue' \in [Requests -> Seq(Providers)]
    <3>1. CASE cDue' = [cDue EXCEPT ![t] = Tail(@)]
      BY <3>1, <2>2 DEF ContainerTypes
    <3>2. CASE cDue' = [cDue EXCEPT ![t] = << >>]
      BY <3>2, <2>2 DEF ContainerTypes
    <3> QED BY <3>1, <3>2, <1>1
  <2> QED BY <2>4, <2>5, <1>1 DEF ContainerTypes
<1>4. \A u \in Requests : u # t => cDue'[u] = cDue[u] /\ cTold'[u] = cTold[u]
  BY <1>1 DEF ContainerTypes
<1>5. EndsInOrder(t)'
  <2>1. CASE HookFailing = {}
    BY <2>1, HookInOrder
  <2>2. CASE HookFailing # {}
    BY <2>2 DEF EndsInOrder
  <2> QED BY <2>1, <2>2
<1>6. NotTold(t)'
  BY <1>1 DEF NotTold
<1>7. EndInv'
  BY <1>1, <1>4, <1>5, <1>6, EndOfOne
<1> QED BY <1>1, <1>2, <1>3, <1>7, CalmKeeps

LEMMA ContainerNext == ContainerInv /\ [Wiring!Next]_containerVars => ContainerInv'
<1>1. ContainerInv /\ UNCHANGED containerVars => ContainerInv'
  <2> SUFFICES ASSUME ContainerInv, UNCHANGED containerVars PROVE ContainerInv'
    OBVIOUS
  <2>1. UNCHANGED << cInstances, cBuilding, cStore, cPhase, cDue, cStack, cMade, cTold, cResult >>
    BY DEF containerVars
  <2>2. ContainerTypes'
    BY <2>1 DEF ContainerInv, ContainerTypes
  <2>3. StackInv'
    <3>1. OneStack' /\ Wiring!NothingLeft' /\ NoneTwice'
      BY <2>1 DEF ContainerInv, StackInv, OneStack, Wiring!NothingLeft, NoneTwice
    <3>2. Mirrored'
      BY <2>1 DEF ContainerInv, StackInv, Mirrored, Wiring!Stored
    <3> QED BY <2>1, <3>1, <3>2, StacksStay DEF ContainerInv, StackInv
  <2>4. KeptInv'
    BY <2>1 DEF ContainerInv, KeptInv, WholeOnes, CountedOnce, Wiring!CyclesAreReal
  <2>5. EndInv'
    BY <2>1, EndStays DEF ContainerInv
  <2> QED BY <2>2, <2>3, <2>4, <2>5 DEF ContainerInv
<1>2. ContainerInv /\ Wiring!Next => ContainerInv'
  BY AskKeeps, GuardKeeps, OpenKeeps, DependencyKeeps, ConstructKeeps, CloseKeeps, HookKeeps, ClosedKeeps DEF Wiring!Next
<1> QED BY <1>1, <1>2

LEMMA BuiltRight == ContainerInv => Wiring!CyclesAreReal /\ Wiring!OneEach /\ Wiring!NothingLeft /\ (HookFailing = {} => Wiring!AllTold)
<1> SUFFICES ASSUME ContainerInv PROVE Wiring!CyclesAreReal /\ Wiring!OneEach /\ Wiring!NothingLeft /\ (HookFailing = {} => Wiring!AllTold)
  OBVIOUS
<1>1. Wiring!CyclesAreReal /\ Wiring!NothingLeft
  BY DEF ContainerInv, KeptInv, StackInv
<1>2. Wiring!OneEach
  <2>1. \A n \in Providers \ OfRequest : cMade[n] <= 1
    BY DEF ContainerInv, KeptInv, CountedOnce
  <2>2. \A n \in cInstances : Wiring!Needs(n) \subseteq cInstances \ OfRequest
    BY DEF ContainerInv, KeptInv, WholeOnes, ContainerTypes
  <2> QED BY <2>1, <2>2 DEF Wiring!OneEach
<1>3. ASSUME HookFailing = {} PROVE Wiring!AllTold
  <2> SUFFICES ASSUME NEW t \in Requests, cPhase[t] = "closed"
               PROVE  /\ Wiring!ToSet(cTold[t]) = HookedUp \cap Wiring!ToSet(cStore[t])
                      /\ \A i, j \in DOMAIN cTold[t] : i < j =>
                           \E a, b \in DOMAIN cStore[t] : a < b /\ cStore[t][a] = cTold[t][j] /\ cStore[t][b] = cTold[t][i]
                      /\ \A i, j \in DOMAIN cTold[t] : i # j => cTold[t][i] # cTold[t][j]
    BY DEF Wiring!AllTold
  <2> DEFINE s == cStore[t]
             o == cTold[t]
  <2>1. s \in Seq(Providers) /\ o \in Seq(Providers)
    BY DEF ContainerInv, ContainerTypes
  <2>2. /\ \A i \in 1 .. Len(o) :
             /\ o[i] \in HookedUp
                                   /\ \E a \in 1 .. Len(s) : s[a] = o[i]
        /\ \A a \in 1 .. Len(s) : a > 0 /\ s[a] \in HookedUp => \E i \in 1 .. Len(o) : o[i] = s[a]
        /\ \A i, j \in 1 .. Len(o) : i < j =>
             \E a, b \in 1 .. Len(s) : a < b /\ s[a] = o[j] /\ s[b] = o[i]
        /\ NoneAgain(s)
    <3>1. cDue[t] = << >> /\ Len(<< >>) = 0 /\ EndsInOrder(t) /\ NoneAgain(s)
      BY <1>3 DEF ContainerInv, EndInv, EndsInOrder
    <3> QED BY <3>1, <1>3 DEF EndsInOrder
  <2> HIDE DEF s, o
  <2>3. Len(s) \in Nat /\ Len(o) \in Nat /\ DOMAIN s = 1 .. Len(s) /\ DOMAIN o = 1 .. Len(o)
    BY <2>1
  <2>4. \A a \in 1 .. Len(s) : a > 0
    BY <2>3
  <2>5. Wiring!ToSet(o) = HookedUp \cap Wiring!ToSet(s)
    <3>1. \A x \in Wiring!ToSet(o) : x \in HookedUp /\ x \in Wiring!ToSet(s)
      BY <2>2, <2>3 DEF Wiring!ToSet
    <3>2. \A x \in Wiring!ToSet(s) : x \in HookedUp => x \in Wiring!ToSet(o)
      <4> SUFFICES ASSUME NEW a \in 1 .. Len(s), s[a] \in HookedUp PROVE s[a] \in Wiring!ToSet(o)
        BY <2>3 DEF Wiring!ToSet
      <4>1. PICK i \in 1 .. Len(o) : o[i] = s[a]
        BY <2>2, <2>4
      <4> QED BY <4>1, <2>3 DEF Wiring!ToSet
    <3> QED BY <3>1, <3>2
  <2>6. ASSUME NEW i \in 1 .. Len(o), NEW j \in 1 .. Len(o), i < j
        PROVE  o[i] # o[j]
    <3>1. PICK a \in 1 .. Len(s), b \in 1 .. Len(s) : a < b /\ s[a] = o[j] /\ s[b] = o[i]
      BY <2>2, <2>6
    <3>2. a # b
      BY <3>1, <2>3
    <3> QED BY <3>1, <3>2, <2>2 DEF NoneAgain
  <2>7. \A i, j \in 1 .. Len(o) : i # j => o[i] # o[j]
    <3> SUFFICES ASSUME NEW i \in 1 .. Len(o), NEW j \in 1 .. Len(o), i # j
                 PROVE  o[i] # o[j]
      OBVIOUS
    <3>1. i < j \/ j < i
      BY <2>3
    <3> QED BY <3>1, <2>6
  <2>8. \A i, j \in DOMAIN o : i < j =>
          \E a, b \in DOMAIN s : a < b /\ s[a] = o[j] /\ s[b] = o[i]
    <3> SUFFICES ASSUME NEW i \in 1 .. Len(o), NEW j \in 1 .. Len(o), i < j
                 PROVE  \E a, b \in 1 .. Len(s) : a < b /\ s[a] = o[j] /\ s[b] = o[i]
      BY <2>3
    <3> QED BY <2>2
  <2>9. \A i, j \in DOMAIN o : i # j => o[i] # o[j]
    BY <2>3, <2>7
  <2> QED BY <2>5, <2>8, <2>9 DEF s, o
<1> QED BY <1>1, <1>2, <1>3

-----------------------------------------------------------------------------
(***************************************************************************)
(* The theorems about the whole.  A step of it is a step of one part.      *)
(***************************************************************************)
LEMMA PartSteps ==
  ASSUME [CoreNext]_coreVars
  PROVE  /\ [Jobs!Next]_jobVars /\ [Bus!Next]_busVars /\ [Pool!Next]_poolVars
         /\ [Life!Next]_lifespanVars /\ [Wiring!Next]_containerVars
         /\ [Gateway!Next]_gatewayVars
BY DEF CoreNext, Rest, coreVars

(* jobs.py 200-365, for any number of jobs and of workers: an accepted job *)
(* is in one place, jobs start in the order in which they were accepted,   *)
(* and a drain that is not out of time cuts none.                          *)
THEOREM QueueIsSafe == CoreSafeSpec => JobsSafe
<1>1. CoreInit => JobInv
  BY JobKeeps DEF CoreInit
<1>2. JobInv /\ [CoreNext]_coreVars => JobInv'
  BY PartSteps, JobKeeps
<1>3. JobInv => Jobs!Placed /\ Jobs!InOrder
  BY JobKeeps
<1>4. JobInv => [Jobs!Joined => \A i \in JobItems : jFate'[i] = "cut" => jFate[i] = "cut"]_(Jobs!vars)
  <2>1. Jobs!vars' = Jobs!vars <=> jobVars' = jobVars
    BY DEF jobVars, Jobs!vars, Jobs!runVars, Jobs!history
  <2> QED BY <2>1, JobKeeps
<1> QED BY <1>1, <1>2, <1>3, <1>4, PTL DEF CoreSafeSpec, JobsSafe, Jobs!JobsSafe, Jobs!DrainKeepsJobs

(* events.py 300-470, for any number of listeners, events and calls: a     *)
(* handler that was dispatched is waited for or cancelled, and the gauge   *)
(* counts it; max_pending is passed by the listeners of one event at most; *)
(* emit() answers with what its own handlers came to; and an event reaches *)
(* only listeners whose pattern fits its name.                             *)
THEOREM BusIsSafe == CoreSafeSpec => []BusSafe
<1>1. CoreInit => BusInv
  BY BusInit DEF CoreInit
<1>2. BusInv /\ [CoreNext]_coreVars => BusInv'
  BY PartSteps, BusNext
<1>3. BusInv => BusSafe
  BY BusInvIsSafe DEF BusSafe
<1> QED BY <1>1, <1>2, <1>3, PTL DEF CoreSafeSpec

(* workers.py 120-240, for any number of threads and of calls: the idle    *)
(* counter is right, there are never more threads than the size, and calls *)
(* are begun in the order in which they came.                              *)
THEOREM CallsAreSafe == CoreSafeSpec => []PoolSafe
<1>1. CoreInit => PoolProofs!IInv
  BY PoolKeeps DEF CoreInit
<1>2. PoolProofs!IInv /\ [CoreNext]_coreVars => PoolProofs!IInv'
  BY PartSteps, PoolKeeps
<1>3. PoolProofs!IInv => PoolSafe
  BY PoolKeeps DEF PoolSafe
<1> QED BY <1>1, <1>2, <1>3, PTL DEF CoreSafeSpec

(* lifespan.py, whatever startup raises and whichever parts run handlers:  *)
(* the background tasks run only while all that they may use is there, and *)
(* are heard to the last; the database is there before and after them all. *)
THEOREM LifespanIsOrdered == CoreSafeSpec => []LifespanOrdered
<1>1. CoreInit => LifeInv
  BY LifeInit DEF CoreInit
<1>2. LifeInv /\ [CoreNext]_coreVars => LifeInv'
  BY PartSteps, LifeNext
<1>3. LifeInv => LifespanOrdered
  BY LifeInvIsSafe DEF LifespanOrdered
<1> QED BY <1>1, <1>2, <1>3, PTL DEF CoreSafeSpec

(* container.py 139-370, whatever the providers need of each other: a      *)
(* cycle that is reported is one, a singleton is built once and holds only *)
(* what lives as long as it does, an error leaves no name behind; and the  *)
(* end of a request reaches all that has a hook, if no hook raises.        *)
THEOREM ContainerIsSafe ==
  CoreSafeSpec => [](/\ Wiring!CyclesAreReal /\ Wiring!OneEach /\ Wiring!NothingLeft
                     /\ (HookFailing = {} => Wiring!AllTold))
<1>1. CoreInit => ContainerInv
  BY ContainerInit DEF CoreInit
<1>2. ContainerInv /\ [CoreNext]_coreVars => ContainerInv'
  BY PartSteps, ContainerNext
<1>3. ContainerInv => /\ Wiring!CyclesAreReal /\ Wiring!OneEach /\ Wiring!NothingLeft
                      /\ (HookFailing = {} => Wiring!AllTold)
  BY BuiltRight
<1> QED BY <1>1, <1>2, <1>3, PTL DEF CoreSafeSpec

(* The four together, as the run checks them: where no hook raises.        *)
THEOREM ProvidersAreWired == ASSUME HookFailing = {} PROVE CoreSafeSpec => []Wired
<1>1. /\ Wiring!CyclesAreReal /\ Wiring!OneEach /\ Wiring!NothingLeft
      /\ (HookFailing = {} => Wiring!AllTold)
      => Wired
  BY DEF Wired, Wiring!Wired
<1> QED BY <1>1, ContainerIsSafe, PTL

(* core/websocket, for any number of workers, of clients and of rooms and  *)
(* any size of a send queue: the registers and the gauge tell which        *)
(* connections there are, the quotas hold, a client gets no frame twice    *)
(* and those of its worker in order, and with overflow "close" one that is *)
(* served misses none.                                                     *)
THEOREM GatewayIsSafe == CoreSafeSpec => []GatewaySafe
<1>1. CoreInit => WsProofs!IInv
  BY GatewayKeeps DEF CoreInit
<1>2. WsProofs!IInv /\ [CoreNext]_coreVars => WsProofs!IInv'
  BY PartSteps, GatewayKeeps
<1>3. WsProofs!IInv => GatewaySafe
  BY GatewayKeeps DEF GatewaySafe
<1> QED BY <1>1, <1>2, <1>3, PTL DEF CoreSafeSpec
=============================================================================
