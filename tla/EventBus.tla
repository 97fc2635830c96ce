------------------------------ MODULE EventBus ------------------------------
(***************************************************************************)
(* core/events.py: one event, many listeners in the same process. emit()   *)
(* waits for the handlers, dispatch() leaves a task behind for each. The   *)
(* handlers run side by side, may fail, hang or be cancelled, and the bus  *)
(* shuts down (and may start again) while they do.                         *)
(***************************************************************************)
EXTENDS Integers, FiniteSets, Sequences

CONSTANTS NULL,
          Listeners, Static,  \* all of them, and those of @on_event
          Pattern,            \* listener -> levels of its pattern
          Events,             \* names that are emitted, as levels
          MaxPending,         \* events.max_pending
          MaxSeconds,         \* TRUE: handlers have a time limit
          MaxCalls            \* bound on emit() and dispatch() calls

(* validate_pattern: "#" comes last, or not at all.                        *)
BusAssumption ==
  /\ Static \subseteq Listeners /\ IsFiniteSet(Listeners) /\ MaxPending \in Nat \ {0}
  /\ \A l \in Listeners : /\ Pattern[l] \in Seq(STRING)
                          /\ \A i \in DOMAIN Pattern[l] : Pattern[l][i] = "#" => i = Len(Pattern[l])
  /\ \A e \in Events : e \in Seq(STRING)

VARIABLES started, closing,   \* _started, _closing
          dynamic,            \* _dynamic
          calls,              \* history: every emit and dispatch
          tasks,              \* handlers that run: << call, listener >>
          cancelled,          \* tasks the shutdown has cancelled
          pending, gauge      \* _pending, event_handlers_pending

vars == << started, closing, dynamic, calls, tasks, cancelled, pending, gauge >>

Init == /\ started = FALSE /\ closing = FALSE /\ dynamic = {} /\ calls = << >>
        /\ tasks = {} /\ cancelled = {} /\ pending = {} /\ gauge = 0

(* "*" is one level, "#" (the last one) all that follow. *)
Matches(pattern, event) ==
  LET rest == \E i \in DOMAIN pattern : pattern[i] = "#"
      n == IF rest THEN Len(pattern) - 1 ELSE Len(pattern)
  IN  /\ n <= Len(event) /\ (rest \/ n = Len(event))
      /\ \A i \in 1..n : pattern[i] \in {"*", event[i]}

Targets(event) ==
  IF closing \/ ~ started THEN {}
  ELSE {l \in Static \cup dynamic : Matches(Pattern[l], event)}

Detached == {t \in tasks : calls[t[1]].kind = "dispatch"}

-----------------------------------------------------------------------------
Startup == /\ ~ started
           /\ started' = TRUE /\ closing' = FALSE
           /\ UNCHANGED << dynamic, calls, tasks, cancelled, pending, gauge >>

Subscribe(l) == /\ dynamic' = dynamic \cup {l}
                /\ UNCHANGED << started, closing, calls, tasks, cancelled, pending, gauge >>

Unsubscribe(l) == /\ dynamic' = dynamic \ {l}
                  /\ UNCHANGED << started, closing, calls, tasks, cancelled, pending, gauge >>

Call(kind, event, due, answer) ==
  calls' = Append(calls, [kind |-> kind, event |-> event, due |-> due, ok |-> {},
                          ended |-> {}, answer |-> answer])

(* emit(): one handler is run in place and several are gathered, with the  *)
(* same outcome but for a CancelledError.                                  *)
Emit(event) ==
  /\ Len(calls) < MaxCalls
  /\ LET due == Targets(event)
     IN  /\ Call("emit", event, due, IF due = {} THEN 0 ELSE NULL)
         /\ tasks' = tasks \cup ({Len(calls) + 1} \X due)
  /\ UNCHANGED << started, closing, dynamic, cancelled, pending, gauge >>

(* dispatch(): max_pending is looked at once, then a task per listener.    *)
Dispatch(event) ==
  /\ Len(calls) < MaxCalls
  /\ LET due == IF Cardinality(pending) >= MaxPending THEN {} ELSE Targets(event)
         new == {Len(calls) + 1} \X due
     IN  /\ Call("dispatch", event, due, Cardinality(due))
         /\ tasks' = tasks \cup new /\ pending' = pending \cup new
         /\ gauge' = gauge + Cardinality(new)
  /\ UNCHANGED << started, closing, dynamic, cancelled >>

(* Bug: a finished task only leaves the set. *)
Finish_NoGauge(t) == pending' = pending \ {t} /\ gauge' = gauge

(* _finish, the done callback of a dispatched task. *)
Finish(t) == IF t \in Detached THEN pending' = pending \ {t} /\ gauge' = gauge - 1
             ELSE UNCHANGED << pending, gauge >>

(* _run ends: the handler returned, raised or was stopped at max_seconds;  *)
(* an emit() answers with the number that returned when all have ended.    *)
Ended(t, ok) ==
  LET c == t[1]
      call == [calls[c] EXCEPT !.ended = @ \cup {t[2]}, !.ok = IF ok THEN @ \cup {t[2]} ELSE @]
  IN  /\ tasks' = tasks \ {t} /\ Finish(t)
      /\ calls' = [calls EXCEPT ![c] = IF call.ended = call.due /\ call.answer = NULL
                     THEN [call EXCEPT !.answer = Cardinality(call.ok)] ELSE call]

Return(t) == /\ t \in tasks \ cancelled /\ Ended(t, TRUE)
             /\ UNCHANGED << started, closing, dynamic, cancelled >>
Fail(t) == /\ t \in tasks \ cancelled /\ Ended(t, FALSE)
           /\ UNCHANGED << started, closing, dynamic, cancelled >>
Timeout(t) == MaxSeconds /\ Fail(t)

Raised == -1   \* what an emit() that raised answered

(* A CancelledError of the handler's own is not caught: the task ends, or  *)
(* the emit() raises while its other handlers go on.                       *)
Cancelled(t) ==
  /\ t \in tasks /\ tasks' = tasks \ {t} /\ cancelled' = cancelled \ {t} /\ Finish(t)
  /\ calls' = [calls EXCEPT ![t[1]].ended = @ \cup {t[2]},
                 ![t[1]].answer = IF @ = NULL THEN Raised ELSE @]
  /\ UNCHANGED << started, closing, dynamic >>

-----------------------------------------------------------------------------
Shutdown == /\ started /\ ~ closing /\ closing' = TRUE
            /\ UNCHANGED << started, dynamic, calls, tasks, cancelled, pending, gauge >>

(* All pending handlers ended, or drain_seconds did: cancel what is left.  *)
Drained == /\ closing /\ started
           /\ cancelled' = cancelled \cup pending
           /\ started' = FALSE /\ dynamic' = {} /\ pending' = {}
           /\ UNCHANGED << closing, calls, tasks, gauge >>

Next == \/ Startup \/ Shutdown \/ Drained
        \/ \E l \in Listeners \ Static : Subscribe(l) \/ Unsubscribe(l)
        \/ \E e \in Events : Emit(e) \/ Dispatch(e)
        \/ \E t \in tasks : Return(t) \/ Fail(t) \/ Timeout(t) \/ Cancelled(t)

(* The drain is timed, a handler with max_seconds is, and a cancelled one  *)
(* unwinds.                                                                *)
Fairness == /\ WF_vars(Drained)
            /\ \A c \in 1..MaxCalls, l \in Listeners :
                 /\ WF_vars(<< c, l >> \in tasks /\ Timeout(<< c, l >>))
                 /\ WF_vars(<< c, l >> \in cancelled /\ Cancelled(<< c, l >>))

Spec == Init /\ [][Next]_vars /\ Fairness

-----------------------------------------------------------------------------
(* A dispatched handler that runs is one the shutdown waits for, until it  *)
(* is cancelled: nothing is left running that nobody knows of.             *)
Tracked == \A t \in Detached : t \in pending \/ t \in cancelled

(* event_handlers_pending counts the handlers that run, whatever way they  *)
(* end, over a shutdown and a second start too.                            *)
GaugeTrue == gauge = Cardinality(Detached)

(* max_pending may be passed, by the listeners of one event but one.       *)
WithinLimit == Cardinality(pending) < MaxPending + Cardinality(Listeners)

(* emit() answers when every handler has ended, with how many succeeded: a *)
(* listener that fails takes none of the others down.                      *)
Isolated == \A c \in DOMAIN calls :
  calls[c].kind = "emit" /\ calls[c].answer \notin {NULL, Raised}
    => calls[c].ended = calls[c].due /\ calls[c].answer = Cardinality(calls[c].ok)

(* An event reaches only listeners whose pattern fits its name: level for  *)
(* level the same, once "#" is written out as some number of "*".          *)
Spread(p, n) == IF p # << >> /\ p[Len(p)] = "#"
                THEN SubSeq(p, 1, Len(p) - 1) \o [i \in 1..n |-> "*"] ELSE p
Fits(p, e) == \E n \in 0..Len(e) : LET q == Spread(p, n)
                                  IN  Len(q) = Len(e) /\ \A i \in DOMAIN e : q[i] \in {"*", e[i]}
Addressed == \A c \in DOMAIN calls : \A l \in calls[c].due : Fits(Pattern[l], calls[c].event)

BusSafe == Tracked /\ GaugeTrue /\ WithinLimit /\ Isolated /\ Addressed

(* A shutdown ends whatever the handlers do, and with a time limit so does *)
(* every emit().                                                           *)
Ends == /\ closing ~> (closing => ~ started)
        /\ \A c \in 1..MaxCalls :
             (c \in DOMAIN calls) ~> (c \in DOMAIN calls /\ (MaxSeconds => calls[c].answer # NULL))
=============================================================================
