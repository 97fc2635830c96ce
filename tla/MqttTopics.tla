------------------------------ MODULE MqttTopics ------------------------------
(***************************************************************************)
(* infrastructure/mqtt/patterns.py: topics and filters as sequences of     *)
(* levels, and the list of filters the client really subscribes to, from   *)
(* those its handlers asked for (client.py: _subscriptions).               *)
(***************************************************************************)
EXTENDS Naturals, Sequences, FiniteSets, FiniteSetsExt

CONSTANTS Filters,   \* what handlers may ask for
          Topics,    \* what messages are published on
          System,    \* the levels that begin with $
          MaxSubs    \* bound: filters asked for
TopicsAssumption == Filters \subseteq Seq(STRING) /\ Topics \subseteq Seq(STRING)

VARIABLE subs   \* _subscriptions, in the order of insertion: [filter, qos]

Qos == 0..2
Wild == {"+", "#"}

(* validate_topic_filter and validate_topic.                               *)
ValidFilter(f) == /\ f # << >>
                  /\ \A i \in DOMAIN f : f[i] = "#" => i = Len(f)
ValidTopic(t) == t # << >> /\ \A i \in DOMAIN t : t[i] \notin Wild

Matches(f, t) ==
  /\ ~ (t[1] \in System /\ f[1] \in Wild)
  /\ \A i \in DOMAIN f : f[i] = "#" \/ (i \in DOMAIN t /\ f[i] \in {"+", t[i]})
  /\ Len(f) = Len(t) \/ f[Len(f)] = "#"

(* covers(): every topic of b is one of a.                                 *)
Covers(a, b) ==
  \E n \in 0..Len(a) :
    /\ \A i \in 1..n : i \in DOMAIN b /\ b[i] # "#" /\ a[i] \in {"+", b[i]}
    /\ \/ n = Len(a) /\ n = Len(b)
       \/ n < Len(a) /\ a[n + 1] = "#"

Asked(f) == \E i \in DOMAIN subs : subs[i].filter = f

(* subscribe_topic: the higher level stays.                                *)
Subscribe(f, q) ==
  /\ ValidFilter(f)
  /\ \/ Asked(f) /\ subs' = [i \in DOMAIN subs |->
           IF subs[i].filter = f THEN [filter |-> f, qos |-> Max({q, subs[i].qos})] ELSE subs[i]]
     \/ ~ Asked(f) /\ Len(subs) < MaxSubs /\ subs' = Append(subs, [filter |-> f, qos |-> q])

(* narrow_filters: each filter goes into the first one that covers it.     *)
Into(i) == LET wider == {j \in DOMAIN subs \ {i} : Covers(subs[j].filter, subs[i].filter)}
           IN  IF wider = {} THEN i ELSE Min(wider)

(* Bug: the level of what was dropped is forgotten. *)
Narrowed_OwnQos == {subs[Into(i)] : i \in DOMAIN subs}

Narrowed == {[filter |-> subs[j].filter,
              qos |-> Max({subs[j].qos} \cup {subs[i].qos : i \in {k \in DOMAIN subs : Into(k) = j}})] :
               j \in {Into(i) : i \in DOMAIN subs}}

TopicsInit == subs = << >>
Wanted == \E f \in Filters, q \in Qos : Subscribe(f, q)
TopicsSpec == TopicsInit /\ [][Wanted]_subs
-----------------------------------------------------------------------------
Common == {t \in Topics : ValidTopic(t) /\ t[1] \notin System}
Level(t, s) == {r.qos : r \in {x \in s : Matches(x.filter, t)}}
All == {subs[i] : i \in DOMAIN subs}

(* Leaving out the filters that others cover costs no handler a message,   *)
(* nor a part of its guarantee: on every topic that is not one of the      *)
(* broker's own, the subscription that is made has the level of the best   *)
(* of those it stands for.  (patterns.py 100-116, client.py 124-144.)      *)
NarrowedWell == \A t \in Common :
  Level(t, All) # {} => Level(t, Narrowed) # {} /\ Max(Level(t, Narrowed)) >= Max(Level(t, All))

(* Nothing is subscribed to that no handler asked for.                     *)
NoneTooMany == \A t \in Topics : Level(t, Narrowed) # {} => Level(t, All) # {}

(* Two filters of which one covers the other never both stay, when there   *)
(* are two.  With three, the first that covers may itself be covered.      *)
NarrowedPairs == Len(subs) = 2 =>
  \A a, b \in Narrowed : Covers(a.filter, b.filter) => a.filter = b.filter

NarrowedRight == NarrowedWell /\ NoneTooMany /\ NarrowedPairs

(* docs/mqtt.md:168 and client.py:134-140: the broker, which hands out a   *)
(* message once for each subscription it matches, hands out exactly one to *)
(* the handlers that want it.                                              *)
EachOnce == \A t \in Topics : ValidTopic(t) /\ Level(t, All) # {} =>
  Cardinality({r \in Narrowed : Matches(r.filter, t)}) = 1
=============================================================================
