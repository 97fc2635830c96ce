------------------------------ MODULE MqttClient ------------------------------
(***************************************************************************)
(* infrastructure/mqtt/: the connection loop of client.py, which connects, *)
(* subscribes, reads until the connection is lost and starts again; the    *)
(* handlers it gives each message to, one after the other (consumers.py,   *)
(* responders.py); and request/reply, whose answers the same loop reads.   *)
(* The session is a clean one: the broker forgets it with the connection.  *)
(***************************************************************************)
EXTENDS MqttTopics

CONSTANTS NULL,
          Handlers,             \* @mqtt_subscriber and @mqtt_responder methods, in order
          Wants,                \* handler -> [filter, qos]
          Responders,           \* those that answer
          Callers, Pattern,     \* tasks that call send(); the pattern of each
          Inside,               \* caller -> the handler that makes the call, or NULL
          Stream,               \* topics on which others publish, in order
          MaxLosses, MaxCalls   \* bounds

ReplyTopic(t) == Append(t, "reply")   \* reply_topic_mqtt
Serves(h, t) == Matches(Wants[h].filter, t)

Messages == [topic : Seq(STRING), number : Nat, call : {NULL} \cup (Callers \X Nat)]
Works == [msg : Messages, left : SUBSET DOMAIN Handlers]

(* A message on a topic comes once if one filter matches it, or one that   *)
(* covers the others, and those cover nothing.                             *)
Every == {Wants[Handlers[i]].filter : i \in DOMAIN Handlers} \cup {ReplyTopic(Pattern[c]) : c \in Callers}
ComesOnce(t) == LET those == {f \in Every : Matches(f, t)} IN
  those # {} => \E f \in those : \A g \in those \ {f} :
    Covers(f, g) /\ \A h \in Every \ {g} : ~ Covers(g, h)
ClientAssumption ==
  /\ Handlers \in Seq(DOMAIN Wants) /\ \A h \in DOMAIN Wants : Wants[h] \in [filter : Seq(STRING), qos : Qos]
  /\ \A c \in Callers : Pattern[c] \in {t \in Seq(STRING) : ValidTopic(t)}
  /\ Stream \in Seq({t \in Seq(STRING) : ValidTopic(t) /\ t[1] \notin System /\ ComesOnce(t)})
  /\ \A n \in DOMAIN Stream, c \in Callers : Stream[n] # ReplyTopic(Pattern[c])
  /\ MaxCalls \in Nat /\ "reply" \in STRING /\ NULL \notin Works

VARIABLES phase, registered,     \* "new", "open", "closed"; handlers known to the client
          loop,                  \* "off", "connect", "subscribe", "read", "sleep"
          session, client,       \* sessions so far; the one in _client (0: None)
          wire, losses,          \* is the connection really there
          todo, served,          \* still to subscribe; subscriptions the broker has
          connected, status,     \* _connected; what the handlers were told
          inbox, work,           \* messages arrived; [msg, left] in the routers, or NULL
          sent, handled,         \* of Stream: sent; history: handler -> numbers heard
          replyTopics, caller,   \* _reply_topics; caller -> [at, calls, with, open, outcome]
          requests               \* calls that reached someone elsewhere

link == << phase, registered, loop, session, client, wire, losses, todo, connected, status >>
book == << replyTopics, caller >>
vars == << subs, link, served, inbox, work, sent, handled, book, requests >>

Known == {h \in DOMAIN Handlers : Handlers[h] \in registered}

Init == /\ TopicsInit /\ phase = "new" /\ registered = {} /\ loop = "off"
        /\ session = 0 /\ client = 0 /\ wire = FALSE /\ losses = 0
        /\ todo = {} /\ served = {} /\ connected = FALSE /\ status = "down"
        /\ inbox = << >> /\ work = NULL /\ sent = 0
        /\ handled = [i \in DOMAIN Handlers |-> << >>]
        /\ replyTopics = {} /\ requests = {}
        /\ caller = [c \in Callers |-> [at |-> "idle", calls |-> 0, with |-> 0,
                                        open |-> FALSE, outcome |-> << >>]]

-----------------------------------------------------------------------------
(* startup() of the runners, and then of the client.                       *)
Register(h) ==
  /\ phase = "new" /\ h \notin registered
  /\ registered' = registered \cup {h} /\ Subscribe(Wants[h].filter, Wants[h].qos)
  /\ UNCHANGED << phase, loop, session, client, wire, losses, todo, connected, status,
                  served, inbox, work, sent, handled, book, requests >>

Startup ==
  /\ phase = "new" /\ \A i \in DOMAIN Handlers : Handlers[i] \in registered
  /\ phase' = "open" /\ loop' = "connect"
  /\ UNCHANGED << subs, registered, session, client, wire, losses, todo, connected, status,
                  served, inbox, work, sent, handled, book, requests >>

Connect ==
  /\ loop = "connect" /\ loop' = "subscribe"
  /\ session' = session + 1 /\ client' = session' /\ wire' = TRUE
  /\ todo' = Narrowed /\ served' = {}
  /\ UNCHANGED << subs, phase, registered, losses, connected, status,
                  inbox, work, sent, handled, book, requests >>

SubscribeNext ==
  /\ loop = "subscribe" /\ wire
  /\ \E r \in todo : todo' = todo \ {r} /\ served' = served \cup {r}
  /\ UNCHANGED << subs, phase, registered, loop, session, client, wire, losses, connected, status,
                  inbox, work, sent, handled, book, requests >>

Subscribed ==
  /\ loop = "subscribe" /\ wire /\ todo = {} /\ loop' = "read"
  /\ connected' = TRUE /\ status' = "up"
  /\ UNCHANGED << subs, phase, registered, session, client, wire, losses, todo,
                  served, inbox, work, sent, handled, book, requests >>

(* The connection breaks. The loop learns of it where it next waits for    *)
(* the broker, which is not while a handler runs.                          *)
Break ==
  /\ wire /\ losses < MaxLosses /\ losses' = losses + 1
  /\ wire' = FALSE /\ served' = {}
  /\ UNCHANGED << subs, phase, registered, loop, session, client, todo, connected, status,
                  inbox, work, sent, handled, book, requests >>

(* Bug: those who wait are left to their time limit. *)
FailAll_Nobody == UNCHANGED caller

(* fail_all: every call in the book is answered with the loss.             *)
FailAll == caller' = [c \in Callers |->
  IF caller[c].open THEN [caller[c] EXCEPT !.open = FALSE, !.outcome = Append(@, << "lost" >>)] ELSE caller[c]]

(* The except and finally clauses.                                         *)
Lost ==
  /\ loop \in {"subscribe", "read"} /\ ~ wire /\ work = NULL
  /\ loop' = "sleep" /\ client' = 0 /\ connected' = FALSE /\ status' = "down"
  /\ inbox' = << >> /\ FailAll
  /\ UNCHANGED << subs, phase, registered, session, wire, losses, todo,
                  served, work, sent, handled, replyTopics, requests >>

Again ==
  /\ loop = "sleep" /\ loop' = "connect"
  /\ UNCHANGED << subs, phase, registered, session, client, wire, losses, todo, connected, status,
                  served, inbox, work, sent, handled, book, requests >>

Shutdown ==
  /\ phase = "open" /\ phase' = "closed" /\ loop' = "off"
  /\ client' = 0 /\ wire' = FALSE /\ connected' = FALSE /\ status' = "down"
  /\ served' = {} /\ inbox' = << >> /\ work' = NULL
  /\ IF loop \in {"subscribe", "read"} THEN FailAll ELSE UNCHANGED caller
  /\ UNCHANGED << subs, registered, session, losses, todo, sent, handled, replyTopics, requests >>

-----------------------------------------------------------------------------
(* The broker hands out a message once for each subscription it matches.   *)
Copies(m, s) == LET n == Cardinality({r \in s : Matches(r.filter, m.topic)})
                IN  inbox \o [i \in 1..n |-> m]
Deliver(m) == inbox' = IF wire THEN Copies(m, served) ELSE inbox

Publish ==
  /\ sent < Len(Stream) /\ sent' = sent + 1
  /\ Deliver([topic |-> Stream[sent'], number |-> sent', call |-> NULL])
  /\ UNCHANGED << subs, link, served, work, handled, book, requests >>

Answer(c) ==
  /\ c \in requests /\ requests' = requests \ {c}
  /\ Deliver([topic |-> ReplyTopic(Pattern[c]), number |-> 0, call |-> << c, caller[c].calls >>])
  /\ UNCHANGED << subs, link, served, work, sent, handled, book >>

(* _dispatch_to_routers.                                                   *)
Read ==
  /\ loop = "read" /\ work = NULL /\ inbox # << >>
  /\ work' = [msg |-> Head(inbox), left |-> {i \in Known : Serves(Handlers[i], Head(inbox).topic)}]
  /\ inbox' = Tail(inbox)
  /\ UNCHANGED << subs, link, served, sent, handled, book, requests >>

Next1 == Min(work.left)
Busy(h) == \E c \in Callers : Inside[c] = h /\ caller[c].at # "idle"

Rest == work.left \ {Next1}

(* A handler returns or raises, which is the same to the others; what a    *)
(* responder answers goes out if there is a connection.                    *)
Handle ==
  /\ work # NULL /\ work.left # {} /\ ~ Busy(Handlers[Next1])
  /\ work' = [work EXCEPT !.left = Rest]
  /\ handled' = IF work.msg.number = 0 THEN handled
                ELSE [handled EXCEPT ![Next1] = Append(@, work.msg.number)]
  /\ IF Handlers[Next1] \in Responders /\ work.msg.call # NULL /\ connected
     THEN Deliver([topic |-> ReplyTopic(work.msg.topic), number |-> 0, call |-> work.msg.call])
     ELSE UNCHANGED inbox
  /\ UNCHANGED << subs, link, served, sent, book, requests >>

Belongs(c, m) == caller[c].open /\ m.call = << c, caller[c].calls >>

(* _on_reply, the last router.                                             *)
OnReply ==
  /\ work # NULL /\ work.left = {} /\ work' = NULL
  /\ caller' = [c \in Callers |->
       IF work.msg.topic \in replyTopics /\ work.msg.call # NULL /\ Belongs(c, work.msg)
       THEN [caller[c] EXCEPT !.open = FALSE, !.outcome = Append(@, work.msg.call)] ELSE caller[c]]
  /\ UNCHANGED << subs, link, served, inbox, sent, handled, replyTopics, requests >>

-----------------------------------------------------------------------------
Ends(c, how) == caller' = [caller EXCEPT ![c].at = "idle", ![c].open = FALSE,
                                         ![c].outcome = IF caller[c].open THEN Append(@, how) ELSE @]

Remember(c) ==
  LET t == ReplyTopic(Pattern[c]) IN
  IF t \in replyTopics THEN UNCHANGED << subs, replyTopics >>
  ELSE replyTopics' = replyTopics \cup {t} /\ Subscribe(t, 1)

(* send(): _listen_for_replies, which waits only if there is a client.     *)
Send(c) ==
  /\ caller[c].at = "idle" /\ caller[c].calls < MaxCalls /\ phase = "open"
  /\ Inside[c] # NULL => work # NULL /\ work.left # {} /\ Inside[c] = Handlers[Next1]
  /\ Remember(c)
  /\ caller' = [caller EXCEPT ![c].at = IF client = 0 THEN "idle" ELSE "listen",
                              ![c].calls = @ + 1, ![c].with = client,
                              ![c].outcome = IF client = 0 THEN Append(@, << "refused" >>) ELSE @]
  /\ UNCHANGED << link, served, inbox, work, sent, handled, requests >>

Alive(c) == wire /\ caller[c].with = session
Failed(c) == caller' = [caller EXCEPT ![c].at = "idle", ![c].outcome = Append(@, << "refused" >>)]

(* The topic is subscribed to; a place is taken in the book.               *)
Listens(c) ==
  /\ caller[c].at = "listen"
  /\ IF Alive(c)
     THEN /\ served' = served \cup {[filter |-> ReplyTopic(Pattern[c]), qos |-> 1]}
          /\ IF connected
             THEN caller' = [caller EXCEPT ![c].at = "publish", ![c].open = TRUE, ![c].with = client]
             ELSE Failed(c)
     ELSE Failed(c) /\ UNCHANGED served
  /\ UNCHANGED << subs, link, inbox, work, sent, handled, replyTopics, requests >>

(* The broker has the request; its answer may come before the publish ends.*)
Reaches(c) ==
  /\ caller[c].at = "publish" /\ Alive(c)
  /\ caller' = [caller EXCEPT ![c].at = "wait"]
  /\ LET local == \E i \in Known : Serves(Handlers[i], Pattern[c]) /\ Handlers[i] \in Responders IN
       /\ requests' = IF local THEN requests ELSE requests \cup {c}
       /\ Deliver([topic |-> Pattern[c], number |-> 0, call |-> << c, caller[c].calls >>])
  /\ UNCHANGED << subs, link, served, work, sent, handled, replyTopics >>

PublishFails(c) ==
  /\ caller[c].at = "publish" /\ ~ Alive(c) /\ Ends(c, << "refused" >>)
  /\ UNCHANGED << subs, link, served, inbox, work, sent, handled, replyTopics, requests >>

(* wait(): the answer, the loss, or the time limit.                        *)
Returns(c) ==
  /\ caller[c].at = "wait" /\ ~ caller[c].open /\ Ends(c, << >>)
  /\ UNCHANGED << subs, link, served, inbox, work, sent, handled, replyTopics, requests >>

Timeout(c) ==
  /\ caller[c].at = "wait" /\ caller[c].open /\ Ends(c, << "timeout" >>)
  /\ UNCHANGED << subs, link, served, inbox, work, sent, handled, replyTopics, requests >>

Connecting == Connect \/ SubscribeNext \/ Subscribed \/ Lost \/ Again
Routing == Read \/ Handle \/ OnReply
CallStep(c) == Listens(c) \/ Reaches(c) \/ PublishFails(c) \/ Returns(c) \/ Timeout(c)

Next == \/ Startup \/ Break \/ Shutdown \/ Publish \/ Connecting \/ Routing
        \/ \E i \in DOMAIN Handlers : Register(Handlers[i])
        \/ \E c \in Callers : Send(c) \/ CallStep(c) \/ Answer(c)

(* The event loop runs what can run; the broker lets clients in.           *)
Fairness == /\ WF_vars(Connecting) /\ WF_vars(Routing)
            /\ \A c \in Callers : WF_vars(CallStep(c))

Spec == Init /\ [][Next]_vars
FairSpec == Spec /\ Fairness
-----------------------------------------------------------------------------
(* Whoever waits for an answer would hear it: its topic is subscribed to   *)
(* on the connection that is there, however often that was lost meanwhile. *)
WouldHear == \A c \in Callers :
  caller[c].at = "wait" /\ caller[c].open /\ wire =>
    caller[c].with = session /\ \E r \in served : Matches(r.filter, ReplyTopic(Pattern[c]))

(* Nobody waits for an answer that was lost with its connection: when the  *)
(* client has let go of it, the book is empty.  (client.py 255-259.)       *)
NobodyForgotten == client = 0 => \A c \in Callers : ~ caller[c].open

(* An answer reaches the call it belongs to, and each call has one end.    *)
OwnAnswer == \A c \in Callers, n \in 1..MaxCalls :
  /\ Len(caller[c].outcome) <= caller[c].calls
  /\ n \in DOMAIN caller[c].outcome /\ caller[c].outcome[n] \in Callers \X (1..MaxCalls) =>
       caller[c].outcome[n] = << c, n >>

(* A handler hears each message it asked for once and in order, as long as *)
(* no connection is lost and no two subscriptions overlap.                 *)
HeardInOrder == \A i \in DOMAIN Handlers :
  /\ \A j, k \in DOMAIN handled[i] : j < k => handled[i][j] < handled[i][k]
  /\ \A j \in DOMAIN handled[i] : Serves(Handlers[i], Stream[handled[i][j]])

(* While no handler holds the loop, what one of them has heard has been    *)
(* heard by every other that asked for it.                                 *)
AllHear == \A i, j \in DOMAIN Handlers :
  phase = "open" /\ work = NULL => \A k \in DOMAIN handled[i] :
    Serves(Handlers[j], Stream[handled[i][k]]) =>
      \E l \in DOMAIN handled[j] : handled[j][l] = handled[i][k]

(* After every connection the handlers are subscribed again, at the level  *)
(* they asked for.                                                         *)
HandlersAreBack == loop = "read" /\ wire => \A i \in DOMAIN Handlers :
  \E r \in served : /\ Covers(r.filter, Wants[Handlers[i]].filter)
                    /\ r.qos >= Wants[Handlers[i]].qos

(* What the handlers of the connection were told is what the client holds. *)
StatusIsTrue == status = "up" <=> connected

MqttSafe == /\ WouldHear /\ NobodyForgotten /\ OwnAnswer
            /\ HeardInOrder /\ AllHear /\ HandlersAreBack /\ StatusIsTrue

(* Every call ends, and what arrived is read or lost with its connection.  *)
CallsEnd == \A c \in Callers : (caller[c].at # "idle") ~> (caller[c].at = "idle")
LoopMoves == (inbox # << >>) ~> (inbox = << >>)
Proceeds == CallsEnd /\ LoopMoves

(* client.py:256-258: those who wait are woken at once when the connection *)
(* is lost, and not left to their time limit.  The loop that would wake    *)
(* them is held by the handler that waits.                                 *)
WokenAtOnce == \A c \in Callers :
  caller[c].at = "wait" /\ caller[c].open /\ ~ wire => ENABLED Lost
=============================================================================
