------------------------------ MODULE WebSocket ------------------------------
(***************************************************************************)
(* core/websocket/: the life of a connection (gateway.py), its send queue  *)
(* and writer (socket.py), the registry every worker keeps of its own      *)
(* connections (namespace.py) and the Redis channel that takes what one    *)
(* worker emits to the others (server.py, adapter.py).                     *)
(* A frame is the number of its emit(), or a negative number when it is    *)
(* made for one connection (connected, ping, answers, errors).             *)
(***************************************************************************)
EXTENDS Integers, FiniteSets, Sequences

CONSTANTS NULL,
          Workers, Conns, Rooms,
          Home, User,          \* connection -> its worker, its user (or NULL)
          MaxConnections, PerUser, MaxRooms,
          QueueSize, Overflow, \* send_queue_size; "close" or "drop_oldest"
          OddData,             \* TRUE: json.dumps() may refuse what is emitted
          MaxEmits, MaxFrames  \* bounds: emit() calls; frames of each client

(* send_queue_size = 0, a queue without a limit, is a size above MaxEmits. *)
GatewayAssumption ==
  /\ IsFiniteSet(Conns) /\ Home \in [Conns -> Workers]
  /\ QueueSize \in Nat \ {0} /\ Overflow \in {"close", "drop_oldest"}
  /\ PerUser \in Int /\ MaxRooms \in Nat

VARIABLES conn,      \* connection -> [at, closing, rooms, queue, writer, frames]
          open,      \* connections whose WebSocket is open at both ends
          index,     \* worker -> Namespace: [sockets, users, rooms]
          gauge,     \* worker -> ws_connections
          emits,     \* history: [from, room, odd, out]; out: not published yet
          due, got,  \* history: emitted frames put in a queue; sent to the client
          channel, listening,  \* worker -> what Redis has for it; is it subscribed
          stopping   \* worker -> "no", "closing" or "down"

vars == << conn, open, index, gauge, emits, due, got, channel, listening, stopping >>

CONNECTED == -1
ANSWER == -2
STOP == -3

Nobody == [x \in {} |-> {}]

Init == /\ conn = [c \in Conns |-> [at |-> "new", closing |-> FALSE, rooms |-> {},
                                    queue |-> << >>, writer |-> "none", frames |-> 0]]
        /\ open = Conns
        /\ index = [w \in Workers |-> [sockets |-> {}, users |-> Nobody, rooms |-> Nobody]]
        /\ gauge = [w \in Workers |-> 0] /\ emits = << >>
        /\ due = [c \in Conns |-> << >>] /\ got = [c \in Conns |-> << >>]
        /\ channel = [w \in Workers |-> << >>] /\ listening = [w \in Workers |-> FALSE]
        /\ stopping = [w \in Workers |-> "no"]

-----------------------------------------------------------------------------
(* Registers: name -> set, a name without members being dropped.           *)
In(table, k) == IF k \in DOMAIN table THEN table[k] ELSE {}
Enrol(table, k, c) == [x \in DOMAIN table \cup {k} |-> In(table, x) \cup IF x = k THEN {c} ELSE {}]
Strike(table, k, c) == LET t == [x \in DOMAIN table |-> IF x = k THEN table[x] \ {c} ELSE table[x]]
                       IN  [x \in {y \in DOMAIN t : y # k \/ t[y] # {}} |-> t[x]]

Add(ns, c) == [ns EXCEPT !.sockets = @ \cup {c},
                         !.users = IF User[c] = NULL THEN @ ELSE Enrol(@, User[c], c)]

(* Bug: a connection that goes stays in its rooms. *)
Remove_KeepsRooms(ns, c) ==
  [ns EXCEPT !.sockets = @ \ {c}, !.users = IF User[c] = NULL THEN @ ELSE Strike(@, User[c], c)]

Remove(ns, c) ==
  [sockets |-> ns.sockets \ {c},
   users |-> IF User[c] = NULL THEN ns.users ELSE Strike(ns.users, User[c], c),
   rooms |-> [r \in {x \in DOMAIN ns.rooms : x \notin conn[c].rooms \/ ns.rooms[x] # {c}} |->
                ns.rooms[r] \ IF r \in conn[c].rooms THEN {c} ELSE {}]]

(* send: nothing to a socket that closes; a full queue drops its oldest    *)
(* frame or gives the client up.                                           *)
Send(r, f) ==
  IF r.closing THEN r
  ELSE IF Len(r.queue) < QueueSize THEN [r EXCEPT !.queue = Append(@, f)]
  ELSE IF Overflow = "drop_oldest" THEN [r EXCEPT !.queue = Append(Tail(@), f)]
  ELSE [r EXCEPT !.closing = TRUE]

Here(c, r) == conn' = [conn EXCEPT ![c] = r]
Go(c, at) == Here(c, [conn[c] EXCEPT !.at = at])
Reply(c, at, f) == Here(c, [Send(conn[c], f) EXCEPT !.at = at])
Others == << index, gauge, emits, due, got, channel, listening, stopping >>

-----------------------------------------------------------------------------
(* run(): the limit of the namespace, then accept() and the guards.        *)
Accept(c) ==
  /\ conn[c].at = "new" /\ stopping[Home[c]] = "no"
  /\ IF Cardinality(index[Home[c]].sockets) >= MaxConnections
     THEN Go(c, "refused") /\ open' = open \ {c}
     ELSE Go(c, "guards") /\ UNCHANGED open
  /\ UNCHANGED Others

(* A guard said no, or the user has as many connections as allowed.        *)
Reject(c, guard) ==
  /\ conn[c].at = "guards"
  /\ guard \/ (PerUser > 0 /\ Cardinality(In(index[Home[c]].users, User[c])) >= PerUser)
  /\ Go(c, "refused") /\ open' = open \ {c}
  /\ UNCHANGED Others

Enter(c) ==
  /\ conn[c].at = "guards"
  /\ (User[c] # NULL /\ PerUser > 0) => Cardinality(In(index[Home[c]].users, User[c])) < PerUser
  /\ Here(c, [conn[c] EXCEPT !.at = "greet", !.writer = "run"])
  /\ index' = [index EXCEPT ![Home[c]] = Add(@, c)]
  /\ gauge' = [gauge EXCEPT ![Home[c]] = @ + 1]
  /\ UNCHANGED << open, emits, due, got, channel, listening, stopping >>

(* on_connect returned, or refused the client.                             *)
Greeted(c) == /\ conn[c].at = "greet" /\ Reply(c, "loop", CONNECTED)
              /\ UNCHANGED << open, Others >>
TurnedAway(c) == /\ conn[c].at = "greet"
                 /\ Here(c, [conn[c] EXCEPT !.at = "leaving", !.closing = TRUE])
                 /\ open' = open \ {c} /\ UNCHANGED Others

(* A frame is refused (no text, too long, too fast), dropped because the   *)
(* socket closes, or handed to its handler.                                *)
Receive(c, fine) ==
  /\ conn[c].at = "loop" /\ c \in open /\ conn[c].frames < MaxFrames[c]
  /\ LET r == [conn[c] EXCEPT !.frames = @ + 1]
     IN  Here(c, IF ~ fine THEN Send(r, ANSWER)
                 ELSE [r EXCEPT !.at = IF r.closing THEN "leaving" ELSE "handler"])
  /\ UNCHANGED << open, Others >>

(* The client is gone, also in the middle of a handler.                    *)
ClientGone(c) == /\ conn[c].at \in {"greet", "loop", "handler", "asking"} /\ c \in open
                 /\ open' = open \ {c} /\ UNCHANGED << conn, Others >>

(* The loop reads the disconnect, or has waited idle_timeout_seconds.      *)
Disconnected(c) == /\ conn[c].at = "loop" /\ c \notin open
                   /\ Go(c, "leaving") /\ UNCHANGED << open, Others >>
Idle(c) == /\ conn[c].at = "loop"
           /\ Here(c, [conn[c] EXCEPT !.at = "leaving", !.closing = TRUE])
           /\ open' = open \ {c} /\ UNCHANGED Others

(* A handler, "ping" or an error: an answer or none.                       *)
Handled(c) == /\ conn[c].at = "handler"
              /\ Reply(c, "loop", ANSWER) \/ Go(c, "loop")
              /\ UNCHANGED << open, Others >>

(* room.leave, and room.join around can_join().                            *)
LeaveRoom(c, r) ==
  /\ conn[c].at = "handler"
  /\ Here(c, [Send(conn[c], ANSWER) EXCEPT !.at = "loop", !.rooms = @ \ {r}])
  /\ index' = [index EXCEPT ![Home[c]].rooms = Strike(@, r, c)]
  /\ UNCHANGED << open, gauge, emits, due, got, channel, listening, stopping >>
AskRoom(c) ==
  /\ conn[c].at = "handler"
  /\ IF Cardinality(conn[c].rooms) >= MaxRooms THEN Reply(c, "loop", ANSWER) ELSE Go(c, "asking")
  /\ UNCHANGED << open, Others >>
NotAllowed(c) == /\ conn[c].at = "asking" /\ Reply(c, "loop", ANSWER)
                 /\ UNCHANGED << open, Others >>
JoinRoom(c, r) ==
  /\ conn[c].at = "asking"
  /\ Here(c, [Send(conn[c], ANSWER) EXCEPT !.at = "loop", !.rooms = @ \cup {r}])
  /\ index' = [index EXCEPT ![Home[c]].rooms = Enrol(@, r, c)]
  /\ UNCHANGED << open, gauge, emits, due, got, channel, listening, stopping >>

-----------------------------------------------------------------------------
(* _teardown: after on_disconnect and the close hooks the connection       *)
(* leaves the registry; its writer is told to stop (cancelled if the queue *)
(* is full); the gauge goes down once the writer has ended or 2 seconds    *)
(* have passed.                                                            *)
Hooks(c) ==
  /\ conn[c].at = "leaving"
  /\ index' = [index EXCEPT ![Home[c]] = Remove(@, c)]
  /\ Here(c, LET r == [conn[c] EXCEPT !.at = "removed", !.rooms = {}]
             IN  IF Len(r.queue) < QueueSize THEN [r EXCEPT !.queue = Append(@, STOP)]
                 ELSE [r EXCEPT !.writer = "gone"])
  /\ UNCHANGED << open, gauge, emits, due, got, channel, listening, stopping >>

Gone(c) ==
  /\ conn[c].at = "removed"
  /\ Here(c, [conn[c] EXCEPT !.at = "gone", !.closing = TRUE, !.writer = "gone"])
  /\ open' = open \ {c}
  /\ gauge' = [gauge EXCEPT ![Home[c]] = @ - 1]
  /\ UNCHANGED << index, emits, due, got, channel, listening, stopping >>

(* The task close_soon() started.                                          *)
CloseSoon(c) == /\ conn[c].closing /\ c \in open
                /\ open' = open \ {c} /\ UNCHANGED << conn, Others >>

(* _writer_loop; any error ends it without a word to the rest.             *)
Write(c) ==
  /\ conn[c].writer = "run" /\ conn[c].queue # << >>
  /\ LET f == Head(conn[c].queue)
         fine == c \in open /\ (f > 0 => ~ emits[f].odd)
     IN  /\ Here(c, [conn[c] EXCEPT !.queue = Tail(@),
                                    !.writer = IF f # STOP /\ fine THEN "run" ELSE "gone"])
         /\ got' = IF f > 0 /\ fine THEN [got EXCEPT ![c] = Append(@, f)] ELSE got
  /\ UNCHANGED << open, index, gauge, emits, due, channel, listening, stopping >>

(* _heartbeat; what it sends may be what fills the queue.                  *)
Heartbeat(c) == /\ conn[c].at \in {"loop", "handler", "asking"} /\ ~ conn[c].closing
                /\ Len(conn[c].queue) > 0
                /\ Here(c, Send(conn[c], ANSWER)) /\ UNCHANGED << open, Others >>

-----------------------------------------------------------------------------
(* deliver: those in the room (all when NULL) that do not close.           *)
Targets(w, room) == {c \in IF room = NULL THEN index[w].sockets
                           ELSE In(index[w].rooms, room) \cap index[w].sockets : ~ conn[c].closing}
Deliver(w, i, room) ==
  LET to == Targets(w, room)
  IN  /\ conn' = [c \in Conns |-> IF c \in to THEN Send(conn[c], i) ELSE conn[c]]
      /\ due' = [c \in Conns |-> IF c \in to THEN Append(due[c], i) ELSE due[c]]

(* server.emit: here first, then the channel.                              *)
Emit(w, room, odd) ==
  /\ stopping[w] = "no" /\ Len(emits) < MaxEmits /\ (odd => OddData)
  /\ emits' = Append(emits, [from |-> w, room |-> room, odd |-> odd, out |-> TRUE])
  /\ Deliver(w, Len(emits) + 1, room)
  /\ UNCHANGED << open, index, gauge, got, channel, listening, stopping >>

(* The publish() of emit i; one that fails is logged.                      *)
Publish(i, fails) ==
  /\ emits[i].out
  /\ emits' = [emits EXCEPT ![i].out = FALSE]
  /\ channel' = [w \in Workers |-> IF listening[w] /\ ~ fails /\ ~ emits[i].odd
                                   THEN Append(channel[w], i) ELSE channel[w]]
  /\ UNCHANGED << conn, open, index, gauge, due, got, listening, stopping >>

(* _listen and _dispatch: what this worker sent itself is skipped.         *)
Remote(w) ==
  /\ channel[w] # << >>
  /\ channel' = [channel EXCEPT ![w] = Tail(@)]
  /\ LET i == Head(channel[w])
     IN  IF emits[i].from = w THEN UNCHANGED << conn, due >> ELSE Deliver(w, i, emits[i].room)
  /\ UNCHANGED << open, index, gauge, emits, got, listening, stopping >>

(* A worker loses Redis and finds it again; so may one without clients, but *)
(* nothing is seen of that.                                                 *)
Served == {Home[c] : c \in Conns}
Listen(w) == /\ w \in Served /\ stopping[w] = "no" /\ listening' = [listening EXCEPT ![w] = ~ @]
             /\ channel' = [channel EXCEPT ![w] = << >>]
             /\ UNCHANGED << conn, open, index, gauge, emits, due, got, stopping >>

(* shutdown: one close() after another, then the gauge and the adapter.    *)
Shutdown(w) == /\ w \in Served /\ stopping[w] = "no" /\ stopping' = [stopping EXCEPT ![w] = "closing"]
               /\ UNCHANGED << conn, open, index, gauge, emits, due, got, channel, listening >>
CloseOne(c) == /\ stopping[Home[c]] = "closing" /\ c \in index[Home[c]].sockets
               /\ ~ conn[c].closing
               /\ Here(c, [conn[c] EXCEPT !.closing = TRUE])
               /\ open' = open \ {c} /\ UNCHANGED Others
Down(w) == /\ stopping[w] = "closing"
           /\ \A c \in index[w].sockets : conn[c].closing
           /\ stopping' = [stopping EXCEPT ![w] = "down"]
           /\ gauge' = [gauge EXCEPT ![w] = 0]
           /\ listening' = [listening EXCEPT ![w] = FALSE]
           /\ channel' = [channel EXCEPT ![w] = << >>]
           /\ UNCHANGED << conn, open, index, emits, due, got >>

-----------------------------------------------------------------------------
Step(c) == \/ Accept(c) \/ Reject(c, TRUE) \/ Reject(c, FALSE) \/ Enter(c)
           \/ Greeted(c) \/ TurnedAway(c)
           \/ Receive(c, TRUE) \/ Receive(c, FALSE) \/ Disconnected(c) \/ Idle(c)
           \/ Handled(c) \/ AskRoom(c) \/ NotAllowed(c) \/ Hooks(c) \/ Gone(c)
           \/ \E r \in Rooms : LeaveRoom(c, r) \/ JoinRoom(c, r)

Next == \/ \E c \in Conns : Step(c) \/ ClientGone(c) \/ CloseSoon(c) \/ Write(c) \/ Heartbeat(c) \/ CloseOne(c)
        \/ \E w \in Workers : \/ \E room \in Rooms \cup {NULL}, odd \in BOOLEAN : Emit(w, room, odd)
                              \/ Remote(w) \/ Listen(w) \/ Shutdown(w) \/ Down(w)
        \/ \E i \in DOMAIN emits, fails \in BOOLEAN : Publish(i, fails)

(* What the event loop has begun it goes on with: hooks and handlers end,  *)
(* a connection that is silent is cut off.                                 *)
Fairness == \A c \in Conns :
  /\ WF_vars(Disconnected(c) \/ Idle(c)) /\ WF_vars(Handled(c)) /\ WF_vars(NotAllowed(c))
  /\ WF_vars(Greeted(c) \/ TurnedAway(c)) /\ WF_vars(Hooks(c)) /\ WF_vars(Gone(c))

Spec == Init /\ [][Next]_vars /\ Fairness

-----------------------------------------------------------------------------
Running(w) == stopping[w] # "down"
Registered(c) == conn[c].at \in {"greet", "loop", "handler", "asking", "leaving"}

(* namespace.py: the three registers speak of the same connections, and    *)
(* hold no name that nobody uses.                                          *)
Registers == \A w \in Workers :
  /\ index[w].sockets = {c \in Conns : Home[c] = w /\ Registered(c)}
  /\ \A u \in DOMAIN index[w].users :
       index[w].users[u] = {c \in index[w].sockets : User[c] = u} /\ index[w].users[u] # {}
  /\ \A r \in Rooms : In(index[w].rooms, r) = {c \in Conns : Home[c] = w /\ r \in conn[c].rooms}
  /\ {} \notin {index[w].rooms[r] : r \in DOMAIN index[w].rooms}

(* The gauge counts the connections that have not ended (gateway.py:306,   *)
(* 677), until the shutdown sets it to 0.                                  *)
GaugeTrue == \A w \in Workers : Running(w) =>
  gauge[w] = Cardinality({c \in Conns : Home[c] = w /\ (Registered(c) \/ conn[c].at = "removed")})

(* The quota of a user and the rooms of a connection are never passed,     *)
(* whatever came in between test and use.                                  *)
QuotaKept == /\ PerUser > 0 => \A w \in Workers : \A u \in DOMAIN index[w].users :
                                 Cardinality(index[w].users[u]) <= PerUser
             /\ \A c \in Conns : Cardinality(conn[c].rooms) <= MaxRooms

(* A client gets no frame twice, and those of its own worker in order.     *)
OnceInOrder == \A c \in Conns : \A i, j \in DOMAIN got[c] :
  /\ i # j => got[c][i] # got[c][j]
  /\ i < j /\ emits[got[c][i]].from = Home[c] /\ emits[got[c][j]].from = Home[c]
       => got[c][i] < got[c][j]

(* config.py:178: with overflow "close" frames are never lost in silence:  *)
(* a client has been sent what it was due, up to some frame; and as long   *)
(* as it is served the others, and no more, are in its queue in that order.*)
Unsent(c) == {n \in DOMAIN due[c] : n > Len(got[c])}
InLine(c) == {n \in DOMAIN conn[c].queue : conn[c].queue[n] > 0}
NoSilentLoss == Overflow = "close" => \A c \in Conns :
  /\ \A m, n \in DOMAIN due[c] : due[c][m] = due[c][n] => m = n
  /\ \A n \in DOMAIN got[c] : got[c][n] = due[c][n]
  /\ Registered(c) /\ ~ conn[c].closing /\ conn[c].writer = "run" =>
       /\ \A n \in Unsent(c) : \E k \in InLine(c) : conn[c].queue[k] = due[c][n]
       /\ \A k \in InLine(c) : \E n \in Unsent(c) : conn[c].queue[k] = due[c][n]
       /\ \A j, k \in InLine(c) : j < k =>
            \E m, n \in Unsent(c) : m < n /\ due[c][m] = conn[c].queue[j] /\ due[c][n] = conn[c].queue[k]

(* A client that is served has a writer: one write that failed does not    *)
(* leave it connected and deaf.                                            *)
HasWriter == \A c \in open : Registered(c) /\ ~ conn[c].closing => conn[c].writer = "run"

GatewaySafe == Registers /\ GaugeTrue /\ QuotaKept /\ OnceInOrder /\ NoSilentLoss

(* APP_WS__MAX_CONNECTIONS is the number of connections a worker takes     *)
(* (docs/websocket.md:492): those in the middle of their handshake are not *)
(* counted.                                                                *)
WithinMaximum == \A w \in Workers : Cardinality(index[w].sockets) <= MaxConnections

(* A connection that closes leaves the registry, whatever its client does. *)
ClosingEnds == \A c \in Conns : (Registered(c) /\ conn[c].closing) ~> (conn[c].at = "gone")
=============================================================================
