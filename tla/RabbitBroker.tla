----------------------------- MODULE RabbitBroker -----------------------------
(***************************************************************************)
(* infrastructure/rabbitmq/broker.py: the connection and the hooks that    *)
(* run whenever it is there, the exchanges that are declared once, under a *)
(* lock, and remembered, and the channel for request/reply.  aio-pika      *)
(* restores the connection by itself once there was one.  A declaration    *)
(* that contradicts the server is answered with the end of its channel.    *)
(***************************************************************************)
EXTENDS Naturals, FiniteSets

CONSTANTS NULL,
          Hooks,                \* what registers with on_ready, and looks at connected
          Users, Op,            \* tasks; [op, name, kind, batch] of each: "publish", "send"
          OnServer,             \* exchange -> its kind on the server, before we come
          Concurrency,          \* of emit_many
          MaxLosses, MaxCalls   \* bounds

VARIABLES phase,            \* "new", "open", "closing", "closed"
          server,           \* can the broker be reached
          up, epoch,        \* connected; connections made and restored so far
          supervisor,       \* _reconnect_forever: "none", "sleep"
          hooks, running,   \* _ready_hooks; hooks that wait for their turn to run
          ran,              \* history: hook -> the connections it ran on
          exchanges, known, \* the server's; _exchanges and _exchange_kinds
          lock,             \* _lock
          rpc,              \* _rpc_channel: 0, or the number of the channel
          channels, dead,   \* channels opened for it; those that are closed
          refused,          \* history: those closed because of a declaration
          task, losses      \* user -> the steps of its call

link == << phase, server, up, epoch, supervisor, hooks, running, ran, losses >>
vars == << link, exchanges, known, lock, rpc, channels, dead, refused, task >>

Names == {Op[u].name : u \in Users}
DefaultKind == "topic"
Closing == phase \in {"closing", "closed"}

Init == /\ phase = "new" /\ server \in BOOLEAN /\ up = FALSE /\ epoch = 0 /\ losses = 0
        /\ supervisor = "none" /\ hooks = {} /\ running = {} /\ ran = [h \in Hooks |-> {}]
        /\ exchanges = OnServer /\ known = [n \in Names |-> NULL]
        /\ lock = NULL /\ rpc = 0 /\ channels = 0 /\ dead = {} /\ refused = {}
        /\ task = [u \in Users |-> [at |-> "idle", calls |-> 0, kind |-> NULL, conn |-> 0, chan |-> 0,
                                    flying |-> 0, sent |-> 0, stored |-> 0, left |-> 0, outcome |-> NULL]]

-----------------------------------------------------------------------------
(* _connect: what is kept of the last connection is forgotten; hooks run.  *)
Connected == /\ up' = TRUE /\ epoch' = epoch + 1 /\ running' = running \cup hooks

TryConnect == IF server THEN /\ Connected /\ supervisor' = "none"
                             /\ known' = [n \in Names |-> NULL]
              ELSE supervisor' = "sleep" /\ UNCHANGED << up, epoch, running, known >>

Startup == /\ phase = "new" /\ phase' = "open" /\ TryConnect
           /\ UNCHANGED << server, hooks, ran, losses, exchanges, lock, rpc, channels, dead, refused, task >>

Reconnect == /\ supervisor = "sleep" /\ ~ Closing /\ TryConnect
             /\ UNCHANGED << phase, server, hooks, ran, losses, exchanges, lock, rpc, channels, dead, refused, task >>

(* startup() of a runner: it registers, and runs now if there is a         *)
(* connection already.                                                     *)
OnReady(h) ==
  /\ phase = "open" /\ h \notin hooks
  /\ hooks' = hooks \cup {h} /\ running' = (IF up THEN running \cup {h} ELSE running)
  /\ UNCHANGED << phase, server, up, epoch, supervisor, ran, losses, exchanges, known, lock, rpc, channels, dead, refused, task >>

RunHook(h) ==
  /\ h \in running /\ running' = running \ {h} /\ ran' = [ran EXCEPT ![h] = @ \cup {epoch}]
  /\ UNCHANGED << phase, server, up, epoch, supervisor, hooks, losses, exchanges, known, lock, rpc, channels, dead, refused, task >>

FailAll == task' = [u \in Users |->
  IF task[u].at = "wait" THEN [task[u] EXCEPT !.at = "idle", !.outcome = "lost"] ELSE task[u]]

(* _on_close, and the server that goes and comes.                          *)
Break ==
  /\ server /\ losses < MaxLosses /\ losses' = losses + 1 /\ server' = FALSE
  /\ up' = FALSE /\ dead' = 1..channels
  /\ IF up /\ ~ Closing THEN rpc' = 0 /\ FailAll ELSE UNCHANGED << rpc, task >>
  /\ UNCHANGED << phase, epoch, supervisor, hooks, running, ran, exchanges, known, lock, channels, refused >>
ServerBack ==
  /\ ~ server /\ server' = TRUE
  /\ UNCHANGED << phase, up, epoch, supervisor, hooks, running, ran, losses, exchanges, known, lock, rpc, channels, dead, refused, task >>

(* aio-pika has restored the connection: _on_reconnect.                    *)
Restored ==
  /\ server /\ ~ up /\ epoch > 0 /\ ~ Closing /\ Connected
  /\ UNCHANGED << phase, server, supervisor, hooks, ran, losses, exchanges, known, lock, rpc, channels, dead, refused, task >>

Stop == /\ phase = "open" /\ phase' = "closing" /\ supervisor' = "none"
        /\ UNCHANGED << server, up, epoch, hooks, running, ran, losses, exchanges, known, lock, rpc, channels, dead, refused, task >>
Close == /\ phase = "closing" /\ phase' = "closed" /\ up' = FALSE
         /\ rpc' = 0 /\ dead' = 1..channels /\ known' = [n \in Names |-> NULL]
         /\ FailAll
         /\ UNCHANGED << server, epoch, supervisor, hooks, running, ran, losses, exchanges, lock, channels, refused >>

-----------------------------------------------------------------------------
Move(u, at) == task' = [task EXCEPT ![u].at = at]
End(u, how) == task' = [task EXCEPT ![u].at = "idle", ![u].outcome = how]
Wanted(u) == IF Op[u].kind = NULL THEN DefaultKind ELSE Op[u].kind
Alive(u) == up /\ task[u].conn = epoch

(* exchange(): what is known is used, unless another kind is asked for.    *)
Begins(u) ==
  LET k == known[Op[u].name]
  IN  IF ~ up THEN "idle"
      ELSE IF Op[u].op = "send" THEN (IF rpc # 0 /\ rpc \notin dead THEN "open" ELSE "rpc lock")
      ELSE IF k = NULL THEN "lock"
      ELSE IF Op[u].kind \in {NULL, k} THEN "publish" ELSE "idle"
Refusal(u) == IF Begins(u) # "idle" THEN NULL ELSE IF up THEN "other kind" ELSE "unavailable"

Call(u) ==
  /\ task[u].at = "idle" /\ task[u].calls < MaxCalls /\ phase # "new"
  /\ task' = [task EXCEPT ![u] =
       [at |-> Begins(u), calls |-> @.calls + 1, kind |-> Wanted(u), conn |-> epoch, chan |-> rpc,
        flying |-> 0, sent |-> 0, stored |-> 0, left |-> Op[u].batch, outcome |-> Refusal(u)]]
  /\ UNCHANGED << link, exchanges, known, lock, rpc, channels, dead, refused >>

(* Bug: no second look after the lock was waited for. *)
Locked_NoRecheck(u) ==
  /\ task[u].at = "lock" /\ lock = NULL
  /\ lock' = u /\ Move(u, "declare")
  /\ UNCHANGED << link, exchanges, known, rpc, channels, dead, refused >>

Locked(u) ==
  LET k == known[Op[u].name] IN
  /\ task[u].at = "lock" /\ lock = NULL
  /\ IF k = NULL THEN lock' = u /\ Move(u, "declare")
     ELSE UNCHANGED lock /\ IF k = task[u].kind THEN Move(u, "publish") ELSE End(u, "other kind")
  /\ UNCHANGED << link, exchanges, known, rpc, channels, dead, refused >>

(* The server's answer; no connection, no answer but an error.             *)
Fits(u) == exchanges[Op[u].name] \in {NULL, task[u].kind}

Declared(u) ==
  /\ task[u].at = "declare" /\ lock' = NULL
  /\ IF Alive(u) /\ Fits(u)
     THEN /\ exchanges' = [exchanges EXCEPT ![Op[u].name] = task[u].kind]
          /\ known' = [known EXCEPT ![Op[u].name] = task[u].kind]
          /\ Move(u, "publish")
     ELSE End(u, IF Alive(u) THEN "refused" ELSE "lost") /\ UNCHANGED << exchanges, known >>
  /\ UNCHANGED << link, rpc, channels, dead, refused >>

Room(u) == task[u].flying < Concurrency

(* publish, or one of the items of emit_many.                              *)
Send(u) ==
  /\ task[u].at = "publish" /\ task[u].left > 0 /\ Room(u)
  /\ task' = [task EXCEPT ![u].left = @ - 1, ![u].flying = @ + 1]
  /\ UNCHANGED << link, exchanges, known, lock, rpc, channels, dead, refused >>

(* The confirmation; without it the time limit or the connection ends it.  *)
Confirmed(u) ==
  /\ task[u].at = "publish" /\ task[u].flying > 0
  /\ \/ Alive(u) /\ task' = [task EXCEPT ![u].flying = @ - 1, ![u].sent = @ + 1, ![u].stored = @ + 1]
     \/ Alive(u) /\ task' = [task EXCEPT ![u].flying = @ - 1, ![u].stored = @ + 1]
     \/ task' = [task EXCEPT ![u].flying = @ - 1]
  /\ UNCHANGED << link, exchanges, known, lock, rpc, channels, dead, refused >>

Published(u) ==
  /\ task[u].at = "publish" /\ task[u].left = 0 /\ task[u].flying = 0
  /\ End(u, IF task[u].sent = Op[u].batch THEN "ok" ELSE "partial")
  /\ UNCHANGED << link, exchanges, known, lock, rpc, channels, dead, refused >>

(* _ensure_rpc_channel: one channel for asking and for listening.          *)
RpcLocked(u) ==
  /\ task[u].at = "rpc lock" /\ lock = NULL
  /\ IF rpc # 0 /\ rpc \notin dead
     THEN task' = [task EXCEPT ![u].at = "open", ![u].chan = rpc, ![u].conn = epoch] /\ UNCHANGED lock
     ELSE lock' = u /\ task' = [task EXCEPT ![u].at = "rpc", ![u].conn = epoch]
  /\ UNCHANGED << link, exchanges, known, rpc, channels, dead, refused >>

RpcOpened(u) ==
  /\ task[u].at = "rpc" /\ lock' = NULL
  /\ IF Alive(u)
     THEN channels' = channels + 1 /\ rpc' = channels' /\ task' = [task EXCEPT ![u].at = "open", ![u].chan = rpc']
     ELSE End(u, "lost") /\ UNCHANGED << rpc, channels >>
  /\ UNCHANGED << link, exchanges, known, dead, refused >>

(* _declare_on_channel: nobody looks whether the kind contradicts.         *)
RpcKind(u) == LET k == known[Op[u].name] IN
  IF Op[u].kind # NULL THEN Op[u].kind ELSE IF k # NULL THEN k ELSE DefaultKind

RpcDeclared(u) ==
  /\ task[u].at = "open"
  /\ IF task[u].chan \in dead
     THEN End(u, "lost") /\ UNCHANGED << exchanges, dead, refused >>
     ELSE IF exchanges[Op[u].name] \in {NULL, RpcKind(u)}
     THEN exchanges' = [exchanges EXCEPT ![Op[u].name] = RpcKind(u)] /\ Move(u, "ask") /\ UNCHANGED << dead, refused >>
     ELSE /\ dead' = dead \cup {task[u].chan} /\ refused' = refused \cup {task[u].chan}
          /\ End(u, "refused") /\ UNCHANGED exchanges
  /\ UNCHANGED << link, known, lock, rpc, channels >>

(* The request is published; a call that fails leaves the book.            *)
Asked(u) ==
  /\ task[u].at = "ask"
  /\ IF task[u].chan \in dead THEN End(u, "lost") ELSE Move(u, "wait") \/ End(u, "timeout")
  /\ UNCHANGED << link, exchanges, known, lock, rpc, channels, dead, refused >>

Answered(u) ==
  /\ task[u].at = "wait" /\ \/ task[u].chan \notin dead /\ End(u, "ok")
                            \/ End(u, "timeout")
  /\ UNCHANGED << link, exchanges, known, lock, rpc, channels, dead, refused >>

Step(u) == \/ Locked(u) \/ Declared(u) \/ Send(u) \/ Confirmed(u) \/ Published(u)
           \/ RpcLocked(u) \/ RpcOpened(u) \/ RpcDeclared(u) \/ Asked(u) \/ Answered(u)

Next == \/ Startup \/ Reconnect \/ Break \/ ServerBack \/ Restored \/ Stop \/ Close
        \/ \E h \in Hooks : OnReady(h) \/ RunHook(h)
        \/ \E u \in Users : Call(u) \/ Step(u)

(* The event loop runs what can run, the server comes back, aio-pika and   *)
(* the supervisor go on trying.  asyncio.Lock lets the waiting ones in in  *)
(* their order: none is passed by for ever.                                *)
Fairness == /\ WF_vars(ServerBack) /\ WF_vars(Restored) /\ WF_vars(Reconnect)
            /\ \A h \in Hooks : WF_vars(RunHook(h))
            /\ \A u \in Users : SF_vars(Locked(u) \/ RpcLocked(u)) /\ WF_vars(Step(u))

Spec == Init /\ [][Next]_vars
FairSpec == Spec /\ Fairness
-----------------------------------------------------------------------------
(* This process never gets a channel closed for contradicting itself: what *)
(* the server is told about an exchange is what it was told before, unless *)
(* somebody else had made the exchange.  (broker.py 358-395.)              *)
NoSelfContradiction == \A u \in Users :
  task[u].at = "declare" /\ Alive(u) => exchanges[Op[u].name] \in {NULL, task[u].kind, OnServer[Op[u].name]}

(* What is remembered of an exchange is what the server has.               *)
KnownIsTrue == \A n \in Names : known[n] # NULL => known[n] = exchanges[n]

(* Once its turn came, a hook has run on the connection that is there; none*)
(* that was registered while it was being made is left out.                *)
HooksAreDue == up => \A h \in hooks \ running : epoch \in ran[h]

(* Nobody waits for an answer on a channel that is gone with its           *)
(* connection, except while shutdown() closes it and has not woken them yet.*)
NoDeafWait == \A u \in Users : task[u].at = "wait" /\ phase # "closing" =>
  up /\ (task[u].chan \in dead => task[u].chan \in refused)

(* There is one channel for request/reply, which all calls share.          *)
OneChannel == \A u, v \in Users :
  task[u].at \in {"ask", "wait"} /\ task[v].at \in {"ask", "wait"}
  /\ task[u].chan \notin dead /\ task[v].chan \notin dead => task[u].chan = task[v].chan

(* emit_many has no more messages in flight than it was told.              *)
WithinConcurrency == \A u \in Users : task[u].flying <= Concurrency

(* What it returns is no more than the server has, though the server may   *)
(* have more: a confirmation that came too late does not count.            *)
CountsConfirmed == \A u \in Users : task[u].sent <= task[u].stored

RabbitSafe == /\ NoSelfContradiction /\ KnownIsTrue /\ HooksAreDue
              /\ NoDeafWait /\ OneChannel /\ WithinConcurrency /\ CountsConfirmed

(* Nobody keeps the lock, and every call comes to its end.                 *)
CallsEnd == \A u \in Users : (task[u].at # "idle") ~> (task[u].at = "idle")

(* broker.py:345-347: kind=None means that any kind will do.               *)
AnyKindWillDo == \A u \in Users : Op[u].kind = NULL => task[u].outcome # "other kind"

(* broker.py:361-364: a declaration of another kind is stopped here, and   *)
(* not left to the server, which closes the channel with all its calls.    *)
StoppedHere == \A u \in Users : task[u].at = "wait" /\ up /\ phase = "open" => task[u].chan \notin dead
=============================================================================
