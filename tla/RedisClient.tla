----------------------------- MODULE RedisClient -----------------------------
(***************************************************************************)
(* infrastructure/redis/: the connection and what watches it (client.py),  *)
(* the loop that reads a channel for the handlers (pubsub.py, and the same *)
(* loop in responders.py) and request/reply over pub/sub (send() and its   *)
(* reply loop). The server may go away and come back; what is published    *)
(* meanwhile is lost.                                                      *)
(***************************************************************************)
EXTENDS Integers, FiniteSets, Sequences

CONSTANTS NULL,
          Callers, Op,       \* tasks that call send(); the channel each one uses
          MaxLosses, MaxCalls, MaxMessages   \* bounds

VARIABLES server, losses,    \* is Redis there; how often it went away
          phase,             \* "new", "open", "closing", "rpc closed", "closed"
          healthy, connected,        \* _healthy; ConnectionEvents.connected
          supervisor, health,        \* "none", "sleep", "ping"
          command,           \* a command in flight, or what _call knows of it
          reader, heard, published,  \* RedisRunner's read loop; its handler's messages
          pubsub, channels,  \* _rpc_pubsub (0: None, else its number), _rpc_channels
          made,              \* pubsub objects made so far
          subs, broken,      \* pubsub -> channels subscribed; those cut off
          loops, inbox,      \* reply loops that run: pubsubs; pubsub -> replies
          lock, caller       \* _rpc_lock; caller -> [at, calls, open, outcome]

client == << server, losses, phase, healthy, connected, supervisor, health, command >>
runner == << reader, heard, published >>
rpc == << pubsub, channels, made, subs, broken, loops, inbox, lock, caller >>
vars == << client, runner, rpc >>

Pubsubs == 0..made
Closing == phase \notin {"new", "open"}

Init == /\ server \in BOOLEAN /\ losses = 0 /\ phase = "new"
        /\ healthy = FALSE /\ connected = FALSE
        /\ supervisor = "none" /\ health = "none" /\ command = "none"
        /\ reader = [at |-> "none", cut |-> FALSE, inbox |-> << >>]
        /\ heard = << >> /\ published = 0
        /\ pubsub = 0 /\ channels = {} /\ made = 0
        /\ subs = [p \in Pubsubs |-> {}] /\ broken = {}
        /\ loops = {} /\ inbox = [p \in Pubsubs |-> << >>] /\ lock = NULL
        /\ caller = [c \in Callers |-> [at |-> "idle", calls |-> 0, open |-> FALSE, outcome |-> NULL]]

-----------------------------------------------------------------------------
(* _mark; an error of the command itself is no loss of the connection.     *)
Mark(how) == /\ healthy' = (how = "ok")
             /\ connected' = (IF how = "ok" THEN TRUE ELSE IF how = "lost" THEN FALSE ELSE connected)

(* RedisRunner._setup: a loop that runs is left alone.                     *)
Setup == reader' = IF reader.at = "none" THEN [reader EXCEPT !.at = "subscribe"] ELSE reader

(* startup() of the client, which answers at once or leaves it to a        *)
(* supervisor, and of the runner, which registers its hook and looks       *)
(* whether the connection is there already.                                *)
Startup ==
  /\ phase = "new" /\ phase' = "open"
  /\ IF server
     THEN Mark("ok") /\ Setup /\ health' = "sleep" /\ UNCHANGED supervisor
     ELSE Mark("lost") /\ supervisor' = "sleep" /\ UNCHANGED << reader, health >>
  /\ UNCHANGED << server, losses, command, heard, published, rpc >>

(* Bug: the connection is found again and the hooks are not run. *)
Recover_NoHooks ==
  /\ supervisor = "ping" /\ ~ Closing
  /\ IF server
     THEN Mark("ok") /\ supervisor' = "none" /\ health' = "sleep" /\ UNCHANGED reader
     ELSE Mark("lost") /\ supervisor' = "sleep" /\ UNCHANGED << reader, health >>
  /\ UNCHANGED << server, losses, phase, command, heard, published, rpc >>

(* _reconnect_forever: what the ping found, the hooks, the health check.   *)
Recover ==
  /\ supervisor = "ping" /\ ~ Closing
  /\ IF server
     THEN Mark("ok") /\ supervisor' = "none" /\ Setup /\ health' = "sleep"
     ELSE Mark("lost") /\ supervisor' = "sleep" /\ UNCHANGED << reader, health >>
  /\ UNCHANGED << server, losses, phase, command, heard, published, rpc >>
Supervise == /\ supervisor = "sleep" /\ ~ Closing /\ supervisor' = "ping"
             /\ UNCHANGED << server, losses, phase, healthy, connected, health, command, runner, rpc >>

(* _health_loop.                                                           *)
Beat == /\ health = "sleep" /\ ~ Closing /\ health' = "ping"
        /\ UNCHANGED << server, losses, phase, healthy, connected, supervisor, command, runner, rpc >>
Beaten == /\ health = "ping" /\ ~ Closing /\ health' = "sleep"
          /\ Mark(IF server THEN "ok" ELSE "lost")
          /\ UNCHANGED << server, losses, phase, supervisor, command, runner, rpc >>

(* _call: any command of the application; the answer may be old when it is *)
(* read, and the client may have been closed in between.                   *)
Command == /\ phase # "new" /\ phase # "closed" /\ command = "none"
           /\ \E how \in {"wrong", IF server THEN "ok" ELSE "lost"} : command' = how
           /\ UNCHANGED << server, losses, phase, healthy, connected, supervisor, health, runner, rpc >>
Commanded == /\ command # "none" /\ Mark(command) /\ command' = "none"
             /\ UNCHANGED << server, losses, phase, supervisor, health, runner, rpc >>

(* The server goes: every pub/sub connection is cut.                       *)
Lose == /\ server /\ losses < MaxLosses
        /\ server' = FALSE /\ losses' = losses + 1
        /\ broken' = 1..made
        /\ reader' = [reader EXCEPT !.cut = @ \/ reader.at \in {"listen", "handle"}]
        /\ UNCHANGED << phase, healthy, connected, supervisor, health, command, heard, published,
                        pubsub, channels, made, subs, loops, inbox, lock, caller >>
Return == /\ ~ server /\ server' = TRUE
          /\ UNCHANGED << losses, phase, healthy, connected, supervisor, health, command, runner, rpc >>

-----------------------------------------------------------------------------
(* RedisRunner._listen: subscribe, then read one message after another.    *)
Reader(at) == reader' = [reader EXCEPT !.at = at]
Subscribe == /\ reader.at = "subscribe" /\ ~ Closing
             /\ reader' = [at |-> IF server THEN "listen" ELSE "sleep", cut |-> FALSE, inbox |-> << >>]
             /\ UNCHANGED << heard, published, client, rpc >>
Retry == /\ reader.at = "sleep" /\ Reader("subscribe")
         /\ UNCHANGED << heard, published, client, rpc >>
Handle == /\ reader.at = "listen" /\ reader.inbox # << >>
          /\ reader' = [reader EXCEPT !.at = "handle", !.inbox = Tail(@)]
          /\ heard' = Append(heard, Head(reader.inbox))
          /\ UNCHANGED << published, client, rpc >>
Handled == /\ reader.at = "handle" /\ Reader("listen")
           /\ UNCHANGED << heard, published, client, rpc >>
(* The read finds the connection cut: redis-py opens it again and          *)
(* subscribes again by itself, or the loop starts over.                    *)
Cut == /\ reader.at = "listen" /\ reader.cut /\ reader.inbox = << >>
       /\ \/ server /\ reader' = [reader EXCEPT !.cut = FALSE]
          \/ Reader("sleep")
       /\ UNCHANGED << heard, published, client, rpc >>

(* Somebody publishes on the channel of the handlers.                      *)
Publish == /\ server /\ published < MaxMessages
           /\ published' = published + 1
           /\ reader' = IF reader.at \in {"listen", "handle"} /\ ~ reader.cut
                        THEN [reader EXCEPT !.inbox = Append(@, published + 1)] ELSE reader
           /\ UNCHANGED << heard, client, rpc >>

-----------------------------------------------------------------------------
At(c, at) == caller' = [caller EXCEPT ![c].at = at]

(* send(): _listen_for_replies waits for the lock,                         *)
Send(c) == /\ phase = "open" /\ caller[c].at = "idle" /\ caller[c].calls < MaxCalls
           /\ caller' = [caller EXCEPT ![c].at = "lock", ![c].calls = @ + 1]
           /\ UNCHANGED << client, runner, pubsub, channels, made, subs, broken, loops, inbox, lock >>

(* makes the pubsub object if there is none, and subscribes to the channel *)
(* of the replies if that is not done yet;                                 *)
Locked(c) ==
  /\ caller[c].at = "lock" /\ lock = NULL
  /\ IF pubsub = 0 /\ phase = "closed"
     THEN At(c, "idle") /\ UNCHANGED << pubsub, channels, made, lock >>
     ELSE /\ lock' = c /\ At(c, "subscribe")
          /\ IF pubsub = 0 THEN made' = made + 1 /\ pubsub' = made + 1 /\ channels' = {}
             ELSE UNCHANGED << pubsub, channels, made >>
  /\ subs' = [p \in 0..made' |-> IF p \in Pubsubs THEN subs[p] ELSE {}]
  /\ inbox' = [p \in 0..made' |-> IF p \in Pubsubs THEN inbox[p] ELSE << >>]
  /\ UNCHANGED << client, runner, broken, loops >>

(* Start the reply loop of whatever _rpc_pubsub is now, if none runs;      *)
(* take a place in the book and go on to publish.                          *)
Ready(c) == /\ loops' = IF loops = {} THEN {pubsub} ELSE loops
            /\ lock' = NULL
            /\ caller' = [caller EXCEPT ![c].at = "publish", ![c].open = TRUE, ![c].outcome = NULL]

(* the subscribe() went to the pubsub object of that time, which the reply *)
(* loop may have dropped since;                                            *)
Subscribed(c, p) ==
  /\ caller[c].at = "subscribe" /\ lock = c
  /\ IF pubsub # 0 /\ Op[c] \in channels THEN Ready(c) /\ UNCHANGED << channels, subs, broken >>
     ELSE \/ server /\ Ready(c) /\ channels' = channels \cup {Op[c]}
             /\ subs' = [subs EXCEPT ![p] = @ \cup {Op[c]}] /\ broken' = broken \ {p}
          \/ /\ lock' = NULL /\ At(c, "idle")   \* it raised
             /\ UNCHANGED << channels, subs, broken, loops >>
  /\ UNCHANGED << client, runner, pubsub, made, inbox >>

(* publish(): no server or nobody who listens is an error at once.         *)
Published(c, listeners) ==
  /\ caller[c].at = "publish" /\ (listeners => server /\ phase # "closed")
  /\ IF listeners THEN At(c, "wait")
     ELSE caller' = [caller EXCEPT ![c].at = "idle", ![c].open = FALSE]
  /\ UNCHANGED << client, runner, pubsub, channels, made, subs, broken, loops, inbox, lock >>

(* The answer reaches the pubsubs that are subscribed now.                 *)
Answer(c) ==
  /\ server /\ caller[c].at = "wait" /\ caller[c].open
  /\ \A p \in 1..made : c \notin {inbox[p][i] : i \in DOMAIN inbox[p]}
  /\ \E p \in (1..made) \ broken : Op[c] \in subs[p]
  /\ inbox' = [p \in Pubsubs |-> IF p \in (1..made) \ broken /\ Op[c] \in subs[p]
                                 THEN Append(inbox[p], c) ELSE inbox[p]]
  /\ UNCHANGED << client, runner, pubsub, channels, made, subs, broken, loops, lock, caller >>

Deliver(c) == caller' = IF caller[c].open
                        THEN [caller EXCEPT ![c].open = FALSE, ![c].outcome = "answer"] ELSE caller

(* _reply_loop; while the client closes it leaves at the next message.     *)
Read(p) ==
  /\ p \in loops /\ p # 0 /\ p \notin broken /\ inbox[p] # << >> /\ ~ Closing
  /\ inbox' = [inbox EXCEPT ![p] = Tail(@)]
  /\ Deliver(Head(inbox[p]))
  /\ UNCHANGED << client, runner, pubsub, channels, made, subs, broken, loops, lock >>

(* redis-py opens the connection again and subscribes again by itself.     *)
Mended(p) == /\ p \in loops \cap broken /\ server
             /\ broken' = broken \ {p}
             /\ UNCHANGED << client, runner, pubsub, channels, made, subs, loops, inbox, lock, caller >>

Resolve(outcome) == caller' = [c \in Callers |->
  IF caller[c].open THEN [caller[c] EXCEPT !.open = FALSE, !.outcome = outcome] ELSE caller[c]]

(* Bug: a reply loop that dies tells nobody. *)
LoopDies_Quiet(p) ==
  /\ p \in loops /\ (p = 0 \/ p \in broken \/ (Closing /\ inbox[p] # << >>))
  /\ loops' = loops \ {p} /\ pubsub' = 0 /\ channels' = {}
  /\ subs' = [subs EXCEPT ![p] = {}] /\ inbox' = [inbox EXCEPT ![p] = << >>]
  /\ UNCHANGED << client, runner, made, broken, lock, caller >>

(* The end of the loop: an error of the connection, or no pubsub at all.   *)
LoopDies(p) ==
  /\ p \in loops /\ (p = 0 \/ p \in broken \/ (Closing /\ inbox[p] # << >>))
  /\ loops' = loops \ {p} /\ pubsub' = 0 /\ channels' = {}
  /\ subs' = [subs EXCEPT ![p] = {}] /\ inbox' = [inbox EXCEPT ![p] = << >>]
  /\ IF Closing THEN UNCHANGED caller ELSE Resolve("lost")
  /\ UNCHANGED << client, runner, made, broken, lock >>

(* wait() ends: by its future or by its time limit.                        *)
Wakes(c) == /\ caller[c].at = "wait" /\ ~ caller[c].open
            /\ At(c, "idle")
            /\ UNCHANGED << client, runner, pubsub, channels, made, subs, broken, loops, inbox, lock >>
GivesUp(c) == /\ caller[c].at = "wait" /\ caller[c].open
              /\ caller' = [caller EXCEPT ![c].at = "idle", ![c].open = FALSE]
              /\ UNCHANGED << client, runner, pubsub, channels, made, subs, broken, loops, inbox, lock >>

-----------------------------------------------------------------------------
(* shutdown() of the runner and of the client: the tasks are cancelled,    *)
(* then the calls and the reply loop, then the client is dropped.          *)
Shutdown == /\ phase = "open" /\ phase' = "closing"
            /\ supervisor' = "none" /\ health' = "none" /\ connected' = FALSE
            /\ Reader("none")
            /\ UNCHANGED << server, losses, healthy, command, heard, published, rpc >>
CloseRpc == /\ phase = "closing" /\ phase' = "rpc closed"
            /\ Resolve("cancelled") /\ loops' = {} /\ pubsub' = 0 /\ channels' = {}
            /\ subs' = [p \in Pubsubs |-> {}] /\ inbox' = [p \in Pubsubs |-> << >>]
            /\ UNCHANGED << server, losses, healthy, connected, supervisor, health, command,
                            runner, made, broken, lock >>
Closed == /\ phase = "rpc closed" /\ phase' = "closed" /\ healthy' = FALSE
          /\ UNCHANGED << server, losses, connected, supervisor, health, command, runner, rpc >>

Next == \/ Startup \/ Supervise \/ Recover \/ Beat \/ Beaten \/ Command \/ Commanded \/ Lose \/ Return
        \/ Subscribe \/ Retry \/ Handle \/ Handled \/ Cut \/ Publish
        \/ Shutdown \/ CloseRpc \/ Closed
        \/ \E c \in Callers : \/ Send(c) \/ Locked(c) \/ Subscribed(c, made)
                              \/ Published(c, TRUE) \/ Published(c, FALSE)
                              \/ Answer(c) \/ Wakes(c) \/ GivesUp(c)
        \/ \E p \in Pubsubs : Read(p) \/ Mended(p) \/ LoopDies(p)

(* The loops of the client run, and so does the reader.                    *)
Fairness == /\ WF_vars(Supervise) /\ WF_vars(Recover) /\ WF_vars(Beat) /\ WF_vars(Beaten)
            /\ WF_vars(Subscribe) /\ WF_vars(Retry) /\ WF_vars(Handle) /\ WF_vars(Handled) /\ WF_vars(Cut)

Spec == Init /\ [][Next]_vars /\ Fairness

-----------------------------------------------------------------------------
(* While the client is open, a call that waits has a reply loop that will  *)
(* answer or wake it: one that is subscribed to its channel (or is about   *)
(* to be again), or that is about to die and to fail every call.           *)
NoDeafWait == phase = "open" => \A c \in Callers : caller[c].at = "wait" /\ caller[c].open
  => \E p \in loops : p = 0 \/ Op[c] \in subs[p]

(* One reply loop, and only for the pubsub object in use.                  *)
OneLoop == (\A p, q \in loops : p = q) /\ (phase = "open" => \A p \in loops : p \in {0, pubsub})

(* The handlers are given the messages in order and none twice.            *)
HeardInOrder == \A i, j \in DOMAIN heard : i < j => heard[i] < heard[j]

(* A supervisor is at work as long as the hooks have not been run.         *)
HooksAreDue == phase = "open" => (supervisor = "none" <=> reader.at # "none")

RedisSafe == NoDeafWait /\ OneLoop /\ HeardInOrder /\ HooksAreDue

(* docs/redis.md:180: the channels are listened to again after every loss: *)
(* once the server stays up, unless the application ends.                  *)
ListensAgain == <>[](server /\ phase = "open") => <>[](reader.at \in {"listen", "handle"} /\ ~ reader.cut)

(* connected and broker_status() tell the truth in the end: the health     *)
(* check finds out without a command of the application.                   *)
StatusIsTrue == \A up \in BOOLEAN :
  <>[](server = up /\ phase = "open" /\ command = "none") => <>[](connected = up)

(* When the client is closed, the status says so (client.py:298: a command *)
(* that returns late marks it again).                                      *)
ClosedIsDown == phase = "closed" => ~ connected
=============================================================================
