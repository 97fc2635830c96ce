----------------------------- MODULE Container -----------------------------
(***************************************************************************)
(* core/container.py with the endpoints of core/controller.py: providers   *)
(* are built on first use, with what their __init__ asks for, in the store *)
(* of the process or of the request. A request on the event loop resolves  *)
(* in one go; one in a thread (a plain def handler or guard, Inject) may   *)
(* be interrupted anywhere, and they share _instances and _building.       *)
(***************************************************************************)
EXTENDS Integers, SequencesExt

CONSTANTS Names, PerRequest,     \* providers, and those of Scope.REQUEST
          Deps,                  \* name -> << [on, lazy], ... >> of __init__
          Guards,                \* << name, ... >>, resolved before the handler's class
          Roots,                 \* what a handler resolves: its class, get() of Providers
          Hooked, HookFails,     \* providers with on_request_end, those whose hook may raise
          Tasks, Threaded,       \* requests, and those handled in a thread
          MaxResolves

ContainerAssumption ==
  /\ PerRequest \subseteq Names /\ Roots \subseteq Names /\ Guards \in Seq(Names)
  /\ Deps \in [Names -> Seq([on : Names, lazy : BOOLEAN])]

VARIABLES instances, building,   \* _instances, _building
          store,                 \* task -> names in its request store, in order
          phase,                 \* "idle", "guards", "open", "ending", "closed"
          due,                   \* task -> guards, then hooks, still to call
          stack,                 \* task -> resolve() calls on its stack
          made,                  \* history: name -> constructions (singletons)
          told,                  \* history: task -> hooks called
          result,                \* task -> [name, how] of its last resolve
          resolves

vars == << instances, building, store, phase, due, stack, made, told, result, resolves >>

Init == /\ instances = {} /\ building = << >> /\ resolves = 0
        /\ store = [t \in Tasks |-> << >>] /\ phase = [t \in Tasks |-> "idle"]
        /\ due = [t \in Tasks |-> << >>] /\ stack = [t \in Tasks |-> << >>]
        /\ made = [n \in Names |-> 0] /\ told = [t \in Tasks |-> << >>]
        /\ result = [t \in Tasks |-> [name |-> "", how |-> "none"]]

(* Guards and the handler's class are resolved on the event loop, which    *)
(* runs one task at a time up to its next await; the rest in the thread.   *)
OnLoop(t) == t \notin Threaded \/ phase[t] = "guards"
Runs(t) == ~ OnLoop(t) \/ \A u \in Tasks : u # t /\ OnLoop(u) => stack[u] = << >>
Top(t) == Last(stack[t])

-----------------------------------------------------------------------------
(* Bug: an error leaves the names it was building on the list. *)
Raise_Keeps(t, n, how) ==
  /\ result' = [result EXCEPT ![t] = [name |-> n, how |-> how]]
  /\ stack' = [stack EXCEPT ![t] = << >>]
  /\ due' = [due EXCEPT ![t] = << >>]
  /\ phase' = [phase EXCEPT ![t] = "open"]
  /\ UNCHANGED << instances, building, store, made >>

(* An error passes through every resolve() on the stack; each pops one.    *)
(* In a guard it is the end of the request's work.                         *)
Raise(t, n, how) ==
  /\ result' = [result EXCEPT ![t] = [name |-> n, how |-> how]]
  /\ building' = SubSeq(building, 1, Len(building) - Len(stack[t]))
  /\ stack' = [stack EXCEPT ![t] = << >>]
  /\ due' = [due EXCEPT ![t] = << >>]
  /\ phase' = [phase EXCEPT ![t] = "open"]
  /\ UNCHANGED << instances, store, made >>

Stored(t, n) == IF n \in PerRequest THEN n \in ToSet(store[t]) ELSE n \in instances

(* resolve(name), from the stack `rest` the caller leaves behind. *)
Resolve(t, n, rest) ==
  LET of == IF stack[t] = << >> THEN n ELSE result[t].name
      Says(how) == result' = [result EXCEPT ![t] = [name |-> of, how |-> how]]
  IN  IF Stored(t, n)
      THEN /\ stack' = [stack EXCEPT ![t] = rest] /\ Says(IF rest = << >> THEN "ok" ELSE "none")
           /\ UNCHANGED << instances, building, store, made, due, phase >>
      ELSE IF n \in ToSet(building) THEN Raise(t, of, "cycle")
      ELSE /\ building' = Append(building, n) /\ Says("none")
           /\ stack' = [stack EXCEPT ![t] = Append(rest, [name |-> n, left |-> Deps[n]])]
           /\ UNCHANGED << instances, store, made, due, phase >>

(* _build_kwargs: a lazy one costs nothing, the others are resolved first. *)
Dependency(t) ==
  /\ Runs(t) /\ stack[t] # << >> /\ Top(t).left # << >>
  /\ LET d == Head(Top(t).left)
         rest == Append(Front(stack[t]), [Top(t) EXCEPT !.left = Tail(@)])
     IN  IF d.lazy THEN /\ stack' = [stack EXCEPT ![t] = rest]
                        /\ UNCHANGED << instances, building, store, made, result, due, phase >>
         ELSE IF Top(t).name \notin PerRequest /\ d.on \in PerRequest THEN Raise(t, result[t].name, "scope")
         ELSE Resolve(t, d.on, rest)
  /\ UNCHANGED << told, resolves >>

(* The constructor returns: pop, whatever is last, and store.              *)
Construct(t) ==
  /\ Runs(t) /\ stack[t] # << >> /\ Top(t).left = << >>
  /\ LET n == Top(t).name
     IN  /\ building' = Front(building)
         /\ stack' = [stack EXCEPT ![t] = Front(@)]
         /\ IF n \in PerRequest
            THEN store' = [store EXCEPT ![t] = Append(@, n)] /\ UNCHANGED << instances, made >>
            ELSE /\ instances' = instances \cup {n} /\ made' = [made EXCEPT ![n] = @ + 1]
                 /\ UNCHANGED store
         /\ result' = [result EXCEPT ![t].how = IF Len(stack[t]) = 1 THEN "ok" ELSE @]
  /\ UNCHANGED << phase, due, told, resolves >>

-----------------------------------------------------------------------------
(* The endpoint opens the scope, then goes through its guards in order.    *)
Open(t) == /\ phase[t] = "idle" /\ phase' = [phase EXCEPT ![t] = "guards"]
           /\ due' = [due EXCEPT ![t] = Guards]
           /\ UNCHANGED << instances, building, store, stack, made, told, result, resolves >>

GuardRun(t) ==
  /\ phase[t] = "guards" /\ Runs(t) /\ stack[t] = << >> /\ due[t] # << >>
  /\ LET g == Head(due[t])
     IN  \/ ~ Stored(t, g) /\ Resolve(t, g, << >>)
         \/ /\ Stored(t, g)                       \* check() lets the request pass
            /\ due' = [due EXCEPT ![t] = Tail(@)]
            /\ UNCHANGED << instances, building, store, stack, made, result, phase >>
         \/ /\ Stored(t, g)                       \* check() raises
            /\ due' = [due EXCEPT ![t] = << >>] /\ phase' = [phase EXCEPT ![t] = "open"]
            /\ UNCHANGED << instances, building, store, stack, made, result >>
  /\ UNCHANGED << told, resolves >>

Handler(t) == /\ phase[t] = "guards" /\ stack[t] = << >> /\ due[t] = << >>
              /\ phase' = [phase EXCEPT ![t] = "open"]
              /\ UNCHANGED << instances, building, store, due, stack, made, told, result, resolves >>

Ask(t, n) ==
  /\ phase[t] = "open" /\ Runs(t) /\ stack[t] = << >> /\ resolves < MaxResolves
  /\ resolves' = resolves + 1
  /\ Resolve(t, n, << >>)
  /\ UNCHANGED told

(* request_scope() ends: what the store holds, last first, is told if it   *)
(* has a hook.                                                             *)
Close(t) ==
  /\ phase[t] = "open" /\ stack[t] = << >>
  /\ phase' = [phase EXCEPT ![t] = "ending"]
  /\ due' = [due EXCEPT ![t] = Reverse(store[t])]
  /\ UNCHANGED << instances, building, store, stack, made, told, result, resolves >>

Hook(t) ==
  /\ phase[t] = "ending" /\ due[t] # << >>
  /\ told' = [told EXCEPT ![t] = IF Head(due[t]) \in Hooked THEN Append(@, Head(due[t])) ELSE @]
  /\ \/ due' = [due EXCEPT ![t] = Tail(@)]
     \/ Head(due[t]) \in Hooked \cap HookFails /\ due' = [due EXCEPT ![t] = << >>]
  /\ UNCHANGED << instances, building, store, phase, stack, made, result, resolves >>

Closed(t) == /\ phase[t] = "ending" /\ due[t] = << >>
             /\ phase' = [phase EXCEPT ![t] = "closed"]
             /\ UNCHANGED << instances, building, store, due, stack, made, told, result, resolves >>

Next == \E t \in Tasks :
          \/ Open(t) \/ GuardRun(t) \/ Handler(t) \/ Dependency(t) \/ Construct(t)
          \/ Close(t) \/ Hook(t) \/ Closed(t)
          \/ \E n \in Roots : Ask(t, n)

Spec == Init /\ [][Next]_vars

-----------------------------------------------------------------------------
(* What a provider cannot be built without.                                *)
Needs(n) == {m \in Names : \E k \in DOMAIN Deps[n] : Deps[n][k] = [on |-> m, lazy |-> FALSE]}

(* A cycle is reported only where what is asked for needs, in the end,     *)
(* something that needs itself: there is a way on from every name.         *)
CyclesAreReal == \A t \in Tasks : result[t].how = "cycle" =>
  \E S \in SUBSET Names : result[t].name \in S /\ \A n \in S : Needs(n) \cap S # {}

(* A singleton is built once, and all it holds are singletons that are     *)
(* there: nothing of a request's, however deep.                            *)
OneEach == \A n \in Names \ PerRequest :
  /\ made[n] <= 1
  /\ n \in instances => Needs(n) \subseteq instances \ PerRequest

(* No name stays on _building: an error must not spoil the next resolve.   *)
NothingLeft == (\A t \in Tasks : stack[t] = << >>) => building = << >>

(* Every provider of a request that has a hook is told of its end, once,   *)
(* the last built first.                                                   *)
AllTold == \A t \in Tasks : phase[t] = "closed" =>
  /\ ToSet(told[t]) = Hooked \cap ToSet(store[t])
  /\ \A i, j \in DOMAIN told[t] : i < j =>
       \E a, b \in DOMAIN store[t] : a < b /\ store[t][a] = told[t][j] /\ store[t][b] = told[t][i]
  /\ \A i, j \in DOMAIN told[t] : i # j => told[t][i] # told[t][j]

Wired == CyclesAreReal /\ OneEach /\ NothingLeft /\ AllTold
=============================================================================
