--------------------------------- MODULE MCCore ---------------------------------
(***************************************************************************)
(* The parts of core/ that share no state, checked side by side: connection*)
(* events (this module extends theirs), the job queue, the event bus, the  *)
(* pool of blocking calls, the container, the lifespan, the WebSocket      *)
(* gateway and cron.  A behaviour is one of one part, which `part' names;  *)
(* the others stay where they began.                                       *)
(***************************************************************************)
EXTENDS ConnectionEvents, FiniteSets

CONSTANTS NULL,
          Parts,                                  \* the parts to check
          JobItems, JobWorkers, JobsQueued, JobRetries,   \* jobs (x is the name of none)
          BusListeners, BusStatic, BusPattern, BusEvents, BusPending, BusCalls,
          PoolSize, PoolCalls,
          Providers, OfRequest, Requires,         \* the container, see Container
          CheckedBy, Resolved, HookedUp, HookFailing, Requests, MaxResolves,
          LifeSources, LifeFails, LifeEvents,     \* the lifespan
          WsWorkers, WsConns, WsRooms, WsHome, WsUser, MaxClients, PerUser, MaxRooms,
          WsQueue, Overflow, OddData, WsEmits, WsFrames

VARIABLE part

(* ------------------------------------------------------------------ jobs *)
VARIABLES jPhase, jQueue, jWaiting, jWorker, jAsleep, jAttempts, jFate, jReported, jAccepted, jStarted
Jobs == INSTANCE JobQueue WITH
  Items <- JobItems, Known <- JobItems \ {"x"}, Workers <- JobWorkers,
  Nothing <- NULL, MaxQueued <- JobsQueued, MaxRetries <- JobRetries,
  phase <- jPhase, queue <- jQueue, waiting <- jWaiting, worker <- jWorker, asleep <- jAsleep,
  attempts <- jAttempts, fate <- jFate, reported <- jReported, accepted <- jAccepted, started <- jStarted
ASSUME JobsInstance == Jobs!JobsAssumption
ASSUME FiniteInstance == IsFiniteSet(JobWorkers)

(* ------------------------------------------------------------- event bus *)
VARIABLES bStarted, bClosing, bDynamic, bCalls, bTasks, bCancelled, bPending, bGauge
Bus == INSTANCE EventBus WITH
  Listeners <- BusListeners, Static <- BusStatic, Pattern <- BusPattern, Events <- BusEvents,
  MaxPending <- BusPending, MaxSeconds <- TRUE, MaxCalls <- BusCalls,
  started <- bStarted, closing <- bClosing, dynamic <- bDynamic, calls <- bCalls,
  tasks <- bTasks, cancelled <- bCancelled, pending <- bPending, gauge <- bGauge
ASSUME BusInstance == Bus!BusAssumption

(* --------------------------------------------------------- blocking pool *)
VARIABLES pQueue, pIdle, pClosed, pThreads, pGrowing, pFuture
Pool == INSTANCE BlockingPool WITH
  NONE <- NULL, Size <- PoolSize, Calls <- PoolCalls, Stuck <- {},
  queue <- pQueue, idle <- pIdle, closed <- pClosed, threads <- pThreads, growing <- pGrowing, future <- pFuture
ASSUME PoolInstance == Pool!PoolAssumption

(* ------------------------------------------------------------- container *)
VARIABLES cInstances, cBuilding, cStore, cPhase, cDue, cStack, cMade, cTold, cResult, cResolves
Wiring == INSTANCE Container WITH
  Names <- Providers, PerRequest <- OfRequest, Deps <- Requires,
  Guards <- CheckedBy, Roots <- Resolved, Hooked <- HookedUp, HookFails <- HookFailing,
  Tasks <- Requests, Threaded <- {},
  instances <- cInstances, building <- cBuilding, store <- cStore, phase <- cPhase, due <- cDue,
  stack <- cStack, made <- cMade, told <- cTold, result <- cResult, resolves <- cResolves
ASSUME WiringInstance == Wiring!ContainerAssumption

(* -------------------------------------------------------------- lifespan *)
VARIABLES lPhase, lAt, lUp, lJobs, lHeard, lUnheard, lStranded
Life == INSTANCE Lifespan WITH
  Sources <- LifeSources, Fails <- LifeFails, MaxEvents <- LifeEvents,
  phase <- lPhase, at <- lAt, up <- lUp, jobs <- lJobs, heard <- lHeard, unheard <- lUnheard, stranded <- lStranded
ASSUME LifeInstance == Life!LifespanAssumption

(* ------------------------------------------------------------- websocket *)
VARIABLES wConn, wOpen, wIndex, wGauge, wEmits, wDue, wGot, wChannel, wListening, wStopping
Gateway == INSTANCE WebSocket WITH
  Workers <- WsWorkers, Conns <- WsConns, Rooms <- WsRooms, Home <- WsHome, User <- WsUser,
  MaxConnections <- MaxClients, QueueSize <- WsQueue, MaxEmits <- WsEmits, MaxFrames <- WsFrames,
  conn <- wConn, open <- wOpen, index <- wIndex, gauge <- wGauge, emits <- wEmits, due <- wDue,
  got <- wGot, channel <- wChannel, listening <- wListening, stopping <- wStopping
ASSUME GatewayInstance == Gateway!GatewayAssumption

(* ------------------------------------------------------------------ cron *)
(* A calendar of eight years, with days of two hours of two minutes.       *)
Whole == << [star |-> TRUE, from |-> 0, to |-> 0, step |-> 1] >>
Every(n) == << [star |-> TRUE, from |-> 0, to |-> 0, step |-> n] >>
One(n) == [star |-> FALSE, from |-> n, to |-> n, step |-> 1]
Span(a, b, n) == << [star |-> FALSE, from |-> a, to |-> b, step |-> n] >>
VARIABLES kCron, kZone, kAt, kClock, kFrom, kNext, kRuns, kTold
Cron == INSTANCE Cron WITH
  HourLength <- 2, DayHours <- 2, Lookahead <- 732, FirstYear <- 2023, LastYear <- 2030,
  Expressions <- {
    << Whole, Whole, Whole, Whole, Whole >>,
    << << One(0) >>, << One(1) >>, Whole, Whole, Whole >>,
    << << One(0) >>, << One(1) >>, Whole, Whole, << One(7) >> >>,        \* Sundays
    << << One(0) >>, Whole, << One(31) >>, Whole, Whole >>,              \* the ends of long months
    << << One(0) >>, << One(1) >>, << One(29) >>, << One(2) >>, Whole >>,
    << << One(0) >>, Whole, << One(1), One(30) >>, Whole, << One(1) >> >>,   \* or Monday
    << << One(0) >>, Whole, Every(7), Whole, << One(1) >> >>,            \* and Monday
    << << One(0) >>, << One(0) >>, << One(31) >>, Span(4, 12, 5), Every(2) >>,  \* never
    << Whole, Whole, Whole, Whole, Span(5, 3, 1) >> },                   \* refused
  Starts <- {2955543, 2955775, 2955778, 2956025},  \* near the ends of 2023, of February and of April 2024
  Shifts <- {[at |-> 0, by |-> 0]}, MaxRuns <- 2, MaxLate <- 1, MaxRun <- 3,
  cron <- kCron, zone <- kZone, at <- kAt, clock <- kClock, from <- kFrom, next <- kNext, runs <- kRuns, told <- kTold

(* -------------------------------------------- values for the constants *)
(* A service and a second one that need each other lazily; a unit of work  *)
(* per request; two that need each other; one that mixes the scopes.       *)
D(n) == [on |-> n, lazy |-> FALSE]
Lazy(n) == [on |-> n, lazy |-> TRUE]
TheProviders ==
  [Ctl |-> << D("Svc") >>, Svc |-> << Lazy("Other"), Lazy("Uow") >>, Other |-> << D("Svc") >>,
   Uow |-> << D("Svc") >>, Who |-> << >>, A |-> << D("B") >>, B |-> << D("Svc"), D("A") >>,
   Bad |-> << D("Svc"), D("Uow") >>, Deep |-> << D("Uow"), D("Who") >>]
TheGuards == << "Svc" >>

ThePatterns == [s |-> << "user", "*" >>, w |-> << "user", "#" >>, d |-> << "user", "made" >>]
TheEvents == {<< "user", "made" >>, << "user" >>}

(* Two clients of one user at one worker; one of them sends a frame.       *)
TheHome == [c1 |-> "w1", c2 |-> "w1"]
TheUser == [c1 |-> "u", c2 |-> "u"]
TheFrames == [c1 |-> 1, c2 |-> 0]

(* ------------------------------------------------------------ composition *)
jobVars == << jPhase, jQueue, jWaiting, jWorker, jAsleep, jAttempts, jFate, jReported, jAccepted, jStarted >>
busVars == << bStarted, bClosing, bDynamic, bCalls, bTasks, bCancelled, bPending, bGauge >>
poolVars == << pQueue, pIdle, pClosed, pThreads, pGrowing, pFuture >>
containerVars == << cInstances, cBuilding, cStore, cPhase, cDue, cStack, cMade, cTold, cResult, cResolves >>
lifespanVars == << lPhase, lAt, lUp, lJobs, lHeard, lUnheard, lStranded >>
gatewayVars == << wConn, wOpen, wIndex, wGauge, wEmits, wDue, wGot, wChannel, wListening, wStopping >>
cronVars == << kCron, kZone, kAt, kClock, kFrom, kNext, kRuns, kTold >>

NoCron == /\ kCron = NULL /\ kZone = NULL /\ kAt = NULL /\ kClock = NULL
          /\ kFrom = NULL /\ kNext = NULL /\ kRuns = NULL /\ kTold = NULL

CoreInit ==
  /\ part \in Parts
  /\ Init /\ Jobs!Init /\ Bus!Init /\ Pool!Init /\ Wiring!Init /\ Life!Init /\ Gateway!Init
  /\ IF part = "cron" THEN Cron!Init ELSE NoCron

Rest == /\ UNCHANGED part
        /\ IF part = "events" THEN TRUE ELSE UNCHANGED vars
        /\ IF part = "jobs" THEN TRUE ELSE UNCHANGED jobVars
        /\ IF part = "bus" THEN TRUE ELSE UNCHANGED busVars
        /\ IF part = "pool" THEN TRUE ELSE UNCHANGED poolVars
        /\ IF part = "container" THEN TRUE ELSE UNCHANGED containerVars
        /\ IF part = "lifespan" THEN TRUE ELSE UNCHANGED lifespanVars
        /\ IF part = "gateway" THEN TRUE ELSE UNCHANGED gatewayVars
        /\ IF part = "cron" THEN TRUE ELSE UNCHANGED cronVars

CoreNext == \/ part = "events" /\ Next /\ Rest
            \/ part = "jobs" /\ Jobs!Next /\ Rest
            \/ part = "bus" /\ Bus!Next /\ Rest
            \/ part = "pool" /\ Pool!Next /\ Rest
            \/ part = "container" /\ Wiring!Next /\ Rest
            \/ part = "lifespan" /\ Life!Next /\ Rest
            \/ part = "gateway" /\ Gateway!Next /\ Rest
            \/ part = "cron" /\ Cron!Next /\ Rest

coreVars == << part, vars, jobVars, busVars, poolVars, containerVars, lifespanVars, gatewayVars, cronVars >>
CoreSafeSpec == CoreInit /\ [][CoreNext]_coreVars
CoreSpec ==
  /\ CoreSafeSpec
  /\ WF_vars(Take) /\ WF_vars(CloseTimeout) /\ WF_vars(phase = "open" /\ HandlerEnds)
  /\ Jobs!RunnerFairness /\ Jobs!BodyFairness
  /\ Bus!Fairness /\ Pool!Fairness /\ Gateway!Fairness
-----------------------------------------------------------------------------
(* The job queue: a job accepted is in one place, jobs start in the order  *)
(* in which they were accepted, and the drain cuts none that it waited for.*)
(* (jobs.py 200-365.)                                                      *)
JobsSafe == Jobs!JobsSafe

(* The event bus: the books of pending handlers, the limit per dispatch,   *)
(* the answers of emit() and what a shutdown leaves. (events.py 300-470.)  *)
BusSafe == Bus!BusSafe

(* The pool of blocking calls: a call is run once or not at all, by one    *)
(* thread, and a pool that shuts down tells everybody. (workers.py 120-240)*)
PoolSafe == Pool!PoolSafe

(* The container: one instance per scope, cycles are found, and what was   *)
(* opened for a request is told how it ended. (container.py, providers.py.)*)
Wired == Wiring!Wired

(* The lifespan: what is started is stopped, in the order that the parts   *)
(* need each other, whatever failed. (lifespan.py.)                        *)
LifespanOrdered == Life!InOrder

(* The WebSocket gateway: registers, gauge and quotas agree, frames come   *)
(* once, in order and are not lost in silence. (core/websocket.)           *)
GatewaySafe == Gateway!GatewaySafe

(* Cron: the next moment is the next, a tick is run once, and what passed  *)
(* is told. (cron.py, scheduler.py 395-415.)                               *)
CronRight == part = "cron" => Cron!CronRight

(* What must happen does: changes are reported and close() ends; jobs      *)
(* settle and the drain ends; emit() answers and the bus shuts down; every *)
(* call of the pool is run; a connection that closes is gone.              *)
CoreLives == /\ AllReported /\ CloseEnds
             /\ Jobs!Progress /\ Jobs!ShutdownEnds
             /\ Bus!Ends
             /\ Pool!EveryCallRuns
             /\ Gateway!ClosingEnds
=============================================================================
