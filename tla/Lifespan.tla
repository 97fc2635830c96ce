------------------------------ MODULE Lifespan ------------------------------
(***************************************************************************)
(* core/lifespan.py: the parts of the application are started one after    *)
(* the other, and stopped in an order of its own. What runs handlers (the  *)
(* consumers, the scheduler, the jobs, the workers) does so from its start *)
(* to its stop, while the other parts come and go.                         *)
(***************************************************************************)
EXTENDS Integers, SequencesExt

CONSTANTS Sources,            \* parts that run handlers
          Fails,              \* parts whose startup may raise
          MaxEvents           \* bound on jobs submitted and events dispatched

VARIABLES phase,              \* "starting", "serving", "stopping", "stopped", "failed"
          at,                 \* position in Startup or Shutdown
          up,                 \* parts that are started
          jobs,               \* number of jobs that wait in the queue
          heard, unheard,     \* sources whose events reached the bus, or did not
          stranded            \* sources whose jobs came after the queue was drained

vars == << phase, at, up, jobs, heard, unheard, stranded >>

Startup == << "database", "websockets", "broker", "consumers", "responders", "redis", "channels",
              "redis_responders", "mqtt_runner", "mqtt_responders", "mqtt", "kafka",
              "kafka_consumers", "kafka_responders", "events", "jobs", "scheduler", "workers" >>

(* Bug: the jobs are stopped before what submits them. *)
Shutdown_JobsFirst == << "jobs", "workers", "scheduler", "events", "kafka_consumers", "kafka", "mqtt",
               "channels", "consumers", "websockets", "broker", "redis", "database" >>
Shutdown == << "workers", "scheduler", "jobs", "events", "kafka_consumers", "kafka", "mqtt",
               "channels", "consumers", "websockets", "broker", "redis", "database" >>

(* What runs handlers is told to stop (the responders go with the broker). *)
LifespanAssumption == \A s \in Sources : \E i \in DOMAIN Shutdown : Shutdown[i] = s

Init == /\ phase = "starting" /\ at = 1 /\ up = {} /\ jobs = 0
        /\ heard = {} /\ unheard = {} /\ stranded = {}

-----------------------------------------------------------------------------
Start == /\ phase = "starting" /\ at <= Len(Startup)
         /\ up' = up \cup {Startup[at]} /\ at' = at + 1
         /\ UNCHANGED << phase, jobs, heard, unheard, stranded >>

(* An error before the yield: nothing that was started is stopped.         *)
StartFails == /\ phase = "starting" /\ at <= Len(Startup) /\ Startup[at] \in Fails
              /\ phase' = "failed"
              /\ UNCHANGED << at, up, jobs, heard, unheard, stranded >>

Serve == /\ phase = "starting" /\ at > Len(Startup)
         /\ phase' = "serving" /\ at' = 1
         /\ UNCHANGED << up, jobs, heard, unheard, stranded >>

Stopping == /\ phase = "serving" /\ phase' = "stopping"
            /\ UNCHANGED << at, up, jobs, heard, unheard, stranded >>

(* jobs.shutdown() waits for the queue to run dry.                         *)
Stop == /\ phase = "stopping" /\ at <= Len(Shutdown)
        /\ Shutdown[at] = "jobs" => jobs = 0
        /\ up' = up \ {Shutdown[at]} /\ at' = at + 1
        /\ UNCHANGED << phase, jobs, heard, unheard, stranded >>

Stopped == /\ phase = "stopping" /\ at > Len(Shutdown) /\ phase' = "stopped"
           /\ UNCHANGED << at, up, jobs, heard, unheard, stranded >>

-----------------------------------------------------------------------------
Running(s) == s \in Sources \cap up /\ phase # "failed"

(* A handler dispatches an event: the bus has it if it is started.         *)
Event(s) == /\ Running(s)
            /\ IF "events" \in up THEN heard' = heard \cup {s} /\ UNCHANGED unheard
               ELSE unheard' = unheard \cup {s} /\ UNCHANGED heard
            /\ UNCHANGED << phase, at, up, jobs, stranded >>

(* A handler submits a job: the queue takes it, started or not.            *)
Submit(s) == /\ Running(s) /\ jobs < MaxEvents
             /\ jobs' = jobs + 1
             /\ stranded' = IF phase = "stopping" /\ "jobs" \notin up THEN stranded \cup {s} ELSE stranded
             /\ UNCHANGED << phase, at, up, heard, unheard >>

RunJob == /\ "jobs" \in up /\ jobs > 0 /\ jobs' = jobs - 1
          /\ UNCHANGED << phase, at, up, heard, unheard, stranded >>

Next == \/ Start \/ StartFails \/ Serve \/ Stopping \/ Stop \/ Stopped \/ RunJob
        \/ \E s \in Sources : Event(s) \/ Submit(s)

Spec == Init /\ [][Next]_vars

-----------------------------------------------------------------------------
Infrastructure == {"database", "websockets", "broker", "redis", "mqtt", "kafka"}
Background == {"jobs", "scheduler", "workers"}

(* Workers, schedules and jobs run only while all they may use is there:   *)
(* they are started last and stopped first.                                *)
BackgroundIsReady == up \cap Background # {} => Infrastructure \cup {"events"} \subseteq up

(* Every handler finds the database: it is started first, stopped last.    *)
DatabaseFirst == up \cap Sources # {} => "database" \in up

(* What the background tasks say is heard and done, to their last run.     *)
BackgroundIsHeard == (unheard \cup stranded) \cap Background = {}

InOrder == BackgroundIsReady /\ DatabaseFirst /\ BackgroundIsHeard

(* The sources of work stop before the queue is drained, so that it can    *)
(* run dry; an event is dispatched when there is a bus to hear it.         *)
SourcesStopFirst == stranded = {}
EventsAreHeard == unheard = {}
=============================================================================
