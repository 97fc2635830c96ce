---------------------------- MODULE KafkaConsumers ----------------------------
(***************************************************************************)
(* infrastructure/kafka/consumers.py (and the same loop in responders.py): *)
(* processes of one group read one partition of a topic. The group gives   *)
(* the partition to one of them, may take it away while a handler runs,    *)
(* and hands the next owner whatever lies behind the committed offset.     *)
(***************************************************************************)
EXTENDS Integers, FiniteSets, Sequences

CONSTANTS NULL, Procs,
          Body,        \* offset -> "good", "invalid" (not the model) or "junk" (not JSON)
          MaxRetries, DeadLetter,
          MaxMoves, MaxCrashes   \* bounds: the partition moves; processes die

Offsets == DOMAIN Body   \* 1..n

VARIABLES proc,       \* process -> [at, pos, hand, attempt]
          owner, committed, moves, crashes,
          tasks,      \* read loops that run: process -> how many
          settled,    \* offset -> how it was given its end: "handled", "dlt", "dropped"
          deliveries  \* offset -> times it was handed to a handler's first attempt

vars == << proc, owner, committed, moves, crashes, tasks, settled, deliveries >>

Off == [at |-> "off", pos |-> 0, hand |-> 0, attempt |-> 0]

Init == /\ proc = [p \in Procs |-> Off]
        /\ owner = NULL /\ committed = 1 /\ moves = 0 /\ crashes = 0
        /\ tasks = [p \in Procs |-> 0]
        /\ settled = [m \in Offsets |-> {}] /\ deliveries = [m \in Offsets |-> 0]

Member(p) == proc[p].at \in {"poll", "call", "wait", "give up", "commit"}
Go(p, at) == proc' = [proc EXCEPT ![p].at = at]
Settle(m, how) == settled' = [settled EXCEPT ![m] = @ \cup {how}]
Group == << owner, committed, moves, crashes >>
History == << settled, deliveries >>

-----------------------------------------------------------------------------
(* _setup, at startup and whenever the broker is found: one loop a spec.   *)
Setup(p) ==
  /\ proc[p].at # "gone"
  /\ IF tasks[p] > 0 THEN UNCHANGED << tasks, proc >>
     ELSE tasks' = [tasks EXCEPT ![p] = 1] /\ Go(p, "start")
  /\ UNCHANGED << Group, History >>

(* consumer.start(): the process joins the group (once an earlier life of  *)
(* it has been missed), or the loop is to rest.                            *)
Start(p, fine) ==
  /\ proc[p].at = "start" /\ owner # p
  /\ Go(p, IF fine THEN "poll" ELSE "sleep")
  /\ UNCHANGED << Group, tasks, History >>

(* The group gives a free partition to a member, which reads on from the   *)
(* committed offset; it may take it away again while the handler runs.     *)
Assign(p) ==
  /\ Member(p) /\ owner = NULL
  /\ owner' = p /\ proc' = [proc EXCEPT ![p].pos = committed]
  /\ UNCHANGED << committed, moves, crashes, tasks, History >>
Revoke == /\ owner # NULL /\ moves < MaxMoves
          /\ owner' = NULL /\ moves' = moves + 1
          /\ UNCHANGED << proc, committed, crashes, tasks, History >>

(* The next record.                                                        *)
Poll(p) ==
  /\ proc[p].at = "poll" /\ owner = p /\ proc[p].pos \in Offsets
  /\ proc' = [proc EXCEPT ![p].at = "call", ![p].hand = proc[p].pos,
                           ![p].pos = @ + 1, ![p].attempt = 1]
  /\ deliveries' = [deliveries EXCEPT ![proc[p].pos] = @ + 1]
  /\ UNCHANGED << Group, tasks, settled >>

(* _call: only a body that fits reaches the handler, which may fail.       *)
Handled(p) ==
  /\ proc[p].at = "call" /\ Body[proc[p].hand] = "good"
  /\ Go(p, "commit") /\ Settle(proc[p].hand, "handled")
  /\ UNCHANGED << Group, tasks, deliveries >>
Permanent(p) ==
  /\ proc[p].at = "call" /\ Body[proc[p].hand] # "junk"
  /\ Go(p, "give up")
  /\ UNCHANGED << Group, tasks, History >>

(* Bug: a handler that fails stops the loop, which reads on. *)
Fails_Skips(p) ==
  /\ proc[p].at = "call" /\ Body[proc[p].hand] # "invalid"
  /\ Go(p, "commit")
  /\ UNCHANGED << Group, tasks, History >>

(* Any other error, JSON's among them: again, until the attempts are used. *)
Fails(p) ==
  /\ proc[p].at = "call" /\ Body[proc[p].hand] # "invalid"
  /\ Go(p, IF proc[p].attempt > MaxRetries THEN "give up" ELSE "wait")
  /\ UNCHANGED << Group, tasks, History >>
Again(p) ==
  /\ proc[p].at = "wait"
  /\ proc' = [proc EXCEPT ![p].at = "call", ![p].attempt = @ + 1]
  /\ UNCHANGED << Group, tasks, History >>

(* _move_to_dlt: the body is read as JSON once more, the publish may fail; *)
(* either way nothing is raised.                                           *)
MoveToDlt(p, published) ==
  /\ proc[p].at = "give up"
  /\ published => DeadLetter /\ Body[proc[p].hand] # "junk"
  /\ Go(p, "commit")
  /\ Settle(proc[p].hand, IF published THEN "dlt" ELSE "dropped")
  /\ UNCHANGED << Group, tasks, deliveries >>

(* commit(): the position in the partition, if this member still has it;   *)
(* it may raise.                                                           *)
Commit(p) ==
  /\ proc[p].at = "commit" /\ Go(p, "poll")
  /\ committed' = IF owner = p THEN proc[p].pos ELSE committed
  /\ UNCHANGED << owner, moves, crashes, tasks, History >>

(* The consumer is lost: it is stopped, which leaves the group, and made   *)
(* anew after a rest.                                                      *)
Leave(p) == owner' = IF owner = p THEN NULL ELSE owner
Lost(p) ==
  /\ proc[p].at \in {"poll", "commit"} /\ moves < MaxMoves
  /\ Go(p, "sleep") /\ Leave(p) /\ moves' = moves + 1
  /\ UNCHANGED << committed, crashes, tasks, History >>
Rest(p) == /\ proc[p].at = "sleep" /\ Go(p, "start")
           /\ UNCHANGED << Group, tasks, History >>

(* shutdown() cancels the loop wherever it is; a process that dies is      *)
(* missed by the group after a while (Revoke).                             *)
Shutdown(p) == /\ proc[p].at # "gone" /\ crashes < MaxCrashes
               /\ proc' = [proc EXCEPT ![p] = [Off EXCEPT !.at = "gone"]]
               /\ tasks' = [tasks EXCEPT ![p] = 0]
               /\ Leave(p) /\ crashes' = crashes + 1
               /\ UNCHANGED << committed, moves, History >>
Crash(p) == /\ proc[p].at # "gone" /\ crashes < MaxCrashes
            /\ proc' = [proc EXCEPT ![p] = Off] /\ tasks' = [tasks EXCEPT ![p] = 0]
            /\ crashes' = crashes + 1
            /\ UNCHANGED << owner, committed, moves, History >>
Expire == /\ owner # NULL /\ ~ Member(owner) /\ owner' = NULL
          /\ UNCHANGED << proc, committed, moves, crashes, tasks, History >>

Run(p) == \/ Setup(p) \/ Start(p, TRUE) \/ Assign(p) \/ Poll(p)
          \/ Handled(p) \/ Permanent(p) \/ Fails(p) \/ Again(p)
          \/ MoveToDlt(p, TRUE) \/ MoveToDlt(p, FALSE) \/ Commit(p) \/ Rest(p)

Next == \/ \E p \in Procs : Run(p) \/ Start(p, FALSE) \/ Lost(p) \/ Shutdown(p) \/ Crash(p)
        \/ Revoke \/ Expire

(* The loops run, the cluster is found sooner or later, and the group      *)
(* gives away what nobody owns.                                            *)
Fairness == /\ WF_vars(Expire)
            /\ \A p \in Procs :
                 /\ WF_vars(Setup(p) /\ tasks[p] = 0) /\ SF_vars(Start(p, TRUE)) /\ WF_vars(Rest(p))
                 /\ WF_vars(Assign(p)) /\ WF_vars(Poll(p)) /\ WF_vars(Again(p))
                 /\ WF_vars(Handled(p) \/ Permanent(p) \/ Fails(p))
                 /\ WF_vars(MoveToDlt(p, TRUE) \/ MoveToDlt(p, FALSE)) /\ WF_vars(Commit(p))

Spec == Init /\ [][Next]_vars /\ Fairness

-----------------------------------------------------------------------------
(* docs/kafka.md:210: an offset is committed when everything before it has *)
(* come to an end, whoever dies or loses the partition in between.         *)
NothingSkipped == \A m \in Offsets : m < committed => settled[m] # {}

(* Retries hold the partition up: a record is not given to a handler       *)
(* before all that precede it have come to an end.                         *)
OneAfterAnother == \A m, n \in Offsets : m < n /\ deliveries[n] > 0 => settled[m] # {}

(* A record is delivered again only because the partition moved or a       *)
(* process ended; and never tried more often than declared.                *)
AgainForAReason == /\ \A m \in Offsets : deliveries[m] <= 1 + moves + crashes
                   /\ \A p \in Procs : proc[p].attempt <= MaxRetries + 1
                   /\ \A p \in Procs : tasks[p] <= 1

KafkaSafe == NothingSkipped /\ OneAfterAnother /\ AgainForAReason

(* A record that cannot be processed does not stop the partition.          *)
PartitionMoves == \A m \in Offsets : <>(settled[m] # {} \/ \A p \in Procs : proc[p].at = "gone")

(* docs/kafka.md:185: with dead_letter=True a record that is given up is   *)
(* copied to <topic>.dlt.                                                  *)
GivenUpIsKept == DeadLetter => \A m \in Offsets : "dropped" \notin settled[m]
=============================================================================
