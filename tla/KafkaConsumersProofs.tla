------------------------- MODULE KafkaConsumersProofs -------------------------
(***************************************************************************)
(* Proofs about KafkaConsumers for any number of processes, records,       *)
(* retries, moves and crashes: nothing is skipped, records are begun one   *)
(* after another, and one comes again only for a reason.                   *)
(***************************************************************************)
EXTENDS KafkaConsumers, TLAPS

Fits == /\ NULL \notin Procs
        /\ MaxRetries \in Nat
        /\ Offsets \subseteq Nat \ {0}

Busy == {"call", "wait", "give up"}
Members == {"poll", "call", "wait", "give up", "commit"}
Places == {"off", "gone", "start", "sleep", "poll", "call", "wait", "give up", "commit"}

Loop == [at : Places, pos : Nat, hand : Nat, attempt : Nat]

Kinds == /\ proc \in [Procs -> Loop]
         /\ owner \in Procs \cup {NULL}
         /\ committed \in Nat /\ moves \in Nat /\ crashes \in Nat
         /\ tasks \in [Procs -> 0..1]
         /\ settled \in [Offsets -> SUBSET {"handled", "dlt", "dropped"}]
         /\ deliveries \in [Offsets -> Nat]

(* A process without a loop does nothing.                                  *)
Loops == \A p \in Procs : tasks[p] = 0 => proc[p].at \in {"off", "gone"}

(* What is at work on a record, and how often it may still be tried.       *)
Hands == \A p \in Procs : /\ proc[p].at \in Busy => proc[p].hand \in Offsets
                          /\ proc[p].at = "wait" => proc[p].attempt <= MaxRetries
                          /\ proc[p].attempt <= MaxRetries + 1

(* All that a process has read past has come to its end, but for the one   *)
(* it has in hand.                                                         *)
Behind == \A p \in Procs, m \in Offsets :
  m < proc[p].pos => settled[m] # {} \/ (m = proc[p].hand /\ proc[p].at \in Busy)

(* Each delivery but the owner's latest was paid for by a move or a crash. *)
Ahead(m) == owner \in Procs /\ proc[owner].at \in Members /\ m < proc[owner].pos
Paid == \A m \in Offsets : deliveries[m] <= moves + crashes + (IF Ahead(m) THEN 1 ELSE 0)

IInv == Kinds /\ Loops /\ Hands /\ Behind /\ Paid /\ NothingSkipped /\ OneAfterAnother

LEMMA InitInv == ASSUME Fits PROVE Init => IInv
<1> SUFFICES ASSUME Init PROVE IInv
  OBVIOUS
<1>1. Off \in Loop
  BY DEF Off, Loop, Places
<1>2. Kinds
  BY <1>1 DEF Fits, Init, Kinds
<1>3. \A p \in Procs : proc[p].at = "off" /\ proc[p].pos = 0 /\ proc[p].attempt = 0
  BY DEF Init, Off
<1>4. Loops
  BY <1>3 DEF Loops
<1>5. Hands
  <2>1. 0 <= MaxRetries + 1
    BY DEF Fits
  <2> QED BY <1>3, <2>1 DEF Hands, Busy
<1>6. Behind
  BY <1>3 DEF Fits, Behind
<1>7. Paid
  BY DEF Fits, Init, Paid, Ahead
<1>8. NothingSkipped /\ OneAfterAnother
  BY DEF Fits, Init, NothingSkipped, OneAfterAnother
<1> QED BY <1>2, <1>4, <1>5, <1>6, <1>7, <1>8 DEF IInv

LEMMA Types ==
  ASSUME Kinds
  PROVE  \A p \in Procs : /\ proc[p].at \in Places /\ proc[p].pos \in Nat
                          /\ proc[p].hand \in Nat /\ proc[p].attempt \in Nat
BY DEF Kinds, Loop

(* A loop goes to s.                                                       *)
LEMMA Goes ==
  ASSUME Kinds, NEW p \in Procs, NEW s \in Places, Go(p, s)
  PROVE  /\ proc' \in [Procs -> Loop]
         /\ proc'[p].at = s
         /\ \A q \in Procs : /\ proc'[q].pos = proc[q].pos /\ proc'[q].hand = proc[q].hand
                             /\ proc'[q].attempt = proc[q].attempt
                             /\ q # p => proc'[q].at = proc[q].at
BY DEF Kinds, Go, Loop

LEMMA Becomes ==
  ASSUME Kinds, NEW p \in Procs, NEW r \in Loop, proc' = [proc EXCEPT ![p] = r]
  PROVE  /\ proc' \in [Procs -> Loop]
         /\ proc'[p] = r
         /\ \A q \in Procs : q # p => proc'[q] = proc[q]
BY DEF Kinds

LEMMA Stutter == ASSUME IInv, UNCHANGED vars PROVE IInv'
BY DEF vars, IInv, Kinds, Loops, Hands, Behind, Paid, Ahead, NothingSkipped, OneAfterAnother

-----------------------------------------------------------------------------
(* Steps of a loop that change nothing but where it is.                    *)
LEMMA GoKeeps ==
  ASSUME IInv, NEW p \in Procs, NEW s \in Places, Go(p, s), tasks[p] # 0,
         UNCHANGED << Group, tasks, History >>,
         s = "wait" => proc[p].attempt <= MaxRetries,
         s \in Busy <=> proc[p].at \in Busy,
         owner = p => (s \in Members <=> proc[p].at \in Members)
  PROVE  IInv'
<1>1. Kinds /\ Kinds'
  BY Goes DEF IInv, Kinds, Group, History
<1>2. Loops' /\ Hands'
  BY <1>1, Goes DEF IInv, Loops, Hands, Group, History
<1>3. Behind'
  BY <1>1, Goes DEF IInv, Behind, History
<1>4. \A m \in Offsets : Ahead(m)' <=> Ahead(m)
  BY <1>1, Goes DEF Ahead, Group
<1>5. Paid'
  BY <1>4 DEF IInv, Paid, Group, History
<1>6. NothingSkipped' /\ OneAfterAnother'
  BY DEF IInv, NothingSkipped, OneAfterAnother, Group, History
<1> QED BY <1>1, <1>2, <1>3, <1>5, <1>6 DEF IInv

LEMMA LoopKeeps ==
  ASSUME Fits, IInv, NEW p \in Procs,
         (\E fine \in BOOLEAN : Start(p, fine)) \/ Permanent(p) \/ Fails(p) \/ Rest(p)
  PROVE  IInv'
<1>1. tasks[p] # 0
  BY DEF IInv, Loops, Start, Permanent, Fails, Rest
<1>3. CASE Permanent(p)
  <2>1. Go(p, "give up") /\ proc[p].at = "call" /\ UNCHANGED << Group, tasks, History >>
    BY <1>3 DEF Permanent
  <2> QED BY <1>1, <2>1, GoKeeps DEF Places, Busy, Members
<1>4. CASE Rest(p)
  <2>1. Go(p, "start") /\ proc[p].at = "sleep" /\ UNCHANGED << Group, tasks, History >>
    BY <1>4 DEF Rest
  <2> QED BY <1>1, <2>1, GoKeeps DEF Places, Busy, Members
<1>5. CASE \E fine \in BOOLEAN : Start(p, fine)
  <2>1. PICK t \in {"poll", "sleep"} : Go(p, t)
    BY <1>5 DEF Start
  <2>2. proc[p].at = "start" /\ owner # p /\ UNCHANGED << Group, tasks, History >>
    BY <1>5 DEF Start
  <2> QED BY <1>1, <2>1, <2>2, GoKeeps DEF Places, Busy
<1>6. CASE Fails(p)
  <2>1. proc[p].attempt \in Nat /\ proc[p].at = "call" /\ UNCHANGED << Group, tasks, History >>
    BY <1>6, Types DEF Fails, IInv
  <2>2. CASE proc[p].attempt > MaxRetries
    BY <1>1, <1>6, <2>1, <2>2, GoKeeps DEF Fails, Places, Busy, Members
  <2>3. CASE proc[p].attempt <= MaxRetries
    <3>1. Go(p, "wait")
      <4>1. ~ (proc[p].attempt > MaxRetries)
        BY <2>1, <2>3 DEF Fits
      <4> QED BY <1>6, <4>1 DEF Fails
    <3> QED BY <1>1, <2>1, <2>3, <3>1, GoKeeps DEF Places, Busy, Members
  <2> QED BY <2>1, <2>2, <2>3 DEF Fits
<1> QED BY <1>3, <1>4, <1>5, <1>6

LEMMA SetupKeeps ==
  ASSUME IInv, NEW p \in Procs, Setup(p)
  PROVE  IInv'
<1>1. CASE tasks[p] > 0
  <2>1. UNCHANGED vars
    BY <1>1 DEF Setup, vars, Group, History
  <2> QED BY <2>1, Stutter
<1>2. CASE ~ (tasks[p] > 0)
  <2>1. Go(p, "start") /\ tasks' = [tasks EXCEPT ![p] = 1] /\ UNCHANGED << Group, History >>
    BY <1>2 DEF Setup
  <2>2. proc[p].at = "off"
    BY <1>2 DEF IInv, Kinds, Loops, Setup
  <2>3. "start" \in Places /\ Kinds
    BY DEF Places, IInv
  <2>4. Kinds'
    BY <2>1, <2>3, Goes DEF Kinds, Group, History
  <2>5. Loops'
    BY <2>1, <2>3, Goes DEF IInv, Loops, Kinds
  <2>6. Hands'
    BY <2>1, <2>3, Goes DEF IInv, Hands, Busy
  <2>7. Behind'
    BY <2>1, <2>2, <2>3, Goes DEF IInv, Behind, Busy, History
  <2>8. \A m \in Offsets : Ahead(m)' <=> Ahead(m)
    BY <2>1, <2>2, <2>3, Goes DEF Ahead, Members, Group
  <2>9. Paid' /\ NothingSkipped' /\ OneAfterAnother'
    BY <2>1, <2>8 DEF IInv, Paid, NothingSkipped, OneAfterAnother, Group, History
  <2> QED BY <2>4, <2>5, <2>6, <2>7, <2>9 DEF IInv
<1> QED BY <1>1, <1>2

LEMMA AgainKeeps ==
  ASSUME Fits, IInv, NEW p \in Procs, Again(p)
  PROVE  IInv'
<1>1. PICK r : r = [proc[p] EXCEPT !.at = "call", !.attempt = @ + 1]
  OBVIOUS
<1>2. /\ proc' = [proc EXCEPT ![p] = r] /\ r \in Loop
      /\ r.at = "call" /\ r.attempt = proc[p].attempt + 1
      /\ r.pos = proc[p].pos /\ r.hand = proc[p].hand
  <2>1. proc[p] \in Loop /\ "call" \in Places
    BY DEF IInv, Kinds, Places
  <2>2. proc' = [proc EXCEPT ![p] = r]
    BY <1>1 DEF IInv, Kinds, Again
  <2>3. r = [at |-> "call", pos |-> proc[p].pos, hand |-> proc[p].hand,
             attempt |-> proc[p].attempt + 1]
    BY <1>1, <2>1 DEF Loop
  <2>4. proc[p].pos \in Nat /\ proc[p].hand \in Nat /\ proc[p].attempt + 1 \in Nat
    BY <2>1 DEF Loop
  <2>5. r \in Loop
    BY <2>1, <2>3, <2>4 DEF Loop
  <2> QED BY <2>2, <2>3, <2>5
<1>3. /\ proc[p].at = "wait" /\ proc[p].attempt \in Nat /\ tasks[p] # 0
      /\ UNCHANGED << Group, tasks, History >>
  BY Types DEF IInv, Loops, Again
<1>4. Kinds /\ Kinds'
  BY <1>2, <1>3, Becomes DEF IInv, Kinds, Group, History
<1>5. proc'[p] = r /\ \A q \in Procs : q # p => proc'[q] = proc[q]
  BY <1>2, <1>4, Becomes
<1>6. Loops'
  BY <1>3, <1>5 DEF IInv, Loops
<1>7. Hands'
  <2>1. proc[p].attempt <= MaxRetries /\ proc[p].hand \in Offsets
    BY <1>3 DEF IInv, Hands, Busy
  <2>2. r.attempt <= MaxRetries + 1
    BY <1>2, <1>3, <2>1 DEF Fits
  <2> QED BY <1>2, <1>5, <2>1, <2>2 DEF IInv, Hands, Busy
<1>8. Behind'
  BY <1>2, <1>3, <1>5 DEF IInv, Behind, Busy, History
<1>9. \A m \in Offsets : Ahead(m)' <=> Ahead(m)
  BY <1>2, <1>3, <1>5 DEF Ahead, Members, Group
<1>10. Paid' /\ NothingSkipped' /\ OneAfterAnother'
  BY <1>3, <1>9 DEF IInv, Paid, NothingSkipped, OneAfterAnother, Group, History
<1> QED BY <1>4, <1>6, <1>7, <1>8, <1>10 DEF IInv

-----------------------------------------------------------------------------
(* The group: what is below the committed offset has come to its end, so   *)
(* the next owner begins behind it; every move is counted.                 *)
LEMMA AssignKeeps ==
  ASSUME Fits, IInv, NEW p \in Procs, Assign(p)
  PROVE  IInv'
<1> DEFINE r == [proc[p] EXCEPT !.pos = committed]
<1>1. /\ proc' = [proc EXCEPT ![p] = r] /\ r \in Loop
      /\ r.pos = committed /\ r.at = proc[p].at
      /\ r.hand = proc[p].hand /\ r.attempt = proc[p].attempt
  BY DEF IInv, Kinds, Loop, Assign
<1> HIDE DEF r
<1>2. owner = NULL /\ owner' = p /\ UNCHANGED << committed, moves, crashes, tasks, History >>
  BY DEF Assign
<1>3. Kinds /\ Kinds'
  BY <1>1, <1>2, Becomes DEF IInv, Kinds, History
<1>4. proc'[p] = r /\ \A q \in Procs : q # p => proc'[q] = proc[q]
  BY <1>1, <1>3, Becomes
<1>5. Loops' /\ Hands'
  BY <1>1, <1>2, <1>4 DEF IInv, Loops, Hands
<1>6. Behind'
  BY <1>1, <1>2, <1>4 DEF IInv, Behind, NothingSkipped, History
<1>7. \A m \in Offsets : deliveries[m] <= moves + crashes
  BY <1>2 DEF Fits, IInv, Paid, Ahead, Kinds
<1>8. Paid'
  BY <1>2, <1>7 DEF Paid, IInv, Kinds, History
<1>9. NothingSkipped' /\ OneAfterAnother'
  BY <1>2 DEF IInv, NothingSkipped, OneAfterAnother, History
<1> QED BY <1>3, <1>5, <1>6, <1>8, <1>9 DEF IInv

LEMMA RevokeKeeps ==
  ASSUME Fits, IInv, Revoke \/ Expire
  PROVE  IInv'
<1>1. /\ owner' = NULL /\ crashes' = crashes /\ moves' \in {moves, moves + 1}
      /\ UNCHANGED << proc, committed, tasks, History >>
  BY DEF Revoke, Expire
<1>2. Kinds /\ Kinds'
  BY <1>1 DEF IInv, Kinds, History
<1>3. Loops' /\ Hands' /\ Behind' /\ NothingSkipped' /\ OneAfterAnother'
  BY <1>1 DEF IInv, Loops, Hands, Behind, NothingSkipped, OneAfterAnother, History
<1>4. \A m \in Offsets : ~ Ahead(m)'
  BY <1>1 DEF Fits, Ahead
<1>5. Paid'
  <2>1. CASE Revoke
    BY <1>1, <1>2, <1>4, <2>1 DEF IInv, Revoke, Paid, Kinds, History
  <2>2. CASE Expire
    <3>1. \A m \in Offsets : ~ Ahead(m)
      BY <2>2 DEF Expire, Ahead, Member, Members
    <3> QED BY <1>1, <1>2, <1>4, <2>2, <3>1 DEF IInv, Expire, Paid, Kinds, History
  <2> QED BY <2>1, <2>2
<1> QED BY <1>2, <1>3, <1>5 DEF IInv

-----------------------------------------------------------------------------
(* A record is read, comes to an end, and is committed.                    *)
LEMMA PollKeeps ==
  ASSUME Fits, IInv, NEW p \in Procs, Poll(p)
  PROVE  IInv'
<1>0. PICK n \in Offsets : n = proc[p].pos
  BY DEF Poll
<1>1. /\ proc[p].at = "poll" /\ owner = p /\ n \in Nat /\ MaxRetries \in Nat
      /\ deliveries' = [deliveries EXCEPT ![n] = @ + 1]
      /\ UNCHANGED << Group, tasks, settled >>
  BY <1>0 DEF Poll, Fits
<1>2. \A m \in Offsets : m < n => settled[m] # {}
  BY <1>0, <1>1 DEF IInv, Behind, Busy
<1>3. PICK r : r = [proc[p] EXCEPT !.at = "call", !.hand = proc[p].pos, !.pos = @ + 1, !.attempt = 1]
  OBVIOUS
<1>4. /\ proc' = [proc EXCEPT ![p] = r] /\ r \in Loop
      /\ r.at = "call" /\ r.attempt = 1 /\ r.pos = n + 1 /\ r.hand = n
  <2>1. proc[p] \in Loop /\ "call" \in Places
    BY DEF IInv, Kinds, Places
  <2>2. proc' = [proc EXCEPT ![p] = r]
    BY <1>3 DEF Poll, IInv, Kinds
  <2>3. r = [at |-> "call", pos |-> n + 1, hand |-> n, attempt |-> 1]
    BY <1>0, <1>3, <2>1 DEF Loop
  <2>4. r \in Loop
    BY <1>1, <2>1, <2>3 DEF Loop
  <2> QED BY <2>2, <2>3, <2>4
<1>5. Kinds /\ Kinds'
  BY <1>1, <1>4, Becomes DEF IInv, Kinds, Group
<1>6. proc'[p] = r /\ \A q \in Procs : q # p => proc'[q] = proc[q]
  BY <1>4, <1>5, Becomes
<1>7. Loops'
  BY <1>1, <1>6 DEF IInv, Loops
<1>8. Hands'
  <2>1. r.attempt <= MaxRetries + 1
    BY <1>1, <1>4
  <2> QED BY <1>4, <1>6, <2>1 DEF IInv, Hands, Busy
<1>9. Behind'
  <2>1. \A m \in Offsets : m < n + 1 => m < n \/ m = n
    BY <1>1 DEF Fits
  <2>2. ASSUME NEW m \in Offsets, m < proc'[p].pos
        PROVE  settled'[m] # {} \/ (m = proc'[p].hand /\ proc'[p].at \in Busy)
    BY <1>1, <1>2, <1>4, <1>6, <2>1, <2>2 DEF Busy
  <2>3. ASSUME NEW q \in Procs \ {p}, NEW m \in Offsets, m < proc'[q].pos
        PROVE  settled'[m] # {} \/ (m = proc'[q].hand /\ proc'[q].at \in Busy)
    BY <1>1, <1>6, <2>3 DEF IInv, Behind
  <2> QED BY <2>2, <2>3 DEF Behind
<1>10. NothingSkipped' /\ OneAfterAnother'
  BY <1>1, <1>2, <1>5 DEF IInv, NothingSkipped, OneAfterAnother, Group, Kinds
<1>11. Paid'
  <2>1. ~ Ahead(n)
    BY <1>0, <1>1 DEF Ahead
  <2>2. Ahead(n)'
    <3>1. owner' = p /\ proc'[p].at = "call" /\ proc'[p].pos = n + 1
      BY <1>1, <1>4, <1>6 DEF Group
    <3>2. n < n + 1
      BY <1>1
    <3> QED BY <3>1, <3>2 DEF Ahead, Members
  <2>3. \A m \in Offsets : m < n => m < n + 1
    BY <1>1 DEF Fits
  <2>4. \A m \in Offsets : Ahead(m) => Ahead(m)'
    BY <1>0, <1>1, <1>4, <1>6, <2>3 DEF Ahead, Members, Group
  <2>5. \A m \in Offsets : deliveries[m] \in Nat /\
                            deliveries'[m] = IF m = n THEN deliveries[m] + 1 ELSE deliveries[m]
    BY <1>1, <1>5 DEF Kinds
  <2>6. moves \in Nat /\ crashes \in Nat /\ moves' = moves /\ crashes' = crashes
    BY <1>1, <1>5 DEF Kinds, Group
  <2>7. \A m \in Offsets : deliveries[m] <= moves + crashes + (IF Ahead(m) THEN 1 ELSE 0)
    BY DEF IInv, Paid
  <2>8. ASSUME NEW m \in Offsets
        PROVE  deliveries'[m] <= moves' + crashes' + (IF Ahead(m)' THEN 1 ELSE 0)
    BY <2>1, <2>2, <2>4, <2>5, <2>6, <2>7
  <2> QED BY <2>8 DEF Paid
<1> QED BY <1>5, <1>7, <1>8, <1>9, <1>10, <1>11 DEF IInv

LEMMA EndKeeps ==
  ASSUME Fits, IInv, NEW p \in Procs,
         Handled(p) \/ \E published \in BOOLEAN : MoveToDlt(p, published)
  PROVE  IInv'
<1>1. /\ proc[p].at \in {"call", "give up"} /\ Go(p, "commit")
      /\ UNCHANGED << Group, tasks, deliveries >>
  BY DEF Handled, MoveToDlt
<1>2. proc[p].hand \in Offsets
  BY <1>1 DEF IInv, Hands, Busy
<1>3. PICK how \in {"handled", "dlt", "dropped"} :
        settled' = [settled EXCEPT ![proc[p].hand] = @ \cup {how}]
  BY DEF Handled, MoveToDlt, Settle
<1>4. "commit" \in Places /\ Kinds
  BY DEF Places, IInv
<1>5. Kinds'
  BY <1>1, <1>2, <1>3, <1>4, Goes DEF Kinds, Group
<1>6. settled'[proc[p].hand] # {} /\ \A m \in Offsets : settled[m] # {} => settled'[m] # {}
  BY <1>2, <1>3, <1>4 DEF Kinds
<1>7. Loops'
  BY <1>1, <1>4, Goes DEF IInv, Loops
<1>8. Hands'
  BY <1>1, <1>4, Goes DEF IInv, Hands, Busy
<1>9. Behind'
  <2>1. ASSUME NEW q \in Procs, NEW m \in Offsets, m < proc'[q].pos
        PROVE  settled'[m] # {} \/ (m = proc'[q].hand /\ proc'[q].at \in Busy)
    <3>1. m < proc[q].pos /\ proc'[q].hand = proc[q].hand
      BY <1>1, <1>4, <2>1, Goes
    <3>2. settled[m] # {} \/ (m = proc[q].hand /\ proc[q].at \in Busy)
      BY <3>1 DEF IInv, Behind
    <3>3. CASE q = p
      BY <1>6, <3>2, <3>3
    <3>4. CASE q # p
      BY <1>1, <1>4, <1>6, <3>1, <3>2, <3>4, Goes
    <3> QED BY <3>3, <3>4
  <2> QED BY <2>1 DEF Behind
<1>10. NothingSkipped' /\ OneAfterAnother'
  BY <1>1, <1>6 DEF IInv, NothingSkipped, OneAfterAnother, Group
<1>11. \A m \in Offsets : Ahead(m)' <=> Ahead(m)
  BY <1>1, <1>4, Goes DEF Ahead, Members, Group
<1>12. Paid'
  BY <1>1, <1>11 DEF IInv, Paid, Group
<1> QED BY <1>5, <1>7, <1>8, <1>9, <1>10, <1>12 DEF IInv

LEMMA CommitKeeps ==
  ASSUME Fits, IInv, NEW p \in Procs, Commit(p)
  PROVE  IInv'
<1>1. /\ proc[p].at = "commit" /\ Go(p, "poll") /\ committed' \in {committed, proc[p].pos}
      /\ UNCHANGED << owner, moves, crashes, tasks, History >>
  BY DEF Commit
<1>2. "poll" \in Places /\ Kinds
  BY DEF Places, IInv
<1>3. Kinds'
  BY <1>1, <1>2, Goes, Types DEF Kinds, History
<1>4. Loops'
  BY <1>1, <1>2, Goes DEF IInv, Loops
<1>5. Hands'
  BY <1>1, <1>2, Goes DEF IInv, Hands, Busy
<1>6. Behind'
  BY <1>1, <1>2, Goes DEF IInv, Behind, Busy, History
<1>7. \A m \in Offsets : m < proc[p].pos => settled[m] # {}
  BY <1>1 DEF IInv, Behind, Busy
<1>8. NothingSkipped' /\ OneAfterAnother'
  BY <1>1, <1>7 DEF IInv, NothingSkipped, OneAfterAnother, History
<1>9. \A m \in Offsets : Ahead(m)' <=> Ahead(m)
  BY <1>1, <1>2, Goes DEF Ahead, Members
<1>10. Paid'
  BY <1>1, <1>9 DEF IInv, Paid, History
<1> QED BY <1>3, <1>4, <1>5, <1>6, <1>8, <1>10 DEF IInv

-----------------------------------------------------------------------------
(* When a consumer is lost or a process ends, the next delivery of what it *)
(* had is paid for.                                                        *)
LEMMA PaidAhead ==
  ASSUME IInv, moves' \in Nat, crashes' \in Nat, moves' + crashes' = moves + crashes + 1,
         UNCHANGED History
  PROVE  Paid'
<1>1. \A m \in Offsets : deliveries[m] \in Nat /\ deliveries[m] <= moves + crashes + 1
  BY DEF IInv, Kinds, Paid
<1>2. \A m \in Offsets : deliveries'[m] \in Nat /\ deliveries'[m] <= moves' + crashes'
  BY <1>1 DEF History
<1> QED BY <1>2 DEF Paid

LEMMA LostKeeps ==
  ASSUME IInv, NEW p \in Procs, Lost(p)
  PROVE  IInv'
<1>1. /\ proc[p].at \in {"poll", "commit"} /\ Go(p, "sleep")
      /\ moves' = moves + 1 /\ owner' \in {owner, NULL}
      /\ UNCHANGED << committed, crashes, tasks, History >>
  BY DEF Lost, Leave
<1>2. "sleep" \in Places /\ Kinds
  BY DEF Places, IInv
<1>3. Kinds'
  BY <1>1, <1>2, Goes DEF Kinds, History
<1>4. Loops'
  BY <1>1, <1>2, Goes DEF IInv, Loops
<1>5. Hands'
  BY <1>1, <1>2, Goes DEF IInv, Hands, Busy
<1>6. Behind'
  BY <1>1, <1>2, Goes DEF IInv, Behind, Busy, History
<1>7. NothingSkipped' /\ OneAfterAnother'
  BY <1>1 DEF IInv, NothingSkipped, OneAfterAnother, History
<1>8. Paid'
  BY <1>1, <1>2, PaidAhead DEF Kinds
<1> QED BY <1>3, <1>4, <1>5, <1>6, <1>7, <1>8 DEF IInv

LEMMA EndsAs ==
  ASSUME Fits, IInv, NEW p \in Procs, NEW r \in Loop, proc' = [proc EXCEPT ![p] = r],
         r.at \in {"off", "gone"}, r.pos = 0, r.attempt = 0,
         tasks' = [tasks EXCEPT ![p] = 0], crashes' = crashes + 1,
         owner' \in {owner, NULL}, UNCHANGED << committed, moves, History >>
  PROVE  IInv'
<1>1. Kinds /\ Kinds'
  BY Becomes DEF IInv, Kinds, History
<1>2. proc'[p] = r /\ \A q \in Procs : q # p => proc'[q] = proc[q]
  BY <1>1, Becomes
<1>3. Loops'
  BY <1>1, <1>2 DEF IInv, Loops, Kinds
<1>4. Hands'
  <2>1. 0 <= MaxRetries + 1
    BY DEF Fits
  <2> QED BY <1>2, <2>1 DEF IInv, Hands, Busy
<1>5. Behind'
  BY <1>2 DEF Fits, IInv, Behind, History
<1>6. NothingSkipped' /\ OneAfterAnother'
  BY DEF IInv, NothingSkipped, OneAfterAnother, History
<1>7. Paid'
  BY <1>1, PaidAhead DEF Kinds
<1> QED BY <1>1, <1>3, <1>4, <1>5, <1>6, <1>7 DEF IInv

LEMMA EndsKeep ==
  ASSUME Fits, IInv, NEW p \in Procs, Shutdown(p) \/ Crash(p)
  PROVE  IInv'
<1>1. /\ tasks' = [tasks EXCEPT ![p] = 0] /\ crashes' = crashes + 1
      /\ owner' \in {owner, NULL} /\ UNCHANGED << committed, moves, History >>
  BY DEF Shutdown, Crash, Leave
<1>2. CASE Shutdown(p)
  <2>1. [Off EXCEPT !.at = "gone"] = [at |-> "gone", pos |-> 0, hand |-> 0, attempt |-> 0]
    BY DEF Off
  <2>2. [at |-> "gone", pos |-> 0, hand |-> 0, attempt |-> 0] \in Loop
    BY DEF Loop, Places
  <2>3. proc' = [proc EXCEPT ![p] = [at |-> "gone", pos |-> 0, hand |-> 0, attempt |-> 0]]
    BY <1>2, <2>1 DEF Shutdown
  <2> QED BY <1>1, <2>2, <2>3, EndsAs
<1>3. CASE Crash(p)
  <2>1. Off \in Loop /\ Off.at = "off" /\ Off.pos = 0 /\ Off.attempt = 0
    BY DEF Off, Loop, Places
  <2>2. proc' = [proc EXCEPT ![p] = Off]
    BY <1>3 DEF Crash
  <2> QED BY <1>1, <2>1, <2>2, EndsAs
<1> QED BY <1>2, <1>3

LEMMA NextKeeps == ASSUME Fits, IInv, [Next]_vars PROVE IInv'
<1>1. CASE UNCHANGED vars
  BY <1>1, Stutter
<1>2. ASSUME NEW p \in Procs, Run(p) PROVE IInv'
  BY <1>2, LoopKeeps, SetupKeeps, AgainKeeps, AssignKeeps, PollKeeps, EndKeeps, CommitKeeps
     DEF Run
<1> QED BY <1>1, <1>2, LoopKeeps, LostKeeps, EndsKeep, RevokeKeeps DEF Next

LEMMA InvIsSafe == IInv => KafkaSafe
<1> SUFFICES ASSUME IInv PROVE KafkaSafe
  OBVIOUS
<1>1. \A m \in Offsets : deliveries[m] <= 1 + moves + crashes
  BY DEF IInv, Kinds, Paid
<1>2. \A p \in Procs : proc[p].attempt <= MaxRetries + 1 /\ tasks[p] <= 1
  BY DEF IInv, Kinds, Hands
<1> QED BY <1>1, <1>2 DEF IInv, KafkaSafe, AgainForAReason

-----------------------------------------------------------------------------
(* kafka/consumers.py: whoever dies or loses the partition, an offset is   *)
(* committed only when everything before it has come to an end, records    *)
(* are begun in order, and one is delivered again only after a move or the *)
(* end of a process, each time with no more attempts than declared.        *)
THEOREM PartitionIsSafe ==
  ASSUME NULL \notin Procs, MaxRetries \in Nat, Body \in Seq({"good", "invalid", "junk"})
  PROVE  Spec => []KafkaSafe
<1>1. Fits
  BY DEF Fits, Offsets
<1> QED BY <1>1, InitInv, NextKeeps, InvIsSafe, PTL DEF Spec
=============================================================================
