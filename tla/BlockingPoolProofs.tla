-------------------------- MODULE BlockingPoolProofs --------------------------
(***************************************************************************)
(* Proofs about BlockingPool for any number of threads and calls: the idle *)
(* counter is right, and calls are begun in the order in which they came.  *)
(***************************************************************************)
EXTENDS BlockingPool, FiniteSetTheorems, TLAPS

Items == 1..Calls
Fits == Size \in Nat /\ Calls \in Nat /\ NONE \notin Items

Places == {"start", "get", "took", "run", "leave", "gone"}
Thread == [at : Places, call : 0..Calls]
Futures == {"new", "queued", "running", "cancelled", "done"}

Kinds == /\ queue \in Seq(Items \cup {NONE})
         /\ threads \in Seq(Thread) /\ Len(threads) <= Size
         /\ future \in [Items -> Futures]
         /\ idle \in Int

(* The threads that the counter means.                                     *)
Inside == {i \in DOMAIN threads : threads[i].at \in {"get", "took", "leave"}}
Counts == IsFiniteSet(Inside) /\ idle = Cardinality(Inside)

(* Where a call may be: in the queue, in the hands of a thread, past it.   *)
Waits(c) == \E k \in 1..Len(queue) : queue[k] = c
Took(c) == \E i \in 1..Len(threads) : threads[i].at = "took" /\ threads[i].call = c
Passed(c) == future[c] \in {"running", "done"} \/ Took(c)

(* Calls are submitted in order, the queue is ordered, and all that passed *)
(* it came before all that wait.                                           *)
Submitted == /\ \A c, d \in Items : c < d /\ future[c] = "new" => future[d] = "new"
             /\ \A c \in Items : Waits(c) \/ Passed(c) => future[c] # "new"
Ordered == \A k, l \in 1..Len(queue) :
             k < l /\ queue[k] \in Items /\ queue[l] \in Items => queue[k] < queue[l]
Before == \A c, d \in Items : Waits(c) /\ Passed(d) => d < c
Kept == \A c \in Items : future[c] = "queued" => Waits(c) \/ Took(c)
Runs == \A i \in 1..Len(threads) :
          /\ threads[i].at = "run" => threads[i].call \in Items
                                      /\ future[threads[i].call] \in {"running", "done"}
          /\ threads[i].at = "took" => threads[i].call \in Items

Order == Submitted /\ Ordered /\ Before /\ Kept /\ Runs
IInv == Kinds /\ Counts /\ Order

LEMMA InitInv == ASSUME Fits PROVE Init => IInv
<1> SUFFICES ASSUME Init PROVE IInv
  OBVIOUS
<1>1. queue = << >> /\ threads = << >> /\ Len(queue) = 0 /\ Len(threads) = 0
  BY DEF Init
<1>2. \A c \in Items : future[c] = "new"
  BY DEF Init, Items
<1>3. Kinds
  BY <1>1 DEF Init, Fits, Kinds, Futures, Items
<1>4. Inside = {}
  BY <1>1 DEF Inside
<1>5. Counts
  BY <1>4, FS_EmptySet DEF Init, Counts
<1>6. \A c \in Items : ~ Waits(c) /\ ~ Took(c) /\ ~ Passed(c)
  BY <1>1, <1>2 DEF Waits, Took, Passed
<1>7. Order
  BY <1>1, <1>2, <1>6 DEF Order, Submitted, Ordered, Before, Kept, Runs
<1> QED BY <1>3, <1>5, <1>7 DEF IInv

LEMMA Stutter == ASSUME IInv, UNCHANGED vars PROVE IInv'
BY DEF vars, IInv, Kinds, Counts, Inside, Order, Submitted, Ordered, Before, Kept, Runs,
       Waits, Took, Passed

-----------------------------------------------------------------------------
(* A thread that exists goes somewhere else.                               *)
LEMMA Goes ==
  ASSUME Kinds, NEW i, NEW s \in Places, NEW t \in Places, NEW c \in 0..Calls,
         At(i, s), Go(i, t, c)
  PROVE  /\ i \in 1..Len(threads) /\ threads[i].at = s
         /\ threads' \in Seq(Thread) /\ Len(threads') = Len(threads)
         /\ DOMAIN threads' = DOMAIN threads /\ DOMAIN threads = 1..Len(threads)
         /\ threads'[i].at = t /\ threads'[i].call = c
         /\ \A j \in 1..Len(threads) : j # i => threads'[j] = threads[j]
<1>1. i \in 1..Len(threads) /\ threads[i].at = s /\ DOMAIN threads = 1..Len(threads)
  BY DEF Kinds, At
<1>2. PICK r : r = [at |-> t, call |-> c]
  OBVIOUS
<1>3. r \in Thread /\ r.at = t /\ r.call = c
  BY <1>2 DEF Thread
<1>4. threads' = [threads EXCEPT ![i] = r]
  BY <1>2 DEF Go
<1> QED BY <1>1, <1>3, <1>4 DEF Kinds

(* A thread that moves among the counted, or among the others, leaves the  *)
(* counter right, and so does one that crosses over with it.               *)
LEMMA CountsKeep ==
  ASSUME Kinds, Counts, NEW i, NEW s \in Places, NEW t \in Places, NEW c \in 0..Calls,
         At(i, s), Go(i, t, c),
         LET in == {"get", "took", "leave"}
         IN  idle' = IF s \in in /\ t \notin in THEN idle - 1
                     ELSE IF s \notin in /\ t \in in THEN idle + 1 ELSE idle
  PROVE  Counts' /\ idle' \in Int
<1> DEFINE in == {"get", "took", "leave"}
<1>1. /\ i \in DOMAIN threads /\ threads[i].at = s
      /\ DOMAIN threads' = DOMAIN threads /\ threads'[i].at = t
      /\ \A j \in DOMAIN threads : j # i => threads'[j] = threads[j]
  BY Goes
<1>2. i \in Inside <=> s \in in
  BY <1>1 DEF Inside
<1>3. Cardinality(Inside) \in Nat /\ IsFiniteSet(Inside) /\ idle = Cardinality(Inside)
  BY FS_CardinalityType DEF Counts
<1>4. CASE t \in in
  <2>1. Inside' = Inside \cup {i}
    BY <1>1, <1>4 DEF Inside
  <2> QED BY <1>2, <1>3, <1>4, <2>1, FS_AddElement DEF Counts
<1>5. CASE t \notin in
  <2>1. Inside' = Inside \ {i}
    BY <1>1, <1>5 DEF Inside
  <2> QED BY <1>2, <1>3, <1>5, <2>1, FS_RemoveElement DEF Counts
<1> QED BY <1>4, <1>5

-----------------------------------------------------------------------------
(* The event loop.                                                         *)
LEMMA SubmitKeeps ==
  ASSUME Fits, IInv, NEW c \in Items, Submit(c)
  PROVE  IInv'
<1>1. /\ future[c] = "new" /\ \A d \in Items : d < c => future[d] # "new"
      /\ future' = [future EXCEPT ![c] = "queued"] /\ queue' = Append(queue, c)
      /\ UNCHANGED << idle, closed, threads >>
  BY DEF Submit, Items
<1>2. Kinds /\ c \in Int /\ \A d \in Items : d \in Int
  BY DEF IInv, Items
<1>3. Kinds' /\ Counts'
  BY <1>1, <1>2 DEF IInv, Kinds, Counts, Inside, Futures
<1>4. /\ Len(queue) \in Nat /\ Len(queue') = Len(queue) + 1 /\ queue'[Len(queue) + 1] = c
      /\ \A k \in 1..Len(queue) : queue'[k] = queue[k]
  BY <1>1, <1>2 DEF Kinds
<1>5. \A d \in Items : /\ future'[d] = IF d = c THEN "queued" ELSE future[d]
                       /\ Took(d)' <=> Took(d)
                       /\ Waits(d)' <=> Waits(d) \/ d = c
  <2>1. \A d \in Items : future'[d] = IF d = c THEN "queued" ELSE future[d]
    BY <1>1, <1>2 DEF Kinds
  <2>2. \A d \in Items : Took(d)' <=> Took(d)
    BY <1>1 DEF Took
  <2>3. \A d \in Items : Waits(d)' <=> Waits(d) \/ d = c
    BY <1>4 DEF Waits
  <2> QED BY <2>1, <2>2, <2>3
<1>6. \A d \in Items : Passed(d)' <=> Passed(d)
  BY <1>1, <1>5 DEF Passed
<1>7. \A d \in Items : Waits(d) \/ Passed(d) => d < c
  <2>1. \A d \in Items : Waits(d) \/ Passed(d) => future[d] # "new"
    BY DEF IInv, Order, Submitted
  <2>2. \A d \in Items : c < d => future[d] = "new"
    BY <1>1 DEF IInv, Order, Submitted
  <2> QED BY <1>1, <1>2, <2>1, <2>2
<1>8. Submitted'
  <2>1. ASSUME NEW a \in Items, NEW d \in Items, a < d, future'[a] = "new" PROVE future'[d] = "new"
    BY <1>1, <1>2, <1>5, <2>1 DEF IInv, Order, Submitted
  <2>2. ASSUME NEW d \in Items, Waits(d)' \/ Passed(d)' PROVE future'[d] # "new"
    BY <1>5, <1>6, <2>2 DEF IInv, Order, Submitted
  <2> QED BY <2>1, <2>2 DEF Submitted
<1>9. Ordered'
  <2> SUFFICES ASSUME NEW k \in 1..Len(queue'), NEW l \in 1..Len(queue'), k < l,
                      queue'[k] \in Items, queue'[l] \in Items
               PROVE  queue'[k] < queue'[l]
    BY DEF Ordered
  <2>1. k \in 1..Len(queue)
    BY <1>4
  <2>2. CASE l = Len(queue) + 1
    <3>1. Waits(queue[k]) /\ queue[k] \in Items
      BY <1>4, <2>1 DEF Waits
    <3> QED BY <1>4, <1>7, <2>1, <2>2, <3>1
  <2>3. CASE l \in 1..Len(queue)
    BY <1>4, <2>1, <2>3 DEF IInv, Order, Ordered
  <2> QED BY <1>4, <2>2, <2>3
<1>10. Before'
  BY <1>5, <1>6, <1>7 DEF IInv, Order, Before
<1>11. Kept'
  BY <1>5 DEF IInv, Order, Kept
<1>12. Runs'
  BY <1>1, <1>5 DEF IInv, Order, Runs
<1> QED BY <1>3, <1>8, <1>9, <1>10, <1>11, <1>12 DEF IInv, Order

LEMMA CancelKeeps ==
  ASSUME IInv, NEW c \in Items, Cancel(c)
  PROVE  IInv'
<1>1. /\ future[c] = "queued" /\ future' = [future EXCEPT ![c] = "cancelled"]
      /\ UNCHANGED << queue, idle, threads >>
  BY DEF Cancel
<1>2. Kinds' /\ Counts'
  BY <1>1 DEF IInv, Kinds, Counts, Inside, Futures
<1>3. \A d \in Items : /\ future'[d] = IF d = c THEN "cancelled" ELSE future[d]
                       /\ Took(d)' <=> Took(d)
                       /\ Waits(d)' <=> Waits(d)
  BY <1>1 DEF IInv, Kinds, Took, Waits
<1>4. \A d \in Items : Passed(d)' <=> Passed(d)
  BY <1>1, <1>3 DEF Passed
<1>5. Submitted' /\ Before' /\ Kept'
  BY <1>1, <1>3, <1>4 DEF IInv, Order, Submitted, Before, Kept
<1>6. Ordered' /\ Runs'
  BY <1>1, <1>3 DEF IInv, Order, Ordered, Runs
<1> QED BY <1>2, <1>5, <1>6 DEF IInv, Order

LEMMA GrowKeeps ==
  ASSUME Fits, IInv, Grow
  PROVE  IInv'
<1>1. CASE threads' = threads
  <2>1. UNCHANGED << queue, idle, threads, future >>
    BY <1>1 DEF Grow
  <2> QED BY <2>1 DEF IInv, Kinds, Counts, Inside, Order, Submitted, Ordered, Before, Kept, Runs,
                      Waits, Took, Passed
<1>2. CASE threads' # threads
  <2>1. PICK r : r = [at |-> "start", call |-> 0]
    OBVIOUS
  <2>2. r \in Thread /\ r.at = "start"
    BY <2>1 DEF Fits, Thread, Places
  <2>3. threads' = Append(threads, r) /\ Len(threads) < Size /\ UNCHANGED << queue, idle, future >>
    BY <1>2, <2>1 DEF Fits, IInv, Kinds, Grow
  <2>4. Len(threads) \in Nat /\ DOMAIN threads = 1..Len(threads)
    BY DEF IInv, Kinds
  <2>5. /\ threads' \in Seq(Thread) /\ Len(threads') = Len(threads) + 1
        /\ DOMAIN threads' = 1..Len(threads) + 1
        /\ threads'[Len(threads) + 1].at = "start"
        /\ \A j \in 1..Len(threads) : threads'[j] = threads[j]
    BY <2>2, <2>3, <2>4 DEF IInv, Kinds
  <2>6. Kinds'
    BY <2>3, <2>5 DEF Fits, IInv, Kinds
  <2>7. Inside' = Inside
    BY <2>4, <2>5 DEF Inside
  <2>8. Counts'
    BY <2>3, <2>7 DEF IInv, Counts
  <2>9. \A d \in Items : (Took(d)' <=> Took(d)) /\ (Waits(d)' <=> Waits(d))
    BY <2>3, <2>4, <2>5 DEF Took, Waits
  <2>10. \A d \in Items : Passed(d)' <=> Passed(d)
    BY <2>3, <2>9 DEF Passed
  <2>11. Submitted' /\ Ordered' /\ Before' /\ Kept'
    BY <2>3, <2>9, <2>10 DEF IInv, Order, Submitted, Ordered, Before, Kept
  <2>12. Runs'
    BY <2>3, <2>4, <2>5 DEF IInv, Order, Runs
  <2> QED BY <2>6, <2>8, <2>11, <2>12 DEF IInv, Order
<1> QED BY <1>1, <1>2

LEMMA ShutdownKeeps ==
  ASSUME Fits, IInv, Shutdown
  PROVE  IInv'
<1> DEFINE last == [i \in DOMAIN threads |-> NONE]
<1>1. queue' = queue \o last /\ UNCHANGED << idle, threads, future >>
  BY DEF Shutdown
<1>2. Len(threads) \in Nat /\ DOMAIN threads = 1..Len(threads)
  BY DEF IInv, Kinds
<1>3. /\ last \in Seq({NONE}) /\ Len(last) = Len(threads)
      /\ \A k \in 1..Len(threads) : last[k] = NONE
  BY <1>2
<1> HIDE DEF last
<1>4. queue \in Seq(Items \cup {NONE}) /\ last \in Seq(Items \cup {NONE}) /\ Len(queue) \in Nat
  BY <1>3 DEF IInv, Kinds
<1>5. /\ queue' \in Seq(Items \cup {NONE}) /\ Len(queue') = Len(queue) + Len(threads)
      /\ \A k \in 1..Len(queue) : queue'[k] = queue[k]
      /\ \A k \in 1..Len(queue') : k > Len(queue) => queue'[k] = NONE
  BY <1>1, <1>2, <1>3, <1>4
<1>6. Kinds' /\ Counts'
  BY <1>1, <1>5 DEF IInv, Kinds, Counts, Inside
<1>7. \A k \in 1..Len(queue') : queue'[k] \in Items => k \in 1..Len(queue) /\ queue'[k] = queue[k]
  BY <1>2, <1>4, <1>5 DEF Fits
<1>8. \A d \in Items : (Took(d)' <=> Took(d)) /\ (Waits(d)' <=> Waits(d))
  <2>1. \A d \in Items : Took(d)' <=> Took(d)
    BY <1>1 DEF Took
  <2>2. \A d \in Items : Waits(d)' => Waits(d)
    BY <1>7 DEF Waits
  <2>3. \A k \in 1..Len(queue) : k \in 1..Len(queue')
    BY <1>2, <1>4, <1>5
  <2>4. \A d \in Items : Waits(d) => Waits(d)'
    BY <1>5, <2>3 DEF Waits
  <2> QED BY <2>1, <2>2, <2>4
<1>9. \A d \in Items : Passed(d)' <=> Passed(d)
  BY <1>1, <1>8 DEF Passed
<1>10. Submitted' /\ Before' /\ Kept' /\ Runs'
  BY <1>1, <1>8, <1>9 DEF IInv, Order, Submitted, Before, Kept, Runs
<1>11. Ordered'
  BY <1>7 DEF IInv, Order, Ordered
<1> QED BY <1>6, <1>10, <1>11 DEF IInv, Order

-----------------------------------------------------------------------------
(* The threads.  A step that takes no call and ends none but its own       *)
(* changes nothing in the order.                                           *)
LEMMA QuietKeeps ==
  ASSUME Fits, IInv, NEW i, NEW s \in {"start", "leave", "run"}, NEW t \in {"get", "gone", "start"},
         At(i, s), Go(i, t, 0), queue' = queue, future' \in [Items -> Futures],
         \A d \in Items : future'[d] = future[d]
                          \/ (future[d] \in {"running", "done"} /\ future'[d] = "done")
  PROVE  Order'
<1>1. /\ i \in 1..Len(threads) /\ threads[i].at = s
      /\ Len(threads') = Len(threads) /\ threads'[i].at = t
      /\ \A j \in 1..Len(threads) : j # i => threads'[j] = threads[j]
  <2>1. s \in Places /\ t \in Places /\ 0 \in 0..Calls /\ Kinds
    BY DEF Places, Fits, IInv
  <2> QED BY <2>1, Goes
<1>2. \A d \in Items : (Took(d)' <=> Took(d)) /\ (Waits(d)' <=> Waits(d))
  BY <1>1 DEF Took, Waits
<1>3. \A d \in Items : Passed(d)' <=> Passed(d)
  BY <1>2 DEF Passed
<1>4. Submitted' /\ Ordered' /\ Before'
  BY <1>2, <1>3 DEF IInv, Order, Submitted, Ordered, Before
<1>5. Kept'
  BY <1>2 DEF IInv, Order, Kept
<1>6. Runs'
  BY <1>1 DEF IInv, Order, Runs
<1> QED BY <1>4, <1>5, <1>6 DEF Order

LEMMA QuietThreads ==
  ASSUME Fits, IInv, NEW i, Idle(i) \/ Leave(i) \/ Return(i)
  PROVE  IInv'
<1>1. 0 \in 0..Calls /\ Kinds /\ Counts
  BY DEF Fits, IInv
<1>2. CASE Idle(i)
  <2>1. At(i, "start") /\ Go(i, "get", 0) /\ idle' = idle + 1 /\ UNCHANGED << queue, future >>
    BY <1>2 DEF Idle
  <2>2. threads' \in Seq(Thread) /\ Len(threads') = Len(threads)
    BY <1>1, <2>1, Goes DEF Places
  <2>3. Counts' /\ idle' \in Int
    BY <1>1, <2>1, CountsKeep DEF Places
  <2>4. Order'
    BY <1>1, <2>1, QuietKeeps DEF Kinds
  <2> QED BY <1>1, <2>1, <2>2, <2>3, <2>4 DEF IInv, Kinds
<1>3. CASE Leave(i)
  <2>1. At(i, "leave") /\ Go(i, "gone", 0) /\ idle' = idle - 1 /\ UNCHANGED << queue, future >>
    BY <1>3 DEF Leave
  <2>2. threads' \in Seq(Thread) /\ Len(threads') = Len(threads)
    BY <1>1, <2>1, Goes DEF Places
  <2>3. Counts' /\ idle' \in Int
    BY <1>1, <2>1, CountsKeep DEF Places
  <2>4. Order'
    BY <1>1, <2>1, QuietKeeps DEF Kinds
  <2> QED BY <1>1, <2>1, <2>2, <2>3, <2>4 DEF IInv, Kinds
<1>4. CASE Return(i)
  <2>1. /\ At(i, "run") /\ Go(i, "start", 0) /\ UNCHANGED << idle, queue >>
        /\ future' = [future EXCEPT ![threads[i].call] = "done"]
    BY <1>4 DEF Return
  <2>2. threads' \in Seq(Thread) /\ Len(threads') = Len(threads)
        /\ i \in 1..Len(threads) /\ threads[i].at = "run"
    BY <1>1, <2>1, Goes DEF Places
  <2>3. Counts' /\ idle' \in Int
    BY <1>1, <2>1, CountsKeep DEF Places
  <2>4. threads[i].call \in Items /\ future[threads[i].call] \in {"running", "done"}
    BY <2>2 DEF IInv, Order, Runs
  <2>5. /\ future' \in [Items -> Futures]
        /\ \A d \in Items : future'[d] = IF d = threads[i].call THEN "done" ELSE future[d]
    BY <1>1, <2>1, <2>4 DEF Kinds, Futures
  <2>6. Order'
    BY <1>1, <2>1, <2>4, <2>5, QuietKeeps
  <2> QED BY <1>1, <2>1, <2>2, <2>3, <2>5, <2>6 DEF IInv, Kinds
<1> QED BY <1>2, <1>3, <1>4

(* The first of the queue is taken: all that wait came after it.           *)
LEMMA GetKeeps ==
  ASSUME Fits, IInv, NEW i, Get(i)
  PROVE  IInv'
<1>1. /\ At(i, "get") /\ queue # << >> /\ queue' = Tail(queue)
      /\ UNCHANGED << idle, future >>
  BY DEF Get
<1>2. Kinds /\ Counts
  BY DEF IInv
<1>3. /\ Len(queue) \in Nat \ {0} /\ Head(queue) = queue[1] /\ queue[1] \in Items \cup {NONE}
      /\ queue' \in Seq(Items \cup {NONE}) /\ Len(queue') = Len(queue) - 1
      /\ \A k \in 1..Len(queue') : queue'[k] = queue[k + 1]
  BY <1>1, <1>2 DEF Kinds
<1>4. PICK t \in {"leave", "took"}, c \in 0..Calls :
        /\ Go(i, t, c)
        /\ t = "took" => c = queue[1] /\ c \in Items
        /\ t = "leave" => queue[1] = NONE
  <2>1. CASE queue[1] = NONE
    BY <1>3, <2>1 DEF Get, Fits
  <2>2. CASE queue[1] # NONE
    BY <1>3, <2>2 DEF Get, Items
  <2> QED BY <2>1, <2>2
<1>5. /\ i \in 1..Len(threads) /\ threads[i].at = "get"
      /\ threads' \in Seq(Thread) /\ Len(threads') = Len(threads)
      /\ threads'[i].at = t /\ threads'[i].call = c
      /\ \A j \in 1..Len(threads) : j # i => threads'[j] = threads[j]
  BY <1>1, <1>2, <1>4, Goes DEF Places
<1>6. Counts' /\ idle' \in Int
  BY <1>1, <1>2, <1>4, CountsKeep DEF Places
<1>7. Kinds'
  BY <1>1, <1>2, <1>3, <1>5, <1>6 DEF Kinds
<1>8. \A d \in Items : /\ Took(d) => Took(d)'
                       /\ Took(d)' => Took(d) \/ (t = "took" /\ d = c)
                       /\ t = "took" => Took(c)'
  BY <1>5 DEF Took
<1>9. \A d \in Items : /\ Waits(d)' => Waits(d)
                       /\ Waits(d) /\ d # queue[1] => Waits(d)'
  <2>1. ASSUME NEW d \in Items, Waits(d)' PROVE Waits(d)
    <3>1. PICK k \in 1..Len(queue') : queue'[k] = d
      BY <2>1 DEF Waits
    <3>2. k + 1 \in 1..Len(queue) /\ queue[k + 1] = d
      BY <1>3, <3>1
    <3> QED BY <3>2 DEF Waits
  <2>2. ASSUME NEW d \in Items, Waits(d), d # queue[1] PROVE Waits(d)'
    <3>1. PICK k \in 1..Len(queue) : queue[k] = d
      BY <2>2 DEF Waits
    <3>2. k - 1 \in 1..Len(queue') /\ queue'[k - 1] = queue[(k - 1) + 1] /\ (k - 1) + 1 = k
      BY <1>3, <2>2, <3>1
    <3> QED BY <3>1, <3>2 DEF Waits
  <2> QED BY <2>1, <2>2
<1>10. t = "took" => Waits(c) /\ c \in Items
  BY <1>3, <1>4 DEF Waits
<1>11. \A d \in Items : t = "took" /\ Waits(d)' => c < d
  <2> SUFFICES ASSUME NEW d \in Items, t = "took", Waits(d)' PROVE c < d
    OBVIOUS
  <2>1. PICK k \in 1..Len(queue') : queue'[k] = d
    BY DEF Waits
  <2>2. k + 1 \in 1..Len(queue) /\ queue[k + 1] = d /\ 1 \in 1..Len(queue) /\ 1 < k + 1
    BY <1>3, <2>1
  <2>3. queue[1] < queue[k + 1]
    BY <1>4, <2>2 DEF IInv, Order, Ordered
  <2> QED BY <1>4, <2>2, <2>3
<1>12. Submitted'
  BY <1>1, <1>8, <1>9, <1>10 DEF IInv, Order, Submitted, Passed
<1>13. Ordered'
  <2> SUFFICES ASSUME NEW k \in 1..Len(queue'), NEW l \in 1..Len(queue'), k < l,
                      queue'[k] \in Items, queue'[l] \in Items
               PROVE  queue'[k] < queue'[l]
    BY DEF Ordered
  <2>1. k + 1 \in 1..Len(queue) /\ l + 1 \in 1..Len(queue) /\ k + 1 < l + 1
    BY <1>3
  <2> QED BY <1>3, <2>1 DEF IInv, Order, Ordered
<1>14. Before'
  BY <1>1, <1>8, <1>9, <1>11 DEF IInv, Order, Before, Passed
<1>15. Kept'
  <2> SUFFICES ASSUME NEW d \in Items, future'[d] = "queued" PROVE Waits(d)' \/ Took(d)'
    BY DEF Kept
  <2>1. Waits(d) \/ Took(d)
    BY <1>1 DEF IInv, Order, Kept
  <2>2. CASE d = queue[1]
    BY <1>4, <1>8, <2>2 DEF Fits
  <2>3. CASE d # queue[1]
    BY <1>8, <1>9, <2>1, <2>3
  <2> QED BY <2>2, <2>3
<1>16. Runs'
  BY <1>1, <1>4, <1>5 DEF IInv, Order, Runs
<1> QED BY <1>6, <1>7, <1>12, <1>13, <1>14, <1>15, <1>16 DEF IInv, Order

LEMMA TakeKeeps ==
  ASSUME Fits, IInv, NEW i, Take(i)
  PROVE  IInv'
<1>1. At(i, "took") /\ idle' = idle - 1 /\ queue' = queue
  BY DEF Take
<1>2. Kinds /\ Counts /\ DOMAIN threads = 1..Len(threads)
  BY DEF IInv, Kinds
<1>3. i \in 1..Len(threads) /\ threads[i].at = "took" /\ threads[i].call \in Items
  BY <1>1, <1>2 DEF At, IInv, Order, Runs
<1>4. PICK c \in Items : c = threads[i].call
  BY <1>3
<1>5. Took(c) /\ c \in 0..Calls /\ 0 \in 0..Calls
  BY <1>3, <1>4 DEF Took, Items, Fits
<1>6. PICK t \in {"start", "run"}, n \in {0, c} :
        /\ Go(i, t, n)
        /\ t = "start" => future[c] = "cancelled" /\ future' = future
        /\ t = "run" => n = c /\ future' = [future EXCEPT ![c] = "running"]
  BY <1>4 DEF Take
<1>7. /\ threads' \in Seq(Thread) /\ Len(threads') = Len(threads)
      /\ threads'[i].at = t /\ threads'[i].call = n
      /\ \A j \in 1..Len(threads) : j # i => threads'[j] = threads[j]
  BY <1>1, <1>2, <1>5, <1>6, Goes DEF Places
<1>8. Counts' /\ idle' \in Int
  BY <1>1, <1>2, <1>5, <1>6, CountsKeep DEF Places
<1>9. /\ future' \in [Items -> Futures]
      /\ \A d \in Items : future'[d] = IF t = "run" /\ d = c THEN "running" ELSE future[d]
  BY <1>2, <1>6 DEF Kinds, Futures
<1>10. Kinds'
  BY <1>1, <1>2, <1>7, <1>8, <1>9 DEF Kinds
<1>11. \A d \in Items : /\ Took(d)' => Took(d)
                        /\ Took(d) /\ d # c => Took(d)'
                        /\ Waits(d)' <=> Waits(d)
  <2>1. \A d \in Items : Took(d)' => Took(d)
    BY <1>6, <1>7 DEF Took
  <2>2. \A d \in Items : Took(d) /\ d # c => Took(d)'
    BY <1>4, <1>7 DEF Took
  <2> QED BY <1>1, <2>1, <2>2 DEF Waits
<1>12. \A d \in Items : Passed(d)' => Passed(d)
  BY <1>5, <1>9, <1>11 DEF Passed
<1>13. future[c] # "new"
  BY <1>5 DEF IInv, Order, Submitted, Passed
<1>14. Submitted' /\ Before'
  BY <1>9, <1>11, <1>12, <1>13 DEF IInv, Order, Submitted, Before
<1>15. Kept'
  BY <1>6, <1>9, <1>11 DEF IInv, Order, Kept
<1>16. Ordered'
  BY <1>1 DEF IInv, Order, Ordered
<1>17. Runs'
  BY <1>6, <1>7, <1>9 DEF IInv, Order, Runs
<1> QED BY <1>8, <1>10, <1>14, <1>15, <1>16, <1>17 DEF IInv, Order

-----------------------------------------------------------------------------
LEMMA NextKeeps == ASSUME Fits PROVE IInv /\ [Next]_vars => IInv'
<1> SUFFICES ASSUME IInv, [Next]_vars PROVE IInv'
  OBVIOUS
<1>1. CASE UNCHANGED vars
  BY <1>1, Stutter
<1>2. ASSUME NEW i \in 1..Size, Idle(i) \/ Get(i) \/ Leave(i) \/ Take(i) \/ Return(i)
      PROVE  IInv'
  BY <1>2, QuietThreads, GetKeeps, TakeKeeps
<1>3. ASSUME NEW c \in 1..Calls, Submit(c) \/ Cancel(c) PROVE IInv'
  BY <1>3, SubmitKeeps, CancelKeeps DEF Items
<1> QED BY <1>1, <1>2, <1>3, GrowKeeps, ShutdownKeeps DEF Next

LEMMA InvIsSafe == IInv => PoolSafe
<1> SUFFICES ASSUME IInv PROVE PoolSafe
  OBVIOUS
<1>1. Counted
  BY DEF IInv, Kinds, Counts, Inside, Counted
<1>2. ASSUME NEW c \in 1..Calls, NEW d \in 1..Calls, c < d, future[d] \in {"running", "done"},
             future[c] = "queued"
      PROVE  \E i \in DOMAIN threads : threads[i] = [at |-> "took", call |-> c]
  <2>1. Waits(c) \/ Took(c)
    BY <1>2 DEF IInv, Order, Kept, Items
  <2>2. ~ Waits(c)
    BY <1>2 DEF IInv, Order, Before, Passed, Items
  <2>3. PICK i \in 1..Len(threads) : threads[i].at = "took" /\ threads[i].call = c
    BY <2>1, <2>2 DEF Took
  <2>4. threads[i] \in Thread /\ i \in DOMAIN threads
    BY DEF IInv, Kinds
  <2>5. threads[i] = [at |-> "took", call |-> c]
    BY <2>3, <2>4 DEF Thread
  <2> QED BY <2>4, <2>5
<1>3. FirstCome
  BY <1>2 DEF FirstCome
<1> QED BY <1>1, <1>3 DEF PoolSafe

(* workers.py: whatever the threads do between one another's steps, the    *)
(* idle counter is the number of threads that wait or have not yet said    *)
(* otherwise, there are never more threads than the pool has room for, and *)
(* calls are begun in the order in which they were submitted.              *)
THEOREM PoolIsSafe == ASSUME PoolAssumption PROVE Spec => []PoolSafe
<1>1. Fits
  BY DEF PoolAssumption, Fits, Items
<1> QED BY <1>1, InitInv, NextKeeps, InvIsSafe, PTL DEF Spec
=============================================================================
