--------------------------- MODULE GatewayProofs ---------------------------
(***************************************************************************)
(* Proofs about WebSocket for any number of workers, connections, rooms    *)
(* and frames and any size of the queue: the registers agree with the      *)
(* connections, the gauge counts them, no quota is passed, and a client    *)
(* gets what it was due once and in order.                                 *)
(***************************************************************************)
EXTENDS WebSocket, FiniteSetTheorems, TLAPS

Places == {"new", "guards", "refused", "greet", "loop", "handler", "asking", "leaving", "removed", "gone"}
Live == {"greet", "loop", "handler", "asking", "leaving"}
Records == [at : Places, closing : BOOLEAN, rooms : SUBSET Rooms, queue : Seq(Int),
            writer : {"none", "run", "gone"}, frames : Int]
Emitted == [from : Workers, room : Rooms \cup {NULL}, odd : BOOLEAN, out : BOOLEAN]
TablesOf(K) == UNION {[S -> SUBSET Conns] : S \in SUBSET K}
Users == {User[c] : c \in Conns} \ {NULL}
Indexes == [sockets : SUBSET Conns, users : TablesOf(Users), rooms : TablesOf(Rooms)]

Kinds ==
  /\ conn \in [Conns -> Records]
  /\ emits \in Seq(Emitted)
  /\ due \in [Conns -> Seq(Int)]
  /\ got \in [Conns -> Seq(Int)]
  /\ channel \in [Workers -> Seq(Int)]
  /\ gauge \in [Workers -> Int]
  /\ stopping \in [Workers -> {"no", "closing", "down"}]
  /\ index \in [Workers -> Indexes]

(* A connection that is not registered yet has sent and got nothing.       *)
Fresh(r, d, g) == r.at \in {"new", "guards"} =>
  r.writer = "none" /\ r.queue = << >> /\ d = << >> /\ g = << >>

(* The registers, and no name that nobody uses.                            *)
Named(t) == \A x \in DOMAIN t : t[x] # {}
UsersOf(w) == /\ \A u \in Users : In(index[w].users, u) = {c \in index[w].sockets : User[c] = u}
              /\ Named(index[w].users)
RoomsOf(w) == /\ \A r \in Rooms : In(index[w].rooms, r) = {c \in Conns : Home[c] = w /\ r \in conn[c].rooms}
              /\ Named(index[w].rooms)
SocketsOf(w) == index[w].sockets = {c \in Conns : Home[c] = w /\ conn[c].at \in Live}
Registry == \A w \in Workers : SocketsOf(w) /\ UsersOf(w) /\ RoomsOf(w)

Alive(w) == {c \in Conns : Home[c] = w /\ conn[c].at \in Live \cup {"removed"}}
Counted == \A w \in Workers : Running(w) => gauge[w] = Cardinality(Alive(w))

Quota == /\ PerUser > 0 => \A w \in Workers, u \in Users : Cardinality(In(index[w].users, u)) <= PerUser
         /\ \A c \in Conns : /\ IsFiniteSet(conn[c].rooms) /\ Cardinality(conn[c].rooms) <= MaxRooms
                             /\ conn[c].at = "asking" => Cardinality(conn[c].rooms) < MaxRooms

(* An emitted frame reaches a connection once: from its own worker, or     *)
(* from the channel, where it is once and only after its publish().        *)
DueOf(c) ==
  /\ \A n \in 1 .. Len(due[c]) : due[c][n] \in 1 .. Len(emits)
  /\ \A m, n \in 1 .. Len(due[c]) : due[c][m] = due[c][n] => m = n
  /\ \A m, n \in 1 .. Len(due[c]) :
       m < n /\ emits[due[c][m]].from = Home[c] /\ emits[due[c][n]].from = Home[c] => due[c][m] < due[c][n]
  /\ \A n \in 1 .. Len(due[c]) : emits[due[c][n]].from # Home[c] =>
       /\ ~ emits[due[c][n]].out
       /\ \A k \in 1 .. Len(channel[Home[c]]) : channel[Home[c]][k] # due[c][n]
ChannelOf(w) ==
  /\ \A k \in 1 .. Len(channel[w]) : channel[w][k] \in 1 .. Len(emits) /\ ~ emits[channel[w][k]].out
  /\ \A j, k \in 1 .. Len(channel[w]) : channel[w][j] = channel[w][k] => j = k
Dues == (\A c \in Conns : DueOf(c)) /\ (\A w \in Workers : ChannelOf(w))

(* Of a queue q, what was due d and what was sent g: what is sent, and     *)
(* then what is queued, are in the order in which they were due.           *)
After(d, x, y) == \E m, n \in 1 .. Len(d) : m < n /\ d[m] = x /\ d[n] = y
Known(d, x) == \E n \in 1 .. Len(d) : d[n] = x
Distinct(d) == \A m, n \in 1 .. Len(d) : d[m] = d[n] => m = n
Positive(d) == \A n \in 1 .. Len(d) : d[n] > 0
Line(q, d, g) ==
  /\ \A i \in 1 .. Len(g) : Known(d, g[i])
  /\ \A j \in 1 .. Len(q) : q[j] > 0 => Known(d, q[j])
  /\ \A i, j \in 1 .. Len(g) : i < j => After(d, g[i], g[j])
  /\ \A j, k \in 1 .. Len(q) : j < k /\ q[j] > 0 /\ q[k] > 0 => After(d, q[j], q[k])
  /\ \A i \in 1 .. Len(g), k \in 1 .. Len(q) : q[k] > 0 => After(d, g[i], q[k])

(* Nothing was left out before what is queued, and, while frames are       *)
(* taken, after it.                                                        *)
Prefix(d, g) == Len(g) <= Len(d) /\ \A i \in 1 .. Len(g) : g[i] = d[i]
NoGap(q, d, g) == \A j \in 1 .. Len(q), n \in 1 .. Len(d) : q[j] > 0 /\ d[n] = q[j] =>
  n > Len(g) /\ \A m \in 1 .. Len(d) : m > Len(g) /\ m < n => \E i \in 1 .. Len(q) : i < j /\ q[i] = d[m]
Complete(q, d, g) == \A n \in 1 .. Len(d) : n > Len(g) => \E j \in 1 .. Len(q) : q[j] = d[n]

Track(r, d, g) ==
  /\ Line(r.queue, d, g)
  /\ Overflow = "close" =>
       /\ Prefix(d, g)
       /\ r.writer = "run" => NoGap(r.queue, d, g)
       /\ r.at \in Live /\ ~ r.closing /\ r.writer = "run" => Complete(r.queue, d, g)

Lines == \A c \in Conns : Fresh(conn[c], due[c], got[c]) /\ Track(conn[c], due[c], got[c])

IInv == Kinds /\ Registry /\ Counted /\ Quota /\ Dues /\ Lines

-----------------------------------------------------------------------------
(* A queue, what was due and what was sent.                                *)
LEMMA UpTo == \A n \in Nat : \A m : m = n + 1 =>
  /\ \A j \in 1 .. m : j # n + 1 => j \in 1 .. n
  /\ \A k \in Int : k > m => k > n /\ k # n + 1
OBVIOUS

(* What is made for one connection does not disturb the line.              *)
LEMMA LineReply ==
  ASSUME NEW q \in Seq(Int), NEW d \in Seq(Int), NEW g \in Seq(Int), NEW f \in Int, f <= 0
  PROVE  /\ Line(q, d, g) => Line(Append(q, f), d, g)
         /\ NoGap(q, d, g) => NoGap(Append(q, f), d, g)
         /\ Complete(q, d, g) => Complete(Append(q, f), d, g)
<1> DEFINE p == Append(q, f)
<1>1. p \in Seq(Int) /\ Len(p) = Len(q) + 1 /\ Len(q) \in Nat /\ p[Len(q) + 1] = f
      /\ \A j \in 1 .. Len(q) : p[j] = q[j]
  OBVIOUS
<1>2. \A j \in 1 .. Len(p) : p[j] > 0 => j \in 1 .. Len(q) /\ p[j] = q[j]
  BY <1>1
<1>3. 1 .. Len(q) \subseteq 1 .. Len(p)
  BY <1>1
<1> HIDE DEF p
<1>4. Line(q, d, g) => Line(p, d, g)
  BY <1>2 DEF Line
<1>5. ASSUME NoGap(q, d, g) PROVE NoGap(p, d, g)
  <2> SUFFICES ASSUME NEW j \in 1 .. Len(p), NEW n \in 1 .. Len(d), p[j] > 0, d[n] = p[j]
               PROVE  n > Len(g) /\ \A m \in 1 .. Len(d) : m > Len(g) /\ m < n => \E i \in 1 .. Len(p) : i < j /\ p[i] = d[m]
    BY DEF NoGap
  <2>1. j \in 1 .. Len(q) /\ p[j] = q[j]
    BY <1>2
  <2>2. n > Len(g) /\ \A m \in 1 .. Len(d) : m > Len(g) /\ m < n => \E i \in 1 .. Len(q) : i < j /\ q[i] = d[m]
    BY <2>1, <1>5 DEF NoGap
  <2> QED
    BY <2>2, <1>1, <1>3
<1>6. Complete(q, d, g) => Complete(p, d, g)
  BY <1>1, <1>3 DEF Complete
<1> QED
  BY <1>4, <1>5, <1>6 DEF p

(* The first frame is dropped, or was made for one connection.             *)
LEMMA LineDrop ==
  ASSUME NEW q \in Seq(Int), NEW d \in Seq(Int), NEW g \in Seq(Int), q # << >>
  PROVE  /\ Line(q, d, g) => Line(Tail(q), d, g)
         /\ Head(q) <= 0 /\ Positive(d) /\ NoGap(q, d, g) => NoGap(Tail(q), d, g)
         /\ Head(q) <= 0 /\ Positive(d) /\ Complete(q, d, g) => Complete(Tail(q), d, g)
<1> DEFINE p == Tail(q)
<1>1. p \in Seq(Int) /\ Len(p) = Len(q) - 1 /\ Len(q) \in Nat /\ Len(p) \in Nat /\ Head(q) = q[1]
      /\ \A j \in 1 .. Len(p) : p[j] = q[j + 1] /\ j + 1 \in 1 .. Len(q)
  OBVIOUS
<1>2. \A j \in 2 .. Len(q) : j - 1 \in 1 .. Len(p) /\ p[j - 1] = q[j]
  BY <1>1
<1> HIDE DEF p
<1>3. ASSUME Line(q, d, g) PROVE Line(p, d, g)
  <2>1. \A j \in 1 .. Len(p) : p[j] > 0 => Known(d, p[j])
    BY <1>1, <1>3 DEF Line
  <2>2. \A j, k \in 1 .. Len(p) : j < k /\ p[j] > 0 /\ p[k] > 0 => After(d, p[j], p[k])
    <3> TAKE j, k \in 1 .. Len(p)
    <3>1. j + 1 \in 1 .. Len(q) /\ k + 1 \in 1 .. Len(q) /\ (j < k => j + 1 < k + 1) /\ p[j] = q[j + 1] /\ p[k] = q[k + 1]
      BY <1>1
    <3> QED
      BY <3>1, <1>3 DEF Line
  <2>3. \A i \in 1 .. Len(g), k \in 1 .. Len(p) : p[k] > 0 => After(d, g[i], p[k])
    BY <1>1, <1>3 DEF Line
  <2> QED
    BY <2>1, <2>2, <2>3, <1>3 DEF Line
<1>4. ASSUME q[1] <= 0, Positive(d), NoGap(q, d, g) PROVE NoGap(p, d, g)
  <2> SUFFICES ASSUME NEW j \in 1 .. Len(p), NEW n \in 1 .. Len(d), p[j] > 0, d[n] = p[j]
               PROVE  n > Len(g) /\ \A m \in 1 .. Len(d) : m > Len(g) /\ m < n => \E i \in 1 .. Len(p) : i < j /\ p[i] = d[m]
    BY DEF NoGap
  <2>1. j + 1 \in 1 .. Len(q) /\ p[j] = q[j + 1]
    BY <1>1
  <2>2. n > Len(g) /\ \A m \in 1 .. Len(d) : m > Len(g) /\ m < n => \E i \in 1 .. Len(q) : i < j + 1 /\ q[i] = d[m]
    BY <2>1, <1>4 DEF NoGap
  <2>3. ASSUME NEW m \in 1 .. Len(d), m > Len(g), m < n PROVE \E i \in 1 .. Len(p) : i < j /\ p[i] = d[m]
    <3>1. PICK i \in 1 .. Len(q) : i < j + 1 /\ q[i] = d[m]
      BY <2>2, <2>3
    <3>2. i # 1
      BY <3>1, <1>4 DEF Positive
    <3>3. i - 1 \in 1 .. Len(p) /\ p[i - 1] = q[i] /\ i - 1 < j
      BY <3>1, <3>2, <1>1, <1>2
    <3> QED
      BY <3>1, <3>3
  <2> QED
    BY <2>2, <2>3
<1>5. ASSUME q[1] <= 0, Positive(d), Complete(q, d, g) PROVE Complete(p, d, g)
  <2> SUFFICES ASSUME NEW n \in 1 .. Len(d), n > Len(g) PROVE \E j \in 1 .. Len(p) : p[j] = d[n]
    BY DEF Complete
  <2>1. PICK j \in 1 .. Len(q) : q[j] = d[n]
    BY <1>5 DEF Complete
  <2>2. j # 1
    BY <2>1, <1>5 DEF Positive
  <2>3. j - 1 \in 1 .. Len(p) /\ p[j - 1] = q[j]
    BY <2>1, <2>2, <1>1, <1>2
  <2> QED
    BY <2>1, <2>3
<1> QED
  BY <1>1, <1>3, <1>4, <1>5 DEF p

(* The first frame is sent.                                                *)
LEMMA LineWrite ==
  ASSUME NEW q \in Seq(Int), NEW d \in Seq(Int), NEW g \in Seq(Int), q # << >>, Head(q) > 0, Distinct(d),
         Line(q, d, g)
  PROVE  /\ Line(Tail(q), d, Append(g, Head(q)))
         /\ Prefix(d, g) /\ NoGap(q, d, g) =>
              /\ Prefix(d, Append(g, Head(q))) /\ NoGap(Tail(q), d, Append(g, Head(q)))
              /\ Complete(q, d, g) => Complete(Tail(q), d, Append(g, Head(q)))
<1> DEFINE p == Tail(q)
           h == Append(g, Head(q))
<1>1. p \in Seq(Int) /\ Len(p) = Len(q) - 1 /\ Len(q) \in Nat /\ Len(p) \in Nat /\ Head(q) = q[1] /\ 1 \in 1 .. Len(q)
      /\ \A j \in 1 .. Len(p) : p[j] = q[j + 1] /\ j + 1 \in 1 .. Len(q)
  OBVIOUS
<1>2. \A j \in 2 .. Len(q) : j - 1 \in 1 .. Len(p) /\ p[j - 1] = q[j]
  BY <1>1
<1>3. h \in Seq(Int) /\ Len(h) = Len(g) + 1 /\ Len(g) \in Nat /\ h[Len(g) + 1] = q[1] /\ \A i \in 1 .. Len(g) : h[i] = g[i]
  BY <1>1
<1>a. Len(h) = Len(g) + 1 /\ Len(g) \in Nat /\ Len(h) \in Nat
  BY <1>3
<1>4. Len(d) \in Nat /\ \A n \in 1 .. Len(d) : d[n] \in Int
  OBVIOUS
<1>b. Len(d) \in Nat
  OBVIOUS
<1>5. q[1] > 0
  BY <1>1
<1> HIDE DEF p, h
<1>6. Line(p, d, h)
  <2>1. \A i \in 1 .. Len(h) : Known(d, h[i])
    <3> TAKE i \in 1 .. Len(h)
    <3>1. CASE i = Len(g) + 1
      BY <3>1, <1>1, <1>3, <1>5 DEF Line
    <3>2. CASE i # Len(g) + 1
      <4>1. i \in 1 .. Len(g)
        BY <3>2, <1>3
      <4> QED
        BY <4>1, <1>3 DEF Line
    <3> QED
      BY <3>1, <3>2
  <2>2. \A j \in 1 .. Len(p) : p[j] > 0 => Known(d, p[j])
    BY <1>1 DEF Line
  <2>3. \A i, j \in 1 .. Len(h) : i < j => After(d, h[i], h[j])
    <3> SUFFICES ASSUME NEW i \in 1 .. Len(h), NEW j \in 1 .. Len(h), i < j PROVE After(d, h[i], h[j])
      OBVIOUS
    <3>0. i \in 1 .. Len(g)
      BY <1>a
    <3>1. i \in 1 .. Len(g) /\ h[i] = g[i]
      BY <1>3, <3>0
    <3>2. CASE j = Len(g) + 1
      <4>1. h[j] = q[1]
        BY <3>2, <1>3
      <4> QED
        BY <3>1, <4>1, <1>1, <1>5 DEF Line
    <3>3. CASE j # Len(g) + 1
      <4>1. j \in 1 .. Len(g) /\ h[j] = g[j]
        <5>1. j \in 1 .. Len(g)
          BY <3>3, <1>a, UpTo, Zenon
        <5> QED
          BY <5>1, <1>3
      <4> QED
        BY <3>1, <4>1 DEF Line
    <3> QED
      BY <3>2, <3>3
  <2>4. \A j, k \in 1 .. Len(p) : j < k /\ p[j] > 0 /\ p[k] > 0 => After(d, p[j], p[k])
    <3> TAKE j, k \in 1 .. Len(p)
    <3>1. j + 1 \in 1 .. Len(q) /\ k + 1 \in 1 .. Len(q) /\ (j < k => j + 1 < k + 1) /\ p[j] = q[j + 1] /\ p[k] = q[k + 1]
      BY <1>1
    <3> QED
      BY <3>1 DEF Line
  <2>5. \A i \in 1 .. Len(h), k \in 1 .. Len(p) : p[k] > 0 => After(d, h[i], p[k])
    <3> SUFFICES ASSUME NEW i \in 1 .. Len(h), NEW k \in 1 .. Len(p), p[k] > 0 PROVE After(d, h[i], p[k])
      OBVIOUS
    <3>1. k + 1 \in 1 .. Len(q) /\ p[k] = q[k + 1] /\ 1 < k + 1
      BY <1>1
    <3>2. CASE i = Len(g) + 1
      <4>1. h[i] = q[1]
        BY <3>2, <1>3
      <4> QED
        BY <3>1, <4>1, <1>1, <1>5 DEF Line
    <3>3. CASE i # Len(g) + 1
      <4>1. i \in 1 .. Len(g) /\ h[i] = g[i]
        BY <3>3, <1>3
      <4> QED
        BY <3>1, <4>1 DEF Line
    <3> QED
      BY <3>2, <3>3
  <2> QED
    BY <2>1, <2>2, <2>3, <2>4, <2>5 DEF Line
<1>7. ASSUME Prefix(d, g), NoGap(q, d, g)
      PROVE  /\ Len(g) + 1 \in 1 .. Len(d) /\ d[Len(g) + 1] = q[1]
             /\ Prefix(d, h) /\ NoGap(p, d, h)
             /\ Complete(q, d, g) => Complete(p, d, h)
  <2>1. PICK n \in 1 .. Len(d) : d[n] = q[1]
    BY <1>1, <1>5 DEF Line, Known
  <2>2. n > Len(g) /\ \A m \in 1 .. Len(d) : m > Len(g) /\ m < n => \E i \in 1 .. Len(q) : i < 1 /\ q[i] = d[m]
    BY <2>1, <1>1, <1>5, <1>7 DEF NoGap
  <2>3. n = Len(g) + 1
    <3> SUFFICES ASSUME n > Len(g) + 1 PROVE FALSE
      BY <2>2, <1>3, <1>4
    <3>1. Len(g) + 1 \in 1 .. Len(d)
      BY <1>3, <1>4
    <3>2. Len(g) + 1 > Len(g) /\ Len(g) + 1 < n
      BY <1>a
    <3>3. \E i \in 1 .. Len(q) : i < 1
      BY <3>1, <3>2, <2>2
    <3> QED
      BY <3>3, <1>1
  <2>4. Len(g) + 1 \in 1 .. Len(d) /\ d[Len(g) + 1] = q[1]
    BY <2>1, <2>3
  <2>5. Prefix(d, h)
    <3>1. Len(h) <= Len(d)
      BY <2>4, <1>3, <1>4
    <3>2. ASSUME NEW i \in 1 .. Len(h) PROVE h[i] = d[i]
      <4>1. CASE i = Len(g) + 1
        BY <4>1, <2>4, <1>3
      <4>2. CASE i # Len(g) + 1
        <5>1. i \in 1 .. Len(g)
          BY <4>2, <1>3
        <5> QED
          BY <5>1, <1>3, <1>7 DEF Prefix
      <4> QED
        BY <4>1, <4>2
    <3> QED
      BY <3>1, <3>2 DEF Prefix
  <2>6. NoGap(p, d, h)
    <3> SUFFICES ASSUME NEW j \in 1 .. Len(p), NEW k \in 1 .. Len(d), p[j] > 0, d[k] = p[j]
                 PROVE  k > Len(h) /\ \A m \in 1 .. Len(d) : m > Len(h) /\ m < k => \E i \in 1 .. Len(p) : i < j /\ p[i] = d[m]
      BY DEF NoGap
    <3>1. j + 1 \in 1 .. Len(q) /\ p[j] = q[j + 1] /\ 1 < j + 1
      BY <1>1
    <3>2. k > Len(g) /\ \A m \in 1 .. Len(d) : m > Len(g) /\ m < k => \E i \in 1 .. Len(q) : i < j + 1 /\ q[i] = d[m]
      BY <3>1, <1>7 DEF NoGap
    <3>3. After(d, q[1], q[j + 1])
      BY <3>1, <1>1, <1>5 DEF Line
    <3>4. PICK a, b \in 1 .. Len(d) : a < b /\ d[a] = q[1] /\ d[b] = q[j + 1]
      BY <3>3 DEF After
    <3>5. a = Len(g) + 1 /\ b = k
      BY <3>1, <3>4, <2>4 DEF Distinct
    <3>6. k > Len(h)
      BY <3>4, <3>5, <1>3, <1>4
    <3>7. ASSUME NEW m \in 1 .. Len(d), m > Len(h), m < k PROVE \E i \in 1 .. Len(p) : i < j /\ p[i] = d[m]
      <4>1. m > Len(g) /\ m # Len(g) + 1
        <5>1. m \in Int
          BY <1>b
        <5> QED
          BY <5>1, <3>7, <1>a, UpTo, Zenon
      <4>2. PICK i \in 1 .. Len(q) : i < j + 1 /\ q[i] = d[m]
        BY <3>2, <3>7, <4>1
      <4>3. i # 1
        BY <4>1, <4>2, <2>4 DEF Distinct
      <4>4. i - 1 \in 1 .. Len(p) /\ p[i - 1] = q[i] /\ i - 1 < j
        BY <4>2, <4>3, <1>1, <1>2
      <4> QED
        BY <4>2, <4>4
    <3> QED
      BY <3>6, <3>7
  <2>7. ASSUME Complete(q, d, g) PROVE Complete(p, d, h)
    <3> SUFFICES ASSUME NEW k \in 1 .. Len(d), k > Len(h) PROVE \E j \in 1 .. Len(p) : p[j] = d[k]
      BY DEF Complete
    <3>1. k > Len(g) /\ k # Len(g) + 1
      BY <1>3, <1>4
    <3>2. PICK j \in 1 .. Len(q) : q[j] = d[k]
      BY <3>1, <2>7 DEF Complete
    <3>3. j # 1
      BY <3>1, <3>2, <2>4 DEF Distinct
    <3>4. j - 1 \in 1 .. Len(p) /\ p[j - 1] = q[j]
      BY <3>2, <3>3, <1>1, <1>2
    <3> QED
      BY <3>2, <3>4
  <2> QED
    BY <2>4, <2>5, <2>6, <2>7
<1> QED
  BY <1>1, <1>6, <1>7 DEF p, h

(* A new frame is due: it is queued, or given up with the client.          *)
LEMMA LineDue ==
  ASSUME NEW q \in Seq(Int), NEW d \in Seq(Int), NEW g \in Seq(Int), NEW x \in Int, x > 0, ~ Known(d, x),
         Line(q, d, g)
  PROVE  /\ Line(Append(q, x), Append(d, x), g) /\ Line(q, Append(d, x), g)
         /\ Prefix(d, g) =>
              /\ Prefix(Append(d, x), g)
              /\ NoGap(q, d, g) => NoGap(q, Append(d, x), g)
              /\ NoGap(q, d, g) /\ Complete(q, d, g) =>
                   NoGap(Append(q, x), Append(d, x), g) /\ Complete(Append(q, x), Append(d, x), g)
<1> DEFINE p == Append(q, x)
           e == Append(d, x)
<1>1. p \in Seq(Int) /\ Len(p) = Len(q) + 1 /\ Len(q) \in Nat /\ p[Len(q) + 1] = x
      /\ \A j \in 1 .. Len(q) : p[j] = q[j]
  OBVIOUS
<1>2. e \in Seq(Int) /\ Len(e) = Len(d) + 1 /\ Len(d) \in Nat /\ e[Len(d) + 1] = x
      /\ \A j \in 1 .. Len(d) : e[j] = d[j]
  OBVIOUS
<1>a. Len(p) = Len(q) + 1 /\ Len(q) \in Nat /\ Len(e) = Len(d) + 1 /\ Len(d) \in Nat /\ p[Len(q) + 1] = x
  BY <1>1, <1>2
<1>3. 1 .. Len(q) \subseteq 1 .. Len(p) /\ 1 .. Len(d) \subseteq 1 .. Len(e) /\ Len(d) + 1 \in 1 .. Len(e)
      /\ Len(q) + 1 \in 1 .. Len(p) /\ Len(g) \in Nat
  BY <1>1, <1>2
<1> HIDE DEF p, e
<1>4. \A y : Known(d, y) => Known(e, y) /\ After(e, y, x)
  <2> SUFFICES ASSUME NEW y, Known(d, y) PROVE Known(e, y) /\ After(e, y, x)
    OBVIOUS
  <2>1. PICK n \in 1 .. Len(d) : d[n] = y
    BY DEF Known
  <2>2. n \in 1 .. Len(e) /\ e[n] = y /\ n < Len(d) + 1
    BY <2>1, <1>2, <1>3
  <2> QED
    BY <2>2, <1>2, <1>3 DEF Known, After
<1>5. \A y, z : After(d, y, z) => After(e, y, z)
  BY <1>2, <1>3 DEF After
<1>6. Known(e, x)
  BY <1>2, <1>3 DEF Known
<1>7. Line(q, e, g)
  BY <1>4, <1>5 DEF Line
<1>8. Line(p, e, g)
  <2>1. \A j \in 1 .. Len(p) : p[j] > 0 => Known(e, p[j])
    <3> TAKE j \in 1 .. Len(p)
    <3>1. CASE j = Len(q) + 1
      BY <3>1, <1>1, <1>6
    <3>2. CASE j # Len(q) + 1
      <4>1. j \in 1 .. Len(q)
        BY <3>2, <1>1
      <4> QED
        BY <4>1, <1>1, <1>7 DEF Line
    <3> QED
      BY <3>1, <3>2
  <2>2. \A j, k \in 1 .. Len(p) : j < k /\ p[j] > 0 /\ p[k] > 0 => After(e, p[j], p[k])
    <3> SUFFICES ASSUME NEW j \in 1 .. Len(p), NEW k \in 1 .. Len(p), j < k, p[j] > 0, p[k] > 0
                 PROVE  After(e, p[j], p[k])
      OBVIOUS
    <3>1. j \in 1 .. Len(q) /\ p[j] = q[j]
      BY <1>1
    <3>2. CASE k = Len(q) + 1
      <4>1. p[k] = x /\ Known(d, p[j])
        BY <3>1, <3>2, <1>1 DEF Line
      <4> QED
        BY <4>1, <1>4
    <3>3. CASE k # Len(q) + 1
      <4>0. k \in 1 .. Len(q)
        BY <3>3, <1>a, UpTo, Zenon
      <4>1. k \in 1 .. Len(q) /\ p[k] = q[k]
        BY <4>0, <1>1
      <4> QED
        BY <3>1, <4>1, <1>7 DEF Line
    <3> QED
      BY <3>2, <3>3
  <2>3. \A i \in 1 .. Len(g), k \in 1 .. Len(p) : p[k] > 0 => After(e, g[i], p[k])
    <3> SUFFICES ASSUME NEW i \in 1 .. Len(g), NEW k \in 1 .. Len(p), p[k] > 0 PROVE After(e, g[i], p[k])
      OBVIOUS
    <3>1. CASE k = Len(q) + 1
      <4>1. p[k] = x /\ Known(d, g[i])
        BY <3>1, <1>1 DEF Line
      <4> QED
        BY <4>1, <1>4
    <3>2. CASE k # Len(q) + 1
      <4>1. k \in 1 .. Len(q) /\ p[k] = q[k]
        BY <3>2, <1>1
      <4> QED
        BY <4>1, <1>7 DEF Line
    <3> QED
      BY <3>1, <3>2
  <2> QED
    BY <2>1, <2>2, <2>3, <1>7 DEF Line
<1>9. ASSUME Prefix(d, g) PROVE Prefix(e, g)
  <2>1. Len(g) <= Len(d) /\ \A i \in 1 .. Len(g) : g[i] = d[i] /\ i \in 1 .. Len(d)
    BY <1>9, <1>2, <1>3 DEF Prefix
  <2> QED
    BY <2>1, <1>2, <1>3 DEF Prefix
<1>10. ASSUME NEW j \in 1 .. Len(q), NEW n \in 1 .. Len(e), q[j] > 0, e[n] = q[j]
       PROVE  n \in 1 .. Len(d) /\ e[n] = d[n]
  <2>1. Known(d, q[j])
    BY <1>10 DEF Line
  <2>2. q[j] # x
    BY <2>1
  <2>3. n # Len(d) + 1
    BY <2>2, <1>10, <1>2
  <2> QED
    BY <2>3, <1>2
<1>11. ASSUME NoGap(q, d, g) PROVE NoGap(q, e, g)
  <2> SUFFICES ASSUME NEW j \in 1 .. Len(q), NEW n \in 1 .. Len(e), q[j] > 0, e[n] = q[j]
               PROVE  n > Len(g) /\ \A m \in 1 .. Len(e) : m > Len(g) /\ m < n => \E i \in 1 .. Len(q) : i < j /\ q[i] = e[m]
    BY DEF NoGap
  <2>1. n \in 1 .. Len(d) /\ e[n] = d[n]
    BY <1>10
  <2>2. n > Len(g) /\ \A m \in 1 .. Len(d) : m > Len(g) /\ m < n => \E i \in 1 .. Len(q) : i < j /\ q[i] = d[m]
    BY <2>1, <1>11 DEF NoGap
  <2>3. \A m \in 1 .. Len(e) : m < n => m \in 1 .. Len(d)
    BY <2>1, <1>a
  <2>4. \A m \in 1 .. Len(e) : m < n => m \in 1 .. Len(d) /\ e[m] = d[m]
    BY <2>3, <1>2
  <2> QED
    BY <2>2, <2>4
<1>12. ASSUME Prefix(d, g), NoGap(q, d, g), Complete(q, d, g) PROVE NoGap(p, e, g) /\ Complete(p, e, g)
  <2>1. ASSUME NEW m \in 1 .. Len(d), m > Len(g) PROVE \E i \in 1 .. Len(q) : p[i] = e[m]
    <3>1. PICK i \in 1 .. Len(q) : q[i] = d[m]
      BY <2>1, <1>12 DEF Complete
    <3> QED
      BY <3>1, <1>1, <1>2
  <2>2. Complete(p, e, g)
    <3> SUFFICES ASSUME NEW n \in 1 .. Len(e), n > Len(g) PROVE \E j \in 1 .. Len(p) : p[j] = e[n]
      BY DEF Complete
    <3>1. CASE n = Len(d) + 1
      BY <3>1, <1>1, <1>2, <1>3
    <3>2. CASE n # Len(d) + 1
      <4>1. n \in 1 .. Len(d)
        BY <3>2, <1>2
      <4> QED
        BY <4>1, <2>1, <1>3
    <3> QED
      BY <3>1, <3>2
  <2>3. NoGap(p, e, g)
    <3> SUFFICES ASSUME NEW j \in 1 .. Len(p), NEW n \in 1 .. Len(e), p[j] > 0, e[n] = p[j]
                 PROVE  n > Len(g) /\ \A m \in 1 .. Len(e) : m > Len(g) /\ m < n => \E i \in 1 .. Len(p) : i < j /\ p[i] = e[m]
      BY DEF NoGap
    <3>1. CASE j = Len(q) + 1
      <4>1. n \notin 1 .. Len(d)
        <5> SUFFICES ASSUME n \in 1 .. Len(d) PROVE FALSE
          OBVIOUS
        <5>1. d[n] = x
          BY <3>1, <1>1, <1>2
        <5> QED
          BY <5>1 DEF Known
      <4>2. n = Len(d) + 1 /\ n > Len(g)
        BY <4>1, <1>2, <1>3, <1>12 DEF Prefix
      <4>3. ASSUME NEW m \in 1 .. Len(e), m > Len(g), m < n PROVE \E i \in 1 .. Len(p) : i < j /\ p[i] = e[m]
        <5>1. m \in 1 .. Len(d)
          BY <4>2, <4>3, <1>2
        <5>2. PICK i \in 1 .. Len(q) : p[i] = e[m]
          BY <5>1, <2>1, <4>3
        <5>3. i < j /\ i \in 1 .. Len(p)
          BY <3>1, <1>1
        <5> QED
          BY <5>2, <5>3
      <4> QED
        BY <4>2, <4>3
    <3>2. CASE j # Len(q) + 1
      <4>1. j \in 1 .. Len(q) /\ p[j] = q[j]
        BY <3>2, <1>1
      <4>2. NoGap(q, e, g)
        BY <1>11, <1>12
      <4>3. n > Len(g) /\ \A m \in 1 .. Len(e) : m > Len(g) /\ m < n => \E i \in 1 .. Len(q) : i < j /\ q[i] = e[m]
        BY <4>1, <4>2 DEF NoGap
      <4> QED
        BY <4>3, <1>1, <1>3
    <3> QED
      BY <3>1, <3>2
  <2> QED
    BY <2>2, <2>3
<1> QED
  BY <1>7, <1>8, <1>9, <1>11, <1>12 DEF p, e

-----------------------------------------------------------------------------
(* A connection and what is sent to it.                                    *)
LEMMA SendIs ==
  ASSUME GatewayAssumption, NEW r \in Records, NEW f \in Int
  PROVE  /\ Send(r, f) \in Records
         /\ Send(r, f).at = r.at /\ Send(r, f).rooms = r.rooms /\ Send(r, f).writer = r.writer
         /\ r.closing => Send(r, f) = r
         /\ ~ r.closing =>
              \/ ~ Send(r, f).closing /\ Send(r, f).queue = Append(r.queue, f)
              \/ /\ Overflow = "drop_oldest" /\ ~ Send(r, f).closing
                 /\ r.queue # << >> /\ Send(r, f).queue = Append(Tail(r.queue), f)
              \/ Overflow = "close" /\ Send(r, f).closing /\ Send(r, f).queue = r.queue
<1> DEFINE q == r.queue
<1>1. q \in Seq(Int) /\ Len(q) \in Nat /\ QueueSize \in Nat \ {0} /\ Overflow \in {"close", "drop_oldest"}
  BY DEF GatewayAssumption, Records
<1>2. Append(q, f) \in Seq(Int) /\ (q # << >> => Tail(q) \in Seq(Int) /\ Append(Tail(q), f) \in Seq(Int))
      /\ (Len(q) >= QueueSize => q # << >>)
  BY <1>1
<1>3. CASE r.closing
  BY <1>3 DEF Send
<1>4. CASE ~ r.closing /\ Len(q) < QueueSize
  <2>1. Send(r, f) = [r EXCEPT !.queue = Append(q, f)]
    BY <1>4 DEF Send
  <2> QED
    BY <2>1, <1>2, <1>4 DEF Records
<1>5. CASE ~ r.closing /\ ~ (Len(q) < QueueSize)
  <2>1. q # << >> /\ Append(Tail(q), f) \in Seq(Int)
    BY <1>1, <1>2, <1>5
  <2>2. CASE Overflow = "drop_oldest"
    <3>1. Send(r, f) = [r EXCEPT !.queue = Append(Tail(q), f)]
      BY <1>5, <2>2 DEF Send
    <3> QED
      BY <3>1, <2>1, <2>2, <1>5 DEF Records
  <2>3. CASE Overflow = "close"
    <3>1. Send(r, f) = [r EXCEPT !.closing = TRUE]
      BY <1>5, <2>3 DEF Send
    <3> QED
      BY <3>1, <2>3, <1>5 DEF Records
  <2> QED
    BY <2>2, <2>3, <1>1
<1> QED
  BY <1>3, <1>4, <1>5

LEMMA TrackWeaker ==
  ASSUME NEW r \in Records, NEW s \in Records, NEW d, NEW g, Track(r, d, g),
         s.queue = r.queue, s.writer \in {r.writer, "gone"},
         s.at \in Live => r.at \in Live, r.closing => s.closing
  PROVE  Track(s, d, g)
BY DEF Track

LEMMA TrackReply ==
  ASSUME GatewayAssumption, NEW r \in Records, NEW d \in Seq(Int), NEW g \in Seq(Int), NEW f \in Int,
         f <= 0, Track(r, d, g)
  PROVE  Track(Send(r, f), d, g)
<1> DEFINE s == Send(r, f)
           q == r.queue
<1>1. q \in Seq(Int)
  BY DEF Records
<1>2. /\ s.at = r.at /\ s.writer = r.writer
      /\ r.closing => s = r
      /\ ~ r.closing =>
           \/ ~ s.closing /\ s.queue = Append(q, f)
           \/ /\ Overflow = "drop_oldest" /\ ~ s.closing
              /\ q # << >> /\ s.queue = Append(Tail(q), f)
           \/ Overflow = "close" /\ s.closing /\ s.queue = q
  BY SendIs
<1> HIDE DEF s
<1> SUFFICES Track(s, d, g)
  BY DEF s
<1>3. Line(q, d, g) /\ Line(Append(q, f), d, g) /\ (NoGap(q, d, g) => NoGap(Append(q, f), d, g))
      /\ (Complete(q, d, g) => Complete(Append(q, f), d, g))
  BY <1>1, LineReply DEF Track
<1>4. q # << >> => Line(Append(Tail(q), f), d, g)
  <2> SUFFICES ASSUME q # << >> PROVE Line(Append(Tail(q), f), d, g)
    OBVIOUS
  <2>1. Tail(q) \in Seq(Int)
    BY <1>1
  <2>2. Line(Tail(q), d, g)
    BY <1>1, <1>3, LineDrop
  <2> HIDE DEF q
  <2> QED
    BY <2>1, <2>2, LineReply
<1>5. CASE r.closing
  BY <1>2, <1>5
<1>6. CASE ~ s.closing /\ s.queue = Append(q, f) /\ ~ r.closing
  BY <1>2, <1>3, <1>6 DEF Track, q
<1>7. CASE Overflow = "drop_oldest" /\ q # << >> /\ s.queue = Append(Tail(q), f)
  BY <1>4, <1>7 DEF Track, q
<1>8. CASE Overflow = "close" /\ s.closing /\ s.queue = q
  BY <1>2, <1>8 DEF Track
<1> QED
  BY <1>2, <1>5, <1>6, <1>7, <1>8

LEMMA TrackDue ==
  ASSUME GatewayAssumption, NEW r \in Records, NEW d \in Seq(Int), NEW g \in Seq(Int), NEW x \in Int,
         x > 0, ~ Known(d, x), r.at \in Live, ~ r.closing, Track(r, d, g)
  PROVE  Track(Send(r, x), Append(d, x), g)
<1> DEFINE s == Send(r, x)
           q == r.queue
           e == Append(d, x)
<1>1. q \in Seq(Int)
  BY DEF Records
<1>2. /\ s.at = r.at /\ s.writer = r.writer
      /\ \/ ~ s.closing /\ s.queue = Append(q, x)
         \/ /\ Overflow = "drop_oldest" /\ ~ s.closing
            /\ q # << >> /\ s.queue = Append(Tail(q), x)
         \/ Overflow = "close" /\ s.closing /\ s.queue = q
  BY SendIs
<1> HIDE DEF s, q
<1>3. Line(q, d, g) /\ (Overflow = "close" => Prefix(d, g) /\ (r.writer = "run" => NoGap(q, d, g) /\ Complete(q, d, g)))
  BY DEF Track, q
<1>4. /\ Line(Append(q, x), e, g) /\ Line(q, e, g)
      /\ Prefix(d, g) =>
           /\ Prefix(e, g)
           /\ NoGap(q, d, g) => NoGap(q, e, g)
           /\ NoGap(q, d, g) /\ Complete(q, d, g) => NoGap(Append(q, x), e, g) /\ Complete(Append(q, x), e, g)
  BY <1>1, <1>3, LineDue
<1>5. q # << >> => Line(Append(Tail(q), x), e, g)
  <2> SUFFICES ASSUME q # << >> PROVE Line(Append(Tail(q), x), e, g)
    OBVIOUS
  <2>1. Tail(q) \in Seq(Int)
    BY <1>1
  <2>2. Line(Tail(q), d, g)
    BY <1>1, <1>3, LineDrop
  <2> QED
    BY <2>1, <2>2, LineDue
<1> HIDE DEF e
<1> SUFFICES Track(s, e, g)
  BY DEF s, e
<1>6. CASE ~ s.closing /\ s.queue = Append(q, x)
  BY <1>2, <1>3, <1>4, <1>6 DEF Track
<1>7. CASE Overflow = "drop_oldest" /\ q # << >> /\ s.queue = Append(Tail(q), x)
  BY <1>5, <1>7 DEF Track
<1>8. CASE Overflow = "close" /\ s.closing /\ s.queue = q
  BY <1>2, <1>3, <1>4, <1>8 DEF Track
<1> QED
  BY <1>2, <1>6, <1>7, <1>8

LEMMA TrackWrite ==
  ASSUME NEW r \in Records, NEW d \in Seq(Int), NEW g \in Seq(Int), NEW s \in Records,
         Track(r, d, g), r.queue # << >>, s.queue = Tail(r.queue), s.at = r.at, s.closing = r.closing,
         Distinct(d), Positive(d), s.writer \in {r.writer, "gone"}
  PROVE  /\ s.writer = "gone" \/ Head(r.queue) <= 0 => Track(s, d, g)
         /\ Head(r.queue) > 0 /\ r.writer = "run" => Track(s, d, Append(g, Head(r.queue)))
<1> DEFINE q == r.queue
<1>1. q \in Seq(Int)
  BY DEF Records
<1>2. Line(q, d, g)
  BY DEF Track
<1>3. Line(Tail(q), d, g)
  BY <1>1, <1>2, LineDrop
<1>4. ASSUME s.writer = "gone" PROVE Track(s, d, g)
  BY <1>3, <1>4 DEF Track
<1>5. ASSUME Head(q) <= 0 PROVE Track(s, d, g)
  <2>1. (NoGap(q, d, g) => NoGap(Tail(q), d, g)) /\ (Complete(q, d, g) => Complete(Tail(q), d, g))
    BY <1>1, <1>5, LineDrop
  <2>2. CASE s.writer = "gone"
    BY <1>4, <2>2
  <2>3. CASE s.writer = r.writer
    BY <2>1, <2>3, <1>3 DEF Track
  <2> QED
    BY <2>2, <2>3
<1>6. ASSUME Head(q) > 0, r.writer = "run" PROVE Track(s, d, Append(g, Head(q)))
  <2>1. /\ Line(Tail(q), d, Append(g, Head(q)))
        /\ Prefix(d, g) /\ NoGap(q, d, g) =>
             /\ Prefix(d, Append(g, Head(q))) /\ NoGap(Tail(q), d, Append(g, Head(q)))
             /\ Complete(q, d, g) => Complete(Tail(q), d, Append(g, Head(q)))
    BY <1>1, <1>2, <1>6, LineWrite
  <2> QED
    BY <2>1, <1>6 DEF Track
<1> QED
  BY <1>4, <1>5, <1>6

-----------------------------------------------------------------------------
(* A step that leaves the registers as they are, and the place of every    *)
(* connection in them.                                                     *)
Calm(x) == /\ conn'[x].rooms = conn[x].rooms
           /\ conn'[x].at \in Live <=> conn[x].at \in Live
           /\ conn'[x].at = "removed" <=> conn[x].at = "removed"
           /\ conn'[x].at = "asking" => conn[x].at = "asking" \/ Cardinality(conn[x].rooms) < MaxRooms

LEMMA CalmStep ==
  ASSUME IInv, index' = index, \A x \in Conns : Calm(x),
         \A w \in Workers : stopping'[w] # "down" => stopping[w] # "down" /\ gauge'[w] = gauge[w]
  PROVE  Registry' /\ Counted' /\ Quota'
<1>1. Registry /\ Counted /\ Quota
  BY DEF IInv
<1>2. ASSUME NEW w \in Workers PROVE (SocketsOf(w) /\ UsersOf(w) /\ RoomsOf(w))'
  <2>1. SocketsOf(w) /\ UsersOf(w) /\ RoomsOf(w)
    BY <1>1, <1>2 DEF Registry
  <2>2. SocketsOf(w)'
    <3>1. {x \in Conns : Home[x] = w /\ conn'[x].at \in Live} = {x \in Conns : Home[x] = w /\ conn[x].at \in Live}
      BY DEF Calm
    <3> QED
      BY <2>1, <3>1 DEF SocketsOf
  <2>3. UsersOf(w)'
    BY <2>1 DEF UsersOf
  <2>4. RoomsOf(w)'
    <3>1. \A r : {x \in Conns : Home[x] = w /\ r \in conn'[x].rooms} = {x \in Conns : Home[x] = w /\ r \in conn[x].rooms}
      BY DEF Calm
    <3> QED
      BY <2>1, <3>1 DEF RoomsOf
  <2> QED
    BY <2>2, <2>3, <2>4
<1>3. Registry'
  BY <1>2 DEF Registry
<1>4. Counted'
  <2> SUFFICES ASSUME NEW w \in Workers, Running(w)' PROVE gauge'[w] = Cardinality(Alive(w)')
    BY DEF Counted
  <2>1. stopping[w] # "down" /\ gauge'[w] = gauge[w]
    BY DEF Running
  <2>2. {x \in Conns : Home[x] = w /\ conn'[x].at \in Live \cup {"removed"}}
        = {x \in Conns : Home[x] = w /\ conn[x].at \in Live \cup {"removed"}}
    BY DEF Calm
  <2>3. Alive(w)' = Alive(w)
    BY <2>2 DEF Alive
  <2> QED
    BY <2>1, <2>3, <1>1 DEF Counted, Running
<1>5. Quota'
  <2>1. PerUser > 0 => \A w \in Workers, u \in Users : Cardinality(In(index'[w].users, u)) <= PerUser
    BY <1>1 DEF Quota
  <2>2. ASSUME NEW x \in Conns
        PROVE  /\ IsFiniteSet(conn'[x].rooms) /\ Cardinality(conn'[x].rooms) <= MaxRooms
               /\ conn'[x].at = "asking" => Cardinality(conn'[x].rooms) < MaxRooms
    BY <1>1, <2>2 DEF Quota, Calm
  <2> QED
    BY <2>1, <2>2 DEF Quota
<1> QED
  BY <1>3, <1>4, <1>5

LEMMA HereIs ==
  ASSUME Kinds, NEW c \in Conns, NEW r \in Records, Here(c, r)
  PROVE  conn' \in [Conns -> Records] /\ conn'[c] = r /\ \A x \in Conns : x # c => conn'[x] = conn[x]
BY DEF Kinds, Here

(* What a connection does by itself, and what is said to it alone.         *)
LEMMA Talk ==
  ASSUME IInv, NEW c \in Conns, NEW r \in Records, Here(c, r), UNCHANGED Others,
         Track(r, due[c], got[c]), Fresh(r, due[c], got[c]), r.rooms = conn[c].rooms,
         r.at \in Live <=> conn[c].at \in Live, r.at = "removed" <=> conn[c].at = "removed",
         r.at = "asking" => conn[c].at = "asking" \/ Cardinality(conn[c].rooms) < MaxRooms
  PROVE  IInv'
<1>1. conn' \in [Conns -> Records] /\ conn'[c] = r /\ \A x \in Conns : x # c => conn'[x] = conn[x]
  BY HereIs DEF IInv
<1>2. /\ index' = index /\ gauge' = gauge /\ emits' = emits /\ due' = due /\ got' = got
      /\ channel' = channel /\ stopping' = stopping
  BY DEF Others
<1>3. Kinds'
  BY <1>1, <1>2 DEF IInv, Kinds
<1>4. ASSUME NEW x \in Conns PROVE Calm(x)
  BY <1>1, <1>4 DEF Calm
<1>5. Registry' /\ Counted' /\ Quota'
  BY <1>2, <1>4, CalmStep
<1>6. Dues'
  BY <1>2 DEF IInv, Dues, DueOf, ChannelOf
<1>7. Lines'
  <2> SUFFICES ASSUME NEW x \in Conns PROVE Fresh(conn'[x], due[x], got[x]) /\ Track(conn'[x], due[x], got[x])
    BY <1>2 DEF Lines
  <2>1. CASE x = c
    BY <2>1, <1>1
  <2>2. CASE x # c
    BY <2>2, <1>1 DEF IInv, Lines
  <2> QED
    BY <2>1, <2>2
<1> QED
  BY <1>3, <1>5, <1>6, <1>7 DEF IInv

LEMMA Said ==
  ASSUME GatewayAssumption, IInv, NEW c \in Conns, NEW f \in Int, f <= 0, NEW at \in Live, conn[c].at \in Live,
         at = "asking" => conn[c].at = "asking" \/ Cardinality(conn[c].rooms) < MaxRooms,
         NEW b \in Records, b.at = conn[c].at, b.rooms = conn[c].rooms, b.queue = conn[c].queue,
         b.writer = conn[c].writer, b.closing = conn[c].closing,
         NEW r \in Records, r = [Send(b, f) EXCEPT !.at = at], Here(c, r), UNCHANGED Others
  PROVE  IInv'
<1> DEFINE s == Send(b, f)
<1>1. conn[c] \in Records /\ due[c] \in Seq(Int) /\ got[c] \in Seq(Int)
  BY DEF IInv, Kinds
<1>2. s \in Records /\ s.at = conn[c].at /\ s.rooms = conn[c].rooms
  BY <1>1, SendIs
<1>0. Track(b, due[c], got[c])
  BY <1>1, TrackWeaker DEF IInv, Lines
<1>3. Track(s, due[c], got[c])
  BY <1>0, <1>1, TrackReply
<1> HIDE DEF s
<1>4. r = [s EXCEPT !.at = at]
  BY DEF s
<1>5. r.at = at /\ r.rooms = s.rooms /\ r.queue = s.queue /\ r.writer = s.writer /\ r.closing = s.closing
  BY <1>4, <1>2 DEF Records
<1>6. Track(r, due[c], got[c])
  BY <1>2, <1>3, <1>5, TrackWeaker
<1>7. Fresh(r, due[c], got[c]) /\ at # "removed" /\ conn[c].at # "removed"
  BY <1>5 DEF Fresh, Live
<1> QED
  BY <1>2, <1>5, <1>6, <1>7, Talk

(* Only its place changes, or it begins to close.                          *)
LEMMA Moved ==
  ASSUME IInv, NEW c \in Conns, NEW r \in Records, Here(c, r), UNCHANGED Others,
         r.rooms = conn[c].rooms, r.queue = conn[c].queue, r.writer = conn[c].writer, conn[c].closing => r.closing,
         r.at \in Live <=> conn[c].at \in Live, r.at = "removed" <=> conn[c].at = "removed",
         r.at \in {"new", "guards"} => conn[c].at \in {"new", "guards"},
         r.at = "asking" => conn[c].at = "asking" \/ Cardinality(conn[c].rooms) < MaxRooms
  PROVE  IInv'
<1>1. conn[c] \in Records
  BY DEF IInv, Kinds
<1>2. Fresh(conn[c], due[c], got[c]) /\ Track(conn[c], due[c], got[c])
  BY DEF IInv, Lines
<1>3. Track(r, due[c], got[c])
  BY <1>1, <1>2, TrackWeaker
<1>4. Fresh(r, due[c], got[c])
  BY <1>2 DEF Fresh
<1> QED
  BY <1>3, <1>4, Talk

LEMMA Replied ==
  ASSUME GatewayAssumption, IInv, NEW c \in Conns, conn[c].at \in Live, NEW at \in Live,
         NEW f \in Int, f <= 0, Reply(c, at, f), UNCHANGED Others,
         at = "asking" => conn[c].at = "asking" \/ Cardinality(conn[c].rooms) < MaxRooms
  PROVE  IInv'
<1> DEFINE r == [Send(conn[c], f) EXCEPT !.at = at]
<1>1. conn[c] \in Records
  BY DEF IInv, Kinds
<1>2. Send(conn[c], f) \in Records /\ at \in Places
  BY <1>1, SendIs DEF Live, Places
<1>3. r \in Records
  BY <1>2 DEF Records
<1>4. Here(c, r)
  BY DEF Reply
<1> HIDE DEF r
<1>5. r = [Send(conn[c], f) EXCEPT !.at = at]
  BY DEF r
<1> QED
  BY <1>1, <1>3, <1>4, <1>5, Said

LEMMA Went ==
  ASSUME IInv, NEW c \in Conns, NEW at \in Places, Go(c, at), UNCHANGED Others,
         at \in Live <=> conn[c].at \in Live, at = "removed" <=> conn[c].at = "removed",
         at \in {"new", "guards"} => conn[c].at \in {"new", "guards"},
         at = "asking" => conn[c].at = "asking" \/ Cardinality(conn[c].rooms) < MaxRooms
  PROVE  IInv'
<1> DEFINE r == [conn[c] EXCEPT !.at = at]
<1>1. conn[c] \in Records
  BY DEF IInv, Kinds
<1>2. r \in Records /\ r.at = at /\ r.rooms = conn[c].rooms /\ r.queue = conn[c].queue /\ r.writer = conn[c].writer
      /\ r.closing = conn[c].closing
  BY <1>1 DEF Records
<1>3. Here(c, r)
  BY DEF Go
<1> HIDE DEF r
<1> QED
  BY <1>2, <1>3, Moved

LEMMA Closed ==
  ASSUME IInv, NEW c \in Conns, NEW at \in Places, Here(c, [conn[c] EXCEPT !.at = at, !.closing = TRUE]),
         UNCHANGED Others, at \in Live <=> conn[c].at \in Live, at = "removed" <=> conn[c].at = "removed",
         at \in {"new", "guards"} => conn[c].at \in {"new", "guards"},
         at = "asking" => conn[c].at = "asking"
  PROVE  IInv'
<1> DEFINE r == [conn[c] EXCEPT !.at = at, !.closing = TRUE]
<1>1. conn[c] \in Records
  BY DEF IInv, Kinds
<1>2. r \in Records /\ r.at = at /\ r.rooms = conn[c].rooms /\ r.queue = conn[c].queue /\ r.writer = conn[c].writer
      /\ r.closing
  BY <1>1 DEF Records
<1>3. Here(c, r)
  OBVIOUS
<1> HIDE DEF r
<1> QED
  BY <1>2, <1>3, Moved

LEMMA Kept == ASSUME IInv, UNCHANGED << conn, Others >> PROVE IInv'
<1>1. /\ conn' = conn /\ index' = index /\ gauge' = gauge /\ emits' = emits /\ due' = due /\ got' = got
      /\ channel' = channel /\ stopping' = stopping
  BY DEF Others
<1>2. Kinds' /\ Counted' /\ Lines'
  BY <1>1 DEF IInv, Kinds, Counted, Alive, Running, Lines
<1>3. Registry' /\ Quota' /\ Dues'
  BY <1>1 DEF IInv, Registry, SocketsOf, UsersOf, RoomsOf, Quota, Dues, DueOf, ChannelOf
<1> QED
  BY <1>2, <1>3 DEF IInv

LEMMA ReceiveStep ==
  ASSUME GatewayAssumption, IInv, NEW c \in Conns, NEW fine \in BOOLEAN, Receive(c, fine)
  PROVE  IInv'
<1> DEFINE b == [conn[c] EXCEPT !.frames = @ + 1]
<1>1. conn[c] \in Records /\ conn[c].at = "loop" /\ UNCHANGED Others
  BY DEF Receive, IInv, Kinds
<1>2. /\ b \in Records /\ b.at = conn[c].at /\ b.rooms = conn[c].rooms /\ b.queue = conn[c].queue
      /\ b.writer = conn[c].writer /\ b.closing = conn[c].closing
  BY <1>1 DEF Records
<1>3. Here(c, IF ~ fine THEN Send(b, ANSWER) ELSE [b EXCEPT !.at = IF b.closing THEN "leaving" ELSE "handler"])
  BY DEF Receive
<1> HIDE DEF b
<1>4. CASE ~ fine
  <2> DEFINE r == Send(b, ANSWER)
  <2>1. ANSWER \in Int /\ ANSWER <= 0
    BY DEF ANSWER
  <2>2. r \in Records /\ r.at = "loop"
    BY <1>1, <1>2, <2>1, SendIs
  <2>3. Here(c, r)
    BY <1>3, <1>4
  <2>4. r = [r EXCEPT !.at = "loop"]
    BY <2>2 DEF Records
  <2>5. "loop" \in Live
    BY DEF Live
  <2>6. [Send(b, ANSWER) EXCEPT !.at = "loop"] = r
    BY <2>4
  <2> HIDE DEF r
  <2> QED
    BY <1>1, <1>2, <2>1, <2>2, <2>3, <2>5, <2>6, Said
<1>5. CASE fine
  <2> DEFINE r == [b EXCEPT !.at = IF b.closing THEN "leaving" ELSE "handler"]
  <2>1. /\ r \in Records /\ r.at \in {"leaving", "handler"} /\ r.rooms = conn[c].rooms /\ r.queue = conn[c].queue
        /\ r.writer = conn[c].writer /\ r.closing = conn[c].closing
    BY <1>2 DEF Records, Places
  <2>2. Here(c, r)
    BY <1>3, <1>5
  <2> HIDE DEF r
  <2>3. r.at \in Live /\ conn[c].at \in Live
    BY <2>1, <1>1 DEF Live
  <2> QED
    BY <1>1, <2>1, <2>2, <2>3, Moved
<1> QED
  BY <1>4, <1>5

LEMMA HeartbeatStep == ASSUME GatewayAssumption, IInv, NEW c \in Conns, Heartbeat(c) PROVE IInv'
<1>1. conn[c] \in Records /\ conn[c].at \in {"loop", "handler", "asking"} /\ UNCHANGED Others
  BY DEF Heartbeat, IInv, Kinds
<1>2. ANSWER \in Int /\ ANSWER <= 0 /\ conn[c].at \in Live
  BY <1>1 DEF ANSWER, Live
<1> DEFINE r == Send(conn[c], ANSWER)
<1>3. r \in Records /\ r.at = conn[c].at
  BY <1>1, <1>2, SendIs
<1>4. Here(c, r)
  BY DEF Heartbeat
<1>5. [Send(conn[c], ANSWER) EXCEPT !.at = conn[c].at] = r
  BY <1>3 DEF Records
<1> HIDE DEF r
<1> QED
  BY <1>1, <1>2, <1>3, <1>4, <1>5, Said

(* The steps that leave the registers alone.                               *)
Quiet(c) == \/ Accept(c) \/ Reject(c, TRUE) \/ Reject(c, FALSE) \/ Greeted(c) \/ TurnedAway(c)
            \/ Receive(c, TRUE) \/ Receive(c, FALSE) \/ Disconnected(c) \/ Idle(c)
            \/ Handled(c) \/ AskRoom(c) \/ NotAllowed(c)
            \/ ClientGone(c) \/ CloseSoon(c) \/ Heartbeat(c) \/ CloseOne(c)

LEMMA QuietStep == ASSUME GatewayAssumption, IInv, NEW c \in Conns, Quiet(c) PROVE IInv'
<1>0. conn[c] \in Records /\ conn[c].at \in Places
  BY DEF IInv, Kinds, Records
<1>a. CONNECTED \in Int /\ CONNECTED <= 0 /\ ANSWER \in Int /\ ANSWER <= 0 /\ "loop" \in Live
  BY DEF CONNECTED, ANSWER, Live
<1>1. CASE Accept(c)
  <2>1. conn[c].at = "new" /\ (Go(c, "refused") \/ Go(c, "guards")) /\ UNCHANGED Others
    BY <1>1 DEF Accept
  <2> QED
    BY <2>1, Went DEF Live, Places
<1>2. CASE Reject(c, TRUE) \/ Reject(c, FALSE)
  <2>1. conn[c].at = "guards" /\ Go(c, "refused") /\ UNCHANGED Others
    BY <1>2 DEF Reject
  <2> QED
    BY <2>1, Went DEF Live, Places
<1>3. CASE Greeted(c)
  <2>1. conn[c].at = "greet" /\ Reply(c, "loop", CONNECTED) /\ UNCHANGED Others
    BY <1>3 DEF Greeted
  <2>2. conn[c].at \in Live
    BY <2>1 DEF Live
  <2> QED
    BY <2>1, <2>2, <1>a, Replied
<1>4. CASE TurnedAway(c)
  <2>1. conn[c].at = "greet" /\ Here(c, [conn[c] EXCEPT !.at = "leaving", !.closing = TRUE]) /\ UNCHANGED Others
    BY <1>4 DEF TurnedAway
  <2> QED
    BY <2>1, Closed DEF Live, Places
<1>5. CASE Receive(c, TRUE) \/ Receive(c, FALSE)
  BY <1>5, ReceiveStep
<1>6. CASE Disconnected(c)
  <2>1. conn[c].at = "loop" /\ Go(c, "leaving") /\ UNCHANGED Others
    BY <1>6 DEF Disconnected
  <2> QED
    BY <2>1, Went DEF Live, Places
<1>7. CASE Idle(c)
  <2>1. conn[c].at = "loop" /\ Here(c, [conn[c] EXCEPT !.at = "leaving", !.closing = TRUE]) /\ UNCHANGED Others
    BY <1>7 DEF Idle
  <2> QED
    BY <2>1, Closed DEF Live, Places
<1>8. CASE Handled(c)
  <2>1. conn[c].at = "handler" /\ (Reply(c, "loop", ANSWER) \/ Go(c, "loop")) /\ UNCHANGED Others
    BY <1>8 DEF Handled
  <2>2. conn[c].at \in Live /\ "loop" \in Places /\ conn[c].at # "removed"
    BY <2>1 DEF Live, Places
  <2>3. CASE Reply(c, "loop", ANSWER)
    BY <2>1, <2>2, <2>3, <1>a, Replied
  <2>4. CASE Go(c, "loop")
    BY <2>1, <2>2, <2>4, <1>a, Went
  <2> QED
    BY <2>1, <2>3, <2>4
<1>9. CASE AskRoom(c)
  <2>1. conn[c].at = "handler" /\ UNCHANGED Others /\ (IF Cardinality(conn[c].rooms) >= MaxRooms THEN Reply(c, "loop", ANSWER) ELSE Go(c, "asking"))
    BY <1>9 DEF AskRoom
  <2>2. conn[c].at \in Live /\ "asking" \in Places /\ "asking" \in Live
    BY <2>1 DEF Live, Places
  <2>3. CASE Reply(c, "loop", ANSWER)
    BY <2>1, <2>2, <2>3, <1>a, Replied
  <2>4. CASE Go(c, "asking") /\ ~ (Cardinality(conn[c].rooms) >= MaxRooms)
    <3>1. IsFiniteSet(conn[c].rooms) /\ MaxRooms \in Nat
      BY DEF IInv, Quota, GatewayAssumption
    <3>2. Cardinality(conn[c].rooms) \in Nat
      BY <3>1, FS_CardinalityType
    <3>3. Cardinality(conn[c].rooms) < MaxRooms
      BY <3>1, <3>2, <2>4
    <3> QED
      BY <2>1, <2>2, <2>4, <3>3, Went
  <2> QED
    BY <2>1, <2>3, <2>4
<1>10. CASE NotAllowed(c)
  <2>1. conn[c].at = "asking" /\ Reply(c, "loop", ANSWER) /\ UNCHANGED Others
    BY <1>10 DEF NotAllowed
  <2>2. conn[c].at \in Live
    BY <2>1 DEF Live
  <2> QED
    BY <2>1, <2>2, <1>a, Replied
<1>11. CASE ClientGone(c) \/ CloseSoon(c)
  <2>1. UNCHANGED << conn, Others >>
    BY <1>11 DEF ClientGone, CloseSoon
  <2> QED
    BY <2>1, Kept
<1>12. CASE Heartbeat(c)
  BY <1>12, HeartbeatStep
<1>13. CASE CloseOne(c)
  <2>1. Here(c, [conn[c] EXCEPT !.closing = TRUE]) /\ UNCHANGED Others
    BY <1>13 DEF CloseOne
  <2>2. [conn[c] EXCEPT !.closing = TRUE] = [conn[c] EXCEPT !.at = conn[c].at, !.closing = TRUE]
    BY <1>0 DEF Records
  <2>3. Here(c, [conn[c] EXCEPT !.at = conn[c].at, !.closing = TRUE])
    BY <2>1, <2>2
  <2> QED
    BY <2>1, <2>3, <1>0, Closed
<1> QED
  BY <1>1, <1>2, <1>3, <1>4, <1>5, <1>6, <1>7, <1>8, <1>9, <1>10, <1>11, <1>12, <1>13 DEF Quiet

-----------------------------------------------------------------------------
(* The registers: a name without members is not in them.                   *)
LEMMA TableIs ==
  ASSUME NEW K, NEW t \in TablesOf(K)
  PROVE  DOMAIN t \subseteq K /\ t \in [DOMAIN t -> SUBSET Conns]
BY DEF TablesOf

LEMMA IsTable ==
  ASSUME NEW K, NEW S \in SUBSET K, NEW t \in [S -> SUBSET Conns]
  PROVE  t \in TablesOf(K)
BY DEF TablesOf

LEMMA InIs ==
  ASSUME NEW K, NEW t \in TablesOf(K)
  PROVE  \A x : In(t, x) \in SUBSET Conns
BY TableIs DEF In

LEMMA EnrolIs ==
  ASSUME NEW K, NEW t \in TablesOf(K), NEW k \in K, NEW c \in Conns
  PROVE  /\ Enrol(t, k, c) \in TablesOf(K)
         /\ \A x : In(Enrol(t, k, c), x) = In(t, x) \cup IF x = k THEN {c} ELSE {}
         /\ Named(t) => Named(Enrol(t, k, c))
<1> DEFINE S == DOMAIN t \cup {k}
           e == [x \in S |-> In(t, x) \cup IF x = k THEN {c} ELSE {}]
<1>1. Enrol(t, k, c) = e
  BY DEF Enrol
<1>2. S \in SUBSET K
  BY TableIs
<1>3. \A x : In(t, x) \in SUBSET Conns
  BY InIs
<1>4. e \in [S -> SUBSET Conns]
  BY <1>3
<1>5. e \in TablesOf(K)
  BY <1>2, <1>4, IsTable
<1>6. \A x : In(e, x) = In(t, x) \cup IF x = k THEN {c} ELSE {}
  <2> TAKE x
  <2>1. CASE x \in S
    BY <2>1 DEF In
  <2>2. CASE x \notin S
    <3>1. x # k /\ x \notin DOMAIN t /\ DOMAIN e = S
      BY <2>2
    <3>2. In(t, x) = {} /\ In(e, x) = {}
      BY <3>1, <2>2 DEF In
    <3> QED
      BY <3>1, <3>2
  <2> QED
    BY <2>1, <2>2
<1>7. ASSUME Named(t) PROVE Named(e)
  BY <1>7 DEF Named, In
<1> QED
  BY <1>1, <1>5, <1>6, <1>7

LEMMA StrikeIs ==
  ASSUME NEW K, NEW t \in TablesOf(K), NEW k, NEW c \in Conns
  PROVE  /\ Strike(t, k, c) \in TablesOf(K)
         /\ \A x : In(Strike(t, k, c), x) = In(t, x) \ IF x = k THEN {c} ELSE {}
         /\ Named(t) => Named(Strike(t, k, c))
<1> DEFINE u == [x \in DOMAIN t |-> IF x = k THEN t[x] \ {c} ELSE t[x]]
           S == {y \in DOMAIN u : y # k \/ u[y] # {}}
           e == [x \in S |-> u[x]]
<1>1. Strike(t, k, c) = e
  BY DEF Strike
<1>2. DOMAIN t \subseteq K /\ t \in [DOMAIN t -> SUBSET Conns]
  BY TableIs
<1>3. u \in [DOMAIN t -> SUBSET Conns] /\ DOMAIN u = DOMAIN t
      /\ \A x \in DOMAIN t : u[x] = IF x = k THEN t[x] \ {c} ELSE t[x]
  BY <1>2
<1> HIDE DEF u
<1>4. S \in SUBSET K /\ S \subseteq DOMAIN t
  BY <1>2, <1>3
<1>5. e \in [S -> SUBSET Conns] /\ DOMAIN e = S /\ \A x \in S : e[x] = u[x]
  BY <1>3
<1>6. e \in TablesOf(K)
  BY <1>4, <1>5, IsTable
<1>7. \A x : In(e, x) = In(t, x) \ IF x = k THEN {c} ELSE {}
  <2> TAKE x
  <2>1. CASE x \in S
    <3>1. In(e, x) = u[x] /\ In(t, x) = t[x]
      BY <2>1, <1>4, <1>5 DEF In
    <3>2. u[x] = IF x = k THEN t[x] \ {c} ELSE t[x]
      BY <2>1, <1>3, <1>4
    <3> QED
      BY <3>1, <3>2
  <2>2. CASE x \in DOMAIN t /\ x \notin S
    <3>1. In(e, x) = {} /\ In(t, x) = t[x]
      BY <2>2, <1>5 DEF In
    <3>2. x = k /\ u[x] = {}
      BY <2>2, <1>3
    <3>3. t[x] \ {c} = {}
      BY <3>2, <2>2, <1>3
    <3> QED
      BY <3>1, <3>2, <3>3
  <2>3. CASE x \notin DOMAIN t
    <3>1. In(e, x) = {} /\ In(t, x) = {}
      BY <2>3, <1>4, <1>5 DEF In
    <3> QED
      BY <3>1
  <2> QED
    BY <2>1, <2>2, <2>3
<1>8. ASSUME Named(t) PROVE Named(e)
  <2> SUFFICES ASSUME NEW x \in S PROVE u[x] # {}
    BY <1>5 DEF Named
  <2>1. CASE x = k
    BY <2>1
  <2>2. CASE x # k
    <3>1. u[x] = t[x] /\ x \in DOMAIN t
      BY <2>2, <1>3, <1>4
    <3> QED
      BY <3>1, <1>8 DEF Named
  <2> QED
    BY <2>1, <2>2
<1> HIDE DEF e
<1> QED
  BY <1>1, <1>6, <1>7, <1>8

LEMMA AliveStep ==
  ASSUME GatewayAssumption, Kinds, NEW c \in Conns, NEW r \in Records, Here(c, r), NEW v \in Workers
  PROVE  /\ Cardinality(Alive(v)) \in Nat
         /\ v # Home[c] => Alive(v)' = Alive(v)
         /\ v = Home[c] /\ (r.at \in Live \cup {"removed"} <=> conn[c].at \in Live \cup {"removed"}) => Alive(v)' = Alive(v)
         /\ v = Home[c] /\ r.at \in Live \cup {"removed"} /\ conn[c].at \notin Live \cup {"removed"} =>
              Cardinality(Alive(v)') = Cardinality(Alive(v)) + 1
         /\ v = Home[c] /\ r.at \notin Live \cup {"removed"} /\ conn[c].at \in Live \cup {"removed"} =>
              Cardinality(Alive(v)') = Cardinality(Alive(v)) - 1
<1> DEFINE L == Live \cup {"removed"}
<1>1. conn' \in [Conns -> Records] /\ conn'[c] = r /\ \A x \in Conns : x # c => conn'[x] = conn[x]
  BY HereIs
<1>2. Alive(v)' = {x \in Conns : Home[x] = v /\ conn'[x].at \in L} /\ Alive(v) = {x \in Conns : Home[x] = v /\ conn[x].at \in L}
  BY DEF Alive
<1> HIDE DEF L
<1>3. IsFiniteSet(Alive(v)) /\ Cardinality(Alive(v)) \in Nat
  <2>1. IsFiniteSet(Conns) /\ Alive(v) \subseteq Conns
    BY <1>2 DEF GatewayAssumption
  <2> QED
    BY <2>1, FS_Subset, FS_CardinalityType
<1>4. v # Home[c] => Alive(v)' = Alive(v)
  BY <1>1, <1>2
<1>5. v = Home[c] /\ (r.at \in L <=> conn[c].at \in L) => Alive(v)' = Alive(v)
  <2>1. \A x \in Conns : (r.at \in L <=> conn[c].at \in L) => (conn'[x].at \in L <=> conn[x].at \in L)
    BY <1>1
  <2> QED
    BY <1>2, <2>1
<1>6. ASSUME v = Home[c], r.at \in L, conn[c].at \notin L PROVE Cardinality(Alive(v)') = Cardinality(Alive(v)) + 1
  <2>1. Alive(v)' = Alive(v) \cup {c} /\ c \notin Alive(v)
    BY <1>1, <1>2, <1>6
  <2> HIDE <1>2
  <2> QED
    BY <2>1, <1>3, FS_AddElement
<1>7. ASSUME v = Home[c], r.at \notin L, conn[c].at \in L PROVE Cardinality(Alive(v)') = Cardinality(Alive(v)) - 1
  <2>1. Alive(v)' = Alive(v) \ {c} /\ c \in Alive(v)
    BY <1>1, <1>2, <1>7
  <2> QED
    BY <2>1, <1>3, FS_RemoveElement
<1> QED
  BY <1>3, <1>4, <1>5, <1>6, <1>7 DEF L

(* A step that writes to the registers of the connection's worker.         *)
Entered(old, c, r, ns) ==
  /\ ns.sockets = IF r.at \in Live THEN old.sockets \cup {c} ELSE old.sockets \ {c}
  /\ \A u \in Users : In(ns.users, u) = {x \in ns.sockets : User[x] = u}
  /\ Named(ns.users) /\ Named(ns.rooms)
  /\ \A x \in Rooms : In(ns.rooms, x) = IF x \in r.rooms THEN In(old.rooms, x) \cup {c} ELSE In(old.rooms, x) \ {c}
WithinQuota(ns, r) ==
  /\ PerUser > 0 => \A u \in Users : Cardinality(In(ns.users, u)) <= PerUser
  /\ IsFiniteSet(r.rooms) /\ Cardinality(r.rooms) <= MaxRooms /\ r.at # "asking"
Weight(at) == IF at \in Live \cup {"removed"} THEN 1 ELSE 0

LEMMA Booked ==
  ASSUME GatewayAssumption, IInv, NEW c \in Conns, NEW r \in Records, Here(c, r), NEW ns \in Indexes,
         index' = [index EXCEPT ![Home[c]] = ns], emits' = emits, due' = due, got' = got, channel' = channel,
         stopping' = stopping,
         gauge' = [gauge EXCEPT ![Home[c]] = @ + Weight(r.at) - Weight(conn[c].at)],
         Entered(index[Home[c]], c, r, ns), WithinQuota(ns, r),
         Track(r, due[c], got[c]), Fresh(r, due[c], got[c])
  PROVE  IInv'
<1> SUFFICES ASSUME
         ns.sockets = IF r.at \in Live THEN index[Home[c]].sockets \cup {c} ELSE index[Home[c]].sockets \ {c},
         \A u \in Users : In(ns.users, u) = {x \in ns.sockets : User[x] = u},
         Named(ns.users), Named(ns.rooms),
         \A x \in Rooms : In(ns.rooms, x) = IF x \in r.rooms THEN In(index[Home[c]].rooms, x) \cup {c}
                                            ELSE In(index[Home[c]].rooms, x) \ {c},
         PerUser > 0 => \A u \in Users : Cardinality(In(ns.users, u)) <= PerUser,
         IsFiniteSet(r.rooms), Cardinality(r.rooms) <= MaxRooms, r.at # "asking"
             PROVE  IInv'
  BY DEF Entered, WithinQuota
<1> DEFINE w == Home[c]
<1>1. conn' \in [Conns -> Records] /\ conn'[c] = r /\ \A x \in Conns : x # c => conn'[x] = conn[x]
  BY HereIs DEF IInv
<1>2. w \in Workers /\ index \in [Workers -> Indexes] /\ gauge \in [Workers -> Int]
  BY DEF GatewayAssumption, IInv, Kinds
<1>3. index' \in [Workers -> Indexes] /\ index'[w] = ns /\ \A v \in Workers : v # w => index'[v] = index[v]
  BY <1>2
<1>4. Weight(r.at) - Weight(conn[c].at) \in Int
  BY DEF Weight
<1>5. /\ gauge' \in [Workers -> Int] /\ gauge'[w] = gauge[w] + Weight(r.at) - Weight(conn[c].at)
      /\ \A v \in Workers : v # w => gauge'[v] = gauge[v]
  BY <1>2, <1>4 DEF Weight
<1>6. Kinds'
  BY <1>1, <1>3, <1>5 DEF IInv, Kinds
<1>7. Registry'
  <2> SUFFICES ASSUME NEW v \in Workers PROVE (SocketsOf(v) /\ UsersOf(v) /\ RoomsOf(v))'
    BY DEF Registry
  <2>1. SocketsOf(v) /\ UsersOf(v) /\ RoomsOf(v)
    BY DEF IInv, Registry
  <2>2. CASE v # w
    <3>1. index'[v] = index[v]
      BY <2>2, <1>3
    <3>2. /\ {x \in Conns : Home[x] = v /\ conn'[x].at \in Live} = {x \in Conns : Home[x] = v /\ conn[x].at \in Live}
          /\ \A y : {x \in Conns : Home[x] = v /\ y \in conn'[x].rooms} = {x \in Conns : Home[x] = v /\ y \in conn[x].rooms}
      BY <2>2, <1>1
    <3> QED
      BY <2>1, <3>1, <3>2 DEF SocketsOf, UsersOf, RoomsOf
  <2>3. CASE v = w
    <3>1. index[w].sockets = {x \in Conns : Home[x] = w /\ conn[x].at \in Live}
      BY <2>1, <2>3 DEF SocketsOf
    <3>2. ns.sockets = {x \in Conns : Home[x] = w /\ conn'[x].at \in Live}
      <4>1. CASE r.at \in Live
        BY <3>1, <4>1, <1>1
      <4>2. CASE r.at \notin Live
        BY <3>1, <4>2, <1>1
      <4> QED
        BY <4>1, <4>2
    <3>3. SocketsOf(v)' /\ UsersOf(v)'
      BY <3>2, <2>3, <1>3 DEF SocketsOf, UsersOf
    <3>4. ASSUME NEW y \in Rooms PROVE In(ns.rooms, y) = {x \in Conns : Home[x] = w /\ y \in conn'[x].rooms}
      <4>1. In(index[w].rooms, y) = {x \in Conns : Home[x] = w /\ y \in conn[x].rooms}
        BY <2>1, <2>3 DEF RoomsOf
      <4>2. CASE y \in r.rooms
        BY <4>1, <4>2, <1>1
      <4>3. CASE y \notin r.rooms
        <5>1. \A x \in Conns : y \in conn'[x].rooms <=> x # c /\ y \in conn[x].rooms
          BY <4>3, <1>1
        <5>2. In(ns.rooms, y) = In(index[w].rooms, y) \ {c}
          BY <4>3
        <5> QED
          BY <4>1, <5>1, <5>2
      <4> QED
        BY <4>2, <4>3
    <3>5. RoomsOf(v)'
      BY <3>4, <2>3, <1>3 DEF RoomsOf
    <3> QED
      BY <3>3, <3>5
  <2> QED
    BY <2>2, <2>3
<1>8. Counted'
  <2> SUFFICES ASSUME NEW v \in Workers, Running(v)' PROVE gauge'[v] = Cardinality(Alive(v)')
    BY DEF Counted
  <2>1. gauge[v] = Cardinality(Alive(v))
    BY DEF IInv, Counted, Running
  <2>2. CASE v # w
    BY <2>1, <2>2, <1>5, AliveStep DEF IInv
  <2>3. CASE v = w
    <3>1. Kinds
      BY DEF IInv
    <3>2. gauge'[w] = Cardinality(Alive(w)) + Weight(r.at) - Weight(conn[c].at)
      BY <2>1, <2>3, <1>5
    <3>3. CASE r.at \in Live \cup {"removed"} /\ conn[c].at \in Live \cup {"removed"}
      <4>1. Alive(w)' = Alive(w) /\ Cardinality(Alive(w)) \in Nat
        BY <3>1, <3>3, <1>2, AliveStep
      <4>2. gauge'[w] = Cardinality(Alive(w))
        BY <4>1, <3>2, <3>3 DEF Weight
      <4> QED
        BY <4>1, <4>2, <2>3
    <3>4. CASE r.at \notin Live \cup {"removed"} /\ conn[c].at \notin Live \cup {"removed"}
      <4>1. Alive(w)' = Alive(w) /\ Cardinality(Alive(w)) \in Nat
        BY <3>1, <3>4, <1>2, AliveStep
      <4>2. gauge'[w] = Cardinality(Alive(w))
        BY <4>1, <3>2, <3>4 DEF Weight
      <4> QED
        BY <4>1, <4>2, <2>3
    <3>5. CASE r.at \in Live \cup {"removed"} /\ conn[c].at \notin Live \cup {"removed"}
      <4>1. Cardinality(Alive(w)') = Cardinality(Alive(w)) + 1 /\ Cardinality(Alive(w)) \in Nat
        BY <3>1, <3>5, <1>2, AliveStep
      <4>2. gauge'[w] = Cardinality(Alive(w)) + 1
        BY <4>1, <3>2, <3>5 DEF Weight
      <4> QED
        BY <4>1, <4>2, <2>3
    <3>6. CASE r.at \notin Live \cup {"removed"} /\ conn[c].at \in Live \cup {"removed"}
      <4>1. Cardinality(Alive(w)') = Cardinality(Alive(w)) - 1 /\ Cardinality(Alive(w)) \in Nat
        BY <3>1, <3>6, <1>2, AliveStep
      <4>2. gauge'[w] = Cardinality(Alive(w)) - 1
        BY <4>1, <3>2, <3>6 DEF Weight
      <4> QED
        BY <4>1, <4>2, <2>3
    <3> QED
      BY <3>3, <3>4, <3>5, <3>6
  <2> QED
    BY <2>2, <2>3
<1>9. Quota'
  <2>1. PerUser > 0 => \A v \in Workers, u \in Users : Cardinality(In(index'[v].users, u)) <= PerUser
    BY <1>3 DEF IInv, Quota
  <2>2. ASSUME NEW x \in Conns
        PROVE  /\ IsFiniteSet(conn'[x].rooms) /\ Cardinality(conn'[x].rooms) <= MaxRooms
               /\ conn'[x].at = "asking" => Cardinality(conn'[x].rooms) < MaxRooms
    <3>1. CASE x = c
      BY <3>1, <1>1
    <3>2. CASE x # c
      BY <3>2, <1>1 DEF IInv, Quota
    <3> QED
      BY <3>1, <3>2
  <2> QED
    BY <2>1, <2>2 DEF Quota
<1>10. Dues'
  BY DEF IInv, Dues, DueOf, ChannelOf
<1>11. Lines'
  <2> SUFFICES ASSUME NEW x \in Conns PROVE Fresh(conn'[x], due[x], got[x]) /\ Track(conn'[x], due[x], got[x])
    BY DEF Lines
  <2>1. CASE x = c
    BY <2>1, <1>1
  <2>2. CASE x # c
    BY <2>2, <1>1 DEF IInv, Lines
  <2> QED
    BY <2>1, <2>2
<1> QED
  BY <1>6, <1>7, <1>8, <1>9, <1>10, <1>11 DEF IInv

(* room.join and room.leave.                                               *)
LEMMA InRooms ==
  ASSUME GatewayAssumption, IInv, NEW c \in Conns, conn[c].at \in {"handler", "asking"},
         NEW R \in SUBSET Rooms, IsFiniteSet(R), Cardinality(R) <= MaxRooms,
         NEW T \in TablesOf(Rooms), Named(T),
         \A x \in Rooms : In(T, x) = IF x \in R THEN In(index[Home[c]].rooms, x) \cup {c}
                                     ELSE In(index[Home[c]].rooms, x) \ {c},
         Here(c, [Send(conn[c], ANSWER) EXCEPT !.at = "loop", !.rooms = R]),
         index' = [index EXCEPT ![Home[c]].rooms = T],
         UNCHANGED << open, gauge, emits, due, got, channel, listening, stopping >>
  PROVE  IInv'
<1> DEFINE s == Send(conn[c], ANSWER)
           r == [s EXCEPT !.at = "loop", !.rooms = R]
           w == Home[c]
           ns == [index[w] EXCEPT !.rooms = T]
<1>0. w \in Workers /\ index[w] \in Indexes /\ gauge \in [Workers -> Int] /\ index \in [Workers -> Indexes]
  BY DEF GatewayAssumption, IInv, Kinds
<1>1. conn[c] \in Records /\ due[c] \in Seq(Int) /\ got[c] \in Seq(Int) /\ ANSWER \in Int /\ ANSWER <= 0
  BY DEF IInv, Kinds, ANSWER
<1>2. s \in Records
  BY <1>1, SendIs
<1>3. Track(s, due[c], got[c])
  BY <1>1, TrackReply DEF IInv, Lines
<1>4. s.at = conn[c].at
  BY <1>1, SendIs
<1> HIDE DEF s
<1>5. /\ r \in Records /\ r.at = "loop" /\ r.rooms = R /\ r.queue = s.queue /\ r.writer = s.writer
      /\ r.closing = s.closing
  BY <1>2 DEF Records, Places
<1>6. Here(c, r)
  BY DEF s
<1> HIDE DEF r
<1>7. Track(r, due[c], got[c]) /\ Fresh(r, due[c], got[c])
  <2>1. s.at \in Live
    BY <1>4 DEF Live
  <2> QED
    BY <1>2, <1>3, <1>5, <2>1, TrackWeaker DEF Fresh
<1>8. ns \in Indexes /\ ns.sockets = index[w].sockets /\ ns.users = index[w].users /\ ns.rooms = T
  BY <1>0 DEF Indexes
<1>9. index' = [index EXCEPT ![w] = ns]
  BY <1>0
<1> HIDE DEF ns
<1>10. SocketsOf(w) /\ UsersOf(w)
  BY <1>0 DEF IInv, Registry
<1>11. r.at \in Live /\ conn[c].at \in Live
  BY <1>5 DEF Live
<1>12. ns.sockets = IF r.at \in Live THEN index[w].sockets \cup {c} ELSE index[w].sockets \ {c}
  <2>1. c \in index[w].sockets
    BY <1>10, <1>11 DEF SocketsOf
  <2> QED
    BY <2>1, <1>8, <1>11
<1>13. gauge' = [gauge EXCEPT ![w] = @ + Weight(r.at) - Weight(conn[c].at)]
  <2>1. Weight(r.at) = 1 /\ Weight(conn[c].at) = 1
    BY <1>11 DEF Weight
  <2>2. gauge[w] \in Int /\ gauge[w] + 1 - 1 = gauge[w]
    BY <1>0
  <2>3. gauge = [gauge EXCEPT ![w] = gauge[w]]
    BY <1>0
  <2> QED
    BY <2>1, <2>2, <2>3
<1>14. (\A u \in Users : In(ns.users, u) = {x \in ns.sockets : User[x] = u}) /\ Named(ns.users)
       /\ (PerUser > 0 => \A u \in Users : Cardinality(In(ns.users, u)) <= PerUser)
  BY <1>0, <1>8, <1>10 DEF UsersOf, IInv, Quota
<1>15. WithinQuota(ns, r)
  BY <1>5, <1>14 DEF WithinQuota
<1>16. Entered(index[w], c, r, ns)
  BY <1>5, <1>8, <1>12, <1>14 DEF Entered
<1> QED
  BY <1>5, <1>6, <1>7, <1>8, <1>9, <1>13, <1>15, <1>16, Booked

LEMMA LeaveRoomStep ==
  ASSUME GatewayAssumption, IInv, NEW c \in Conns, NEW r \in Rooms, LeaveRoom(c, r) PROVE IInv'
<1> DEFINE w == Home[c]
           R == conn[c].rooms \ {r}
           t == index[w].rooms
           T == Strike(t, r, c)
<1>1. w \in Workers /\ conn[c] \in Records /\ index[w] \in Indexes /\ index \in [Workers -> Indexes]
  BY DEF GatewayAssumption, IInv, Kinds
<1>2. t \in TablesOf(Rooms) /\ conn[c].rooms \in SUBSET Rooms
  BY <1>1 DEF Indexes, Records
<1>3. RoomsOf(w)
  BY <1>1 DEF IInv, Registry
<1>4. T \in TablesOf(Rooms) /\ Named(T) /\ \A x : In(T, x) = In(t, x) \ IF x = r THEN {c} ELSE {}
  BY <1>2, <1>3, StrikeIs DEF RoomsOf
<1>5. R \in SUBSET Rooms
  BY <1>2
<1>6. IsFiniteSet(R) /\ Cardinality(R) <= MaxRooms
  <2>1. IsFiniteSet(conn[c].rooms) /\ Cardinality(conn[c].rooms) <= MaxRooms /\ MaxRooms \in Nat
    BY DEF IInv, Quota, GatewayAssumption
  <2>2. IsFiniteSet(R) /\ Cardinality(R) <= Cardinality(conn[c].rooms) /\ Cardinality(R) \in Nat /\ Cardinality(conn[c].rooms) \in Nat
    BY <2>1, FS_Subset, FS_CardinalityType
  <2> QED
    BY <2>1, <2>2
<1>7. \A x \in Rooms : In(T, x) = IF x \in R THEN In(t, x) \cup {c} ELSE In(t, x) \ {c}
  <2> TAKE x \in Rooms
  <2>1. In(t, x) = {y \in Conns : Home[y] = w /\ x \in conn[y].rooms}
    BY <1>3 DEF RoomsOf
  <2>2. c \in In(t, x) <=> x \in conn[c].rooms
    BY <2>1
  <2>3. In(T, x) = In(t, x) \ IF x = r THEN {c} ELSE {}
    BY <1>4
  <2> HIDE DEF t, T
  <2> QED
    BY <2>2, <2>3
<1>8. conn[c].at = "handler" /\ index' = [index EXCEPT ![w].rooms = T]
      /\ UNCHANGED << open, gauge, emits, due, got, channel, listening, stopping >>
  BY <1>1 DEF LeaveRoom
<1>9. Here(c, [Send(conn[c], ANSWER) EXCEPT !.at = "loop", !.rooms = R])
  <2>1. Send(conn[c], ANSWER).rooms = conn[c].rooms
    BY <1>1, SendIs DEF ANSWER
  <2>2. Here(c, [Send(conn[c], ANSWER) EXCEPT !.at = "loop", !.rooms = Send(conn[c], ANSWER).rooms \ {r}])
    <3>1. Send(conn[c], ANSWER) \in Records
      BY <1>1, SendIs DEF ANSWER
    <3>2. Here(c, [Send(conn[c], ANSWER) EXCEPT !.at = "loop", !.rooms = @ \ {r}])
      BY DEF LeaveRoom
    <3> QED
      BY <3>1, <3>2 DEF Records
  <2> QED
    BY <2>1, <2>2
<1> HIDE DEF T, R
<1> QED
  BY <1>4, <1>5, <1>6, <1>7, <1>8, <1>9, InRooms

LEMMA JoinRoomStep ==
  ASSUME GatewayAssumption, IInv, NEW c \in Conns, NEW r \in Rooms, JoinRoom(c, r) PROVE IInv'
<1> DEFINE w == Home[c]
           R == conn[c].rooms \cup {r}
           t == index[w].rooms
           T == Enrol(t, r, c)
<1>1. w \in Workers /\ conn[c] \in Records /\ index[w] \in Indexes /\ index \in [Workers -> Indexes]
  BY DEF GatewayAssumption, IInv, Kinds
<1>2. t \in TablesOf(Rooms) /\ conn[c].rooms \in SUBSET Rooms
  BY <1>1 DEF Indexes, Records
<1>3. RoomsOf(w)
  BY <1>1 DEF IInv, Registry
<1>4. T \in TablesOf(Rooms) /\ Named(T) /\ \A x : In(T, x) = In(t, x) \cup IF x = r THEN {c} ELSE {}
  BY <1>2, <1>3, EnrolIs DEF RoomsOf
<1>5. R \in SUBSET Rooms
  BY <1>2
<1>6. IsFiniteSet(R) /\ Cardinality(R) <= MaxRooms
  <2>1. conn[c].at = "asking"
    BY DEF JoinRoom
  <2>2. IsFiniteSet(conn[c].rooms) /\ Cardinality(conn[c].rooms) < MaxRooms /\ MaxRooms \in Nat
    BY <2>1 DEF IInv, Quota, GatewayAssumption
  <2>3. IsFiniteSet(R) /\ Cardinality(R) \in Nat /\ Cardinality(conn[c].rooms) \in Nat
        /\ Cardinality(R) <= Cardinality(conn[c].rooms) + 1
    <3>1. Cardinality(conn[c].rooms) \in Nat
      BY <2>2, FS_CardinalityType
    <3>2. IsFiniteSet(R) /\ Cardinality(R) = IF r \in conn[c].rooms THEN Cardinality(conn[c].rooms) ELSE Cardinality(conn[c].rooms) + 1
      BY <2>2, FS_AddElement
    <3> HIDE DEF R
    <3> QED
      BY <3>1, <3>2
  <2> HIDE DEF R
  <2> QED
    BY <2>2, <2>3
<1>7. \A x \in Rooms : In(T, x) = IF x \in R THEN In(t, x) \cup {c} ELSE In(t, x) \ {c}
  <2> TAKE x \in Rooms
  <2>1. In(t, x) = {y \in Conns : Home[y] = w /\ x \in conn[y].rooms}
    BY <1>3 DEF RoomsOf
  <2>2. c \in In(t, x) <=> x \in conn[c].rooms
    BY <2>1
  <2>3. In(T, x) = In(t, x) \cup IF x = r THEN {c} ELSE {}
    BY <1>4
  <2> HIDE DEF t, T
  <2> QED
    BY <2>2, <2>3
<1>8. conn[c].at = "asking" /\ index' = [index EXCEPT ![w].rooms = T]
      /\ UNCHANGED << open, gauge, emits, due, got, channel, listening, stopping >>
  BY <1>1 DEF JoinRoom
<1>9. Here(c, [Send(conn[c], ANSWER) EXCEPT !.at = "loop", !.rooms = R])
  <2>1. Send(conn[c], ANSWER).rooms = conn[c].rooms /\ Send(conn[c], ANSWER) \in Records
    BY <1>1, SendIs DEF ANSWER
  <2>2. Here(c, [Send(conn[c], ANSWER) EXCEPT !.at = "loop", !.rooms = @ \cup {r}])
    BY DEF JoinRoom
  <2>3. Here(c, [Send(conn[c], ANSWER) EXCEPT !.at = "loop", !.rooms = Send(conn[c], ANSWER).rooms \cup {r}])
    BY <2>1, <2>2 DEF Records
  <2> QED
    BY <2>1, <2>3
<1> HIDE DEF T, R
<1> QED
  BY <1>4, <1>5, <1>6, <1>7, <1>8, <1>9, InRooms

(* The connection is registered, and gets its writer.                      *)
LEMMA EnterStep == ASSUME GatewayAssumption, IInv, NEW c \in Conns, Enter(c) PROVE IInv'
<1> DEFINE w == Home[c]
           r == [conn[c] EXCEPT !.at = "greet", !.writer = "run"]
           old == index[w]
           ns == Add(old, c)
           S == old.sockets \cup {c}
<1>1. w \in Workers /\ conn[c] \in Records /\ old \in Indexes /\ gauge \in [Workers -> Int]
  BY DEF GatewayAssumption, IInv, Kinds
<1>2. /\ r \in Records /\ r.at = "greet" /\ r.writer = "run" /\ r.rooms = conn[c].rooms /\ r.queue = conn[c].queue
  BY <1>1 DEF Records, Places
<1>3. /\ conn[c].at = "guards" /\ Here(c, r) /\ index' = [index EXCEPT ![w] = ns]
      /\ gauge' = [gauge EXCEPT ![w] = @ + 1]
      /\ emits' = emits /\ due' = due /\ got' = got /\ channel' = channel /\ stopping' = stopping
      /\ (User[c] # NULL /\ PerUser > 0) => Cardinality(In(old.users, User[c])) < PerUser
  BY DEF Enter
<1>4. SocketsOf(w) /\ UsersOf(w) /\ RoomsOf(w)
  BY <1>1 DEF IInv, Registry
<1>5. old.users \in TablesOf(Users) /\ old.sockets \in SUBSET Conns /\ old.rooms \in TablesOf(Rooms)
  BY <1>1 DEF Indexes
<1>6. /\ ns \in Indexes /\ ns.sockets = S /\ ns.rooms = old.rooms /\ Named(ns.users)
      /\ \A u \in Users : In(ns.users, u) = In(old.users, u) \cup IF u = User[c] THEN {c} ELSE {}
  <2>1. CASE User[c] = NULL
    <3>1. ns = [old EXCEPT !.sockets = S]
      <4>1. ns = [old EXCEPT !.sockets = S, !.users = old.users]
        BY <1>1, <2>1 DEF Add, Indexes
      <4> QED
        BY <4>1, <1>1 DEF Indexes
    <3>2. ns \in Indexes /\ ns.sockets = S /\ ns.rooms = old.rooms /\ ns.users = old.users
      BY <3>1, <1>1, <1>5 DEF Indexes
    <3>3. \A u \in Users : u # User[c]
      BY <2>1 DEF Users
    <3> QED
      BY <3>2, <3>3, <1>4 DEF UsersOf
  <2>2. CASE User[c] # NULL
    <3> DEFINE T == Enrol(old.users, User[c], c)
    <3>0. User[c] \in Users
      BY <2>2 DEF Users
    <3>1. /\ T \in TablesOf(Users) /\ Named(T)
          /\ \A x : In(T, x) = In(old.users, x) \cup IF x = User[c] THEN {c} ELSE {}
      BY <3>0, <1>4, <1>5, EnrolIs DEF UsersOf
    <3>2. ns = [old EXCEPT !.sockets = S, !.users = T]
      BY <1>1, <2>2 DEF Add, Indexes
    <3>a. S \in SUBSET Conns
      BY <1>5
    <3> HIDE DEF T, S, ns
    <3>3. ns \in Indexes /\ ns.sockets = S /\ ns.rooms = old.rooms /\ ns.users = T
      BY <3>1, <3>2, <3>a, <1>1, <1>5 DEF Indexes
    <3> QED
      BY <3>1, <3>3
  <2> QED
    BY <2>1, <2>2
<1> HIDE DEF ns, r
<1>7. c \notin old.sockets /\ S \subseteq Conns
  BY <1>3, <1>4, <1>5 DEF SocketsOf, Live
<1>8. ASSUME NEW u \in Users PROVE In(ns.users, u) = {x \in ns.sockets : User[x] = u}
  <2>1. In(old.users, u) = {x \in old.sockets : User[x] = u}
    BY <1>4 DEF UsersOf
  <2>2. In(ns.users, u) = In(old.users, u) \cup IF u = User[c] THEN {c} ELSE {}
    BY <1>6
  <2>3. ns.sockets = old.sockets \cup {c}
    BY <1>6
  <2> QED
    BY <2>1, <2>2, <2>3
<1>9. ASSUME NEW x \in Rooms
      PROVE  In(ns.rooms, x) = IF x \in r.rooms THEN In(old.rooms, x) \cup {c} ELSE In(old.rooms, x) \ {c}
  <2>1. In(old.rooms, x) = {y \in Conns : Home[y] = w /\ x \in conn[y].rooms}
    BY <1>4 DEF RoomsOf
  <2>2. c \in In(old.rooms, x) <=> x \in conn[c].rooms
    BY <2>1
  <2> QED
    BY <2>2, <1>2, <1>6
<1>10. "greet" \in Live /\ "guards" \notin Live \cup {"removed"}
  BY DEF Live
<1>11. Entered(old, c, r, ns)
  BY <1>2, <1>4, <1>6, <1>8, <1>9, <1>10 DEF Entered, RoomsOf
<1>12. WithinQuota(ns, r)
  <2>1. ASSUME PerUser > 0, NEW u \in Users PROVE Cardinality(In(ns.users, u)) <= PerUser
    <3>1. In(ns.users, u) = In(old.users, u) \cup IF u = User[c] THEN {c} ELSE {}
      BY <1>6
    <3>2. Cardinality(In(old.users, u)) <= PerUser
      BY <2>1, <1>1 DEF IInv, Quota
    <3>3. CASE u = User[c]
      <4>1. u # NULL
        BY DEF Users
      <4>2. Cardinality(In(old.users, u)) < PerUser
        BY <1>3, <2>1, <3>3, <4>1
      <4>3. IsFiniteSet(In(old.users, u)) /\ c \notin In(old.users, u)
        <5>1. In(old.users, u) = {x \in old.sockets : User[x] = u}
          BY <1>4 DEF UsersOf
        <5>2. In(old.users, u) \subseteq Conns /\ IsFiniteSet(Conns)
          BY <5>1, <1>5 DEF GatewayAssumption
        <5> QED
          BY <5>1, <5>2, <1>7, FS_Subset
      <4>4. Cardinality(In(ns.users, u)) = Cardinality(In(old.users, u)) + 1
        BY <3>1, <3>3, <4>3, FS_AddElement
      <4>5. Cardinality(In(old.users, u)) \in Nat /\ PerUser \in Int
        BY <4>3, FS_CardinalityType DEF GatewayAssumption
      <4> QED
        BY <4>2, <4>4, <4>5
    <3>4. CASE u # User[c]
      BY <3>1, <3>2, <3>4
    <3> QED
      BY <3>3, <3>4
  <2>2. IsFiniteSet(r.rooms) /\ Cardinality(r.rooms) <= MaxRooms
    BY <1>2 DEF IInv, Quota
  <2> QED
    BY <1>2, <2>1, <2>2 DEF WithinQuota
<1>13. gauge' = [gauge EXCEPT ![w] = @ + Weight(r.at) - Weight(conn[c].at)]
  <2>1. Weight(r.at) = 1 /\ Weight(conn[c].at) = 0
    BY <1>2, <1>3, <1>10 DEF Weight
  <2>2. gauge[w] + 1 - 0 = gauge[w] + 1
    BY <1>1
  <2> QED
    BY <1>3, <2>1, <2>2
<1>14. Track(r, due[c], got[c]) /\ Fresh(r, due[c], got[c])
  <2>1. conn[c].queue = << >> /\ due[c] = << >> /\ got[c] = << >>
    BY <1>3 DEF IInv, Lines, Fresh
  <2> QED
    BY <1>2, <2>1 DEF Track, Fresh, Line, Prefix, NoGap, Complete
<1> QED
  BY <1>2, <1>3, <1>6, <1>11, <1>12, <1>13, <1>14, Booked

(* The connection leaves every register it is in.                          *)
LEMMA HooksStep == ASSUME GatewayAssumption, IInv, NEW c \in Conns, Hooks(c) PROVE IInv'
<1> DEFINE w == Home[c]
           b == [conn[c] EXCEPT !.at = "removed", !.rooms = {}]
           r == IF Len(b.queue) < QueueSize THEN [b EXCEPT !.queue = Append(@, STOP)] ELSE [b EXCEPT !.writer = "gone"]
           old == index[w]
           ns == Remove(old, c)
           S == old.sockets \ {c}
           U == IF User[c] = NULL THEN old.users ELSE Strike(old.users, User[c], c)
           D == {x \in DOMAIN old.rooms : x \notin conn[c].rooms \/ old.rooms[x] # {c}}
           T == [x \in D |-> old.rooms[x] \ IF x \in conn[c].rooms THEN {c} ELSE {}]
<1>1. w \in Workers /\ conn[c] \in Records /\ old \in Indexes /\ gauge \in [Workers -> Int]
      /\ due[c] \in Seq(Int) /\ got[c] \in Seq(Int)
  BY DEF GatewayAssumption, IInv, Kinds
<1>2. /\ b \in Records /\ b.at = "removed" /\ b.rooms = {} /\ b.queue = conn[c].queue /\ b.writer = conn[c].writer
      /\ b.closing = conn[c].closing
  BY <1>1 DEF Records, Places
<1>3. /\ conn[c].at = "leaving" /\ Here(c, r) /\ index' = [index EXCEPT ![w] = ns]
      /\ gauge' = gauge
      /\ emits' = emits /\ due' = due /\ got' = got /\ channel' = channel /\ stopping' = stopping
  BY <1>1 DEF Hooks
<1>4. SocketsOf(w) /\ UsersOf(w) /\ RoomsOf(w)
  BY <1>1 DEF IInv, Registry
<1>5. old.users \in TablesOf(Users) /\ old.sockets \in SUBSET Conns /\ old.rooms \in TablesOf(Rooms)
  BY <1>1 DEF Indexes
<1>6. r \in Records /\ r.at = "removed" /\ r.rooms = {}
  <2> HIDE DEF b
  <2>1. CASE Len(b.queue) < QueueSize
    <3>1. Append(b.queue, STOP) \in Seq(Int)
      BY <1>2 DEF Records, STOP
    <3> QED
      BY <2>1, <3>1, <1>2 DEF Records
  <2>2. CASE ~ (Len(b.queue) < QueueSize)
    BY <2>2, <1>2 DEF Records
  <2> QED
    BY <2>1, <2>2
<1>7. Track(r, due[c], got[c])
  <2>1. Track(conn[c], due[c], got[c])
    BY DEF IInv, Lines
  <2>2. Track(b, due[c], got[c])
    BY <1>1, <1>2, <2>1, <1>3, TrackWeaker DEF Live
  <2> HIDE DEF b
  <2>3. CASE Len(b.queue) < QueueSize
    <3>1. /\ r.queue = Append(b.queue, STOP) /\ r.at = b.at /\ r.writer = b.writer /\ r.closing = b.closing
          /\ b.queue \in Seq(Int) /\ STOP \in Int /\ STOP <= 0
      BY <2>3, <1>2 DEF Records, STOP
    <3>2. /\ Line(b.queue, due[c], got[c]) => Line(r.queue, due[c], got[c])
          /\ NoGap(b.queue, due[c], got[c]) => NoGap(r.queue, due[c], got[c])
      BY <3>1, <1>1, LineReply
    <3>3. r.at \notin Live
      BY <1>6 DEF Live
    <3> HIDE DEF r
    <3> QED
      BY <2>2, <3>1, <3>2, <3>3 DEF Track
  <2>4. CASE ~ (Len(b.queue) < QueueSize)
    <3>1. r.queue = b.queue /\ r.at = b.at /\ r.writer = "gone" /\ r.closing = b.closing
      BY <2>4, <1>2 DEF Records
    <3> HIDE DEF r
    <3> QED
      BY <2>2, <3>1, <1>2, <1>6, TrackWeaker
  <2> QED
    BY <2>3, <2>4
<1> HIDE DEF r, b
<1>8. Fresh(r, due[c], got[c])
  BY <1>6 DEF Fresh
<1>9. /\ U \in TablesOf(Users) /\ Named(U)
      /\ \A u \in Users : In(U, u) = In(old.users, u) \ IF u = User[c] THEN {c} ELSE {}
  <2>1. CASE User[c] = NULL
    BY <2>1, <1>4, <1>5 DEF UsersOf, Users
  <2>2. CASE User[c] # NULL
    <3>1. U = Strike(old.users, User[c], c)
      BY <2>2
    <3>2. /\ Strike(old.users, User[c], c) \in TablesOf(Users) /\ Named(Strike(old.users, User[c], c))
          /\ \A x : In(Strike(old.users, User[c], c), x) = In(old.users, x) \ IF x = User[c] THEN {c} ELSE {}
      BY <1>4, <1>5, StrikeIs DEF UsersOf
    <3> QED
      BY <3>1, <3>2
  <2> QED
    BY <2>1, <2>2
<1>10. /\ T \in TablesOf(Rooms) /\ Named(T)
       /\ \A x \in Rooms : In(T, x) = In(old.rooms, x) \ {c}
  <2>1. DOMAIN old.rooms \subseteq Rooms /\ old.rooms \in [DOMAIN old.rooms -> SUBSET Conns]
    BY <1>5, TableIs
  <2>2. \A x \in DOMAIN old.rooms : old.rooms[x] = {y \in Conns : Home[y] = w /\ x \in conn[y].rooms} /\ old.rooms[x] # {}
    BY <2>1, <1>4 DEF RoomsOf, In, Named
  <2>3. D \in SUBSET Rooms /\ D \subseteq DOMAIN old.rooms
    BY <2>1
  <2>4. T \in [D -> SUBSET Conns] /\ DOMAIN T = D /\ \A x \in D : T[x] = old.rooms[x] \ IF x \in conn[c].rooms THEN {c} ELSE {}
    BY <2>1, <2>3
  <2>5. T \in TablesOf(Rooms)
    BY <2>3, <2>4, IsTable
  <2>6. \A x \in DOMAIN old.rooms : c \in old.rooms[x] <=> x \in conn[c].rooms
    BY <2>2
  <2>7. \A x \in D : T[x] = old.rooms[x] \ {c} /\ T[x] # {}
    <3> TAKE x \in D
    <3>1. T[x] = old.rooms[x] \ {c}
      BY <2>3, <2>4, <2>6
    <3>2. x \notin conn[c].rooms \/ old.rooms[x] # {c}
      OBVIOUS
    <3>3. old.rooms[x] # {} /\ (c \in old.rooms[x] <=> x \in conn[c].rooms)
      BY <2>2, <2>3, <2>6
    <3> QED
      BY <3>1, <3>2, <3>3
  <2>8. \A x \in Rooms : In(T, x) = In(old.rooms, x) \ {c}
    <3> TAKE x \in Rooms
    <3>1. CASE x \in D
      <4>1. In(T, x) = T[x] /\ In(old.rooms, x) = old.rooms[x]
        BY <3>1, <2>3, <2>4 DEF In
      <4> QED
        BY <3>1, <4>1, <2>7
    <3>2. CASE x \in DOMAIN old.rooms /\ x \notin D
      <4>1. In(T, x) = {} /\ In(old.rooms, x) = old.rooms[x]
        BY <3>2, <2>4 DEF In
      <4>2. old.rooms[x] = {c}
        BY <3>2
      <4> QED
        BY <4>1, <4>2
    <3>3. CASE x \notin DOMAIN old.rooms
      <4>1. In(T, x) = {} /\ In(old.rooms, x) = {}
        BY <3>3, <2>3, <2>4 DEF In
      <4> QED
        BY <4>1
    <3> QED
      BY <3>1, <3>2, <3>3
  <2> HIDE DEF T
  <2>9. Named(T)
    BY <2>4, <2>7 DEF Named
  <2> QED
    BY <2>5, <2>8, <2>9
<1>11. ns = [sockets |-> S, users |-> U, rooms |-> T]
  BY DEF Remove
<1> HIDE DEF U, T, ns, D
<1>12. ns \in Indexes /\ ns.sockets = S /\ ns.users = U /\ ns.rooms = T
  BY <1>5, <1>9, <1>10, <1>11 DEF Indexes
<1>13. ASSUME NEW u \in Users PROVE In(ns.users, u) = {x \in ns.sockets : User[x] = u} /\ In(ns.users, u) \subseteq In(old.users, u)
  <2>1. In(old.users, u) = {x \in old.sockets : User[x] = u}
    BY <1>4 DEF UsersOf
  <2>2. In(ns.users, u) = In(old.users, u) \ IF u = User[c] THEN {c} ELSE {}
    BY <1>9, <1>12
  <2>3. ns.sockets = old.sockets \ {c}
    BY <1>12
  <2> QED
    BY <2>1, <2>2, <2>3
<1>14. "removed" \notin Live /\ "leaving" \in Live
  BY DEF Live
<1>15. Entered(old, c, r, ns)
  BY <1>6, <1>9, <1>10, <1>12, <1>13, <1>14 DEF Entered
<1>16. WithinQuota(ns, r)
  <2>1. ASSUME PerUser > 0, NEW u \in Users PROVE Cardinality(In(ns.users, u)) <= PerUser
    <3>1. Cardinality(In(old.users, u)) <= PerUser
      BY <2>1, <1>1 DEF IInv, Quota
    <3>2. IsFiniteSet(In(old.users, u)) /\ In(ns.users, u) \subseteq In(old.users, u)
      <4>1. In(old.users, u) \subseteq Conns /\ IsFiniteSet(Conns)
        BY <1>5, InIs DEF GatewayAssumption
      <4> QED
        BY <4>1, <1>13, FS_Subset
    <3>3. /\ Cardinality(In(ns.users, u)) <= Cardinality(In(old.users, u))
          /\ Cardinality(In(ns.users, u)) \in Nat /\ Cardinality(In(old.users, u)) \in Nat
      BY <3>2, FS_Subset, FS_CardinalityType
    <3>4. PerUser \in Int
      BY DEF GatewayAssumption
    <3> QED
      BY <3>1, <3>3, <3>4
  <2>2. IsFiniteSet(r.rooms) /\ Cardinality(r.rooms) <= MaxRooms
    <3>1. IsFiniteSet(r.rooms) /\ Cardinality(r.rooms) = 0
      BY <1>6, FS_EmptySet
    <3>2. MaxRooms \in Nat
      BY DEF GatewayAssumption
    <3> QED
      BY <3>1, <3>2
  <2> QED
    BY <1>6, <2>1, <2>2 DEF WithinQuota
<1>17. gauge' = [gauge EXCEPT ![w] = @ + Weight(r.at) - Weight(conn[c].at)]
  <2>1. Weight(r.at) = 1 /\ Weight(conn[c].at) = 1
    BY <1>3, <1>6, <1>14 DEF Weight
  <2>2. gauge[w] \in Int /\ gauge[w] + 1 - 1 = gauge[w]
    BY <1>1
  <2>3. gauge = [gauge EXCEPT ![w] = gauge[w]]
    BY <1>1
  <2> QED
    BY <1>3, <2>1, <2>2, <2>3
<1> QED
  BY <1>3, <1>6, <1>7, <1>8, <1>12, <1>15, <1>16, <1>17, Booked

LEMMA GoneStep == ASSUME GatewayAssumption, IInv, NEW c \in Conns, Gone(c) PROVE IInv'
<1> DEFINE w == Home[c]
           r == [conn[c] EXCEPT !.at = "gone", !.closing = TRUE, !.writer = "gone"]
           ns == index[w]
<1>1. w \in Workers /\ conn[c] \in Records /\ ns \in Indexes /\ gauge \in [Workers -> Int] /\ index \in [Workers -> Indexes]
  BY DEF GatewayAssumption, IInv, Kinds
<1>2. /\ r \in Records /\ r.at = "gone" /\ r.writer = "gone" /\ r.rooms = conn[c].rooms /\ r.queue = conn[c].queue
      /\ r.closing
  BY <1>1 DEF Records, Places
<1>3. /\ conn[c].at = "removed" /\ Here(c, r) /\ index' = index
      /\ gauge' = [gauge EXCEPT ![w] = @ - 1]
      /\ emits' = emits /\ due' = due /\ got' = got /\ channel' = channel /\ stopping' = stopping
  BY DEF Gone
<1>4. SocketsOf(w) /\ UsersOf(w) /\ RoomsOf(w)
  BY <1>1 DEF IInv, Registry
<1>5. index' = [index EXCEPT ![w] = ns]
  BY <1>1, <1>3
<1> HIDE DEF r
<1>6. "gone" \notin Live \cup {"removed"} /\ "removed" \notin Live
  BY DEF Live
<1>7. Entered(ns, c, r, ns)
  <2>1. ns.sockets = ns.sockets \ {c}
    BY <1>3, <1>4, <1>6 DEF SocketsOf
  <2>2. ASSUME NEW x \in Rooms
        PROVE  In(ns.rooms, x) = IF x \in r.rooms THEN In(ns.rooms, x) \cup {c} ELSE In(ns.rooms, x) \ {c}
    <3>1. In(ns.rooms, x) = {y \in Conns : Home[y] = w /\ x \in conn[y].rooms}
      BY <1>4 DEF RoomsOf
    <3>2. c \in In(ns.rooms, x) <=> x \in r.rooms
      BY <3>1, <1>2
    <3> QED
      BY <3>2
  <2> QED
    BY <2>1, <2>2, <1>2, <1>4, <1>6 DEF Entered, UsersOf, RoomsOf
<1>8. WithinQuota(ns, r)
  BY <1>1, <1>2 DEF WithinQuota, IInv, Quota
<1>9. gauge' = [gauge EXCEPT ![w] = @ + Weight(r.at) - Weight(conn[c].at)]
  <2>1. Weight(r.at) = 0 /\ Weight(conn[c].at) = 1
    BY <1>2, <1>3, <1>6 DEF Weight
  <2>2. gauge[w] + 0 - 1 = gauge[w] - 1
    BY <1>1
  <2> QED
    BY <1>3, <2>1, <2>2
<1>10. Track(r, due[c], got[c]) /\ Fresh(r, due[c], got[c])
  <2>1. Track(conn[c], due[c], got[c])
    BY DEF IInv, Lines
  <2> QED
    BY <1>1, <1>2, <1>6, <2>1, TrackWeaker DEF Fresh
<1> HIDE DEF ns
<1> QED
  BY <1>1, <1>2, <1>3, <1>5, <1>7, <1>8, <1>9, <1>10, Booked DEF ns

-----------------------------------------------------------------------------
(* The writer takes one frame off the queue.                               *)
LEMMA WriteStep == ASSUME GatewayAssumption, IInv, NEW c \in Conns, Write(c) PROVE IInv'
<1> DEFINE f == Head(conn[c].queue)
           fine == c \in open /\ (f > 0 => ~ emits[f].odd)
           r == [conn[c] EXCEPT !.queue = Tail(@), !.writer = IF f # STOP /\ fine THEN "run" ELSE "gone"]
<1>1. /\ conn[c].writer = "run" /\ conn[c].queue # << >> /\ Here(c, r)
      /\ got' = IF f > 0 /\ fine THEN [got EXCEPT ![c] = Append(@, f)] ELSE got
      /\ index' = index /\ gauge' = gauge /\ emits' = emits /\ due' = due /\ channel' = channel /\ stopping' = stopping
  BY DEF Write
<1>2. conn[c] \in Records /\ due[c] \in Seq(Int) /\ got[c] \in Seq(Int) /\ conn[c].queue \in Seq(Int)
  BY DEF IInv, Kinds, Records
<1>3. f \in Int /\ Tail(conn[c].queue) \in Seq(Int)
  BY <1>1, <1>2
<1>4. /\ r \in Records /\ r.at = conn[c].at /\ r.rooms = conn[c].rooms /\ r.queue = Tail(conn[c].queue)
      /\ r.closing = conn[c].closing /\ r.writer = IF f # STOP /\ fine THEN "run" ELSE "gone"
  <2> HIDE DEF fine, f
  <2> QED
    BY <1>2, <1>3 DEF Records
<1> HIDE DEF r, f, fine
<1>5. conn' \in [Conns -> Records] /\ conn'[c] = r /\ \A x \in Conns : x # c => conn'[x] = conn[x]
  BY <1>1, <1>4, HereIs DEF IInv
<1>6. Distinct(due[c]) /\ Positive(due[c])
  <2>1. \A n \in 1 .. Len(due[c]) : due[c][n] \in 1 .. Len(emits)
    BY DEF IInv, Dues, DueOf
  <2>2. Len(emits) \in Nat
    BY DEF IInv, Kinds
  <2>3. Positive(due[c])
    BY <2>1, <2>2 DEF Positive
  <2> QED
    BY <2>3 DEF IInv, Dues, DueOf, Distinct
<1>7. /\ r.writer = "gone" \/ f <= 0 => Track(r, due[c], got[c])
      /\ f > 0 => Track(r, due[c], Append(got[c], f))
  <2>1. Track(conn[c], due[c], got[c]) /\ r.writer \in {conn[c].writer, "gone"}
    BY <1>1, <1>4 DEF IInv, Lines
  <2> QED
    BY <1>1, <1>2, <1>4, <1>6, <2>1, TrackWrite DEF f
<1>8. got' \in [Conns -> Seq(Int)] /\ Track(r, due[c], got'[c]) /\ \A x \in Conns : x # c => got'[x] = got[x]
  <2>0. got \in [Conns -> Seq(Int)]
    BY DEF IInv, Kinds
  <2>1. CASE f > 0 /\ fine
    <3>1. got' = [got EXCEPT ![c] = Append(got[c], f)]
      BY <1>1, <2>1
    <3>2. Append(got[c], f) \in Seq(Int)
      BY <1>2, <1>3
    <3>3. got'[c] = Append(got[c], f) /\ got' \in [Conns -> Seq(Int)] /\ \A x \in Conns : x # c => got'[x] = got[x]
      BY <2>0, <3>1, <3>2
    <3> QED
      BY <3>3, <1>7, <2>1
  <2>2. CASE ~ (f > 0 /\ fine)
    <3>1. got' = got
      BY <1>1, <2>2
    <3>2. r.writer = "gone" \/ f <= 0
      BY <1>3, <1>4, <2>2
    <3> QED
      BY <2>0, <3>1, <3>2, <1>7
  <2> QED
    BY <2>1, <2>2
<1>9. conn[c].at \notin {"new", "guards"}
  BY <1>1 DEF IInv, Lines, Fresh
<1>10. \A x \in Conns : Calm(x)
  <2> TAKE x \in Conns
  <2>1. CASE x = c
    BY <2>1, <1>4, <1>5 DEF Calm
  <2>2. CASE x # c
    BY <2>2, <1>5 DEF Calm
  <2> QED
    BY <2>1, <2>2
<1>11. Registry' /\ Counted' /\ Quota'
  BY <1>1, <1>10, CalmStep
<1>12. Kinds' /\ Dues'
  <2>1. Kinds'
    BY <1>1, <1>5, <1>8 DEF IInv, Kinds
  <2>2. Dues'
    BY <1>1 DEF IInv, Dues, DueOf, ChannelOf
  <2> QED
    BY <2>1, <2>2
<1>13. Lines'
  <2> SUFFICES ASSUME NEW x \in Conns PROVE Fresh(conn'[x], due[x], got'[x]) /\ Track(conn'[x], due[x], got'[x])
    BY <1>1 DEF Lines
  <2>1. CASE x = c
    <3>1. Fresh(conn'[x], due[x], got'[x])
      BY <2>1, <1>4, <1>5, <1>9 DEF Fresh
    <3> QED
      BY <2>1, <3>1, <1>5, <1>8
  <2>2. CASE x # c
    BY <2>2, <1>5, <1>8 DEF IInv, Lines
  <2> QED
    BY <2>1, <2>2
<1> QED
  BY <1>11, <1>12, <1>13 DEF IInv

(* deliver() of frame i to those it is for, to whom it is new.             *)
LEMMA DeliverStep ==
  ASSUME GatewayAssumption, IInv, NEW w \in Workers, NEW i \in Int, i > 0, NEW room \in Rooms \cup {NULL},
         Deliver(w, i, room), index' = index, gauge' = gauge, got' = got, stopping' = stopping,
         \A c \in Conns : Home[c] = w => ~ Known(due[c], i)
  PROVE  /\ conn' \in [Conns -> Records] /\ due' \in [Conns -> Seq(Int)]
         /\ Registry' /\ Counted' /\ Quota' /\ Lines'
         /\ \A c \in Conns : due'[c] = due[c] \/ (Home[c] = w /\ due'[c] = Append(due[c], i))
<1> DEFINE to == Targets(w, room)
<1>1. /\ conn' = [c \in Conns |-> IF c \in to THEN Send(conn[c], i) ELSE conn[c]]
      /\ due' = [c \in Conns |-> IF c \in to THEN Append(due[c], i) ELSE due[c]]
  BY DEF Deliver
<1>2. ASSUME NEW c \in to PROVE c \in Conns /\ Home[c] = w /\ conn[c].at \in Live /\ ~ conn[c].closing
  <2>1. index[w].sockets = {x \in Conns : Home[x] = w /\ conn[x].at \in Live}
    BY DEF IInv, Registry, SocketsOf
  <2>2. c \in index[w].sockets /\ ~ conn[c].closing
    BY <1>2 DEF Targets
  <2> QED
    BY <2>1, <2>2
<1> HIDE DEF to
<1>3. ASSUME NEW c \in Conns
      PROVE  /\ conn[c] \in Records /\ due[c] \in Seq(Int) /\ got[c] \in Seq(Int)
             /\ Fresh(conn[c], due[c], got[c]) /\ Track(conn[c], due[c], got[c])
  BY <1>3 DEF IInv, Kinds, Lines
<1>4. ASSUME NEW c \in to
      PROVE  /\ Send(conn[c], i) \in Records /\ Send(conn[c], i).at = conn[c].at
             /\ Send(conn[c], i).rooms = conn[c].rooms /\ Append(due[c], i) \in Seq(Int)
             /\ Track(Send(conn[c], i), Append(due[c], i), got[c])
  <2>1. c \in Conns /\ Home[c] = w /\ conn[c].at \in Live /\ ~ conn[c].closing
    BY <1>2
  <2>2. conn[c] \in Records /\ due[c] \in Seq(Int) /\ got[c] \in Seq(Int) /\ Track(conn[c], due[c], got[c])
    BY <2>1, <1>3
  <2>3. Append(due[c], i) \in Seq(Int)
    BY <2>2
  <2>4. Track(Send(conn[c], i), Append(due[c], i), got[c])
    BY <2>1, <2>2, TrackDue
  <2> QED
    BY <2>2, <2>3, <2>4, SendIs
<1>5. conn' \in [Conns -> Records] /\ due' \in [Conns -> Seq(Int)]
  <2>1. \A c \in Conns : (IF c \in to THEN Send(conn[c], i) ELSE conn[c]) \in Records
    BY <1>3, <1>4
  <2>2. \A c \in Conns : (IF c \in to THEN Append(due[c], i) ELSE due[c]) \in Seq(Int)
    BY <1>3, <1>4
  <2> QED
    BY <1>1, <2>1, <2>2
<1>6. \A c \in Conns : c \in to => conn'[c] = Send(conn[c], i) /\ due'[c] = Append(due[c], i) /\ Home[c] = w
  BY <1>1, <1>2
<1>7. \A c \in Conns : c \notin to => conn'[c] = conn[c] /\ due'[c] = due[c]
  BY <1>1
<1>8. ASSUME NEW c \in Conns PROVE Calm(c)
  <2>1. CASE c \in to
    BY <2>1, <1>4, <1>6 DEF Calm
  <2>2. CASE c \notin to
    BY <2>2, <1>7 DEF Calm
  <2> QED
    BY <2>1, <2>2
<1>9. Registry' /\ Counted' /\ Quota'
  BY <1>8, CalmStep
<1>10. Lines'
  <2> SUFFICES ASSUME NEW c \in Conns PROVE Fresh(conn'[c], due'[c], got[c]) /\ Track(conn'[c], due'[c], got[c])
    BY DEF Lines
  <2>1. CASE c \in to
    <3>1. conn[c].at \in Live /\ conn'[c].at = conn[c].at
      BY <2>1, <1>2, <1>4, <1>6
    <3>2. Fresh(conn'[c], due'[c], got[c])
      BY <3>1 DEF Fresh, Live
    <3> QED
      BY <3>2, <2>1, <1>4, <1>6
  <2>2. CASE c \notin to
    BY <2>2, <1>3, <1>7
  <2> QED
    BY <2>1, <2>2
<1> QED
  BY <1>5, <1>6, <1>7, <1>9, <1>10

(* What is due to a connection stays in order and known once.              *)
Longer == /\ emits \in Seq(Emitted) /\ emits' \in Seq(Emitted) /\ Len(emits) <= Len(emits')
          /\ \A k \in 1 .. Len(emits) : emits'[k].from = emits[k].from /\ (~ emits[k].out => ~ emits'[k].out)

LEMMA DueKept ==
  ASSUME Longer, NEW c \in Conns, DueOf(c), due'[c] = due[c],
         \A k \in 1 .. Len(channel'[Home[c]]) :
            \/ \E j \in 1 .. Len(channel[Home[c]]) : channel'[Home[c]][k] = channel[Home[c]][j]
            \/ channel'[Home[c]][k] \in 1 .. Len(emits) /\ emits[channel'[Home[c]][k]].out
  PROVE  DueOf(c)'
<1> DEFINE d == due[c]
<1>1. \A n \in 1 .. Len(d) : d[n] \in 1 .. Len(emits)
  BY DEF DueOf
<1>2. Len(emits) \in Nat /\ Len(emits') \in Nat /\ Len(emits) <= Len(emits')
  BY DEF Longer
<1>3. \A n \in 1 .. Len(d) : d[n] \in 1 .. Len(emits')
  BY <1>1, <1>2
<1>4. \A n \in 1 .. Len(d) : emits'[d[n]].from = emits[d[n]].from /\ (~ emits[d[n]].out => ~ emits'[d[n]].out)
  BY <1>1 DEF Longer
<1>5. ASSUME NEW n \in 1 .. Len(d), emits'[d[n]].from # Home[c]
      PROVE  ~ emits'[d[n]].out /\ \A k \in 1 .. Len(channel'[Home[c]]) : channel'[Home[c]][k] # d[n]
  <2>1. ~ emits[d[n]].out /\ \A k \in 1 .. Len(channel[Home[c]]) : channel[Home[c]][k] # d[n]
    BY <1>4, <1>5 DEF DueOf
  <2>2. ASSUME NEW k \in 1 .. Len(channel'[Home[c]]) PROVE channel'[Home[c]][k] # d[n]
    BY <2>1, <2>2
  <2> QED
    BY <1>4, <2>1, <2>2
<1>6. /\ \A m, n \in 1 .. Len(d) : d[m] = d[n] => m = n
      /\ \A m, n \in 1 .. Len(d) : m < n /\ emits'[d[m]].from = Home[c] /\ emits'[d[n]].from = Home[c] => d[m] < d[n]
  BY <1>4 DEF DueOf
<1> HIDE DEF d
<1>7. due'[c] = d
  BY DEF d
<1> QED
  BY <1>3, <1>5, <1>6, <1>7 DEF DueOf

LEMMA DueGrows ==
  ASSUME Longer, NEW c \in Conns, DueOf(c), due[c] \in Seq(Int), NEW i \in 1 .. Len(emits'),
         due'[c] = Append(due[c], i), ~ Known(due[c], i),
         emits'[i].from = Home[c] => i = Len(emits) + 1,
         emits'[i].from # Home[c] => /\ ~ emits'[i].out
                                     /\ \A k \in 1 .. Len(channel'[Home[c]]) : channel'[Home[c]][k] # i,
         \A k \in 1 .. Len(channel'[Home[c]]) :
            \E j \in 1 .. Len(channel[Home[c]]) : channel'[Home[c]][k] = channel[Home[c]][j]
  PROVE  DueOf(c)'
<1> DEFINE d == due[c]
           e == Append(d, i)
<1>1. \A n \in 1 .. Len(d) : d[n] \in 1 .. Len(emits)
  BY DEF DueOf
<1>2. Len(emits) \in Nat /\ Len(emits') \in Nat /\ Len(emits) <= Len(emits') /\ i \in Int
  BY DEF Longer
<1>3. e \in Seq(Int) /\ Len(e) = Len(d) + 1 /\ Len(d) \in Nat /\ e[Len(d) + 1] = i /\ \A n \in 1 .. Len(d) : e[n] = d[n]
  BY <1>2
<1>4. \A n \in 1 .. Len(d) : d[n] # i
  BY DEF Known
<1>5. \A n \in 1 .. Len(d) : emits'[d[n]].from = emits[d[n]].from /\ (~ emits[d[n]].out => ~ emits'[d[n]].out)
  BY <1>1 DEF Longer
<1>a. \A n \in 1 .. Len(e) : n = Len(d) + 1 \/ n \in 1 .. Len(d)
  BY <1>3
<1> HIDE DEF e
<1>6. \A n \in 1 .. Len(e) : e[n] \in 1 .. Len(emits')
  <2> TAKE n \in 1 .. Len(e)
  <2>1. CASE n = Len(d) + 1
    BY <2>1, <1>3
  <2>2. CASE n \in 1 .. Len(d)
    <3>1. e[n] \in 1 .. Len(emits)
      BY <2>2, <1>1, <1>3
    <3> QED
      BY <3>1, <1>2
  <2> QED
    BY <2>1, <2>2, <1>a
<1>7. \A m, n \in 1 .. Len(e) : e[m] = e[n] => m = n
  <2> SUFFICES ASSUME NEW m \in 1 .. Len(e), NEW n \in 1 .. Len(e), e[m] = e[n] PROVE m = n
    OBVIOUS
  <2>1. CASE m \in 1 .. Len(d) /\ n \in 1 .. Len(d)
    BY <2>1, <1>3 DEF DueOf
  <2>2. CASE m = Len(d) + 1 /\ n \in 1 .. Len(d)
    BY <2>2, <1>3, <1>4
  <2>3. CASE n = Len(d) + 1 /\ m \in 1 .. Len(d)
    BY <2>3, <1>3, <1>4
  <2>4. CASE n = Len(d) + 1 /\ m = Len(d) + 1
    BY <2>4
  <2> QED
    BY <2>1, <2>2, <2>3, <2>4, <1>a
<1>8. ASSUME NEW m \in 1 .. Len(e), NEW n \in 1 .. Len(e), m < n, emits'[e[m]].from = Home[c], emits'[e[n]].from = Home[c]
      PROVE  e[m] < e[n]
  <2>1. m \in 1 .. Len(d)
    BY <1>3, <1>8, <1>a
  <2>2. e[m] = d[m] /\ d[m] \in 1 .. Len(emits) /\ emits[d[m]].from = Home[c]
    BY <2>1, <1>1, <1>3, <1>5, <1>8
  <2>3. CASE n \in 1 .. Len(d)
    <3>1. e[n] = d[n] /\ emits[d[n]].from = Home[c]
      BY <2>3, <1>3, <1>5, <1>8
    <3> QED
      BY <2>1, <2>2, <2>3, <3>1, <1>8 DEF DueOf
  <2>4. CASE n = Len(d) + 1
    <3>1. e[n] = i /\ i = Len(emits) + 1
      BY <2>4, <1>3, <1>8
    <3> QED
      BY <2>2, <3>1, <1>2
  <2> QED
    BY <2>3, <2>4, <1>a
<1>9. ASSUME NEW n \in 1 .. Len(e), emits'[e[n]].from # Home[c]
      PROVE  ~ emits'[e[n]].out /\ \A k \in 1 .. Len(channel'[Home[c]]) : channel'[Home[c]][k] # e[n]
  <2>1. CASE n = Len(d) + 1
    BY <2>1, <1>3, <1>9
  <2>2. CASE n \in 1 .. Len(d)
    <3>1. e[n] = d[n] /\ emits[d[n]].from # Home[c]
      BY <2>2, <1>3, <1>5, <1>9
    <3>2. ~ emits[d[n]].out /\ \A k \in 1 .. Len(channel[Home[c]]) : channel[Home[c]][k] # d[n]
      BY <2>2, <3>1 DEF DueOf
    <3>3. ASSUME NEW k \in 1 .. Len(channel'[Home[c]]) PROVE channel'[Home[c]][k] # d[n]
      BY <3>2, <3>3
    <3> QED
      BY <2>2, <3>1, <3>2, <3>3, <1>5
  <2> QED
    BY <2>1, <2>2, <1>a
<1>10. due'[c] = e
  BY DEF e
<1> QED
  BY <1>6, <1>7, <1>8, <1>9, <1>10 DEF DueOf

LEMMA EmitStep ==
  ASSUME GatewayAssumption, IInv, NEW w \in Workers, NEW room \in Rooms \cup {NULL}, NEW odd \in BOOLEAN,
         Emit(w, room, odd)
  PROVE  IInv'
<1> DEFINE i == Len(emits) + 1
           x == [from |-> w, room |-> room, odd |-> odd, out |-> TRUE]
<1>1. /\ emits' = Append(emits, x) /\ Deliver(w, i, room)
      /\ index' = index /\ gauge' = gauge /\ got' = got /\ channel' = channel /\ stopping' = stopping
  BY DEF Emit
<1>2. emits \in Seq(Emitted) /\ x \in Emitted /\ Len(emits) \in Nat
  BY DEF IInv, Kinds, Emitted
<1>3. /\ emits' \in Seq(Emitted) /\ Len(emits') = i /\ emits'[i].from = w
      /\ \A k \in 1 .. Len(emits) : emits'[k] = emits[k]
  BY <1>1, <1>2
<1>4. Longer /\ i \in 1 .. Len(emits') /\ i \in Int /\ i > 0
  BY <1>2, <1>3 DEF Longer
<1>5. ASSUME NEW c \in Conns PROVE ~ Known(due[c], i)
  <2>1. \A n \in 1 .. Len(due[c]) : due[c][n] \in 1 .. Len(emits)
    BY DEF IInv, Dues, DueOf
  <2>2. i \notin 1 .. Len(emits)
    BY <1>2
  <2> QED
    BY <2>1, <2>2 DEF Known
<1> HIDE DEF i, x
<1>6. /\ conn' \in [Conns -> Records] /\ due' \in [Conns -> Seq(Int)]
      /\ Registry' /\ Counted' /\ Quota' /\ Lines'
      /\ \A c \in Conns : due'[c] = due[c] \/ (Home[c] = w /\ due'[c] = Append(due[c], i))
  BY <1>1, <1>4, <1>5, DeliverStep
<1>7. Kinds'
  BY <1>1, <1>3, <1>6 DEF IInv, Kinds
<1>8. ASSUME NEW c \in Conns PROVE DueOf(c)'
  <2>1. DueOf(c) /\ due[c] \in Seq(Int)
    BY DEF IInv, Dues, Kinds
  <2>2. CASE due'[c] = due[c]
    BY <1>1, <1>4, <2>1, <2>2, DueKept
  <2>3. CASE Home[c] = w /\ due'[c] = Append(due[c], i)
    <3>1. i = Len(emits) + 1
      BY DEF i
    <3> QED
      BY <1>1, <1>3, <1>4, <1>5, <2>1, <2>3, <3>1, DueGrows
  <2> QED
    BY <2>2, <2>3, <1>6
<1>9. ASSUME NEW v \in Workers PROVE ChannelOf(v)'
  <2>1. ChannelOf(v)
    BY DEF IInv, Dues
  <2>2. \A k \in 1 .. Len(channel[v]) : channel[v][k] \in 1 .. Len(emits') /\ ~ emits'[channel[v][k]].out
    <3> TAKE k \in 1 .. Len(channel[v])
    <3>1. channel[v][k] \in 1 .. Len(emits) /\ ~ emits[channel[v][k]].out
      BY <2>1 DEF ChannelOf
    <3>2. Len(emits) <= Len(emits') /\ Len(emits') \in Nat
      BY <1>4 DEF Longer
    <3>3. emits'[channel[v][k]] = emits[channel[v][k]]
      BY <3>1, <1>3
    <3> QED
      BY <3>1, <3>2, <3>3, <1>2
  <2> QED
    BY <2>1, <2>2, <1>1 DEF ChannelOf
<1> QED
  BY <1>6, <1>7, <1>8, <1>9 DEF IInv, Dues

LEMMA RemoteStep == ASSUME GatewayAssumption, IInv, NEW w \in Workers, Remote(w) PROVE IInv'
<1> DEFINE i == Head(channel[w])
           q == channel[w]
<1>1. /\ q # << >> /\ channel' = [channel EXCEPT ![w] = Tail(q)]
      /\ IF emits[i].from = w THEN UNCHANGED << conn, due >> ELSE Deliver(w, i, emits[i].room)
      /\ index' = index /\ gauge' = gauge /\ emits' = emits /\ got' = got /\ stopping' = stopping
  BY DEF Remote
<1>2. /\ channel \in [Workers -> Seq(Int)] /\ q \in Seq(Int) /\ emits \in Seq(Emitted) /\ Len(emits) \in Nat
  BY DEF IInv, Kinds
<1>3. /\ Tail(q) \in Seq(Int) /\ Len(q) \in Nat /\ Len(Tail(q)) = Len(q) - 1 /\ i = q[1] /\ 1 \in 1 .. Len(q)
      /\ \A k \in 1 .. Len(Tail(q)) : k + 1 \in 1 .. Len(q) /\ Tail(q)[k] = q[k + 1]
  BY <1>1, <1>2
<1>4. \A v \in Workers : ChannelOf(v)
  BY DEF IInv, Dues
<1>5. i \in 1 .. Len(emits) /\ ~ emits[i].out /\ i \in Int /\ i > 0
  BY <1>2, <1>3, <1>4 DEF ChannelOf
<1>6. channel' \in [Workers -> Seq(Int)] /\ channel'[w] = Tail(q) /\ \A v \in Workers : v # w => channel'[v] = channel[v]
  BY <1>1, <1>2, <1>3
<1> HIDE DEF i, q
<1>7. \A k \in 1 .. Len(Tail(q)) : Tail(q)[k] # i
  <2> TAKE k \in 1 .. Len(Tail(q))
  <2>1. k + 1 \in 1 .. Len(q) /\ Tail(q)[k] = q[k + 1] /\ k + 1 # 1
    BY <1>3
  <2> QED
    BY <2>1, <1>3, <1>4 DEF ChannelOf, q
<1>8. ASSUME NEW v \in Workers, NEW k \in 1 .. Len(channel'[v])
      PROVE  \E j \in 1 .. Len(channel[v]) : channel'[v][k] = channel[v][j]
  <2>1. CASE v = w
    <3>1. k \in 1 .. Len(Tail(q)) /\ channel'[v][k] = Tail(q)[k]
      BY <2>1, <1>6, <1>8
    <3> QED
      BY <2>1, <3>1, <1>3 DEF q
  <2>2. CASE v # w
    BY <2>2, <1>6, <1>8
  <2> QED
    BY <2>1, <2>2
<1>9. Longer
  BY <1>1, <1>2 DEF Longer
<1>10. ASSUME NEW v \in Workers PROVE ChannelOf(v)'
  <2>1. CASE v # w
    BY <2>1, <1>1, <1>4, <1>6 DEF ChannelOf
  <2>2. CASE v = w
    <3>1. \A k \in 1 .. Len(q) : q[k] \in 1 .. Len(emits) /\ ~ emits[q[k]].out
      BY <1>4 DEF ChannelOf, q
    <3>2. \A j, k \in 1 .. Len(q) : q[j] = q[k] => j = k
      BY <1>4 DEF ChannelOf, q
    <3>3. \A k \in 1 .. Len(Tail(q)) : Tail(q)[k] \in 1 .. Len(emits) /\ ~ emits[Tail(q)[k]].out
      BY <3>1, <1>3
    <3>4. \A j, k \in 1 .. Len(Tail(q)) : Tail(q)[j] = Tail(q)[k] => j = k
      <4> TAKE j, k \in 1 .. Len(Tail(q))
      <4>1. /\ j + 1 \in 1 .. Len(q) /\ k + 1 \in 1 .. Len(q) /\ Tail(q)[j] = q[j + 1] /\ Tail(q)[k] = q[k + 1]
            /\ j + 1 = k + 1 => j = k
        BY <1>3
      <4> QED
        BY <4>1, <3>2
    <3> QED
      BY <2>2, <3>3, <3>4, <1>1, <1>6 DEF ChannelOf
  <2> QED
    BY <2>1, <2>2
<1>11. \A c \in Conns : Home[c] \in Workers
  BY DEF GatewayAssumption
<1>12. CASE emits[i].from = w
  <2>1. conn' = conn /\ due' = due
    BY <1>1, <1>12
  <2>2. Kinds'
    BY <2>1, <1>1, <1>6 DEF IInv, Kinds
  <2>3. Registry' /\ Counted' /\ Quota'
    BY <2>1, <1>1, CalmStep DEF Calm
  <2>4. Lines'
    BY <2>1, <1>1 DEF IInv, Lines
  <2>5. ASSUME NEW c \in Conns PROVE DueOf(c)'
    <3>1. DueOf(c) /\ due'[c] = due[c]
      BY <2>1 DEF IInv, Dues
    <3> QED
      BY <3>1, <1>8, <1>9, <1>11, DueKept
  <2> QED
    BY <2>2, <2>3, <2>4, <2>5, <1>10 DEF IInv, Dues
<1>13. CASE emits[i].from # w
  <2>1. Deliver(w, i, emits[i].room) /\ emits[i].room \in Rooms \cup {NULL}
    <3>1. emits[i] \in Emitted
      BY <1>2, <1>5
    <3> QED
      BY <3>1, <1>1, <1>13 DEF Emitted
  <2>2. ASSUME NEW c \in Conns, Home[c] = w PROVE ~ Known(due[c], i)
    <3>1. \A n \in 1 .. Len(due[c]) : emits[due[c][n]].from # w =>
             \A k \in 1 .. Len(q) : q[k] # due[c][n]
      BY <2>2 DEF IInv, Dues, DueOf, q
    <3> QED
      BY <3>1, <1>3, <1>13 DEF Known
  <2>3. /\ conn' \in [Conns -> Records] /\ due' \in [Conns -> Seq(Int)]
        /\ Registry' /\ Counted' /\ Quota' /\ Lines'
        /\ \A c \in Conns : due'[c] = due[c] \/ (Home[c] = w /\ due'[c] = Append(due[c], i))
    BY <1>1, <1>5, <2>1, <2>2, DeliverStep
  <2>4. Kinds'
    BY <2>3, <1>1, <1>6 DEF IInv, Kinds
  <2>5. ASSUME NEW c \in Conns PROVE DueOf(c)'
    <3>1. DueOf(c) /\ due[c] \in Seq(Int)
      BY DEF IInv, Dues, Kinds
    <3>2. CASE due'[c] = due[c]
      BY <3>1, <3>2, <1>8, <1>9, <1>11, DueKept
    <3>3. CASE Home[c] = w /\ due'[c] = Append(due[c], i)
      <4>1. i \in 1 .. Len(emits') /\ emits'[i].from # w /\ ~ emits'[i].out
        BY <1>1, <1>5, <1>13
      <4>2. \A k \in 1 .. Len(channel'[w]) : channel'[w][k] # i
        BY <1>6, <1>7
      <4>3. ~ Known(due[c], i)
        BY <3>3, <2>2
      <4> QED
        BY <3>1, <3>3, <4>1, <4>2, <4>3, <1>8, <1>9, DueGrows
    <3> QED
      BY <3>2, <3>3, <2>3
  <2> QED
    BY <2>3, <2>4, <2>5, <1>10 DEF IInv, Dues
<1> QED
  BY <1>12, <1>13

LEMMA PublishStep ==
  ASSUME GatewayAssumption, IInv, NEW i \in DOMAIN emits, NEW fails \in BOOLEAN, Publish(i, fails)
  PROVE  IInv'
<1>1. /\ emits[i].out /\ emits' = [emits EXCEPT ![i].out = FALSE]
      /\ channel' = [w \in Workers |-> IF listening[w] /\ ~ fails /\ ~ emits[i].odd
                                       THEN Append(channel[w], i) ELSE channel[w]]
      /\ conn' = conn /\ index' = index /\ gauge' = gauge /\ due' = due /\ got' = got /\ stopping' = stopping
  BY DEF Publish
<1>2. /\ emits \in Seq(Emitted) /\ Len(emits) \in Nat /\ i \in 1 .. Len(emits) /\ channel \in [Workers -> Seq(Int)]
  BY DEF IInv, Kinds
<1>3. /\ emits' \in Seq(Emitted) /\ Len(emits') = Len(emits) /\ ~ emits'[i].out
      /\ \A k \in 1 .. Len(emits) : emits'[k].from = emits[k].from /\ (k # i => emits'[k] = emits[k])
  <2>1. emits[i] \in Emitted
    BY <1>2
  <2>2. [emits[i] EXCEPT !.out = FALSE] \in Emitted /\ [emits[i] EXCEPT !.out = FALSE].from = emits[i].from
        /\ ~ [emits[i] EXCEPT !.out = FALSE].out
    BY <2>1 DEF Emitted
  <2> DEFINE x == [emits[i] EXCEPT !.out = FALSE]
  <2>3. emits' = [emits EXCEPT ![i] = x]
    BY <1>1
  <2> HIDE DEF x
  <2>4. x \in Emitted /\ x.from = emits[i].from /\ ~ x.out
    BY <2>2 DEF x
  <2> QED
    BY <2>3, <2>4, <1>2
<1>4. Longer
  BY <1>2, <1>3 DEF Longer
<1>5. ASSUME NEW w \in Workers
      PROVE  channel'[w] \in Seq(Int) /\ (channel'[w] = channel[w] \/ channel'[w] = Append(channel[w], i))
  BY <1>1, <1>2
<1>6. channel' \in [Workers -> Seq(Int)]
  <2>1. \A w \in Workers : (IF listening[w] /\ ~ fails /\ ~ emits[i].odd THEN Append(channel[w], i) ELSE channel[w]) \in Seq(Int)
    BY <1>2
  <2> QED
    BY <2>1, <1>1
<1>7. ASSUME NEW w \in Workers, NEW k \in 1 .. Len(channel'[w])
      PROVE  channel'[w][k] = i \/ \E j \in 1 .. Len(channel[w]) : channel'[w][k] = channel[w][j]
  <2>1. CASE channel'[w] = channel[w]
    BY <2>1, <1>7
  <2>2. CASE channel'[w] = Append(channel[w], i)
    <3>1. channel[w] \in Seq(Int) /\ i \in Int
      BY <1>2
    <3>2. k = Len(channel[w]) + 1 \/ k \in 1 .. Len(channel[w])
      BY <2>2, <3>1, <1>7
    <3> QED
      BY <2>2, <3>1, <3>2
  <2> QED
    BY <2>1, <2>2, <1>5
<1>8. Kinds'
  BY <1>1, <1>3, <1>6 DEF IInv, Kinds
<1>9. Registry' /\ Counted' /\ Quota' /\ Lines'
  <2>1. Registry' /\ Counted' /\ Quota'
    BY <1>1, CalmStep DEF Calm
  <2> QED
    BY <2>1, <1>1 DEF IInv, Lines
<1>10. ASSUME NEW c \in Conns PROVE DueOf(c)'
  <2>1. DueOf(c) /\ due'[c] = due[c] /\ Home[c] \in Workers
    BY <1>1 DEF IInv, Dues, GatewayAssumption
  <2>2. \A k \in 1 .. Len(channel'[Home[c]]) :
            \/ \E j \in 1 .. Len(channel[Home[c]]) : channel'[Home[c]][k] = channel[Home[c]][j]
            \/ channel'[Home[c]][k] \in 1 .. Len(emits) /\ emits[channel'[Home[c]][k]].out
    BY <2>1, <1>1, <1>2, <1>7
  <2> QED
    BY <2>1, <2>2, <1>4, DueKept
<1>11. ASSUME NEW w \in Workers PROVE ChannelOf(w)'
  <2>1. ChannelOf(w) /\ channel[w] \in Seq(Int)
    BY <1>2 DEF IInv, Dues
  <2>2. \A k \in 1 .. Len(channel[w]) : channel[w][k] \in 1 .. Len(emits) /\ channel[w][k] # i
    BY <2>1, <1>1 DEF ChannelOf
  <2>3. \A k \in 1 .. Len(channel'[w]) : channel'[w][k] \in 1 .. Len(emits) /\ ~ emits'[channel'[w][k]].out
    <3> TAKE k \in 1 .. Len(channel'[w])
    <3>1. CASE channel'[w][k] = i
      BY <3>1, <1>2, <1>3
    <3>2. ASSUME NEW j \in 1 .. Len(channel[w]), channel'[w][k] = channel[w][j]
          PROVE  channel'[w][k] \in 1 .. Len(emits) /\ ~ emits'[channel'[w][k]].out
      <4>1. channel[w][j] \in 1 .. Len(emits) /\ channel[w][j] # i /\ ~ emits[channel[w][j]].out
        BY <2>1, <2>2 DEF ChannelOf
      <4>2. emits'[channel[w][j]] = emits[channel[w][j]]
        BY <4>1, <1>3
      <4> QED
        BY <3>2, <4>1, <4>2
    <3> QED
      BY <3>1, <3>2, <1>7
  <2>4. \A j, k \in 1 .. Len(channel'[w]) : channel'[w][j] = channel'[w][k] => j = k
    <3>1. CASE channel'[w] = channel[w]
      BY <3>1, <2>1 DEF ChannelOf
    <3>2. CASE channel'[w] = Append(channel[w], i)
      <4> DEFINE q == channel[w]
                 p == Append(q, i)
      <4>1. Len(p) = Len(q) + 1 /\ Len(q) \in Nat /\ p[Len(q) + 1] = i /\ \A k \in 1 .. Len(q) : p[k] = q[k]
        BY <2>1, <1>2
      <4>2. \A j, k \in 1 .. Len(q) : q[j] = q[k] => j = k
        BY <2>1 DEF ChannelOf
      <4>3. \A k \in 1 .. Len(q) : q[k] # i
        BY <2>2
      <4>4. channel'[w] = p
        BY <3>2
      <4> HIDE DEF p, q
      <4> SUFFICES ASSUME NEW j \in 1 .. Len(p), NEW k \in 1 .. Len(p), p[j] = p[k] PROVE j = k
        BY <4>4
      <4>5. (j = Len(q) + 1 \/ j \in 1 .. Len(q)) /\ (k = Len(q) + 1 \/ k \in 1 .. Len(q))
        BY <4>1
      <4> QED
        BY <4>1, <4>2, <4>3, <4>5
    <3> QED
      BY <3>1, <3>2, <1>5
  <2> QED
    BY <2>3, <2>4, <1>3 DEF ChannelOf
<1> QED
  BY <1>8, <1>9, <1>10, <1>11 DEF IInv, Dues

(* Redis is lost and found again, and the worker shuts down.               *)
LEMMA WorkerStep ==
  ASSUME GatewayAssumption, IInv, NEW w \in Workers, Listen(w) \/ Shutdown(w) \/ Down(w)
  PROVE  IInv'
<1>1. /\ conn' = conn /\ index' = index /\ emits' = emits /\ due' = due /\ got' = got
      /\ channel' = channel \/ channel' = [channel EXCEPT ![w] = << >>]
      /\ \/ gauge' = gauge /\ stopping' = stopping
         \/ gauge' = gauge /\ stopping[w] = "no" /\ stopping' = [stopping EXCEPT ![w] = "closing"]
         \/ gauge' = [gauge EXCEPT ![w] = 0] /\ stopping' = [stopping EXCEPT ![w] = "down"]
  BY DEF Listen, Shutdown, Down
<1>2. /\ channel \in [Workers -> Seq(Int)] /\ gauge \in [Workers -> Int] /\ emits \in Seq(Emitted)
      /\ stopping \in [Workers -> {"no", "closing", "down"}]
  BY DEF IInv, Kinds
<1>3. channel' \in [Workers -> Seq(Int)] /\ \A v \in Workers : channel'[v] = channel[v] \/ channel'[v] = << >>
  <2>1. CASE channel' = channel
    BY <2>1, <1>2
  <2>2. CASE channel' = [channel EXCEPT ![w] = << >>]
    <3>1. << >> \in Seq(Int)
      OBVIOUS
    <3> DEFINE e == << >>
    <3> HIDE DEF e
    <3>2. channel' = [channel EXCEPT ![w] = e] /\ e \in Seq(Int)
      BY <2>2, <3>1 DEF e
    <3>3. channel' \in [Workers -> Seq(Int)] /\ \A v \in Workers : channel'[v] = channel[v] \/ channel'[v] = e
      BY <3>2, <1>2
    <3> QED
      BY <3>3 DEF e
  <2> QED
    BY <2>1, <2>2, <1>1
<1>4. /\ gauge' \in [Workers -> Int] /\ stopping' \in [Workers -> {"no", "closing", "down"}]
      /\ \A v \in Workers : stopping'[v] # "down" => stopping[v] # "down" /\ gauge'[v] = gauge[v]
  <2>1. CASE gauge' = gauge /\ stopping' = stopping
    BY <2>1, <1>2
  <2>2. CASE gauge' = gauge /\ stopping[w] = "no" /\ stopping' = [stopping EXCEPT ![w] = "closing"]
    <3>1. stopping' \in [Workers -> {"no", "closing", "down"}]
      BY <2>2, <1>2
    <3>2. \A v \in Workers : stopping'[v] # "down" => stopping[v] # "down"
      BY <2>2, <1>2
    <3> QED
      BY <2>2, <3>1, <3>2, <1>2
  <2>3. CASE gauge' = [gauge EXCEPT ![w] = 0] /\ stopping' = [stopping EXCEPT ![w] = "down"]
    <3>1. stopping' \in [Workers -> {"no", "closing", "down"}] /\ gauge' \in [Workers -> Int]
      BY <2>3, <1>2
    <3>2. stopping'[w] = "down" /\ \A v \in Workers : v # w => stopping'[v] = stopping[v] /\ gauge'[v] = gauge[v]
      BY <2>3, <1>2
    <3> QED
      BY <3>1, <3>2
  <2> QED
    BY <2>1, <2>2, <2>3, <1>1
<1>6. Kinds'
  BY <1>1, <1>3, <1>4 DEF IInv, Kinds
<1>7. Registry' /\ Counted' /\ Quota'
  BY <1>1, <1>4, CalmStep DEF Calm
<1>8. Lines'
  BY <1>1 DEF IInv, Lines
<1>9. Longer
  BY <1>1, <1>2 DEF Longer
<1>10. ASSUME NEW c \in Conns PROVE DueOf(c)'
  <2>1. DueOf(c) /\ due'[c] = due[c] /\ Home[c] \in Workers
    BY <1>1 DEF IInv, Dues, GatewayAssumption
  <2>2. \A k \in 1 .. Len(channel'[Home[c]]) :
           \E j \in 1 .. Len(channel[Home[c]]) : channel'[Home[c]][k] = channel[Home[c]][j]
    BY <2>1, <1>3
  <2> QED
    BY <2>1, <2>2, <1>9, DueKept
<1>11. ASSUME NEW v \in Workers PROVE ChannelOf(v)'
  <2>1. ChannelOf(v)
    BY DEF IInv, Dues
  <2>2. CASE channel'[v] = channel[v]
    BY <2>1, <2>2, <1>1 DEF ChannelOf
  <2>3. CASE channel'[v] = << >>
    BY <2>3 DEF ChannelOf
  <2> QED
    BY <2>2, <2>3, <1>3
<1> QED
  BY <1>6, <1>7, <1>8, <1>10, <1>11 DEF IInv, Dues

-----------------------------------------------------------------------------
LEMMA GatewayInit == ASSUME GatewayAssumption, Init PROVE IInv
<1>1. Kinds
  <2>1. conn \in [Conns -> Records]
    BY DEF Init, Records, Places
  <2>2. index \in [Workers -> Indexes]
    <3>1. Nobody \in TablesOf(Users) /\ Nobody \in TablesOf(Rooms)
      <4>1. Nobody \in [{} -> SUBSET Conns]
        BY DEF Nobody
      <4>2. {} \in SUBSET Users /\ {} \in SUBSET Rooms
        OBVIOUS
      <4> QED
        BY <4>1, <4>2 DEF TablesOf
    <3> QED
      BY <3>1 DEF Init, Indexes
  <2> QED
    <3>1. emits \in Seq(Emitted) /\ due \in [Conns -> Seq(Int)] /\ got \in [Conns -> Seq(Int)]
      BY DEF Init
    <3>2. channel \in [Workers -> Seq(Int)] /\ gauge \in [Workers -> Int]
      BY DEF Init
    <3>3. stopping \in [Workers -> {"no", "closing", "down"}]
      BY DEF Init
    <3> QED
      BY <2>1, <2>2, <3>1, <3>2, <3>3 DEF Kinds
<1>2. \A c \in Conns : conn[c].at = "new" /\ conn[c].rooms = {} /\ conn[c].queue = << >> /\ conn[c].writer = "none"
                       /\ due[c] = << >> /\ got[c] = << >>
  BY DEF Init
<1>3. \A w \in Workers : /\ index[w].sockets = {} /\ index[w].users = Nobody /\ index[w].rooms = Nobody
                         /\ gauge[w] = 0 /\ channel[w] = << >>
  BY DEF Init
<1>4. \A x : In(Nobody, x) = {}
  BY DEF In, Nobody
<1>5. Named(Nobody)
  BY DEF Named, Nobody
<1>6. Registry
  <2> SUFFICES ASSUME NEW w \in Workers PROVE SocketsOf(w) /\ UsersOf(w) /\ RoomsOf(w)
    BY DEF Registry
  <2>1. SocketsOf(w)
    BY <1>2, <1>3 DEF SocketsOf, Live
  <2>2. UsersOf(w)
    BY <1>3, <1>4, <1>5 DEF UsersOf
  <2>3. RoomsOf(w)
    BY <1>2, <1>3, <1>4, <1>5 DEF RoomsOf
  <2> QED
    BY <2>1, <2>2, <2>3
<1>7. Counted
  <2> SUFFICES ASSUME NEW w \in Workers PROVE gauge[w] = Cardinality(Alive(w))
    BY DEF Counted
  <2>1. Alive(w) = {}
    BY <1>2 DEF Alive, Live
  <2> QED
    BY <2>1, <1>3, FS_EmptySet
<1>8. Quota
  <2>1. Cardinality({}) = 0 /\ IsFiniteSet({})
    BY FS_EmptySet
  <2>2. PerUser > 0 => \A w \in Workers, u \in Users : Cardinality(In(index[w].users, u)) <= PerUser
    <3> SUFFICES ASSUME PerUser > 0, NEW w \in Workers, NEW u \in Users PROVE Cardinality(In(index[w].users, u)) <= PerUser
      OBVIOUS
    <3>1. In(index[w].users, u) = {}
      BY <1>3, <1>4
    <3>2. Cardinality(In(index[w].users, u)) = 0
      BY <2>1, <3>1
    <3> QED
      BY <3>2 DEF GatewayAssumption
  <2>3. \A c \in Conns : /\ IsFiniteSet(conn[c].rooms) /\ Cardinality(conn[c].rooms) <= MaxRooms
                         /\ conn[c].at = "asking" => Cardinality(conn[c].rooms) < MaxRooms
    <3> SUFFICES ASSUME NEW c \in Conns PROVE IsFiniteSet(conn[c].rooms) /\ Cardinality(conn[c].rooms) <= MaxRooms /\ conn[c].at # "asking"
      BY <1>2
    <3>1. conn[c].rooms = {} /\ conn[c].at = "new"
      BY <1>2
    <3>2. Cardinality(conn[c].rooms) = 0 /\ IsFiniteSet(conn[c].rooms)
      BY <2>1, <3>1
    <3>3. MaxRooms \in Nat
      BY DEF GatewayAssumption
    <3> QED
      BY <3>1, <3>2, <3>3
  <2> QED
    BY <2>2, <2>3 DEF Quota
<1>9. Dues
  BY <1>2, <1>3 DEF Dues, DueOf, ChannelOf
<1>10. Lines
  <2> SUFFICES ASSUME NEW c \in Conns PROVE Fresh(conn[c], due[c], got[c]) /\ Track(conn[c], due[c], got[c])
    BY DEF Lines
  <2>1. Fresh(conn[c], due[c], got[c])
    BY <1>2 DEF Fresh
  <2>2. Track(conn[c], due[c], got[c])
    BY <1>2 DEF Track, Line, Prefix, NoGap, Complete
  <2> QED
    BY <2>1, <2>2
<1> QED
  BY <1>1, <1>6, <1>7, <1>8, <1>9, <1>10 DEF IInv

LEMMA GatewayStep == ASSUME GatewayAssumption, IInv, [Next]_vars PROVE IInv'
<1>1. CASE UNCHANGED vars
  BY <1>1, Kept DEF vars, Others
<1>2. ASSUME NEW c \in Conns, Step(c) \/ ClientGone(c) \/ CloseSoon(c) \/ Write(c) \/ Heartbeat(c) \/ CloseOne(c)
      PROVE  IInv'
  <2>1. CASE Quiet(c)
    BY <2>1, <1>2, QuietStep
  <2>2. CASE Enter(c)
    BY <2>2, <1>2, EnterStep
  <2>3. CASE Hooks(c)
    BY <2>3, <1>2, HooksStep
  <2>4. CASE Gone(c)
    BY <2>4, <1>2, GoneStep
  <2>5. CASE Write(c)
    BY <2>5, <1>2, WriteStep
  <2>6. CASE \E r \in Rooms : LeaveRoom(c, r) \/ JoinRoom(c, r)
    BY <2>6, <1>2, LeaveRoomStep, JoinRoomStep
  <2> QED
    BY <2>1, <2>2, <2>3, <2>4, <2>5, <2>6, <1>2 DEF Step, Quiet
<1>3. ASSUME NEW w \in Workers, Listen(w) \/ Shutdown(w) \/ Down(w) PROVE IInv'
  BY <1>3, WorkerStep
<1>4. ASSUME NEW w \in Workers, NEW room \in Rooms \cup {NULL}, NEW odd \in BOOLEAN, Emit(w, room, odd) PROVE IInv'
  BY <1>4, EmitStep
<1>5. ASSUME NEW w \in Workers, Remote(w) PROVE IInv'
  BY <1>5, RemoteStep
<1>6. ASSUME NEW i \in DOMAIN emits, NEW fails \in BOOLEAN, Publish(i, fails) PROVE IInv'
  BY <1>6, PublishStep
<1> QED
  BY <1>1, <1>2, <1>3, <1>4, <1>5, <1>6 DEF Next

(* What the invariant says of the registers and of what a client got.      *)
LEMMA GatewayIsSafe == ASSUME GatewayAssumption, IInv PROVE GatewaySafe
<1>1. Registers
  <2> SUFFICES ASSUME NEW w \in Workers
      PROVE  /\ index[w].sockets = {c \in Conns : Home[c] = w /\ Registered(c)}
             /\ \A u \in DOMAIN index[w].users :
                  index[w].users[u] = {c \in index[w].sockets : User[c] = u} /\ index[w].users[u] # {}
             /\ \A r \in Rooms : In(index[w].rooms, r) = {c \in Conns : Home[c] = w /\ r \in conn[c].rooms}
             /\ {} \notin {index[w].rooms[r] : r \in DOMAIN index[w].rooms}
    BY DEF Registers
  <2>1. SocketsOf(w) /\ UsersOf(w) /\ RoomsOf(w)
    BY DEF IInv, Registry
  <2>2. index[w].users \in TablesOf(Users)
    BY DEF IInv, Kinds, Indexes
  <2>3. DOMAIN index[w].users \subseteq Users
    BY <2>2, TableIs
  <2>4. \A u \in DOMAIN index[w].users :
           index[w].users[u] = {c \in index[w].sockets : User[c] = u} /\ index[w].users[u] # {}
    BY <2>1, <2>3 DEF UsersOf, Named, In
  <2>5. index[w].sockets = {c \in Conns : Home[c] = w /\ Registered(c)}
    BY <2>1 DEF SocketsOf, Registered, Live
  <2>6. {} \notin {index[w].rooms[r] : r \in DOMAIN index[w].rooms}
    BY <2>1 DEF RoomsOf, Named
  <2> QED
    BY <2>1, <2>4, <2>5, <2>6 DEF RoomsOf
<1>2. GaugeTrue
  <2> SUFFICES ASSUME NEW w \in Workers, Running(w)
      PROVE  gauge[w] = Cardinality({c \in Conns : Home[c] = w /\ (Registered(c) \/ conn[c].at = "removed")})
    BY DEF GaugeTrue
  <2>1. Alive(w) = {c \in Conns : Home[c] = w /\ (Registered(c) \/ conn[c].at = "removed")}
    BY DEF Alive, Registered, Live
  <2> QED
    BY <2>1 DEF IInv, Counted
<1>3. QuotaKept
  <2>1. ASSUME PerUser > 0, NEW w \in Workers, NEW u \in DOMAIN index[w].users
        PROVE  Cardinality(index[w].users[u]) <= PerUser
    <3>1. DOMAIN index[w].users \subseteq Users
      BY TableIs DEF IInv, Kinds, Indexes
    <3>2. In(index[w].users, u) = index[w].users[u]
      BY <2>1 DEF In
    <3> QED
      BY <2>1, <3>1, <3>2 DEF IInv, Quota
  <2> QED
    BY <2>1 DEF QuotaKept, IInv, Quota
<1>4. ASSUME NEW c \in Conns
      PROVE  /\ Distinct(due[c]) /\ DueOf(c) /\ Track(conn[c], due[c], got[c])
             /\ due[c] \in Seq(Int) /\ got[c] \in Seq(Int) /\ conn[c].queue \in Seq(Int)
  BY <1>4 DEF IInv, Kinds, Records, Dues, DueOf, Distinct, Lines
<1>5. OnceInOrder
  <2> SUFFICES ASSUME NEW c \in Conns, NEW i \in DOMAIN got[c], NEW j \in DOMAIN got[c]
      PROVE  /\ i # j => got[c][i] # got[c][j]
             /\ i < j /\ emits[got[c][i]].from = Home[c] /\ emits[got[c][j]].from = Home[c]
                  => got[c][i] < got[c][j]
    BY DEF OnceInOrder
  <2>1. i \in 1 .. Len(got[c]) /\ j \in 1 .. Len(got[c])
    BY <1>4
  <2>2. \A a, b \in 1 .. Len(got[c]) : a < b => After(due[c], got[c][a], got[c][b])
    BY <1>4 DEF Track, Line
  <2>3. \A a, b \in 1 .. Len(got[c]) : a < b => got[c][a] # got[c][b]
    <3> SUFFICES ASSUME NEW a \in 1 .. Len(got[c]), NEW b \in 1 .. Len(got[c]), a < b PROVE got[c][a] # got[c][b]
      OBVIOUS
    <3>1. PICK m, n \in 1 .. Len(due[c]) : m < n /\ due[c][m] = got[c][a] /\ due[c][n] = got[c][b]
      BY <2>2 DEF After
    <3>2. m # n
      BY <3>1, <1>4
    <3> QED
      BY <3>1, <3>2, <1>4 DEF Distinct
  <2>4. i # j => got[c][i] # got[c][j]
    <3>1. i < j \/ j < i \/ i = j
      BY <2>1
    <3> QED
      BY <3>1, <2>1, <2>3
  <2>5. ASSUME i < j, emits[got[c][i]].from = Home[c], emits[got[c][j]].from = Home[c]
        PROVE  got[c][i] < got[c][j]
    <3>1. PICK m, n \in 1 .. Len(due[c]) : m < n /\ due[c][m] = got[c][i] /\ due[c][n] = got[c][j]
      BY <2>1, <2>2, <2>5 DEF After
    <3>2. due[c][m] < due[c][n]
      BY <3>1, <2>5, <1>4 DEF DueOf
    <3> QED
      BY <3>1, <3>2
  <2> QED
    BY <2>4, <2>5
<1>6. NoSilentLoss
  <2> SUFFICES ASSUME Overflow = "close", NEW c \in Conns
      PROVE  /\ \A m, n \in DOMAIN due[c] : due[c][m] = due[c][n] => m = n
             /\ \A n \in DOMAIN got[c] : got[c][n] = due[c][n]
             /\ Registered(c) /\ ~ conn[c].closing /\ conn[c].writer = "run" =>
                  /\ \A n \in Unsent(c) : \E k \in InLine(c) : conn[c].queue[k] = due[c][n]
                  /\ \A k \in InLine(c) : \E n \in Unsent(c) : conn[c].queue[k] = due[c][n]
                  /\ \A j, k \in InLine(c) : j < k =>
                       \E m, n \in Unsent(c) : m < n /\ due[c][m] = conn[c].queue[j] /\ due[c][n] = conn[c].queue[k]
    BY DEF NoSilentLoss
  <2> DEFINE d == due[c]
             g == got[c]
             q == conn[c].queue
  <2>1. DOMAIN d = 1 .. Len(d) /\ DOMAIN g = 1 .. Len(g) /\ DOMAIN q = 1 .. Len(q)
    BY <1>4
  <2>2. Line(q, d, g) /\ Prefix(d, g) /\ Distinct(d)
    BY <1>4 DEF Track
  <2>3. \A m, n \in DOMAIN d : d[m] = d[n] => m = n
    BY <2>1, <2>2 DEF Distinct
  <2>4. \A n \in DOMAIN g : g[n] = d[n]
    BY <2>1, <2>2 DEF Prefix
  <2>5. Unsent(c) = {n \in 1 .. Len(d) : n > Len(g)} /\ InLine(c) = {n \in 1 .. Len(q) : q[n] > 0}
    BY <2>1 DEF Unsent, InLine
  <2>6. Positive(d)
    <3>1. Len(emits) \in Nat
      BY DEF IInv, Kinds
    <3> QED
      BY <3>1, <1>4 DEF DueOf, Positive
  <2>7. ASSUME Registered(c), ~ conn[c].closing, conn[c].writer = "run"
        PROVE  /\ \A n \in Unsent(c) : \E k \in InLine(c) : q[k] = d[n]
               /\ \A k \in InLine(c) : \E n \in Unsent(c) : q[k] = d[n]
               /\ \A j, k \in InLine(c) : j < k =>
                    \E m, n \in Unsent(c) : m < n /\ d[m] = q[j] /\ d[n] = q[k]
    <3>1. NoGap(q, d, g) /\ Complete(q, d, g)
      BY <2>7, <1>4 DEF Track, Registered, Live
    <3> HIDE DEF d, g, q
    <3>2. ASSUME NEW n \in Unsent(c) PROVE \E k \in InLine(c) : q[k] = d[n]
      <4>1. n \in 1 .. Len(d) /\ n > Len(g)
        BY <3>2, <2>5
      <4>2. PICK k \in 1 .. Len(q) : q[k] = d[n]
        BY <4>1, <3>1 DEF Complete
      <4>3. k \in InLine(c)
        BY <4>1, <4>2, <2>5, <2>6 DEF Positive
      <4> QED
        BY <4>2, <4>3
    <3>3. ASSUME NEW k \in InLine(c) PROVE \E n \in Unsent(c) : q[k] = d[n]
      <4>1. k \in 1 .. Len(q) /\ q[k] > 0
        BY <3>3, <2>5
      <4>2. PICK n \in 1 .. Len(d) : d[n] = q[k]
        BY <4>1, <2>2 DEF Line, Known
      <4>3. n > Len(g)
        BY <4>1, <4>2, <3>1 DEF NoGap
      <4>4. n \in Unsent(c)
        BY <4>3, <2>5
      <4> QED
        BY <4>2, <4>4
    <3>4. ASSUME NEW j \in InLine(c), NEW k \in InLine(c), j < k
          PROVE  \E m, n \in Unsent(c) : m < n /\ d[m] = q[j] /\ d[n] = q[k]
      <4>1. j \in 1 .. Len(q) /\ q[j] > 0 /\ k \in 1 .. Len(q) /\ q[k] > 0
        BY <3>4, <2>5
      <4>2. PICK m, n \in 1 .. Len(d) : m < n /\ d[m] = q[j] /\ d[n] = q[k]
        BY <4>1, <3>4, <2>2 DEF Line, After
      <4>3. m > Len(g) /\ n > Len(g)
        BY <4>1, <4>2, <3>1 DEF NoGap
      <4>4. m \in Unsent(c) /\ n \in Unsent(c)
        BY <4>3, <2>5
      <4> QED
        BY <4>2, <4>4
    <3> QED
      BY <3>2, <3>3, <3>4
  <2> QED
    BY <2>3, <2>4, <2>7
<1> QED
  BY <1>1, <1>2, <1>3, <1>5, <1>6 DEF GatewaySafe

(* A gateway by itself is safe.                                            *)
THEOREM GatewayStaysSafe == ASSUME GatewayAssumption PROVE Init /\ [][Next]_vars => []GatewaySafe
<1>1. Init => IInv
  BY GatewayInit
<1>2. IInv /\ [Next]_vars => IInv'
  BY GatewayStep
<1>3. IInv => GatewaySafe
  BY GatewayIsSafe
<1> QED
  BY <1>1, <1>2, <1>3, PTL
=============================================================================
