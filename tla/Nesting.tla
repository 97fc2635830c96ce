------------------------------- MODULE Nesting ------------------------------
(***************************************************************************)
(* include() and nest_under() of the query builder: one query for the rows *)
(* of the root, one more per included table or level of nesting, cut into  *)
(* chunks of keys, each an await at which other tasks write. Records have  *)
(* an id and at most one foreign key "up", as declared by References.      *)
(***************************************************************************)
EXTENDS Integers, FiniteSetsExt, SequencesExt

CONSTANTS NULL, Stores, References, Chains, Selections,
          IN_CHUNK,      \* keys of one IN list
          MaxRuns,       \* runs of the one query
          MaxWrites      \* writes by other tasks while it runs

VARIABLES store,         \* entity -> sequence of records
          root,          \* the entity of the query
          includes, nest, selects, orders, limit,    \* QuerySpec
          pc,            \* where all() is: "idle", "root", "fetch"
          run,           \* its locals, and those of first()
          got,           \* slot -> rows read: 0 or a level the root, levels, includes
          given,         \* history: selects and orders as the caller left them
          runs, touched, writes    \* history: runs; rows written in this one; writes

spec == << root, includes, nest, selects, orders, limit >>
vars == << store, spec, pc, run, got, given, runs, touched, writes >>

NoRun == [jobs |-> << >>, added |-> {}, keep |-> NULL, sorted |-> {}]

Init == /\ store \in Stores
        /\ root \in DOMAIN store
        /\ includes = << >> /\ nest = << >> /\ selects = {} /\ orders = << >> /\ limit = NULL
        /\ pc = "idle" /\ run = NoRun /\ got = << >>
        /\ given = [selects |-> {}, orders |-> << >>]
        /\ runs = 0 /\ touched = {} /\ writes = 0

-----------------------------------------------------------------------------
(* Building; an order names the entity whose id it sorts by, descending.   *)
Building == pc = "idle" /\ runs = 0
Still == << store, root, limit, pc, run, got, runs, touched, writes >>

Include(e) ==
  /\ Building /\ e # root /\ includes = << >>
  /\ includes' = << e >>
  /\ UNCHANGED << Still, nest, selects, orders, given >>

NestUnder(chain) ==
  /\ Building /\ nest = << >>
  /\ nest' = chain
  /\ UNCHANGED << Still, includes, selects, orders, given >>

SelectOnly(fields) ==
  /\ Building /\ selects = {}
  /\ selects' = fields
  /\ given' = [given EXCEPT !.selects = fields]
  /\ UNCHANGED << Still, includes, nest, orders >>

OrderDesc(e) ==
  /\ Building /\ orders = << >>
  /\ orders' = << e >>
  /\ given' = [given EXCEPT !.orders = << e >>]
  /\ UNCHANGED << Still, includes, nest, selects >>

-----------------------------------------------------------------------------
(* _link_between and _relation: the one foreign key between two tables, and *)
(* whether the inner side is a list.                                       *)
Links(outer, inner) ==
  {[outer |-> "id", inner |-> "up", list |-> TRUE] :
      r \in {x \in References : x.owner = inner /\ x.target = outer}}
  \cup
  {[outer |-> "up", inner |-> "id", list |-> FALSE] :
      r \in {x \in References : x.owner = outer /\ x.target = inner}}
Linked(outer, inner) == outer # inner /\ Cardinality(Links(outer, inner)) = 1
Link(outer, inner) == CHOOSE l \in Links(outer, inner) : TRUE

(* _resolve_nest: the chain, the root innermost unless it is named.        *)
Levels  == IF nest = << >> \/ root \in ToSet(nest) THEN nest ELSE Append(nest, root)
RootAt  == IF nest = << >> THEN 0 ELSE CHOOSE i \in DOMAIN Levels : Levels[i] = root
Outside == SelectSeq(includes, LAMBDA e : e \notin ToSet(Levels))
Resolves == /\ \A i \in 1..(Len(Levels) - 1) : Linked(Levels[i], Levels[i + 1])
            /\ \A i \in DOMAIN Outside : Linked(root, Outside[i])
            /\ \A i \in DOMAIN orders : orders[i] \in {root} \cup ToSet(Levels)

EntityOf(slot) == IF slot = RootAt THEN root
                  ELSE IF slot <= Len(Levels) THEN Levels[slot] ELSE Outside[slot - Len(Levels)]

(* The fetches of all(): includes, then levels inward, then outward. Each  *)
(* asks for the rows whose `field` is among the values `of` had in `from`. *)
Jobs ==
  LET n == Len(Levels)
      job(slot, from, of, field) == [slot |-> slot, from |-> from, of |-> of, field |-> field, asked |-> {}]
      include(k) == LET l == Link(root, Outside[k]) IN job(n + k, RootAt, l.outer, l.inner)
      inward(i)  == LET l == Link(Levels[i - 1], Levels[i]) IN job(i, i - 1, l.outer, l.inner)
      outward(i) == LET l == Link(Levels[i], Levels[i + 1]) IN job(i, i + 1, l.inner, l.outer)
  IN  [k \in DOMAIN Outside |-> include(k)]
      \o [k \in 1..(n - RootAt) |-> inward(RootAt + k)]
      \o [k \in 1..Max({RootAt - 1, 0}) |-> outward(RootAt - k)]

(* The columns of the root that the fetches next to it join on. *)
Needed == {Jobs[k].of : k \in {k \in DOMAIN Jobs : Jobs[k].from = RootAt}}

(* all() up to its first await, under first()'s LIMIT 1 or not. What does  *)
(* not resolve raises before anything changes. The orders of a level leave *)
(* the query; columns the joins need are added to its select.              *)
Begin(first) ==
  /\ pc = "idle" /\ runs < MaxRuns
  /\ runs' = runs + 1 /\ touched' = {}
  /\ got' = IF Resolves THEN [s \in 0..(Len(Levels) + Len(Outside)) |-> << >>] ELSE << >>
  /\ IF Resolves
     THEN LET added == IF selects = {} THEN {} ELSE Needed \ selects
              own   == IF nest = << >> THEN {} ELSE ToSet(orders) \ {root}
          IN  /\ pc' = "root"
              /\ run' = [jobs |-> Jobs, added |-> added, keep |-> limit, sorted |-> own]
              /\ limit' = IF first THEN 1 ELSE limit
              /\ orders' = SelectSeq(orders, LAMBDA e : e \notin own)
              /\ selects' = selects \cup added
     ELSE UNCHANGED << pc, run, limit, orders, selects >>
  /\ UNCHANGED << store, root, includes, nest, given, writes >>

-----------------------------------------------------------------------------
Value(row, field) == IF field \in row.seen THEN row.rec[field] ELSE NULL
Rows(records, seen) == [i \in DOMAIN records |-> [rec |-> records[i], seen |-> seen]]

(* Stable, by a rank of each row. *)
SortBy(rows, rank(_)) ==
  LET before(i, j) == rank(rows[i]) < rank(rows[j]) \/ (rank(rows[i]) = rank(rows[j]) /\ i < j)
      place(i) == 1 + Cardinality({j \in DOMAIN rows : before(j, i)})
  IN  [n \in DOMAIN rows |-> rows[CHOOSE i \in DOMAIN rows : place(i) = n]]

(* The keys in the order they appear, once each, without NULL. *)
KeysInOrder(rows, field) ==
  LET values == [i \in DOMAIN rows |-> Value(rows[i], field)]
  IN  SelectSeq([i \in DOMAIN values |-> IF \E j \in 1..(i - 1) : values[j] = values[i]
                                         THEN NULL ELSE values[i]],
                LAMBDA v : v # NULL)

RunRoot ==
  /\ pc = "root"
  /\ LET rows == Rows(store[root], IF selects = {} THEN {"id", "up"} ELSE selects)
         sorted == IF root \in ToSet(orders) THEN SortBy(rows, LAMBDA r : -r.rec.id) ELSE rows
     IN  got' = [got EXCEPT ![RootAt] =
                   IF limit = NULL THEN sorted ELSE SubSeq(sorted, 1, Min({limit, Len(sorted)}))]
  /\ pc' = "fetch"
  /\ UNCHANGED << store, spec, run, given, runs, touched, writes >>

(* Bug: the last chunk of keys is taken for the end. *)
Chunk_DropsShort(keys) ==
  IF Cardinality(keys) < IN_CHUNK THEN {}
  ELSE CHOOSE c \in kSubset(IN_CHUNK, keys) : \A x \in c, y \in keys \ c : x < y

Chunk(keys) == CHOOSE c \in kSubset(Min({IN_CHUNK, Cardinality(keys)}), keys) :
                 \A x \in c, y \in keys \ c : x < y

(* _fetch_in and _attach: one chunk of keys; after the last one a level    *)
(* takes the order asked for, an outer level that of the rows inside it.   *)
Fetch ==
  /\ pc = "fetch" /\ run.jobs # << >>
  /\ LET j     == Head(run.jobs)
         order == KeysInOrder(got[j.from], j.of)
         keys  == ToSet(order) \ j.asked
         chunk == Chunk(keys)
         all   == got[j.slot] \o Rows(SelectSeq(store[EntityOf(j.slot)], LAMBDA r : r[j.field] \in chunk),
                                      {"id", "up"})
         at(r) == CHOOSE n \in DOMAIN order : order[n] = r.rec[j.field]
     IN  IF Cardinality(keys) > IN_CHUNK
         THEN /\ got' = [got EXCEPT ![j.slot] = all]
              /\ run' = [run EXCEPT !.jobs[1].asked = @ \cup chunk]
         ELSE /\ got' = [got EXCEPT ![j.slot] =
                   CASE EntityOf(j.slot) \in run.sorted -> SortBy(all, LAMBDA r : -r.rec.id)
                     [] EntityOf(j.slot) \notin run.sorted /\ j.slot < RootAt -> SortBy(all, at)
                     [] OTHER -> all]
              /\ run' = [run EXCEPT !.jobs = Tail(@)]
  /\ UNCHANGED << store, spec, pc, given, runs, touched, writes >>

(* The finally clauses of all() and first().                               *)
Restore == /\ selects' = selects \ run.added
           /\ limit' = run.keep
           /\ pc' = "idle"

Finish ==
  /\ pc = "fetch" /\ run.jobs = << >>
  /\ Restore
  /\ run' = [run EXCEPT !.added = {}]
  /\ UNCHANGED << store, root, includes, nest, orders, got, given, runs, touched, writes >>

(* The database refuses the query of the moment. *)
Fail ==
  /\ pc \in {"root", "fetch"}
  /\ Restore
  /\ run' = NoRun /\ got' = << >>
  /\ UNCHANGED << store, root, includes, nest, orders, given, runs, touched, writes >>

(* Another task deletes a record or moves it to another parent.            *)
Write(e) ==
  /\ pc # "idle" /\ writes < MaxWrites
  /\ \E i \in DOMAIN store[e] :
       /\ \/ store' = [store EXCEPT ![e] = RemoveAt(@, i)]
          \/ \E v \in {1, 2} \ {store[e][i].up} : store' = [store EXCEPT ![e][i].up = v]
       /\ touched' = touched \cup {<< e, store[e][i].id >>}
  /\ writes' = writes + 1
  /\ UNCHANGED << spec, pc, run, got, given, runs >>

Next == \/ \E e \in DOMAIN store : Include(e) \/ OrderDesc(e) \/ Write(e)
        \/ \E c \in Chains : NestUnder(c)
        \/ \E f \in Selections : SelectOnly(f)
        \/ Begin(TRUE) \/ Begin(FALSE)
        \/ RunRoot \/ Fetch \/ Finish \/ Fail

Spec == Init /\ [][Next]_vars

-----------------------------------------------------------------------------
Done == pc = "idle" /\ got # << >>

(* Rows nobody wrote while the query ran are in a fetched table once if a  *)
(* row of the table before it points to them, and not at all otherwise,    *)
(* whatever the chunks and the writes between them.                        *)
Whole ==
  Done => \A s \in DOMAIN got \ {RootAt, 0} :
    LET j == CHOOSE k \in ToSet(Jobs) : k.slot = s
        e == EntityOf(s)
        keys == {r.rec[j.of] : r \in ToSet(got[j.from])}
    IN  \A rec \in ToSet(store[e]) : << e, rec.id >> \notin touched =>
          Cardinality({n \in DOMAIN got[s] : got[s][n].rec.id = rec.id})
            = IF rec[j.field] # NULL /\ rec[j.field] \in keys THEN 1 ELSE 0

(* A level outside the root is in the order of the rows inside it, and an  *)
(* order the caller gave a level is kept (the first time the query runs).  *)
Ordered(s) ==
  \A m, n \in DOMAIN got[s] : m < n =>
    IF EntityOf(s) \in ToSet(given.orders) THEN got[s][m].rec.id >= got[s][n].rec.id
    ELSE s < RootAt /\ Link(EntityOf(s), EntityOf(s + 1)).list =>
           \E i \in DOMAIN got[s + 1] :
             /\ got[s + 1][i].rec.up = got[s][m].rec.id
             /\ \A k \in 1..i : got[s + 1][k].rec.up # got[s][n].rec.id
InItsOrder == Done /\ runs = 1 /\ touched = {} => \A s \in 1..Len(Levels) : Ordered(s)

(* Whether it returned or raised, the query is left as it was built: the   *)
(* columns it added and the LIMIT of first() are gone.                     *)
LeftAsBuilt == pc = "idle" => selects = given.selects /\ limit = NULL

NestedWhole == Whole /\ InItsOrder /\ LeftAsBuilt

(* "The user has sorted this level explicitly - respected" (query.py:1466), *)
(* each time the query runs.                                               *)
OrderKept == Done /\ touched = {} => \A s \in 1..Len(Levels) : Ordered(s)
=============================================================================
