------------------------------- MODULE Select -------------------------------
(***************************************************************************)
(* A query of the builder in query.py, and its two executions: memory.py   *)
(* joins, filters, groups and sorts in Python; sql.py compiles a SELECT.   *)
(* The builder's methods are the actions; what a SQL server answers to the *)
(* SELECT is said once, over sets, as the reference for the Python one.    *)
(***************************************************************************)
EXTENDS Conditions

CONSTANTS Stores,        \* contents of the tables: entity -> sequence of records
          References,    \* foreign keys: [owner, field, target, column]
          JoinKinds, Wheres, GroupColumns, Havings, Selections, OrderItems,
          MaxJoins, MaxCalls   \* joins; calls of the builder in all

Entities == {r.owner : r \in References} \cup {r.target : r \in References}
StoresHoldEntities == \A s \in Stores : DOMAIN s = Entities

VARIABLES store,         \* the database
          spec,          \* QuerySpec
          calls          \* calls made, for the bound

vars == << store, spec, calls >>

NoSelect == [x \in {} |-> NULL]

Init ==
  /\ store \in Stores
  /\ spec \in [entity : Entities, joins : {<< >>}, conditions : {<< >>}, groups : {<< >>},
               havings : {<< >>}, orders : {<< >>}, selects : {NoSelect},
               distinct : {FALSE}, limit : {NULL}, offset : {0}]
  /\ calls = 0

-----------------------------------------------------------------------------
(* Building. An alias is the entity's own name unless the caller gives one. *)
Aliases == << spec.entity >> \o [i \in DOMAIN spec.joins |-> spec.joins[i].alias]
Known   == << spec.entity >> \o [i \in DOMAIN spec.joins |-> spec.joins[i].entity]

(* _infer_on: the one foreign key between the new table and those present. *)
Pairs(entity, alias) ==
  {<< Column(r.owner, r.field), Column(alias, r.column) >> :
      r \in {x \in References : x.owner \in ToSet(Known) /\ x.target = entity}}
  \cup
  {<< Column(alias, r.field), Column(r.target, r.column) >> :
      r \in {x \in References : x.owner = entity /\ x.target \in ToSet(Known)}}

(* _on_condition: no column given, a column of a table present, or one of  *)
(* the new table. An on that names neither, and an inference that finds no *)
(* key or several, raise: there is no condition.                           *)
OnConditions(entity, alias, on) ==
  CASE on = NULL -> IF IsInjective(Known) /\ Cardinality(Pairs(entity, alias)) = 1
                       THEN {Compare(p[1], "eq", p[2]) : p \in Pairs(entity, alias)}
                       ELSE {}
    [] on # NULL /\ on.table = spec.entity -> {Compare(on, "eq", Column(alias, "id"))}
    [] on # NULL /\ on.table # spec.entity /\ on.table = entity ->
         {Compare(Column(alias, on.field), "eq", Column(spec.entity, "id"))}
    [] on # NULL /\ on.table \notin {spec.entity, entity} ->
         {Compare(on, "eq", Column(alias, "id")) : t \in {on.table} \cap ToSet(Known)}

AddJoin(entity, alias, on, kind) ==
  /\ Len(spec.joins) < MaxJoins
  /\ alias \notin ToSet(Aliases)
  /\ \E c \in OnConditions(entity, alias, on) :
       spec' = [spec EXCEPT !.joins =
                  Append(@, [entity |-> entity, alias |-> alias, on |-> c, kind |-> kind])]

Where(c)       == spec' = [spec EXCEPT !.conditions = Append(@, c)]
GroupBy(col)   == spec' = [spec EXCEPT !.groups = Append(@, col)]
Having(c)      == spec' = [spec EXCEPT !.havings = Append(@, c)]
OrderBy(o)     == spec' = [spec EXCEPT !.orders = Append(@, o)]
SelectOf(items) == spec' = [spec EXCEPT !.selects = items @@ @]
Distinct       == spec' = [spec EXCEPT !.distinct = TRUE]
Limit(n)       == spec' = [spec EXCEPT !.limit = n]
Offset(n)      == spec' = [spec EXCEPT !.offset = n]

(* A column is of a table already present; later calls of one kind repeat  *)
(* nothing.                                                                *)
Usable(item) == item.kind = "column" => item.table \in ToSet(Aliases)
ColumnOf(item) == IF item.kind = "aggregate" /\ item.column # NULL THEN item.column ELSE item

Call ==
  \/ \E e \in Entities, k \in JoinKinds, on \in {NULL} \cup {Column(r.owner, r.field) : r \in References} :
       \/ AddJoin(e, e, on, k)
       \/ AddJoin(e, "other", on, k)
  \/ \E c \in Wheres : spec.conditions = << >> /\ Usable(c.column) /\ Usable(c.value) /\ Where(c)
  \/ \E g \in GroupColumns : spec.groups = << >> /\ Usable(g) /\ GroupBy(g)
  \/ \E c \in Havings : spec.havings = << >> /\ Usable(ColumnOf(c.column)) /\ Having(c)
  \/ \E o \in OrderItems : spec.orders = << >> /\ Usable(ColumnOf(o.column)) /\ OrderBy(o)
  \/ \E s \in Selections : /\ spec.selects = NoSelect
                           /\ \A n \in DOMAIN s : Usable(ColumnOf(s[n]))
                           /\ SelectOf(s)
  \/ ~spec.distinct /\ Distinct
  \/ spec.limit = NULL /\ Limit(1)
  \/ spec.offset = 0 /\ Offset(1)

Next == /\ calls < MaxCalls
        /\ Call
        /\ calls' = calls + 1
        /\ UNCHANGED store

Spec == Init /\ [][Next]_vars

(* _need_select and _check_grouped, at run time: one row of the result is  *)
(* a record of the root, or its columns were chosen; after group_by, of    *)
(* those grouped or aggregated.                                            *)
KeepsRight(kind) == kind \in {"right", "outer"}
KeepsLeft(kind)  == kind \in {"left", "outer"}

Runnable ==
  /\ spec.selects = NoSelect => /\ spec.groups = << >>
                                /\ \A i \in DOMAIN spec.joins : ~KeepsRight(spec.joins[i].kind)
  /\ spec.groups # << >> => \A n \in DOMAIN spec.selects :
       spec.selects[n].kind = "aggregate" \/ spec.selects[n] \in ToSet(spec.groups)

-----------------------------------------------------------------------------
(* Memory. Rows map aliases to records; _rows_for joins one table at a time. *)
True(c, row) == Evaluate(c, row) = "yes"

With(row, alias, o) == row @@ (alias :> o)
Matched(row, join) == SelectSeq(store[join.entity], LAMBDA o : True(join.on, With(row, join.alias, o)))

(* The rows a left row turns into, and the right rows nobody matched. *)
LeftRows(row, join, matched) ==
  IF matched = << >> /\ KeepsLeft(join.kind) THEN << With(row, join.alias, NULL) >>
  ELSE [k \in DOMAIN matched |-> With(row, join.alias, matched[k])]
Alone(rows, join) ==
  SelectSeq(store[join.entity], LAMBDA o : \A i \in DOMAIN rows : ~True(join.on, With(rows[i], join.alias, o)))

(* Bug: a right join forgets the rows that nobody matched. *)
JoinRows_NoRight(rows, present, join) ==
  FlattenSeq([i \in DOMAIN rows |-> LeftRows(rows[i], join, Matched(rows[i], join))])

JoinRows(rows, present, join) ==
  FlattenSeq([i \in DOMAIN rows |-> LeftRows(rows[i], join, Matched(rows[i], join))])
  \o IF KeepsRight(join.kind)
      THEN [k \in DOMAIN Alone(rows, join) |->
              With([a \in present |-> NULL], join.alias, Alone(rows, join)[k])]
      ELSE << >>

(* _group: buckets in the order of their first row, NULL is a key too.     *)
GroupRows(rows) ==
  LET key(row) == [g \in DOMAIN spec.groups |-> FieldOf(spec.groups[g], row)]
      firsts   == SelectSeq([i \in DOMAIN rows |-> i],
                            LAMBDA i : \A j \in 1..(i - 1) : key(rows[j]) # key(rows[i]))
  IN  [n \in DOMAIN firsts |->
         rows[firsts[n]] @@ ("*" :> SelectSeq(rows, LAMBDA r : key(r) = key(rows[firsts[n]])))]

HasAggregate == \/ \E n \in DOMAIN spec.selects : spec.selects[n].kind = "aggregate"
                \/ spec.havings # << >>

Filtered(rows, conditions) ==
  SelectSeq(rows, LAMBDA r : \A i \in DOMAIN conditions : True(conditions[i], r))

(* sort_key: NULL before everything, and Python's sort keeps ties in order. *)
Rank(v) == IF v = NULL THEN -1 ELSE v
Key(row) == [i \in DOMAIN spec.orders |->
               LET o == spec.orders[i]
               IN  IF o.descending THEN -Rank(ValueOf(o.column, row)) ELSE Rank(ValueOf(o.column, row))]
KeyBefore(a, b) == \E i \in DOMAIN a : a[i] < b[i] /\ \A j \in 1..(i - 1) : a[j] = b[j]
(* keys in order: [n] is the place of the n-th, ties as they stand. *)
InOrder(keys) ==
  LET before(i, j) == \/ KeyBefore(keys[i], keys[j])
                      \/ ~KeyBefore(keys[j], keys[i]) /\ i < j
      place(i) == 1 + Cardinality({j \in DOMAIN keys : before(j, i)})
  IN  [n \in DOMAIN keys |-> CHOOSE i \in DOMAIN keys : place(i) = n]
Sorted(rows) ==
  LET order == InOrder([i \in DOMAIN rows |-> Key(rows[i])])
  IN  [n \in DOMAIN rows |-> rows[order[n]]]

(* The record set from the tables to the order; each stage is worked out   *)
(* once.                                                                   *)
Joined == FoldLeftDomain(LAMBDA rows, n : JoinRows(rows, {Aliases[i] : i \in 1..n}, spec.joins[n]),
                         [i \in DOMAIN store[spec.entity] |-> spec.entity :> store[spec.entity][i]],
                         spec.joins)
Grouped(kept) ==
  CASE spec.groups # << >> -> GroupRows(kept)
    [] spec.groups = << >> /\ HasAggregate ->
         << (IF kept = << >> THEN NoSelect ELSE kept[1]) @@ ("*" :> kept) >>
    [] OTHER -> kept

RowsFor ==
  CHOOSE result \in {Sorted(Filtered(Grouped(kept), spec.havings)) :
                        kept \in {Filtered(Joined, spec.conditions)}} : TRUE

Output(row) == IF spec.selects = NoSelect THEN row[spec.entity]
               ELSE [n \in DOMAIN spec.selects |-> ValueOf(spec.selects[n], row)]

RunQuery(rows) ==
  LET first(i) == \A j \in 1..(i - 1) : Output(rows[j]) # Output(rows[i])
      kept  == SelectSeq([i \in DOMAIN rows |-> i], LAMBDA i : ~spec.distinct \/ first(i))
      from  == SubSeq(kept, spec.offset + 1, Len(kept))
      page  == IF spec.limit = NULL THEN from ELSE SubSeq(from, 1, Min({spec.limit, Len(from)}))
  IN  [n \in DOMAIN page |-> rows[page[n]]]

CountQuery == Len(RowsFor)

-----------------------------------------------------------------------------
(* SQL. The FROM clause is a set of choices of one row number per alias,   *)
(* 0 where an outer join found none.                                       *)
RowAt(choice) ==
  [a \in DOMAIN choice |->
     LET e == Known[CHOOSE i \in DOMAIN Known : Aliases[i] = a]
     IN  IF choice[a] = 0 THEN NULL ELSE store[e][choice[a]]]

Met(left, join) == {c \in {l @@ (join.alias :> i) : l \in left, i \in DOMAIN store[join.entity]} :
                        Sql(join.on, RowAt(c)) = "yes"}
SqlJoin(left, present, join) ==
  UNION {on \cup {l @@ (join.alias :> 0) : l \in {l \in left : KeepsLeft(join.kind) /\
                                                 \A c \in on : \E a \in present : c[a] # l[a]}}
            \cup {[a \in present |-> 0] @@ (join.alias :> i) :
                    i \in {i \in DOMAIN store[join.entity] : KeepsRight(join.kind) /\
                                                 \A c \in on : c[join.alias] # i}} :
          on \in {Met(left, join)}}

(* _compile: what the statement means, up to ORDER BY: a set of rows with  *)
(* an identity each (a choice, a group's key, or the one row of a total).  *)
SqlKept ==
  {c \in FoldLeftDomain(LAMBDA left, n : SqlJoin(left, {Aliases[i] : i \in 1..n}, spec.joins[n]),
                        {spec.entity :> i : i \in DOMAIN store[spec.entity]}, spec.joins) :
     \A i \in DOMAIN spec.conditions : Sql(spec.conditions[i], RowAt(c)) = "yes"}

SqlGroups(kept, single) ==
  LET key(c) == [g \in DOMAIN spec.groups |-> FieldOf(spec.groups[g], RowAt(c))]
      keys   == IF single THEN {<< >>} ELSE {key(c) : c \in kept}
      Row(bucket) == (IF bucket = << >> THEN NoSelect ELSE RowAt(bucket[1]))
                       @@ ("*" :> [i \in DOMAIN bucket |-> RowAt(bucket[i])])
      all    == {[id |-> k, row |-> Row(Listed({c \in kept : key(c) = k}))] : k \in keys}
  IN  {r \in all : \A i \in DOMAIN spec.havings : Sql(spec.havings[i], r.row) = "yes"}

SqlRows(selects) ==
  LET single == /\ spec.groups = << >>
                /\ \/ spec.havings # << >>
                   \/ \E n \in DOMAIN selects : selects[n].kind = "aggregate"
  IN  UNION {IF spec.groups # << >> \/ single THEN SqlGroups(kept, single)
             ELSE {[id |-> c, row |-> RowAt(c)] : c \in kept} : kept \in {SqlKept}}

(* The answers a server may give differ in the order of ties only.         *)
Allowed(result) ==
  LET Times(outs, o) == Cardinality({x \in outs : x.out = o})
      Found(o) == Cardinality({i \in DOMAIN result : Output(result[i]) = o})
      Page(order) ==
        LET from == SubSeq(order, spec.offset + 1, Len(order))
        IN  IF spec.limit = NULL THEN from ELSE SubSeq(from, 1, Min({spec.limit, Len(from)}))
  IN  \A outs \in {{[id |-> IF spec.distinct THEN << >> ELSE r.id,
                     out |-> Output(r.row), key |-> Key(r.row)] : r \in SqlRows(spec.selects)}} :
      \A keys \in {[i \in DOMAIN list |-> list[i].key] : list \in {Listed(outs)}} :
      \A page \in {Page(InOrder(keys))} :
        /\ [i \in DOMAIN result |-> Key(result[i])] = [i \in DOMAIN page |-> keys[page[i]]]
        /\ \A i \in DOMAIN result : Found(Output(result[i])) <= Times(outs, Output(result[i]))

(* count_query counts the rows of the statement without its select.        *)
SqlCount ==
  Cardinality({IF ~spec.distinct \/ spec.groups # << >> THEN r.id ELSE r.row[spec.entity] :
                 r \in SqlRows(NoSelect)})

(* What every server takes and answers alike: no ORDER BY of a column a    *)
(* DISTINCT or a group dropped, no plain column beside an aggregate.       *)
Plain(item) == item.kind = "column"
Portable ==
  /\ spec.groups = << >> /\ HasAggregate =>
       /\ spec.selects # NoSelect
       /\ \A n \in DOMAIN spec.selects : ~Plain(spec.selects[n])
       /\ spec.orders = << >>
  /\ spec.groups # << >> => \A i \in DOMAIN spec.orders :
       Plain(spec.orders[i].column) => spec.orders[i].column \in ToSet(spec.groups)
  /\ spec.groups = << >> /\ ~HasAggregate => \A i \in DOMAIN spec.orders : Plain(spec.orders[i].column)
  /\ spec.distinct => \A i \in DOMAIN spec.orders :
       \/ spec.selects = NoSelect /\ spec.orders[i].column.kind = "column"
                                  /\ spec.orders[i].column.table = spec.entity
       \/ \E n \in DOMAIN spec.selects : spec.selects[n] = spec.orders[i].column
  /\ \A i \in DOMAIN spec.havings : Plain(spec.havings[i].column) =>
       spec.havings[i].column \in ToSet(spec.groups)

(* Every query that runs gives on memory a page a SQL server may give, and *)
(* count() the number it gives, as long as no DISTINCT and no aggregate is *)
(* counted: tests on memory say something about production.                *)
SelectAgrees ==
  Runnable /\ Portable => \A rows \in {RowsFor} :
    /\ \A result \in {RunQuery(rows)} : Allowed(result)
    /\ ~spec.distinct /\ (spec.groups # << >> \/ ~HasAggregate) => Len(rows) = SqlCount

(* "count() is a real SELECT count( * ) ... do not write len(await q.all())": *)
(* the two agree (docs/query.md:951).                                      *)
CountsWhatItReturns ==
  Runnable /\ Portable /\ spec.limit = NULL /\ spec.offset = 0 => CountQuery = Len(RunQuery(RowsFor))
=============================================================================
