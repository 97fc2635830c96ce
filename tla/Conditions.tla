----------------------------- MODULE Conditions -----------------------------
(***************************************************************************)
(* The conditions of the query builder and the three readings they get:   *)
(* the memory backend evaluates them in Python (query.py), the SQL backend *)
(* translates them for SQLAlchemy (sql.py) and the MongoDB backend turns   *)
(* them into a filter (mongo.py). What the SQL and MongoDB servers do with *)
(* a comparison is outside the repository and marked external.             *)
(*                                                                         *)
(* A row maps the alias of each table to its record, or to NULL where an   *)
(* outer join found nothing. A grouped row also has its members under "*". *)
(* A LIKE pattern is the set of texts it describes.                        *)
(***************************************************************************)
EXTENDS Integers, FiniteSetsExt, SequencesExt

CONSTANTS NULL

-----------------------------------------------------------------------------
(* The tree: comparisons, groups and negations.                            *)
Column(table, field) == [kind |-> "column", table |-> table, field |-> field]
Aggregate(func, column, distinct) ==
  [kind |-> "aggregate", func |-> func, column |-> column, distinct |-> distinct]
Literal(v) == [kind |-> "literal", value |-> v]

Compare(column, op, value) ==
  [kind |-> "compare", column |-> column, op |-> op, value |-> value]
And(parts) == [kind |-> "and", parts |-> parts]
Or(parts)  == [kind |-> "or", parts |-> parts]
Not(part)  == [kind |-> "not", part |-> part]

(* F(Event).n == None is IS NULL; the keyword form n=None is a comparison. *)
Equals(column, v) ==
  IF v = NULL THEN Compare(column, "isnull", Literal(TRUE))
              ELSE Compare(column, "eq", Literal(v))
Differs(column, v) ==
  IF v = NULL THEN Compare(column, "isnull", Literal(FALSE))
              ELSE Compare(column, "ne", Literal(v))

-----------------------------------------------------------------------------
(* Values of a row. Aggregates ignore NULL; of nothing they are NULL, but  *)
(* a count is 0.                                                           *)
FieldOf(column, row) ==
  IF column.table \notin DOMAIN row THEN NULL
  ELSE LET obj == row[column.table]
       IN  IF obj = NULL THEN NULL ELSE obj[column.field]

(* The members of a set in some order, without trying them all. *)
Listed(S) == FoldSet(LAMBDA x, s : Append(s, x), << >>, S)

SumOf(s) == FoldSeq(LAMBDA v, acc : v + acc, 0, s)

AggregateOf(item, bucket) ==
  IF item.column = NULL THEN Len(bucket)
  ELSE LET found  == [i \in DOMAIN bucket |-> FieldOf(item.column, bucket[i])]
           known  == SelectSeq(found, LAMBDA v : v # NULL)
           values == IF item.distinct THEN Listed(ToSet(known)) ELSE known
       IN  CASE item.func = "count"             -> Len(values)
             [] item.func # "count" /\ values = << >> -> NULL
             [] item.func = "sum" /\ values # << >> -> SumOf(values)
             [] item.func = "min" /\ values # << >> -> Min(ToSet(values))
             [] item.func = "max" /\ values # << >> -> Max(ToSet(values))

ValueOf(item, row) ==
  IF item.kind = "aggregate"
  THEN AggregateOf(item, IF "*" \in DOMAIN row THEN row["*"] ELSE << >>)
  ELSE FieldOf(item, row)

RightOf(c, row) ==
  IF c.value.kind = "literal" THEN c.value.value ELSE FieldOf(c.value, row)

(* LIKE and ILIKE over abstract texts: ILIKE forgets the case of both.     *)
Lower(t) == IF t = "An" THEN "an" ELSE t
Like(text, pattern, fold) ==
  IF fold THEN Lower(text) \in {Lower(t) : t \in pattern} ELSE text \in pattern

Holds(op, l, r) ==
  CASE op = "eq"      -> l = r
    [] op = "ne"      -> l # r
    [] op = "gt"      -> l > r
    [] op = "gte"     -> l >= r
    [] op = "lt"      -> l < r
    [] op = "lte"     -> l <= r
    [] op = "in"      -> l \in r
    [] op = "nin"     -> l \notin r
    [] op = "between" -> r[1] <= l /\ l <= r[2]
    [] op = "like"    -> Like(l, r, FALSE)
    [] op = "ilike"   -> Like(l, r, TRUE)

Ordering == {"gt", "gte", "lt", "lte"}

-----------------------------------------------------------------------------
(* Memory: two values, and Python's TypeError for an order with None.      *)
MemoryCompare(c, row) ==
  LET l == ValueOf(c.column, row)
      r == RightOf(c, row)
      Answer(b) == IF b THEN "yes" ELSE "no"
  IN  CASE c.op = "isnull"                 -> Answer((l = NULL) = r)
        [] c.op # "isnull" /\ l = NULL     -> "no"
        [] c.op # "isnull" /\ l # NULL /\ r = NULL /\ c.op \in Ordering -> "error"
        [] OTHER                           -> Answer(Holds(c.op, l, r))

(* all() and any() stop at the first part that settles them. *)
Settle(results, default) ==
  IF \A i \in DOMAIN results : results[i] = default THEN default
  ELSE results[Min({i \in DOMAIN results : results[i] # default})]

RECURSIVE Evaluate(_, _)
Evaluate(c, row) ==
  CASE c.kind = "compare" -> MemoryCompare(c, row)
    [] c.kind = "and" -> Settle([i \in DOMAIN c.parts |-> Evaluate(c.parts[i], row)], "yes")
    [] c.kind = "or"  -> Settle([i \in DOMAIN c.parts |-> Evaluate(c.parts[i], row)], "no")
    [] c.kind = "not" -> LET e == Evaluate(c.part, row)
                         IN  CASE e = "yes" -> "no" [] e = "no" -> "yes" [] OTHER -> e

-----------------------------------------------------------------------------
(* SQL: three values. SQLAlchemy writes a comparison with a None literal   *)
(* as IS [NOT] NULL, and NOT IN of an empty list as true.                  *)
SqlCompare(c, row) ==
  LET l == ValueOf(c.column, row)
      r == RightOf(c, row)
      Answer(b) == IF b THEN "yes" ELSE "no"
      literal == c.value.kind = "literal"
  IN  CASE c.op = "isnull" -> Answer((l = NULL) = r)
        [] c.op \in {"eq", "ne"} /\ literal /\ r = NULL -> Answer((l = NULL) = (c.op = "eq"))
        [] c.op \in {"in", "nin"} ->
             CASE r = {}                -> Answer(c.op = "nin")
               [] l = NULL /\ r # {}     -> "unknown"
               [] l # NULL /\ l \in r    -> Answer(c.op = "in")
               [] OTHER -> IF NULL \in r THEN "unknown" ELSE Answer(c.op = "nin")
        [] OTHER -> IF l = NULL \/ r = NULL THEN "unknown" ELSE Answer(Holds(c.op, l, r))

RECURSIVE Sql(_, _)
Sql(c, row) ==
  LET results == IF c.kind \in {"and", "or"} THEN {Sql(p, row) : p \in ToSet(c.parts)} ELSE {}
  IN  CASE c.kind = "compare" -> SqlCompare(c, row)
        [] c.kind = "and" -> CASE "no" \in results -> "no"
                               [] "no" \notin results /\ "unknown" \in results -> "unknown"
                               [] OTHER -> "yes"
        [] c.kind = "or"  -> CASE "yes" \in results -> "yes"
                               [] "yes" \notin results /\ "unknown" \in results -> "unknown"
                               [] OTHER -> "no"
        [] c.kind = "not" -> LET e == Sql(c.part, row)
                             IN  CASE e = "yes" -> "no" [] e = "no" -> "yes" [] OTHER -> e

-----------------------------------------------------------------------------
(* MongoDB: two values, NULL is a value like another; the filter adds that *)
(* a field differs from NULL for ne and nin. $expr orders NULL first.      *)
MongoOrder(op, l, r) ==
  CASE op = "eq" -> l = r
    [] op = "ne" -> l # r
    [] op \in {"gt", "gte", "lt", "lte"} ->
         LET rank(v) == IF v = NULL THEN -1 ELSE v IN Holds(op, rank(l), rank(r))

(* Bug: ne does not exclude documents without the field. *)
MongoCompare_NeMatchesNull(c, row) ==
  LET l == FieldOf(c.column, row)
      r == RightOf(c, row)
  IN  CASE c.op = "isnull" -> (l = NULL) = r
        [] c.op = "ne"     -> l # r
        [] OTHER           -> l # NULL /\ r # NULL /\ Holds(c.op, l, r)

MongoCompare(c, row) ==
  LET l == FieldOf(c.column, row)
      r == RightOf(c, row)
  IN  CASE c.value.kind = "column"   -> MongoOrder(c.op, l, r)
        [] c.value.kind = "literal" ->
             CASE c.op = "isnull"          -> (l = NULL) = r
               [] c.op = "eq"              -> l = r
               [] c.op = "in"              -> l \in r
               [] c.op = "ne"              -> l # r /\ l # NULL
               [] c.op = "nin"             -> l \notin r /\ l # NULL
               [] OTHER                    -> l # NULL /\ r # NULL /\ Holds(c.op, l, r)

RECURSIVE Mongo(_, _)
Mongo(c, row) ==
  CASE c.kind = "compare" -> MongoCompare(c, row)
    [] c.kind = "and" -> \A p \in ToSet(c.parts) : Mongo(p, row)
    [] c.kind = "or"  -> \E p \in ToSet(c.parts) : Mongo(p, row)
    [] c.kind = "not" -> ~Mongo(c.part, row)

-----------------------------------------------------------------------------
(* where() adds to the last branch, or_where() opens one, _compose joins   *)
(* the branches that hold a condition.                                     *)
Compose(branches) ==
  LET Joined(b) == IF Len(b) = 1 THEN b[1] ELSE And(b)
      kept == SelectSeq(branches, LAMBDA b : b # << >>)
  IN  CASE kept = << >>   -> << >>
        [] Len(kept) = 1   -> kept[1]
        [] OTHER          -> << Or([i \in DOMAIN kept |-> Joined(kept[i])]) >>

=============================================================================
