------------------------------- MODULE Where --------------------------------
(***************************************************************************)
(* A query under construction, where() and or_where() in any order, and    *)
(* one row of its table. Every backend selects a row or does not.          *)
(***************************************************************************)
EXTENDS Conditions

CONSTANTS Rows,           \* the rows the query may meet, records of one table
          Leaves,         \* the comparisons it may start with
          Few,            \* those it goes on with
          MaxParts        \* its comparisons, in all branches

VARIABLES branches, row
vars == << branches, row >>

Init == /\ branches = << << >> >>
        /\ row \in [{"t"} -> Rows]

AllParts == UNION {ToSet(branches[i]) : i \in DOMAIN branches}
Total == SumOf([i \in DOMAIN branches |-> Len(branches[i])])
Addable == LET from == IF Total = 0 THEN Leaves ELSE Few
           IN  IF Total < MaxParts THEN from \cup {Not(c) : c \in from} ELSE {}

(* where(c): more of the last branch. *)
Add(c) ==
  /\ branches' = [branches EXCEPT ![Len(branches)] = Append(@, c)]
  /\ UNCHANGED row

(* or_where(c): a branch of its own. *)
OrAdd(c) ==
  /\ branches' = Append(branches, << c >>)
  /\ UNCHANGED row

Next == \E c \in Addable : Add(c) \/ OrAdd(c)
Spec == Init /\ [][Next]_vars

-----------------------------------------------------------------------------
Selected(result) == result = "yes"

ByMemory == Selected(Evaluate(And(Compose(branches)), row))
BySql    == Selected(Sql(And(Compose(branches)), row))
ByMongo  == Mongo(And(Compose(branches)), row)

(* What the branches mean, said once: any branch that says something.      *)
Meant == LET kept == {i \in DOMAIN branches : branches[i] # << >>}
         IN  \/ kept = {}
             \/ \E i \in kept : Selected(Sql(And(branches[i]), row))

(* The comparisons of which NULL gets another answer from each backend:    *)
(* = NULL by keyword, a NULL in a list, NOT IN of nothing, a comparison of *)
(* two columns, and whatever stands under a NOT.                           *)
Touchy(c) ==
  LET l == FieldOf(c.column, row)
      r == RightOf(c, row)
  IN  \/ c.value.kind = "column" /\ NULL \in {l, r}
      \/ c.op = "eq" /\ r = NULL
      \/ c.op \in {"in", "nin"} /\ (NULL \in r \/ (r = {} /\ l = NULL))

SameForAll ==
  \A c \in AllParts :
    IF c.kind = "not"
    THEN ~Touchy(c.part) /\ (FieldOf(c.part.column, row) # NULL \/ c.part.op = "isnull")
    ELSE ~Touchy(c)

(* A query selects the same rows on memory, SQL and MongoDB, and those its *)
(* branches mean, as long as it asks nothing on which they treat NULL each *)
(* in its own way: what passes on memory holds in production.              *)
BackendsAgree == SameForAll => /\ ByMemory = Meant
                               /\ BySql = Meant
                               /\ ByMongo = Meant

(* The same without the exception, as the comment in evaluate() has it:    *)
(* "SQL: no comparison with NULL is true. Kept the same so that both       *)
(* backends give the same result."                                         *)
NullIsTheSame == ByMemory = BySql
=============================================================================
