-------------------------- MODULE EntQueryInvariant ---------------------------
(* The inductive invariant of the query builders: what reads leave in a builder   *)
(* of what its caller asked for.                                                 *)
EXTENDS EntQuery

Types == {"User", "Token"}
Preds == [by : {"id", "fk"}, in : SUBSET Nat]

Columns == {"id"} \cup UNION {w.selects : w \in Workloads}

(* The query for the neighbours that WithX leaves in a builder.                  *)
Loads ==
  [typ : Types, where : SUBSET Preds, limit : {Nil}, offset : {0}, ordered : {FALSE},
   unique : {Nil}, fields : {<<>>}, child : {Nil}, path : {Nil}]

Queries ==
  [typ : Types, where : SUBSET Preds, limit : Nat \cup {Nil}, offset : Nat, ordered : BOOLEAN,
   unique : BOOLEAN \cup {Nil}, fields : Seq(Columns), child : Loads \cup {Nil}, path : Nat \cup {Nil}]

Typed ==
  /\ work \in Workloads /\ IsTable(db)
  /\ builders \in Seq(Queries) /\ asked \in Seq(Queries) /\ runs \in Seq(Nat)
  /\ Len(asked) = Len(builders) /\ Len(runs) = Len(builders)

(* The edge a builder came over is that of an earlier one, which came over none.  *)
Path(i) ==
  LET p == asked[i].path
  IN  p # Nil => /\ p \in 1 .. i - 1 /\ asked[p].path = Nil
                 /\ asked[p].typ = Other(asked[i].typ)

Child(i) ==
  LET c == asked[i].child
  IN  c # Nil => c.typ = Other(asked[i].typ) /\ \A p \in c.where : p.by = "id"

(* No read changes which rows a builder is about, and none has changed one that   *)
(* was not read.                                                                 *)
Kept(i) ==
  LET q == builders[i]   a == asked[i]
  IN  /\ q.typ = a.typ /\ q.where = a.where /\ q.path = a.path
      /\ q.offset = a.offset /\ q.ordered = a.ordered
      /\ runs[i] = 0 => q = a

--------------------------------------------------------------------------------
Limited(limit, n) == IF limit = Nil THEN n ELSE SmallerOf(n, limit)

(* The rows in T are what a limit leaves of those in U, the first ones if the    *)
(* query is ordered.                                                             *)
FirstOf(limit, ordered, T, U) ==
  /\ T \subseteq U /\ IsFiniteSet(U)
  /\ Cardinality(T) = Limited(limit, Cardinality(U))
  /\ ordered => \A x \in T, y \in U \ T : x[1] <= y[1]

(* All the rows of the tables d that a query is for, before any limit.           *)
WholeOf(q, qs, d) ==
  UNION {Slices(q, LET M == Matches(d, q, S)
                   IN  IF q.unique = FALSE THEN M ELSE {<<x[1], 0>> : x \in M}) :
           S \in From(d, qs, q)}

Whole(b, d) == WholeOf([asked[b] EXCEPT !.limit = Nil], asked, d)

RowIds(d, typ) == IF typ = "User" THEN d.users ELSE DOMAIN d.owner

Fresh(b) == Used(runs, b) = 1

(* A builder without its query for the neighbours.                               *)
Bare(q) == [q EXCEPT !.child = Nil]

(* The builder of a read, as the read leaves it.                                 *)
Read(b, op) ==
  /\ b \in DOMAIN builders /\ runs[b] > 0 /\ op \in OfIDs \cup {"All", "First", "Only"}
  /\ op \in {"First", "FirstID", "Exist"} => builders[b].limit = 1
  /\ op \in {"Only", "OnlyID"} => builders[b].limit = 2
  /\ Fresh(b) => Bare(builders[b]) = Bare(Touched(asked[b], op))

(* T is what it has found in d: no token twice, and for a fresh builder, or one   *)
(* over no edge, the first of the rows it is for.                                *)
Found(b, op, T, d) ==
  /\ IsTable(d) /\ ~Refuses(builders, builders[b])
  /\ op \in OfIDs => Len(builders[b].fields) = 1
  /\ \A x \in T : x[1] \in RowIds(d, asked[b].typ)
  /\ asked[b].typ = "Token" => \A x, y \in T : x[1] = y[1] => x = y
  /\ asked[b].path = Nil \/ Fresh(b) =>
       \E U \in Whole(b, d) : FirstOf(builders[b].limit, asked[b].ordered, T, U)

(* A read between its two SELECTs.                                               *)
Reading ==
  pending # Nil =>
    /\ Read(pending.b, pending.op) /\ Found(pending.b, pending.op, pending.rows, pending.seen)
    /\ pending.op \notin OfIDs /\ pending.rows # {} /\ builders[pending.b].child # Nil
    /\ Fresh(pending.b) => builders[pending.b].child = asked[pending.b].child

(* What a read has returned.                                                     *)
Answered ==
  answer # Nil =>
    LET b == answer.b   op == answer.op
    IN  /\ Read(b, op) /\ answer.asked = asked
        /\ answer.first <=> Fresh(b)
        /\ answer.whole <=> op \in OfIDs \/ builders[b].fields = asked[b].fields
        /\ \/ answer.err = "Validation" /\ answer.rows = {} /\ Refuses(builders, builders[b])
           \/ /\ answer.err = "database error" /\ answer.rows = {}
              /\ ~Refuses(builders, builders[b]) /\ DatabaseRefuses(builders, builders[b])
           \/ /\ answer.err = "columns do not match" /\ answer.rows = {}
              /\ ~Refuses(builders, builders[b])
              /\ op \in OfIDs /\ Len(builders[b].fields) # 1
           \/ answer.err = Verdict(op, answer.rows) /\ Found(b, op, answer.rows, answer.seen)

QueryInv ==
  /\ Typed /\ Reading /\ Answered
  /\ \A i \in DOMAIN builders : Path(i) /\ Child(i) /\ Kept(i)
==============================================================================
