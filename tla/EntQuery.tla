------------------------------- MODULE EntQuery -------------------------------
(* user_query.go and refresh_token_query.go: query builders, which are changed    *)
(* by their setters and by the reads themselves, clones, queries that go on over  *)
(* an edge, and eager loading, a second SELECT that others can come in before.    *)
(* sqlgraph and PostgreSQL are external: a SELECT reads one state of the tables,   *)
(* in no order unless it is asked for, and scans into a list of ids only when it   *)
(* has a single column.  Limits are positive, an edge is followed once.           *)
EXTENDS Integers, FiniteSets, Sequences

CONSTANTS Nil, UserIds, TokenIds,    \* sets of numbers
          Workloads                  \* what the callers do, and the bounds on it

(* A workload: the tables there may be to begin with, the types the first builder *)
(* may be of, the sets of ids callers filter by, what they limit, skip and       *)
(* select, the reads they do, and bounds on the builders, the setters called, the *)
(* reads of one builder and the changes of other sessions.                       *)
OfIDs == {"IDs", "FirstID", "OnlyID", "Exist"}

(* What the foreign key allows.                                                  *)
IsTable(d) ==
  /\ d.users \subseteq UserIds /\ IsFiniteSet(d.users)
  /\ DOMAIN d.owner \subseteq TokenIds /\ IsFiniteSet(DOMAIN d.owner)
  /\ \A t \in DOMAIN d.owner : d.owner[t] \in d.users \cup {Nil}

ASSUME QueryAssumption ==
  /\ UserIds \cup TokenIds \subseteq Nat \ {0} /\ Nil \notin Nat \cup BOOLEAN
  /\ \A w \in Workloads :
       /\ \A d \in w.tables : IsTable(d)
       /\ w.starts \subseteq {"User", "Token"}
       /\ w.filters \subseteq SUBSET Nat /\ w.ops \subseteq OfIDs \cup {"All", "First", "Only"}
       /\ w.limits \subseteq Nat \ {0}
       /\ {w.maxBuilders, w.maxCalls, w.maxRuns, w.maxChanges} \cup w.offsets \subseteq Nat

VARIABLES work,           \* the workload, which stays
          db,             \* the tables: users, and the owner of every token
          builders,       \* the query builders, in the order they were made
          pending,        \* a read between its two SELECTs
          answer,         \* what a read has just returned
          asked,          \* history: the builders as only the setters left them
          runs,           \* history: how often each has been read
          calls, changes

vars == <<work, db, builders, pending, answer, asked, runs, calls, changes>>

NewQuery(typ) ==
  [typ |-> typ, where |-> {}, limit |-> Nil, offset |-> 0, ordered |-> FALSE,
   unique |-> Nil, fields |-> <<>>, child |-> Nil, path |-> Nil]

Other(typ) == IF typ = "User" THEN "Token" ELSE "User"

Init ==
  /\ work \in Workloads /\ db \in work.tables
  /\ \E typ \in work.starts : builders = <<NewQuery(typ)>>
  /\ asked = builders
  /\ pending = Nil /\ answer = Nil
  /\ runs = <<0>> /\ calls = 0 /\ changes = 0

--------------------------------------------------------------------------------
(* Setters, applied to the builder and to what the caller asked for.             *)
Sets(b, new, wanted) ==
  /\ pending = Nil /\ calls < work.maxCalls /\ calls' = calls + 1
  /\ builders' = [builders EXCEPT ![b] = new]
  /\ asked' = [asked EXCEPT ![b] = wanted]
  /\ answer' = Nil /\ UNCHANGED <<work, db, pending, runs, changes>>

IDIn(s) == [by |-> "id", in |-> s]

Where(b, s) == LET F(q) == [q EXCEPT !.where = @ \cup {IDIn(s)}] IN Sets(b, F(builders[b]), F(asked[b]))
Limit(b, n) == LET F(q) == [q EXCEPT !.limit = n] IN Sets(b, F(builders[b]), F(asked[b]))
Offset(b, n) == LET F(q) == [q EXCEPT !.offset = n] IN Sets(b, F(builders[b]), F(asked[b]))
Unique(b, u) == LET F(q) == [q EXCEPT !.unique = u] IN Sets(b, F(builders[b]), F(asked[b]))
Order(b) == LET F(q) == [q EXCEPT !.ordered = TRUE] IN Sets(b, F(builders[b]), F(asked[b]))
Select(b, f) == LET F(q) == [q EXCEPT !.fields = Append(@, f)] IN Sets(b, F(builders[b]), F(asked[b]))

(* WithOwner, WithRefreshTokens: a query of its own for the neighbours.          *)
WithEdge(b, ss) ==
  LET F(q) == [q EXCEPT !.child = [NewQuery(Other(q.typ)) EXCEPT !.where = {IDIn(s) : s \in ss}]]
  IN  Sets(b, F(builders[b]), F(asked[b]))

(* Mutant: the predicates are not copied.                                        *)
CloneBare(q) == [q EXCEPT !.where = {}]

Clone(q) == q

NewBuilder(b, new, wanted) ==
  /\ pending = Nil /\ Len(builders) < work.maxBuilders
  /\ builders' = Append(builders, new) /\ asked' = Append(asked, wanted)
  /\ runs' = Append(runs, runs[b])
  /\ answer' = Nil /\ UNCHANGED <<work, db, pending, calls, changes>>

Clones(b) == NewBuilder(b, Clone(builders[b]), asked[b])

(* QueryOwner, QueryRefreshTokens: the new query keeps a reference to b.         *)
QueryEdge(b) ==
  /\ builders[b].path = Nil
  /\ LET q == [NewQuery(Other(builders[b].typ)) EXCEPT !.path = b] IN NewBuilder(b, q, q)

--------------------------------------------------------------------------------
(* The rows of a SELECT, <<id, the row it was joined to>>.                       *)
Rows(d, typ) == {<<r, 0>> : r \in IF typ = "User" THEN d.users ELSE DOMAIN d.owner}

Matches(d, q, S) ==
  {x \in S : \A p \in q.where : (IF p.by = "id" THEN x[1] ELSE d.owner[x[1]]) \in p.in}

SmallerOf(m, n) == IF m < n THEN m ELSE n

(* What OFFSET and LIMIT may leave of S.                                         *)
Slices(q, S) ==
  LET left == IF Cardinality(S) > q.offset THEN Cardinality(S) - q.offset ELSE 0
      n    == IF q.limit = Nil THEN left ELSE SmallerOf(left, q.limit)
      Place(x) == Cardinality({y \in S : y[1] < x[1] \/ (y[1] = x[1] /\ y[2] <= x[2])})
  IN  IF q.ordered THEN {{x \in S : Place(x) \in q.offset + 1 .. q.offset + n}}
                   ELSE {T \in SUBSET S : Cardinality(T) = n}

(* sqlgraph.SetNeighbors: what the rows in T of a table are joined to.           *)
Neighbours(d, typ, T) ==
  IF typ = "Token" THEN {<<d.owner[t[1]], t[1]>> : t \in {x \in T : d.owner[x[1]] # Nil}}
                   ELSE {<<t, d.owner[t]>> : t \in {x \in DOMAIN d.owner : <<d.owner[x], 0>> \in T}}

(* SetNeighbors selects the foreign key alone of a query for tokens: with Unique, *)
(* DISTINCT keys, which OFFSET and LIMIT then count.                             *)
SelectsKeys(qs, q) == q.path # Nil /\ qs[q.path].typ = "Token" /\ qs[q.path].unique = TRUE

KeySlices(d, p) ==
  {{x \in S : x[1] # Nil} : S \in Slices(p, {<<d.owner[t[1]], 0>> : t \in Matches(d, p, Rows(d, "Token"))})}

(* prepareQuery: the query b came from is read as it is by now.                  *)
From(d, qs, q) ==
  IF q.path = Nil THEN {Rows(d, q.typ)}
  ELSE LET p == qs[q.path]
       IN  IF SelectsKeys(qs, q) THEN KeySlices(d, p)
           ELSE {Neighbours(d, p.typ, T) : T \in Slices(p, Matches(d, p, Rows(d, p.typ)))}

Selected(d, qs, q, distinct) ==
  UNION {Slices(q, IF distinct THEN {<<x[1], 0>> : x \in Matches(d, q, S)} ELSE Matches(d, q, S)) :
           S \in From(d, qs, q)}

ValidColumn(f) == f \in {"id", "column"}

Refuses(qs, q) ==
  \E p \in {q} \cup (IF q.path = Nil THEN {} ELSE {qs[q.path]}) :
    \E i \in DOMAIN p.fields : ~ValidColumn(p.fields[i])

(* PostgreSQL orders DISTINCT rows by no column that they do not have.            *)
DatabaseRefuses(qs, q) == SelectsKeys(qs, q) /\ qs[q.path].ordered

--------------------------------------------------------------------------------
(* Mutant: Only asks for a single row.                                           *)
TouchedOnce(q, op) ==
  LET l == [q EXCEPT !.limit = IF op \in {"All", "IDs"} THEN @ ELSE 1]
  IN  IF op \notin OfIDs THEN l
      ELSE [l EXCEPT !.fields = Append(@, "id"),
                     !.unique = IF @ = Nil /\ l.path # Nil THEN TRUE ELSE @]

(* What a read leaves in its builder: First and Only their limits, IDs, on which  *)
(* FirstID, OnlyID and Exist rest, the column.                                   *)
Touched(q, op) ==
  LET l == [q EXCEPT !.limit = IF op \in {"First", "FirstID", "Exist"} THEN 1
                               ELSE IF op \in {"Only", "OnlyID"} THEN 2 ELSE @]
  IN  IF op \notin OfIDs THEN l
      ELSE [l EXCEPT !.fields = Append(@, "id"),
                     !.unique = IF @ = Nil /\ l.path # Nil THEN TRUE ELSE @]

(* querySpec joins distinct rows; sqlQuery only when it is told to.               *)
IsDistinct(q, op) == IF op \in OfIDs THEN q.unique = TRUE
                                     ELSE q.unique = TRUE \/ (q.unique = Nil /\ q.path # Nil)

Verdict(op, T) ==
  IF op \in {"All", "IDs"} THEN "nil"
  ELSE IF op = "Exist" THEN (IF T = {} THEN "false" ELSE "true")
  ELSE IF T = {} THEN "NotFound"
  ELSE IF op \in {"Only", "OnlyID"} /\ Cardinality(T) > 1 THEN "NotSingular" ELSE "nil"

(* How often b, and the query it came from, have been read.                       *)
Used(rs, b) == rs[b] + (IF builders[b].path = Nil THEN 0 ELSE rs[builders[b].path])

Answers(b, op, T, e, edges, seen) ==
  /\ pending' = Nil
  /\ answer' = [b |-> b, op |-> op, rows |-> T, err |-> e, edges |-> edges, seen |-> seen,
                later |-> db, first |-> Used(runs', b) = 1, whole |-> op \in OfIDs \/ builders'[b].fields = asked[b].fields,
                asked |-> asked]

(* A read up to its first SELECT, which is all of it without edges to load.      *)
Run(b, op) ==
  /\ pending = Nil /\ Used(runs, b) < work.maxRuns /\ runs' = [runs EXCEPT ![b] = @ + 1]
  /\ builders' = [builders EXCEPT ![b] = Touched(@, op)]
  /\ LET q == builders'[b]
     IN  IF Refuses(builders, q) THEN Answers(b, op, {}, "Validation", {}, db)
         ELSE IF DatabaseRefuses(builders, q) THEN Answers(b, op, {}, "database error", {}, db)
         ELSE IF op \in OfIDs /\ Len(q.fields) # 1 THEN Answers(b, op, {}, "columns do not match", {}, db)
         ELSE \E T \in Selected(db, builders, q, IsDistinct(q, op)) :
                IF op \in OfIDs \/ q.child = Nil \/ T = {}
                  THEN Answers(b, op, T, Verdict(op, T), {}, db)
                  ELSE /\ pending' = [b |-> b, op |-> op, rows |-> T, seen |-> db]
                       /\ answer' = Nil
  /\ UNCHANGED <<work, db, asked, calls, changes>>

Keys(typ, T, d) ==
  IF typ = "User" THEN {x[1] : x \in T} ELSE {d.owner[x[1]] : x \in T} \ {Nil}

(* nodeids: of the copies of a user that a join gives, the last one (any of them). *)
Lasts(T) ==
  {L \in SUBSET T : {x[1] : x \in L} = {x[1] : x \in T} /\ \A x, y \in L : x[1] = y[1] => x = y}

(* Mutant: of the tokens of one owner only the last is remembered.               *)
AssignedLast(typ, T, L, N, d, e) ==
  IF typ = "User" THEN UNION {{<<x, n[1]>> : n \in {m \in N : e.owner[m[1]] = x[1]}} : x \in L}
  ELSE {<<x, d.owner[x[1]]>> : x \in {y \in T : /\ \E n \in N : n[1] = d.owner[y[1]]
                                               /\ \A z \in T : d.owner[z[1]] = d.owner[y[1]] => z[1] <= y[1]}}

(* Which node gets which neighbour of N: by the foreign key, the token's as it    *)
(* was read first (d), or the neighbour's as it is now (e).                      *)
Assigned(typ, T, L, N, d, e) ==
  IF typ = "User" THEN UNION {{<<x, n[1]>> : n \in {m \in N : e.owner[m[1]] = x[1]}} : x \in L}
  ELSE {<<x, d.owner[x[1]]>> : x \in {y \in T : \E n \in N : n[1] = d.owner[y[1]]}}

(* loadOwner, loadRefreshTokens: the predicate stays in the neighbours' query.   *)
LoadEdges ==
  /\ pending # Nil
  /\ UNCHANGED <<work, db, asked, runs, calls, changes>>
  /\ LET b == pending.b   T == pending.rows   typ == builders[pending.b].typ
         keys == Keys(typ, T, pending.seen)
         by   == IF typ = "User" THEN "fk" ELSE "id"
     IN  IF keys = {}
           THEN /\ UNCHANGED builders
                /\ Answers(b, pending.op, T, Verdict(pending.op, T), {}, pending.seen)
           ELSE /\ builders' = [builders EXCEPT ![b].child.where = @ \cup {[by |-> by, in |-> keys]}]
                /\ \E N \in Selected(db, builders, builders'[b].child, FALSE), L \in Lasts(T) :
                     Answers(b, pending.op, T, Verdict(pending.op, T),
                             Assigned(typ, T, L, N, pending.seen, db), pending.seen)

--------------------------------------------------------------------------------
(* Other sessions; the tokens of a deleted user have no owner.                   *)
Changed(us, owner) ==
  /\ changes < work.maxChanges /\ changes' = changes + 1
  /\ db' = [users |-> us, owner |-> owner] /\ db' # db
  /\ answer' = Nil /\ UNCHANGED <<work, builders, pending, asked, runs, calls>>

Outside ==
  \/ \E u \in UserIds : Changed(db.users \cup {u}, db.owner)
  \/ \E u \in db.users : Changed(db.users \ {u},
                           [t \in DOMAIN db.owner |-> IF db.owner[t] = u THEN Nil ELSE db.owner[t]])
  \/ \E t \in TokenIds, o \in db.users \cup {Nil} :
       Changed(db.users, [x \in DOMAIN db.owner \cup {t} |-> IF x = t THEN o ELSE db.owner[x]])
  \/ \E t \in DOMAIN db.owner :
       Changed(db.users, [x \in DOMAIN db.owner \ {t} |-> db.owner[x]])

Next ==
  \/ Outside \/ LoadEdges
  \/ \E b \in DOMAIN builders :
       \/ \E s \in work.filters : Where(b, s) \/ WithEdge(b, {s})
       \/ WithEdge(b, {})
       \/ \E n \in work.limits : Limit(b, n)
       \/ \E n \in work.offsets : Offset(b, n)
       \/ \E u \in BOOLEAN : Unique(b, u)
       \/ \E f \in work.selects : Select(b, f)
       \/ Order(b) \/ Clones(b) \/ QueryEdge(b)
       \/ \E op \in work.ops : Run(b, op)

Spec == Init /\ [][Next]_vars

--------------------------------------------------------------------------------
Wanted(a) == a.asked[a.b]

(* What an edge leads to, from every row that the query before it asks for.       *)
Linked(d, typ, r) ==
  IF typ = "Token" THEN {d.owner[r]} \ {Nil} ELSE {t \in DOMAIN d.owner : d.owner[t] = r}

Reached(d, qs, q) ==
  IF q.path = Nil THEN {Rows(d, q.typ)}
  ELSE LET p == qs[q.path]
       IN  {UNION {{<<n, x[1]>> : n \in Linked(d, p.typ, x[1])} : x \in T} :
              T \in Slices(p, Matches(d, p, Rows(d, p.typ)))}

(* The rows a caller wants, before any limit.                                    *)
Everything(a) ==
  LET q == [Wanted(a) EXCEPT !.limit = Nil]
  IN  UNION {Slices(q, LET M == Matches(a.seen, q, S)
                       IN  IF q.unique = FALSE THEN M ELSE {<<x[1], 0>> : x \in M}) :
               S \in Reached(a.seen, a.asked, q)}

(* First and Only say what is there, after other reads of the same builder too:   *)
(* Only tells one row from two, whatever limit it had.  (Not over an edge: the     *)
(* query it came from may have been left with a limit of one.)                   *)
VerdictsStand ==
  answer # Nil /\ answer.op \in {"First", "Only"} /\ answer.err # "Validation"
               /\ Wanted(answer).path = Nil =>
    \E T \in Everything(answer) :
      IF T = {} THEN answer.err = "NotFound"
      ELSE IF answer.op = "Only" /\ Cardinality(T) > 1 THEN answer.err = "NotSingular"
      ELSE answer.err = "nil" /\ answer.rows # {} /\ answer.rows \subseteq T

(* An answer gives the rows and columns that its builder was asked for, of one    *)
(* state of the tables, and a neighbour of several rows once.                    *)
AsWished(a) ==
  LET q == Wanted(a)
  IN  IF Refuses(a.asked, q) THEN a.err = "Validation"
      ELSE IF a.op \in OfIDs /\ q.fields # <<>> THEN a.err = "columns do not match"
      ELSE /\ a.whole
           /\ \E T \in Everything(a) :
                LET n == IF a.op \notin {"All", "IDs"} THEN SmallerOf(1, Cardinality(T))
                         ELSE IF q.limit = Nil THEN Cardinality(T) ELSE SmallerOf(q.limit, Cardinality(T))
                IN  /\ a.rows \subseteq T
                    /\ q.ordered => \A x \in a.rows, y \in T \ a.rows : x[1] <= y[1]
                    /\ a.err = "NotSingular" <=> a.op \in {"Only", "OnlyID"} /\ Cardinality(T) > 1
                    /\ a.err \notin {"Validation", "columns do not match", "database error"}
                    /\ a.err \in {"nil", "true"} => Cardinality(a.rows) = n
                    /\ a.err \in {"NotFound", "false"} <=> (T = {} /\ a.op \notin {"All", "IDs"})

(* An owner's query that came from tokens with Unique(true), where it matters that *)
(* their keys were selected, DISTINCT, in place of the tokens.                   *)
CountsOwners(qs, q) ==
  /\ SelectsKeys(qs, q)
  /\ LET p == qs[q.path]
     IN  p.limit # Nil \/ p.offset # 0 \/ p.ordered \/ q.unique = FALSE

(* It finds owners of such tokens all the same.                                  *)
OnlyOwners(a) ==
  LET q == Wanted(a)   p == a.asked[q.path]
  IN  /\ a.err = "database error" => p.ordered
      /\ \A x \in a.rows :
           /\ \E t \in Matches(a.seen, p, Rows(a.seen, "Token")) : a.seen.owner[t[1]] = x[1]
           /\ x \in Matches(a.seen, q, a.rows)

(* The first read of a builder, a clone or a query over an edge gives what it was *)
(* asked for, but for how Unique of tokens counts over their edge.  (A later read *)
(* may be left with a limit or the id column.)                                   *)
AnswersAsAsked ==
  answer # Nil /\ answer.first =>
    IF CountsOwners(answer.asked, Wanted(answer)) THEN OnlyOwners(answer) ELSE AsWished(answer)

(* The neighbours that the caller wants and that row r is linked to: of a user as *)
(* they are at the second SELECT, the owner of a token as it was at the first, if *)
(* he is still there.                                                            *)
Deserved(a, r) ==
  {n \in UserIds \cup TokenIds :
     /\ \A p \in Wanted(a).child.where : n \in p.in
     /\ IF Wanted(a).typ = "User"
          THEN n \in DOMAIN a.later.owner /\ a.later.owner[n] = r
          ELSE a.seen.owner[r] = n /\ n \in a.later.users}

(* An entity comes with all the neighbours that it is linked to and that the      *)
(* caller wants, and no other; of several copies of a user, which a join without  *)
(* DISTINCT gives, one has them all and the others have none                     *)
(* (user_query.go:412).  So the first time; a second read is left with the keys   *)
(* of the first.                                                                 *)
EdgesAsLinked ==
  answer # Nil /\ answer.first /\ answer.op \notin OfIDs =>
    IF Wanted(answer).child = Nil THEN answer.edges = {}
    ELSE /\ \A e \in answer.edges : e[1] \in answer.rows
         /\ \A x \in answer.rows : \E y \in answer.rows :
              /\ y[1] = x[1]
              /\ {e \in answer.edges : e[1][1] = x[1]} = {y} \X Deserved(answer, x[1])
==============================================================================
