------------------------------ MODULE MCEntQuery ------------------------------
(* A small instance of the query builders for TLC: three workloads.             *)
EXTENDS EntQuery

(* Two tokens of one user, of one each, of one and of nobody, of nobody; nothing. *)
FullTables ==
  {[users |-> UserIds, owner |-> o] : o \in {<<1, 1>>, <<2, 1>>, <<2, Nil>>, <<Nil, Nil>>}}
    \cup {[users |-> {}, owner |-> <<>>]}

AllTables ==
  {[users |-> us, owner |-> o] : us \in SUBSET UserIds,
     o \in UNION {[ts -> UserIds \cup {Nil}] : ts \in SUBSET TokenIds}}

AnyTables == {d \in AllTables : \A t \in DOMAIN d.owner : d.owner[t] \in d.users \cup {Nil}}

(* Two builders, the second a clone of the first or over an edge.                *)
Reads ==
  [tables |-> FullTables, starts |-> {"User", "Token"}, filters |-> {{2, 3}},
   limits |-> {1}, offsets |-> {1}, selects |-> {"column", "bogus"},
   ops |-> {"All", "First", "Only", "IDs", "FirstID", "OnlyID", "Exist"},
   maxBuilders |-> 2, maxCalls |-> 2, maxRuns |-> 1, maxChanges |-> 0]

(* Eager loading, with the tables changing between the two SELECTs.              *)
Loads ==
  [tables |-> AnyTables, starts |-> {"User", "Token"}, filters |-> {{1, 2}, {2, 3}},
   limits |-> {2}, offsets |-> {}, selects |-> {}, ops |-> {"All", "First"},
   maxBuilders |-> 1, maxCalls |-> 2, maxRuns |-> 1, maxChanges |-> 1]

(* Builders that are read again, clones in between.                              *)
Again ==
  [tables |-> FullTables, starts |-> {"User", "Token"}, filters |-> {{2, 3}},
   limits |-> {1}, offsets |-> {1}, selects |-> {}, ops |-> {"All", "First", "Only", "Exist"},
   maxBuilders |-> 2, maxCalls |-> 1, maxRuns |-> 2, maxChanges |-> 0]

AllWorkloads == {Reads, Loads, Again}
==============================================================================
