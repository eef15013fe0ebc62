----------------------------- MODULE AtomicUnits -----------------------------
(* What a transaction promises: the rows of a unit of work become visible all    *)
(* at once, or never, and a unit is decided once.                                *)
CONSTANTS Units, Rows

VARIABLES visible,      \* the rows everybody sees
          work,         \* work[u]: the rows unit u has written
          fate          \* fate[u]: open, applied or dropped

Init ==
  /\ visible = {}
  /\ work = [u \in Units |-> {}]
  /\ fate = [u \in Units |-> "open"]

Work(u, rs) ==
  /\ fate[u] = "open"
  /\ work' = [work EXCEPT ![u] = @ \cup rs]
  /\ UNCHANGED <<visible, fate>>

Apply(u) ==
  /\ fate[u] = "open"
  /\ visible' = visible \cup work[u]
  /\ fate' = [fate EXCEPT ![u] = "applied"]
  /\ UNCHANGED work

Drop(u) ==
  /\ fate[u] = "open"
  /\ fate' = [fate EXCEPT ![u] = "dropped"]
  /\ work' = [work EXCEPT ![u] = {}]
  /\ UNCHANGED visible

Next == \E u \in Units : Apply(u) \/ Drop(u) \/ \E rs \in SUBSET Rows : Work(u, rs)

Spec == Init /\ [][Next]_<<visible, work, fate>>
==============================================================================
