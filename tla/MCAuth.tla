------------------------------- MODULE MCAuth --------------------------------
(* Small instances of the service for TLC.                                       *)
EXTENDS AuthInvariant, Naturals, TLC

RequestSymmetry == Permutations(Requests)
UserSymmetry    == Permutations(Requests) \cup Permutations(UserIDs) \cup Permutations(Subjects)

(* Bounds of the liveness run, whose requests are numbered: they come in turn,   *)
(* which is their symmetry, and time passes only between the first, answered,    *)
(* and the second.                                                               *)
InTurn ==
  \A r, q \in Requests : q < r /\ pc[r] = "idle" /\ pc'[r] # "idle" => pc[q] # "idle"

QuietTick ==
  now' # now => InFlight = {} /\ \A r \in Requests : pc[r] = "idle" <=> r # 1

QuietFairSpec ==
  Init /\ [][Next /\ InTurn /\ QuietTick]_vars /\ \A r \in Requests : WF_vars(Handler(r))
==============================================================================
