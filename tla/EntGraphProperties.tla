-------------------------- MODULE EntGraphProperties --------------------------
(* What the update and delete builders promise, stated over the calls that were  *)
(* made and not over the mutation they leave behind.                             *)
EXTENDS EntGraph

CallsOn(calls, on) == {i \in DOMAIN calls : calls[i].on = on}

(* The call that counts: the last one about f.                                   *)
LastOn(calls, f) == calls[Max(CallsOn(calls, f))]

AskedFor(calls, f) == CallsOn(calls, f) # {} /\ LastOn(calls, f).call # "Reset"

(* The nodes a builder is for: by how it was opened and its Where calls.         *)
Admits(calls, i) ==
  /\ calls[1].arg \in {Nil, i}
  /\ \A j \in CallsOn(calls, "ids") : i \in calls[j].arg

Targets(b) == {i \in Stored(mut[b].typ) : Admits(log[b], i)}

Saved(b, typ) ==
  /\ pc[b] \in {"hooks", "redirected"} /\ pc'[b] \in {"building", "spent"} /\ res'[b] = "ok"
  /\ mut[b].typ = typ /\ mut[b].op \in {"Update", "UpdateOne"}

(* A Save that is answered has given every column of its nodes what the last     *)
(* call about it asked for, and left the other columns and rows alone, reused    *)
(* builders and hooks included; created_at of a user is immutable                *)
(* (ent/schema/user.go:50).                                                      *)
UserFieldsAsAsked ==
  [][\A b \in Builders : Saved(b, "User") =>
       \A u \in Stored("User") : \A f \in UserColumns \ {"updated_at"} :
         users'[u][f] =
           IF u \in Targets(b) /\ f # "created_at" /\ AskedFor(log[b], f)
             THEN LastOn(log[b], f).arg ELSE users[u][f]]_vars

TokenFieldsAsAsked ==
  [][\A b \in Builders : Saved(b, "Token") =>
       \A k \in Stored("Token") : \A f \in TokenColumns :
         tokens'[k][f] =
           IF k \in Targets(b) /\ AskedFor(log[b], f) THEN LastOn(log[b], f).arg ELSE tokens[k][f]]_vars

(* updated_at of what a Save changes is what the caller asked for, or else the   *)
(* time of the builder's first Save, which one that is saved again keeps; of a    *)
(* deletion that a hook made an update, a time between that and now.  Where       *)
(* updated_at was reset last, nothing is said.                                   *)
StampedBySave ==
  [][\A b \in Builders : Saved(b, "User") /\ "updated_at" \in UserColumns =>
       \A u \in Targets(b) \cap Stored("User") :
         LET stamp == users'[u]["updated_at"]
         IN  IF CallsOn(log[b], "updated_at") # {}
               THEN AskedFor(log[b], "updated_at") => stamp = LastOn(log[b], "updated_at").arg
               ELSE \/ stamp = since[b]
                    \/ pc[b] = "redirected" /\ stamp \in since[b]..now]_vars

SinceReset(calls) ==
  LET resets == {j \in DOMAIN calls : calls[j].call = "ResetEdge"}
  IN  {i \in CallsOn(calls, "edge") : \A j \in resets : i > j}

EdgeCalls(calls, call) == {i \in SinceReset(calls) : calls[i].call = call}

LastEdge(calls, k) ==
  LET is == {i \in SinceReset(calls) : calls[i].call \in {"Add", "Remove"} /\ k \in calls[i].arg}
  IN  IF is = {} THEN "none" ELSE calls[Max(is)].call

(* Of the tokens of a user, a Save has linked those last added, unlinked those   *)
(* last removed or, when the edge was cleared, all the others, and taken none    *)
(* from another user.                                                            *)
EdgesAsAsked ==
  [][\A b \in Builders : Saved(b, "User") /\ Targets(b) # {} =>
       \A k \in Stored("Token") :
         LET old  == tokens[k].owner
             new  == tokens'[k].owner
             last == LastEdge(log[b], k)
         IN  IF last = "Add" THEN new \in Targets(b) /\ old \in Targets(b) \cup {Nil}
             ELSE IF (last = "Remove" \/ EdgeCalls(log[b], "ClearEdge") # {}) /\ old \in Targets(b)
               THEN new = Nil
             ELSE new = old]_vars

(* The owner of a token is the one last set, also when the edge was cleared after *)
(* that (a ClearOwner counts only without a SetOwner), nobody when it was only    *)
(* cleared, and else as it was.                                                  *)
OwnerAsAsked ==
  [][\A b \in Builders : Saved(b, "Token") =>
       \A k \in Stored("Token") :
         LET sets == EdgeCalls(log[b], "SetOwner")
         IN  tokens'[k].owner =
               IF k \notin Targets(b) THEN tokens[k].owner
               ELSE IF sets # {} THEN log[b][Max(sets)].arg
               ELSE IF EdgeCalls(log[b], "ClearEdge") # {} THEN Nil ELSE tokens[k].owner]_vars

(* All that the OldX calls of a builder return comes from one version of its     *)
(* node, which is not one that its own answered Save made.                       *)
OldIsOneVersion ==
  \A b \in Builders :
    LET read == {p \in told[b] : p[2] # Failed}
    IN  read # {} => \E row \in past[b] : \A p \in read : row[p[1]] = p[2]

(* A token is changed by the end of its user in nothing but its owner, and is    *)
(* never left with an owner that is not there.                                   *)
TokensOutliveUsers ==
  [][\A b \in Builders : pc[b] # "none" /\ mut[b].typ = "User" =>
       \A k \in TokenIds : mut'[b] = mut[b] \/ tokens[k] = Nil \/
         /\ tokens'[k] # Nil
         /\ \A f \in TokenColumns : tokens'[k][f] = tokens[k][f]
         /\ tokens'[k].owner # Nil => users'[tokens'[k].owner] # Nil]_vars
==============================================================================
