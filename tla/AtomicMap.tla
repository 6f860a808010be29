------------------------------- MODULE AtomicMap -------------------------------
(***************************************************************************)
(* What the client expects of its map from request ids to channels: an     *)
(* object whose operations each take effect at one instant between call    *)
(* and return.  In particular two LoadAndDeletes never return the same     *)
(* entry.                                                                  *)
(***************************************************************************)
CONSTANTS Procs, Keys, Vals, None

VARIABLES map, op, status, result

mapVars == <<map, op, status, result>>

Ops == [kind : {"Store", "LoadAndDelete", "Delete"}, key : Keys, val : Vals]

Init ==
    /\ map = [k \in Keys |-> None]
    /\ op \in [Procs -> Ops]
    /\ status = [p \in Procs |-> "idle"]
    /\ result = [p \in Procs |-> None]

\* A goroutine calls an operation.
Call(p) ==
    /\ status[p] = "idle"
    /\ status' = [status EXCEPT ![p] = "called"]
    /\ \E o \in Ops : op' = [op EXCEPT ![p] = o]
    /\ result' = [result EXCEPT ![p] = None]
    /\ UNCHANGED map

\* The operation takes effect; only LoadAndDelete has a result.
Apply(p) ==
    /\ status[p] = "called"
    /\ status' = [status EXCEPT ![p] = "applied"]
    /\ map' = [map EXCEPT ![op[p].key] =
                 IF op[p].kind = "Store" THEN op[p].val ELSE None]
    /\ result' = [result EXCEPT ![p] =
                    IF op[p].kind = "LoadAndDelete" THEN map[op[p].key] ELSE None]
    /\ UNCHANGED op

\* The operation returns.
Return(p) ==
    /\ status[p] = "applied"
    /\ status' = [status EXCEPT ![p] = "idle"]
    /\ UNCHANGED <<map, op, result>>

Next == \E p \in Procs : Call(p) \/ Apply(p) \/ Return(p)

Spec == Init /\ [][Next]_mapVars
================================================================================
