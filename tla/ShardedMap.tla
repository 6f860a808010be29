------------------------------- MODULE ShardedMap -------------------------------
(***************************************************************************)
(* internal/shardedmap.go: a map split into shards by key modulo the       *)
(* number of shards, each with its own mutex.  A goroutine runs one        *)
(* operation at a time; each action is one step of an operation.           *)
(***************************************************************************)
EXTENDS Integers

CONSTANTS
    Procs,      \* goroutines
    Keys,       \* request ids
    Vals,       \* channels
    ShardCount, \* 256 in the code
    None        \* absent entry, free mutex, no result

ASSUME KeysAssumption == Keys \subseteq Nat
ASSUME ShardCountAssumption == ShardCount \in Nat \ {0}
ASSUME NoneAssumption == None \notin Vals \cup Procs

VARIABLES
    items,      \* items[s][k]: the entry of key k in shard s
    mu,         \* holder of each shard's mutex
    pc, op,     \* the operation each goroutine is running, and where it is
    result      \* what LoadAndDelete read

vars == <<items, mu, pc, op, result>>

Shards == 0..(ShardCount - 1)
Ops == [kind : {"Store", "LoadAndDelete", "Delete"}, key : Keys, val : Vals]
PCs == {"idle", "called", "locked", "loaded", "written", "unlocked"}

ShardOf(k) == k % ShardCount

\* The types of ShardedMap (shardedmap.go:7-14) and of the operations' locals.
TypeOK ==
    /\ items \in [Shards -> [Keys -> Vals \cup {None}]]
    /\ mu \in [Shards -> Procs \cup {None}]
    /\ pc \in [Procs -> PCs]
    /\ op \in [Procs -> Ops]
    /\ result \in [Procs -> Vals \cup {None}]

\* NewShardedMap: every shard has an empty map.
Init ==
    /\ items = [s \in Shards |-> [k \in Keys |-> None]]
    /\ mu = [s \in Shards |-> None]
    /\ pc = [p \in Procs |-> "idle"]
    /\ op \in [Procs -> Ops]
    /\ result = [p \in Procs |-> None]

--------------------------------------------------------------------------------

Goto(p, from, to) ==
    /\ pc[p] = from
    /\ pc' = [pc EXCEPT ![p] = to]

MyShard(p) == ShardOf(op[p].key)

\* The assignment of the entry of p's key in p's shard.
Put(p, v) == items' = [items EXCEPT ![MyShard(p)][op[p].key] = v]

\* The caller: the client's goroutines and read cycles.
Call(p) ==
    /\ Goto(p, "idle", "called")
    /\ \E o \in Ops : op' = [op EXCEPT ![p] = o]
    /\ result' = [result EXCEPT ![p] = None]
    /\ UNCHANGED <<items, mu>>

\* Mutation of Lock: RLock, which does not exclude other readers.
LockShared(p) ==
    /\ Goto(p, "called", "locked")
    /\ mu' = [mu EXCEPT ![MyShard(p)] = p]
    /\ UNCHANGED <<items, op, result>>

\* shard.mu.Lock() of all three operations.
Lock(p) ==
    /\ Goto(p, "called", "locked")
    /\ mu[MyShard(p)] = None
    /\ mu' = [mu EXCEPT ![MyShard(p)] = p]
    /\ UNCHANGED <<items, op, result>>

\* Store: shard.items[key] = value.
Store(p) ==
    /\ op[p].kind = "Store"
    /\ Goto(p, "locked", "written")
    /\ Put(p, op[p].val)
    /\ UNCHANGED <<mu, op, result>>

\* Delete: delete(shard.items, key).
Delete(p) ==
    /\ op[p].kind = "Delete"
    /\ Goto(p, "locked", "written")
    /\ Put(p, None)
    /\ UNCHANGED <<mu, op, result>>

\* LoadAndDelete: v, ok := shard.items[key] ...
Load(p) ==
    /\ op[p].kind = "LoadAndDelete"
    /\ Goto(p, "locked", "loaded")
    /\ result' = [result EXCEPT ![p] = items[MyShard(p)][op[p].key]]
    /\ UNCHANGED <<items, mu, op>>

\* ... and the deletion if the key was found.
LoadedDelete(p) ==
    /\ Goto(p, "loaded", "written")
    /\ IF result[p] = None THEN UNCHANGED items ELSE Put(p, None)
    /\ UNCHANGED <<mu, op, result>>

\* shard.mu.Unlock().
Unlock(p) ==
    /\ Goto(p, "written", "unlocked")
    /\ mu' = [mu EXCEPT ![MyShard(p)] = None]
    /\ UNCHANGED <<items, op, result>>

Return(p) ==
    /\ Goto(p, "unlocked", "idle")
    /\ UNCHANGED <<items, mu, op, result>>

Next ==
    \E p \in Procs :
        \/ Call(p)
        \/ Lock(p)
        \/ Store(p)
        \/ Delete(p)
        \/ Load(p)
        \/ LoadedDelete(p)
        \/ Unlock(p)
        \/ Return(p)

Spec == Init /\ [][Next]_vars

--------------------------------------------------------------------------------
(* Refinement                                                               *)

\* An operation takes effect when its entry is written.
StatusOf(l) ==
    CASE l = "idle" -> "idle"
      [] l \in {"called", "locked", "loaded"} -> "called"
      [] l \in {"written", "unlocked"} -> "applied"

Abstract == INSTANCE AtomicMap WITH
    map <- [k \in Keys |-> items[ShardOf(k)][k]],
    status <- [p \in Procs |-> StatusOf(pc[p])],
    result <- [p \in Procs |-> IF pc[p] = "loaded" THEN None ELSE result[p]]

\* The sharded map (shardedmap.go:24-47) behaves as one atomic map: whatever
\* the interleaving, no LoadAndDelete returns an entry that was deleted,
\* replaced or taken by another one, and shards do not interfere.
ImplementsAtomicMap == Abstract!Spec
================================================================================
