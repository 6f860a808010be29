---------------------------- MODULE ShardedMapProofs ----------------------------
(* The sharded map implements the atomic map, for every number of shards,    *)
(* goroutines, keys and values.                                              *)
EXTENDS ShardedMap, TLAPS

\* A key has a shard.
LEMMA ShardOfType == \A k \in Keys : ShardOf(k) \in Shards
  BY KeysAssumption, ShardCountAssumption DEF ShardOf, Shards

InCritical == {"locked", "loaded", "written"}

\* The holder of a shard's mutex is the one goroutine working in that shard, so
\* that what a LoadAndDelete has read is still there when it deletes it.
LockInv ==
    \A p \in Procs :
        /\ pc[p] \in InCritical => mu[MyShard(p)] = p
        /\ pc[p] \in {"called", "locked"} => result[p] = None
        /\ pc[p] = "loaded" => op[p].kind = "LoadAndDelete"
                               /\ result[p] = items[MyShard(p)][op[p].key]

Inv == TypeOK /\ LockInv

LEMMA InvInit == Init => Inv
  BY Zenon DEF Init, Inv, TypeOK, LockInv, PCs, InCritical

\* Every step of an operation keeps the types and the locking discipline.
LEMMA InvNext == Inv /\ [Next]_vars => Inv'
  <1> SUFFICES ASSUME Inv, [Next]_vars PROVE Inv'
    OBVIOUS
  <1>0. \A p \in Procs : op[p].key \in Keys /\ MyShard(p) \in Shards
    BY Zenon, ShardOfType DEF Inv, TypeOK, Ops, MyShard
  <1> USE NoneAssumption DEF Inv, TypeOK, LockInv, InCritical, PCs, Goto
  <1>1. ASSUME NEW p \in Procs, Call(p) PROVE Inv'
    BY <1>1 DEF Call, MyShard
  <1>2. ASSUME NEW p \in Procs, Lock(p) PROVE Inv'
    BY <1>0, <1>2 DEF Lock, MyShard
  <1>3. ASSUME NEW p \in Procs, Store(p) \/ Delete(p) PROVE Inv'
    <2>1. PICK v \in Vals \cup {None} : Put(p, v)
      BY Zenon, <1>3 DEF Store, Delete, Ops
    <2>2. /\ pc[p] = "locked" /\ pc' = [pc EXCEPT ![p] = "written"]
          /\ UNCHANGED <<mu, op, result>>
      BY Zenon, <1>3 DEF Store, Delete
    <2>3. \A q \in Procs \ {p} : pc[q] = "loaded" => MyShard(q) # MyShard(p)
      BY Zenon, <1>0, <2>2
    <2> QED
      BY ZenonT(40), <1>0, <2>1, <2>2, <2>3 DEF Put, MyShard
  <1>4. ASSUME NEW p \in Procs, Load(p) PROVE Inv'
    BY <1>0, <1>4 DEF Load, MyShard
  <1>5. ASSUME NEW p \in Procs, LoadedDelete(p) PROVE Inv'
    <2>1. \A q \in Procs \ {p} : pc[q] = "loaded" => MyShard(q) # MyShard(p)
      BY Zenon, <1>0, <1>5 DEF LoadedDelete
    <2>2. CASE result[p] = None
      BY ZenonT(40), <1>0, <1>5, <2>2 DEF LoadedDelete, MyShard
    <2>3. CASE result[p] # None
      <3>1. /\ pc[p] = "loaded" /\ pc' = [pc EXCEPT ![p] = "written"]
            /\ Put(p, None) /\ UNCHANGED <<mu, op, result>>
        BY Zenon, <1>5, <2>3 DEF LoadedDelete
      <3> QED
        BY ZenonT(40), <1>0, <2>1, <3>1 DEF Put, MyShard
    <2> QED
      BY Zenon, <2>2, <2>3
  <1>6. ASSUME NEW p \in Procs, Unlock(p) PROVE Inv'
    BY ZenonT(40), <1>0, <1>6 DEF Unlock, MyShard
  <1>7. ASSUME NEW p \in Procs, Return(p) PROVE Inv'
    BY Zenon, <1>7 DEF Return, MyShard
  <1>8. CASE UNCHANGED vars
    BY Zenon, <1>8 DEF vars, MyShard
  <1> QED
    BY Zenon, <1>1, <1>2, <1>3, <1>4, <1>5, <1>6, <1>7, <1>8 DEF Next

--------------------------------------------------------------------------------
(* The refinement                                                            *)

\* Short names for the abstract state.
amap == [k \in Keys |-> items[ShardOf(k)][k]]
astatus == [p \in Procs |-> StatusOf(pc[p])]
aresult == [p \in Procs |-> IF pc[p] = "loaded" THEN None ELSE result[p]]

LEMMA RefinesInit == Init => Abstract!Init
  BY Zenon, ShardOfType DEF Init, Abstract!Init, StatusOf, Ops, Abstract!Ops

\* Writing an entry in its shard writes it in the abstract map.
LEMMA PutIsWrite ==
  ASSUME Inv, NEW p \in Procs, NEW v, Put(p, v)
  PROVE  amap' = [amap EXCEPT ![op[p].key] = v]
  BY Zenon, ShardOfType DEF Put, MyShard, amap, Inv, TypeOK, Ops

\* A step that moves p and leaves the others alone moves p's abstract status.
LEMMA StatusMoves ==
  ASSUME Inv, NEW p \in Procs, NEW from, NEW to, Goto(p, from, to)
  PROVE  astatus' = [astatus EXCEPT ![p] = StatusOf(to)] /\ astatus[p] = StatusOf(from)
  BY Zenon DEF Goto, astatus, Inv, TypeOK

\* Call, the write of the entry, and Return are steps of the atomic map; the
\* other steps of an operation are invisible to it.
LEMMA RefinesNext == Inv /\ [Next]_vars => [Abstract!Next]_(Abstract!mapVars)
  <1> SUFFICES ASSUME Inv, [Next]_vars PROVE Abstract!Next \/ UNCHANGED Abstract!mapVars
    OBVIOUS
  <1>1. ASSUME NEW p \in Procs, Call(p) PROVE Abstract!Call(p)
    <2>1. pc[p] = "idle" /\ astatus[p] = "idle" /\ astatus' = [astatus EXCEPT ![p] = "called"]
      BY Zenon, <1>1, StatusMoves DEF Call, Goto, StatusOf
    <2>2. amap' = amap
      BY Zenon, <1>1 DEF Call, amap
    <2>3. aresult' = [aresult EXCEPT ![p] = None]
      BY Zenon, <1>1 DEF Call, Goto, aresult, Inv, TypeOK
    <2> QED
      BY Zenon, <1>1, <2>1, <2>2, <2>3 DEF Call, Abstract!Call, amap, astatus, aresult,
         Ops, Abstract!Ops
  <1>2. ASSUME NEW p \in Procs, Lock(p) \/ Load(p) \/ Unlock(p)
        PROVE UNCHANGED Abstract!mapVars
    <2>1. amap' = amap /\ op' = op
      BY Zenon, <1>2 DEF Lock, Load, Unlock, amap
    <2>2. astatus' = astatus
      <3>1. astatus' = [astatus EXCEPT ![p] = astatus[p]]
        BY <1>2, StatusMoves DEF Lock, Load, Unlock, StatusOf
      <3> QED
        BY Zenon, <3>1 DEF astatus
    <2>3. aresult' = aresult
      BY ZenonT(40), <1>2 DEF Lock, Load, Unlock, Goto, aresult, Inv, TypeOK, LockInv
    <2> QED
      BY Zenon, <2>1, <2>2, <2>3 DEF Abstract!mapVars, amap, astatus, aresult
  <1>3. ASSUME NEW p \in Procs, Store(p) \/ Delete(p) PROVE Abstract!Apply(p)
    <2>1. astatus[p] = "called" /\ astatus' = [astatus EXCEPT ![p] = "applied"]
      BY <1>3, StatusMoves DEF Store, Delete, Goto, StatusOf
    <2>2. amap' = [amap EXCEPT ![op[p].key] =
                     IF op[p].kind = "Store" THEN op[p].val ELSE None]
      BY Zenon, <1>3, PutIsWrite DEF Store, Delete
    <2>3. aresult' = [aresult EXCEPT ![p] = None] /\ op[p].kind # "LoadAndDelete"
      BY <1>3 DEF Store, Delete, Goto, aresult, Inv, TypeOK, LockInv
    <2> QED
      BY Zenon, <1>3, <2>1, <2>2, <2>3 DEF Store, Delete, Abstract!Apply, amap, astatus,
         aresult
  <1>4. ASSUME NEW p \in Procs, LoadedDelete(p) PROVE Abstract!Apply(p)
    <2>1. astatus[p] = "called" /\ astatus' = [astatus EXCEPT ![p] = "applied"]
      BY ZenonT(40), <1>4, StatusMoves DEF LoadedDelete, Goto, StatusOf
    <2>2. op[p].kind = "LoadAndDelete" /\ op[p].key \in Keys
          /\ result[p] = amap[op[p].key]
      BY Zenon, <1>4 DEF LoadedDelete, Goto, Inv, TypeOK, LockInv, Ops, MyShard, amap
    <2>3. amap' = [amap EXCEPT ![op[p].key] = None]
      <3>1. CASE result[p] = None
        BY Zenon, <1>4, <2>2, <3>1 DEF LoadedDelete, amap
      <3>2. CASE result[p] # None
        BY Zenon, <1>4, <3>2, PutIsWrite DEF LoadedDelete
      <3> QED
        BY Zenon, <3>1, <3>2
    <2>4. aresult' = [aresult EXCEPT ![p] = amap[op[p].key]]
      BY Zenon, <1>4, <2>2 DEF LoadedDelete, Goto, aresult, Inv, TypeOK
    <2> QED
      BY Zenon, <1>4, <2>1, <2>2, <2>3, <2>4 DEF LoadedDelete, Abstract!Apply, amap,
         astatus, aresult
  <1>5. ASSUME NEW p \in Procs, Return(p) PROVE Abstract!Return(p)
    <2>1. astatus[p] = "applied" /\ astatus' = [astatus EXCEPT ![p] = "idle"]
      BY Zenon, <1>5, StatusMoves DEF Return, Goto, StatusOf
    <2>2. amap' = amap /\ aresult' = aresult /\ op' = op
      BY Zenon, <1>5 DEF Return, Goto, amap, aresult, Inv, TypeOK
    <2> QED
      BY Zenon, <2>1, <2>2 DEF Abstract!Return, amap, astatus, aresult
  <1>6. CASE UNCHANGED vars
    BY Zenon, <1>6 DEF vars, Abstract!mapVars
  <1> QED
    BY Zenon, <1>1, <1>2, <1>3, <1>4, <1>5, <1>6 DEF Next, Abstract!Next

\* The sharded map of shardedmap.go is an implementation of the atomic map that
\* the calls of the client rely on.
THEOREM ShardedMapIsAtomic == Spec => ImplementsAtomicMap
  BY InvInit, InvNext, RefinesInit, RefinesNext, PTL
     DEF Spec, ImplementsAtomicMap, Abstract!Spec
================================================================================
