---------------------------- MODULE ShardMapProof ----------------------------
(***************************************************************************)
(* Listings of the sharded map miss no key that stays and report nothing   *)
(* that never was, and IterCb sees a shard that stands still: for any      *)
(* number of threads, keys and shards, and any callbacks.                  *)
(***************************************************************************)
EXTENDS ShardMap, TLAPS

\* A lock is held by the callback that runs under it, and a writer is alone.
Locking ==
  /\ \A s \in Shards : writer[s] # None =>
       /\ readers[s] = {}
       /\ held[writer[s]] = s /\ op[writer[s]] \in {"RemoveCb", "ClearConn", "dead"}
  /\ \A t \in Threads : held[t] # None =>
       /\ op[t] \in {"IterCb", "RemoveCb", "ClearConn", "dead"}
       /\ op[t] = "IterCb" => t \in readers[held[t]] /\ held[t] \in shards[t]
       /\ op[t] \in {"RemoveCb", "ClearConn"} => writer[held[t]] = t
  /\ \A s \in Shards : \A t \in readers[s] : held[t] = s /\ op[t] \in {"IterCb", "dead"}

\* What a thread that goes over the map has seen of it, and what is left.
Listing(t) ==
  /\ sure[t] \subseteq DOMAIN items /\ Pairs(items) \subseteq maybe[t]
  /\ seen[t] \subseteq maybe[t]
  /\ \A k \in sure[t] : shardKeyFunc[k] \in shards[t] \/ \E p \in seen[t] : p[1] = k
  /\ op[t] = "IterCb" => \A p \in seen[t] :
       shardKeyFunc[p[1]] \in shards[t] => shardKeyFunc[p[1]] = held[t]

Listed == \A t \in Threads : Visits(op[t]) => Listing(t)

\* The callbacks left to IterCb are for keys of the shard it is in.
InTheShard ==
  \A t \in Threads : op[t] = "IterCb" /\ held[t] # None =>
    \A k \in keys[t] : shardKeyFunc[k] = held[t]

IInv == TypeOK /\ Locking /\ Listed /\ InTheShard /\ ShardIsStable

-----------------------------------------------------------------------------
(* Types                                                                    *)

\* What a step does to the map, if anything.
Changes(t, k) == Put(k, t) \/ Delete(k) \/ Same

LEMMA ChangeTypes ==
  ASSUME TypeOK, NEW t \in Threads, NEW k \in Keys, Changes(t, k)
  PROVE  /\ DOMAIN items' \subseteq Keys /\ \A j \in DOMAIN items' : items'[j] \in Threads
         /\ sure' \in [Threads -> SUBSET Keys]
         /\ maybe' \in [Threads -> SUBSET (Keys \X Threads)]
<1>1. CASE Same
  BY <1>1 DEF Same, TypeOK
<1>2. ASSUME NEW m, Becomes(m), DOMAIN m \subseteq Keys, \A j \in DOMAIN m : m[j] \in Threads
      PROVE  /\ DOMAIN items' \subseteq Keys /\ \A j \in DOMAIN items' : items'[j] \in Threads
             /\ sure' \in [Threads -> SUBSET Keys]
             /\ maybe' \in [Threads -> SUBSET (Keys \X Threads)]
  <2>1. Pairs(m) \subseteq Keys \X Threads
    BY <1>2 DEF Pairs
  <2> QED
    BY <1>2, <2>1 DEF Becomes, TypeOK
<1>3. CASE Put(k, t)
  BY <1>2, <1>3 DEF Put, TypeOK
<1>4. CASE Delete(k)
  BY <1>2, <1>4 DEF Delete, TypeOK
<1> QED
  BY <1>1, <1>3, <1>4 DEF Changes

\* Every step of a thread, with what it does to the map.
LEMMA MapSteps ==
  ASSUME NEW t \in Threads, NEW k \in Keys,
         Write(t, k) \/ \E remove \in BOOLEAN : CbReturns(t, k, remove)
  PROVE  Changes(t, k)
<1>1. CASE Write(t, k)
  <2>1. Update(t, k)
    BY <1>1 DEF Write
  <2> QED
    BY <2>1 DEF Update, Changes
<1>2. CASE \E remove \in BOOLEAN : CbReturns(t, k, remove)
  BY <1>2 DEF CbReturns, Changes
<1> QED
  BY <1>1, <1>2

LEMMA TypeStep == TypeOK /\ [Next]_vars => TypeOK'
<1> SUFFICES ASSUME TypeOK, [Next]_vars PROVE TypeOK'
  OBVIOUS
<1> USE ShardAssumption
<1>1. CASE UNCHANGED vars
  BY <1>1 DEF vars, mapVars, callVars, TypeOK
<1>2. ASSUME NEW t \in Threads, NEW o \in Ops, NEW k \in Keys, Call(t, o, k) PROVE TypeOK'
  <2>1. UNCHANGED <<mapVars, held>> /\ calls' \in 0..MaxCalls
    BY <1>2 DEF Call, TypeOK
  <2>2. op' \in [Threads -> Ops \cup {None, "dead"}]
    BY <1>2 DEF Call, TypeOK
  <2>3. \E K \in SUBSET Keys : keys' = [keys EXCEPT ![t] = K]
    BY <1>2 DEF Call
  <2>4. keys' \in [Threads -> SUBSET Keys] /\ shards' \in [Threads -> SUBSET Shards]
    BY <1>2, <2>3 DEF Call, TypeOK
  <2>5. Pairs(items) \subseteq Keys \X Threads
    BY DEF Pairs, TypeOK
  <2>6. /\ seen' \in [Threads -> SUBSET (Keys \X Threads)]
        /\ sure' \in [Threads -> SUBSET Keys]
        /\ maybe' \in [Threads -> SUBSET (Keys \X Threads)]
    BY <1>2, <2>5 DEF Call, TypeOK
  <2> QED
    BY <2>1, <2>2, <2>4, <2>6 DEF TypeOK, mapVars
<1>3. ASSUME NEW t \in Threads, NEW k \in Keys,
             Write(t, k) \/ \E remove \in BOOLEAN : CbReturns(t, k, remove)
      PROVE  TypeOK'
  <2>1. /\ DOMAIN items' \subseteq Keys /\ \A j \in DOMAIN items' : items'[j] \in Threads
        /\ sure' \in [Threads -> SUBSET Keys]
        /\ maybe' \in [Threads -> SUBSET (Keys \X Threads)]
    BY <1>3, MapSteps, ChangeTypes
  <2>2. UNCHANGED <<readers, op, shards, seen, calls>>
    BY <1>3 DEF Write, CbReturns
  <2>3. keys' \in [Threads -> SUBSET Keys]
    BY <1>3 DEF Write, CbReturns, TypeOK
  <2>4. held' \in [Threads -> Shards \cup {None}] /\ writer' \in [Shards -> Threads \cup {None}]
    BY <1>3 DEF Write, CbReturns, TypeOK
  <2> QED
    BY <2>1, <2>2, <2>3, <2>4 DEF TypeOK
<1>4. ASSUME NEW t \in Threads, NEW k \in Keys, IterKey(t, k) \/ RemoveCbLocks(t, k) \/ CbPanics(t, k)
      PROVE  TypeOK'
  <2>1. UNCHANGED <<items, readers, shards, calls, sure, maybe>>
    BY <1>4 DEF IterKey, InIterCb, RemoveCbLocks, CbPanics, mapVars
  <2>2. Pairs(items) \subseteq Keys \X Threads
    BY DEF Pairs, TypeOK
  <2>3. keys' \in [Threads -> SUBSET Keys] /\ seen' \in [Threads -> SUBSET (Keys \X Threads)]
    BY <1>4, <2>2 DEF IterKey, InIterCb, RemoveCbLocks, CbPanics, TypeOK
  <2>4. op' \in [Threads -> Ops \cup {None, "dead"}]
    BY <1>4 DEF IterKey, InIterCb, RemoveCbLocks, CbPanics, TypeOK
  <2>6. shardKeyFunc[k] \in Shards
    BY DEF Shards
  <2>5. held' \in [Threads -> Shards \cup {None}] /\ writer' \in [Shards -> Threads \cup {None}]
    BY <1>4, <2>6 DEF IterKey, InIterCb, RemoveCbLocks, CbPanics, mapVars, TypeOK
  <2> QED
    BY <2>1, <2>3, <2>4, <2>5 DEF TypeOK
<1>5. ASSUME NEW t \in Threads, NEW s \in Shards, ReadShard(t, s) \/ IterShard(t, s)
      PROVE  TypeOK'
  <2>1. UNCHANGED <<items, writer, op, calls, sure, maybe>>
    BY <1>5 DEF ReadShard, IterShard, mapVars
  <2>2. InShard(s) \subseteq Keys /\ {<<k, items[k]>> : k \in InShard(s)} \subseteq Keys \X Threads
    BY DEF InShard, TypeOK
  <2>3. shards' \in [Threads -> SUBSET Shards] /\ readers' \in [Shards -> SUBSET Threads]
        /\ held' \in [Threads -> Shards \cup {None}]
    BY <1>5 DEF ReadShard, IterShard, mapVars, TypeOK
  <2>4. keys' \in [Threads -> SUBSET Keys]
    BY <1>5, <2>2 DEF ReadShard, IterShard, TypeOK
  <2>5. seen' \in [Threads -> SUBSET (Keys \X Threads)]
    BY <1>5, <2>2 DEF ReadShard, IterShard, TypeOK
  <2> QED
    BY <2>1, <2>3, <2>4, <2>5 DEF TypeOK
<1>6. ASSUME NEW t \in Threads, IterShardEnds(t) PROVE TypeOK'
  BY <1>6 DEF IterShardEnds, TypeOK
<1>7. ASSUME NEW t \in Threads, Return(t) PROVE TypeOK'
  BY <1>7 DEF Return, mapVars, TypeOK
<1> QED
  BY <1>1, <1>2, <1>3, <1>4, <1>5, <1>6, <1>7 DEF Next, Runs, Reads

-----------------------------------------------------------------------------
(* Locks                                                                    *)

LEMMA LockStep ==
  ASSUME TypeOK, Locking, [Next]_vars
  PROVE  Locking'
<1> USE ShardAssumption
<1>1. CASE UNCHANGED vars
  BY <1>1 DEF vars, mapVars, callVars, Locking
<1>2. ASSUME NEW t \in Threads, NEW o \in Ops, NEW k \in Keys, Call(t, o, k) PROVE Locking'
  <2>1. op[t] = None /\ held[t] = None /\ \A s \in Shards : writer[s] # t /\ t \notin readers[s]
    BY <1>2 DEF Call, Locking, Ops, OneKey, InTurn, Listings, TypeOK
  <2>2. UNCHANGED <<readers, writer, held>> /\ \A u \in Threads \ {t} :
          op'[u] = op[u] /\ shards'[u] = shards[u]
    BY <1>2 DEF Call, mapVars, TypeOK
  <2> QED
    BY <2>1, <2>2 DEF Locking, TypeOK
<1>3. ASSUME NEW t \in Threads, NEW k \in Keys, Write(t, k) \/ IterKey(t, k) PROVE Locking'
  BY <1>3 DEF Write, IterKey, InIterCb, mapVars, Locking
<1>4. ASSUME NEW t \in Threads, NEW k \in Keys, RemoveCbLocks(t, k) PROVE Locking'
  <2> DEFINE s == shardKeyFunc[k]
  <2>1. s \in Shards
    BY DEF Shards
  <2>2. /\ writer[s] = None /\ readers[s] = {} /\ held[t] = None
        /\ op[t] \in {"RemoveCb", "ClearConn"}
        /\ writer' = [writer EXCEPT ![s] = t] /\ held' = [held EXCEPT ![t] = s]
        /\ UNCHANGED <<readers, op, shards>>
    BY <1>4 DEF RemoveCbLocks, WFree
  <2> HIDE DEF s
  <2>3. \A r \in Shards : writer[r] # t
    BY <2>1, <2>2 DEF Locking
  <2> QED
    BY <2>1, <2>2, <2>3 DEF Locking, TypeOK
<1>5. ASSUME NEW t \in Threads, NEW k \in Keys, NEW remove \in BOOLEAN, CbReturns(t, k, remove)
      PROVE  Locking'
  <2>1. /\ op[t] \in {"RemoveCb", "ClearConn"} /\ held[t] \in Shards
        /\ writer' = [writer EXCEPT ![held[t]] = None] /\ held' = [held EXCEPT ![t] = None]
        /\ UNCHANGED <<readers, op, shards>>
    BY <1>5 DEF CbReturns, InCb, TypeOK
  <2>2. \A r \in Shards : writer[r] = t => r = held[t]
    BY <2>1 DEF Locking
  <2>3. writer[held[t]] = t
    BY <2>1 DEF Locking
  <2> QED
    BY <2>1, <2>2, <2>3 DEF Locking, TypeOK
<1>6. ASSUME NEW t \in Threads, NEW k \in Keys, CbPanics(t, k) PROVE Locking'
  BY <1>6 DEF CbPanics, InCb, InIterCb, mapVars, Locking, TypeOK
<1>7. ASSUME NEW t \in Threads, NEW s \in Shards, ReadShard(t, s) PROVE Locking'
  <2>1. /\ op[t] # "IterCb" /\ UNCHANGED <<readers, writer, op, held>>
        /\ \A u \in Threads \ {t} : shards'[u] = shards[u]
    BY <1>7 DEF ReadShard, mapVars, TypeOK, Listings
  <2> QED
    BY <2>1 DEF Locking, TypeOK
<1>8. ASSUME NEW t \in Threads, NEW s \in Shards, IterShard(t, s) PROVE Locking'
  <2>1. /\ op[t] = "IterCb" /\ held[t] = None /\ s \in shards[t] /\ writer[s] = None
        /\ readers' = [readers EXCEPT ![s] = @ \cup {t}] /\ held' = [held EXCEPT ![t] = s]
        /\ UNCHANGED <<writer, op, shards>>
    BY <1>8 DEF IterShard, NextShard, RFree
  <2>2. \A r \in Shards : writer[r] # t
    BY <2>1 DEF Locking
  <2> QED
    BY <2>1, <2>2 DEF Locking, TypeOK
<1>9. ASSUME NEW t \in Threads, IterShardEnds(t) PROVE Locking'
  <2>1. /\ op[t] = "IterCb" /\ held[t] \in Shards
        /\ readers' = [readers EXCEPT ![held[t]] = @ \ {t}] /\ held' = [held EXCEPT ![t] = None]
        /\ UNCHANGED <<writer, op>> /\ \A u \in Threads \ {t} : shards'[u] = shards[u]
    BY <1>9 DEF IterShardEnds, TypeOK
  <2>2. \A r \in Shards : writer[r] # t
    BY <2>1 DEF Locking
  <2>3. \A r \in Shards : t \in readers[r] => r = held[t]
    BY <2>1 DEF Locking
  <2> QED
    BY <2>1, <2>2, <2>3 DEF Locking, TypeOK
<1>10. ASSUME NEW t \in Threads, Return(t) PROVE Locking'
  <2>1. held[t] = None /\ UNCHANGED <<readers, writer, held, shards>>
        /\ \A u \in Threads \ {t} : op'[u] = op[u]
    BY <1>10 DEF Return, Done, mapVars, TypeOK
  <2>2. \A s \in Shards : writer[s] # t /\ t \notin readers[s]
    BY <2>1 DEF Locking
  <2> QED
    BY <2>1, <2>2 DEF Locking, TypeOK
<1> QED
  BY <1>1, <1>2, <1>3, <1>4, <1>5, <1>6, <1>7, <1>8, <1>9, <1>10 DEF Next, Runs, Reads

-----------------------------------------------------------------------------
(* Listings                                                                 *)

\* The map changes under a listing: keys that go are no longer sure, pairs that
\* come may have been seen.
LEMMA ChangeListing ==
  ASSUME TypeOK, NEW t \in Threads, NEW k \in Keys, Changes(t, k),
         NEW u \in Threads, Visits(op[u]), Listing(u), UNCHANGED <<shards, seen, op>>,
         op[u] = "IterCb" => held'[u] = held[u]
  PROVE  Listing(u)'
<1>1. CASE Same
  BY <1>1 DEF Same, Listing, Pairs
<1>2. ASSUME NEW m, Becomes(m) PROVE Listing(u)'
  <2>1. items' = m /\ sure'[u] = sure[u] \cap DOMAIN m /\ maybe'[u] = maybe[u] \cup Pairs(m)
    BY <1>2 DEF Becomes, TypeOK
  <2>2. Pairs(items)' = Pairs(m)
    BY <2>1 DEF Pairs
  <2> QED
    BY <2>1, <2>2 DEF Listing
<1> QED
  BY <1>1, <1>2 DEF Changes, Put, Delete

\* The map has the same value for j after a step.
SameAt(j) ==
  /\ j \in DOMAIN items <=> j \in DOMAIN items'
  /\ j \in DOMAIN items => items'[j] = items[j]

\* The shard of a thread in IterCb does not change.
LEMMA ShardStands ==
  ASSUME TypeOK, Locking, NEW t \in Threads, NEW k \in Keys,
         Write(t, k) \/ \E remove \in BOOLEAN : CbReturns(t, k, remove),
         NEW u \in Threads, op[u] = "IterCb", held[u] # None
  PROVE  /\ t # u /\ shardKeyFunc[k] # held[u]
         /\ \A j \in Keys : shardKeyFunc[j] = held[u] => SameAt(j)
<1>1. u \in readers[held[u]] /\ held[u] \in Shards /\ writer[held[u]] = None
  BY ShardAssumption DEF Locking, TypeOK
<1>2. t # u /\ shardKeyFunc[k] # held[u]
  <2>1. CASE Write(t, k)
    BY <1>1, <2>1 DEF Write, WFree
  <2>2. CASE \E remove \in BOOLEAN : CbReturns(t, k, remove)
    <3>1. op[t] \in {"RemoveCb", "ClearConn"} /\ held[t] # None /\ shardKeyFunc[k] = held[t]
      BY <2>2 DEF CbReturns, InCb
    <3>2. writer[held[t]] = t
      BY <3>1 DEF Locking
    <3> QED
      BY <1>1, <3>1, <3>2, ShardAssumption
  <2> QED
    BY <2>1, <2>2
<1>3. Changes(t, k)
  BY MapSteps
<1>4. \A j \in Keys : j # k => SameAt(j)
  BY <1>3 DEF Changes, Put, Delete, Same, Becomes, SameAt
<1> QED
  BY <1>2, <1>4

Stable(t) ==
  op[t] = "IterCb" /\ held[t] # None =>
    {p \in seen[t] : shardKeyFunc[p[1]] = held[t]} =
    {p \in Pairs(items) : shardKeyFunc[p[1]] = held[t] /\ p[1] \notin keys[t]}

\* A thread is not disturbed by what others do.
LEMMA OthersKeep ==
  ASSUME IInv, NEW u \in Threads, UNCHANGED <<items, sure[u], maybe[u]>>,
         UNCHANGED <<op[u], shards[u], seen[u], held[u], keys[u]>>
  PROVE  (Visits(op[u]) => Listing(u))' /\ Stable(u)'
BY DEF IInv, Listed, Listing, Pairs, ShardIsStable, Stable

\* Nor by what they do to the map.
LEMMA ChangesKeep ==
  ASSUME IInv, NEW t \in Threads, NEW k \in Keys,
         Write(t, k) \/ \E remove \in BOOLEAN : CbReturns(t, k, remove),
         NEW u \in Threads
  PROVE  (Visits(op[u]) => Listing(u))' /\ Stable(u)'
<1>1. /\ UNCHANGED <<op, shards, seen>> /\ Changes(t, k)
      /\ op[t] # "IterCb" /\ (u # t => held'[u] = held[u] /\ keys'[u] = keys[u])
  <2>1. /\ UNCHANGED <<op, shards, seen>> /\ op[t] # "IterCb"
        /\ (u # t => held'[u] = held[u] /\ keys'[u] = keys[u])
    BY DEF Write, CbReturns, InCb, IInv, TypeOK
  <2> QED
    BY <2>1, MapSteps
<1>2. (Visits(op[u]) => Listing(u))'
  <2> SUFFICES ASSUME Visits(op[u]) PROVE Listing(u)'
    BY <1>1 DEF Visits
  <2> QED
    BY <1>1, ChangeListing DEF IInv, Listed
<1>3. Stable(u)'
  <2> SUFFICES ASSUME op[u] = "IterCb", held'[u] # None PROVE Stable(u)'
    BY <1>1 DEF Stable
  <2>1. u # t /\ held'[u] = held[u] /\ keys'[u] = keys[u]
    BY <1>1
  <2>2. \A j \in Keys : shardKeyFunc[j] = held[u] => SameAt(j)
    BY <2>1, ShardStands DEF IInv
  <2>3. DOMAIN items \subseteq Keys /\ DOMAIN items' \subseteq Keys
    <3>1. TypeOK
      BY DEF IInv
    <3> QED
      BY <1>1, <3>1, ChangeTypes DEF TypeOK
  <2>4. \A p : p \in Pairs(items)' /\ shardKeyFunc[p[1]] = held[u]
            <=> p \in Pairs(items) /\ shardKeyFunc[p[1]] = held[u]
    BY <2>2, <2>3 DEF Pairs, SameAt
  <2>5. Stable(u)
    BY DEF IInv, ShardIsStable, Stable
  <2> QED
    BY <1>1, <2>1, <2>4, <2>5 DEF Stable
<1> QED
  BY <1>2, <1>3

LEMMA InTheShardStep ==
  ASSUME TypeOK, InTheShard, Locking, [Next]_vars
  PROVE  InTheShard'
<1>1. CASE UNCHANGED vars
  BY <1>1 DEF vars, mapVars, callVars, InTheShard
<1>2. ASSUME NEW t \in Threads, NEW o \in Ops, NEW k \in Keys, Call(t, o, k) PROVE InTheShard'
  <2>1. held[t] = None
    BY <1>2, ShardAssumption DEF Call, Locking, Ops, OneKey, InTurn, Listings
  <2>2. held' = held /\ \A u \in Threads \ {t} : op'[u] = op[u] /\ keys'[u] = keys[u]
    BY <1>2 DEF Call, TypeOK
  <2> QED
    BY <2>1, <2>2 DEF InTheShard
<1>3. ASSUME NEW t \in Threads, NEW k \in Keys,
             \/ Write(t, k) \/ IterKey(t, k) \/ CbPanics(t, k)
      PROVE  InTheShard'
  BY <1>3 DEF Write, IterKey, CbPanics, InCb, InIterCb, InTheShard, TypeOK
<1>4. ASSUME NEW t \in Threads, NEW k \in Keys,
             RemoveCbLocks(t, k) \/ \E remove \in BOOLEAN : CbReturns(t, k, remove)
      PROVE  InTheShard'
  <2>1. /\ op[t] # "IterCb" /\ op' = op
        /\ \A u \in Threads \ {t} : held'[u] = held[u] /\ keys'[u] = keys[u]
    BY <1>4 DEF RemoveCbLocks, CbReturns, InCb, TypeOK
  <2> QED
    BY <2>1 DEF InTheShard
<1>5. ASSUME NEW t \in Threads, NEW s \in Shards, ReadShard(t, s) PROVE InTheShard'
  <2>1. /\ op[t] # "IterCb" /\ op' = op /\ held' = held
        /\ \A u \in Threads \ {t} : keys'[u] = keys[u]
    BY <1>5 DEF ReadShard, TypeOK, Listings
  <2> QED
    BY <2>1 DEF InTheShard
<1>6. ASSUME NEW t \in Threads, NEW s \in Shards, IterShard(t, s) PROVE InTheShard'
  BY <1>6 DEF IterShard, InShard, InTheShard, TypeOK
<1>7. ASSUME NEW t \in Threads, IterShardEnds(t) \/ Return(t) PROVE InTheShard'
  <2>1. /\ op'[t] # "IterCb" \/ held'[t] = None
        /\ \A u \in Threads \ {t} :
             op'[u] = op[u] /\ held'[u] = held[u] /\ keys'[u] = keys[u]
    BY <1>7, ShardAssumption DEF IterShardEnds, Return, Done, TypeOK
  <2> QED
    BY <1>7, <2>1 DEF InTheShard
<1> QED
  BY <1>1, <1>2, <1>3, <1>4, <1>5, <1>6, <1>7 DEF Next, Runs, Reads

\* What a thread's own step does to what it has listed.
LEMMA OwnStep ==
  ASSUME IInv, TypeOK', NEW t \in Threads,
         \/ \E o \in Ops, k \in Keys : Call(t, o, k)
         \/ \E k \in Keys : IterKey(t, k) \/ RemoveCbLocks(t, k) \/ CbPanics(t, k)
         \/ \E s \in Shards : ReadShard(t, s) \/ IterShard(t, s)
         \/ IterShardEnds(t) \/ Return(t)
  PROVE  (Visits(op[t]) => Listing(t))' /\ Stable(t)'
<1> USE ShardAssumption
<1>1. TypeOK /\ Locking /\ (Visits(op[t]) => Listing(t)) /\ Stable(t)
      /\ (op[t] = "IterCb" /\ held[t] # None => \A k \in keys[t] : shardKeyFunc[k] = held[t])
  BY DEF IInv, Listed, ShardIsStable, Stable, InTheShard
<1>2. op[t] = "IterCb" => Visits(op[t])
  BY DEF Visits, InTurn
<1>3. DOMAIN items \subseteq Keys /\ \A k \in Keys : shardKeyFunc[k] \in Shards
  BY <1>1 DEF TypeOK, Shards
<1>4. ASSUME NEW o \in Ops, NEW k \in Keys, Call(t, o, k)
      PROVE  (Visits(op[t]) => Listing(t))' /\ Stable(t)'
  <2>1. held'[t] = None
    BY <1>1, <1>4 DEF Call, Locking, Ops, OneKey, InTurn, Listings
  <2>2. /\ op'[t] = o /\ items' = items /\ seen'[t] = {}
        /\ Visits(o) => sure'[t] = DOMAIN items /\ maybe'[t] = Pairs(items) /\ shards'[t] = Shards
    BY <1>1, <1>4 DEF Call, mapVars, TypeOK
  <2> QED
    BY <1>3, <2>1, <2>2 DEF Listing, Stable, Pairs
<1>5. ASSUME NEW k \in Keys, IterKey(t, k)
      PROVE  (Visits(op[t]) => Listing(t))' /\ Stable(t)'
  <2>1. /\ op[t] = "IterCb" /\ held[t] # None /\ shardKeyFunc[k] = held[t]
        /\ seen'[t] = seen[t] \cup {p \in Pairs(items) : p[1] = k}
        /\ keys'[t] = keys[t] \ {k}
        /\ UNCHANGED <<items, op, shards, held, sure, maybe>>
    BY <1>1, <1>5 DEF IterKey, InIterCb, mapVars, TypeOK
  <2>2. Listing(t)
    BY <1>1, <1>2, <2>1
  <2>3. Listing(t)'
    BY <2>1, <2>2 DEF Listing, Pairs
  <2>4. Stable(t)'
    BY <1>1, <2>1 DEF Stable, Pairs
  <2> QED
    BY <2>3, <2>4
<1>6. ASSUME NEW k \in Keys, RemoveCbLocks(t, k)
      PROVE  (Visits(op[t]) => Listing(t))' /\ Stable(t)'
  <2>1. op[t] # "IterCb" /\ UNCHANGED <<items, op, shards, seen, sure, maybe>>
    BY <1>6 DEF RemoveCbLocks
  <2> QED
    BY <1>1, <2>1 DEF Listing, Stable, Pairs
<1>7. ASSUME NEW k \in Keys, CbPanics(t, k)
      PROVE  (Visits(op[t]) => Listing(t))' /\ Stable(t)'
  <2>1. op'[t] = "dead"
    BY <1>1, <1>7 DEF CbPanics, TypeOK
  <2> QED
    BY <2>1 DEF Visits, InTurn, Listings, Stable
<1>8. ASSUME NEW s \in Shards, ReadShard(t, s)
      PROVE  (Visits(op[t]) => Listing(t))' /\ Stable(t)'
  <2>1. /\ op[t] # "IterCb" /\ Visits(op[t]) /\ shards'[t] = shards[t] \ {s}
        /\ seen'[t] = seen[t] \cup {<<k, items[k]>> : k \in InShard(s)}
        /\ UNCHANGED <<items, op, sure, maybe>>
    BY <1>1, <1>8 DEF ReadShard, mapVars, Listings, Visits, InTurn, TypeOK
  <2>2. Listing(t)
    BY <1>1, <2>1
  <2>3. {<<k, items[k]>> : k \in InShard(s)} \subseteq maybe[t]
    BY <2>2 DEF Listing, Pairs, InShard
  <2>4. ASSUME NEW k \in sure[t], shardKeyFunc[k] \notin shards'[t]
        PROVE  \E p \in seen'[t] : p[1] = k
    <3>1. CASE shardKeyFunc[k] = s
      <4>1. k \in InShard(s)
        BY <2>2, <3>1 DEF Listing, InShard
      <4>2. <<k, items[k]>> \in seen'[t]
        BY <2>1, <4>1
      <4> QED
        BY <4>2
    <3>2. CASE shardKeyFunc[k] # s
      BY <2>1, <2>2, <2>4, <3>2 DEF Listing
    <3> QED
      BY <3>1, <3>2
  <2>5. Pairs(items)' = Pairs(items)
    BY <2>1 DEF Pairs
  <2>6. Listing(t)'
    BY <2>1, <2>2, <2>3, <2>4, <2>5 DEF Listing
  <2> QED
    BY <2>1, <2>6 DEF Stable
<1>9. ASSUME NEW s \in Shards, IterShard(t, s)
      PROVE  (Visits(op[t]) => Listing(t))' /\ Stable(t)'
  <2>1. /\ op[t] = "IterCb" /\ held[t] = None /\ s \in shards[t] /\ s # None
        /\ held'[t] = s /\ keys'[t] = InShard(s)
        /\ UNCHANGED <<items, op, shards, seen, sure, maybe>>
    BY <1>1, <1>9 DEF IterShard, NextShard, TypeOK
  <2>2. Listing(t)
    BY <1>1, <1>2, <2>1
  <2>3. \A p \in seen[t] : shardKeyFunc[p[1]] \notin shards[t]
    <3>1. None \notin shards[t]
      BY <1>1 DEF TypeOK
    <3> QED
      BY <2>1, <2>2, <3>1 DEF Listing
  <2>4. Listing(t)'
    BY <2>1, <2>2, <2>3 DEF Listing, Pairs
  <2>5. Stable(t)'
    BY <2>1, <2>3 DEF Stable, Pairs, InShard
  <2> QED
    BY <2>4, <2>5
<1>10. CASE IterShardEnds(t)
  <2>1. /\ op[t] = "IterCb" /\ held[t] # None /\ keys[t] = {}
        /\ shards'[t] = shards[t] \ {held[t]} /\ held'[t] = None
        /\ UNCHANGED <<items, op, seen, sure, maybe>>
    BY <1>1, <1>10 DEF IterShardEnds, TypeOK
  <2>2. Listing(t)
    BY <1>1, <1>2, <2>1
  <2>3. ASSUME NEW k \in sure[t], shardKeyFunc[k] \notin shards'[t]
        PROVE  \E p \in seen[t] : p[1] = k
    <3>1. CASE shardKeyFunc[k] = held[t]
      <4>1. <<k, items[k]>> \in Pairs(items)
        BY <2>2 DEF Listing, Pairs
      <4>2. <<k, items[k]>> \in seen[t]
        BY <1>1, <2>1, <3>1, <4>1 DEF Stable
      <4> QED
        BY <4>2
    <3>2. CASE shardKeyFunc[k] # held[t]
      BY <2>1, <2>2, <2>3, <3>2 DEF Listing
    <3> QED
      BY <3>1, <3>2
  <2>4. Listing(t)'
    BY <2>1, <2>2, <2>3 DEF Listing, Pairs
  <2> QED
    BY <2>1, <2>4 DEF Stable
<1>11. CASE Return(t)
  <2>1. op'[t] = None
    BY <1>1, <1>11 DEF Return, TypeOK
  <2> QED
    BY <2>1 DEF Visits, InTurn, Listings, Ops, OneKey, Stable
<1> QED
  BY <1>4, <1>5, <1>6, <1>7, <1>8, <1>9, <1>10, <1>11

\* What a step does, as seen by a thread of the map.
LEMMA ThreadStep ==
  ASSUME IInv, TypeOK', [Next]_vars, NEW u \in Threads
  PROVE  (Visits(op[u]) => Listing(u))' /\ Stable(u)'
<1>1. CASE UNCHANGED vars
  BY <1>1, OthersKeep DEF vars, mapVars, callVars
<1>2. ASSUME NEW t \in Threads, NEW k \in Keys,
             Write(t, k) \/ \E remove \in BOOLEAN : CbReturns(t, k, remove)
      PROVE  (Visits(op[u]) => Listing(u))' /\ Stable(u)'
  BY <1>2, ChangesKeep
<1>3. ASSUME NEW t \in Threads,
             \/ \E o \in Ops, k \in Keys : Call(t, o, k)
             \/ \E k \in Keys : IterKey(t, k) \/ RemoveCbLocks(t, k) \/ CbPanics(t, k)
             \/ \E s \in Shards : ReadShard(t, s) \/ IterShard(t, s)
             \/ IterShardEnds(t) \/ Return(t)
      PROVE  (Visits(op[u]) => Listing(u))' /\ Stable(u)'
  <2>1. CASE t = u
    BY <1>3, <2>1, OwnStep
  <2>2. CASE t # u
    <3>1. items' = items /\ sure'[u] = sure[u] /\ maybe'[u] = maybe[u]
      BY <1>3, <2>2 DEF Call, IterKey, InIterCb, RemoveCbLocks, CbPanics, ReadShard, IterShard,
                        IterShardEnds, Return, mapVars, IInv, TypeOK
    <3>2. op'[u] = op[u] /\ shards'[u] = shards[u] /\ seen'[u] = seen[u]
      BY <1>3, <2>2 DEF Call, IterKey, InIterCb, RemoveCbLocks, CbPanics, ReadShard, IterShard,
                        IterShardEnds, Return, mapVars, IInv, TypeOK
    <3>3. held'[u] = held[u] /\ keys'[u] = keys[u]
      BY <1>3, <2>2 DEF Call, IterKey, InIterCb, RemoveCbLocks, CbPanics, ReadShard, IterShard,
                        IterShardEnds, Return, mapVars, IInv, TypeOK
    <3> QED
      BY <3>1, <3>2, <3>3, OthersKeep
  <2> QED
    BY <2>1, <2>2
<1> QED
  BY <1>1, <1>2, <1>3 DEF Next, Runs, Reads

-----------------------------------------------------------------------------
(* The theorems                                                             *)

LEMMA InitInv == Init => IInv
<1> SUFFICES ASSUME Init PROVE IInv
  OBVIOUS
<1> USE ShardAssumption
<1>1. TypeOK
  BY DEF Init, TypeOK
<1>2. Locking
  BY DEF Init, Locking
<1>3. \A t \in Threads : ~Visits(op[t]) /\ op[t] # "IterCb"
  BY DEF Init, Visits, Ops, InTurn, Listings
<1> QED
  BY <1>1, <1>2, <1>3 DEF IInv, Listed, InTheShard, ShardIsStable

LEMMA StepInv == IInv /\ [Next]_vars => IInv'
<1> SUFFICES ASSUME IInv, [Next]_vars PROVE IInv'
  OBVIOUS
<1>1. TypeOK'
  BY TypeStep DEF IInv
<1>2. Locking' /\ InTheShard'
  BY LockStep, InTheShardStep DEF IInv
<1>3. \A u \in Threads : (Visits(op[u]) => Listing(u))' /\ Stable(u)'
  BY <1>1, ThreadStep
<1>4. Listed' /\ ShardIsStable'
  BY <1>3 DEF Listed, ShardIsStable, Stable
<1> QED
  BY <1>1, <1>2, <1>4 DEF IInv

\* The inductive invariant: who holds which lock, what a listing has seen of the
\* map it goes over, and that a shard in a callback stands still.
THEOREM Invariance == Spec => []IInv
BY InitInv, StepInv, PTL DEF Spec

\* The map, its locks and the calls keep their types (ShardLockMap).
THEOREM TypeCorrect == Spec => []TypeOK
BY Invariance, PTL DEF IInv

\* A listing has every key that stays and nothing that never was, however the
\* map changes under it (snapshot, Keys, Count, IterCb).
THEOREM ListingsHold == Spec => []ListingHolds
<1>1. IInv => ListingHolds
  BY DEF IInv, Listed, Listing, ListingHolds
<1> QED
  BY <1>1, Invariance, PTL

\* The callbacks of IterCb see a shard as it was at the first of them (IterCb).
THEOREM ShardStable == Spec => []ShardIsStable
BY Invariance, PTL DEF IInv
=============================================================================
