------------------------------- MODULE ShardMap -------------------------------
(***************************************************************************)
(* The sharded map of zinx (zutils/shard_lock_map.go) and the connection   *)
(* manager on top of it (znet/connmanager.go): Add is Set, Len is Count,   *)
(* GetAllConnID is Keys, Range is IterCb, and ClearConn calls RemoveCb for *)
(* every item of IterBuffered.                                             *)
(*                                                                         *)
(* Every shard has a lock of many readers or one writer.  What runs to its *)
(* end under the lock of one shard is one step; a callback is the user's   *)
(* code, so IterCb and RemoveCb keep their lock over several steps.        *)
(* Callbacks do not call the map.  A value is the thread that set it.      *)
(*                                                                         *)
(* A definition named X_Word is X with one mistake in it; no action uses   *)
(* it.  Each one shows that a property of the run can fail.                *)
(***************************************************************************)
EXTENDS Integers, FiniteSets

CONSTANTS
  Threads, Keys,
  ShardCount,     \* number of shards
  shardKeyFunc,   \* key |-> shard
  None,           \* no thread, no shard, no operation
  CbMayPanic,     \* the callbacks of RemoveCb and IterCb may panic
  MaxCalls        \* bound: calls in all

Shards == 0..(ShardCount - 1)

\* Of one key; over the keys one by one; over the shards in their order; over
\* the shards by a goroutine each, and what is then done with the keys found.
OneKey   == {"Set", "SetNX", "Remove", "Pop", "RemoveCb"}
InTurn   == {"Count", "IterCb"}
Listings == {"Items", "Keys", "Clear", "ClearConn"}
Ops      == OneKey \cup {"MSet"} \cup InTurn \cup Listings
Visits(o) == o \in InTurn \cup Listings

ASSUME ShardAssumption ==
  /\ ShardCount \in Nat \ {0} /\ MaxCalls \in Nat /\ CbMayPanic \in BOOLEAN
  /\ None \notin Threads /\ None \notin Shards /\ None \notin Ops \cup {"dead"}
  /\ shardKeyFunc \in [Keys -> 0..(ShardCount - 1)]

VARIABLES
  items,            \* the keys in the map |-> their values
  readers, writer,  \* per shard: who holds its RWMutex
  op,               \* per thread: the operation it is in, or None
  keys, shards,     \* per thread: the keys and the shards it has yet to visit
  held,             \* per thread: the shard it holds the lock of in a callback
  seen,             \* per thread: the key-value pairs it found
  calls,
  sure, maybe       \* history, per thread: the keys that were in the map all
                    \* the time since its listing began, the pairs that were
                    \* there at some time

mapVars  == <<items, readers, writer>>
callVars == <<op, keys, shards, held, seen, calls>>
vars == <<mapVars, callVars, sure, maybe>>

Pairs(m) == {<<k, m[k]>> : k \in DOMAIN m}
InShard(s) == {k \in DOMAIN items : shardKeyFunc[k] = s}

TypeOK ==
  /\ DOMAIN items \subseteq Keys /\ \A k \in DOMAIN items : items[k] \in Threads
  /\ readers \in [Shards -> SUBSET Threads] /\ writer \in [Shards -> Threads \cup {None}]
  /\ op \in [Threads -> Ops \cup {None, "dead"}]
  /\ keys \in [Threads -> SUBSET Keys] /\ shards \in [Threads -> SUBSET Shards]
  /\ held \in [Threads -> Shards \cup {None}]
  /\ seen \in [Threads -> SUBSET (Keys \X Threads)] /\ calls \in 0..MaxCalls
  /\ sure \in [Threads -> SUBSET Keys] /\ maybe \in [Threads -> SUBSET (Keys \X Threads)]

Init ==
  /\ items = [k \in {} |-> k]
  /\ readers = [s \in Shards |-> {}] /\ writer = [s \in Shards |-> None]
  /\ op = [t \in Threads |-> None]
  /\ keys = [t \in Threads |-> {}] /\ shards = [t \in Threads |-> {}]
  /\ held = [t \in Threads |-> None] /\ seen = [t \in Threads |-> {}]
  /\ calls = 0
  /\ sure = [t \in Threads |-> {}] /\ maybe = [t \in Threads |-> {}]

-----------------------------------------------------------------------------
(* Locks and the history                                                    *)

RFree(s) == writer[s] = None
WFree_Shared(s) == writer[s] = None
WFree(s) == writer[s] = None /\ readers[s] = {}

\* The map becomes m.
Becomes(m) ==
  /\ items' = m
  /\ sure'  = [t \in Threads |-> sure[t] \cap DOMAIN m]
  /\ maybe' = [t \in Threads |-> IF Visits(op[t]) THEN maybe[t] \cup Pairs(m) ELSE {}]

Put(k, v) == Becomes([j \in DOMAIN items \cup {k} |-> IF j = k THEN v ELSE items[j]])
Delete(k) == Becomes([j \in DOMAIN items \ {k} |-> items[j]])
Same      == UNCHANGED <<items, sure, maybe>>

-----------------------------------------------------------------------------
(* Operations                                                               *)

\* A thread calls o, with the key k where o takes one.
Call(t, o, k) ==
  /\ op[t] = None /\ calls < MaxCalls
  /\ op' = [op EXCEPT ![t] = o] /\ calls' = calls + 1
  /\ keys' = [keys EXCEPT ![t] = CASE o \in OneKey -> {k}
                                   [] o = "MSet" -> Keys
                                   [] OTHER -> {}]
  /\ shards' = [shards EXCEPT ![t] = IF Visits(o) THEN Shards ELSE {}]
  /\ seen' = [seen EXCEPT ![t] = {}]
  /\ sure' = [sure EXCEPT ![t] = IF Visits(o) THEN DOMAIN items ELSE {}]
  /\ maybe' = [maybe EXCEPT ![t] = IF Visits(o) THEN Pairs(items) ELSE {}]
  /\ UNCHANGED <<mapVars, held>>

\* The body of an operation on the key k, under the write lock of its shard.
Update(t, k) ==
  CASE op[t] \in {"Set", "MSet"} -> Put(k, t)
    [] op[t] = "SetNX" -> IF k \in DOMAIN items THEN Same ELSE Put(k, t)
    [] OTHER -> Delete(k)

Write(t, k) ==
  /\ op[t] \in {"Set", "SetNX", "MSet", "Remove", "Pop", "Clear"} /\ shards[t] = {}
  /\ k \in keys[t] /\ WFree(shardKeyFunc[k])
  /\ Update(t, k)
  /\ keys' = [keys EXCEPT ![t] = @ \ {k}]
  /\ UNCHANGED <<readers, writer, op, shards, held, seen, calls>>

NextShard(t, s) ==
  s \in shards[t] /\ (op[t] \in InTurn => \A r \in shards[t] : s <= r)

ReadShard_Short(t, s) ==
  /\ op[t] \in Listings \cup {"Count"} /\ NextShard(t, s) /\ RFree(s)
  /\ shards' = [shards EXCEPT ![t] = IF Cardinality(@) = 2 THEN {} ELSE @ \ {s}]
  /\ seen' = [seen EXCEPT ![t] = @ \cup {<<k, items[k]>> : k \in InShard(s)}]
  /\ keys' = [keys EXCEPT ![t] = IF op[t] \in {"Clear", "ClearConn"}
                                   THEN @ \cup InShard(s) ELSE {}]
  /\ UNCHANGED <<mapVars, op, held, calls, sure, maybe>>

\* Count, snapshot and Keys read a whole shard under its read lock.
ReadShard(t, s) ==
  /\ op[t] \in Listings \cup {"Count"} /\ NextShard(t, s) /\ RFree(s)
  /\ shards' = [shards EXCEPT ![t] = @ \ {s}]
  /\ seen' = [seen EXCEPT ![t] = @ \cup {<<k, items[k]>> : k \in InShard(s)}]
  /\ keys' = [keys EXCEPT ![t] = IF op[t] \in {"Clear", "ClearConn"}
                                   THEN @ \cup InShard(s) ELSE {}]
  /\ UNCHANGED <<mapVars, op, held, calls, sure, maybe>>

\* IterCb: RLock, the callback for every key, RUnlock.
IterShard(t, s) ==
  /\ op[t] = "IterCb" /\ held[t] = None /\ NextShard(t, s) /\ RFree(s)
  /\ readers' = [readers EXCEPT ![s] = @ \cup {t}]
  /\ held' = [held EXCEPT ![t] = s] /\ keys' = [keys EXCEPT ![t] = InShard(s)]
  /\ UNCHANGED <<items, writer, op, shards, seen, calls, sure, maybe>>

InIterCb(t, k) == op[t] = "IterCb" /\ held[t] # None /\ k \in keys[t]

IterKey(t, k) ==
  /\ InIterCb(t, k)
  /\ keys' = [keys EXCEPT ![t] = @ \ {k}]
  /\ seen' = [seen EXCEPT ![t] = @ \cup {p \in Pairs(items) : p[1] = k}]
  /\ UNCHANGED <<mapVars, op, shards, held, calls, sure, maybe>>

IterShardEnds(t) ==
  /\ op[t] = "IterCb" /\ held[t] # None /\ keys[t] = {}
  /\ readers' = [readers EXCEPT ![held[t]] = @ \ {t}]
  /\ shards' = [shards EXCEPT ![t] = @ \ {held[t]}]
  /\ held' = [held EXCEPT ![t] = None]
  /\ UNCHANGED <<items, writer, op, keys, seen, calls, sure, maybe>>

\* RemoveCb: Lock, the callback.
RemoveCbLocks(t, k) ==
  /\ op[t] \in {"RemoveCb", "ClearConn"} /\ shards[t] = {} /\ held[t] = None
  /\ k \in keys[t] /\ WFree(shardKeyFunc[k])
  /\ writer' = [writer EXCEPT ![shardKeyFunc[k]] = t]
  /\ held' = [held EXCEPT ![t] = shardKeyFunc[k]]
  /\ UNCHANGED <<items, readers, op, keys, shards, seen, calls, sure, maybe>>

InCb(t, k) ==
  /\ op[t] \in {"RemoveCb", "ClearConn"} /\ held[t] # None
  /\ k \in keys[t] /\ shardKeyFunc[k] = held[t]

\* The callback of ClearConn stops the connection, and asks to remove it, if
\* there is one; a user's callback asks for what it likes.
StopCb(t, k, remove) == op[t] = "ClearConn" => remove = (k \in DOMAIN items)

CbReturns_KeepsLock(t, k, remove) ==
  /\ InCb(t, k) /\ StopCb(t, k, remove)
  /\ IF remove /\ k \in DOMAIN items THEN Delete(k) ELSE Same
  /\ writer' = [writer EXCEPT ![held[t]] = IF remove THEN None ELSE @]
  /\ held' = [held EXCEPT ![t] = None] /\ keys' = [keys EXCEPT ![t] = @ \ {k}]
  /\ UNCHANGED <<readers, op, shards, seen, calls>>

\* The callback returns remove.  The key goes if it is there; Unlock.
CbReturns(t, k, remove) ==
  /\ InCb(t, k) /\ StopCb(t, k, remove)
  /\ IF remove /\ k \in DOMAIN items THEN Delete(k) ELSE Same
  /\ writer' = [writer EXCEPT ![held[t]] = None]
  /\ held' = [held EXCEPT ![t] = None] /\ keys' = [keys EXCEPT ![t] = @ \ {k}]
  /\ UNCHANGED <<readers, op, shards, seen, calls>>

\* Neither RemoveCb nor IterCb unlocks in a defer: the shard stays locked, for
\* everybody or for the writers.
CbPanics(t, k) ==
  /\ CbMayPanic /\ (InCb(t, k) \/ InIterCb(t, k))
  /\ op' = [op EXCEPT ![t] = "dead"]
  /\ UNCHANGED <<mapVars, keys, shards, held, seen, calls, sure, maybe>>

Done(t) == op[t] \in Ops /\ keys[t] = {} /\ shards[t] = {} /\ held[t] = None

Return(t) ==
  /\ Done(t) /\ op' = [op EXCEPT ![t] = None]
  /\ seen' = [seen EXCEPT ![t] = {}] /\ sure' = [sure EXCEPT ![t] = {}]
  /\ maybe' = [maybe EXCEPT ![t] = {}]
  /\ UNCHANGED <<mapVars, keys, shards, held, calls>>

Runs(t) ==
  \/ \E k \in Keys : Write(t, k) \/ IterKey(t, k) \/ RemoveCbLocks(t, k)
  \/ \E k \in Keys, remove \in BOOLEAN : CbReturns(t, k, remove)
  \/ IterShardEnds(t) \/ Return(t)

Reads(t, s) == ReadShard(t, s) \/ IterShard(t, s)

Next ==
  \E t \in Threads :
    \/ \E o \in Ops, k \in Keys : Call(t, o, k)
    \/ Runs(t) \/ \E s \in Shards : Reads(t, s)
    \/ \E k \in Keys : CbPanics(t, k)

Spec == Init /\ [][Next]_vars

\* A call that panicked still holds the lock of s.
Broken(s) ==
  \E t \in Threads : op[t] = "dead" /\ (t \in readers[s] \/ writer[s] = t)

\* The scheduler runs every thread, callbacks return, and an RWMutex does not
\* pass over a waiting thread for ever; but next to a reader that is dead it lets
\* no other in once a writer waits.
FairSpec ==
  Spec /\ \A t \in Threads :
            SF_vars(Runs(t) \/ \E s \in Shards : ~Broken(s) /\ Reads(t, s))

-----------------------------------------------------------------------------
(* Properties                                                               *)

\* What a listing reports is no state of the map at any one time, but every key
\* that was there all the while is in it, with a value it had, and nothing is
\* that never was; so too the number of Count and the keys of Range (snapshot,
\* Keys, Count, IterCb).
ListingHolds ==
  \A t \in Threads : Visits(op[t]) /\ shards[t] = {} =>
    /\ seen[t] \subseteq maybe[t]
    /\ \A k \in sure[t] : \E p \in seen[t] : p[1] = k

\* While IterCb is in a shard, the callbacks see it as it was at the first: what
\* was seen of it is what is there (IterCb: a consistent view of the shard).
ShardIsStable ==
  \A t \in Threads : op[t] = "IterCb" /\ held[t] # None =>
    {p \in seen[t] : shardKeyFunc[p[1]] = held[t]} =
    {p \in Pairs(items) : shardKeyFunc[p[1]] = held[t] /\ p[1] \notin keys[t]}

\* Every call returns, unless a callback panicked under the lock of RemoveCb or of
\* IterCb: then that shard stays locked, the calls that need it may wait for ever,
\* and the others still return.
Waits(t) ==
  \/ \E k \in keys[t] : Broken(shardKeyFunc[k])
  \/ \E s \in shards[t] : Broken(s)
Returns == \A t \in Threads : op[t] \in Ops ~> op[t] = None \/ op[t] = "dead" \/ Waits(t)
=============================================================================
