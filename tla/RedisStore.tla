----------------------------- MODULE RedisStore -----------------------------
(***************************************************************************)
(* RedisStore behind ShardedRedisStore: a batch of operations becomes a    *)
(* pipeline of commands for each shard, executed one by one between those  *)
(* of other replicas (transaction=False).  Redis keeps [key, member, val]  *)
(* and one expiry per key; a key without members does not exist.           *)
(***************************************************************************)
EXTENDS Integers, Sequences, FiniteSets

CONSTANTS
    Replicas,
    Script,     \* replica -> the batches it will send, each a sequence of operations
    Shard,      \* key -> the shard that holds it (_shard_of)
    Ttl, Cap,
    MaxTime, MaxCuts    \* bounds
CONSTANT KindOf(_)

NoIdx == ""     \* an operation that keeps no index

\* What the constants are; assumed where they get their values.
RedisStoreAssumption ==
    /\ {Ttl, Cap} \subseteq Nat \ {0} /\ {MaxTime, MaxCuts} \subseteq Nat
    /\ \A k \in DOMAIN Shard : Shard[k] \in {0, 1}

VARIABLES
    now,
    data,       \* [key, member, val]
    ttl,        \* [key, at]
    sent,       \* replica -> batches sent
    pipe,       \* replica -> operations of its pipelines not yet executed
    step,       \* replica -> commands of the first of them already executed
    expd,       \* replica -> keys whose expiry its batch has set
    cuts

vars == <<now, data, ttl, sent, pipe, step, expd, cuts>>

REFUSED_FIELD == <<"#refused">>
-----------------------------------------------------------------------------
(* Commands: the data and the expiries they leave.                         *)

Of(k) == {e \in data : e.key = k}
Has(k, m) == \E e \in data : e.key = k /\ e.member = m
Val(k, m) == IF Has(k, m) THEN (CHOOSE e \in data : e.key = k /\ e.member = m).val ELSE 0
HasTtl(k) == \E t \in ttl : t.key = k

Store(k, m, v) == {e \in data : ~(e.key = k /\ e.member = m)} \cup {[key |-> k, member |-> m, val |-> v]}
Until(k, at) == {t \in ttl : t.key # k} \cup {[key |-> k, at |-> at]}
\* A command that changes data; an emptied key loses its expiry with it.
Data(new) == /\ data' = new
             /\ ttl' = {t \in ttl : \E e \in new : e.key = t.key}
EXPIRE(k) == /\ ttl' = IF Of(k) = {} THEN ttl ELSE Until(k, now + Ttl + 1)
             /\ UNCHANGED data
\* Mutant: every write gives a counter another window.
ExpireAlways(k) == EXPIRE(k)
\* EXPIRE NX
ExpireOnce(k) == /\ ttl' = IF Of(k) = {} \/ HasTtl(k) THEN ttl ELSE Until(k, now + Ttl + 1)
                 /\ UNCHANGED data

HINCRBYFLOAT(k, f, delta) == Data(Store(k, f, Val(k, f) + delta))
\* _FIELD_SET_LUA, one command to the server.
EVALSHA(k, f, v) ==
    IF ~Has(k, f) /\ Cardinality({e.member : e \in Of(k)} \ {REFUSED_FIELD}) >= Cap
    THEN Data(Store(k, REFUSED_FIELD, Val(k, REFUSED_FIELD) + 1))
    ELSE Data(Store(k, f, v))
ZADD(k, m, v) == Data(Store(k, m, v))
ZADDNX(k, m, v) == IF Has(k, m) THEN UNCHANGED <<data, ttl>> ELSE Data(Store(k, m, v))
SETEX(k, v, life) == data' = Store(k, <<>>, v) /\ ttl' = Until(k, now + life)
SETNX(k, v, life) == IF Of(k) = {} THEN SETEX(k, v, life) ELSE UNCHANGED <<data, ttl>>
DEL(k) == Data(data \ Of(k))
ZREM(k, m) == Data({e \in data : ~(e.key = k /\ e.member = m)})
\* The score of an event is its time, that of any other member its end.
Score(e) == IF KindOf(e.key) = "window" THEN e.member[1] ELSE e.val
ZREMRANGEBYSCORE(k, below) == Data({e \in data : ~(e.key = k /\ Score(e) < below)})
-----------------------------------------------------------------------------
(* Operations: the first command of each writes, the second sets its       *)
(* expiry, the third and fourth do the same for its index.                 *)

Length(o) == CASE o.op \in {"kv", "once", "clear", "srem", "range", "members"} -> 1
               [] o.idx = NoIdx -> 2
               [] OTHER -> 4

Write(o) ==
    CASE o.op = "cnt" -> HINCRBYFLOAT(o.key, o.member, o.val)
      [] o.op = "fset" -> EVALSHA(o.key, o.member, o.val)
      [] o.op \in {"win", "sadd"} -> ZADD(o.key, o.member, now + Ttl)
      [] o.op = "znx" -> ZADDNX(o.key, o.member, o.val)
      [] o.op = "kv" -> SETEX(o.key, o.val, Ttl + 1)
      [] o.op = "once" -> SETNX(o.key, o.val, Ttl)
      [] o.op = "clear" -> DEL(o.key)
      [] o.op = "srem" -> ZREM(o.key, o.member)
      [] o.op = "range" -> ZREMRANGEBYSCORE(o.key, now - o.val)
      [] o.op = "members" -> ZREMRANGEBYSCORE(o.key, now)

\* _exp: one EXPIRE for a key in a batch; the counters' is never left out.
Expire(r, k, once) ==
    IF once THEN ExpireOnce(k) /\ UNCHANGED expd
    ELSE IF k \in expd[r] THEN UNCHANGED <<data, ttl, expd>>
    ELSE EXPIRE(k) /\ expd' = [expd EXCEPT ![r] = @ \cup {k}]

Command(r, o, n) ==
    \/ n = 1 /\ Write(o) /\ UNCHANGED expd
    \/ n = 2 /\ Expire(r, o.key, o.op \in {"cnt", "fset"})
    \/ n = 3 /\ ZADD(o.idx, <<o.key>>, now + Ttl) /\ UNCHANGED expd
    \/ n = 4 /\ Expire(r, o.idx, FALSE)
-----------------------------------------------------------------------------
\* pipeline_ops: the operations of each shard are one pipeline, shard after shard.
Send(r) ==
    /\ pipe[r] = <<>> /\ sent[r] < Len(Script[r])
    /\ LET batch == Script[r][sent[r] + 1]
           of(s) == SelectSeq(batch, LAMBDA o : Shard[o.key] = s)
       IN  pipe' = [pipe EXCEPT ![r] = of(0) \o of(1)]
    /\ sent' = [sent EXCEPT ![r] = @ + 1]
    /\ expd' = [expd EXCEPT ![r] = {}]
    /\ UNCHANGED <<now, data, ttl, step, cuts>>

Execute(r) ==
    /\ pipe[r] # <<>>
    /\ LET o == Head(pipe[r])
           n == step[r] + 1
       IN  /\ Command(r, o, n)
           /\ step' = [step EXCEPT ![r] = IF n = Length(o) THEN 0 ELSE n]
           /\ pipe' = [pipe EXCEPT ![r] = IF n = Length(o) THEN Tail(@) ELSE @]
    /\ UNCHANGED <<now, sent, cuts>>

\* The connection breaks: the rest of the batch, and of the shards after it, is lost.
Cut(r) ==
    /\ cuts < MaxCuts /\ cuts' = cuts + 1
    /\ pipe[r] # <<>>
    /\ pipe' = [pipe EXCEPT ![r] = <<>>] /\ step' = [step EXCEPT ![r] = 0]
    /\ UNCHANGED <<now, data, ttl, sent, expd>>

\* A batch takes less than the unit of time.
Tick ==
    /\ now < MaxTime /\ now' = now + 1
    /\ \A r \in Replicas : pipe[r] = <<>>
    /\ ttl' = {t \in ttl : t.at > now'}
    /\ data' = {e \in data : \A t \in ttl : t.key = e.key => t.at > now'}
    /\ UNCHANGED <<sent, pipe, step, expd, cuts>>

Init ==
    /\ now = 0 /\ data = {} /\ ttl = {} /\ cuts = 0
    /\ sent = [r \in Replicas |-> 0] /\ pipe = [r \in Replicas |-> <<>>]
    /\ step = [r \in Replicas |-> 0] /\ expd = [r \in Replicas |-> {}]

Next == Tick \/ \E r \in Replicas : Send(r) \/ Execute(r) \/ Cut(r)

Spec == Init /\ [][Next]_vars
-----------------------------------------------------------------------------
(* The contract, seen through the commands.                                *)

\* The expiry of a key is about to be set by the pipeline that has just written it.
Expiring(k) ==
    \E r \in Replicas : pipe[r] # <<>> /\
        LET o == Head(pipe[r])
        IN  \/ step[r] = 1 /\ o.key = k /\ (o.op = "win" => k \notin expd[r])
            \/ step[r] = 3 /\ o.idx = k
At(k) == (CHOOSE t \in ttl : t.key = k).at
Kept(e) == IF HasTtl(e.key) /\ ~Expiring(e.key) /\ At(e.key) <= e.val THEN At(e.key) - 1 ELSE e.val
Exp(e) ==
    CASE KindOf(e.key) = "set" -> Kept(e)
      [] KindOf(e.key) = "window" -> IF HasTtl(e.key) \/ Expiring(e.key) THEN Kept(e) ELSE -1
      [] KindOf(e.key) = "first" /\ Expiring(e.key) -> now + Ttl
      [] KindOf(e.key) = "once" -> At(e.key)
      [] HasTtl(e.key) -> At(e.key) - 1
      [] Expiring(e.key) -> now + Ttl
      [] OTHER -> -1
\* Members of sets are gone for every reader once their own time is over.
Visible == {e \in data : KindOf(e.key) = "set" => e.val >= now}
Batches == UNION {{Script[r][j] : j \in DOMAIN Script[r]} : r \in Replicas}
Asked == UNION {{batch[i] : i \in DOMAIN batch} : batch \in Batches}
\* Windows whose expiry a batch does not set again when it writes them again.
Rewritten == {k \in DOMAIN Shard : \E batch \in Batches : \E i, j \in DOMAIN batch :
                  i # j /\ {batch[i].op, batch[j].op} = {"win"} /\ {batch[i].key, batch[j].key} = {k}}
Requests == {[op |-> o.op, key |-> o.key, member |-> o.member, val |-> o.val] : o \in {p \in Asked : p.op # "members"}}
            \cup {[op |-> "sadd", key |-> o.idx, member |-> <<o.key>>, val |-> 0] : o \in {p \in Asked : p.idx # NoIdx}}

Contract == INSTANCE WindowStore WITH
    Ops <- Requests, faults <- cuts,
    content <- {[key |-> e.key, member |-> e.member, val |-> e.val, exp |-> Exp(e)] : e \in Visible}

\* "Both implementations honor the same contract": whatever other replicas do between
\* two commands and wherever a connection breaks, sharded Redis forgets nothing before
\* its time, keeps counters for one window, and lets every key end that a pipeline wrote
\* to its end, except a window that a batch writes more than once (KeysEnd).
HonorsContract == Contract!Spec

\* "Every key gets a TTL so state is bounded": between batches, and when no connection
\* broke, what is stored has an end.
KeysEnd ==
    cuts = 0 /\ (\A r \in Replicas : pipe[r] = <<>>) => \A e \in data : HasTtl(e.key)

=============================================================================
