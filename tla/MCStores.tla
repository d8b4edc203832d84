------------------------------ MODULE MCStores ------------------------------
(* Stores that several actors write: the cases with their outbox and the   *)
(* windows in Redis.  They share nothing: a behaviour is about one.        *)
EXTENDS CaseStore

CONSTANT KindOf(_)
VARIABLES part,
    rdNow, data, ttl, sent, pipe, step, expd, cuts

\* Two analysts of two tenants, one case.
Session(a, t, w) == [analyst |-> a, tenant |-> t, write |-> w]
TwoAnalysts == {Session("ann", "acme", TRUE), Session("bob", "globex", TRUE)}

Op(op, key, member, val, idx) == [op |-> op, key |-> key, member |-> member, val |-> val, idx |-> idx]
Kind(k) == [h |-> "hash", f |-> "hash", s |-> "set", ix |-> "set", z |-> "first", w |-> "window", w2 |-> "window", v |-> "value", o |-> "once"][k]
Shards == [h |-> 0, f |-> 1, s |-> 1, ix |-> 0, z |-> 1, w |-> 0, w2 |-> 1, v |-> 1, o |-> 0]

\* Two replicas that share a partition for a moment: counters, windows and the index in
\* one batch, reads and removals between them; one of the windows is written twice.
Both ==
    [r1 |-> <<<<Op("cnt", "h", <<"a">>, 1, "ix"), Op("win", "w", <<0, "e">>, 0, ""), Op("znx", "z", <<"m">>, 1, "")>>,
              <<Op("win", "w2", <<0, "e">>, 0, ""), Op("win", "w2", <<2, "f">>, 0, ""), Op("cnt", "h", <<"b">>, 1, ""), Op("kv", "v", <<>>, 1, "")>>,
              <<Op("range", "w", <<>>, 1, "")>>>>,
     r2 |-> <<<<Op("fset", "f", <<"a">>, 5, ""), Op("fset", "f", <<"b">>, 6, "")>>,
              <<Op("srem", "ix", <<"h">>, 0, ""), Op("sadd", "s", <<"m">>, 0, ""), Op("znx", "z", <<"n">>, 2, "")>>,
              <<Op("range", "w2", <<>>, 0, ""), Op("once", "o", <<>>, 1, ""), Op("members", "s", <<>>, 0, ""), Op("clear", "h", <<>>, 0, "")>>>>]
Redis == INSTANCE RedisStore WITH
    Replicas <- {"r1", "r2"}, Script <- Both, Shard <- Shards, Ttl <- 1, Cap <- 1, MaxTime <- 3, MaxCuts <- 1,
    now <- rdNow
redis == <<rdNow, data, ttl, sent, pipe, step, expd, cuts>>
ASSUME OtherConstants == Redis!RedisStoreAssumption

MCInit == part \in {"cases", "redis"} /\ Init /\ Redis!Init
MCNext == \/ part = "cases" /\ Next /\ UNCHANGED <<part, redis>>
          \/ part = "redis" /\ Redis!Next /\ UNCHANGED <<part, vars>>
\* No drain is enabled before a disposition is enqueued: fairness asks nothing of the other part.
MCSpec == MCInit /\ [][MCNext]_<<part, vars, redis>> /\ Fairness

\* The Redis backend implements the contract of the window store.
HonorsContract == Redis!HonorsContract
\* Every key of the Redis backend has an end.
KeysEnd == Redis!KeysEnd
=============================================================================
