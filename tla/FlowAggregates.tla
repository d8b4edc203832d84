--------------------------- MODULE FlowAggregates ---------------------------
(***************************************************************************)
(* services/behavioral-detectors with the Redis backend of shared/store.py *)
(* (the deployment with several replicas): the per-flow aggregates behind  *)
(* the exfil findings, ADR 015.                                            *)
(*                                                                         *)
(* Replicas of one consumer group read suricata.flow.v1.  A flow's records *)
(* carry its cumulative byte count.  Each is written as one field of the   *)
(* hash of its (src, dst) pair, last write wins, at most FlowCap fields,   *)
(* the hash expiring Window after its first write; the pair's key is put   *)
(* into the index of its partition.  evaluate() sums the hashes of the     *)
(* indexed pairs and emits a candidate per pair over a threshold, once per *)
(* finding id for all replicas together.                                   *)
(*                                                                         *)
(* Redis, the offsets and the emitted candidates survive a crash; buffered *)
(* writes and unsent candidates do not.  Offsets are committed by the      *)
(* timer inside poll(), so a crash or an eviction redelivers records.  A   *)
(* replica that is stalled outside poll() can be evicted from the group    *)
(* and go on writing and evaluating: it learns of it at its next poll.     *)
(*                                                                         *)
(* One time unit is a second of Redis time.  The long-connection hashes    *)
(* (lcf:) are the same structure holding seconds instead of bytes.         *)
(***************************************************************************)
EXTENDS Integers, Sequences, FiniteSets, SequencesExt, Functions

CONSTANTS
    Replicas,     \* processes of the consumer group
    Log,          \* [partition -> sequence of records of suricata.flow.v1]
    Window,       \* WINDOW_SECS
    FlowCap,      \* NDR_FLOW_IDENTITY_CAP
    Threshold,    \* exfil_bytes
    LowFloor,     \* low_slow_exfil's low_floor
    MinConns,     \* low_slow_exfil's min_conns
    Material,     \* exfil_material_flow_bytes
    MinMaterial,  \* low_slow_exfil's min_material_flows
    MaxPoll,      \* bound: records of a partition one poll returns
    MaxTime,      \* bound: seconds that pass
    MaxFaults,    \* bound: crashes, evictions and failed calls of Redis
    MaxMoves,     \* bound: orderly rebalances
    Absent        \* no value

Partitions == DOMAIN Log
Records == UNION {Range(Log[p]) : p \in Partitions}
Pairs == {rec.pair : rec \in Records}
Flows == {rec.flow : rec \in Records}
Bytes == {rec.bytes : rec \in Records}

\* What the constants are; assumed where they get their values.
FlowAssumption ==
    /\ Window \in Nat \ {0} /\ FlowCap \in Nat \ {0} /\ Threshold \in Nat \ {0}
    /\ {LowFloor, MinConns, Material, MinMaterial} \subseteq Nat
    /\ MaxPoll \in Nat \ {0} /\ {MaxTime, MaxFaults, MaxMoves} \subseteq Nat
    /\ Replicas # {} /\ Absent \notin Nat
    /\ IsFiniteSet(Partitions) /\ \A p \in Partitions : Log[p] \in Seq(Range(Log[p]))
    /\ Bytes \subseteq Nat
    /\ \A a, b \in Records : a.flow = b.flow => a.pair = b.pair
    /\ \A p, q \in Partitions : \A a \in Range(Log[p]), b \in Range(Log[q]) :
          a.pair = b.pair => p = q

\* The bus is keyed by source, so a pair's records are all on one partition.
PartOf(k) == CHOOSE p \in Partitions : k \in {rec.pair : rec \in Range(Log[p])}

VARIABLES
    now,         \* Redis time
    owner,       \* [partition -> replica the group assigned it to]
    assigned,    \* [replica -> partitions it believes it owns]
    position,    \* [partition -> records its owner has polled]
    committed,   \* [partition -> committed offset]
    pc,          \* [replica -> "poll", "flush", "eval", "judge", "down"]
    pending,     \* [replica -> buffered records, _pending]
    todo,        \* [replica -> pairs evaluate() has still to visit]
    seen,        \* [replica -> what fields_get returned for the pair in hand]
    outbox,      \* [replica -> candidates sent and not yet on the bus]
    emitted,     \* candidates on ndr.finding.candidate.v1
    dedup,       \* live emit: keys of Redis, with their expiry
    hash,        \* [pair -> the hash exf: and its entry of the index]
    faults, moves,
    lost,        \* ghost: ids whose emit key was set and that were never sent
    unsettled    \* ghost: pairs whose writes were dropped or came from a zombie

redisVars == <<now, dedup, hash>>
groupVars == <<owner, assigned, position, committed, moves>>
loopVars == <<pc, pending, todo, seen, outbox, emitted>>
ghosts == <<lost, unsettled>>
vars == <<redisVars, groupVars, loopVars, ghosts, faults>>

-----------------------------------------------------------------------------
\* The hash of a pair.  `expires' is the key's TTL (Absent: none set), `index'
\* the score of its entry in idx:exf:.

NoHash == [fields |-> [f \in Flows |-> Absent], refused |-> 0, expires |-> Absent,
           index |-> Absent]

Held(h) == {f \in Flows : h.fields[f] # Absent}
Exists(h) == Held(h) # {} \/ h.refused > 0
Total(h) == FoldFunctionOnSet(+, 0, h.fields, Held(h))

\* Mutant: the accumulating counter of before ADR 015.
FieldAdd(h, rec) ==
    [h EXCEPT !.fields[rec.flow] = IF @ = Absent THEN rec.bytes ELSE @ + rec.bytes]

\* The capped field write of the Lua script.
FieldSet(h, rec) ==
    LET full == rec.flow \notin Held(h) /\ Cardinality(Held(h)) >= FlowCap
    IN IF full THEN [h EXCEPT !.refused = @ + 1] ELSE [h EXCEPT !.fields[rec.flow] = rec.bytes]

\* EXPIRE ... NX: the window tumbles from its first write.
ExpireNX(h) == [h EXCEPT !.expires = IF @ = Absent THEN now + Window + 1 ELSE @]

\* The index entry lives Window from the last write.
IndexAdd(h) == [h EXCEPT !.index = now + Window]

\* The commands of one fset operation, cut after the first n of them.
Commands(h, rec, n) ==
    CASE n = 0 -> h
      [] n = 1 -> FieldSet(h, rec)
      [] n = 2 -> ExpireNX(FieldSet(h, rec))
      [] OTHER -> IndexAdd(ExpireNX(FieldSet(h, rec)))

\* The store after the operations of ops.
Pipeline(store, ops) ==
    FoldLeft(LAMBDA st, rec : [st EXCEPT ![rec.pair] = Commands(@, rec, 3)], store, ops)

\* fields_get: total, connections, material flows, refused writes.
FieldsGet(k) ==
    LET h == hash[k] IN
    [pair |-> k, absent |-> ~Exists(h), total |-> Total(h), conns |-> Cardinality(Held(h)),
     material |-> Cardinality({f \in Held(h) : h.fields[f] >= Material}), capped |-> h.refused]

\* exfil_check, else low_slow_exfil; a pair without bytes is passed over.
Detector(s) ==
    CASE s.total = 0 -> "none"
      [] s.total >= Threshold -> "exfil"
      [] s.total > 0 /\ s.total < Threshold /\ s.total >= LowFloor
            /\ s.conns >= MinConns /\ s.material >= MinMaterial -> "low_slow_exfil"
      [] OTHER -> "none"

\* _candidate's finding_id: detector, the entities with their numbers, and the
\* time bucket of the emission.
FindingId(s) ==
    [detector |-> Detector(s), pair |-> s.pair, total |-> s.total,
     conns |-> IF Detector(s) = "exfil" THEN 0 ELSE s.conns, capped |-> s.capped,
     bucket |-> now \div Window]

DedupKey(id) == [id |-> id, expires |-> now + Window + 1]
DedupSeen(id) == \E d \in dedup : d.id = id
-----------------------------------------------------------------------------
Init ==
    /\ now = 0
    /\ owner \in [Partitions -> Replicas]
    /\ assigned = [r \in Replicas |-> {p \in Partitions : owner[p] = r}]
    /\ position = [p \in Partitions |-> 0]
    /\ committed = [p \in Partitions |-> 0]
    /\ pc = [r \in Replicas |-> "poll"]
    /\ pending = [r \in Replicas |-> <<>>]
    /\ todo = [r \in Replicas |-> {}]
    /\ seen = [r \in Replicas |-> Absent]
    /\ outbox = [r \in Replicas |-> {}]
    /\ emitted = {} /\ dedup = {}
    /\ hash = [k \in Pairs |-> NoHash]
    /\ faults = 0 /\ moves = 0
    /\ lost = {} /\ unsettled = {}

Goto(r, l) == pc' = [pc EXCEPT ![r] = l]
Fault == faults < MaxFaults /\ faults' = faults + 1

\* Time passes: Redis drops what has expired.
Tick ==
    LET gone == {k \in Pairs : hash[k].expires # Absent /\ hash[k].expires <= now + 1}
    IN /\ now < MaxTime
       /\ now' = now + 1
       /\ hash' = [k \in Pairs |->
             LET h == IF k \in gone THEN [NoHash EXCEPT !.index = hash[k].index] ELSE hash[k]
             IN IF h.index # Absent /\ h.index < now + 1 THEN [h EXCEPT !.index = Absent] ELSE h]
       /\ dedup' = {d \in dedup : d.expires > now + 1}
       /\ unsettled' = unsettled \ gone
       /\ UNCHANGED <<groupVars, loopVars, faults, lost>>

\* Mutant: polled records are committed before they are handled.
EagerCommit(p, n, elapsed) == IF elapsed THEN position[p] + n ELSE committed[p]

\* The auto-commit timer inside poll() commits the positions of earlier polls.
AutoCommit(p, n, elapsed) == IF elapsed THEN position[p] ELSE committed[p]

\* poll() and _handle of the records it returns: the writes are only buffered.
\* With nothing buffered the flush does nothing and the loop is at its top again.
Poll(r) ==
    /\ pc[r] = "poll"
    /\ \E n \in [Partitions -> 0..MaxPoll], elapsed \in BOOLEAN :
          LET owned == {p \in Partitions : owner[p] = r}
              got(p) == SubSeq(Log[p], position[p] + 1, position[p] + n[p])
              order == SetToSeq(owned)
          IN /\ \A p \in Partitions : position[p] + n[p] <= Len(Log[p])
             /\ \A p \in Partitions \ owned : n[p] = 0
             /\ pending' = [pending EXCEPT ![r] = FlattenSeq([i \in DOMAIN order |-> got(order[i])])]
             /\ position' = [p \in Partitions |-> position[p] + n[p]]
             /\ committed' = [p \in Partitions |->
                   IF p \in owned THEN AutoCommit(p, n[p], elapsed) ELSE committed[p]]
             /\ assigned' = [assigned EXCEPT ![r] = owned]
    /\ Goto(r, IF pending'[r] = <<>> THEN "poll" ELSE "flush")
    /\ UNCHANGED <<redisVars, owner, moves, todo, seen, outbox, emitted, faults, ghosts>>

PendingPairs(r) == {rec.pair : rec \in Range(pending[r])}
Zombie(r) == \E p \in Partitions : owner[p] # r /\ \E k \in PendingPairs(r) : PartOf(k) = p

\* _flush_pending: one pipeline for the poll's writes.
Flush(r) ==
    /\ pc[r] = "flush"
    /\ hash' = Pipeline(hash, pending[r])
    /\ pending' = [pending EXCEPT ![r] = <<>>]
    /\ unsettled' = IF Zombie(r) THEN unsettled \cup PendingPairs(r) ELSE unsettled
    /\ Goto(r, "poll")
    /\ UNCHANGED <<now, dedup, groupVars, todo, seen, outbox, emitted, faults, lost>>

\* The pipeline fails: the commands sent before the connection broke have
\* taken effect, the poll's writes are dropped, and the loop goes on.
FlushFails(r) ==
    /\ pc[r] = "flush" /\ pending[r] # <<>>
    /\ Fault
    /\ \E n \in 0..Len(pending[r]), c \in 0..2 :
          LET ops == pending[r]
              done == Pipeline(hash, SubSeq(ops, 1, n))
              cut == IF n = Len(ops) \/ c = 0 THEN {} ELSE {ops[n + 1].pair}
          IN /\ n = Len(ops) => c = 0
             /\ hash' = [k \in Pairs |-> IF k \in cut THEN Commands(done[k], ops[n + 1], c)
                                                     ELSE done[k]]
    /\ unsettled' = unsettled \cup PendingPairs(r)
    /\ pending' = [pending EXCEPT ![r] = <<>>]
    /\ Goto(r, "poll")
    /\ UNCHANGED <<now, dedup, groupVars, todo, seen, outbox, emitted, lost>>

\* _scoped_keys: the indexed pairs of the partitions the replica believes it has.
ScopedKeys(r) == {k \in Pairs : hash[k].index # Absent /\ PartOf(k) \in assigned[r]}

\* evaluate() begins, after a flush or after a poll that returned nothing.
EvalBegin(r) ==
    /\ pc[r] = "poll"
    /\ todo' = [todo EXCEPT ![r] = ScopedKeys(r)]
    /\ Goto(r, "eval")
    /\ UNCHANGED <<redisVars, groupVars, pending, seen, outbox, emitted, faults, ghosts>>

\* fields_get of the next pair.
ReadKey(r) ==
    /\ pc[r] = "eval"
    /\ \E k \in todo[r] :
          /\ seen' = [seen EXCEPT ![r] = FieldsGet(k)]
          /\ todo' = [todo EXCEPT ![r] = @ \ {k}]
    /\ Goto(r, "judge")
    /\ UNCHANGED <<redisVars, groupVars, pending, outbox, emitted, faults, ghosts>>

\* The index entry is dropped only when the hash is gone, not when it sums to 0.
Prunes(s) == s.absent

\* What evaluate() does with the pair it read.
Judge(r) ==
    LET s == seen[r]
        id == FindingId(s)
        fires == ~Prunes(s) /\ Detector(s) # "none" /\ ~DedupSeen(id)
    IN /\ pc[r] = "judge"
       /\ hash' = IF Prunes(s) THEN [hash EXCEPT ![s.pair].index = Absent] ELSE hash
       /\ dedup' = IF fires THEN dedup \cup {DedupKey(id)} ELSE dedup
       /\ outbox' = IF fires THEN [outbox EXCEPT ![r] = @ \cup {id}] ELSE outbox
       /\ seen' = [seen EXCEPT ![r] = Absent]
       /\ Goto(r, "eval")
       /\ UNCHANGED <<now, groupVars, pending, todo, emitted, faults, ghosts>>

\* evaluate() raises: Redis did not answer.  The emit key may have been set.
EvalFails(r) ==
    /\ pc[r] \in {"eval", "judge"}
    /\ Fault
    /\ \E taken \in BOOLEAN :
          /\ taken => /\ pc[r] = "judge" /\ ~Prunes(seen[r])
                      /\ Detector(seen[r]) # "none" /\ ~DedupSeen(FindingId(seen[r]))
          /\ dedup' = IF taken THEN dedup \cup {DedupKey(FindingId(seen[r]))} ELSE dedup
          /\ lost' = IF taken THEN lost \cup {FindingId(seen[r])} ELSE lost
    /\ todo' = [todo EXCEPT ![r] = {}]
    /\ seen' = [seen EXCEPT ![r] = Absent]
    /\ Goto(r, "poll")
    /\ UNCHANGED <<now, hash, groupVars, pending, outbox, emitted, unsettled>>

\* The producer's thread sends what it has buffered.
Deliver(r) ==
    /\ outbox[r] # {}
    /\ emitted' = emitted \cup outbox[r]
    /\ outbox' = [outbox EXCEPT ![r] = {}]
    /\ UNCHANGED <<redisVars, groupVars, pc, pending, todo, seen, faults, ghosts>>

\* producer.flush() at the end of evaluate() waits for the producer's thread.
EvalEnd(r) ==
    /\ pc[r] = "eval" /\ todo[r] = {} /\ outbox[r] = {}
    /\ Goto(r, "poll")
    /\ UNCHANGED <<redisVars, groupVars, pending, todo, seen, outbox, emitted, faults, ghosts>>

-----------------------------------------------------------------------------
\* The consumer group.

\* An orderly rebalance: both replicas are inside poll(), and the old owner
\* commits its position as it leaves.
Rebalance(p, r) ==
    /\ moves < MaxMoves /\ moves' = moves + 1
    /\ owner[p] # r /\ pc[r] = "poll" /\ pc[owner[p]] = "poll"
    /\ owner' = [owner EXCEPT ![p] = r]
    /\ committed' = [committed EXCEPT ![p] = position[p]]
    /\ assigned' = [assigned EXCEPT ![r] = @ \cup {p}, ![owner[p]] = @ \ {p}]
    /\ UNCHANGED <<redisVars, position, loopVars, faults, ghosts>>

\* A replica that was too long outside poll() is evicted and does not know it.
Evict(p, r) ==
    /\ Fault
    /\ owner[p] # r /\ pc[r] = "poll" /\ pc[owner[p]] \notin {"poll", "down"}
    /\ owner' = [owner EXCEPT ![p] = r]
    /\ position' = [position EXCEPT ![p] = committed[p]]
    /\ assigned' = [assigned EXCEPT ![r] = @ \cup {p}]
    /\ UNCHANGED <<redisVars, committed, moves, loopVars, ghosts>>

\* The partition of a dead replica goes to a live one.
Takeover(p, r) ==
    /\ pc[owner[p]] = "down" /\ pc[r] = "poll"
    /\ owner' = [owner EXCEPT ![p] = r]
    /\ position' = [position EXCEPT ![p] = committed[p]]
    /\ assigned' = [assigned EXCEPT ![r] = @ \cup {p}]
    /\ UNCHANGED <<redisVars, committed, moves, loopVars, faults, ghosts>>

Crash(r) ==
    /\ pc[r] # "down"
    /\ Fault
    /\ lost' = lost \cup outbox[r]
    /\ pending' = [pending EXCEPT ![r] = <<>>]
    /\ todo' = [todo EXCEPT ![r] = {}]
    /\ seen' = [seen EXCEPT ![r] = Absent]
    /\ outbox' = [outbox EXCEPT ![r] = {}]
    /\ assigned' = [assigned EXCEPT ![r] = {}]
    /\ Goto(r, "down")
    /\ UNCHANGED <<redisVars, owner, position, committed, moves, emitted, unsettled>>

\* The restarted process rejoins; its own partitions start at the commit.
Restart(r) ==
    /\ pc[r] = "down"
    /\ assigned' = [assigned EXCEPT ![r] = {p \in Partitions : owner[p] = r}]
    /\ position' = [p \in Partitions |-> IF owner[p] = r THEN committed[p] ELSE position[p]]
    /\ Goto(r, "poll")
    /\ UNCHANGED <<redisVars, owner, committed, moves, pending, todo, seen, outbox, emitted,
                   faults, ghosts>>

Loop(r) ==
    Poll(r) \/ Flush(r) \/ EvalBegin(r) \/ ReadKey(r) \/ Judge(r) \/ EvalEnd(r)

Next ==
    \/ Tick
    \/ \E r \in Replicas : Loop(r) \/ FlushFails(r) \/ EvalFails(r) \/ Deliver(r)
                           \/ Crash(r) \/ Restart(r)
    \/ \E p \in Partitions, r \in Replicas : Rebalance(p, r) \/ Evict(p, r) \/ Takeover(p, r)

Spec == Init /\ [][Next]_vars

-----------------------------------------------------------------------------
\* Properties.

Times == 0..(MaxTime + Window + 1)
Ids == [detector : {"exfil", "low_slow_exfil"}, pair : Pairs, total : Nat, conns : Nat,
        capped : Nat, bucket : Nat]
Hashes == [fields : [Flows -> Nat \cup {Absent}], refused : Nat, expires : Times \cup {Absent},
           index : Times \cup {Absent}]

\* Every variable has its type, and no more identities are held than the cap
\* of field_set admits.
TypeOK ==
    /\ now \in 0..MaxTime
    /\ owner \in [Partitions -> Replicas] /\ assigned \in [Replicas -> SUBSET Partitions]
    /\ \A p \in Partitions : 0 <= committed[p] /\ committed[p] <= position[p]
                             /\ position[p] <= Len(Log[p])
    /\ pc \in [Replicas -> {"poll", "flush", "eval", "judge", "down"}]
    /\ pending \in [Replicas -> Seq(Records)] /\ todo \in [Replicas -> SUBSET Pairs]
    /\ \A r \in Replicas : (seen[r] # Absent) = (pc[r] = "judge")
    /\ outbox \in [Replicas -> SUBSET Ids] /\ emitted \subseteq Ids /\ lost \subseteq Ids
    /\ \A d \in dedup : d.id \in Ids /\ d.expires \in Times
    /\ hash \in [Pairs -> Hashes]
    /\ \A k \in Pairs : Cardinality(Held(hash[k])) <= FlowCap
    /\ faults \in 0..MaxFaults /\ moves \in 0..MaxMoves
    /\ unsettled \subseteq Pairs

\* What the flows of a pair really sent: each flow's highest cumulative count.
Sent(f) == CHOOSE b \in {rec.bytes : rec \in {x \in Records : x.flow = f}} :
              \A rec \in Records : rec.flow = f => rec.bytes <= b
FlowsOf(k) == {f \in Flows : \E rec \in Records : rec.flow = f /\ rec.pair = k}
TrueTotal(k) == FoldFunctionOnSet(+, 0, [f \in Flows |-> Sent(f)], FlowsOf(k))

\* No finding is manufactured: whatever is redelivered, replayed by a zombie or
\* repeated in interim records, no candidate reports more bytes than the pair's
\* flows sent (ADR 015; the reason evaluate() sums fields instead of reading a
\* counter).
NoFalseExfil == \A id \in emitted \cup lost \cup UNION Range(outbox) : id.total <= TrueTotal(id.pair)

\* Once the log is polled to its end and nothing is buffered, each field is the
\* last cumulative value of its flow, unless the pair's writes were dropped by
\* a failed flush or came from an evicted replica: crashes, rebalances and
\* redelivery leave no stale value behind.
LastOf(f) == LET log == Log[CHOOSE p \in Partitions : \E rec \in Range(Log[p]) : rec.flow = f]
                 last == CHOOSE i \in DOMAIN log :
                            log[i].flow = f /\ \A j \in (i + 1)..Len(log) : log[j].flow # f
             IN log[last].bytes
FieldsCurrent ==
    (\A p \in Partitions : position[p] = Len(Log[p]) /\ pc[owner[p]] # "down")
       /\ (\A r \in Replicas : pending[r] = <<>>)
    => \A k \in Pairs \ unsettled : \A f \in Held(hash[k]) : hash[k].fields[f] = LastOf(f)

=============================================================================
