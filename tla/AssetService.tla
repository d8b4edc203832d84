---------------------------- MODULE AssetService ----------------------------
(***************************************************************************)
(* asset-service: telemetry is folded into leases (who held which address  *)
(* when), facts with validity intervals, assets and relationship edges;    *)
(* the result is flushed to four ClickHouse tables and only then are the   *)
(* Kafka offsets committed.  After a restart the leases and facts are      *)
(* folded again from the stored identity observations, and the interval    *)
(* table is repaired.                                                      *)
(*                                                                         *)
(* A telemetry record is [id, ts, type, src, dst, mac, host, lease]: id is *)
(* its observation id (a hash: its order says nothing about arrival), ts   *)
(* the append time, None where a field is absent, lease a duration.        *)
(***************************************************************************)
EXTENDS Integers, Sequences, FiniteSets, SequencesExt, TLC

CONSTANTS
    Log,        \* [partition -> sequence of records]
    Ips,        \* addresses; like MACs and host names, numbers: they are compared
    None,
    Forever,    \* an open end: later than every instant
    MaxCrashes  \* bound

Partitions == DOMAIN Log
Records == UNION {Range(Log[p]) : p \in Partitions}

\* What the constants are; assumed where they get their values.
AssetAssumption ==
    /\ Forever \in Nat /\ MaxCrashes \in Nat
    /\ \A r \in Records : /\ r.ts \in 0 .. (Forever - 1)
                          /\ \A q \in Records : q.id = r.id => q = r

VARIABLES
    position, committed,  \* [partition -> records read, records committed]
    mem,                  \* the process's dictionaries
    stage,                \* what the process is doing: "run", "down" or a step of flush()
    repairing,            \* the flush is restore_state's, which commits nothing
    assetTable,           \* ndr.asset: key -> asset
    obsTable,             \* ndr.identity_observation: set of observations
    factTable,            \* ndr.asset_fact: the newest version of every interval key
    edgeTable,            \* ndr.entity_relationship: key -> span
    crashes

tables == <<assetTable, obsTable, factTable, edgeTable>>
vars == <<position, committed, mem, stage, repairing, tables, crashes>>

Empty == [x \in {} |-> None]
Get(f, k, default) == IF k \in DOMAIN f THEN f[k] ELSE default
Least(S) == CHOOSE x \in S : \A y \in S : x <= y
Greatest(S) == CHOOSE x \in S : \A y \in S : x >= y
-----------------------------------------------------------------------------
(* Ownership of an address.                                                *)

\* A same-start tie goes to the smaller observation id.
Winning(leases) == {c \in leases : \A d \in leases : d.from = c.from => c.oid <= d.oid}

LeaseEnd(c, win) == Least({c.expires} \cup {d.from : d \in {x \in win : x.from > c.from}})

\* The winning lease at t, as a set; the winners do not overlap.
OwnerLease(leases, t) ==
    LET win == Winning(leases) IN {c \in win : c.from <= t /\ t < LeaseEnd(c, win)}
owner_at(leases, t) == {c.mac : c \in OwnerLease(leases, t)}

\* The piecewise plot of owner_at over every start and expiry.
ownership_intervals(ip, leases) ==
    LET win == Winning(leases)
        bounds == {c.from : c \in win} \cup ({c.expires : c \in leases} \ {Forever})
        before(b) == {x \in bounds : x < b}
        opens(b) == /\ owner_at(leases, b) # {}
                    /\ before(b) # {} => owner_at(leases, Greatest(before(b))) # owner_at(leases, b)
        end(b) == Least({Forever} \cup
                        {x \in bounds : x > b /\ owner_at(leases, x) # owner_at(leases, b)})
    IN  {LET c == CHOOSE w \in win : w.from = b
         IN  [mac |-> c.mac, val |-> ip, from |-> b, to |-> end(b), oid |-> c.oid] :
           b \in {x \in bounds : opens(x)}}

Mac(m) == <<"mac", m>>
Ip(i) == <<"ip", i>>

asset_key(obs, bindings, t) ==
    IF obs.mac # None THEN Mac(obs.mac)
    ELSE LET owner == owner_at(bindings[obs.ip], t)
         IN  IF owner = {} THEN Ip(obs.ip) ELSE Mac(CHOOSE m \in owner : TRUE)

\* Every subject that ever claimed an address, with what it owns now.
rebuild_ip_ownership(bindings) ==
    LET claimants == {c.mac : c \in UNION Range(bindings)}
        owned == UNION {ownership_intervals(ip, bindings[ip]) : ip \in Ips}
    IN  [k \in {<<Mac(m), "ip">> : m \in claimants} |->
           {[val |-> iv.val, from |-> iv.from, to |-> iv.to, oid |-> iv.oid] :
              iv \in {o \in owned : Mac(o.mac) = k[1]}}]
-----------------------------------------------------------------------------
(* Evidence, facts and edges of one record.                                *)

Obs(ip, src, attrs) ==
    [ip |-> ip, mac |-> None, host |-> None, lease |-> None, src |-> src, attrs |-> attrs]

\* A TLS or HTTP record says one thing of the client and another of the server.
extract_evidence(r) ==
    CASE r.type = "flow" -> <<Obs(r.src, "flow", {}), Obs(r.dst, "flow", {})>>
      [] r.type \in {"arp", "dhcp"} ->
           <<[Obs(r.src, r.type, {}) EXCEPT !.mac = r.mac, !.host = r.host, !.lease = r.lease]>>
      [] r.type = "tls" -> <<Obs(r.src, "tls", {"ja4"}), Obs(r.dst, "tls", {"ja4", "certificates"})>>
      [] r.type = "http" -> <<Obs(r.src, "http", {"applications"}),
                              [Obs(r.dst, "http", {}) EXCEPT !.host = r.host]>>
      [] OTHER -> <<>>

\* Observed edges; both ends resolve with the bindings of the moment.
build_edges(r, bindings) ==
    LET entity(ip) == asset_key(Obs(ip, r.type, {}), bindings, r.ts)
    IN  CASE r.type = "dns" -> {<<entity(r.src), entity(r.dst), "resolves">>}
          [] r.type = "flow" -> {<<entity(r.src), entity(r.dst), "communicates-with">>}
          [] OTHER -> {}

\* The host name and the MAC of an observation.
derive_facts(obs, subject, oid, t) ==
    {[subject |-> subject, pred |-> f[1], val |-> f[2], ts |-> t, src |-> obs.src, oid |-> oid] :
       f \in {g \in {<<"hostname", obs.host>>, <<"mac", obs.mac>>} : g[2] # None}}

SourceRank(src) == CASE src = "dhcp" -> 3 [] src = "arp" -> 2 [] src = "flow" -> 1 [] OTHER -> 0

\* The strongest source, then the smallest value, then the smallest id.
resolve_conflict(c, d) ==
    LET better(x, y) == \/ SourceRank(x.src) > SourceRank(y.src)
                        \/ /\ SourceRank(x.src) = SourceRank(y.src)
                           /\ \/ x.val < y.val
                              \/ x.val = y.val /\ x.oid <= y.oid
    IN  IF better(c, d) THEN c ELSE d

\* _rebuild: runs of one value, each closed where the next begins.
Rebuild(byTs) ==
    LET before(c) == {d \in byTs : d.ts < c.ts}
        prior(c) == CHOOSE d \in before(c) : \A x \in before(c) : x.ts <= d.ts
        opening == {c \in byTs : before(c) = {} \/ prior(c).val # c.val}
    IN  {[val |-> c.val, from |-> c.ts, oid |-> c.oid,
          to |-> Least({Forever} \cup {d.ts : d \in {x \in opening : x.ts > c.ts}})] : c \in opening}

\* One candidate wins an instant; the intervals of its predicate are re-emitted.
fold_fact(m, c) ==
    LET rival == {d \in m.facts : <<d.subject, d.pred, d.ts>> = <<c.subject, c.pred, c.ts>>}
        winner == IF rival = {} THEN c ELSE resolve_conflict(CHOOSE d \in rival : TRUE, c)
        facts == (m.facts \ rival) \cup {winner}
        run == {d \in facts : d.subject = c.subject /\ d.pred = c.pred}
    IN  [m EXCEPT !.facts = facts,
                  !.pendFacts = (<<c.subject, c.pred>> :> Rebuild(run)) @@ @]

\* Mutant: a lease that repeats a holder and a start is dropped.
RecordFirst(leases, c) ==
    IF \E d \in leases : d.mac = c.mac /\ d.from = c.from THEN leases ELSE leases \cup {c}
\* A replayed observation is not recorded twice.
record_binding(leases, c) ==
    IF \E d \in leases : <<d.mac, d.from, d.oid>> = <<c.mac, c.from, c.oid>> THEN leases
    ELSE leases \cup {c}

\* _fold_observation: leases, facts, and the evidence row both rest on.
FoldObservation(m, obs, oid, t) ==
    LET binds == obs.mac # None
        lease == [mac |-> obs.mac, from |-> t, oid |-> oid,
                  expires |-> IF obs.lease = None THEN Forever ELSE t + obs.lease]
        bound == IF binds THEN [m.bindings EXCEPT ![obs.ip] = record_binding(@, lease)]
                 ELSE m.bindings
        cands == derive_facts(obs, asset_key(obs, bound, t), oid, t)
        noted == [m EXCEPT !.bindings = bound,
                           !.pendObs = IF cands # {} \/ binds THEN @ \cup {[oid |-> oid, ts |-> t, obs |-> obs]}
                                                              ELSE @]
        folded == FoldLeft(fold_fact, noted, SetToSeq(cands))
    IN  IF binds THEN [folded EXCEPT !.pendFacts = rebuild_ip_ownership(bound) @@ @] ELSE folded

\* merge: sets accumulate, the last sighting is the last merged.
merge(a, obs, t) ==
    [ips |-> a.ips \cup {obs.ip}, macs |-> a.macs \cup ({obs.mac} \ {None}),
     hosts |-> a.hosts \cup ({obs.host} \ {None}), srcs |-> a.srcs \cup {obs.src},
     first |-> a.first, last |-> t,
     prov |-> a.prov \cup {[attr |-> x, src |-> obs.src, at |-> t] :
                             x \in {y \in obs.attrs : \A p \in a.prov : p.attr # y}}]
NewAsset(t) == [ips |-> {}, macs |-> {}, hosts |-> {}, srcs |-> {}, first |-> t, last |-> t, prov |-> {}]

\* Mutant: a re-observed edge starts again.
RestartSpan(span, t, oid) == [first |-> t, last |-> t, oid |-> oid]
Widen(span, t, oid) ==
    [first |-> IF t < span.first THEN t ELSE span.first,
     last |-> IF t >= span.last THEN t ELSE span.last,
     oid |-> IF t >= span.last THEN oid ELSE span.oid]

ObserveEdge(m, k, r) ==
    LET new == [first |-> r.ts, last |-> r.ts, oid |-> r.id]
        span == IF k \in DOMAIN m.edges THEN Widen(m.edges[k], r.ts, r.id) ELSE new
    IN  [m EXCEPT !.edges = (k :> span) @@ @,
                  !.edgesDirty = IF span = Get(m.edges, k, None) THEN @ ELSE @ \cup {k}]

observe(m, r) ==
    LET fold(mm, obs) ==
          LET f == FoldObservation(mm, obs, r.id, r.ts)
              key == asset_key(obs, f.bindings, r.ts)
          IN  [f EXCEPT !.assets = (key :> merge(Get(@, key, NewAsset(r.ts)), obs, r.ts)) @@ @,
                        !.dirty = @ \cup {key}]
        seen == FoldLeft(fold, m, extract_evidence(r))
    IN  FoldLeft(LAMBDA mm, k : ObserveEdge(mm, k, r), seen, SetToSeq(build_edges(r, seen.bindings)))
-----------------------------------------------------------------------------
(* The process.                                                            *)

NoMemory == [bindings |-> [i \in Ips |-> {}], facts |-> {}, assets |-> Empty, dirty |-> {},
             pendFacts |-> Empty, pendObs |-> {}, emitted |-> Empty, edges |-> Empty,
             edgesDirty |-> {}]

Init ==
    /\ position = [p \in Partitions |-> 0] /\ committed = position
    /\ mem = NoMemory /\ stage = "run" /\ repairing = FALSE
    /\ assetTable = Empty /\ obsTable = {} /\ factTable = {} /\ edgeTable = Empty
    /\ crashes = 0

\* poll_and_observe; a batch of several records is several of these steps.
Poll(p) ==
    /\ stage = "run" /\ position[p] < Len(Log[p])
    /\ position' = [position EXCEPT ![p] = @ + 1]
    /\ mem' = observe(mem, Log[p][position'[p]])
    /\ UNCHANGED <<committed, stage, repairing, tables, crashes>>

\* The flush interval has passed, or the loop ends.
BeginFlush ==
    /\ stage = "run" /\ position # committed
    /\ stage' = "assets"
    /\ UNCHANGED <<position, committed, mem, repairing, tables, crashes>>

FlushAssets ==
    /\ stage = "assets"
    /\ assetTable' = [k \in mem.dirty |-> mem.assets[k]] @@ assetTable
    /\ mem' = [mem EXCEPT !.dirty = {}]
    /\ stage' = "observations"
    /\ UNCHANGED <<position, committed, repairing, obsTable, factTable, edgeTable, crashes>>

FlushObservations ==
    /\ stage = "observations"
    /\ obsTable' = {o \in obsTable : \A n \in mem.pendObs : n.oid # o.oid} \cup mem.pendObs
    /\ mem' = [mem EXCEPT !.pendObs = {}]
    /\ stage' = "facts"
    /\ UNCHANGED <<position, committed, repairing, assetTable, factTable, edgeTable, crashes>>

IntervalKey(row) == [val |-> row.val, from |-> row.from, oid |-> row.oid]
RowKey(row) == <<row.subject, row.pred, IntervalKey(row)>>
FactRow(k, iv, to, deleted) ==
    [subject |-> k[1], pred |-> k[2], val |-> iv.val, from |-> iv.from, oid |-> iv.oid, to |-> to,
     deleted |-> deleted]

Current(k) == {IntervalKey(iv) : iv \in mem.pendFacts[k]}
\* What was emitted of k and is no longer among its intervals.
Tombstones(k) == {FactRow(k, iv, Forever, TRUE) : iv \in Get(mem.emitted, k, {}) \ Current(k)}

\* A newer version replaces the row of its key.
FlushFacts ==
    /\ stage = "facts"
    /\ LET rows == UNION {{FactRow(k, iv, iv.to, FALSE) : iv \in mem.pendFacts[k]} \cup Tombstones(k) :
                            k \in DOMAIN mem.pendFacts}
       IN  factTable' = {o \in factTable : \A n \in rows : RowKey(n) # RowKey(o)} \cup rows
    /\ mem' = [mem EXCEPT !.emitted = [k \in DOMAIN mem.pendFacts |-> Current(k)] @@ @,
                          !.pendFacts = Empty]
    /\ stage' = "edges"
    /\ UNCHANGED <<position, committed, repairing, assetTable, obsTable, edgeTable, crashes>>

FlushEdges ==
    /\ stage = "edges"
    /\ edgeTable' = [k \in mem.edgesDirty |-> mem.edges[k]] @@ edgeTable
    /\ mem' = [mem EXCEPT !.edgesDirty = {}]
    /\ stage' = IF repairing THEN "run" ELSE "commit"
    /\ repairing' = FALSE
    /\ UNCHANGED <<position, committed, assetTable, obsTable, factTable, crashes>>

Commit ==
    /\ stage = "commit"
    /\ committed' = position
    /\ stage' = "run"
    /\ UNCHANGED <<position, mem, repairing, tables, crashes>>

\* The process dies; an insert that raises ends it too.
Crash ==
    /\ crashes < MaxCrashes /\ stage # "down"
    /\ crashes' = crashes + 1
    /\ stage' = "down" /\ repairing' = FALSE
    /\ mem' = NoMemory
    /\ position' = committed
    /\ UNCHANGED <<committed, tables>>

Live == {row \in factTable : ~row.deleted}
Earlier(a, b) == a.ts < b.ts \/ (a.ts = b.ts /\ a.oid < b.oid)

\* _load_emitted.
LoadEmitted ==
    [k \in {<<row.subject, row.pred>> : row \in Live} |->
       {IntervalKey(row) : row \in {x \in Live : <<x.subject, x.pred>> = k}}]

\* restore_state, up to its repairing flush.
Restore ==
    /\ stage = "down"
    /\ LET loaded == [NoMemory EXCEPT !.assets = assetTable, !.edges = edgeTable,
                                      !.emitted = LoadEmitted]
           folded == FoldLeft(LAMBDA m, o : FoldObservation(m, o.obs, o.oid, o.ts), loaded,
                              SetToSortSeq(obsTable, Earlier))
       IN  mem' = [folded EXCEPT !.pendObs = {}]
    /\ stage' = "assets" /\ repairing' = TRUE
    /\ UNCHANGED <<position, committed, tables, crashes>>

Flush == BeginFlush \/ FlushAssets \/ FlushObservations \/ FlushFacts \/ FlushEdges \/ Commit
Next == (\E p \in Partitions : Poll(p)) \/ Flush \/ Crash \/ Restore

Spec == Init /\ [][Next]_vars
-----------------------------------------------------------------------------
(* Reading: an entity's timeline.                                          *)

\* _ip_windows: a MAC's observations are joined inside its address windows only.
Windows(entity) ==
    IF entity[1] = "mac" THEN {row \in Live : row.subject = entity /\ row.pred = "ip"}
    ELSE {[val |-> entity[2], from |-> 0, to |-> Forever]}

\* _in_window.
Timeline(entity) ==
    {o \in obsTable : \E w \in Windows(entity) : w.val = o.obs.ip /\ w.from <= o.ts /\ o.ts < w.to}
-----------------------------------------------------------------------------
(* Properties.                                                             *)

Holders == {r.mac : r \in Records} \ {None}
Instants == {r.ts : r \in Records} \cup {r.ts + r.lease : r \in {x \in Records : x.lease \in Nat}}

\* The leases that the stored evidence of an address amounts to.
StoredLeases(ip) ==
    {[mac |-> o.obs.mac, from |-> o.ts, oid |-> o.oid,
      expires |-> IF o.obs.lease = None THEN Forever ELSE o.ts + o.obs.lease] :
       o \in {x \in obsTable : x.obs.ip = ip /\ x.obs.mac # None}}

\* Who holds an address at t, said without intervals: the smallest id among the
\* latest starts up to t, unless its lease has run out.
Holder(leases, t) ==
    LET started == {c \in leases : c.from <= t}
        latest == {c \in started : \A d \in started : d.from <= c.from}
    IN  {c.mac : c \in {x \in latest : t < x.expires /\ \A y \in latest : x.oid <= y.oid}}

\* Whenever nothing is pending, whatever order records arrived in, however often
\* they were read and wherever the process died: a stored interval says that a MAC
\* owns an address at an instant exactly if the stored evidence does, and a MAC's
\* timeline shows an identity observation only of an instant at which it owned its
\* address.
OwnershipAgrees ==
    stage \in {"run", "edges", "commit"} /\ mem.pendFacts = Empty =>
        /\ \A ip \in Ips, t \in Instants, m \in Holders :
              m \in Holder(StoredLeases(ip), t)
                <=> \E row \in Live : /\ row.subject = Mac(m) /\ row.pred = "ip" /\ row.val = ip
                                      /\ row.from <= t /\ t < row.to
        /\ \A m \in Holders : \A o \in Timeline(Mac(m)) : m \in Holder(StoredLeases(o.obs.ip), o.ts)

CommittedRecords == UNION {{Log[p][i] : i \in 1 .. committed[p]} : p \in Partitions}
Identifies(r) == r.type \in {"arp", "dhcp", "http"}
EdgeKind(r) == CASE r.type = "flow" -> "communicates-with" [] r.type = "dns" -> "resolves" [] OTHER -> None

\* Nothing that is committed is lost, and nothing stored dangles, even between two
\* inserts: a committed identity record has its evidence row, a committed flow or
\* query lies in the span of a stored edge of its kind, and every live interval
\* rests on a stored row.
EvidenceDurable ==
    /\ \A r \in CommittedRecords : Identifies(r) => \E o \in obsTable : o.oid = r.id
    /\ \A r \in CommittedRecords : EdgeKind(r) # None =>
          \E k \in DOMAIN edgeTable : /\ k[3] = EdgeKind(r)
                                     /\ edgeTable[k].first <= r.ts /\ r.ts <= edgeTable[k].last
    /\ \A row \in Live : \E o \in obsTable : o.oid = row.oid
=============================================================================
