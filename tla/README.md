# Verification of the Cernity NDR pipeline

TLA+ models of the network-detection pipeline in this repository, the TLC runs
that check them on small instances, and TLAPS proofs of the central invariants.
`PROJECT.json` lists components, runs, mutants, the correspondence between
definitions and source lines, hazards, findings and theorems; this file explains
them.

Paths below are relative to the repository (`src/` in `PROJECT.json`).

## 1. The system

Sensors (Suricata, Zeek) feed telemetry to a Redpanda (Kafka) bus. Some thirty
small Python services consume it. Each is one consumer loop, at most a few
threads, and at most one store. Almost all correctness questions are about what
lies between two of these loops.

```
 suricata.flow/dns/...  ->  detectors  ->  ndr.finding.candidate.v1
                                                    |
                                            finding-service  --- ClickHouse (ndr.finding)
                                             |            |
                          ndr.capture.request.v1     ndr.finding.final.v1
                                             |            |
                                 capture-orchestrator   findings-forwarder -> SIEM sinks
                                             |                               (ledger, DLQ)
                          ndr.capture.arm.v1 |
                                       capture-agent  -> object store
                                             |
               ndr.capture.status.v1  ndr.enrichment.request.v1 -> zeek-central
                                                             |
                                              ndr.enrichment.result.v1 -> finding-service
```

### 1.1 Inventory

| component | state | operations | talks to |
|---|---|---|---|
| finding-service lifecycle (`app.py`, `state_machine.py`) | pending map, cache of finalized findings, producer buffers, rows of `ndr.finding` | candidate, result, status, timeout sweep, flush, recovery, shutdown | candidate, result and status topics in; final and capture-request topics out; ClickHouse |
| case management (`cases.py`, `store.py`, `app.py`) | SQLite tables `cases` and `dispositions`, in-memory claims | ten HTTP mutations, `mutate()`, `drain_dispositions` | feedback-service Router |
| findings-forwarder (`app.py`, `adapters.py`, `forwarder.py`) | consumer offsets, obligation ledger and dead-letter file per sink | poll, withhold, dedup, send, retry, dead-letter, commit, compact, replay | final topic; receivers |
| capture-orchestrator | per-sensor budget (memory) | request, completion | request, arm and status topics |
| capture-agent | `_active`, capture threads, Suricata datasets, pcap log | validate, arm, disarm, carve, upload, report | arm and status topics, object store |
| zeek-central | none | enrich | enrichment topics, object store |
| behavioral-detectors with `shared/store.py` | window store in Redis or memory, buffered writes, emit keys | poll, flush, evaluate, rebalance | telemetry topics; candidate topic |
| preserve captures (`shared/capture_v2.py`, `gates.py`, `PacketRing` and `preserve` of `capture-agent/agent.py`) | persisted reservations, packet ring | authorize, reserve, finish, snapshot | v2 capture topics |
| threat-intel | indicator table with provenance (SQLite), suppressions, hourly dedup | refresh a feed, merge, withdraw, look up, report or file | feeds over HTTP; telemetry in, candidate topic out |
| intel-hunt | hunt jobs, cursor and hits (SQLite) | post, advance a page | ClickHouse |
| file-artifact, file-yara | accepted objects, announced links, ruleset registry and its audit | check and store, announce, sweep, add and move rulesets, scan in a child | `ndr.file.*` topics, object store |
| file-observer, file-threat | none | convert | `ndr.file.*` topics |
| asset-service | leases, facts, assets, edges in memory; four ClickHouse tables | fold, flush, restore, timeline | telemetry topics, ClickHouse |
| sensor-registry, detection-registry | SQLite registries | enroll, approve, promote | HTTP |
| correlation-service | findings per entity in a rolling window, saved to ClickHouse | fold, evaluate, persist, prune | final topic in, candidate topic out |
| anomaly-detector | feature windows, learned history in the store, sensor health tallies | extract, close windows, score, learn, promote | telemetry; candidate topic |
| east-west-detectors | sets, observed times and an index per partition in the store, emit keys | add, evaluate, prune | telemetry; candidate topic |
| protocol-detectors | fingerprint baselines, rarity sets, counters in the store, emit keys | handle a record: look up, score, report, learn | telemetry; candidate topic |
| ot, dns, http detectors | window store | threshold detection | telemetry; candidate topic |
| coverage-detector, coverage-service | last-seen per sensor | silence and recovery | candidate topic |
| ids-alerts, zeek-notice, slips-adapter | none | promote one record | candidate topic |
| normalizer, reconstruction, eve-bridge, connector-service, sensor-agent | none worth the name | convert, read counters | telemetry |
| evidence-service, investigation-service | none (read-only) | query | ClickHouse |
| feedback-service, soar-forwarder | feedback rows, sent actions | route, deliver | HTTP |

### 1.2 What is hard here

- Auto-commit and at-least-once delivery: finding-service, the orchestrator, the
  agent and the detectors commit offsets by a timer inside `poll()`, so a crash
  repeats what was handled and may lose what was committed and not finished.
- State in memory only: the pending map, the capture budget, the claims of a
  drain, the in-memory index of a ledger.
- Two writes without a transaction: ClickHouse insert then Kafka flush; emit key
  then candidate; dead-letter truncation then rewrite; Redis pipeline commands.
- Timeouts racing late answers: the sweep against a late enrichment result.
- Two copies of one budget, each in memory and in a file, with messages in between:
  reservations that a failed save, a death or a lost answer leaves behind.
- Two actors on one object: drains of one outbox, threads on one pcap log,
  an evicted replica and its successor on one hash.
- Read, decide, write in separate store calls: two replicas score one source, one
  takes off an index what the other fills; Redis pipelines are no transactions.
- Order that nobody fixes: leases of one address over two topics, pages of evidence
  that grows while it is read, event times of sensors whose clocks disagree.
- Four tables or one table and a topic that a death leaves half written, and a
  restart that must repair them from what it finds.
- Tenancy: finding ids are not unique across tenants, and some messages carry no
  tenant.

### 1.3 What makes each part correct

- finding-service: every candidate ends in a revision that waits for nothing;
  revisions climb; who sees a finding is decided by the policy alone; evidence
  stays with its tenant.
- cases: the audit trail explains the case; feedback is delivered, and twice
  only after a fault.
- forwarder: nothing committed is lost; a delivery is never taken back nor
  repeated knowingly; a dead letter can be found.
- capture loop: budgets hold, slots come back, nothing stays armed, slices and
  evidence belong to their finding and tenant.
- preserve captures: the hourly limits hold for what is really uploaded, a request is
  carried out once, slots survive a restart and come back.
- detectors: no finding is manufactured by redelivery or by members of past
  windows, each is sent once, a novelty is reported when the baseline is ready and
  only then.
- window store: whatever commands interleave, a caller sees what the in-memory
  backend would have shown; nothing is forgotten early.
- threat-intel and hunts: the table says what the feeds said last, credentials stay
  where they belong, hits follow the policy in force, hunts are exact.
- assets: who owned an address when does not depend on arrival order or on deaths.
- files: only promoted rules act, stored bytes get their link, a killed scan is
  never a clean one.
- correlation and anomalies: incidents rest on recent findings of others, windows
  close when they are over, learned rows stand.

## 2. Modules

| module | models | checked by |
|---|---|---|
| `FindingPolicy` | the decisions of `state_machine.py` as operators | through `FindingService` |
| `FindingService` | the consumer loop of `finding-service/app.py` | `MCFindingService` |
| `FindingServiceProofs` | theorems on `FindingService` | TLAPS |
| `CaseStore` | `cases.py`, `store.py`, the case routes of `app.py` | `MCStores` |
| `CaseStoreProofs` | theorems on `CaseStore` | TLAPS |
| `Forwarder` | `findings-forwarder/app.py`, the durability layer of `adapters.py` | `MCForwarder` |
| `ForwarderProofs` | theorems on `Forwarder` | TLAPS |
| `CaptureLoop` | orchestrator, agent and zeek-central composed | `MCPreserveCapture`, `MCCaptureLoop` |
| `CaptureLoopProofs` | theorems on `CaptureLoop` | TLAPS |
| `PreserveCapture` | the v2 path of orchestrator and agent, `capture_v2.py`, `PacketRing` | `MCPreserveCapture` |
| `PreserveCaptureProofs` | theorems on `PreserveCapture` | TLAPS |
| `FilePipeline` | file-artifact, file-yara, its workers and registry composed | `MCDetectors` |
| `ThreatIntel` | feeds, lifecycle, store and consumer of threat-intel | `MCContext` |
| `ThreatIntelProofs` | theorems on `ThreatIntel` | TLAPS |
| `IntelHunt` | intel-hunt | `MCContext` |
| `AssetService` | asset-service and its identity resolution | `MCContext` |
| `Correlation` | correlation-service | `MCContext` |
| `OutboundAnomaly` | anomaly-detector | `MCContext` |
| `ContextProofs` | theorems on `IntelHunt`, `Correlation` and `OutboundAnomaly` | TLAPS |
| `FlowAggregates` | replicas of behavioral-detectors on the Redis window store | `MCDetectors` |
| `EastWest` | replicas of east-west-detectors | `MCDetectors` |
| `ProtocolDetectors` | replicas of protocol-detectors | `MCDetectors` |
| `DetectorsProofs` | theorems on `FilePipeline`, `EastWest`, `ProtocolDetectors` and `FlowAggregates` | TLAPS |
| `WindowStore` | the contract of `shared/store.py`, after the in-memory backend | abstract specification |
| `RedisStore` | the Redis backend and its shards, command by command | `MCStores` |

Components that share no state are checked in one run, each in behaviours of its own:
`MCPreserveCapture`, `MCStores`, `MCContext` and `MCDetectors` extend one module
(`PreserveCapture`, `CaseStore`, `ThreatIntel`, `FilePipeline`) and instantiate the others
(`MCPreserveCapture` takes `CaptureLoop` twice, with overlapping captures and with deaths),
a variable `part` says which of them the behaviour is about, the variables of the others
keep their initial values, and a property of a part is stated of its behaviours (`part =
"hunts" => Hunts!HuntExact`). Nothing is lost: the reachable states are the union of those
of the parts. The modules instantiated this way name what they ask of their constants
(`EastWestAssumption`, ...), and the MC module assumes it of the values it gives.

Definitions keep the names of the source (`build_finding`, `pop_pending`,
`obl_key`, `decide_arm`). An operator introduced by a comment "Mutant: ..." is a
plausible bug in the definition after it; it belongs to no specification, and
`PROJECT.json` pairs it with the property that detects it.

### 2.1 FindingPolicy and FindingService

A candidate is `[tenant, fid, det, cat, ver, sev, conf]`; confidence is a
percentage. A finding keeps its candidate, delivery state, enrichment state,
revision and the set of keys its evidence was captured for, so that evidence of
the wrong finding is visible.

| variable | code |
|---|---|
| `inbox`, `uncommitted` | records of the three topics not yet handled; handled and not committed |
| `pending` | the dict `pending`, entries `[finding, delivered, due]`; `due` abstracts the deadline |
| `finalized` | `_finalized_capture`, the bounded `OrderedDict` |
| `rows` | `ndr.finding`, before any merge |
| `outFinal`, `outCapture` | producer buffers |
| `finalTopic`, `captureTopic` | the topics written |
| `phase`, `degraded`, `restarts` | position in `main()`, whether recovery was incomplete, bound |

One iteration of `main()` is `HandleCandidate`, `HandleResult` or
`HandleStatus` for each polled record, then `BeginSweep`, `SweepOne` for each due
entry, then `Flush`. `Crash` is possible anywhere and lets any part of the
unflushed records leave; `Shutdown` only where the loop tests its condition.
`Start` and `StartDegraded` are the recovery. `Answer` is the capture plane: it
may answer any request at any time, repeatedly, with any of five answers, or
never. ClickHouse may return any row of the highest revision because rows are
only merged in the background.

`redelivered` is a history: the candidates that a crash brought back into the inbox after
they had been handled. Such a candidate starts again at revision 1.

### 2.2 CaseStore

`docs` is the cases table, `outbox` and `delivered` the dispositions table, `claimed` and
`drain` the memory of the drain threads, `receipts` what the feedback Router stored. A
mutation is one action (`mutate()` reads, changes and commits under the lock); a drain is a
step per lock release: snapshot, claim, deliver, mark, release. A drain may be interrupted
or fail before the consumer accepts, and after it: the UPDATE that marks the row, or its
commit, may raise (`DrainMarkFails`), the claim is released and a later drain delivers the
row again. Each HTTP route is an action with the guard of `handle_case`; `audited` is part
of it, since the route appends an event even when the library call changed nothing.

### 2.3 Forwarder

`committed`/`position`/`batch` are the consumer, `work` the progress through
`record_suppressed`, `emit_batch` and `replay`, `ledger`/`outcome` the obligation
file and its index, `dlq` the dead-letter file, `got` the receivers. A failed
write is either a failed open or a failed flush that left a prefix of the lines;
in the second case the index already holds all of them, as in the code. `skipped`
and `torn` are ghosts for the two windows in which the code loses a record. What the
ledger knows is an obligation (`obl_key`), not a record: two records of one finding and
revision are one obligation, so a record counts as handled when any record of its
obligation was received. A list comprehension of the code is `Picked`, the items at
given positions in their order.

### 2.4 CaptureLoop

The orchestrator (`HandleRequest`, `HandleCompletion`), the agent (`TakeDirective` and per
thread `Arm`, `Disarm`, `Carve`, `Isolate`, `Upload`, `Report`, `Exit`), Suricata
(`Packet`), zeek-central (`Enrich`, `EnrichFails`), and the deaths of the orchestrator
and of an agent. Every step of a thread that can fail has its failing branch.

A directive is `[req, n, take]`: the n-th one issued for its request, in its take-th
delivery. A packet is `[at, of]`: the sensor that recorded it and the profile and value it
matches, so that whose packets an upload holds does not depend on who uploads it.
`temp[s][f]` is the file `/tmp/cap-<fid>.pcap`, one for all captures of a sensor with equal
finding ids: `Carve` writes it, `Isolate` looks at its size, `Upload` reads it as it is by
then, and `Report` removes it, whoever wrote it last.

Offsets are committed by a timer, so a death of an agent brings back any of the
directives it had in a thread, and at most one that it had answered; that of the orchestrator
brings back at most one request or status that it had handled. `lost`, `restarts` and
`repeats` are histories: the directives that died with their agent, the deaths of the
orchestrator, each of which leaves an empty budget, and per sensor the answered directives and
read statuses that came again.

### 2.5 FlowAggregates

One hash per (source, destination) pair with a field per flow, a TTL, a counter of
refused writes and an index entry; several replicas that poll, buffer, flush in a
pipeline, and evaluate in separate steps per pair. `Evict` gives a stalled
replica's partition to another while the first keeps writing, which is how a
Kafka group behaves; `FlushFails` cuts the pipeline between any two commands.
`unsettled` is a ghost: the pairs whose writes were dropped by a failed flush or came
from an evicted replica.

### 2.6 PreserveCapture

`central` and `local[s]` are the `Budget.entries` of the orchestrator and of a sensor's
agent, `centralDisk` and `localDisk[s]` their files. An intent is admitted (`HandleIntent`),
its directive sent (`SendDirective`) and its status read back (`HandleStatus`); the agent
checks a directive (`TakeDirective`), reserves it, slices its ring, uploads, finishes and
reports, in separate steps, because the ring's reader (`Packet`, `RingStops`) and its
expiring thread (`ExpireThread`) run beside it; `expire` pops the packets that are older
than the ring, oldest first. A save may raise before or after the file was replaced, a send
may raise after the directive has left, an upload may raise after the object was stored, and
both processes may die between any two steps and start again from their files.

`doubtful` (directives that left although their send raised) is a ghost: no action
reads it, and `DirectivesReserved` names it as the only exception.

### 2.7 FilePipeline

`StoreArtifact` is `process_one` up to the publication, `PublishLink` and `CommitCarved` the
rest of file-artifact's loop, with the retention sweep (`Sweep`) beside it. file-yara
promotes the rulesets of its image when it starts (`BootCheck`, `BootPromote`), one
transaction at a time, while operators move (`OperatorMoves`) and stage (`StageRemote`)
rulesets from other connections. A scan forks a child per ruleset; the child writes its
result to a file and may be killed before, while or after it writes. `Outcome` is what the
parent makes of exit status and file. Bytes are model values; what the archive checks see of
them is a record of size, depth and safety.

### 2.8 ThreatIntel and IntelHunt

The refresher fetches a feed page by page through redirects (`sent` remembers where
credentials went), folds the payload into the rows in memory, one `Turn` for each record and
then for each withdrawal, and commits once, or rolls back; the consumer reads over the same
connection without the writer's lock. `normalize`, `Withdrawn`, `merge` and `Revoke` are the
operators of `feeds.py` and `lifecycle.py`; scores and TLP levels keep their arithmetic, as
integers. `seen` is the bounded hourly deduplication, which remembers the policy a hit was
judged by. IntelHunt models `step` as its two saves under one lock, `Pages` as the keyset
query: the last row of a page that is cut is the one up to which there are just `size` rows.

### 2.9 AssetService

`mem` holds the process's dictionaries. A record is folded by `Poll` through
`record_binding` and `fold_fact`, `Flush` takes one step per table, and the
offsets move only after the fourth. `Restore` folds the stored observations
again and repairs the interval table. `ownership_intervals` is the piecewise
winner of the leases of an address; the run compares it with who should own the
address by the definition of a lease, over any order of arrival.

### 2.10 Correlation and OutboundAnomaly

Correlation keeps severities in hundredths and time in half-lives, so the decayed sums,
family caps and thresholds of `correlate.py` are exact integers. Its own candidates come
back on the topic it reads. A start (`Start`) reloads what it can read: a query that fails
leaves the window empty and a row that cannot be read leaves its entity out, and the process
goes on. `forgotten` is a ghost: the saved rows that the last start missed. OutboundAnomaly
scores with medians and median deviations multiplied out (`Exceeds`), closes windows by
event time and by the clock, and learns rows once; the second half is the tally of checksum
errors by which the detector judges a sensor.

### 2.11 EastWest and ProtocolDetectors

In both, every store call is a step, so that replicas interleave, die, lose the partition or
find the store unreachable between any two. EastWest: `_ew_add` is three calls for each set
of an event; an evaluation visits the keys of its index one by one and prunes in a second
call. A member remembers when its record brought it (`came`), which is a history: the code
has only the expiry. A candidate's id has its detector, the entities the code hashes and the
bucket. ProtocolDetectors: a handler is the sequence of calls its record needs (`Steps`),
with the scores of `proto.py` as operators; `past` and `overlap` are histories.

### 2.12 WindowStore and RedisStore

WindowStore says what each operation of the store does to entries with their own
lifetimes, as the in-memory backend does it. RedisStore executes the same operations
as pipelines of commands on two shards, interleaved with those of another replica,
with one expiry per key. `HonorsContract` is the refinement:
`INSTANCE WindowStore WITH content <- ...`, where an entry's end is that of its key,
of its own score, or about to be set by the pipeline that has just written it. A cut
connection maps to `Break`, which may leave a key without an end. So may a window that
one batch writes more than once (`Rewritten`, `window_add_endless`): the contract admits it,
and `KeysEnd` states what the code says, that every key has an end.

## 3. Runs

| run | bounds | distinct states | question |
|---|---|---|---|
| `finding_crash` | one key reported twice, 1 crash or stop, 1 unread answer, recovery may fail | 342,819 | obligations, revisions and delivery under crashes |
| `finding_tenants` | two tenants sharing an id, three routes, 5 answers, 1 orderly stop | 59,682 | isolation, every candidate finalized |
| `finding_cross_tenant` | as above, answers without tenant | violation | see findings |
| `finding_crash_loss` | one captured candidate, 1 crash | violation | see findings |
| `forwarder` | two sinks, two partitions, 4 records, 1 retry, 1 fault, 1 replay | 275,402 | durability of the last hop |
| `forwarder_skip` | one sink, two records, 1 fault | violation | see findings |
| `capture` | preserve: three intents, two of one finding; one sensor, hour 2, directive lifetime 1, ring of one packet, one job, two requests and one tenant's request an hour, policy ends at 3, 1 fault; overlap: two of three requests with one finding id, of two tenants behind two sensors, two jobs; deaths: a capture by name and one by host for one slot, 1 death | 797,363 | budgets, evidence, answers of both ways of capturing |
| `capture_isolation` | two captures by host on one sensor, two slots | violation | see findings |
| `stores` | cases: one case, two tenants' analysts, two drains, 4 audit events, 1 fault; redis: two replicas, three batches each, two shards, lifetime 1, cap 1, 1 broken connection | 186,449 | the audit trail, the disposition outbox; the Redis backend implements the contract |
| `context` | feeds: two feeds, two rounds, 1 fault; hunts: two tenants, pages of 2, 1 failure; assets: eight records on two topics, 1 death; risk: five findings, window 1, 1 death; peers: eight records, width 2, 1 death | 1,707,999 | see 3.3 |
| `detectors` | flows: two replicas, three records, window 1, cap 1, 1 fault, 1 rebalance; east: two replicas, five streams, window 1, 1 fault; proto: two replicas, five inputs, span and lifetime 1, 1 fault; rules: one file, a bundled and a remote ruleset, an authorised and another operator, 2 moves, 1 fault; files: a bomb, the file of another tenant and a file, 1 move, 1 fault | 1,395,221 | see 3.3 |
| `window_without_end` | the redis part of `stores` | violation | see findings |

Why the bounds are enough. Each property relates at most two keys, sinks, tenants, threads
or replicas, so two of each let them collide; one more adds copies of the same interaction.
One fault is placed at every point of every interleaving; a second fault adds nothing to the
finding loop because a stop forgets all memory, and elsewhere the exemptions (`torn`,
`skipped`, `lost`, `doubtful`, `unsettled`, `forgotten`, `redelivered`) are per record, so a
second fault repeats the first on another record. Caps are at their smallest value at which
they can be exceeded: a finalized cache of one, one retry, a budget of one, a ring of one
packet, a flow cap of one, a window of one second that tumbles within the run. `MaxAudit =
4` is enough for create, link a finding and an entity, and resolve. Windows, spans and
lifetimes of one unit with two or three units of time let everything expire once and be
written again. In `ProtocolDetectors` one observation makes a count sufficient, so that a
source matures with two records and the interleavings of two handlers stay within reach; a
third record is in the input of one replica.

Deadlock is checked where the loop runs for ever (the finding runs); elsewhere a
finite log or bounded audit trail really ends.

### 3.1 Fairness

- FindingService: `main()` keeps iterating and is restarted by its supervisor;
  the clock advances; a poll returns every candidate at last (strong fairness,
  because a crash can interrupt handling again and again). Nothing is assumed of the
  capture plane, so every finalization rests on the sweep.
- CaseStore: no service in the repository calls `drain_dispositions` yet; its
  docstring relies on "the next drain". The model assumes that drains are run again,
  that their threads are scheduled, and that a consumer tried again and again
  accepts at last.
- Forwarder: the process is scheduled and restarted. Receivers owe nothing: a
  record that is never accepted must end as a dead letter.
- CaptureLoop: services poll and threads run; windows end by their TTL. No packet
  and no crash need come. The shared run asks this of the part with deaths, where liveness is
  checked.
- PreserveCapture: both services poll and run on, and a dead agent is started again
  (its ring is refused once the policy has expired). Time need not pass, packets and
  faults need not come, so nothing rests on a directive expiring.
- The other modules state no fairness: their properties are about safety.

### 3.2 Findings

Five runs are expected to be violated; each shows a disagreement between the code
and its own words, quoted in `PROJECT.json`.

1. `finding_cross_tenant`: an answer without tenant is matched by id alone when
   one entry with that id is left, so a late result of one tenant is attached to
   the other's finding. With tenant-bearing answers (`EchoTenant`), the property
   holds (`finding_tenants`).
2. `finding_crash_loss`: the terminal row is inserted before the flush, and
   recovery reads only unfinished rows, so a crash in between leaves the finding
   unsent.
3. `forwarder_skip`: after a failed ledger write the loop goes on, and the next
   batch's `commit()` passes the failed one.
4. `capture_isolation`: when the carve yields nothing, the shared file is
   shipped.
5. `window_without_end`: a batch sends one EXPIRE per key (`store.py:408`), so a window that
   a reader empties between two writes of one batch is created anew without TTL, against
   "Every key gets a TTL" (`store.py:342`).

Observed in the code while modelling, without a run of their own:

- a candidate redelivered after a crash restarts at revision 1
  (`state_machine.py:231`), so one revision can get two contents, a TIMEOUT and an
  ENRICHED one, against the comment at `finding-service/app.py:119-121`; `RevisionLadder`
  excludes a second content for every other candidate;
- a late tenantless result of a non-default tenant is dropped
  (`finding-service/app.py:344`), and a degraded start never retries its recovery
  (`app.py:631`, against the comment at 622-624);
- a crash between the consumer's acceptance and `delivered=1`, or an UPDATE or commit that
  fails there, delivers a disposition twice (`store.py:258-268`); the copies are bounded by
  the faults;
- a disposition's identity contains the audit length, so enqueueing the same
  resolution again after a note yields a second row (`store.py:165`);
- a single-sink forwarder never compacts (`findings-forwarder/app.py:104`); the
  rewrite of the dead-letter file is not atomic (`adapters.py:380`), and a torn line
  makes `replay()` raise (`adapters.py:361`);
- stopping an agent leaves its values armed and its central slots taken; two
  captures of one value disarm each other; `bytes_captured` never decays; a directive
  that comes again after it was answered runs again, and its second status frees
  the slot of another capture; captures of equal finding ids on one sensor write, ship
  and remove one temp file (`capture-agent/app.py:143`);
- active reservations of a preserve budget never age out: a death between a saved
  reservation and its finish takes a slot for ever, and with `max_jobs = 1` the
  sensor preserves nothing more (`capture_v2.py:146`);
- a preserve request's id is the same for every intent of a finding, so a late status
  of one intent frees the slot of the next; `DirectivesReserved` states what is left;
- an agent that dies after the upload refuses the redelivered directive as a
  duplicate: the object is stored and no result names it. A finish whose save fails
  reports a stored object as failed (`agent.py:452`); the same failure in the
  orchestrator ends the process (`capture-orchestrator/app.py:164`);
- an agent whose ring policy has expired does not start at all, v1 captures included
  (`PacketRing` raises in `main`);
- a replay of an older interim record lowers a field until the later one comes
  again, and a replay after the window tumbled counts again in the new window;
  a pair whose total grows is reported again in the same bucket, because the
  finding id contains the total;
- the emit key is set before the candidate is sent, in all detectors: a death in
  between suppresses the finding for the rest of its bucket; the rare-destination
  cursor advances before the loop that uses it (`behavioral-detectors/app.py:590`);
- window store: a cut pipeline leaves a key without an end or off its index, against the
  comment at `store.py:381-383`. The in-memory window keeps two equal events, Redis one;
- east-west: a replica that has lost the partition takes a set off the index which it
  read as empty before the new owner filled it (`app.py:102`, against "survives crash
  and rebalance", `app.py:10`); the set is evaluated again when its source is active
  again. Each new count of a set is a candidate of its own;
- protocol-detectors: the bytes of every flow of a pair count as ICMP bytes
  (`app.py:249`; only the last flow's protocol is looked at); the event type stands in
  for an absent `app_proto` (`app.py:160`), so that QUIC on 443 is a mismatch, against
  "Skips absent/unknown app_proto" (`proto.py:130`); SNI and HTTP host are
  compared only when TLS is handled first, though they come on different topics; two
  replicas that count one source may lose a count, which delays maturity;
- correlation-service: offsets are committed in the background and the window saved once a
  minute, so a crash loses committed findings from the window (`app.py:194`, against "a
  restart keeps the window", `app.py:5`); a replay stamps findings anew, so the same
  findings may be raised again under another reason (against the comment at `app.py:141`);
  equal receipt stamps make any mix of stages an ordered chain; one family over two stages
  trips the multi-tactic rule (against the comment at `correlate.py:75`); an asset that
  becomes known later splits a host between two keys; a reload that fails is logged and
  swallowed, and the next save writes the rows anew from the window it left
  (`app.py:125-129`);
- anomaly-detector: a failed send after a row was learned loses its finding; after a
  restart a window that was under way is undercounted;
- asset-service: a host-name fact that a replay keys anew leaves its old row without
  tombstone (against `app.py:314-315`); `merge` may move `last_seen` back and does not
  widen `first_seen` (`resolution.py:306,315`); a record that cannot be handled
  blocks its partition (`app.py:457`);
- threat-intel: lookups see a batch before its commit, and one that is rolled back
  (`store.py:114`); expired assertions are never removed;
- files: bytes announced again keep their old age; a swept object raises in
  file-yara and stops it again at every restart; after a death in the bootstrap the
  bundled baseline may stay in shadow;
- the outbox says "exactly once" (`store.py:30`), but the feedback Router mints a new id for
  every retry it accepts;
- between the authorization of a preserve directive and the slice the policy or the
  packets may expire (`agent.py:422`): the slice then finds less than was asked for.

### 3.3 The shared runs

`context`. Feeds: what the table says of an indicator is what each feed said last, through
cut-off collections, rollbacks and withdrawals (`StoreFollowsFeeds`); credentials go only to
the origin they were configured for, over TLS (`CredentialsProtected`); a hit is reported or
filed by the policy in force, once an hour for each policy (`HitsFollowPolicy`). Hunts:
`HuntExact`. Assets: the stored intervals are the owners by the leases, whatever the order
of arrival and the death (`OwnershipAgrees`), and committed records are in the tables
(`EvidenceDurable`). Risk: `RestsOnRecentFindings`; what was saved and is still of the
window is in memory, unless the start could not read it back, and then of that entity only
(`SavedIsKept`). Peers: `NoEarlyClose`, and learned rows stand (`HistoryStands`, an action
property).

`detectors`. Flows: no candidate reports more than was sent, and fields are current
(`NoFalseExfil`, `FieldsCurrent`). East: candidates count only members that a record brought
within the window, whatever else is written to the set (`EvidenceFresh`), there is one
candidate for a detector, its entities and a bucket (`EmittedOnce`), live sets are on the index
while the partition stays and the store answers (`LiveSetsIndexed`). Proto:
`NoveltyJustified`, and its converse `NoveltyReported` when handlers of a source do
not overlap. Rules and files: one specification with two sets of bounds. Two moves
let a remote ruleset become active, or a ruleset be retired while the service starts
(`OnlyPromotedRulesAct`); several files are linked across deaths (`CommittedLinked`);
there every scan ends in a stored verdict (`ScansAccounted`), while the only link of the
first set is refused and nothing is scanned.

`capture`. Preserve captures: `HourlyBytes`, `PreservedOnce`, `DirectivesReserved`, and
`IntentsAnswered`. Capture loop, overlapping captures and deaths: what is outstanding is
covered by the budget, the orchestrator's deaths and Kafka's repeats
(`BudgetCoversOutstanding`). Overlapping captures: the packets a finding is enriched from
were recorded by a sensor of its tenant (`EnrichedFromOwnTenant`). Deaths: every request is
answered, or its directive was lost with its agent (`EveryRequestAnswered`).

`stores`. Cases: `AuditExplainsCase`, `DeliveredOnce`, and the liveness property
`EventuallyDelivered`. Redis: `HonorsContract`, of a contract in which a window that one
batch writes again may be left without an end. No drain is enabled in a behaviour of the
Redis part, so the fairness of the drains asks nothing of it.

## 4. Proofs

Eight modules hold theorems, each about a component's specification for all values
of its constants: any sets of tenants, sensors, requests, cases, feeds, events, records,
sinks, replicas and rulesets, any limits, and any number of faults. A theorem is about
the very definitions the runs check.

| module | theorem | property |
|---|---|---|
| `FindingServiceProofs` | `TypeCorrect` | `TypeOK` |
| | `ObligationsNeverLost` | `ObligationsTracked` |
| | `RevisionsClimb` | `RevisionLadder` |
| | `PolicyDecidesDelivery` | `SuppressionConsistent` |
| | `EvidenceStaysWithTenant`, if `EchoTenant` | `EvidenceOwnTenant` |
| `CaseStoreProofs` | `AuditAlwaysExplains` | `AuditExplainsCase` |
| | `MutationsAudited` | `NoSilentMutation`, an action property without a run |
| | `DispositionsDeliveredOnce` | `DeliveredOnce` |
| `ForwarderProofs` | `TypeCorrect` | `TypeOK` of `Forwarder` |
| | `NothingCommittedIsLost` | `CommittedHandled` |
| | `NothingTerminalIsResent` | `TerminalNotResent`, an action property |
| `CaptureLoopProofs` | `BudgetAlwaysCovers`, from `CaptureAssumption` | `BudgetCoversOutstanding` |
| | `EnrichmentKeepsTenants`, from `CaptureAssumption` | `EnrichedFromOwnTenant` |
| `PreserveCaptureProofs` | `DirectivesStayReserved` | `DirectivesReserved` |
| | `OncePerHour` | `PreservedOnce` |
| | `UploadsWithinHourlyBytes` | `HourlyBytes` |
| `ThreatIntelProofs` | `CredentialsStayHome` | `CredentialsProtected` |
| | `HitsAlwaysFollowPolicy` | `HitsFollowPolicy` |
| | `StoreAlwaysFollowsFeeds` | `StoreFollowsFeeds` |
| `ContextProofs` | `HuntsAreExact`, from `HuntAssumption` | `HuntExact` |
| | `SavedStaysKnown`, from `CorrelationAssumption` | `SavedIsKept` |
| | `IncidentsRestOnEvidence`, from `CorrelationAssumption` and `ThresholdAssumption` | `RestsOnRecentFindings` |
| | `NothingClosesEarly`, from `OutboundAssumption` | `NoEarlyClose` |
| | `LearnedRowsStand` | `HistoryStands`, an action property |
| `DetectorsProofs` | `CommittedEventsLinked` | `CommittedLinked` |
| | `EveryScanAccounted` | `ScansAccounted` |
| | `OnlyPromotedRulesFind` | `OnlyPromotedRulesAct` |
| | `CandidatesFreshAndSingle`, from `EastWestAssumption` | `EvidenceFresh`, `EmittedOnce` |
| | `LiveSetsAreFound`, from `EastWestAssumption` | `LiveSetsIndexed` |
| | `NoveltiesAreJustified`, from `ProtocolAssumption` | `NoveltyJustified` |
| | `NoveltiesAreReported`, from `ProtocolAssumption` | `NoveltyReported` |
| | `NothingIsManufactured`, from `FlowAssumption` | `NoFalseExfil` |
| | `SettledFieldsAreCurrent`, from `FlowAssumption` | `FieldsCurrent` |

Assumptions. Each module's proofs use the assumption of the module they are about and
nothing else: `PolicyAssumption`, `ServiceAssumption`, `CaseAssumption`,
`ForwarderAssumption`, `PreserveAssumption`, `IntelAssumption`, `FileAssumption`. They give
the constants their types (topics, findings and payloads are sequences, limits are numbers),
and TLC evaluates them in the runs. Two say more: `PreserveAssumption` has a directive live
less than an hour (the code has one minute), and `FileAssumption` keeps the name of the
bootstrap apart from those of the operators. The modules that a run instantiates
(`CaptureLoop` is one) state theirs as a definition, which the MC module assumes of the
values it gives and the theorem has as hypothesis; `HuntAssumption` says that observation
ids are unique (the view is a DISTINCT union of five tables, whose ids are assumed not to
coincide at one time) and start at 1, since 0 stands for the empty cursor,
`ThresholdAssumption` that no one finding's severity reaches the risk threshold (10 at most
by the finding contract against 12.0, `correlate.py:70-83`) and that an incident takes two
stages (`MIN_TACTICS`), `FlowAssumption` that there are finitely many partitions, a flow
keeps its pair and a pair its partition (the bus is keyed by source), the others give types
and ask that windows are not empty. `EchoTenant` is a hypothesis of one theorem: every
answer of the capture plane names its tenant. Without it the statement is false, and the run
`finding_cross_tenant` is the counterexample.

### 4.1 FindingService

None of the safety properties is inductive. `IInv` adds:

- `PendingWaits`: entries of the pending map are unfinished first revisions whose
  delivery state fits the policy. Without it a finalization could produce revision
  7, or send a state the policy did not choose.
- `finalized \in Seq(TimedOut)`: the cache holds second revisions that timed out
  and whose row exists, so that a late result makes a third revision above an
  existing second one. This is the third rung of `Rungs`, the half of `RevisionLadder` that
  says which revisions there are.
- `RowsSound`: what recovery reads back fits the policy, so `PendingWaits` survives a
  restart; without ClickHouse there are no rows, and nothing is obligated.

The other half, that no revision of a finding has two contents, is about pairs of rows and
takes an invariant of its own, `SingleInv`, on top of `IInv`: a key has one entry in
the pending map and one in the cache (`OneEntry`, `CachedOnce`), or two answers would
each write their revision; what waits in the map has only its first row
(`WaitsAtFirst`), and what is in the cache no third one (`NotReopened`), so the row that a
finalization adds is the first of its revision; and a candidate that is still unread and
was not brought back by a crash has no row at all (`UnreadIsNew`).

Lemmas give what `build_finding`, `apply_enrichment_result` and
`finalize_timeout` return; `EmitFacts` gives what inserting a terminal revision does
to rows, ladder and obligations (it removes the key's own, and creates none);
one lemma per handler or group of quiet steps preserves `IInv`; a restart is
`StopInv` and the start lemmas, where any view of the highest revisions covers
every obligated key, because all its highest rows are unfinished.

`EvidenceInv` says of entries, rows, cache, buffers and topics that evidence is the
finding's own: a result that names its tenant is matched by tenant and id.

### 4.2 CaseStore

`TrailInv`: the audit trail is never empty, and some function that agrees with the
replay at every prefix gives the case at the whole trail. The replay is
a recursive function; that two such functions agree, and that appending an event
changes no shorter prefix, is a least-number argument (the first prefix at which they
differed would follow one at which they do not), since the library's induction
theorems are out of reach. `NextAudited` says of every route which event its change is: from it
follow `TrailInv` and `NoSilentMutation`.

`DrainInv`: a claimed row is in the hands of exactly one thread. A row that is marked, or that
a thread is about to mark, is settled: it has been received. No row has more copies than
there were faults, plus one if it is settled. A mark that fails unsettles its row and
is a fault, so the bound holds where the copy stays and the row goes back to the outbox.
Without the second half the property does not survive the step between delivery and mark.

### 4.3 Forwarder

`IndInv` is a chain from the ledger file to the committed offset:

- `Control`: what is in hand agrees with the phase, and between batches nothing is.
- `Filed`: while the process lives, its index knows every obligation of the file, and as
  delivered those that the file last calls so. A failed flush leaves more in the index
  than in the file, so the two are not equal, and equality is not asked for.
- `Justified`: every line, of index or file, is true: a delivered obligation was
  received, a dead-lettered one has its payload in the dead-letter file, was torn
  from it, or has been received. A restart trusts the file, so this must hold of the file also.
- `Attempted`: the items of an attempt are different obligations that the file does not
  know, those that did not fail were received, and those about to be marked are in the
  dead-letter file. It is what makes the new lines true, and a send no repetition.
- `Owed`, `Passed`: what the current sink has not accounted for of the batch is pending,
  and the sinks before it have accounted for all of it unless a write failed.
- `ReadSettled`, `CommittedSettled`: what was read is settled at every sink, in hand, or of
  a batch that was given up; what is committed is settled or given up.

Without `ReadSettled` the commit of one batch would not be justified: it covers the
position of all partitions. Compaction is stated by what it keeps, the
last line of every key, so no fold over the file is needed.

### 4.4 CaptureLoop

`BudgetInv` compares two numbers of a sensor: its budget's count, and its load, the directives
waiting, in a thread, or in an unread status. The load is at most the count, `MaxJobs` for
each death of the orchestrator, and what Kafka delivered again. Each step pays for what
it does: an admission adds one to both; a status that is read takes one off the load and at
most one off the count; an agent's death trades threads for directives, and each
answered directive that comes again is counted in `repeats`, as is each status read
again by the orchestrator; the orchestrator's death empties the count, which was at most `MaxJobs`,
and adds one to `restarts`. That the count never exceeds `MaxJobs` is part of the invariant,
because the last step needs it. The sets are finite, and their cardinalities are moved by
lemmas of one element each.

`TenantInv` follows the packets. `DiskInv`: what a sensor's log and temp files hold was
recorded by that sensor, whichever thread wrote them. `StoreInv`: an object's key
starts with its tenant, and its packets were recorded by a sensor that some request of that
tenant names; so an upload to one key never replaces an object of another tenant between
request and enrichment, and a temp file overwritten by a capture with an equal finding id
still holds packets of the same sensor only.

### 4.5 PreserveCapture

- `SlotInv`: the entry of every directive that is out, or that may be delivered again, is
  active in the orchestrator's memory and in its file; a status that can still be read, or
  be read again, answers something; and nothing else that is unanswered shares the
  request of a directive that is being sent. The file belongs to it because a death
  replaces the memory by the file.
- `OnceInv`: an upload of the last hour, and a slicing job, is remembered in the agent's
  file and, unless the agent is down, in its memory; a job in hand is an hour from every upload of
  its request.
- `CountInv` and `PlaceInv`: a charge is the pair of request and time of a
  directive. The charges of the last hour are in the central budget and in its file, and
  keep the hourly limits; every upload has a charge, and no two share one. The last part is
  hard: a directive delivered again may wait between its check and its reservation until
  its earlier entry has aged, so the agent's budget alone does not stop a second upload. But
  it comes again only through a death, which empties the ring; every packet read
  since is younger than its window, and the slice finds nothing. For this the proof
  needs that a directive is in one place.

`PacketRing.expire` pops packets while the oldest is stale, which the model states as the
longest stale front; that there is one is again a least-number argument.

### 4.6 ThreatIntel

`FetchInv`: a fetch with credentials is still at its configured origin (a
redirect of it is refused), and what was sent so far was protected. `MemoryInv`: what the
bounded memory holds has been answered, so a hit that is dropped as repeated has
its answer under the same policy, whatever was evicted or moved to the end before.

`StoreInv`: `StoreFollowsFeeds` is about what was committed; `JobInv` adds where the
refresher is in its transaction and what the table holds there: what is committed, until
the first write; then the rows that are due, and, before the deletions, those to be deleted.
What a batch makes of a row is `Told`: a withdrawal in the payload outlives its records,
else the last record counts, and the other feeds' assertions stay. That the loops
compute this (`Progress`) is again a least-number argument over the turns.

### 4.7 IntelHunt, Correlation and OutboundAnomaly

`HuntInv`: of the evidence that was stored when a hunt began, what its cursor has passed and
matches is among the hits; every hit is a match of its tenant inside the window; hits belong
to a job that was recorded. `PageFacts` says what makes the cursor sound: everything between
the old cursor and the new one is on the page, with ties in time decided by the id on both
sides, and the cursor never leaves the window's start. The hits and the cursor are saved in
one step, so a failure leaves both.

`KeptInv` (Correlation): nothing structured, the findings a reload leaves out, is ever in
the window or in a saved row, so a reload brings back all that was saved of an entity it can
read, and what it cannot read is `forgotten`; and a save writes what the window holds, so
neither pruning nor a save of an empty window loses something that is not too old.

`RestInv` adds that nothing in the window or a saved row was received later than now, so
that ages are not negative. The weight is in `OneFindingIsNoIncident`: findings that are all
the same, however often they were received, show one stage, are no chain, and stay below the
threshold. For the last, the two folds of `entity_risk` are over one detector and one family
and are unfolded by hand (`OneDetector`, `OneFamily`); the most recent item exists because
times are bounded; that a decayed severity is at most the severity takes that powers of two are
positive, which the prover does not know of `^` and which comes from counting the subsets of
an interval (`Powers`). A corroboration has two detectors by definition.

`CloseInv` (OutboundAnomaly): windows are closed at a multiple of their width and behind the
wall clock by the allowed lateness, since event time is cut to the wall clock before
it moves the watermark; a tally belongs to the current health window or to one that is over.
`LearnedRowsStand` needs no invariant: a row that exists is not learnable.

### 4.8 FilePipeline, EastWest, ProtocolDetectors and FlowAggregates

- `ArtifactInv`: the event in hand is the next one to be linked, and everything read,
  not only what was committed, has its link.
- `ScanInv`: the results in hand belong to the next link and there is at least one; everything
  read is accounted for; stored results of killed children are neither clean nor matches.
- `RuleInv`: the last move on record that was not denied says where a ruleset stands, a
  retired one is still retired, a remote one that serves was admitted by an authorised
  actor, and what acts, in hand or in a finding, was made active. It reaches from the
  registry over the child's result to the finding, because the ruleset may be moved on
  between these steps.
- `CandidateInv` (EastWest): a member expires just one window after its record brought it
  (`came`), since no store call refreshes a member's expiry, so what an evaluation counts
  came within the window; an emitted candidate's mark outlives the end of its bucket,
  whoever emitted it.
- `IndexInv` (EastWest): a live member is named by its partition's index at least as
  long as it lives, or its record will be handled again, or the record in hand has the
  index call still to come (`Found`). For that a record's calls must be such that every
  member call is followed by its index call (`RecordCalls`, for every kind of record),
  only the owner works, and what an evaluation holds as empty is empty
  (`Working`). It holds while no partition moved and no call failed;
  section 3.2 tells how it fails when a partition moves.
- `NoveltyInv` (ProtocolDetectors): writes are numbered (`PastOK`); the baselines in the
  store rest on the writes of their source, as many as they count and without a gap
  until they expire (`KvOK`), although two handlers may read the same count and write it
  back one after the other: a lost update makes the count too small, never too large;
  what was learned can be read until it is forgotten (`Learned`); and a
  handler's copies of both are borne out as of its start, and so is a candidate
  that waits to be sent (`HandsOK`). `StepsPlain` says of every kind of record that its
  other steps do not touch what a source is known by.
- `ReportInv` (ProtocolDetectors), the other direction, while handlers of a source do not
  overlap and no process died: a source has one handler (`Alone`), so the copies that a
  handler read are what the store still holds until its own writes (`ReportHand`). The
  baseline in the store counts every write since the last gap and began no later than
  the first of them (`KvTells`): now no update is lost, and the count is not too small
  either. A source is known only by what was learned of it (`OnlyLearned`). With these, a
  fingerprint for which a report is due (`Due`) is found novel when it is scored
  (`DueIsNovel`). Between the score and the learning the report is out or is the handler's
  next step, and a suppression mark means that the report was sent or is about to be
  (`MarksTell`), so a mark never hides the only report. What is written later
  never makes a report due that was not (`DueBefore`).
- `FlowInv` (FlowAggregates): buffers hold records of the log, a field belongs to a flow of
  its pair and says no more than that flow ever sent, and what `evaluate()` has read of a
  pair, and so every candidate made of it, says no more than its flows sent together. A
  redelivered record overwrites its field, so the bound survives it; it survives a
  pipeline cut after any command, and a hash that expires. The sums, the pipeline and the
  concatenation of the polled records are folds. That the function a fold iterates exists
  is proved by applying its equation n times, which makes it right for sets of less than n
  elements (`Recursion`); `Inductive` is induction over the numbers for a set, in place of
  the library's theorem for an operator, and gives that a sum over fewer flows of less is
  no more (`SumGrows`).
- `CurrentInv` (FlowAggregates): for each partition there is a position, between the commit
  and what was polled, up to which the records are in the store, and the rest is in the
  owner's buffer (`Handled`); a settled field was said by a record that is the last of
  its flow up to that position or is itself after it (`Fresh`). The second half
  of `Fresh` is needed because a partition begins again at its commit while later values
  are in the store. `PipelineOverwrites` is last write wins, flow by flow, under the cap;
  `FlattenEnds` that records of other partitions do not come between. A flush of an evicted
  replica is why the pair must be settled: it writes older values over newer ones.

The proof about novelty found an error in the model: `Maturity` left out that `baseline_maturity`
calls a baseline without a first time cold (`proto.py:61`). No bound of the run told the
two apart, and without the test the theorem does not hold for a threshold of zero
observations.

### 4.9 Only model-checked

- Liveness, and everything else that rests on fairness: beyond the prover.
- `OwnershipAgrees` and `EvidenceDurable`: they are about what a fold over evidence of any
  length returns (the resolution of identities). The theorems on FlowAggregates show the
  way; these are not done.
- `HonorsContract`: it holds of the run's scripts, of which one batch writes a window twice
  while the other replica reads it; the contract lets such a window be left without an
  end, since the code does (`KeysEnd` is violated, 3.2). Its steps are not proved for every
  value of `Script`.

## 5. Abstractions

- The default recovery window is six hours: an outage is taken to be shorter.
- ClickHouse inserts are synchronous, and a failed one stops the process.
- Ledger retention is off, as by default; lines are written whole.
- One pcap file without rotation; the orchestrator's flush belongs to its handler.
- CaptureLoop: tcpdump writes a temp file at one instant, and a file of a header only is no
  file. A sensor that only one tenant's requests name is that tenant's, as the
  orchestrator asks of preserve policies (`capture-orchestrator/app.py:38`); of a sensor that
  several tenants share, `EnrichedFromOwnTenant` says nothing (`capture_isolation` does). The
  agent's consumer starts at `latest` for a group without committed offsets; directives are
  published after the agent has joined. `EveryRequestAnswered` exempts the directives
  that died with their agent.
- PreserveCapture: a unit of time is longer than the auto-commit interval and than
  the orchestrator's lag, so time passes only when no status is unread; what a dead
  process had in hand is redelivered, and at most one more record that was read
  since the last commit. Intents carry no `trigger_ts` (no producer sets it), so the
  window ends when the intent is read. Every directive asks for the policy's
  `max_bytes`, so bytes are counted in requests. Signatures are good.
- FlowAggregates models the Redis backend with integer seconds; the `lcf:` hashes
  are the same structure holding seconds. The other behaviours of behavioral-detectors
  (beaconing, scans, first-seen destinations) are not modelled.
- EastWest and ProtocolDetectors: one tenant; protocol fields are what the scores tell
  apart. The writes that only give a JA4 candidate its context are one step. Handlers
  are short against windows: time passes between them. `LiveSetsIndexed` exempts store errors and
  moved partitions.
- ThreatIntel: the parsers of the feed formats are what they yield: an object with
  score, markings and validity; an indicator whose STIX validity cannot be parsed counts as
  withdrawn (`feeds.py:501-508`). AssetService: evidence extraction is by record type.
- FilePipeline: YARA matching is a given relation between rulesets and bytes. file-artifact's
  consumer starts at `latest` (`file-artifact/app.py:128`); events that arrive before its group
  has committed for the first time are not modelled.
- OutboundAnomaly: every observation, of connections or not, moves the watermark, which is
  capped by the wall clock; the model lets connections move it; one cohort; rational scores
  are compared multiplied out.
- External code (Kafka, ClickHouse, Redis, SQLite, Suricata, the SIEM receivers, the
  feedback Router) is modelled from how the services use it.

Not modelled, and why: `PROJECT.json` lists each component. Format conversion, feed
parsing, query services and payload layouts keep no state; statistical scores
are real arithmetic that TLC does not evaluate; benchmarks and deployment are not
part of the running system.

## 6. Plan

Order of work, most important behaviour first. Done: items 1 to 8, and of item 9 what
section 4 lists.

1. FindingPolicy, FindingService and its first proofs.
2. CaseStore with concurrent drains.
3. Forwarder.
4. CaptureLoop, the composition of three services.
5. FlowAggregates.
6. Preserve captures on both sides, and the packet ring.
7. The window store as an abstract contract, and the Redis backend as its refinement.
8. The services with state of their own: asset-service, threat-intel, intel-hunt, the
   file pipeline, correlation, anomaly detection, east-west and protocol detectors.
9. Proofs about the modules that are only model-checked so far (what is left is below).
10. What is left of behavioral-detectors (first-seen destinations and their cursor), the
    ot, dns and http thresholds, the two registries, coverage states.
11. An abstract delivery specification (a finding is open, decided, delivered)
    that FindingService and Forwarder refine.

Theorems to follow, with the strengthening each is expected to need:

- RedisStore: the steps of `HonorsContract`, action by action, for every script.
- AssetService: `EvidenceDurable` and `OwnershipAgrees`, with an invariant on what the fold
  over a host's evidence has resolved up to each row.
