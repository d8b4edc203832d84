--------------------------- MODULE OutboundAnomaly ---------------------------
(***************************************************************************)
(* anomaly-detector: outbound volume.  Connections are summed per source   *)
(* and event-time window; a window is closed when the watermark, behind    *)
(* the newest event or the wall clock by the allowed lateness, has passed  *)
(* it; each row of a closed window is scored against earlier rows of the   *)
(* host and of its peers, and then learned.  History is the shared store:  *)
(* it outlives the process, which replays what it had not committed.       *)
(*                                                                         *)
(* An observation is [topic, id, entity, at, bytes], one tenant and one    *)
(* cohort.  Suricata's anomaly events, [topic, id, sensor, kind], become   *)
(* candidates when they are threats; all are tallied per sensor and window *)
(* of the wall clock, to tell a sensor that rejects what it captures.      *)
(***************************************************************************)
EXTENDS Integers, Sequences, FiniteSets, FiniteSetsExt

CONSTANTS
    Stream,        \* observations and anomaly events, in order of arrival
    Width,         \* FEATURE_WINDOW_SECS
    Lateness,      \* FEATURE_LATENESS_SECS
    HistoryWindows, MinSamples, MinPeers, Threshold, ScaleFloor,
    Retention,     \* retention_seconds
    EmitWindow,    \* WINDOW_SECS
    HealthWindow,  \* CHECKSUM_HEALTH_WINDOW_SECS
    MinSample,     \* CHECKSUM_HEALTH_MIN_SAMPLE
    MaxTime, MaxCrashes  \* bounds

Observations == {o \in {Stream[i] : i \in DOMAIN Stream} : o.topic = "observation"}

\* What the constants are; assumed where they get their values.
OutboundAssumption ==
    /\ {Lateness, MaxTime, MaxCrashes} \subseteq Nat
    /\ {Width, HistoryWindows, MinSamples, MinPeers, Threshold, ScaleFloor, Retention,
        EmitWindow, HealthWindow, MinSample} \subseteq Nat \ {0}
    /\ HistoryWindows >= MinSamples
    /\ Stream \in Seq({Stream[i] : i \in DOMAIN Stream})
    /\ \A o \in Observations : o.at \in Nat /\ \A p \in Observations : o.id = p.id => o = p

VARIABLES
    wall,
    read, committed,
    pending,    \* FeatureExtractor.pending: [entity, start, refs]
    closed,     \* closed_before
    newest,     \* event_watermark
    history,    \* the store: [entity, start, bytes, until]
    findings,   \* [entity, start, bytes, peers], peers the rows they were judged by
    late,       \* history: observations dropped as late at this instant, [id, wall]
    emitted,    \* _emitted: [id, bucket] of promoted protocol anomalies
    tally,      \* _checksum: [sensor, bucket, n], n the events of each kind
    assessed,   \* history: tallies that were assessed, with the verdict
    busy,       \* the poll under way returned records
    crashes

outbound == <<pending, closed, newest, history, findings, late>>
health == <<emitted, tally, assessed>>
vars == <<wall, read, committed, outbound, health, busy, crashes>>

Never == -1
WindowOf(t) == (t \div Width) * Width
Obs(id) == CHOOSE o \in Observations : o.id = id
Bytes(refs) == MapThenSumSet(LAMBDA id : Obs(id).bytes, refs)
-----------------------------------------------------------------------------
(* FeatureExtractor.                                                       *)

\* One observation counts once in its window, however often it comes; one whose window
\* has been closed is only counted as late.
add(o) ==
    LET start == WindowOf(o.at)
        old == {r \in pending : r.entity = o.entity /\ r.start = start}
        refs == UNION {r.refs : r \in old}
    IN  IF start < closed
        THEN late' = late \cup {[id |-> o.id, wall |-> wall]} /\ UNCHANGED pending
        ELSE /\ pending' = (pending \ old) \cup {[entity |-> o.entity, start |-> start, refs |-> refs \cup {o.id}]}
             /\ UNCHANGED late

\* Mutant: the clock of a sensor moves the watermark wherever it likes.
SensorTime(at) == at
\* A stamp from the future moves the watermark no further than the wall clock.
EventTime(at) == IF at < wall THEN at ELSE wall

Boundary(watermark) == WindowOf(watermark - Lateness)
Ripe(boundary) == {r \in pending : r.start + Width <= boundary}
-----------------------------------------------------------------------------
(* OutboundBytesModel.                                                     *)

\* The k-th smallest value of a function on rows.
Kth(val, k) ==
    CHOOSE v \in {val[r] : r \in DOMAIN val} :
        /\ Cardinality({r \in DOMAIN val : val[r] < v}) < k
        /\ Cardinality({r \in DOMAIN val : val[r] <= v}) >= k
\* Twice the median.
Median2(val) == LET n == Cardinality(DOMAIN val) IN Kth(val, (n + 1) \div 2) + Kth(val, (n + 2) \div 2)
Abs(x) == IF x < 0 THEN -x ELSE x

\* score > threshold against one baseline: the excess over the median, in units of
\* max(1.4826 * MAD, floor, median / 10).
Exceeds(bytes, rows) ==
    LET m2 == Median2([r \in rows |-> r.bytes])
        mad4 == Median2([r \in rows |-> Abs(2 * r.bytes - m2)])
        excess4 == 4 * bytes - 2 * m2
    IN  /\ excess4 * 10000 > Threshold * 14826 * mad4
        /\ excess4 > Threshold * 4 * ScaleFloor
        /\ excess4 * 10 > Threshold * 2 * m2

\* _stored_history: rows of earlier windows that are neither too old nor expired.
Relevant(rows, start) ==
    {h \in rows : /\ h.start >= start - HistoryWindows * Width
                     /\ h.start + Width <= start
                     /\ h.until > wall}
OwnRows(rows, row) == {h \in Relevant(rows, row.start) : h.entity = row.entity}
PeerRows(rows, row) == {h \in Relevant(rows, row.start) : h.entity # row.entity}
Available(rows) == Cardinality(rows) >= MinSamples

\* score: both baselines, or the peers' alone while the host has too little history.
Suspicious(rows, row) ==
    LET peers == PeerRows(rows, row)
        own == OwnRows(rows, row)
    IN  /\ Available(peers) /\ Cardinality({h.entity : h \in peers}) >= MinPeers
        /\ Exceeds(Bytes(row.refs), peers)
        /\ Available(own) => Exceeds(Bytes(row.refs), own)

\* Mutant: what a restarted process saw of a window replaces what was learned of it.
LearnAgain(row) == row.start + Width + Retention > wall
\* _learn: the first row of a host and window stands, for as long as it is kept.
Learnable(row) ==
    /\ row.start + Width + Retention > wall
    /\ ~\E h \in history : h.entity = row.entity /\ h.start = row.start /\ h.until > wall
Learned(rows) ==
    {[entity |-> r.entity, start |-> r.start, bytes |-> Bytes(r.refs), until |-> r.start + Width + Retention]
       : r \in {x \in rows : Learnable(x)}}
With(rows) == LET new == Learned(rows)
              IN  {h \in history : ~\E n \in new : n.entity = h.entity /\ n.start = h.start} \cup new

\* evaluate: window by window, all of it scored before any of it is learned.
Suspects(rows) == {r \in rows : Suspicious(With({x \in rows : x.start < r.start}), r)}
Findings(rows) == {[entity |-> r.entity, start |-> r.start, bytes |-> Bytes(r.refs)] : r \in rows}
-----------------------------------------------------------------------------
(* Sensor health and protocol anomalies.                                   *)

is_threat_anomaly(kind) == kind \in {"applayer", "evasion"}
Kinds == {"applayer", "evasion", "stream", "checksum", "decode"}
NoEvents == [k \in Kinds |-> 0]
SumOf(n) == MapThenSumSet(LAMBDA k : n[k], Kinds)

tally_health(e, bucket) ==
    LET key == {t \in tally : t.sensor = e.sensor /\ t.bucket = bucket}
        old == IF key = {} THEN [sensor |-> e.sensor, bucket |-> bucket, n |-> NoEvents]
               ELSE CHOOSE t \in key : TRUE
    IN  (tally \ key) \cup {[old EXCEPT !.n[e.kind] = @ + 1]}

\* Half of the events or more are checksum errors, of a large enough sample; other
\* decode errors beside them (more than 1 in 20) point at the link.
to_sensor_health(n) ==
    IF SumOf(n) < MinSample \/ 2 * n["checksum"] < SumOf(n) THEN "none"
    ELSE IF 20 * n["decode"] > n["checksum"] + n["decode"] THEN "link_corruption_suspected"
    ELSE "checksum_validation_suspected"

\* flush_health assesses every window but the current one.
Flushed == {t \in tally : t.bucket # wall \div HealthWindow}
flush_health ==
    /\ tally' = tally \ Flushed
    /\ assessed' = assessed \cup {[t EXCEPT !.n = to_sensor_health(t.n)] : t \in Flushed}
-----------------------------------------------------------------------------
(* main                                                                    *)

\* Observations of other kinds only move the watermark, at most to the wall clock: the
\* stream leaves them out.
Consume ==
    /\ read < Len(Stream)
    /\ read' = read + 1 /\ busy' = TRUE
    /\ LET r == Stream[read + 1]
       IN  \/ /\ r.topic = "observation"
              /\ add(r)
              /\ newest' = IF EventTime(r.at) > newest THEN EventTime(r.at) ELSE newest
              /\ UNCHANGED <<closed, history, findings, health>>
           \/ /\ r.topic = "anomaly"
              /\ tally' = tally_health(r, wall \div HealthWindow)
              /\ emitted' = IF is_threat_anomaly(r.kind) THEN emitted \cup {<<r.id, wall \div EmitWindow>>} ELSE emitted
              /\ UNCHANGED <<outbound, assessed>>
    /\ UNCHANGED <<wall, committed, crashes>>

\* The end of a poll: health windows, then the windows behind the newest event, or
\* behind the clock when nothing came.
Close(sent) ==
    LET boundary == Boundary(IF busy THEN newest ELSE wall)
        rows == IF busy /\ newest = Never THEN {} ELSE Ripe(boundary)
    IN  /\ flush_health
        /\ pending' = pending \ rows
        /\ closed' = IF (busy /\ newest = Never) \/ boundary < closed THEN closed ELSE boundary
        /\ history' = With(rows)
        /\ findings' = findings \cup Findings(Suspects(rows) \cap sent)
Poll ==
    /\ Close(pending)
    /\ busy' = FALSE
    /\ UNCHANGED <<wall, read, committed, newest, late, emitted, crashes>>

AutoCommit ==
    /\ committed' = read
    /\ UNCHANGED <<wall, read, outbound, health, busy, crashes>>

Restart ==
    /\ crashes < MaxCrashes /\ crashes' = crashes + 1
    /\ read' = committed /\ busy' = FALSE
    /\ pending' = {} /\ closed' = Never /\ newest' = Never
    /\ emitted' = {} /\ tally' = {}
    /\ UNCHANGED <<wall, committed, late>>
Crash == Restart /\ UNCHANGED <<history, findings, assessed>>
\* An answer of the broker is missing: what was learned stays, the process ends.
SendFails ==
    \E rows \in {Ripe(Boundary(IF busy THEN newest ELSE wall))} :
        /\ \E sent \in SUBSET Suspects(rows) :
              sent # Suspects(rows) /\ findings' = findings \cup Findings(sent)
        /\ history' = With(rows)
        /\ assessed' = assessed \cup {[t EXCEPT !.n = to_sensor_health(t.n)] : t \in Flushed}
        /\ Restart

Tick ==
    /\ wall < MaxTime /\ wall' = wall + 1 /\ late' = {}
    /\ UNCHANGED <<read, committed, pending, closed, newest, history, findings, health, busy, crashes>>

Init ==
    /\ wall = 0 /\ read = 0 /\ committed = 0 /\ busy = FALSE /\ crashes = 0
    /\ pending = {} /\ closed = Never /\ newest = Never
    /\ history = {} /\ findings = {} /\ late = {}
    /\ emitted = {} /\ tally = {} /\ assessed = {}

Next == Consume \/ Poll \/ AutoCommit \/ Crash \/ SendFails \/ Tick

Spec == Init /\ [][Next]_vars
-----------------------------------------------------------------------------
(* Properties.                                                             *)

\* Whatever the clocks of the sensors say and however quiet a poll was: an observation
\* is refused as late only when its window has been over for the allowed lateness,
\* and the health of a sensor is judged only when its window is over.
NoEarlyClose ==
    /\ \A l \in late : WindowOf(Obs(l.id).at) + Width + Lateness <= l.wall
    /\ \A t \in assessed : (t.bucket + 1) * HealthWindow <= wall

\* "replay cannot replace a row or extend its lifetime": a row the model learned
\* stands until its retention ends, also when a restarted process sees only the rest
\* of the same window and evaluates it again.
HistoryStands ==
    [][\A h \in history : h.until > wall' => h \in history']_vars
=============================================================================
