---------------------------- MODULE Correlation ----------------------------
(***************************************************************************)
(* correlation-service: final findings of one tenant are gathered per      *)
(* entity over a rolling window; an entity whose findings line up raises   *)
(* an incident, and a machine-learning detector that agrees with a         *)
(* heuristic one a corroboration.  Both are candidates, so that the        *)
(* finding-service sends them back on the topic they were made from.       *)
(* Window state is saved to ClickHouse now and then; offsets are committed *)
(* by the consumer on its own clock.                                       *)
(*                                                                         *)
(* A finding is [det, ver, cat, sev, ip].      Time is in half-lives.      *)
(***************************************************************************)
EXTENDS Integers, Sequences, FiniteSets, FiniteSetsExt

CONSTANTS
    Findings,      \* ndr.finding.final.v1: findings of other services, and our own come back
    AssetOf,       \* ip -> asset key
    MlSources,
    Window,        \* WINDOW: of the rolling state and of the dedup buckets
    RiskThreshold, MinTactics,
    MaxTime, MaxCrashes  \* bounds

\* What the constants are; assumed where they get their values.
CorrelationAssumption ==
    /\ {RiskThreshold, MaxTime, MaxCrashes} \subseteq Nat
    /\ Window \in Nat \ {0} /\ MinTactics \in Nat \ {0}
    /\ Findings \in Seq({Findings[i] : i \in DOMAIN Findings})
    /\ \A i \in DOMAIN Findings : Findings[i].ip = "" \/ Findings[i].ip \in DOMAIN AssetOf

\* By the finding contract no severity is above 10, so that one finding stays below a
\* RISK_THRESHOLD of 12; MIN_TACTICS is 2.
ThresholdAssumption ==
    /\ MinTactics >= 2
    /\ \A i \in DOMAIN Findings : Findings[i].sev \in Nat /\ Findings[i].sev < RiskThreshold

VARIABLES
    clock,
    spine,     \* ndr.asset has the assets
    read, committed,
    state,     \* _state: entity -> set of [finding, ts]
    saved,     \* ndr.entity_risk_state
    forgotten, \* ghost: what the last start found saved and could not read back
    emitted,   \* _emitted: <<entity, bucket, reason>>
    candidates, \* sent since the clock last moved: [entity, bucket, reason, cat, at, items]
    crashes

vars == <<clock, spine, read, committed, state, saved, forgotten, emitted, candidates, crashes>>
-----------------------------------------------------------------------------
(* correlate.py                                                            *)

INCIDENT_DETECTOR == "correlation_incident"
CORROBORATION_DETECTOR == "correlation_corroboration"

FAMILY(det) ==
    CASE det \in {"ja4_novelty", "ja4_transition_burst", "ja4_rarity", "server_fp_rarity"} -> "fingerprint"
      [] det \in {"beacon", "beacon_fqdn", "strobe", "long_connection", "long_connection_cumulative"} -> "temporal"
      [] det \in {"exfil", "low_slow_exfil", "icmp_exfil"} -> "volume"
      [] det \in {"dns_tunnel", "dns_exploded", "dga_domain", "nxdomain_burst"} -> "dns"
      [] det = "rare_destination" -> "destination"
      [] det \in {"ids_signature", "threat_intel", "feodo", "zeek_notice"} -> "signature"
      [] OTHER -> det

\* In hundredths of a severity point.
FAMILY_CAP(family) == CASE family \in {"fingerprint", "dns"} -> 667
                        [] family \in {"temporal", "signature"} -> 1000
                        [] family \in {"destination", "volume"} -> 500
                        [] OTHER -> 10000

Staged == {"recon", "malware", "bruteforce", "anomaly", "c2", "dns_tunnel", "lateral", "exfil"}
STAGE(cat) == CASE cat = "recon" -> 0
                [] cat \in {"malware", "bruteforce", "anomaly"} -> 1
                [] cat \in {"c2", "dns_tunnel"} -> 2
                [] cat = "lateral" -> 3
                [] cat = "exfil" -> 4

is_correlation(f) == f.det \in {INCIDENT_DETECTOR, CORROBORATION_DETECTOR}
is_structured_ndpi(f) == f.det = "ndpi_risk" /\ f.ver = "2.0"

Active(items) == {x \in items : ~is_correlation(x.finding)}
Detectors(items) == {x.finding.det : x \in items}
Of(items, det) == {x \in items : x.finding.det = det}
\* One finding speaks for a detector: the most severe, then the most recent.
Strongest(items, det) ==
    CHOOSE x \in Of(items, det) : \A y \in Of(items, det) :
        x.finding.sev > y.finding.sev \/ (x.finding.sev = y.finding.sev /\ x.ts >= y.ts)

\* Risk is kept in hundredths * 2^Window, where halving is exact.
Decayed(x, now) == (x.finding.sev * 100 * 2^Window) \div 2^(now - x.ts)
FamilyRisk(items, family, now) ==
    Min({MapThenSumSet(LAMBDA d : Decayed(Strongest(items, d), now), {d \in Detectors(items) : FAMILY(d) = family}),
         FAMILY_CAP(family) * 2^Window})
Families(items) == {FAMILY(d) : d \in Detectors(items)}
entity_risk(items, now) == MapThenSumSet(LAMBDA fam : FamilyRisk(items, fam, now), Families(items))

StagedItems(items) == {x \in items : x.finding.cat \in Staged}
Stages(items) == {STAGE(x.finding.cat) : x \in StagedItems(items)}
\* In the order of time, then of stage: some stage is higher than the first.
is_ordered_chain(items) ==
    \E x, y \in StagedItems(items) :
        /\ STAGE(x.finding.cat) < STAGE(y.finding.cat)
        /\ \A z \in StagedItems(items) :
              x.ts < z.ts \/ (x.ts = z.ts /\ STAGE(x.finding.cat) <= STAGE(z.finding.cat))

\* The reason to raise an incident, or "".
should_incident(items, now) ==
    LET active == Active(items)
        tactics == Cardinality(Stages(active))
    IN  IF is_ordered_chain(active) /\ tactics >= MinTactics THEN "kill-chain"
        ELSE IF tactics >= MinTactics /\ Cardinality(active) >= 2 THEN "multi-tactic"
        ELSE IF active # {} /\ entity_risk(active, now) >= RiskThreshold * 100 * 2^Window THEN "risk-threshold"
        ELSE ""

\* Categories on which a machine-learning and a heuristic detector agree.
find_corroborations(items) ==
    LET active == Active(items)
        dets(cat) == {x.finding.det : x \in {y \in active : y.finding.cat = cat}}
    IN  {cat \in {x.finding.cat : x \in active} : dets(cat) \cap MlSources # {} /\ dets(cat) \ MlSources # {}}
-----------------------------------------------------------------------------
(* app.py                                                                  *)

Entities == UNION {{f, AssetOf[f]} : f \in DOMAIN AssetOf}
NoState == [e \in Entities |-> {}]
Bucket(now) == now \div Window

\* _entity_of: the asset of the address, or the address while none is known.
EntityOf(ip) == IF spine THEN AssetOf[ip] ELSE ip
AssetsKnown ==
    /\ ~spine /\ spine' = TRUE
    /\ UNCHANGED <<clock, read, committed, state, saved, forgotten, emitted, candidates, crashes>>

\* One record of a poll; what the service or the structured nDPI path made is skipped.
Consume ==
    /\ read < Len(Findings)
    /\ LET f == Findings[read + 1]
       IN  IF is_correlation(f) \/ is_structured_ndpi(f)
              \/ f.ip = ""
           THEN UNCHANGED state
           ELSE state' = [state EXCEPT ![EntityOf(f.ip)] = @ \cup {[finding |-> f, ts |-> clock]}]
    /\ read' = read + 1
    /\ UNCHANGED <<clock, spine, committed, saved, forgotten, emitted, candidates, crashes>>

Fresh(items) == {x \in items : clock - x.ts <= Window}
\* Mutant: a finding as old as the window is dropped.
PrunedEarly == [e \in Entities |-> {x \in state[e] : clock - x.ts < Window}]
\* _prune
Pruned == [e \in Entities |-> Fresh(state[e])]
LiveKeys == {k \in emitted : k[2] >= Bucket(clock)}

Raised(e, items) ==
    (IF should_incident(items, clock) = "" THEN {}
     ELSE {[entity |-> e, bucket |-> Bucket(clock), reason |-> should_incident(items, clock), cat |-> "",
            at |-> clock, items |-> Active(items)]})
    \cup {[entity |-> e, bucket |-> Bucket(clock), reason |-> "corrob:", cat |-> cat, at |-> clock,
           items |-> {x \in Active(items) : x.finding.cat = cat}] : cat \in find_corroborations(items)}
Key(c) == <<c.entity, c.bucket, <<c.reason, c.cat>>>>

\* Mutant: what was reloaded is evaluated as it is.
EvaluateUnpruned ==
    LET new == {c \in UNION {Raised(e, state[e]) : e \in Entities} : Key(c) \notin LiveKeys}
    IN  /\ state' = Pruned
        /\ candidates' = candidates \cup new
        /\ emitted' = LiveKeys \cup {Key(c) : c \in new}
        /\ UNCHANGED <<clock, spine, read, committed, saved, forgotten, crashes>>
\* _prune, then evaluate.
Evaluate ==
    LET new == {c \in UNION {Raised(e, Pruned[e]) : e \in Entities} : Key(c) \notin LiveKeys}
    IN  /\ state' = Pruned
        /\ candidates' = candidates \cup new
        /\ emitted' = LiveKeys \cup {Key(c) : c \in new}
        /\ UNCHANGED <<clock, spine, read, committed, saved, forgotten, crashes>>

\* _persist writes a row for every entity that has findings; the others keep their row.
Saved == [e \in Entities |-> IF state[e] = {} THEN saved[e] ELSE state[e]]
Persist ==
    /\ saved' = Saved
    /\ UNCHANGED <<clock, spine, read, committed, state, forgotten, emitted, candidates, crashes>>

\* The consumer commits what has been polled.
AutoCommit ==
    /\ committed' = read
    /\ UNCHANGED <<clock, spine, read, state, saved, forgotten, emitted, candidates, crashes>>

\* _reload takes what it can read: a failing query leaves every entity out, a row that
\* cannot be read its own, and the process goes on with what it has.
Reloaded(rows, readable) ==
    [e \in Entities |-> IF e \in readable THEN {x \in rows[e] : ~is_structured_ndpi(x.finding)} ELSE {}]
Start(rows) == \E readable \in SUBSET Entities :
    /\ state' = Reloaded(rows, readable)
    /\ forgotten' = [e \in Entities |-> IF e \in readable THEN {} ELSE rows[e]]
    /\ emitted' = {}
\* SIGTERM: a last save, and the consumer commits when it is closed; then a new process.
Stop ==
    /\ crashes < MaxCrashes /\ crashes' = crashes + 1
    /\ saved' = Saved /\ committed' = read
    /\ Start(Saved)
    /\ UNCHANGED <<clock, spine, read, candidates>>
Crash ==
    /\ crashes < MaxCrashes /\ crashes' = crashes + 1
    /\ read' = committed
    /\ Start(saved)
    /\ UNCHANGED <<clock, spine, committed, saved, candidates>>

Tick ==
    /\ clock < MaxTime /\ clock' = clock + 1 /\ candidates' = {}
    /\ UNCHANGED <<spine, read, committed, state, saved, forgotten, emitted, crashes>>

Init ==
    /\ clock = 0 /\ spine = FALSE 
    /\ read = 0 /\ committed = 0
    /\ state = NoState /\ saved = NoState /\ forgotten = NoState
    /\ emitted = {} /\ candidates = {} /\ crashes = 0

Next ==
    \/ Consume \/ Evaluate \/ Persist \/ AutoCommit \/ Stop \/ Crash \/ Tick \/ AssetsKnown

Spec == Init /\ [][Next]_vars
-----------------------------------------------------------------------------
(* Properties.                                                             *)

Distinct(c) == {x.finding : x \in c.items}

\* However records are redelivered, windows reloaded and candidates sent back: a
\* candidate rests on findings of other services only, received no longer than the
\* window ago, and on more than one of them.
RestsOnRecentFindings ==
    \A c \in candidates :
        /\ \A x \in c.items : ~is_correlation(x.finding) /\ ~is_structured_ndpi(x.finding) /\ c.at - x.ts <= Window
        /\ Cardinality(Distinct(c)) >= 2

\* What has been saved is in memory until it is older than the window, wherever the
\* process dies, is restarted, prunes or leaves the rows of quiet entities behind: only
\* what the start itself failed to read back is missing, and of no other entity.
SavedIsKept == \A e \in Entities : Fresh(saved[e]) \subseteq state[e] \cup forgotten[e]

=============================================================================
