----------------------------- MODULE MCContext -----------------------------
(* What findings are put in context with: threat intelligence and hunts,   *)
(* who an address is, what an entity adds up to, and how a host compares   *)
(* with its peers.  The services run apart: a behaviour is one of them.    *)
EXTENDS ThreatIntel

VARIABLES part,
    evidence, jobs, hits, serving, started, failures,
    position, stored, mem, stage, repairing, assetTable, obsTable, factTable, edgeTable, deaths,
    watch, spine, read, correlated, state, kept, unread, emitted, candidates, restarts,
    wall, taken, learned, pending, closed, newest, history, findings, late, promoted, tally, assessed, busy, stops

Raw(ind, score, marks, until, revoked) ==
    [ind |-> ind, score |-> score, marks |-> marks, from |-> None, until |-> until,
     revoked |-> revoked, ok |-> TRUE]

\* A trusted collection behind credentials, and a public list.
TwoFeeds == [taxii |-> [stix |-> TRUE, trust |-> 9, tlp |-> 1, ttl |-> 2, auth |-> TRUE, pin |-> TRUE],
             list  |-> [stix |-> FALSE, trust |-> 5, tlp |-> 1, ttl |-> 1, auth |-> FALSE, pin |-> FALSE]]

\* The collection marks a hash with something nobody knows, lifts the marking, and
\* takes a network back; the list repeats both, one of them malformed.
Rounds == [taxii |-> <<<<Raw("hash", 120, {Unresolved}, None, FALSE), Raw("net", 60, {2}, 1, FALSE)>>,
                       <<Raw("hash", 50, {1}, None, FALSE), Raw("net", 60, {}, None, TRUE)>>>>,
           list |-> <<<<Raw("hash", None, {}, None, FALSE),
                        [Raw("net", None, {}, None, FALSE) EXCEPT !.ok = FALSE]>>>>]
Ranges == [i \in {"hash", "net", "ip"} |-> IF i = "ip" THEN {"net"} ELSE {}]

\* Two tenants; observations of one instant, past a window cap and past the
\* window; two more arrive meanwhile.
O(id, ts, tenant) == [id |-> id, ts |-> ts, tenant |-> tenant, values |-> {<<"ip", 1>>}]
Before == {O(1, 1, "a"), O(3, 1, "a"), O(4, 1, "a"), O(5, 5, "a"), O(7, 1, "b")}
Evidence == Before \cup {O(2, 1, "a"), O(6, 4, "a")}
Req(hunt, tenant, inds) ==
    [hunt |-> hunt, tenant |-> tenant, from |-> 1, to |-> 5, size |-> 2, inds |-> inds]
Asked == {Req("h", "a", {<<"ip", 1>>, <<"url", 2>>}), Req("h", "b", {<<"ip", 1>>}),
          Req("u", "a", {<<"url", 2>>})}
Hunts == INSTANCE IntelHunt WITH
    Observations <- Evidence, Stored <- Before, Requests <- Asked, Supported <- {"ip"}, MaxWindow <- 2,
    LongestHunt <- 4, MaxFailures <- 1
hunts == <<evidence, jobs, hits, serving, started, failures>>

Packet(id, ts, type, src, dst, mac, host, lease) ==
    [id |-> id, ts |-> ts, type |-> type, src |-> src, dst |-> dst, mac |-> mac, host |-> host,
     lease |-> lease]
\* An address leased to one host twice at one instant, taken over by another and
\* visited; the two topics are read in any order, and flows arrive late.
Reuse == [raw |-> <<Packet(4, 1, "dhcp", 10, None, 1, 7, 3), Packet(2, 1, "dhcp", 10, None, 1, 7, 1),
                    Packet(1, 3, "arp", 10, None, 2, None, None)>>,
          flow |-> <<Packet(6, 3, "flow", 10, 20, None, None, None), Packet(8, 2, "flow", 10, 20, None, None, None),
                     Packet(7, 3, "dns", 10, 20, None, None, None), Packet(9, 4, "tls", 20, 10, None, None, None),
                     Packet(3, 4, "http", 20, 10, None, 8, None)>>]
Assets == INSTANCE AssetService WITH
    Log <- Reuse, Ips <- {10, 20}, Forever <- 9, MaxCrashes <- 1, committed <- stored, crashes <- deaths
assets == <<position, stored, mem, stage, repairing, assetTable, obsTable, factTable, edgeTable, deaths>>

\* A corroboration of ours that comes back, a structured nDPI finding, a behaviour, a
\* machine-learning detector that agrees, and an earlier stage last.
Finals == <<[det |-> "correlation_corroboration", ver |-> "1.0", cat |-> "c2", sev |-> 9, ip |-> ""],
            [det |-> "ndpi_risk", ver |-> "2.0", cat |-> "lateral", sev |-> 9, ip |-> "h"],
            [det |-> "beacon", ver |-> "1.0", cat |-> "c2", sev |-> 10, ip |-> "h"],
            [det |-> "slips_ml", ver |-> "1.0", cat |-> "c2", sev |-> 4, ip |-> "h"],
            [det |-> "horizontal_scan", ver |-> "1.0", cat |-> "recon", sev |-> 5, ip |-> "h"]>>
Risk == INSTANCE Correlation WITH
    Findings <- Finals, AssetOf <- [h |-> "asset"], MlSources <- {"slips_ml"}, Window <- 1, RiskThreshold <- 12,
    MinTactics <- 2, MaxTime <- 2, MaxCrashes <- 1, clock <- watch, committed <- correlated,
    saved <- kept, forgotten <- unread, crashes <- restarts
risk == <<watch, spine, read, correlated, state, kept, unread, emitted, candidates, restarts>>

Out(id, entity, at, bytes) == [topic |-> "observation", id |-> id, entity |-> entity, at |-> at, bytes |-> bytes]
A(id, kind) == [topic |-> "anomaly", id |-> id, sensor |-> "s", kind |-> kind]
\* Two peers and a host that suddenly sends more; one record of a sensor whose clock is
\* ahead, one out of order.
Uploads == <<Out("p1", "p", 0, 1), Out("q1", "q", 1, 1), A("x", "checksum"), Out("far", "q", 9, 1),
          Out("h1", "h", 3, 90), A("y", "decode"), Out("p0", "p", 1, 4), A("z", "applayer")>>
Peers == INSTANCE OutboundAnomaly WITH
    Stream <- Uploads, Width <- 2, Lateness <- 1, HistoryWindows <- 2, MinSamples <- 1, MinPeers <- 2, Threshold <- 6,
    ScaleFloor <- 1, Retention <- 3, EmitWindow <- 2, HealthWindow <- 2, MinSample <- 2, MaxTime <- 5, MaxCrashes <- 1,
    read <- taken, committed <- learned, emitted <- promoted, crashes <- stops
peers == <<wall, taken, learned, pending, closed, newest, history, findings, late, promoted, tally, assessed, busy, stops>>
ASSUME OtherConstants == Hunts!HuntAssumption /\ Assets!AssetAssumption /\ Risk!CorrelationAssumption /\ Risk!ThresholdAssumption /\ Peers!OutboundAssumption

MCInit == /\ part \in {"feeds", "hunts", "assets", "risk", "peers"}
          /\ Init /\ Hunts!Init /\ Assets!Init /\ Risk!Init /\ Peers!Init
MCNext == \/ part = "feeds" /\ Next /\ UNCHANGED <<part, hunts, assets, risk, peers>>
          \/ part = "hunts" /\ Hunts!Next /\ UNCHANGED <<part, vars, assets, risk, peers>>
          \/ part = "assets" /\ Assets!Next /\ UNCHANGED <<part, vars, hunts, risk, peers>>
          \/ part = "risk" /\ Risk!Next /\ UNCHANGED <<part, vars, hunts, assets, peers>>
          \/ part = "peers" /\ Peers!Next /\ UNCHANGED <<part, vars, hunts, assets, risk>>
MCSpec == MCInit /\ [][MCNext]_<<part, vars, hunts, assets, risk, peers>>

\* A completed hunt reports matches of its tenant and window only, and misses none that was stored when it began.
HuntExact == part = "hunts" => Hunts!HuntExact
\* Stored intervals and stored evidence agree on who owned an address.
OwnershipAgrees == part = "assets" => Assets!OwnershipAgrees
\* What is committed has its evidence stored, across a death in a flush.
EvidenceDurable == part = "assets" => Assets!EvidenceDurable
\* A candidate rests on two findings of others in the last window.
RestsOnRecentFindings == part = "risk" => Risk!RestsOnRecentFindings
\* What has been saved and read back is in memory until it is older than the window.
SavedIsKept == part = "risk" => Risk!SavedIsKept
\* Nothing is refused as late, or judged, before its window is over.
NoEarlyClose == part = "peers" => Peers!NoEarlyClose
\* A learned row stands until its retention ends.
HistoryStands == Peers!HistoryStands
=============================================================================
