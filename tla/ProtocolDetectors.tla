------------------------- MODULE ProtocolDetectors -------------------------
(***************************************************************************)
(* protocol-detectors: replicas read TLS, QUIC, HTTP, SSH and flow records *)
(* from different topics and share one store.  A client fingerprint (JA4)  *)
(* is scored against the baseline of its source and learned afterwards;    *)
(* every store call is a step, so handlers of one source interleave, die,  *)
(* or find the store unreachable between any two of them.                  *)
(*                                                                         *)
(* One tenant.  Names stand for hosts without case, port and "www.".       *)
(***************************************************************************)
EXTENDS Integers, Sequences, FiniteSets, FiniteSetsExt

CONSTANTS
    Replicas,
    Inputs,     \* what the replicas' partitions bring: functions from replicas to sequences of records
    Warmup, SeenTTL, MinObservations, MinSpan, BaselineTTL, RareMax, Transition, MinDistinct,    \* JA4_*
    SniTTL, Counting, Sessions, Bytes,      \* 120 s, SSH_WINDOW and ICMP_WINDOW, the thresholds of proto.py
    Bucket, Expected, AllowPorts, Approved, Lists,  \* emission bucket, _PORT_PROTO, the lists of names
    MaxTime, MaxFaults      \* bounds; faults of all kinds together

\* What the constants are; assumed where they get their values.
ProtocolAssumption ==
    /\ {Warmup, SeenTTL, MinObservations, MinSpan, RareMax, MaxTime, MaxFaults} \subseteq Nat
    /\ {SeenTTL, BaselineTTL, Transition, SniTTL, Counting, Bucket, MinDistinct, Sessions, Bytes} \subseteq Nat \ {0}

VARIABLES
    now, input,
    read, committed,    \* replica -> records
    hand,       \* replica -> its handler: [e, steps, seen, ac, base, rare, mark]
    kv,         \* baselines: [src, n, first, exp]
    sets,       \* [key, member, exp]
    moves,      \* transitions: [src, at, fp]
    counters,   \* [key, val, exp]
    dedup,      \* [id, exp]
    emitted,    \* candidates: [id, at, mark], id the detector and the entities
    past,       \* what the handlers have written: [kind, key, fp, n, at, no, mark]
    overlap,    \* two handlers of one source were in progress together
    crashes, errors

store == <<kv, sets, moves, counters, dedup>>
vars == <<now, input, read, committed, hand, store, emitted, past, overlap, crashes, errors>>
-----------------------------------------------------------------------------
(* proto.py.                                                               *)

Missing == ""
If(c, x) == IF c THEN <<x>> ELSE <<>>
\* A fingerprint is <<the A and C parts, the B part>>; << >> is absent or not valid.
ja4_valid(fp) == fp # <<>>
ja4_ac(fp) == fp[1]
\* port_proto_mismatch
Mismatch(app, port) == /\ app \notin {Missing, "failed", "unknown"} /\ port \notin AllowPorts
                       /\ port \in DOMAIN Expected /\ Expected[port] # IF app = "ssl" THEN "tls" ELSE app
cloud_staging_hit(sni) == sni \in Lists.staging
doh_hit(sni, port) == port = 853 \/ (sni \in Lists.doh /\ sni \notin Approved)
\* The last part: less than two days valid.
cert_anomaly(cert) == (cert.subject # Missing /\ cert.subject = cert.issuer) \/ cert.short
suspicious_ua(ua) == ua = Missing \/ ua \in Lists.agents
host_sni_mismatch(sni, host) == sni # Missing /\ host # Missing /\ sni # host

\* baseline_maturity
Maturity(n, distinct, first) ==
    IF n < MinObservations \/ distinct < 1 \/ first = -1 THEN "cold"
    ELSE IF now - first >= MinSpan THEN "ready" ELSE "warming"
\* ja4_novelty: <<hit, reasons, severity>>
Novelty(fp, seen, ac, fleet, maturity) ==
    LET rare == fleet <= RareMax  variant == <<ja4_ac(fp)>> \in ac
    IN  IF maturity # "ready" \/ fp \in seen THEN <<FALSE, {}, 0>>
        ELSE <<TRUE, {"new"} \cup (IF rare THEN {"rare"} ELSE {}) \cup (IF variant THEN {"similar"} ELSE {}),
               Max({1, (IF rare THEN 5 ELSE 2) - IF variant THEN 1 ELSE 0})>>
-----------------------------------------------------------------------------
(* The store: entries live until their expiry.                             *)

Live(S) == {x \in S : x.exp >= now}
Members(key) == {x.member : x \in {y \in Live(sets) : y.key = key}}
With(S, key, member, ttl) ==
    {x \in S : ~(x.key = key /\ x.member = member)} \cup {[key |-> key, member |-> member, exp |-> now + ttl]}
Put(key, member, ttl) == With(sets, key, member, ttl)
\* Mutant: the start of the activity outlives the count of it.
BaselineSince(src) ==
    LET old == {b \in kv : b.src = src}
    IN  [n |-> IF old \cap Live(kv) = {} THEN 0 ELSE (CHOOSE b \in old : TRUE).n,
         first |-> IF old = {} THEN -1 ELSE (CHOOSE b \in old : TRUE).first]
\* kv_get
Baseline(src) ==
    IF \E b \in Live(kv) : b.src = src
    THEN LET b == CHOOSE x \in Live(kv) : x.src = src IN [n |-> b.n, first |-> b.first]
    ELSE [n |-> 0, first |-> -1]

\* counter_add: the first write sets the expiry.
Count(key) == FoldSet(LAMBDA x, acc : acc + x.val, 0, {c \in Live(counters) : c.key = key})
CountingUntil(key) ==
    IF \E c \in Live(counters) : c.key = key THEN (CHOOSE c \in Live(counters) : c.key = key).exp ELSE now + Counting
Add(key, n) ==
    {c \in counters : c.key # key} \cup {[key |-> key, val |-> Count(key) + n, exp |-> CountingUntil(key)]}
-----------------------------------------------------------------------------
(* _handle: the steps a record takes.                                      *)

Report(detector, who) == [op |-> "report", detector |-> detector, who |-> who]
\* Mutant: the fingerprint is learned first.
LearnFirst(e) == [i \in 1 .. 6 |-> [op |-> <<"know", "seen", "score", "burst", "baseline", "context">>[i]]]
\* _ja4_observe; "Score before learning".
Observe(e) == [i \in 1 .. 6 |-> [op |-> <<"seen", "score", "burst", "baseline", "know", "context">>[i]]]
\* _fp_rare and what its callers report.
Rarity(kind, fp, detector, who) ==
    IF fp = Missing THEN <<>>
    ELSE <<[op |-> "look", key |-> <<"fpseen", kind>>, fp |-> fp],
           [op |-> "keep", key |-> <<"fpseen", kind>>, fp |-> fp, detector |-> detector, who |-> who]>>

Hello(e) ==
    (IF ja4_valid(e.ja4) THEN IF e.src = Missing THEN <<>> ELSE Observe(e)
     ELSE Rarity("ja3", e.ja3, "ja4_rarity", <<e.ja3, e.type, e.src, e.sni, e.cid>>))
    \o Rarity(e.skind, e.server, "server_fp_rarity", <<e.server, e.dst, e.sni, e.cid>>)
    \o If(cloud_staging_hit(e.sni), Report("cloud_staging", <<e.src, e.sni>>))
    \o If(doh_hit(e.sni, e.port), Report("doh_detect", <<e.src, e.sni>>))
    \o IF e.type = "quic" THEN <<>>
       ELSE If(cert_anomaly(e.cert), Report("tls_cert_anomaly", <<e.dst, e.sni, e.cid>>))
            \o If(e.ech, Report("ech_sni_mismatch", <<e.src, e.dst, "ech", e.cid>>))
            \o If(e.cid # Missing /\ e.sni # Missing, [op |-> "sni"])
Steps(e) ==
    LET pair == e.src # Missing /\ e.dst # Missing
        app == IF e.app = Missing THEN e.type ELSE e.app
    IN  If(pair /\ Mismatch(app, e.port), Report("port_proto_mismatch", <<e.src, e.dst, app, e.cid>>))
        \o (IF e.type \in {"tls", "quic"} THEN Hello(e) ELSE <<>>)
        \o (IF e.type = "http"
            THEN If(suspicious_ua(e.ua) /\ e.external, Report("suspicious_ua", <<e.src, e.dst, e.ua>>))
                 \o If(e.cid # Missing /\ e.host # Missing, [op |-> "host"])
            ELSE <<>>)
        \o If(pair /\ (e.type = "ssh" \/ (e.type = "flow" /\ e.port = 22)), [op |-> "ssh"])
        \o If(pair /\ e.type = "flow", [op |-> "bytes"])
-----------------------------------------------------------------------------
Idle == [e |-> <<>>, steps |-> <<>>]
Busy(r) == hand[r].steps # <<>>
Wrote(r, kind, key, fp, n) ==
    past \cup {[kind |-> kind, key |-> key, fp |-> fp, n |-> n, at |-> now,
                no |-> Cardinality(past) + 1, mark |-> hand[r].mark]}
Known(src) == <<"seen", src>>
Similar(src) == <<"ac", src>>
Fleet(fp) == <<"fleet", fp>>
Pair(e) == <<e.src, e.dst>>

\* _emit: the mark first, shared by the replicas for an hour; the candidate is sent one step later.
Emit(r, h, hit, detector, who) ==
    LET id == <<detector, who, now \div Bucket>>
        send == [op |-> "send", c |-> [id |-> id, at |-> now, mark |-> h.mark]]
    IN  IF hit /\ ~\E d \in Live(dedup) : d.id = id
        THEN /\ dedup' = {d \in dedup : d.id # id} \cup {[id |-> id, exp |-> now + Bucket]}
             /\ hand' = [hand EXCEPT ![r] = [h EXCEPT !.steps = <<send>> \o @]]
        ELSE hand' = [hand EXCEPT ![r] = h] /\ UNCHANGED dedup

\* The first step of the handler, h the handler without it.
Do(r, s, e, h) ==
    \/ /\ s.op = "report" /\ Emit(r, h, TRUE, s.detector, s.who)
       /\ UNCHANGED <<kv, sets, moves, counters, emitted, past>>
    \/ /\ s.op = "send" /\ emitted' = emitted \cup {s.c} /\ hand' = [hand EXCEPT ![r] = h]
       /\ UNCHANGED <<store, past>>
    \/ /\ s.op = "seen"
       /\ hand' = [hand EXCEPT ![r] = [h EXCEPT !.seen = Members(Known(e.src)), !.ac = Members(Similar(e.src))]]
       /\ UNCHANGED <<store, emitted, past>>
    \/ /\ s.op = "score"
       /\ LET base == Baseline(e.src)
              fleet == Cardinality(Members(Fleet(e.ja4)))
              maturity == Maturity(base.n, Cardinality(h.seen), base.first)
              novelty == Novelty(e.ja4, h.seen, h.ac, fleet, maturity)
          IN  Emit(r, [h EXCEPT !.base = base], novelty[1], "ja4_novelty",
                   <<e.src, e.ja4, e.type, fleet, novelty[2], e.cid>>)
       /\ UNCHANGED <<kv, sets, moves, counters, emitted, past>>
    \/ /\ s.op = "burst"
       /\ LET fps == {e.ja4} \cup {m.fp : m \in {x \in moves : x.src = e.src /\ x.at >= now - Transition}}
          IN  Emit(r, h, /\ Maturity(h.base.n, Cardinality(h.seen), h.base.first) = "ready"
                         /\ Cardinality(fps) >= MinDistinct,
                   "ja4_transition_burst", <<e.src, e.ja4, e.type, Cardinality(Members(Fleet(e.ja4))), Cardinality(fps), e.cid>>)
       /\ UNCHANGED <<kv, sets, moves, counters, emitted, past>>
    \* Every observation renews the TTL: it is one of inactivity.
    \/ /\ s.op = "baseline"
       /\ kv' = {b \in kv : b.src # e.src}
                \cup {[src |-> e.src, n |-> h.base.n + 1, first |-> IF h.base.first = -1 THEN now ELSE h.base.first,
                       exp |-> now + BaselineTTL]}
       /\ hand' = [hand EXCEPT ![r] = h] /\ past' = Wrote(r, "baseline", <<e.src>>, <<>>, 1)
       /\ UNCHANGED <<sets, moves, counters, dedup, emitted>>
    \/ /\ \/ s.op = "know" /\ sets' = Put(Known(e.src), e.ja4, BaselineTTL) /\ past' = Wrote(r, "know", <<e.src>>, e.ja4, 1)
          \/ s.op = "sni" /\ sets' = Put(<<"sni", e.cid>>, <<e.sni>>, SniTTL) /\ UNCHANGED past
       /\ hand' = [hand EXCEPT ![r] = h] /\ UNCHANGED <<kv, moves, counters, dedup, emitted>>
    \* The rest is context of a candidate only: one step.
    \/ /\ s.op = "context" /\ moves' = moves \cup {[src |-> e.src, at |-> now, fp |-> e.ja4]}
       /\ sets' = With(Put(Similar(e.src), <<ja4_ac(e.ja4)>>, BaselineTTL), Fleet(e.ja4), <<e.src>>, BaselineTTL)
       /\ hand' = [hand EXCEPT ![r] = h] /\ UNCHANGED <<kv, counters, dedup, emitted, past>>
    \/ /\ s.op = "look"
       /\ hand' = [hand EXCEPT ![r] = [h EXCEPT !.rare = Cardinality(Members(s.key)) >= Warmup /\ <<s.fp>> \notin Members(s.key)]]
       /\ UNCHANGED <<store, emitted, past>>
    \/ /\ s.op = "keep" /\ sets' = Put(s.key, <<s.fp>>, SeenTTL)
       /\ Emit(r, h, h.rare, s.detector, s.who)
       /\ UNCHANGED <<kv, moves, counters, emitted, past>>
    \* One of the names that do not agree.
    \/ /\ s.op = "host"
       /\ LET others == {m \in Members(<<"sni", e.cid>>) : host_sni_mismatch(m[1], e.host)}
          IN  \E m \in IF others = {} THEN {<<Missing>>} ELSE others :
                 Emit(r, h, others # {}, "ech_sni_mismatch", <<e.src, e.dst, e.host, m[1], e.cid>>)
       /\ UNCHANGED <<kv, sets, moves, counters, emitted, past>>
    \/ /\ s.op = "ssh" /\ counters' = Add(<<"ssh", Pair(e)>>, 1)
       /\ Emit(r, h, Count(<<"ssh", Pair(e)>>) + 1 >= Sessions, "ssh_bruteforce", <<Pair(e), Count(<<"ssh", Pair(e)>>) + 1>>)
       /\ past' = Wrote(r, "ssh", Pair(e), <<>>, 1) /\ UNCHANGED <<kv, sets, moves, emitted>>
    \* Bytes of any flow; icmp_exfil_hit looks at the protocol of this one.
    \/ /\ s.op = "bytes" /\ counters' = Add(<<"icmp", Pair(e)>>, e.bytes)
       /\ LET total == Count(<<"icmp", Pair(e)>>) + e.bytes
          IN  Emit(r, h, e.proto = "ICMP" /\ e.external /\ total >= Bytes, "icmp_exfil", <<Pair(e), total>>)
       /\ past' = Wrote(r, "bytes", Pair(e), <<>>, e.bytes) /\ UNCHANGED <<kv, sets, moves, emitted>>
-----------------------------------------------------------------------------
\* The next record of the replica's partitions.
Handle(r) ==
    LET e == input[r][read[r] + 1]
    IN  /\ ~Busy(r) /\ read[r] < Len(input[r])
        /\ read' = [read EXCEPT ![r] = @ + 1]
        /\ hand' = [hand EXCEPT ![r] = [e |-> e, steps |-> Steps(e), seen |-> {}, ac |-> {},
                                        base |-> [n |-> 0, first |-> -1], rare |-> FALSE, mark |-> Cardinality(past)]]
        /\ overlap' = (overlap \/ \E q \in Replicas : Busy(q) /\ hand[q].e.src = e.src)
        /\ UNCHANGED <<now, input, committed, store, emitted, past, crashes, errors>>
Step(r) ==
    /\ Busy(r)
    /\ Do(r, Head(hand[r].steps), hand[r].e, [hand[r] EXCEPT !.steps = Tail(@)])
    /\ UNCHANGED <<now, input, read, committed, overlap, crashes, errors>>
\* Any exception: the rest of the record is skipped.
HandlerFails(r) ==
    /\ crashes + errors < MaxFaults /\ errors' = errors + 1
    /\ Busy(r) /\ Head(hand[r].steps).op # "send"
    /\ hand' = [hand EXCEPT ![r] = Idle]
    /\ UNCHANGED <<now, input, read, committed, store, emitted, past, overlap, crashes>>
AutoCommit(r) ==
    /\ ~Busy(r) /\ committed' = [committed EXCEPT ![r] = read[r]]
    /\ UNCHANGED <<now, input, read, hand, store, emitted, past, overlap, crashes, errors>>
\* A new process goes on where the last commit was.
Crash(r) ==
    /\ crashes + errors < MaxFaults /\ crashes' = crashes + 1
    /\ hand' = [hand EXCEPT ![r] = Idle] /\ read' = [read EXCEPT ![r] = committed[r]]
    /\ UNCHANGED <<now, input, committed, store, emitted, past, overlap, errors>>
\* Handlers last milliseconds, the spans and windows minutes to days.
Tick ==
    /\ now < MaxTime /\ now' = now + 1
    /\ \A r \in Replicas : ~Busy(r)
    /\ sets' = {x \in sets : x.exp >= now'} /\ counters' = {c \in counters : c.exp >= now'}
    /\ dedup' = {d \in dedup : d.exp >= now'} /\ moves' = {m \in moves : m.at >= now' - Transition}
    /\ UNCHANGED <<input, read, committed, hand, kv, emitted, past, overlap, crashes, errors>>

Init ==
    /\ now = 0 /\ input \in Inputs /\ read = [r \in Replicas |-> 0] /\ committed = read
    /\ hand = [r \in Replicas |-> Idle]
    /\ kv = {} /\ sets = {} /\ moves = {} /\ counters = {} /\ dedup = {}
    /\ emitted = {} /\ past = {} /\ overlap = FALSE /\ crashes = 0 /\ errors = 0

Next ==
    \/ \E r \in Replicas : Handle(r) \/ Step(r) \/ HandlerFails(r) \/ AutoCommit(r) \/ Crash(r)
    \/ Tick

Spec == Init /\ [][Next]_vars
-----------------------------------------------------------------------------
(* Properties.                                                             *)

\* The source was active without a gap from a to b, as far as the first `mark` writes tell.
Unbroken(src, a, b, mark) ==
    \A t \in a + 1 .. b : \E p \in past : /\ p.kind = "baseline" /\ p.key = <<src>> /\ p.no <= mark
                                      /\ p.at < t /\ t <= p.at + BaselineTTL
\* By then its activity had been observed often and long enough.
Covered(src, at, mark) ==
    \E f \in {p \in past : p.kind = "baseline" /\ p.key = <<src>> /\ p.no <= mark} :
        /\ at - f.at >= MinSpan /\ Unbroken(src, f.at, at, mark)
        /\ Cardinality({p \in past : p.kind = "baseline" /\ p.key = <<src>> /\ p.no <= mark /\ p.at >= f.at}) >= MinObservations

Novelties == {c \in emitted : c.id[1] = "ja4_novelty"}
\* _ja4_observe "learns silently until count and span are sufficient": whatever handlers
\* of the source interleave, die or are repeated, a novelty is reported only of a source
\* with enough observations, over a long enough time without a gap, and only of a
\* fingerprint none of whose uses the source's handlers had learned in that time.
NoveltyJustified ==
    \A c \in Novelties :
        LET src == c.id[2][1]
        IN  /\ Covered(src, c.at, Cardinality(past))
            /\ ~\E p \in past : /\ p.kind = "know" /\ p.key = <<src>> /\ p.fp = c.id[2][2]
                                /\ p.no <= c.mark /\ p.at + BaselineTTL >= c.at

\* "the current event must not erase its own novelty", and activity keeps a mature
\* baseline mature: a fingerprint learned for the first time by a source whose baseline was
\* ready has been reported, unless handlers of the source ran together or a process died.
NoveltyReported ==
    ~overlap /\ crashes = 0 =>
        \A p \in past :
            /\ p.kind = "know" /\ Covered(p.key[1], p.at, p.mark)
            /\ \E q \in past : q.kind = "know" /\ q.key = p.key /\ q.no <= p.mark /\ q.at + BaselineTTL >= p.at
            /\ ~\E q \in past : /\ q.kind = "know" /\ q.key = p.key /\ q.fp = p.fp /\ q.no < p.no
                                /\ q.at + BaselineTTL >= p.at
            => \E c \in Novelties : <<c.id[2][1]>> = p.key /\ c.id[2][2] = p.fp

=============================================================================
