---------------------------- MODULE ThreatIntel ----------------------------
(***************************************************************************)
(* threat-intel: a refresher thread fetches each feed, merges what it says *)
(* into one SQLite table and commits; the consumer thread looks telemetry  *)
(* up in that table over the same connection, without the writer's lock,   *)
(* and reports or files what it finds.                                     *)
(*                                                                         *)
(* What a feed publishes is a sequence of pages, one object                *)
(* [ind, score, marks, from, until, revoked, ok] on each: marks are TLP    *)
(* levels or Unresolved, from and until the validity window, ok whether    *)
(* the record passes the schema.  An indicator's row is the set of its     *)
(* provenance entries, one per feed; an empty set is no row.               *)
(***************************************************************************)
EXTENDS Integers, Sequences, FiniteSets, SequencesExt, FiniteSetsExt

CONSTANTS
    Feeds,       \* name -> [stix, trust, tlp, ttl, auth, pin]
    Published,   \* name -> sequence of the payloads that feed serves over time
    Indicators,
    Hashes,      \* the indicators that are file hashes
    Networks,    \* indicator -> the address ranges it lies in
    None, Unresolved,
    HourLength, SeenMax, MaxRedirects, \* int(now // 3600), _SEEN_MAX, _MAX_REDIRECTS
    MaxTime, MaxFaults, MaxEvents, MaxSuppressions \* bounds

Red == 4
DefaultScore == 75

ASSUME IntelAssumption ==
    /\ {HourLength, SeenMax} \subseteq Nat \ {0}
    /\ {MaxRedirects, MaxTime, MaxFaults, MaxEvents, MaxSuppressions} \subseteq Nat
    /\ \A f \in DOMAIN Feeds : Feeds[f].tlp \in 0 .. Red /\ Feeds[f].ttl \in Nat
    /\ \A f \in DOMAIN Feeds : Published[f] \in Seq(Seq(UNION {Range(p) : p \in Range(Published[f])}))
    /\ \A i \in Indicators : Networks[i] \subseteq Indicators

VARIABLES
    clock,
    rows, saved,    \* the table as the connection sees it, and as committed
    job,            \* the refresher: what it does with which feed
    served,         \* name -> payloads of it that were fetched to the end or not
    sent,           \* where credentials went: [feed, https, origin, pinned]
    suppressions,   \* [ind, until]
    looked,         \* the consumer: hits of the record in hand, not yet delivered
    seen,           \* _seen, oldest first: sequence of [key, policy]
    reported, filed,\* candidates sent and matches recorded in the audit table
    answered,       \* history: every [key, policy] delivered
    ingested,       \* history: what was committed, in order
    events, faults

store == <<rows, saved, suppressions>>
refresher == <<job, served, sent, ingested>>
consumer == <<looked, seen, reported, filed, answered, events>>
vars == <<clock, store, refresher, consumer, faults>>

Idle == [at |-> "idle"]
-----------------------------------------------------------------------------
(* Feeds: what a payload asserts and withdraws.                            *)

\* An unresolved marking counts as red.
Levels(marks) == {IF k = Unresolved THEN Red ELSE k : k \in marks}

\* The feed's own level is a floor.
normalize(f, raw, now) ==
    [feed |-> f, trust |-> Feeds[f].trust,
     score |-> IF raw.score = None THEN DefaultScore ELSE Max({0, Min({100, raw.score})}),
     tlp |-> Max({Feeds[f].tlp} \cup Levels(raw.marks)),
     expiry |-> IF raw.until = None THEN now + Feeds[f].ttl ELSE raw.until]

\* Revoked, or outside its validity window; a window that cannot be read counts as
\* one that has passed, which raw.until shows.
Withdrawn(f, raw, now) ==
    Feeds[f].stix /\ (\/ raw.revoked
                      \/ raw.from # None /\ raw.from > now
                      \/ raw.until # None /\ raw.until <= now)

\* validate_intel: a record outside the schema is logged and never stored.
WellFormed(raw) == raw.ok

\* Where a payload has a record to merge, and where a withdrawal.
records(f, payload, now) ==
    {n \in DOMAIN payload : ~Withdrawn(f, payload[n], now) /\ WellFormed(payload[n])}
revocations(f, payload, now) == {n \in DOMAIN payload : Withdrawn(f, payload[n], now)}
-----------------------------------------------------------------------------
(* Lifecycle.                                                              *)

\* Mutant: a refresh keeps the feed's older assertion.
MergeKeeping(provs, p) == provs \cup {p}
\* A refresh by the same feed supersedes its assertion.
merge(provs, p) == {q \in provs : q.feed # p.feed} \cup {p}

Valid(provs, now) == {p \in provs : p.expiry > now}

\* The best trusted of the valid assertions, or of all when none is valid.
best_provenance(provs, now) ==
    LET pool == IF Valid(provs, now) = {} THEN provs ELSE Valid(provs, now)
    IN  CHOOSE p \in pool : \A q \in pool : \/ q.trust < p.trust
                                            \/ q.trust = p.trust /\ q.score <= p.score

derive(provs, now) ==
    [score |-> best_provenance(provs, now).score, trust |-> best_provenance(provs, now).trust,
     tlp |-> Max({p.tlp : p \in provs}), active |-> Valid(provs, now) # {}]

\* working, the rows a batch changes, and the rows it deletes.
Base(w, ind) == IF ind \in DOMAIN w.rows THEN w.rows[ind] ELSE rows[ind]
Put(w, ind, provs) == [w EXCEPT !.rows = [i \in DOMAIN w.rows \cup {ind} |->
                                            IF i = ind THEN provs ELSE w.rows[i]]]

\* _apply_revocation: the last assertion's withdrawal deletes the row.
Revoke(w, f, ind) ==
    LET left == {p \in Base(w, ind) : p.feed # f}
    IN  IF Base(w, ind) = {} THEN w
        ELSE IF left # {} THEN Put(w, ind, left)
        ELSE [rows |-> [i \in DOMAIN w.rows \ {ind} |-> w.rows[i]], deletes |-> w.deletes \cup {ind}]

\* One turn of ingest's loops: all records are merged, then all withdrawals applied.
Turn(w, f, payload, now, n) ==
    LET new == payload[n] old == payload[n - Len(payload)]
    IN  IF n \in records(f, payload, now)
        THEN Put(w, new.ind, merge(Base(w, new.ind), normalize(f, new, now)))
        ELSE IF n - Len(payload) \in revocations(f, payload, now) THEN Revoke(w, f, old.ind)
        ELSE w

\* ingest, up to the transaction.
Batch(f, payload, now) ==
    LET working[n \in 0 .. 2 * Len(payload)] ==
            IF n = 0 THEN [rows |-> [i \in {} |-> {}], deletes |-> {}]
            ELSE Turn(working[n - 1], f, payload, now, n)
    IN  working[2 * Len(payload)]
-----------------------------------------------------------------------------
(* The refresher thread.                                                   *)

\* What the connectors' parsers read out of the answers.
Unserved(f) == served[f] < Len(Published[f])
Payload(f) == Published[f][served[f] + 1]

\* _intel_refresh takes the time once; the fetch of a feed may outlast it.
StartFeed(f) ==
    /\ job = Idle /\ Unserved(f)
    /\ job' = [at |-> "fetch", feed |-> f, now |-> clock, https |-> TRUE, origin |-> TRUE,
               redirects |-> 0, got |-> <<>>]
    /\ UNCHANGED <<clock, store, served, sent, ingested, consumer, faults>>

\* A feed that fails is logged and left for the next round.
Abandoned == /\ job' = Idle /\ served' = [served EXCEPT ![job.feed] = @ + 1]
GiveUp == Abandoned /\ UNCHANGED <<sent, ingested>>

\* _fetch refuses before it connects, _open_verified before it sends.
Refused(cert) ==
    LET F == Feeds[job.feed] IN ((F.auth \/ F.pin) /\ ~job.https) \/ (F.pin /\ ~cert)

\* Mutant: only a downgrade is refused.
RedirectsAnywhere(https) == job.redirects < MaxRedirects /\ (job.https => https)
\* _redirect_target: none with credentials or a pin, no downgrade otherwise.
MayRedirect(https) ==
    LET F == Feeds[job.feed]
    IN  job.redirects < MaxRedirects /\ ~F.auth /\ ~F.pin /\ (job.https => https)

Sent(cert) == IF Feeds[job.feed].auth
              THEN sent \cup {[feed |-> job.feed, https |-> job.https, origin |-> job.origin,
                               pinned |-> Feeds[job.feed].pin => cert]}
              ELSE sent

\* One GET, refused, answered with an error or a redirect, or with a page.
FetchRefused ==
    /\ job.at = "fetch" /\ \E cert \in BOOLEAN : Refused(cert)
    /\ GiveUp
    /\ UNCHANGED <<clock, store, consumer, faults>>

FetchRedirected(cert, https) ==
    /\ job.at = "fetch" /\ ~Refused(cert) /\ faults < MaxFaults
    /\ faults' = faults + 1
    /\ sent' = Sent(cert)
    /\ IF MayRedirect(https)
       THEN /\ job' = [job EXCEPT !.https = https, !.origin = FALSE, !.redirects = @ + 1]
            /\ UNCHANGED served
       ELSE Abandoned
    /\ UNCHANGED <<clock, store, ingested, consumer>>

\* An error status, or more pages announced without a way to reach them.
FetchFailed(cert) ==
    /\ job.at = "fetch" /\ ~Refused(cert) /\ faults < MaxFaults
    /\ faults' = faults + 1
    /\ sent' = Sent(cert)
    /\ Abandoned
    /\ UNCHANGED <<clock, store, ingested, consumer>>

\* The server says that there are no more pages.
Complete(got) == Len(got) = Len(Payload(job.feed))

\* A list is one page; a TAXII collection is read to its end.
FetchPage(cert) ==
    /\ job.at = "fetch" /\ ~Refused(cert)
    /\ sent' = Sent(cert)
    /\ LET p == Payload(job.feed)
           got == IF Feeds[job.feed].stix /\ p # <<>> THEN Append(job.got, p[Len(job.got) + 1]) ELSE p
       IN  IF Complete(got)
           THEN job' = [at |-> "upsert", feed |-> job.feed, got |-> got, now |-> job.now,
                        batch |-> Batch(job.feed, got, job.now)]
           ELSE job' = [job EXCEPT !.got = got]
    /\ UNCHANGED <<clock, store, served, ingested, consumer, faults>>

\* upsert_many: visible to the other thread as it goes, durable at the end.
Upsert ==
    /\ job.at = "upsert"
    /\ rows' = [i \in Indicators |-> IF i \in DOMAIN job.batch.rows THEN job.batch.rows[i] ELSE rows[i]]
    /\ job' = [job EXCEPT !.at = "delete"]
    /\ UNCHANGED <<clock, saved, suppressions, served, sent, ingested, consumer, faults>>

Delete ==
    /\ job.at = "delete"
    /\ rows' = [i \in Indicators |-> IF i \in job.batch.deletes THEN {} ELSE rows[i]]
    /\ job' = [job EXCEPT !.at = "commit"]
    /\ UNCHANGED <<clock, saved, suppressions, served, sent, ingested, consumer, faults>>

CommitBatch ==
    /\ job.at = "commit"
    /\ saved' = rows
    /\ ingested' = Append(ingested, [feed |-> job.feed, payload |-> Payload(job.feed), now |-> job.now])
    /\ Abandoned
    /\ UNCHANGED <<clock, rows, suppressions, sent, consumer, faults>>

Rollback ==
    /\ job.at \in {"upsert", "delete", "commit"} /\ faults < MaxFaults
    /\ faults' = faults + 1
    /\ rows' = saved
    /\ GiveUp
    /\ UNCHANGED <<clock, saved, suppressions, consumer>>
-----------------------------------------------------------------------------
(* The consumer thread.                                                    *)

Suppressed(ind) == \E s \in suppressions : s.ind = ind /\ s.until > clock

\* ti.match: the exact row and the networks around the value, active ones only.
Lookup(value) ==
    /\ looked = {} /\ events < MaxEvents
    /\ events' = events + 1
    /\ looked' = {[value |-> value, ind |-> i, provs |-> rows[i], eff |-> derive(rows[i], clock),
                   suppressed |-> Suppressed(i), hour |-> clock \div HourLength] :
                    i \in {x \in {value} \cup Networks[value] :
                             rows[x] # {} /\ Valid(rows[x], clock) # {}}}
    /\ UNCHANGED <<clock, store, refresher, seen, reported, filed, answered, faults>>

\* A file hash is one finding an hour whatever is said of it.
Key(h) == [value |-> h.value, ind |-> h.ind, hour |-> h.hour,
           provs |-> IF h.ind \in Hashes THEN {} ELSE h.provs]
Policy(h) == [suppressed |-> h.suppressed, exportable |-> h.eff.tlp # Red]
Reportable(policy) == ~policy.suppressed /\ policy.exportable

\* Mutant: one report of a key is enough.
AnyPolicy(h) == \E i \in DOMAIN seen : seen[i].key = Key(h)
Repeated(h) == \E i \in DOMAIN seen : seen[i] = [key |-> Key(h), policy |-> Policy(h)]

\* The key, which is there once or not at all, moves to the end; the oldest go.
Without(key) ==
    LET at == {i \in DOMAIN seen : seen[i].key = key}
    IN  IF at = {} THEN seen ELSE RemoveAt(seen, CHOOSE i \in at : TRUE)
Remember(h) ==
    LET kept == Append(Without(Key(h)), [key |-> Key(h), policy |-> Policy(h)])
    IN  IF Len(kept) > SeenMax THEN SubSeq(kept, Len(kept) - SeenMax + 1, Len(kept)) ELSE kept

Deliver(h) ==
    /\ h \in looked
    /\ looked' = looked \ {h}
    /\ answered' = answered \cup {[key |-> Key(h), policy |-> Policy(h)]}
    /\ IF Repeated(h) THEN UNCHANGED <<seen, reported, filed>>
       ELSE /\ seen' = Remember(h)
            /\ IF Reportable(Policy(h))
               THEN reported' = reported \cup {[key |-> Key(h), provs |-> h.provs]} /\ UNCHANGED filed
               ELSE filed' = filed \cup {Key(h)} /\ UNCHANGED reported
    /\ UNCHANGED <<clock, store, refresher, events, faults>>
-----------------------------------------------------------------------------
\* An analyst's decision: it must end.
suppress(ind, until) ==
    /\ Cardinality(suppressions) < MaxSuppressions /\ until > clock
    /\ suppressions' = suppressions \cup {[ind |-> ind, until |-> until]}
    /\ UNCHANGED <<clock, rows, saved, refresher, consumer, faults>>

Tick == /\ clock < MaxTime /\ clock' = clock + 1
        /\ UNCHANGED <<store, refresher, consumer, faults>>

Init ==
    /\ clock = 0
    /\ rows = [i \in Indicators |-> {}] /\ saved = rows
    /\ job = Idle /\ served = [f \in DOMAIN Feeds |-> 0] /\ sent = {} /\ ingested = <<>>
    /\ suppressions = {} /\ looked = {} /\ seen = <<>> /\ reported = {} /\ filed = {} /\ answered = {}
    /\ events = 0 /\ faults = 0

Refresh ==
    \/ \E f \in DOMAIN Feeds : StartFeed(f)
    \/ FetchRefused
    \/ \E cert \in BOOLEAN : FetchPage(cert) \/ FetchFailed(cert)
                             \/ \E https \in BOOLEAN : FetchRedirected(cert, https)
    \/ Upsert \/ Delete \/ CommitBatch \/ Rollback

Next ==
    \/ Refresh
    \/ \E i \in Indicators : Lookup(i)
    \/ \E h \in looked : Deliver(h)
    \/ \E i \in Indicators, t \in 1 .. MaxTime : suppress(i, t)
    \/ Tick

Spec == Init /\ [][Next]_vars
-----------------------------------------------------------------------------
(* Properties.                                                             *)

Mentions(b, ind) == \E i \in DOMAIN b.payload :
    /\ b.payload[i].ind = ind
    /\ WellFormed(b.payload[i]) \/ Withdrawn(b.feed, b.payload[i], b.now)

\* What a feed last said of an indicator, in the newest whole payload that says
\* anything: nothing if it withdraws it there, else its last word.
LastSaid(f, ind) ==
    LET of == {n \in DOMAIN ingested : ingested[n].feed = f /\ Mentions(ingested[n], ind)}
        b == ingested[Max(of)]
        says == {i \in DOMAIN b.payload : b.payload[i].ind = ind}
        asserts == {i \in says : WellFormed(b.payload[i]) /\ ~Withdrawn(f, b.payload[i], b.now)}
    IN  IF of = {} \/ (\E i \in says : Withdrawn(f, b.payload[i], b.now)) THEN {}
        ELSE {normalize(f, b.payload[Max(asserts)], b.now)}

\* Through failed and cut-off fetches, rollbacks, withdrawals and refreshes that
\* overlap validity windows, the committed table holds for every indicator exactly
\* what each feed last said of it.
StoreFollowsFeeds ==
    \A i \in Indicators : saved[i] = UNION {LastSaid(f, i) : f \in DOMAIN Feeds}

\* Credentials reach only the configured host, over TLS, behind the configured pin.
CredentialsProtected == \A s \in sent : s.https /\ s.origin /\ s.pinned

\* Whatever was reported, filed or evicted before: a hit that may be reported when it
\* is delivered has been reported in its hour, so an ended suppression or a lifted
\* marking takes effect at once; and one that may not is on file.
HitsFollowPolicy ==
    \A a \in answered : IF Reportable(a.policy) THEN \E r \in reported : r.key = a.key
                        ELSE a.key \in filed
=============================================================================
