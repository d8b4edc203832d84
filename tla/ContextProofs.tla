--------------------------- MODULE ContextProofs ---------------------------
(***************************************************************************)
(* What findings are put in context with, for all values of the constants: *)
(* a hunt finds what it should; what correlation saved outlives its        *)
(* process, and one finding alone raises no incident; anomaly detection    *)
(* judges no window early and keeps what it learned.  The three services   *)
(* share nothing.                                                          *)
(***************************************************************************)
EXTENDS IntelHunt, Sequences, FiniteSetTheorems, TLAPS

CONSTANTS
    Findings, AssetOf, MlSources, Window, RiskThreshold, MinTactics,
    Stream, Width, Lateness, HistoryWindows, MinSamples, MinPeers, Threshold, ScaleFloor, Retention,
    EmitWindow, HealthWindow, MinSample,
    MaxTime, MaxCrashes

VARIABLES
    read, committed, emitted, crashes,
    clock, spine, state, saved, forgotten, candidates,
    wall, pending, closed, newest, history, findings, late, tally, assessed, busy

Risk == INSTANCE Correlation
Peers == INSTANCE OutboundAnomaly

-----------------------------------------------------------------------------
(* intel-hunt                                                              *)

HitOf(k, o, i) == <<k.tenant, k.hunt, o, i>>

\* What the cursor has passed or, when the hunt is complete, everything.
Passed(j, o) == j.status = "complete" \/ ~After(o, j.from, j.after)

\* Nothing the cursor has passed was missed.
Searched(k) ==
    \A o \in started[k], i \in jobs[k].inds :
        InWindow(o, jobs[k].request) /\ Matches(o, i) /\ Passed(jobs[k], o) => HitOf(k, o, i) \in hits

\* What was found is a match inside the window.
Found(k) ==
    \A o, i : HitOf(k, o, i) \in hits =>
        o \in evidence /\ i \in jobs[k].inds /\ InWindow(o, jobs[k].request) /\ Matches(o, i)

Sound(k) ==
    /\ JobKey(jobs[k].request) = k /\ jobs[k].request.from <= jobs[k].from
    /\ Searched(k) /\ Found(k)

HuntInv ==
    /\ evidence \subseteq Observations
    /\ jobs \in [Keys -> Job \cup {None}]
    /\ \A h \in hits : \E k \in Keys : jobs[k] # None /\ \E o, i : h = HitOf(k, o, i)
    /\ started \in [Keys -> SUBSET evidence]
    /\ serving # None => serving \in Requests /\ jobs[JobKey(serving)] # None
    /\ \A k \in Keys : jobs[k] # None => Sound(k)

LEMMA HitEq ==
    \A a, b \in Keys : \A o, p, i, j : HitOf(a, o, i) = HitOf(b, p, j) => a = b /\ o = p /\ i = j
  BY DEF HitOf, Keys, JobKey

LEMMA KeyOf == \A r \in Requests : JobKey(r) \in Keys /\ JobKey(r).tenant = r.tenant
  BY DEF Keys, JobKey

\* A step that saves nothing and loses no evidence.
LEMMA HuntStands ==
    ASSUME HuntInv, jobs' = jobs, hits' = hits, started' = started, evidence \subseteq evidence',
           evidence' \subseteq Observations, serving' \in {serving, None}
    PROVE  HuntInv'
  <1>1. ASSUME NEW k \in Keys, Sound(k) PROVE Sound(k)'
    BY <1>1 DEF Sound, Searched, Found
  <1>2. started' \in [Keys -> SUBSET evidence']
    BY DEF HuntInv
  <1> QED
    BY <1>1, <1>2 DEF HuntInv

LEMMA OpenedFacts ==
    ASSUME HuntAssumption, NEW r \in Requests
    PROVE  /\ Opened(r) \in Job /\ Opened(r) # None /\ Opened(r).request = r
           /\ Opened(r).from = r.from /\ Opened(r).after = 0 /\ Opened(r).status = "pending"
  <1>1. {i \in r.inds : i[1] \in Supported} \in SUBSET UNION {q.inds : q \in Requests}
    OBVIOUS
  <1>2. r.from \in Int
    BY DEF HuntAssumption
  <1>3. Opened(r) \in Job
    BY <1>1, <1>2 DEF Opened, Job
  <1> QED
    BY <1>3 DEF Opened, HuntAssumption

\* A new hunt has no hits, and its cursor stands before its window.
LEMMA PostStep ==
    ASSUME HuntAssumption, HuntInv, NEW r \in Requests, Post(r)
    PROVE  HuntInv'
  <1> DEFINE k == JobKey(r)
  <1>1. k \in Keys
    BY KeyOf
  <1>2. evidence' = evidence /\ hits' = hits /\ serving' = r
    BY DEF Post
  <1>3. CASE jobs[k] # None
    <2>1. jobs' = jobs /\ started' = started
      BY <1>3 DEF Post
    <2>2. \A c \in Keys : Sound(c) => Sound(c)'
      BY <1>2, <2>1 DEF Sound, Searched, Found
    <2> QED
      BY <1>2, <1>3, <2>1, <2>2 DEF HuntInv
  <1>4. CASE jobs[k] = None
    <2>1. jobs' = [jobs EXCEPT ![k] = Opened(r)] /\ started' = [started EXCEPT ![k] = evidence]
      BY <1>4 DEF Post
    <2>2. jobs' \in [Keys -> Job \cup {None}] /\ jobs'[k] = Opened(r) /\ jobs'[k] # None
      BY <1>1, <2>1, OpenedFacts DEF HuntInv
    <2>3. started' \in [Keys -> SUBSET evidence] /\ started'[k] = evidence
      BY <1>1, <2>1 DEF HuntInv
    <2>4. \A c \in Keys \ {k} : jobs'[c] = jobs[c] /\ started'[c] = started[c]
      BY <1>1, <2>1 DEF HuntInv
    <2>5. ASSUME NEW c \in Keys \ {k}, Sound(c) PROVE Sound(c)'
      BY <1>2, <2>4, <2>5 DEF Sound, Searched, Found
    <2>6. \A o, i : HitOf(k, o, i) \notin hits
      BY <1>1, <1>4, HitEq DEF HuntInv
    <2>7. Found(k)'
      BY <1>2, <2>6 DEF Found
    <2>8. ASSUME NEW o \in evidence, InWindow(o, r) PROVE After(o, r.from, 0)
      BY <2>8 DEF InWindow, After, HuntInv, HuntAssumption
    <2>9. Searched(k)'
      <3>1. \A o \in evidence : InWindow(o, r) => ~Passed(Opened(r), o)
        BY <2>8, OpenedFacts DEF Passed
      <3> QED
        BY <2>2, <2>3, <3>1, OpenedFacts DEF Searched
    <2>10. Sound(k)'
      BY <2>2, <2>7, <2>9, OpenedFacts DEF Sound, HuntAssumption
    <2>11. \A h \in hits' : \E c \in Keys : jobs'[c] # None /\ \E o, i : h = HitOf(c, o, i)
      BY <1>2, <1>4, <2>4 DEF HuntInv
    <2> QED
      BY <1>2, <2>2, <2>3, <2>4, <2>5, <2>10, <2>11 DEF HuntInv
  <1> QED
    BY <1>3, <1>4

\* The page after a cursor: what is inside the window, and everything up to the next cursor.
LEMMA PageFacts ==
    ASSUME HuntAssumption, evidence \subseteq Observations, NEW j \in Job, j.request.from <= j.from,
           NEW page \in Pages(j)
    PROVE  /\ page.rows \subseteq evidence
           /\ \A o \in page.rows : InWindow(o, j.request)
           /\ page.more \in BOOLEAN
           /\ page.more => page.from \in Int /\ page.after \in Nat /\ j.request.from <= page.from
           /\ \A o \in evidence :
                InWindow(o, j.request) /\ After(o, j.from, j.after) /\ (page.more => ~After(o, page.from, page.after))
                => o \in page.rows
  <1> DEFINE until == IF j.request.to < j.from + MaxWindow THEN j.request.to ELSE j.from + MaxWindow
             rows == {o \in evidence : o.tenant = j.request.tenant /\ o.ts < until /\ After(o, j.from, j.after)}
             cut(last) == [rows |-> UpTo(rows, last), more |-> TRUE, from |-> last.ts, after |-> last.id]
             whole == [rows |-> rows, more |-> until < j.request.to, from |-> until, after |-> 0]
  <1>1. /\ j.request \in Requests /\ j.from \in Int /\ j.after \in Nat
        /\ j.request.from \in Int /\ j.request.to \in Int /\ MaxWindow \in Nat \ {0}
    BY DEF Job, HuntAssumption
  <1>2. \A o \in evidence : o.id \in Nat \ {0} /\ o.ts \in Int
    BY DEF HuntAssumption
  <1>3. until \in Int /\ until <= j.request.to /\ (until < j.request.to => j.from < until)
    BY <1>1
  <1>4. page = whole \/ \E last \in rows : page = cut(last)
    BY DEF Pages
  <1> HIDE DEF until
  <1>5. \A o \in rows : o \in evidence /\ InWindow(o, j.request) /\ j.from <= o.ts
    BY <1>1, <1>2, <1>3 DEF InWindow, After
  <1>6. CASE page = whole
    <2>1. ASSUME NEW o \in evidence, InWindow(o, j.request), After(o, j.from, j.after),
                 until < j.request.to => ~After(o, until, 0)
          PROVE  o \in rows
      <3>1. o.ts < until
        BY <1>1, <1>2, <1>3, <2>1 DEF After, InWindow
      <3> QED
        BY <2>1, <3>1 DEF InWindow
    <2>2. until < j.request.to => until \in Int /\ 0 \in Nat /\ j.request.from <= until
      BY <1>1, <1>3
    <2>3. page.rows = rows /\ page.from = until /\ page.after = 0
      BY <1>6
    <2>4. page.more = (until < j.request.to)
      BY <1>6, Zenon
    <2>5. page.more \in BOOLEAN /\ (page.more <=> until < j.request.to)
      <3>1. CASE until < j.request.to
        BY <2>4, <3>1, Zenon
      <3>2. CASE ~(until < j.request.to)
        <4>1. (until < j.request.to) = FALSE
          BY <3>2
        <4>2. page.more = FALSE
          BY <2>4, <4>1, Zenon
        <4> QED
          BY <3>2, <4>2
      <3> QED
        BY <3>1, <3>2
    <2> HIDE DEF rows, whole
    <2> QED
      BY <1>5, <2>1, <2>2, <2>3, <2>5
  <1>7. ASSUME NEW last \in rows, page = cut(last)
        PROVE  /\ page.rows \subseteq rows /\ page.more = TRUE
               /\ page.from \in Int /\ page.after \in Nat /\ j.request.from <= page.from
               /\ \A o \in evidence : InWindow(o, j.request) /\ After(o, j.from, j.after) /\ ~After(o, page.from, page.after)
                                      => o \in page.rows
    <2>1. page.rows = UpTo(rows, last) /\ page.more = TRUE /\ page.from = last.ts /\ page.after = last.id
      BY <1>7
    <2>2. last.ts \in Int /\ last.id \in Nat /\ j.request.from <= last.ts /\ last.ts < until
      BY <1>1, <1>2, <1>5
    <2>3. ASSUME NEW o \in evidence, InWindow(o, j.request), After(o, j.from, j.after), ~After(o, last.ts, last.id)
          PROVE  o \in rows /\ ~Earlier(last, o)
      <3>1. o.ts <= last.ts /\ o.ts < until
        BY <1>2, <1>3, <2>2, <2>3 DEF After
      <3>2. ~Earlier(last, o)
        BY <1>2, <2>2, <2>3 DEF After, Earlier
      <3> QED
        BY <2>3, <3>1, <3>2 DEF InWindow
    <2> QED
      BY <2>1, <2>2, <2>3 DEF UpTo
  <1> QED
    BY <1>4, <1>5, <1>6, <1>7

\* A page is saved with its cursor: the job goes on behind what it has looked at.
LEMMA AdvanceStep ==
    ASSUME HuntAssumption, HuntInv, Advance
    PROVE  HuntInv'
  <1>0. PICK k \in Keys : k = JobKey(serving)
    BY KeyOf DEF HuntInv, Advance
  <1> DEFINE j == jobs[k]
             new == jobs'[k]
  <1>1. k \in Keys /\ j # None /\ j \in Job /\ Sound(k) /\ serving \in Requests
    BY <1>0 DEF HuntInv, Advance
  <1>2. evidence' = evidence /\ started' = started /\ serving' = None
    BY DEF Advance
  <1>3. j.request.tenant = k.tenant
    BY <1>1, KeyOf DEF Sound, Job
  \* Whatever the page was, it is enough to look at the job and its hits.
  <1>4. ASSUME jobs' = [jobs EXCEPT ![k] = new], new \in Job, new.request = j.request, new.inds = j.inds,
               j.request.from <= new.from, hits \subseteq hits',
               \A h \in hits' \ hits : \E o, i : h = HitOf(k, o, i),
               Searched(k)', Found(k)'
        PROVE  HuntInv'
    <2>1. jobs' \in [Keys -> Job \cup {None}] /\ new # None
      BY <1>1, <1>4 DEF HuntInv, HuntAssumption
    <2>2. \A c \in Keys \ {k} : jobs'[c] = jobs[c]
      BY <1>1, <1>4 DEF HuntInv
    <2>3. \A c \in Keys \ {k} : \A o, i : HitOf(c, o, i) \in hits' <=> HitOf(c, o, i) \in hits
      BY <1>1, <1>4, HitEq
    <2>4. ASSUME NEW c \in Keys \ {k}, Sound(c) PROVE Sound(c)'
      BY <1>2, <2>2, <2>3, <2>4 DEF Sound, Searched, Found
    <2>5. Sound(k)'
      BY <1>1, <1>4 DEF Sound
    <2>6. ASSUME NEW h \in hits' PROVE \E c \in Keys : jobs'[c] # None /\ \E o, i : h = HitOf(c, o, i)
      <3>1. CASE h \in hits
        BY <2>1, <2>2, <3>1 DEF HuntInv
      <3>2. CASE h \notin hits
        BY <1>1, <1>4, <2>1, <3>2
      <3> QED
        BY <3>1, <3>2
    <2> QED
      BY <1>2, <2>1, <2>2, <2>4, <2>5, <2>6 DEF HuntInv
  <1>5. CASE j.inds = {}
    <2>1. jobs' = [jobs EXCEPT ![k] = [j EXCEPT !.status = "complete"]] /\ hits' = hits
      BY <1>0, <1>5 DEF Advance
    <2>2. new = [j EXCEPT !.status = "complete"]
      BY <1>1, <2>1 DEF HuntInv
    <2>3. new \in Job /\ new.request = j.request /\ new.inds = j.inds /\ new.from = j.from
      BY <1>1, <2>2 DEF Job
    <2>4. Searched(k)'
      BY <1>5, <2>3 DEF Searched
    <2>5. Found(k)'
      BY <1>1, <1>2, <2>1, <2>3 DEF Found, Sound
    <2> QED
      BY <1>1, <1>4, <2>1, <2>2, <2>3, <2>4, <2>5 DEF Sound
  <1>6. ASSUME NEW page \in Pages(j),
               hits' = hits \cup {<<k.tenant, k.hunt, x[1], x[2]>> :
                                    x \in {y \in page.rows \X j.inds : Matches(y[1], y[2])}},
               jobs' = [jobs EXCEPT ![k] = IF page.more THEN [j EXCEPT !.from = page.from, !.after = page.after]
                                           ELSE [j EXCEPT !.status = "complete"]]
        PROVE  HuntInv'
    <2>1. /\ page.rows \subseteq evidence
          /\ \A o \in page.rows : InWindow(o, j.request)
          /\ page.more \in BOOLEAN
          /\ page.more => page.from \in Int /\ page.after \in Nat /\ j.request.from <= page.from
          /\ \A o \in evidence :
                InWindow(o, j.request) /\ After(o, j.from, j.after) /\ (page.more => ~After(o, page.from, page.after))
                => o \in page.rows
      BY <1>1, PageFacts DEF HuntInv, Sound
    <2>2. new = IF page.more THEN [j EXCEPT !.from = page.from, !.after = page.after]
                ELSE [j EXCEPT !.status = "complete"]
      BY <1>1, <1>6 DEF HuntInv
    <2>3. /\ new \in Job /\ new.request = j.request /\ new.inds = j.inds /\ j.request.from <= new.from
          /\ page.more => new.from = page.from /\ new.after = page.after /\ new.status = j.status
      BY <1>1, <2>1, <2>2, ZenonT(40) DEF Job, Sound
    <2>4. \A o, i : HitOf(k, o, i) \in hits' <=> HitOf(k, o, i) \in hits
                                                 \/ (o \in page.rows /\ i \in j.inds /\ Matches(o, i))
      <3> DEFINE now == {y \in page.rows \X j.inds : Matches(y[1], y[2])}
      <3>1. \A h : h \in hits' <=> h \in hits \/ \E x \in now : h = <<k.tenant, k.hunt, x[1], x[2]>>
        BY <1>6
      <3>2. \A x \in now : x = <<x[1], x[2]>> /\ x[1] \in page.rows /\ x[2] \in j.inds /\ Matches(x[1], x[2])
        OBVIOUS
      <3>3. \A o \in page.rows, i \in j.inds : Matches(o, i) => <<o, i>> \in now /\ <<o, i>>[1] = o /\ <<o, i>>[2] = i
        OBVIOUS
      <3> HIDE DEF now
      <3>4. ASSUME NEW o, NEW i
            PROVE  (\E x \in now : HitOf(k, o, i) = <<k.tenant, k.hunt, x[1], x[2]>>)
                   <=> o \in page.rows /\ i \in j.inds /\ Matches(o, i)
        <4>1. \A x : HitOf(k, o, i) = <<k.tenant, k.hunt, x[1], x[2]>> <=> o = x[1] /\ i = x[2]
          BY DEF HitOf
        <4>2. ASSUME NEW x \in now, o = x[1], i = x[2] PROVE o \in page.rows /\ i \in j.inds /\ Matches(o, i)
          BY <3>2, <4>2
        <4>3. ASSUME o \in page.rows, i \in j.inds, Matches(o, i) PROVE \E x \in now : o = x[1] /\ i = x[2]
          BY <3>3, <4>3
        <4> QED
          BY <4>1, <4>2, <4>3, Zenon
      <3> QED
        BY <3>1, <3>4, Zenon
    <2>5. \A h \in hits' \ hits : \E o, i : h = HitOf(k, o, i)
      BY <1>6 DEF HitOf
    <2>6. Found(k)'
      BY <1>1, <1>2, <2>1, <2>3, <2>4 DEF Found, Sound
    <2>7. ASSUME NEW o \in started[k], NEW i \in j.inds, InWindow(o, j.request), Matches(o, i), Passed(new, o)
          PROVE  HitOf(k, o, i) \in hits'
      <3>1. CASE Passed(j, o)
        BY <1>1, <2>4, <2>7, <3>1 DEF Sound, Searched
      <3>2. CASE ~Passed(j, o)
        <4>1. After(o, j.from, j.after) /\ j.status # "complete"
          BY <3>2 DEF Passed
        <4>2. page.more => ~After(o, page.from, page.after)
          BY <2>3, <2>7, <4>1 DEF Passed
        <4>3. o \in evidence
          BY <1>1 DEF HuntInv
        <4> QED
          BY <2>1, <2>4, <2>7, <4>1, <4>2, <4>3
      <3> QED
        BY <3>1, <3>2
    <2>8. Searched(k)'
      BY <1>2, <2>3, <2>7 DEF Searched
    <2> QED
      BY <1>4, <1>6, <2>2, <2>3, <2>5, <2>6, <2>8
  <1> QED
    BY <1>0, <1>5, <1>6, ZenonT(60) DEF Advance

LEMMA HuntNext ==
    ASSUME HuntAssumption, HuntInv, [Next]_vars
    PROVE  HuntInv'
  <1>1. ASSUME NEW o \in Observations, Arrive(o) PROVE HuntInv'
    BY <1>1, HuntStands DEF Arrive, HuntInv
  <1>2. CASE Fail
    BY <1>2, HuntStands DEF Fail, HuntInv
  <1>3. CASE UNCHANGED vars
    BY <1>3, HuntStands DEF vars, HuntInv
  <1> QED
    BY <1>1, <1>2, <1>3, PostStep, AdvanceStep DEF Next

\* The hits of a hunt are matches of its own tenant inside its window, and a hunt that is
\* complete has missed none that was stored when it began, whatever the page size, ties in
\* time, arrivals, failed reads and saves, and other hunts (HuntWorker.step).
THEOREM HuntsAreExact ==
    ASSUME HuntAssumption
    PROVE  Spec => []HuntExact
  <1>1. Init => HuntInv
    BY DEF Init, HuntInv, HuntAssumption
  <1>2. HuntInv => HuntExact
    <2> SUFFICES ASSUME HuntInv, NEW k \in Keys, jobs[k] # None
                 PROVE  LET r == jobs[k].request
                            found == {<<h[3], h[4]>> : h \in {x \in hits : x[1] = k.tenant /\ x[2] = k.hunt}}
                            due(S) == {x \in S \X jobs[k].inds : InWindow(x[1], r) /\ Matches(x[1], x[2])}
                        IN  /\ found \subseteq due(evidence)
                            /\ jobs[k].status = "complete" => due(started[k]) \subseteq found
      BY DEF HuntExact
    <2>1. Sound(k)
      BY DEF HuntInv
    <2>2. ASSUME NEW h \in hits, h[1] = k.tenant, h[2] = k.hunt
          PROVE  \E o, i : h = HitOf(k, o, i) /\ h[3] = o /\ h[4] = i
      <3>1. PICK c \in Keys : \E o, i : h = HitOf(c, o, i)
        BY DEF HuntInv
      <3>2. PICK o, i : h = HitOf(c, o, i)
        BY <3>1
      <3>3. h = HitOf(k, o, i) /\ h[3] = o /\ h[4] = i
        BY <2>2, <3>2 DEF HitOf
      <3> QED
        BY <3>3
    <2>3. \A o, i : HitOf(k, o, i)[1] = k.tenant /\ HitOf(k, o, i)[2] = k.hunt
                    /\ HitOf(k, o, i)[3] = o /\ HitOf(k, o, i)[4] = i
      BY DEF HitOf
    <2> QED
      BY <2>1, <2>2, <2>3 DEF Sound, Found, Searched, Passed
  <1>3. HuntInv /\ [Next]_vars => HuntInv'
    BY HuntNext
  <1> QED
    BY <1>1, <1>2, <1>3, PTL DEF Spec

-----------------------------------------------------------------------------
(* correlation-service                                                     *)

\* What _entity state holds: findings of others, each with the time it came.
Item == {x \in [finding : {Findings[i] : i \in DOMAIN Findings}, ts : Nat] :
            ~Risk!is_structured_ndpi(x.finding) /\ ~Risk!is_correlation(x.finding)}

\* A reload leaves structured nDPI findings out: that it loses nothing rests on none
\* having been saved.
KeptInv ==
    /\ clock \in Nat /\ read \in Nat /\ committed \in Nat
    /\ state \in [Risk!Entities -> SUBSET Item]
    /\ saved \in [Risk!Entities -> SUBSET Item]
    /\ forgotten \in [Risk!Entities -> SUBSET Item]
    /\ Risk!SavedIsKept

\* Every row of a start is in memory again, or among what it could not read.
LEMMA StartFacts ==
    ASSUME NEW rows \in [Risk!Entities -> SUBSET Item], Risk!Start(rows)
    PROVE  /\ state' \in [Risk!Entities -> SUBSET Item] /\ forgotten' \in [Risk!Entities -> SUBSET Item]
           /\ \A e \in Risk!Entities : state'[e] \subseteq rows[e] /\ rows[e] \subseteq state'[e] \cup forgotten'[e]
  <1>1. PICK readable \in SUBSET Risk!Entities :
            /\ state' = Risk!Reloaded(rows, readable)
            /\ forgotten' = [e \in Risk!Entities |-> IF e \in readable THEN {} ELSE rows[e]]
    BY DEF Risk!Start
  <1>2. \A e \in Risk!Entities : {x \in rows[e] : ~Risk!is_structured_ndpi(x.finding)} = rows[e]
    BY DEF Item
  <1>3. state' = [e \in Risk!Entities |-> IF e \in readable THEN rows[e] ELSE {}]
    BY <1>1, <1>2 DEF Risk!Reloaded
  <1> QED
    BY <1>1, <1>3

LEMMA SavedFacts ==
    ASSUME KeptInv
    PROVE  /\ Risk!Saved \in [Risk!Entities -> SUBSET Item]
           /\ \A e \in Risk!Entities : Risk!Fresh(Risk!Saved[e]) \subseteq state[e] \cup forgotten[e]
  <1>1. \A e \in Risk!Entities : Risk!Saved[e] = IF state[e] = {} THEN saved[e] ELSE state[e]
    BY DEF Risk!Saved
  <1>2. Risk!Saved \in [Risk!Entities -> SUBSET Item]
    BY DEF Risk!Saved, KeptInv
  <1>3. \A e \in Risk!Entities : Risk!Fresh(saved[e]) \subseteq state[e] \cup forgotten[e]
    BY DEF KeptInv, Risk!SavedIsKept
  <1>4. \A S : Risk!Fresh(S) \subseteq S
    BY DEF Risk!Fresh
  <1> QED
    BY <1>1, <1>2, <1>3, <1>4

LEMMA ConsumeKept ==
    ASSUME Risk!CorrelationAssumption, KeptInv, Risk!Consume
    PROVE  KeptInv'
  <1>1. PICK f : f = Findings[read + 1]
    OBVIOUS
  <1>2. UNCHANGED <<clock, saved, forgotten, committed>> /\ read' = read + 1 /\ read < Len(Findings)
    BY DEF Risk!Consume
  <1>3. read + 1 \in DOMAIN Findings
    <2>1. PICK S : Findings \in Seq(S)
      BY DEF Risk!CorrelationAssumption
    <2> QED
      BY <1>2, <2>1 DEF KeptInv
  <1>4. CASE state' = state
    BY <1>2, <1>4 DEF KeptInv, Risk!SavedIsKept, Risk!Fresh
  <1>5. CASE state' # state
    <2>1. PICK e : e = Risk!EntityOf(f.ip)
      OBVIOUS
    <2>2. PICK x : x = [finding |-> f, ts |-> clock]
      OBVIOUS
    <2>3. /\ ~Risk!is_structured_ndpi(f) /\ ~Risk!is_correlation(f) /\ f.ip # ""
          /\ state' = [state EXCEPT ![e] = state[e] \cup {x}]
      BY <1>1, <1>5, <2>1, <2>2 DEF Risk!Consume
    <2>4. f.ip \in DOMAIN AssetOf
      BY <1>1, <1>3, <2>3 DEF Risk!CorrelationAssumption
    <2>5. e \in Risk!Entities
      BY <2>1, <2>4 DEF Risk!Entities, Risk!EntityOf
    <2>6. x \in Item
      BY <1>1, <1>3, <2>2, <2>3 DEF Item, KeptInv
    <2>7. state' \in [Risk!Entities -> SUBSET Item] /\ \A d \in Risk!Entities : state[d] \subseteq state'[d]
      BY <2>3, <2>5, <2>6 DEF KeptInv
    <2> QED
      BY <1>2, <2>7 DEF KeptInv, Risk!SavedIsKept, Risk!Fresh
  <1> QED
    BY <1>4, <1>5

LEMMA KeptNext ==
    ASSUME Risk!CorrelationAssumption, KeptInv, [Risk!Next]_(Risk!vars)
    PROVE  KeptInv'
  <1>1. CASE Risk!Evaluate
    <2>1. UNCHANGED <<clock, saved, forgotten, read, committed>> /\ state' = Risk!Pruned
      BY <1>1 DEF Risk!Evaluate
    <2>2. \A e \in Risk!Entities : state'[e] = Risk!Fresh(state[e])
      BY <2>1 DEF Risk!Pruned
    <2>3. state' \in [Risk!Entities -> SUBSET Item]
      BY <2>1 DEF Risk!Pruned, Risk!Fresh, KeptInv
    <2> QED
      BY <2>1, <2>2, <2>3 DEF KeptInv, Risk!SavedIsKept, Risk!Fresh
  <1>2. CASE Risk!Persist
    <2>1. UNCHANGED <<clock, state, forgotten, read, committed>> /\ saved' = Risk!Saved
      BY <1>2 DEF Risk!Persist
    <2> QED
      BY <2>1, SavedFacts DEF KeptInv, Risk!SavedIsKept, Risk!Fresh
  <1>3. CASE Risk!Stop
    <2>1. UNCHANGED clock /\ read' = read /\ committed' = read /\ saved' = Risk!Saved /\ Risk!Start(saved')
      BY <1>3 DEF Risk!Stop
    <2>2. saved' \in [Risk!Entities -> SUBSET Item]
      BY <2>1, SavedFacts
    <2> QED
      BY <2>1, <2>2, StartFacts DEF KeptInv, Risk!SavedIsKept, Risk!Fresh
  <1>4. CASE Risk!Crash
    <2>1. UNCHANGED <<clock, saved>> /\ read' = committed /\ committed' = committed /\ Risk!Start(saved)
      BY <1>4 DEF Risk!Crash
    <2> QED
      BY <2>1, StartFacts DEF KeptInv, Risk!SavedIsKept, Risk!Fresh
  <1>5. CASE Risk!Tick
    <2>1. UNCHANGED <<state, saved, forgotten, read, committed>> /\ clock' = clock + 1
      BY <1>5 DEF Risk!Tick
    <2>2. ASSUME NEW e \in Risk!Entities, NEW x \in saved[e], clock' - x.ts <= Window
          PROVE  x \in state[e] \cup forgotten[e]
      <3>1. x.ts \in Nat
        BY <2>2 DEF KeptInv, Item
      <3>2. clock \in Nat /\ Window \in Nat
        BY DEF KeptInv, Risk!CorrelationAssumption
      <3>3. clock - x.ts <= Window
        BY <2>1, <2>2, <3>1, <3>2
      <3> QED
        BY <2>2, <3>3 DEF KeptInv, Risk!SavedIsKept, Risk!Fresh
    <2> QED
      BY <2>1, <2>2 DEF KeptInv, Risk!SavedIsKept, Risk!Fresh
  <1>6. CASE Risk!AutoCommit \/ Risk!AssetsKnown \/ UNCHANGED Risk!vars
    <2>1. UNCHANGED <<clock, state, saved, forgotten, read>> /\ committed' \in {committed, read}
      BY <1>6 DEF Risk!AutoCommit, Risk!AssetsKnown, Risk!vars
    <2> QED
      BY <2>1 DEF KeptInv, Risk!SavedIsKept, Risk!Fresh
  <1> QED
    BY <1>1, <1>2, <1>3, <1>4, <1>5, <1>6, ConsumeKept DEF Risk!Next

\* What _persist saved of an entity is in the window state of the process, or of the one
\* that follows it after a death or a stop, until it is older than the window, but for the
\* rows that _reload itself could not read (SavedIsKept).
THEOREM SavedStaysKnown ==
    ASSUME Risk!CorrelationAssumption
    PROVE  Risk!Spec => []Risk!SavedIsKept
  <1>1. Risk!Init => KeptInv
    BY DEF Risk!Init, Risk!NoState, KeptInv, Risk!SavedIsKept, Risk!Fresh
  <1>2. KeptInv /\ [Risk!Next]_(Risk!vars) => KeptInv'
    BY KeptNext
  <1>3. KeptInv => Risk!SavedIsKept
    BY DEF KeptInv
  <1> QED
    BY <1>1, <1>2, <1>3, PTL DEF Risk!Spec

\* The instance counts as FiniteSets does.
LEMMA Cardinalities == ASSUME NEW S PROVE Risk!Cardinality(S) = Cardinality(S)
  BY DEF Risk!Cardinality, Cardinality

\* The subsets of an interval are counted by a power of two, and there is one.
LEMMA Powers ==
    ASSUME NEW n \in Nat
    PROVE  2^n \in Nat /\ 2^n > 0
  <1>1. IsFiniteSet(1..n) /\ Cardinality(1..n) = n
    BY FS_Interval
  <1>2. IsFiniteSet(SUBSET (1..n)) /\ Cardinality(SUBSET (1..n)) = 2^n
    BY <1>1, FS_SUBSET
  <1>3. SUBSET (1..n) # {}
    OBVIOUS
  <1>4. PICK k : k = Cardinality(SUBSET (1..n))
    OBVIOUS
  <1>5. k \in Nat /\ k # 0
    BY <1>2, <1>3, <1>4, FS_CardinalityType, FS_EmptySet
  <1> QED
    BY <1>2, <1>4, <1>5

\* The fold of a sum over one detector, or one family, is what it adds.
DetectorSum(S, items, now) == Risk!MapThenSumSet(LAMBDA d : Risk!Decayed(Risk!Strongest(items, d), now), S)
FamilySum(S, items, now) == Risk!MapThenSumSet(LAMBDA fam : Risk!FamilyRisk(items, fam, now), S)

LEMMA OneDetector ==
    ASSUME NEW d, NEW items, NEW now, NEW v \in Int, v = Risk!Decayed(Risk!Strongest(items, d), now)
    PROVE  DetectorSum({d}, items, now) = v
  <1> DEFINE D(x) == Risk!Decayed(Risk!Strongest(items, x), now)
  <1>0. D(d) = v
    OBVIOUS
  <1> DEFINE G == [s \in SUBSET {d} |-> IF s = {} THEN 0 ELSE v]
             F(g) == [s \in SUBSET {d} |-> IF s = {} THEN 0
                              ELSE D(CHOOSE x \in s : TRUE) + g[s \ {CHOOSE x \in s : TRUE}]]
  <1> HIDE DEF D
  <1>1. G = F(G)
    <2>1. SUBSET {d} = {{}, {d}}
      OBVIOUS
    <2>2. (CHOOSE x \in {d} : TRUE) = d
      OBVIOUS
    <2>3. {d} \ {d} = {} /\ {d} # {}
      OBVIOUS
    <2>4. D(d) + G[{}] = v
      BY <1>0, <2>1
    <2> QED
      BY <2>1, <2>2, <2>3, <2>4
  <1> HIDE DEF F, G
  <1>2. PICK h : h = CHOOSE g : g = F(g)
    OBVIOUS
  <1>3. h = F(h)
    BY <1>1, <1>2, Zenon
  <1>4. h[{d}] = v
    <2>1. {d} \in SUBSET {d} /\ {} \in SUBSET {d} /\ {d} # {} /\ {d} \ {d} = {}
      OBVIOUS
    <2>2. (CHOOSE x \in {d} : TRUE) = d
      OBVIOUS
    <2>3. h[{}] = 0
      BY <1>3, <2>1 DEF F
    <2>4. h[{d}] = D(d) + h[{}]
      BY <1>3, <2>1, <2>2 DEF F
    <2> QED
      BY <1>0, <2>3, <2>4
  <1>5. DetectorSum({d}, items, now) = (CHOOSE g : g = F(g))[{d}]
    BY DEF DetectorSum, Risk!MapThenSumSet, Risk!MapThenFoldSet, D, F
  <1> QED
    BY <1>2, <1>4, <1>5

LEMMA OneFamily ==
    ASSUME NEW d, NEW items, NEW now, NEW v \in Int, v = Risk!FamilyRisk(items, d, now)
    PROVE  FamilySum({d}, items, now) = v
  <1> DEFINE D(x) == Risk!FamilyRisk(items, x, now)
  <1>0. D(d) = v
    OBVIOUS
  <1> DEFINE G == [s \in SUBSET {d} |-> IF s = {} THEN 0 ELSE v]
             F(g) == [s \in SUBSET {d} |-> IF s = {} THEN 0
                              ELSE D(CHOOSE x \in s : TRUE) + g[s \ {CHOOSE x \in s : TRUE}]]
  <1> HIDE DEF D
  <1>1. G = F(G)
    <2>1. SUBSET {d} = {{}, {d}}
      OBVIOUS
    <2>2. (CHOOSE x \in {d} : TRUE) = d
      OBVIOUS
    <2>3. {d} \ {d} = {} /\ {d} # {}
      OBVIOUS
    <2>4. D(d) + G[{}] = v
      BY <1>0, <2>1
    <2> QED
      BY <2>1, <2>2, <2>3, <2>4
  <1> HIDE DEF F, G
  <1>2. PICK h : h = CHOOSE g : g = F(g)
    OBVIOUS
  <1>3. h = F(h)
    BY <1>1, <1>2, Zenon
  <1>4. h[{d}] = v
    <2>1. {d} \in SUBSET {d} /\ {} \in SUBSET {d} /\ {d} # {} /\ {d} \ {d} = {}
      OBVIOUS
    <2>2. (CHOOSE x \in {d} : TRUE) = d
      OBVIOUS
    <2>3. h[{}] = 0
      BY <1>3, <2>1 DEF F
    <2>4. h[{d}] = D(d) + h[{}]
      BY <1>3, <2>1, <2>2 DEF F
    <2> QED
      BY <1>0, <2>3, <2>4
  <1>5. FamilySum({d}, items, now) = (CHOOSE g : g = F(g))[{d}]
    BY DEF FamilySum, Risk!MapThenSumSet, Risk!MapThenFoldSet, D, F
  <1> QED
    BY <1>2, <1>4, <1>5

\* Items an evaluation may see.
Recent == {x \in Item : x.ts <= clock /\ clock - x.ts <= Window}

LEMMA Latest ==
    ASSUME NEW T \in SUBSET Nat, T # {}, NEW n \in Nat, \A t \in T : t <= n
    PROVE  \E m \in T : \A t \in T : t <= m
  <1>1. PICK U : U = {n - t : t \in T}
    OBVIOUS
  <1>2. U \subseteq Nat /\ U # {}
    <2>1. \A t \in T : n - t \in Nat
      OBVIOUS
    <2>2. PICK t0 \in T : TRUE
      OBVIOUS
    <2>3. n - t0 \in U
      BY <1>1, <2>2
    <2> QED
      BY <1>1, <2>1, <2>3
  <1>3. PICK R : R = {ss \in Nat \X Nat : ss[1] < ss[2]}
    OBVIOUS
  <1>4. \E u \in U : \A w \in U : ~(w < u)
    <2>1. IsWellFoundedOn(R, Nat)
      BY <1>3, NatLessThanWellFounded, Zenon DEF OpToRel
    <2>2. PICK u \in U : \A w \in U : ~(<<w, u>> \in R)
      BY <1>2, <2>1, WFMin, Zenon
    <2>3. \A w \in U : w < u => <<w, u>> \in R
      BY <1>2, <1>3
    <2> QED
      BY <2>2, <2>3
  <1>7. PICK u \in U : \A w \in U : ~(w < u)
    BY <1>4
  <1>5. PICK m \in T : u = n - m
    BY <1>1
  <1>6. \A t \in T : t <= m
    BY <1>1, <1>5, <1>7
  <1> QED
    BY <1>6

LEMMA Fractions ==
    ASSUME NEW a \in Nat, NEW q \in Nat, q > 0
    PROVE  (a \div q) \in Int /\ (a \div q) <= a
  OBVIOUS

LEMMA Scaled ==
    ASSUME NEW a \in Nat, NEW b \in Nat, a < b, NEW p \in Nat, p > 0
    PROVE  a * 100 * p \in Nat /\ b * 100 * p \in Nat /\ a * 100 * p < b * 100 * p
  <1>1. PICK d \in Nat : b = a + 1 + d
    <2>1. b - a - 1 \in Nat /\ b = a + 1 + (b - a - 1)
      OBVIOUS
    <2> QED
      BY <2>1
  <1>2. a * p \in Nat /\ d * p \in Nat
    OBVIOUS
  <1>3. b * p = a * p + p + d * p
    BY <1>1
  <1>4. a * 100 * p = 100 * (a * p) /\ b * 100 * p = 100 * (b * p)
    OBVIOUS
  <1> QED
    BY <1>2, <1>3, <1>4

LEMMA LowerOf ==
    ASSUME NEW a \in Int, NEW b \in Int
    PROVE  Risk!Min({a, b}) \in Int /\ Risk!Min({a, b}) <= a
  <1>1. \E x \in {a, b} : \A y \in {a, b} : x =< y
    OBVIOUS
  <1>2. Risk!Min({a, b}) \in {a, b} /\ \A y \in {a, b} : Risk!Min({a, b}) =< y
    BY <1>1 DEF Risk!Min
  <1> QED
    BY <1>2

\* One finding, however often it was received, stays below the threshold.
LEMMA OneFindingIsNoRisk ==
    ASSUME Risk!CorrelationAssumption, Risk!ThresholdAssumption, clock \in Nat,
           NEW active \in SUBSET Recent, active # {},
           NEW f, \A x \in active : x.finding = f
    PROVE  ~(Risk!entity_risk(active, clock) >= RiskThreshold * 100 * 2^Window)
  <1>1. f.sev \in Nat /\ f.sev < RiskThreshold /\ RiskThreshold \in Nat /\ Window \in Nat
    BY DEF Recent, Item, Risk!CorrelationAssumption, Risk!ThresholdAssumption
  <1>2. PICK p : p = 2^Window /\ p \in Nat /\ p > 0
    BY <1>1, Powers
  <1>3. Risk!Detectors(active) = {f.det} /\ Risk!Of(active, f.det) = active
    BY DEF Risk!Detectors, Risk!Of
  <1>4. PICK s : s = Risk!Strongest(active, f.det)
    OBVIOUS
  <1>5. s \in active
    <2>1. PICK x \in active : \A y \in active : x.ts >= y.ts
      <3>1. PICK T : T = {y.ts : y \in active}
        OBVIOUS
      <3>2. T \in SUBSET Nat /\ T # {} /\ \A t \in T : t <= clock
        BY <3>1 DEF Recent, Item
      <3>3. PICK m \in T : \A t \in T : t <= m
        BY <3>2, Latest
      <3> QED
        BY <3>1, <3>2, <3>3
    <2>2. \A y \in active : x.finding.sev > y.finding.sev \/ (x.finding.sev = y.finding.sev /\ x.ts >= y.ts)
      BY <2>1
    <2>3. \E z \in Risk!Of(active, f.det) : \A y \in Risk!Of(active, f.det) :
              z.finding.sev > y.finding.sev \/ (z.finding.sev = y.finding.sev /\ z.ts >= y.ts)
      BY <1>3, <2>2
    <2>4. s \in Risk!Of(active, f.det)
      BY <1>4, <2>3, Zenon DEF Risk!Strongest
    <2> QED
      BY <1>3, <2>4
  <1>6. s.finding = f /\ clock - s.ts \in Nat
    BY <1>5 DEF Recent, Item
  <1>7. PICK q : q = 2^(clock - s.ts) /\ q \in Nat /\ q > 0
    BY <1>6, Powers
  <1>8. PICK v : v = Risk!Decayed(Risk!Strongest(active, f.det), clock)
    OBVIOUS
  <1>9. f.sev * 100 * p \in Nat /\ RiskThreshold * 100 * p \in Nat /\ f.sev * 100 * p < RiskThreshold * 100 * p
    BY <1>1, <1>2, Scaled
  <1>10. v = (f.sev * 100 * p) \div q
    BY <1>2, <1>4, <1>6, <1>7, <1>8 DEF Risk!Decayed
  <1>11. PICK a : a = f.sev * 100 * p
    OBVIOUS
  <1>12. v \in Int /\ v <= a
    BY <1>7, <1>9, <1>10, <1>11, Fractions
  <1>13. DetectorSum({f.det}, active, clock) = v
    BY <1>8, <1>12, OneDetector
  <1>14. PICK cap : cap = Risk!FAMILY_CAP(Risk!FAMILY(f.det)) * 2^Window
    OBVIOUS
  <1>15. cap \in Int
    <2>1. Risk!FAMILY_CAP(Risk!FAMILY(f.det)) \in Nat
      BY DEF Risk!FAMILY_CAP
    <2> QED
      BY <1>2, <1>14, <2>1
  <1>16. {d \in Risk!Detectors(active) : Risk!FAMILY(d) = Risk!FAMILY(f.det)} = {f.det}
    BY <1>3
  <1>17. PICK w : w = Risk!FamilyRisk(active, Risk!FAMILY(f.det), clock)
    OBVIOUS
  <1>18. w = Risk!Min({v, cap})
    BY <1>13, <1>14, <1>16, <1>17 DEF Risk!FamilyRisk, DetectorSum
  <1>19. w \in Int /\ w <= v
    BY <1>12, <1>15, <1>18, LowerOf
  <1>20. Risk!Families(active) = {Risk!FAMILY(f.det)}
    BY <1>3 DEF Risk!Families
  <1>21. FamilySum({Risk!FAMILY(f.det)}, active, clock) = w
    BY <1>17, <1>19, OneFamily
  <1>22. Risk!entity_risk(active, clock) = w
    BY <1>20, <1>21 DEF Risk!entity_risk, FamilySum
  <1> QED
    BY <1>2, <1>9, <1>11, <1>12, <1>19, <1>22

LEMMA Twice ==
    ASSUME NEW S, IsFiniteSet(S), NEW a \in S, NEW b \in S, a # b
    PROVE  Risk!Cardinality(S) >= 2
  <1>1. IsFiniteSet({a}) /\ Cardinality({a}) = 1
    BY FS_Singleton
  <1>2. IsFiniteSet({a} \cup {b}) /\ Cardinality({a} \cup {b}) = 2
    <2>1. PICK T : T = {a}
      OBVIOUS
    <2>2. b \notin T /\ IsFiniteSet(T) /\ Cardinality(T) = 1
      BY <1>1, <2>1
    <2>3. IsFiniteSet(T \cup {b}) /\ Cardinality(T \cup {b}) = 2
      BY <2>2, FS_AddElement
    <2> QED
      BY <2>1, <2>3
  <1>3. Cardinality({a} \cup {b}) <= Cardinality(S)
    BY FS_Subset
  <1>4. Cardinality(S) \in Nat
    BY FS_CardinalityType
  <1>5. Risk!Cardinality(S) = Cardinality(S)
    BY Cardinalities
  <1> QED
    BY <1>2, <1>3, <1>4, <1>5

\* Findings that are all the same raise nothing.
LEMMA OneFindingIsNoIncident ==
    ASSUME Risk!CorrelationAssumption, Risk!ThresholdAssumption, clock \in Nat,
           NEW items \in SUBSET Recent,
           \A x, y \in Risk!Active(items) : x.finding = y.finding
    PROVE  Risk!should_incident(items, clock) = ""
  <1>1. PICK active : active = Risk!Active(items)
    OBVIOUS
  <1>2. active \in SUBSET Recent
    BY <1>1 DEF Risk!Active
  <1>3. PICK staged : staged = Risk!StagedItems(active)
    OBVIOUS
  <1>4. staged \subseteq active /\ \A x \in staged : x.finding.cat \in Risk!Staged
    BY <1>3 DEF Risk!StagedItems
  <1>5. \A x, y \in staged : Risk!STAGE(x.finding.cat) = Risk!STAGE(y.finding.cat) /\ Risk!STAGE(x.finding.cat) \in Nat
    <2>1. \A k \in Risk!Staged : Risk!STAGE(k) \in Nat
      BY DEF Risk!Staged, Risk!STAGE
    <2>2. \A x, y \in staged : x.finding = y.finding
      BY <1>1, <1>4
    <2> QED
      BY <1>4, <2>1, <2>2
  <1>6. ~Risk!is_ordered_chain(active)
    BY <1>3, <1>5 DEF Risk!is_ordered_chain
  <1>7. ~(Risk!Cardinality(Risk!Stages(active)) >= MinTactics)
    <2>1. PICK S : S = Risk!Stages(active)
      OBVIOUS
    <2>2. S = {Risk!STAGE(x.finding.cat) : x \in staged}
      BY <1>3, <2>1 DEF Risk!Stages
    <2>3. S = {} \/ \E k : S = {k}
      BY <1>5, <2>2
    <2>4. Cardinality(S) \in {0, 1}
      BY <2>3, FS_EmptySet, FS_Singleton
    <2>5. Risk!Cardinality(S) \in {0, 1}
      BY <2>4, Cardinalities
    <2>6. MinTactics \in Nat /\ MinTactics >= 2
      BY DEF Risk!CorrelationAssumption, Risk!ThresholdAssumption
    <2> QED
      BY <2>1, <2>5, <2>6
  <1>8. ~(active # {} /\ Risk!entity_risk(active, clock) >= RiskThreshold * 100 * 2^Window)
    <2>1. SUFFICES ASSUME active # {}
                   PROVE  ~(Risk!entity_risk(active, clock) >= RiskThreshold * 100 * 2^Window)
      OBVIOUS
    <2>2. PICK x0 \in active : TRUE
      BY <2>1
    <2>3. \A x \in active : x.finding = x0.finding
      BY <1>1, <2>2
    <2> QED
      BY <1>2, <2>1, <2>3, OneFindingIsNoRisk
  <1> QED
    BY <1>1, <1>6, <1>7, <1>8, Zenon DEF Risk!should_incident

\* What RestsOnRecentFindings says of one candidate.
Rests(c) ==
    /\ \A x \in c.items : ~Risk!is_correlation(x.finding) /\ ~Risk!is_structured_ndpi(x.finding) /\ c.at - x.ts <= Window
    /\ Risk!Cardinality(Risk!Distinct(c)) >= 2

LEMMA RaisedRests ==
    ASSUME Risk!CorrelationAssumption, Risk!ThresholdAssumption, clock \in Nat,
           NEW e, NEW items \in SUBSET Recent, NEW c \in Risk!Raised(e, items)
    PROVE  Rests(c)
  <1>1. PICK active : active = Risk!Active(items)
    OBVIOUS
  <1>2. active \in SUBSET Recent
    BY <1>1 DEF Risk!Active
  <1>3. c.at = clock /\ c.items \subseteq active /\ \E x, y \in c.items : x.finding # y.finding
    <2>1. CASE \E cat \in Risk!find_corroborations(items) :
                  c = [entity |-> e, bucket |-> Risk!Bucket(clock), reason |-> "corrob:", cat |-> cat, at |-> clock,
                       items |-> {x \in Risk!Active(items) : x.finding.cat = cat}]
      <3>1. PICK cat \in Risk!find_corroborations(items) :
                  c = [entity |-> e, bucket |-> Risk!Bucket(clock), reason |-> "corrob:", cat |-> cat, at |-> clock,
                       items |-> {x \in Risk!Active(items) : x.finding.cat = cat}]
        BY <2>1
      <3>2. c.at = clock /\ c.items = {x \in active : x.finding.cat = cat}
        BY <1>1, <3>1
      <3>3. PICK dets : dets = {x.finding.det : x \in {y \in active : y.finding.cat = cat}}
        OBVIOUS
      <3>4. dets \cap MlSources # {} /\ dets \ MlSources # {}
        BY <1>1, <3>1, <3>3 DEF Risk!find_corroborations
      <3>5. PICK m \in dets, h \in dets : m # h
        BY <3>4
      <3>6. PICK x \in c.items, y \in c.items : x.finding.det = m /\ y.finding.det = h
        BY <3>2, <3>3, <3>5
      <3> QED
        BY <3>2, <3>5, <3>6
    <2>2. CASE /\ ~(Risk!should_incident(items, clock) = "")
               /\ c = [entity |-> e, bucket |-> Risk!Bucket(clock), reason |-> Risk!should_incident(items, clock), cat |-> "",
                        at |-> clock, items |-> Risk!Active(items)]
      <3>1. ~(\A x, y \in Risk!Active(items) : x.finding = y.finding)
        BY <2>2, OneFindingIsNoIncident, Zenon
      <3>2. c.at = clock /\ c.items = Risk!Active(items)
        BY <2>2, Zenon
      <3> QED
        BY <1>1, <3>1, <3>2
    <2>3. \/ c \in (IF Risk!should_incident(items, clock) = "" THEN {}
             ELSE {[entity |-> e, bucket |-> Risk!Bucket(clock), reason |-> Risk!should_incident(items, clock), cat |-> "",
                    at |-> clock, items |-> Risk!Active(items)]})
          \/ c \in {[entity |-> e, bucket |-> Risk!Bucket(clock), reason |-> "corrob:", cat |-> cat, at |-> clock,
                     items |-> {x \in Risk!Active(items) : x.finding.cat = cat}] : cat \in Risk!find_corroborations(items)}
      BY Zenon DEF Risk!Raised
    <2> QED
      BY <2>1, <2>2, <2>3, Zenon
  <1>4. \A x \in c.items : ~Risk!is_correlation(x.finding) /\ ~Risk!is_structured_ndpi(x.finding) /\ c.at - x.ts <= Window
    BY <1>2, <1>3 DEF Recent, Item
  <1>5. IsFiniteSet(Risk!Distinct(c))
    <2>1. PICK all : all = {Findings[i] : i \in DOMAIN Findings}
      OBVIOUS
    <2>2. IsFiniteSet(all)
      <3>1. Findings \in Seq(all)
        BY <2>1 DEF Risk!CorrelationAssumption
      <3>2. Len(Findings) \in Nat /\ DOMAIN Findings = 1..Len(Findings) /\ Findings \in [1..Len(Findings) -> all]
        BY <3>1
      <3>3. IsFiniteSet(1..Len(Findings))
        BY <3>2, FS_Interval
      <3>4. Findings \in Surjection(1..Len(Findings), all)
        BY <2>1, <3>2 DEF Surjection
      <3> QED
        BY <3>3, <3>4, FS_Surjection
    <2>3. Risk!Distinct(c) \subseteq all
      BY <1>2, <1>3, <2>1 DEF Risk!Distinct, Recent, Item
    <2> QED
      BY <2>2, <2>3, FS_Subset
  <1>6. PICK f \in Risk!Distinct(c), g \in Risk!Distinct(c) : f # g
    BY <1>3 DEF Risk!Distinct
  <1>7. Risk!Cardinality(Risk!Distinct(c)) >= 2
    BY <1>5, <1>6, Twice
  <1> QED
    BY <1>4, <1>7 DEF Rests

\* Besides what is saved: nothing was received later than now.
RestInv ==
    /\ KeptInv
    /\ \A e \in Risk!Entities : \A x \in state[e] \cup saved[e] : x.ts <= clock
    /\ \A c \in candidates : Rests(c)

LEMMA EvaluateRests ==
    ASSUME Risk!CorrelationAssumption, Risk!ThresholdAssumption, RestInv, Risk!Evaluate
    PROVE  \A c \in candidates' : Rests(c)
  <1>1. SUFFICES ASSUME NEW c \in candidates', c \notin candidates
                 PROVE  Rests(c)
    BY DEF RestInv
  <1>2. PICK e \in Risk!Entities : c \in Risk!Raised(e, Risk!Pruned[e])
    BY <1>1 DEF Risk!Evaluate
  <1>3. Risk!Pruned[e] \in SUBSET Recent
    <2>1. Risk!Pruned[e] = {x \in state[e] : clock - x.ts <= Window}
      BY <1>2 DEF Risk!Pruned, Risk!Fresh
    <2>2. state[e] \subseteq Item
      BY <1>2 DEF RestInv, KeptInv
    <2> QED
      BY <1>2, <2>1, <2>2 DEF Recent, RestInv
  <1>4. clock \in Nat
    BY DEF RestInv, KeptInv
  <1> QED
    BY <1>2, <1>3, <1>4, RaisedRests

LEMMA RestNext ==
    ASSUME Risk!CorrelationAssumption, Risk!ThresholdAssumption, RestInv, [Risk!Next]_(Risk!vars)
    PROVE  RestInv'
  <1>1. KeptInv' /\ KeptInv
    BY KeptNext DEF RestInv
  <1>2. \A c \in candidates' : Rests(c)
    <2>1. CASE candidates' \subseteq candidates
      BY <2>1 DEF RestInv
    <2>2. CASE Risk!Evaluate
      BY <2>2, EvaluateRests
    <2>3. Risk!Evaluate \/ candidates' \subseteq candidates
      BY DEF Risk!Next, Risk!vars, Risk!Consume, Risk!Persist, Risk!AutoCommit, Risk!Stop, Risk!Crash, Risk!Tick,
             Risk!AssetsKnown
    <2> QED
      BY <2>1, <2>2, <2>3
  <1>3. clock \in Nat /\ clock' \in Nat /\ clock <= clock'
    <2>1. clock' = clock \/ clock' = clock + 1
      BY DEF Risk!Next, Risk!vars, Risk!Consume, Risk!Evaluate, Risk!Persist, Risk!AutoCommit, Risk!Stop, Risk!Crash,
             Risk!Tick, Risk!AssetsKnown
    <2> QED
      BY <1>1, <2>1 DEF KeptInv
  <1>4. ASSUME NEW e \in Risk!Entities, NEW x \in state'[e] \cup saved'[e]
        PROVE  x \in state[e] \cup saved[e] \/ x.ts = clock
    <2>1. CASE Risk!Consume
      <3>1. PICK d : d = Risk!EntityOf(Findings[read + 1].ip)
        OBVIOUS
      <3>2. PICK y : y = [finding |-> Findings[read + 1], ts |-> clock]
        OBVIOUS
      <3>3. (state' = state \/ state' = [state EXCEPT ![d] = state[d] \cup {y}]) /\ saved' = saved
        BY <2>1, <3>1, <3>2 DEF Risk!Consume
      <3>4. y.ts = clock
        BY <3>2
      <3> QED
        BY <1>1, <1>4, <3>3, <3>4 DEF KeptInv
    <2>2. CASE Risk!Evaluate
      BY <1>4, <2>2 DEF Risk!Evaluate, Risk!Pruned, Risk!Fresh
    <2>3. CASE Risk!Persist
      BY <1>4, <2>3 DEF Risk!Persist, Risk!Saved
    <2>4. CASE Risk!Stop
      <3>1. Risk!Start(Risk!Saved) /\ saved' = Risk!Saved
        BY <2>4 DEF Risk!Stop
      <3>2. Risk!Saved \in [Risk!Entities -> SUBSET Item] /\ Risk!Saved[e] \in {saved[e], state[e]}
        BY <1>1, SavedFacts DEF Risk!Saved
      <3>3. state'[e] \subseteq Risk!Saved[e]
        BY <3>1, <3>2, StartFacts
      <3> QED
        BY <1>4, <3>1, <3>2, <3>3
    <2>5. CASE Risk!Crash
      <3>1. Risk!Start(saved) /\ saved' = saved
        BY <2>5 DEF Risk!Crash
      <3>2. state'[e] \subseteq saved[e]
        BY <1>1, <3>1, StartFacts DEF KeptInv
      <3> QED
        BY <1>4, <3>1, <3>2
    <2>6. CASE Risk!Tick \/ Risk!AutoCommit \/ Risk!AssetsKnown \/ UNCHANGED Risk!vars
      BY <1>4, <2>6 DEF Risk!Tick, Risk!AutoCommit, Risk!AssetsKnown, Risk!vars
    <2> QED
      BY <2>1, <2>2, <2>3, <2>4, <2>5, <2>6 DEF Risk!Next
  <1>5. \A e \in Risk!Entities : \A x \in state'[e] \cup saved'[e] : x.ts <= clock'
    <2>1. ASSUME NEW e \in Risk!Entities, NEW x \in state'[e] \cup saved'[e] PROVE x.ts <= clock'
      <3>1. x.ts \in Nat
        BY <1>1, <2>1 DEF KeptInv, Item
      <3>2. x.ts <= clock
        BY <1>3, <1>4, <2>1, <3>1 DEF RestInv
      <3> QED
        BY <1>3, <3>1, <3>2
    <2> QED
      BY <2>1
  <1>6. \A c \in candidates' : Rests(c)'
    BY <1>2 DEF Rests, Risk!Distinct, Risk!Cardinality, Risk!is_correlation, Risk!is_structured_ndpi
  <1> QED
    BY <1>1, <1>5, <1>6 DEF RestInv

\* Every incident and corroboration that evaluate sends rests on findings of other services
\* that are no older than the window, and on two different ones at least: a finding that
\* comes back, is received twice or is reloaded never raises one alone
\* (RestsOnRecentFindings).
THEOREM IncidentsRestOnEvidence ==
    ASSUME Risk!CorrelationAssumption, Risk!ThresholdAssumption
    PROVE  Risk!Spec => []Risk!RestsOnRecentFindings
  <1>1. Risk!Init => RestInv
    BY DEF Risk!Init, Risk!NoState, RestInv, KeptInv, Risk!SavedIsKept, Risk!Fresh
  <1>2. RestInv /\ [Risk!Next]_(Risk!vars) => RestInv'
    BY RestNext
  <1>3. RestInv => Risk!RestsOnRecentFindings
    BY DEF RestInv, Rests, Risk!RestsOnRecentFindings
  <1> QED
    BY <1>1, <1>2, <1>3, PTL DEF Risk!Spec

-----------------------------------------------------------------------------
(* anomaly-detector                                                        *)

LEMMA DivFacts ==
    ASSUME NEW a \in Int, NEW b \in Nat \ {0}
    PROVE  a \div b \in Int /\ (a \div b) * b <= a /\ a < (a \div b) * b + b
  BY Z3

LEMMA Multiples ==
    ASSUME NEW p \in Int, NEW q \in Int, NEW w \in Nat \ {0}, p * w < q * w
    PROVE  p * w + w <= q * w
  <1>1. p < q
    BY Z3
  <1>2. p + 1 <= q
    BY <1>1
  <1>3. (p + 1) * w <= q * w
    BY <1>2, Z3
  <1> QED
    BY <1>3, Z3

TallyFields == {"sensor", "bucket", "n"}

\* Windows are closed behind the wall clock, at a multiple of their width; a tally
\* belongs to the current health window or to one that is over.
CloseInv ==
    /\ wall \in Nat /\ read \in Nat /\ committed \in Nat
    /\ newest \in Int /\ newest <= wall
    /\ closed \in Int
    /\ closed # Peers!Never => closed + Lateness <= wall /\ \E q \in Int : closed = q * Width
    /\ \A l \in late : l.wall \in Nat
    /\ \A t \in tally : DOMAIN t = TallyFields /\ t.bucket \in Nat /\ t.bucket <= wall \div HealthWindow
    /\ \A t \in assessed : t.bucket \in Nat
    /\ Peers!NoEarlyClose

LEMMA Sizes ==
    ASSUME Peers!OutboundAssumption
    PROVE  Width \in Nat \ {0} /\ Lateness \in Nat /\ HealthWindow \in Nat \ {0}
  BY DEF Peers!OutboundAssumption

LEMMA BoundaryFacts ==
    ASSUME Peers!OutboundAssumption, CloseInv, NEW w \in Int, w <= wall
    PROVE  /\ Peers!Boundary(w) \in Int /\ Peers!Boundary(w) + Lateness <= wall
           /\ \E q \in Int : Peers!Boundary(w) = q * Width
  <1>1. PICK a : a = w - Lateness
    OBVIOUS
  <1>2. a \in Int /\ a + Lateness <= wall /\ wall \in Nat /\ Lateness \in Nat /\ Width \in Nat \ {0}
    BY <1>1, Sizes DEF CloseInv
  <1>3. PICK q : q = a \div Width
    OBVIOUS
  <1>4. q \in Int /\ q * Width <= a
    BY <1>2, <1>3, DivFacts
  <1>5. PICK m : m = q * Width
    OBVIOUS
  <1>6. m \in Int
    BY <1>2, <1>4, <1>5
  <1>7. Peers!Boundary(w) = m
    BY <1>1, <1>3, <1>5 DEF Peers!Boundary, Peers!WindowOf
  <1>8. m + Lateness <= wall
    BY <1>2, <1>4, <1>5, <1>6
  <1> QED
    BY <1>4, <1>5, <1>6, <1>7, <1>8

\* An observation is refused only when its window is over for Lateness.
LEMMA LateIsLate ==
    ASSUME Peers!OutboundAssumption, CloseInv, NEW o \in Peers!Observations, Peers!WindowOf(o.at) < closed
    PROVE  Peers!WindowOf(Peers!Obs(o.id).at) + Width + Lateness <= wall
  <1>1. Peers!Obs(o.id) = o /\ o.at \in Nat
    BY DEF Peers!OutboundAssumption, Peers!Obs
  <1>2. PICK p, s : p = o.at \div Width /\ s = p * Width
    OBVIOUS
  <1>3. Width \in Nat \ {0} /\ Lateness \in Nat /\ wall \in Nat /\ closed \in Int
    BY Sizes DEF CloseInv
  <1>4. p \in Int /\ s <= o.at /\ o.at < s + Width
    <2>1. PICK a : a = o.at
      OBVIOUS
    <2>2. p = a \div Width /\ s = p * Width /\ a \in Int
      BY <1>1, <1>2, <2>1
    <2>3. p \in Int /\ s <= a /\ a < s + Width
      BY <1>3, <2>2, DivFacts
    <2> QED
      BY <2>1, <2>3
  <1>5. Peers!WindowOf(o.at) = s
    BY <1>2 DEF Peers!WindowOf
  <1>6. p >= 0
    BY <1>1, <1>2, <1>3, <1>4, Z3
  <1>7. s \in Int /\ s >= 0
    BY <1>2, <1>3, <1>4, <1>6, Z3
  <1>8. closed # Peers!Never
    BY <1>3, <1>5, <1>7 DEF Peers!Never
  <1>9. PICK q \in Int : closed = q * Width
    BY <1>8 DEF CloseInv
  <1>10. s + Width <= closed
    BY <1>2, <1>3, <1>4, <1>5, <1>9, Multiples
  <1>11. closed + Lateness <= wall
    BY <1>8 DEF CloseInv
  <1> QED
    BY <1>1, <1>3, <1>5, <1>7, <1>10, <1>11

\* A health window that is not the current one is over.
LEMMA FlushedIsOver ==
    ASSUME Peers!OutboundAssumption, CloseInv, NEW t \in Peers!Flushed
    PROVE  (t.bucket + 1) * HealthWindow <= wall
  <1>1. PICK b, c : b = t.bucket /\ c = wall \div HealthWindow
    OBVIOUS
  <1>2. b \in Nat /\ b <= c /\ b # c /\ wall \in Nat /\ HealthWindow \in Nat \ {0}
    BY <1>1, Sizes DEF Peers!Flushed, CloseInv
  <1>3. c \in Int /\ c * HealthWindow <= wall
    BY <1>1, <1>2, DivFacts
  <1>4. b + 1 <= c
    BY <1>2, <1>3
  <1>5. (b + 1) * HealthWindow <= c * HealthWindow
    BY <1>2, <1>3, <1>4, Z3
  <1>6. (b + 1) * HealthWindow \in Int /\ c * HealthWindow \in Int
    BY <1>2, <1>3
  <1>7. (b + 1) * HealthWindow <= wall
    BY <1>2, <1>3, <1>5, <1>6
  <1> QED
    BY <1>1, <1>7

LEMMA AssessedOver ==
    ASSUME Peers!OutboundAssumption, CloseInv,
           assessed' \subseteq assessed \cup {[t EXCEPT !.n = Peers!to_sensor_health(t.n)] : t \in Peers!Flushed},
           wall' = wall
    PROVE  \A t \in assessed' : t.bucket \in Nat /\ (t.bucket + 1) * HealthWindow <= wall'
  <1> SUFFICES ASSUME NEW t \in assessed' PROVE t.bucket \in Nat /\ (t.bucket + 1) * HealthWindow <= wall
    OBVIOUS
  <1>1. CASE t \in assessed
    BY <1>1 DEF CloseInv, Peers!NoEarlyClose
  <1>2. CASE t \notin assessed
    <2>1. PICK f \in Peers!Flushed : t = [f EXCEPT !.n = Peers!to_sensor_health(f.n)]
      BY <1>2
    <2>2. DOMAIN f = TallyFields /\ f.bucket \in Nat
      BY <2>1 DEF Peers!Flushed, CloseInv
    <2>3. t.bucket = f.bucket
      BY <2>1, <2>2 DEF TallyFields
    <2> QED
      BY <2>1, <2>2, <2>3, FlushedIsOver
  <1> QED
    BY <1>1, <1>2

LEMMA TallyFacts ==
    ASSUME CloseInv, NEW e, NEW b \in Nat, NEW t \in Peers!tally_health(e, b)
    PROVE  t \in tally \/ (DOMAIN t = TallyFields /\ t.bucket = b)
  <1>1. PICK key : key = {x \in tally : x.sensor = e.sensor /\ x.bucket = b}
    OBVIOUS
  <1>2. PICK old : old = IF key = {} THEN [sensor |-> e.sensor, bucket |-> b, n |-> Peers!NoEvents]
                         ELSE CHOOSE x \in key : TRUE
    OBVIOUS
  <1>3. Peers!tally_health(e, b) = (tally \ key) \cup {[old EXCEPT !.n[e.kind] = @ + 1]}
    BY <1>1, <1>2 DEF Peers!tally_health
  <1>4. DOMAIN old = TallyFields /\ old.bucket = b
    <2>1. CASE key = {}
      BY <1>2, <2>1 DEF TallyFields
    <2>2. CASE key # {}
      <3>1. old \in key
        BY <1>2, <2>2
      <3> QED
        BY <1>1, <3>1 DEF CloseInv
    <2> QED
      BY <2>1, <2>2
  <1>5. CASE t \in tally
    BY <1>5
  <1>6. CASE t = [old EXCEPT !.n[e.kind] = @ + 1]
    BY <1>4, <1>6 DEF TallyFields
  <1> QED
    BY <1>3, <1>5, <1>6

LEMMA ConsumeClose ==
    ASSUME Peers!OutboundAssumption, CloseInv, Peers!Consume
    PROVE  CloseInv'
  <1>1. PICK r : r = Stream[read + 1]
    OBVIOUS
  <1>2. /\ UNCHANGED <<wall, committed, closed, assessed>> /\ read' = read + 1
        /\ read < Len(Stream) /\ wall \in Nat /\ read \in Nat
    BY DEF Peers!Consume, Peers!outbound, Peers!health, CloseInv
  <1>3. CASE r.topic = "observation" /\ Peers!add(r) /\ UNCHANGED tally
             /\ newest' = IF Peers!EventTime(r.at) > newest THEN Peers!EventTime(r.at) ELSE newest
    <2>1. r \in Peers!Observations
      <3>1. PICK S : Stream \in Seq(S)
        BY DEF Peers!OutboundAssumption
      <3>2. read + 1 \in DOMAIN Stream
        BY <1>2, <3>1
      <3> QED
        BY <1>1, <1>3, <3>2 DEF Peers!Observations
    <2>2. r.at \in Nat
      BY <2>1 DEF Peers!OutboundAssumption
    <2>3. newest' \in Int /\ newest' <= wall
      BY <1>2, <1>3, <2>2 DEF Peers!EventTime, CloseInv
    <2>4. ASSUME NEW l \in late'
          PROVE  l.wall \in Nat /\ Peers!WindowOf(Peers!Obs(l.id).at) + Width + Lateness <= l.wall
      <3>1. CASE l \in late
        BY <3>1 DEF CloseInv, Peers!NoEarlyClose
      <3>2. CASE l \notin late
        <4>1. Peers!WindowOf(r.at) < closed /\ l = [id |-> r.id, wall |-> wall]
          BY <1>3, <2>4, <3>2 DEF Peers!add
        <4>2. l.id = r.id /\ l.wall = wall
          BY <4>1
        <4>3. Peers!WindowOf(Peers!Obs(r.id).at) + Width + Lateness <= wall
          BY <2>1, <4>1, LateIsLate
        <4> QED
          BY <1>2, <4>2, <4>3
      <3> QED
        BY <3>1, <3>2
    <2> QED
      BY <1>2, <1>3, <2>3, <2>4 DEF CloseInv, Peers!NoEarlyClose
  <1>4. CASE UNCHANGED <<newest, late>> /\ tally' = Peers!tally_health(r, wall \div HealthWindow)
    <2>1. PICK b : b = wall \div HealthWindow
      OBVIOUS
    <2>2. b \in Nat
      <3>1. HealthWindow \in Nat \ {0}
        BY Sizes
      <3>2. b \in Int /\ wall < b * HealthWindow + HealthWindow
        BY <1>2, <2>1, <3>1, DivFacts
      <3>3. b >= 0
        BY <1>2, <3>1, <3>2, Z3
      <3> QED
        BY <3>2, <3>3
    <2>3. ASSUME NEW t \in tally' PROVE DOMAIN t = TallyFields /\ t.bucket \in Nat /\ t.bucket <= b
      <3>1. t \in tally \/ (DOMAIN t = TallyFields /\ t.bucket = b)
        BY <1>4, <2>1, <2>2, <2>3, TallyFacts
      <3> QED
        BY <2>1, <2>2, <3>1 DEF CloseInv
    <2> QED
      BY <1>2, <1>4, <2>1, <2>3 DEF CloseInv, Peers!NoEarlyClose
  <1> QED
    BY <1>1, <1>3, <1>4 DEF Peers!Consume, Peers!outbound, Peers!health

LEMMA PollClose ==
    ASSUME Peers!OutboundAssumption, CloseInv, Peers!Poll
    PROVE  CloseInv'
  <1>1. /\ UNCHANGED <<wall, read, committed, newest, late>>
        /\ tally' = tally \ Peers!Flushed
        /\ assessed' = assessed \cup {[t EXCEPT !.n = Peers!to_sensor_health(t.n)] : t \in Peers!Flushed}
    BY DEF Peers!Poll, Peers!Close, Peers!flush_health
  <1>2. PICK w, b : w = (IF busy THEN newest ELSE wall) /\ b = Peers!Boundary(w)
    OBVIOUS
  <1>3. closed' \in {closed, b}
    BY <1>2 DEF Peers!Poll, Peers!Close
  <1>4. w \in Int /\ w <= wall
    BY <1>2 DEF CloseInv
  <1>5. b \in Int /\ b + Lateness <= wall /\ \E q \in Int : b = q * Width
    BY <1>2, <1>4, BoundaryFacts
  <1>6. closed' \in Int /\ (closed' # Peers!Never => closed' + Lateness <= wall /\ \E q \in Int : closed' = q * Width)
    BY <1>3, <1>5 DEF CloseInv
  <1>7. \A t \in assessed' : t.bucket \in Nat /\ (t.bucket + 1) * HealthWindow <= wall'
    BY <1>1, AssessedOver
  <1> QED
    BY <1>1, <1>6, <1>7 DEF CloseInv, Peers!NoEarlyClose

LEMMA RestartClose ==
    ASSUME Peers!OutboundAssumption, CloseInv, Peers!Restart,
           assessed' \subseteq assessed \cup {[t EXCEPT !.n = Peers!to_sensor_health(t.n)] : t \in Peers!Flushed}
    PROVE  CloseInv'
  <1>1. /\ UNCHANGED <<wall, committed, late>> /\ read' = committed
        /\ closed' = Peers!Never /\ newest' = Peers!Never /\ tally' = {}
    BY DEF Peers!Restart
  <1>2. Peers!Never \in Int /\ Peers!Never <= wall
    BY DEF Peers!Never, CloseInv
  <1>3. \A t \in assessed' : t.bucket \in Nat /\ (t.bucket + 1) * HealthWindow <= wall'
    BY <1>1, AssessedOver
  <1> QED
    BY <1>1, <1>2, <1>3 DEF CloseInv, Peers!NoEarlyClose

LEMMA TickClose ==
    ASSUME Peers!OutboundAssumption, CloseInv, Peers!Tick
    PROVE  CloseInv'
  <1>1. UNCHANGED <<read, committed, newest, closed, tally, assessed>> /\ wall' = wall + 1 /\ late' = {}
    BY DEF Peers!Tick, Peers!health
  <1>2. wall \in Nat /\ HealthWindow \in Nat \ {0} /\ Lateness \in Nat
    BY Sizes DEF CloseInv
  <1>3. wall \div HealthWindow \in Int /\ wall' \div HealthWindow \in Int
    BY <1>1, <1>2, DivFacts
  <1>4. wall \div HealthWindow <= wall' \div HealthWindow
    <2>1. PICK b, c : b = wall \div HealthWindow /\ c = wall' \div HealthWindow
      OBVIOUS
    <2>2. b \in Int /\ c \in Int /\ b * HealthWindow <= wall /\ wall' < c * HealthWindow + HealthWindow
      BY <1>1, <1>2, <2>1, DivFacts
    <2>3. b < c + 1
      <3>1. PICK h : h = HealthWindow
        OBVIOUS
      <3>2. b * h < (c + 1) * h
        BY <1>1, <1>2, <2>2, <3>1, Z3
      <3> QED
        BY <1>2, <2>2, <3>1, <3>2, Z3
    <2> QED
      BY <2>1, <2>2, <2>3
  <1>5. \A t \in tally : t.bucket <= wall' \div HealthWindow
    BY <1>3, <1>4 DEF CloseInv
  <1>6. ASSUME NEW t \in assessed PROVE (t.bucket + 1) * HealthWindow <= wall + 1
    <2>1. PICK x : x = (t.bucket + 1) * HealthWindow
      OBVIOUS
    <2>2. x \in Int /\ x <= wall
      BY <1>2, <2>1 DEF CloseInv, Peers!NoEarlyClose
    <2> QED
      BY <1>2, <2>1, <2>2
  <1> QED
    BY <1>1, <1>2, <1>5, <1>6 DEF CloseInv, Peers!NoEarlyClose

LEMMA CloseNext ==
    ASSUME Peers!OutboundAssumption, CloseInv, [Peers!Next]_(Peers!vars)
    PROVE  CloseInv'
  <1>1. CASE Peers!Crash
    BY <1>1, RestartClose DEF Peers!Crash
  <1>2. CASE Peers!SendFails
    BY <1>2, RestartClose DEF Peers!SendFails
  <1>3. CASE Peers!AutoCommit \/ UNCHANGED Peers!vars
    <2>1. /\ UNCHANGED <<wall, read, newest, closed, late, tally, assessed>>
          /\ committed' \in {committed, read}
      BY <1>3 DEF Peers!AutoCommit, Peers!vars, Peers!outbound, Peers!health
    <2> QED
      BY <2>1 DEF CloseInv, Peers!NoEarlyClose
  <1> QED
    BY <1>1, <1>2, <1>3, ConsumeClose, PollClose, TickClose DEF Peers!Next

\* Whatever the clocks of the sensors say, however quiet a poll was and wherever the process
\* restarts: add refuses an observation as late only when its window has been over for the
\* allowed lateness, and flush_health judges a sensor only when the window is over (NoEarlyClose).
THEOREM NothingClosesEarly ==
    ASSUME Peers!OutboundAssumption
    PROVE  Peers!Spec => []Peers!NoEarlyClose
  <1>1. Peers!Init => CloseInv
    BY DEF Peers!Init, CloseInv, Peers!NoEarlyClose, Peers!Never
  <1>2. CloseInv /\ [Peers!Next]_(Peers!vars) => CloseInv'
    BY CloseNext
  <1>3. CloseInv => Peers!NoEarlyClose
    BY DEF CloseInv
  <1> QED
    BY <1>1, <1>2, <1>3, PTL DEF Peers!Spec

\* What _learn adds displaces only rows whose retention is over.
LEMMA LearnedBeside ==
    ASSUME NEW rows, NEW h \in history, h.until > wall
    PROVE  h \in Peers!With(rows)
  <1>1. ASSUME NEW n \in Peers!Learned(rows), n.entity = h.entity, n.start = h.start PROVE FALSE
    <2>1. PICK r \in rows : Peers!Learnable(r) /\ n.entity = r.entity /\ n.start = r.start
      BY <1>1 DEF Peers!Learned
    <2> QED
      BY <1>1, <2>1 DEF Peers!Learnable
  <1> QED
    BY <1>1 DEF Peers!With

\* "replay cannot replace a row or extend its lifetime": a row of the history stands until
\* its retention ends, also when a restarted process evaluates the rest of its window
\* again (HistoryStands).
THEOREM LearnedRowsStand == Peers!Spec => Peers!HistoryStands
  <1>1. ASSUME [Peers!Next]_(Peers!vars)
        PROVE  [\A h \in history : h.until > wall' => h \in history']_(Peers!vars)
    <2>1. CASE Peers!Poll \/ Peers!SendFails
      <3>1. wall' = wall /\ \E rows : history' = Peers!With(rows)
        BY <2>1 DEF Peers!Poll, Peers!Close, Peers!SendFails, Peers!Restart
      <3> QED
        BY <3>1, LearnedBeside
    <2>2. CASE ~(Peers!Poll \/ Peers!SendFails)
      BY <1>1, <2>2 DEF Peers!Next, Peers!Consume, Peers!AutoCommit, Peers!Crash, Peers!Tick, Peers!outbound, Peers!vars
    <2> QED
      BY <2>1, <2>2
  <1> QED
    BY <1>1, PTL DEF Peers!Spec, Peers!HistoryStands
=============================================================================
