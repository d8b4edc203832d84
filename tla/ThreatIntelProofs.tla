------------------------- MODULE ThreatIntelProofs -------------------------
(***************************************************************************)
(* Where the refresher's credentials may go, and what becomes of a hit:    *)
(* proofs for all feeds, payloads, indicators and bounds.                  *)
(***************************************************************************)
EXTENDS ThreatIntel, TLAPS, SequenceTheorems, WellFoundedInduction

-----------------------------------------------------------------------------
(* _fetch, _open_verified and _redirect_target.                            *)

FetchFields == {"at", "feed", "now", "https", "origin", "redirects", "got"}

\* A fetch that was redirected has neither credentials nor a pin.
FetchInv ==
    /\ job.at = "fetch" => /\ DOMAIN job = FetchFields
                           /\ job.https \in BOOLEAN /\ job.origin \in BOOLEAN
                           /\ Feeds[job.feed].auth => job.origin
    /\ CredentialsProtected

\* What a request that was not refused sends.
LEMMA SentProtected ==
    ASSUME FetchInv, job.at = "fetch", NEW cert \in BOOLEAN, ~Refused(cert), sent' = Sent(cert)
    PROVE  CredentialsProtected'
  <1>1. CASE Feeds[job.feed].auth
    <2> DEFINE s == [feed |-> job.feed, https |-> job.https, origin |-> job.origin,
                     pinned |-> Feeds[job.feed].pin => cert]
    <2>1. job.https /\ job.origin /\ (Feeds[job.feed].pin => cert)
      BY <1>1, Zenon DEF FetchInv, Refused
    <2>2. s.https /\ s.origin /\ s.pinned
      BY <2>1
    <2>3. sent' = sent \cup {s}
      BY <1>1 DEF Sent
    <2> HIDE DEF s
    <2> QED
      BY <2>2, <2>3 DEF FetchInv, CredentialsProtected
  <1>2. CASE ~Feeds[job.feed].auth
    BY <1>2 DEF FetchInv, CredentialsProtected, Sent
  <1> QED
    BY <1>1, <1>2

LEMMA FetchNext ==
    ASSUME FetchInv, [Next]_vars
    PROVE  FetchInv'
  <1>1. ASSUME NEW f \in DOMAIN Feeds, StartFeed(f) PROVE FetchInv'
    <2> DEFINE j == [at |-> "fetch", feed |-> f, now |-> clock, https |-> TRUE, origin |-> TRUE,
                     redirects |-> 0, got |-> <<>>]
    <2>1. job' = j /\ sent' = sent
      BY <1>1 DEF StartFeed
    <2>2. DOMAIN j = FetchFields /\ j.https = TRUE /\ j.origin = TRUE
      BY DEF FetchFields
    <2> HIDE DEF j
    <2> QED
      BY <2>1, <2>2 DEF FetchInv, CredentialsProtected
  <1>2. CASE FetchRefused
    BY <1>2 DEF FetchRefused, GiveUp, Abandoned, Idle, FetchInv, CredentialsProtected
  <1>3. ASSUME NEW cert \in BOOLEAN, FetchPage(cert) PROVE FetchInv'
    <2>1. job.at = "fetch" /\ ~Refused(cert) /\ sent' = Sent(cert)
      BY <1>3 DEF FetchPage
    <2>2. CredentialsProtected'
      BY <2>1, SentProtected
    <2>3. PICK got, b : \/ job' = [at |-> "upsert", feed |-> job.feed, got |-> got, now |-> job.now,
                                   batch |-> b]
                        \/ job' = [job EXCEPT !.got = got]
      BY <1>3 DEF FetchPage
    <2> QED
      BY <2>1, <2>2, <2>3 DEF FetchInv, FetchFields
  <1>4. ASSUME NEW cert \in BOOLEAN, FetchFailed(cert) PROVE FetchInv'
    <2>1. job.at = "fetch" /\ ~Refused(cert) /\ sent' = Sent(cert) /\ job' = Idle
      BY <1>4 DEF FetchFailed, Abandoned
    <2> QED
      BY <2>1, SentProtected DEF FetchInv, Idle
  <1>5. ASSUME NEW cert \in BOOLEAN, NEW https \in BOOLEAN, FetchRedirected(cert, https)
        PROVE  FetchInv'
    <2>1. job.at = "fetch" /\ ~Refused(cert) /\ sent' = Sent(cert)
      BY <1>5 DEF FetchRedirected
    <2>2. CredentialsProtected'
      BY <2>1, SentProtected
    <2>3. CASE MayRedirect(https)
      <3>1. ~Feeds[job.feed].auth
        BY <2>3 DEF MayRedirect
      <3>2. job' = [job EXCEPT !.https = https, !.origin = FALSE, !.redirects = @ + 1]
        BY <1>5, <2>3 DEF FetchRedirected
      <3>3. DOMAIN job = FetchFields
        BY <2>1 DEF FetchInv
      <3>4. DOMAIN job' = FetchFields /\ job'.https = https /\ job'.origin = FALSE /\ job'.feed = job.feed
        BY <3>2, <3>3 DEF FetchFields
      <3> QED
        BY <2>2, <3>1, <3>4 DEF FetchInv
    <2>4. CASE ~MayRedirect(https)
      BY <1>5, <2>2, <2>4 DEF FetchRedirected, Abandoned, Idle, FetchInv
    <2> QED
      BY <2>3, <2>4
  <1>6. CASE Upsert \/ Delete
    <2>1. job.at \in {"upsert", "delete"} /\ \E at \in {"delete", "commit"} : job' = [job EXCEPT !.at = at]
      BY <1>6 DEF Upsert, Delete
    <2>2. sent' = sent
      BY <1>6 DEF Upsert, Delete
    <2> QED
      BY <2>1, <2>2 DEF FetchInv, CredentialsProtected
  <1>7. CASE CommitBatch \/ Rollback
    BY <1>7 DEF CommitBatch, Rollback, GiveUp, Abandoned, Idle, FetchInv, CredentialsProtected
  <1>8. CASE UNCHANGED refresher
    BY <1>8 DEF refresher, FetchInv, CredentialsProtected
  <1>9. Refresh \/ UNCHANGED refresher
    BY DEF Next, Lookup, Deliver, suppress, Tick, vars
  <1> QED
    BY <1>1, <1>2, <1>3, <1>4, <1>5, <1>6, <1>7, <1>8, <1>9 DEF Refresh

LEMMA FetchInit == Init => FetchInv
  BY DEF Init, Idle, FetchInv, CredentialsProtected

\* Credentials only ever reach the host that is configured for the feed, over TLS and
\* behind the pin, if one is configured, whatever the servers answer.
THEOREM CredentialsStayHome == Spec => []CredentialsProtected
  <1>1. FetchInv => CredentialsProtected
    BY DEF FetchInv
  <1> QED
    BY <1>1, FetchInit, FetchNext, PTL DEF Spec

-----------------------------------------------------------------------------
(* match_and_file: the bounded memory of what was answered.                *)

\* What is remembered has been answered, so a repetition adds nothing new.
MemoryInv ==
    /\ seen \in Seq(answered)
    /\ HitsFollowPolicy

\* The memory after a hit holds nothing but the hit and what it held before.
LEMMA WithoutType ==
    ASSUME NEW S, seen \in Seq(S), NEW key
    PROVE  Without(key) \in Seq(S)
  <1> DEFINE at == {i \in DOMAIN seen : seen[i].key = key}
             j == CHOOSE i \in at : TRUE
  <1>1. CASE at = {}
    BY <1>1 DEF Without
  <1>2. CASE at # {}
    <2>1. j \in 1..Len(seen)
      BY <1>2
    <2>2. Without(key) = SubSeq(seen, 1, j - 1) \o SubSeq(seen, j + 1, Len(seen))
      BY <1>2 DEF Without, RemoveAt
    <2> HIDE DEF j
    <2>3. SubSeq(seen, 1, j - 1) \in Seq(S)
      BY <2>1, SubSeqProperties
    <2>4. SubSeq(seen, j + 1, Len(seen)) \in Seq(S)
      BY <2>1, SubSeqProperties
    <2> QED
      BY <2>2, <2>3, <2>4, ConcatProperties
  <1> QED
    BY <1>1, <1>2

LEMMA RememberType ==
    ASSUME IntelAssumption, NEW S, seen \in Seq(S), NEW h, [key |-> Key(h), policy |-> Policy(h)] \in S
    PROVE  Remember(h) \in Seq(S)
  <1> DEFINE kept == Append(Without(Key(h)), [key |-> Key(h), policy |-> Policy(h)])
  <1>1. kept \in Seq(S)
    BY WithoutType, AppendProperties
  <1>2. SeenMax \in Nat \ {0}
    BY DEF IntelAssumption
  <1>3. Remember(h) = IF Len(kept) > SeenMax THEN SubSeq(kept, Len(kept) - SeenMax + 1, Len(kept)) ELSE kept
    BY DEF Remember
  <1> HIDE DEF kept
  <1>4. ASSUME Len(kept) > SeenMax PROVE SubSeq(kept, Len(kept) - SeenMax + 1, Len(kept)) \in Seq(S)
    <2>1. Len(kept) - SeenMax + 1 \in 1..Len(kept)
      BY <1>1, <1>2, <1>4
    <2> QED
      BY <1>1, <2>1, SubSeqProperties
  <1> QED
    BY <1>1, <1>3, <1>4

LEMMA DeliverKeeps ==
    ASSUME IntelAssumption, MemoryInv, NEW h, Deliver(h)
    PROVE  MemoryInv'
  <1> DEFINE a == [key |-> Key(h), policy |-> Policy(h)]
  <1>1. answered' = answered \cup {a}
    BY DEF Deliver
  <1>2. a.key = Key(h) /\ a.policy = Policy(h)
    OBVIOUS
  <1>3. seen \in Seq(answered')
    BY <1>1 DEF MemoryInv
  <1>4. CASE Repeated(h)
    <2>1. UNCHANGED <<seen, reported, filed>>
      BY <1>4 DEF Deliver
    <2>2. a \in answered
      BY <1>4 DEF Repeated, MemoryInv
    <2> HIDE DEF a
    <2> QED
      BY <1>1, <1>3, <2>1, <2>2 DEF MemoryInv, HitsFollowPolicy
  <1>5. CASE ~Repeated(h)
    <2>1. seen' = Remember(h)
      BY <1>5 DEF Deliver
    <2>2. a \in answered'
      BY <1>1
    <2>3. seen' \in Seq(answered')
      BY <1>3, <2>1, <2>2, RememberType
    <2>4. reported \subseteq reported' /\ filed \subseteq filed'
      BY <1>5 DEF Deliver
    <2>5. IF Reportable(a.policy) THEN \E r \in reported' : r.key = a.key ELSE a.key \in filed'
      <3>1. CASE Reportable(Policy(h))
        <4>1. [key |-> Key(h), provs |-> h.provs] \in reported'
          BY <1>5, <3>1 DEF Deliver
        <4> QED
          BY <1>2, <3>1, <4>1
      <3>2. CASE ~Reportable(Policy(h))
        BY <1>2, <1>5, <3>2 DEF Deliver
      <3> QED
        BY <3>1, <3>2
    <2> HIDE DEF a
    <2>6. HitsFollowPolicy'
      BY <1>1, <2>4, <2>5 DEF MemoryInv, HitsFollowPolicy
    <2> QED
      BY <2>3, <2>6 DEF MemoryInv
  <1> QED
    BY <1>4, <1>5

\* A hit that may be reported when it is delivered has been reported, one that may not
\* is on file, whatever the bounded memory evicted, suppressions and markings became.
THEOREM HitsAlwaysFollowPolicy == Spec => []HitsFollowPolicy
  <1>1. Init => MemoryInv
    BY DEF Init, MemoryInv, HitsFollowPolicy
  <1>2. MemoryInv /\ [Next]_vars => MemoryInv'
    <2> SUFFICES ASSUME MemoryInv, [Next]_vars PROVE MemoryInv'
      OBVIOUS
    <2>1. CASE \E h \in looked : Deliver(h)
      BY <2>1, DeliverKeeps, IntelAssumption
    <2>2. CASE ~\E h \in looked : Deliver(h)
      <3>1. UNCHANGED <<seen, answered, reported, filed>>
        BY <2>2 DEF Next, Refresh, StartFeed, FetchRefused, FetchPage, FetchFailed, FetchRedirected,
                    Upsert, Delete, CommitBatch, Rollback, Lookup, suppress, Tick, consumer, vars
      <3> QED
        BY <3>1 DEF MemoryInv, HitsFollowPolicy
    <2> QED
      BY <2>1, <2>2
  <1>3. MemoryInv => HitsFollowPolicy
    BY DEF MemoryInv
  <1> QED
    BY <1>1, <1>2, <1>3, PTL DEF Spec

-----------------------------------------------------------------------------
(* ingest: what a batch makes of the rows.  Batch is a recursive function; *)
(* that it has a value, and what it is after each turn, are inductions on  *)
(* the turns, by the least turn where they would fail.                     *)

LEMMA LeastNumber ==
    ASSUME NEW T \in SUBSET Nat, T # {}
    PROVE  \E m \in T : \A k \in T : m <= k
  <1> DEFINE R == {ss \in Nat \X Nat : ss[1] < ss[2]}
  <1>1. IsWellFoundedOn(R, Nat)
    BY NatLessThanWellFounded, Zenon DEF OpToRel
  <1>2. \A x, y \in Nat : x < y => <<x, y>> \in R
    OBVIOUS
  <1> HIDE DEF R
  <1>3. PICK x \in T : \A y \in T : ~(<<y, x>> \in R)
    BY <1>1, WFMin, Zenon
  <1>4. \A y \in T : ~(y < x)
    BY <1>2, <1>3
  <1>5. \A y \in T : x <= y
    BY <1>4
  <1> QED
    BY <1>5

\* A non-empty set of positions has a last one.
LEMMA LastPosition ==
    ASSUME NEW n \in Nat, NEW T \in SUBSET (1 .. n), T # {}
    PROVE  \E m \in T : \A k \in T : k <= m
  <1> DEFINE U == {n - k : k \in T}
  <1>1. U \in SUBSET Nat /\ U # {}
    <2>1. \A k \in T : n - k \in Nat
      OBVIOUS
    <2> QED
      BY <2>1
  <1>2. PICK u \in U : \A v \in U : u <= v
    BY <1>1, LeastNumber
  <1>3. PICK m \in T : u = n - m
    BY <1>2
  <1>4. \A k \in T : n - m <= n - k
    BY <1>2, <1>3
  <1>5. \A k \in T : k <= m
    BY <1>4
  <1> QED
    BY <1>5

LEMMA MaxIs ==
    ASSUME NEW T \in SUBSET Nat, NEW m \in T, \A k \in T : k <= m
    PROVE  Max(T) = m
  <1>1. \A k \in T : m >= k
    OBVIOUS
  <1>2. Max(T) \in T /\ \A k \in T : Max(T) >= k
    BY <1>1 DEF Max
  <1>3. PICK x : x = Max(T)
    OBVIOUS
  <1>4. x \in T /\ x \in Nat /\ m \in Nat /\ x >= m /\ x <= m
    BY <1>2, <1>3
  <1>5. x = m
    BY <1>4
  <1> QED
    BY <1>3, <1>5

Untouched == [rows |-> [i \in {} |-> {}], deletes |-> {}]

\* h holds what ingest has in hand after each of the first m turns.
Steps(h, f, payload, now, m) ==
    h[0] = Untouched /\ \A n \in 1 .. m : h[n] = Turn(h[n - 1], f, payload, now, n)

Round(h, f, payload, now) ==
    [n \in 0 .. 2 * Len(payload) |-> IF n = 0 THEN Untouched ELSE Turn(h[n - 1], f, payload, now, n)]

LEMMA StepsExist ==
    ASSUME NEW f, NEW payload, NEW now, NEW N \in Nat
    PROVE  \E h : Steps(h, f, payload, now, N)
  <1> DEFINE T == {m \in Nat : ~\E h : Steps(h, f, payload, now, m)}
  <1>1. SUFFICES ASSUME T # {} PROVE FALSE
    OBVIOUS
  <1>2. T \in SUBSET Nat
    OBVIOUS
  <1>3. PICK m \in T : \A k \in T : m <= k
    BY <1>1, <1>2, LeastNumber
  <1>4. m \in Nat /\ ~\E h : Steps(h, f, payload, now, m)
    BY <1>3
  <1>5. m # 0
    <2>1. Steps([n \in {0} |-> Untouched], f, payload, now, 0)
      BY DEF Steps
    <2> QED
      BY <1>4, <2>1
  <1>6. m - 1 \in Nat /\ m - 1 \notin T
    BY <1>3, <1>4, <1>5
  <1>7. PICK h : Steps(h, f, payload, now, m - 1)
    BY <1>6
  <1> DEFINE g == [n \in 0 .. m |-> IF n = m THEN Turn(h[m - 1], f, payload, now, m) ELSE h[n]]
  <1>8. g[0] = h[0] /\ g[m] = Turn(h[m - 1], f, payload, now, m) /\ \A n \in 0 .. m - 1 : g[n] = h[n]
    BY <1>4, <1>5
  <1>9. ASSUME NEW n \in 1 .. m PROVE g[n] = Turn(g[n - 1], f, payload, now, n)
    <2>1. n - 1 \in 0 .. m - 1
      BY <1>4, <1>9
    <2>2. g[n - 1] = h[n - 1]
      BY <1>8, <2>1
    <2>3. CASE n = m
      BY <1>8, <2>2, <2>3
    <2>4. CASE n # m
      <3>1. n \in 1 .. m - 1 /\ n \in 0 .. m - 1
        BY <1>4, <1>9, <2>4
      <3>2. h[n] = Turn(h[n - 1], f, payload, now, n)
        BY <1>7, <3>1 DEF Steps
      <3> QED
        BY <1>8, <2>2, <3>1, <3>2
    <2> QED
      BY <2>3, <2>4
  <1> HIDE DEF g
  <1>10. Steps(g, f, payload, now, m)
    BY <1>7, <1>8, <1>9 DEF Steps
  <1> QED
    BY <1>4, <1>10

LEMMA BatchRuns ==
    ASSUME NEW f, NEW payload, NEW now, Len(payload) \in Nat
    PROVE  \E h : Steps(h, f, payload, now, 2 * Len(payload)) /\ Batch(f, payload, now) = h[2 * Len(payload)]
  <1> DEFINE N == 2 * Len(payload)
             g == CHOOSE x : x = Round(x, f, payload, now)
  <1>1. N \in Nat
    OBVIOUS
  <1>2. Batch(f, payload, now) = g[N]
    BY DEF Batch, Round, Untouched
  <1>3. PICK h : Steps(h, f, payload, now, N)
    BY <1>1, StepsExist
  <1>4. \E x : x = Round(x, f, payload, now)
    <2> DEFINE x == [n \in 0 .. N |-> h[n]]
    <2>1. ASSUME NEW n \in 0 .. N
          PROVE  x[n] = IF n = 0 THEN Untouched ELSE Turn(x[n - 1], f, payload, now, n)
      <3>1. CASE n = 0
        BY <1>3, <2>1, <3>1 DEF Steps
      <3>2. CASE n # 0
        <4>1. n \in 1 .. N /\ n - 1 \in 0 .. N
          BY <1>1, <2>1, <3>2
        <4> QED
          BY <1>3, <3>2, <4>1 DEF Steps
      <3> QED
        BY <3>1, <3>2
    <2>2. x = [n \in 0 .. N |-> x[n]]
      OBVIOUS
    <2> HIDE DEF x
    <2>3. x = Round(x, f, payload, now)
      BY <2>1, <2>2 DEF Round
    <2> QED
      BY <2>3
  <1>5. g = Round(g, f, payload, now)
    BY <1>4
  <1> HIDE DEF g
  <1>6. Steps(g, f, payload, now, N)
    <2>1. g[0] = Untouched
      BY <1>1, <1>5 DEF Round
    <2>2. \A n \in 1 .. N : n \in 0 .. N /\ n # 0
      BY <1>1
    <2>3. \A n \in 0 .. N : g[n] = IF n = 0 THEN Untouched ELSE Turn(g[n - 1], f, payload, now, n)
      BY <1>5 DEF Round
    <2> QED
      BY <2>1, <2>2, <2>3 DEF Steps
  <1> QED
    BY <1>2, <1>6

\* The positions of what has been merged and withdrawn of i after n turns.
Asserted(f, payload, now, i, n) == {j \in records(f, payload, now) : j <= n /\ payload[j].ind = i}
Dropped(f, payload, now, i, n) ==
    {j \in revocations(f, payload, now) : j + Len(payload) <= n /\ payload[j].ind = i}

Others(row, f) == {p \in row : p.feed # f}

\* What they make of a row: a withdrawal outlives every record, the last record counts.
Told(f, payload, now, i, n, row) ==
    IF Dropped(f, payload, now, i, n) # {} THEN Others(row, f)
    ELSE IF Asserted(f, payload, now, i, n) # {}
    THEN Others(row, f) \cup {normalize(f, payload[Max(Asserted(f, payload, now, i, n))], now)}
    ELSE row

\* What w would make of the row of i, were it written.
Result(w, i) == IF i \in w.deletes THEN {} ELSE Base(w, i)

InHand(w) == w = [rows |-> w.rows, deletes |-> w.deletes]

Progress(w, f, payload, now, n) ==
    /\ InHand(w)
    /\ n <= Len(payload) => w.deletes = {}
    /\ \A i \in Indicators : /\ Result(w, i) = Told(f, payload, now, i, n, rows[i])
                             /\ i \in w.deletes => i \notin DOMAIN w.rows /\ Others(rows[i], f) = {}

LEMMA PutFacts ==
    ASSUME NEW w, InHand(w), NEW ind, NEW provs
    PROVE  /\ InHand(Put(w, ind, provs))
           /\ Put(w, ind, provs).deletes = w.deletes
           /\ DOMAIN Put(w, ind, provs).rows = DOMAIN w.rows \cup {ind}
           /\ Base(Put(w, ind, provs), ind) = provs
           /\ \A i : i # ind => Base(Put(w, ind, provs), i) = Base(w, i)
  <1> DEFINE R == [i \in DOMAIN w.rows \cup {ind} |-> IF i = ind THEN provs ELSE w.rows[i]]
  <1>1. Put(w, ind, provs) = [rows |-> R, deletes |-> w.deletes]
    BY DEF Put, InHand
  <1>2. PICK v : v = Put(w, ind, provs)
    OBVIOUS
  <1>3. v.rows = R /\ v.deletes = w.deletes /\ InHand(v)
    BY <1>1, <1>2 DEF InHand
  <1>4. DOMAIN v.rows = DOMAIN w.rows \cup {ind} /\ v.rows[ind] = provs
    BY <1>3
  <1>5. \A i \in DOMAIN w.rows : i # ind => v.rows[i] = w.rows[i]
    BY <1>3
  <1> HIDE DEF R
  <1>6. Base(v, ind) = provs /\ \A i : i # ind => Base(v, i) = Base(w, i)
    BY <1>4, <1>5 DEF Base
  <1> QED
    BY <1>2, <1>3, <1>4, <1>6

\* A withdrawal leaves the other feeds' word.
LEMMA RevokeFacts ==
    ASSUME NEW w, InHand(w), NEW f, NEW ind
    PROVE  /\ InHand(Revoke(w, f, ind))
           /\ \A i : i # ind => /\ i \in Revoke(w, f, ind).deletes <=> i \in w.deletes
                                /\ i \in DOMAIN Revoke(w, f, ind).rows <=> i \in DOMAIN w.rows
                                /\ Base(Revoke(w, f, ind), i) = Base(w, i)
           /\ \/ Base(w, ind) = {} /\ Revoke(w, f, ind) = w
              \/ /\ Others(Base(w, ind), f) # {}
                 /\ Revoke(w, f, ind) = Put(w, ind, Others(Base(w, ind), f))
              \/ /\ Others(Base(w, ind), f) = {}
                 /\ ind \in Revoke(w, f, ind).deletes /\ ind \notin DOMAIN Revoke(w, f, ind).rows
  <1> DEFINE left == Others(Base(w, ind), f)
             R == [i \in DOMAIN w.rows \ {ind} |-> w.rows[i]]
  <1>1. PICK v : v = Revoke(w, f, ind)
    OBVIOUS
  <1>2. v = IF Base(w, ind) = {} THEN w ELSE IF left # {} THEN Put(w, ind, left)
            ELSE [rows |-> R, deletes |-> w.deletes \cup {ind}]
    BY <1>1 DEF Revoke, Others
  <1>3. CASE Base(w, ind) = {}
    BY <1>1, <1>2, <1>3
  <1>4. CASE Base(w, ind) # {} /\ left # {}
    <2>1. v = Put(w, ind, left)
      BY <1>2, <1>4
    <2>2. InHand(v) /\ v.deletes = w.deletes /\ DOMAIN v.rows = DOMAIN w.rows \cup {ind}
      BY <2>1, PutFacts
    <2>3. \A i : i # ind => Base(v, i) = Base(w, i)
      BY <2>1, PutFacts
    <2> QED
      BY <1>1, <1>4, <2>1, <2>2, <2>3
  <1>5. CASE Base(w, ind) # {} /\ left = {}
    <2>1. v = [rows |-> R, deletes |-> w.deletes \cup {ind}]
      BY <1>2, <1>5
    <2>2. v.rows = R /\ v.deletes = w.deletes \cup {ind} /\ InHand(v)
      BY <2>1 DEF InHand
    <2>3. DOMAIN v.rows = DOMAIN w.rows \ {ind} /\ \A i \in DOMAIN w.rows : i # ind => v.rows[i] = w.rows[i]
      BY <2>2
    <2> HIDE DEF R
    <2>4. \A i : i # ind => Base(v, i) = Base(w, i)
      BY <2>3 DEF Base
    <2> QED
      BY <1>1, <1>5, <2>2, <2>3, <2>4
  <1> QED
    BY <1>3, <1>4, <1>5

\* Told leaves the other feeds alone.
LEMMA ToldOthers ==
    ASSUME NEW f, NEW payload, NEW now, NEW i, NEW n, NEW row
    PROVE  Others(Told(f, payload, now, i, n, row), f) = Others(row, f)
  <1>1. \A x : Others(Others(row, f) \cup {normalize(f, x, now)}, f) = Others(row, f)
    <2>1. \A x : normalize(f, x, now).feed = f
      BY DEF normalize
    <2> QED
      BY <2>1 DEF Others
  <1>2. Others(Others(row, f), f) = Others(row, f)
    BY DEF Others
  <1> QED
    BY <1>1, <1>2 DEF Told

LEMMA MergeTurn ==
    ASSUME NEW S, NEW f, NEW payload \in Seq(S), NEW now, NEW n \in Nat \ {0}, NEW w,
           Progress(w, f, payload, now, n - 1), n \in records(f, payload, now)
    PROVE  Progress(Turn(w, f, payload, now, n), f, payload, now, n)
  <1>1. PICK ind : ind = payload[n].ind
    OBVIOUS
  <1>2. PICK p : p = normalize(f, payload[n], now)
    OBVIOUS
  <1>3. PICK v : v = Put(w, ind, merge(Base(w, ind), p))
    OBVIOUS
  <1>4. Turn(w, f, payload, now, n) = v
    BY <1>1, <1>2, <1>3 DEF Turn
  <1>5. n \in 1 .. Len(payload) /\ Len(payload) \in Nat /\ n - 1 <= Len(payload) /\ n <= Len(payload)
    BY DEF records
  <1>6. /\ InHand(w) /\ w.deletes = {}
        /\ \A i \in Indicators : Result(w, i) = Told(f, payload, now, i, n - 1, rows[i])
    BY <1>5 DEF Progress
  <1>7. /\ InHand(v) /\ v.deletes = {}
        /\ Base(v, ind) = merge(Base(w, ind), p)
        /\ \A i : i # ind => Base(v, i) = Base(w, i)
    BY <1>3, <1>6, PutFacts
  <1>8. ASSUME NEW i \in Indicators PROVE Result(v, i) = Told(f, payload, now, i, n, rows[i])
    <2>1. Dropped(f, payload, now, i, n) = {} /\ Dropped(f, payload, now, i, n - 1) = {}
      <3>1. \A j \in revocations(f, payload, now) : j \in 1 .. Len(payload)
        BY DEF revocations
      <3> QED
        BY <1>5, <3>1 DEF Dropped
    <2>2. Result(w, i) = Base(w, i) /\ Result(v, i) = Base(v, i)
      BY <1>6, <1>7 DEF Result
    <2>3. \A j \in records(f, payload, now) : j \in Nat
      BY DEF records
    <2>4. CASE i # ind
      <3>1. Asserted(f, payload, now, i, n) = Asserted(f, payload, now, i, n - 1)
        <4>1. \A j \in records(f, payload, now) : payload[j].ind = i => (j <= n <=> j <= n - 1)
          BY <1>1, <1>5, <2>3, <2>4
        <4> QED
          BY <4>1, Zenon DEF Asserted
      <3>2. Told(f, payload, now, i, n, rows[i]) = Told(f, payload, now, i, n - 1, rows[i])
        BY <2>1, <3>1 DEF Told
      <3> QED
        BY <1>6, <1>7, <2>2, <2>4, <3>2
    <2>5. CASE i = ind
      <3>1. n \in Asserted(f, payload, now, i, n) /\ Asserted(f, payload, now, i, n) \in SUBSET Nat
        <4>1. n <= n
          BY <1>5
        <4> QED
          BY <1>1, <2>3, <2>5, <4>1, Zenon DEF Asserted
      <3>2. \A j \in Asserted(f, payload, now, i, n) : j <= n
        BY DEF Asserted
      <3>3. Max(Asserted(f, payload, now, i, n)) = n
        BY <3>1, <3>2, MaxIs
      <3>4. Told(f, payload, now, i, n, rows[i]) = Others(rows[i], f) \cup {p}
        BY <1>2, <2>1, <3>1, <3>3 DEF Told
      <3>5. merge(Base(w, ind), p) = Others(Base(w, ind), f) \cup {p}
        BY <1>2 DEF merge, Others, normalize
      <3>6. Others(Base(w, ind), f) = Others(rows[i], f)
        BY <1>6, <2>2, <2>5, ToldOthers
      <3> QED
        BY <1>7, <2>2, <2>5, <3>4, <3>5, <3>6
    <2> QED
      BY <2>4, <2>5
  <1> QED
    BY <1>4, <1>7, <1>8 DEF Progress

LEMMA RevokeTurn ==
    ASSUME NEW S, NEW f, NEW payload \in Seq(S), NEW now, NEW n \in Nat \ {0}, NEW w,
           Progress(w, f, payload, now, n - 1), n \notin records(f, payload, now),
           n - Len(payload) \in revocations(f, payload, now)
    PROVE  Progress(Turn(w, f, payload, now, n), f, payload, now, n)
  <1>1. PICK ind : ind = payload[n - Len(payload)].ind
    OBVIOUS
  <1>2. PICK v : v = Revoke(w, f, ind)
    OBVIOUS
  <1>3. Turn(w, f, payload, now, n) = v
    BY <1>1, <1>2 DEF Turn
  <1>4. /\ n - Len(payload) \in 1 .. Len(payload) /\ Len(payload) \in Nat /\ ~(n <= Len(payload))
        /\ \A j \in records(f, payload, now) : j \in 1 .. Len(payload)
        /\ \A j \in revocations(f, payload, now) : j \in 1 .. Len(payload)
    BY DEF revocations, records
  <1>5. /\ InHand(w)
        /\ \A i \in Indicators : /\ Result(w, i) = Told(f, payload, now, i, n - 1, rows[i])
                                 /\ i \in w.deletes => i \notin DOMAIN w.rows /\ Others(rows[i], f) = {}
    BY DEF Progress
  <1>6. \A i : Asserted(f, payload, now, i, n) = Asserted(f, payload, now, i, n - 1)
    BY <1>4 DEF Asserted
  <1>7. PICK q : q = n - Len(payload)
    OBVIOUS
  <1>8. q \in revocations(f, payload, now) /\ q + Len(payload) = n /\ payload[q].ind = ind
    BY <1>1, <1>4, <1>7
  <1>9. \A i \in Indicators : i # ind => Dropped(f, payload, now, i, n) = Dropped(f, payload, now, i, n - 1)
    BY <1>4, <1>8 DEF Dropped
  <1>10. q \in Dropped(f, payload, now, ind, n)
    BY <1>8 DEF Dropped
  <1>11. \A i \in Indicators : i # ind =>
             Told(f, payload, now, i, n, rows[i]) = Told(f, payload, now, i, n - 1, rows[i])
    BY <1>6, <1>9 DEF Told
  <1>12. ind \in Indicators => Told(f, payload, now, ind, n, rows[ind]) = Others(rows[ind], f)
    BY <1>10 DEF Told
  <1>13. /\ InHand(v)
         /\ \A i : i # ind => /\ i \in v.deletes <=> i \in w.deletes
                              /\ i \in DOMAIN v.rows <=> i \in DOMAIN w.rows
                              /\ Base(v, i) = Base(w, i)
    BY <1>2, <1>5, RevokeFacts
  <1>14. ASSUME NEW i \in Indicators, i # ind
         PROVE  /\ Result(v, i) = Told(f, payload, now, i, n, rows[i])
                /\ i \in v.deletes => i \notin DOMAIN v.rows /\ Others(rows[i], f) = {}
    BY <1>5, <1>11, <1>13, <1>14 DEF Result
  <1>15. ASSUME ind \in Indicators
         PROVE  /\ Result(v, ind) = Others(rows[ind], f)
                /\ ind \in v.deletes => ind \notin DOMAIN v.rows /\ Others(rows[ind], f) = {}
    <2>1. ind \notin w.deletes => Others(Base(w, ind), f) = Others(rows[ind], f)
      BY <1>5, <1>15, ToldOthers DEF Result
    <2>2. ind \in w.deletes => ind \notin DOMAIN w.rows /\ Base(w, ind) = rows[ind] /\ Others(rows[ind], f) = {}
      BY <1>5, <1>15 DEF Base
    <2>3. Others(Base(w, ind), f) = Others(rows[ind], f)
      BY <2>1, <2>2
    <2>4. CASE Base(w, ind) = {} /\ v = w
      <3>1. Others(rows[ind], f) = {}
        BY <2>3, <2>4 DEF Others
      <3> QED
        BY <2>2, <2>4, <3>1 DEF Result
    <2>5. CASE Others(Base(w, ind), f) # {} /\ v = Put(w, ind, Others(Base(w, ind), f))
      <3>1. v.deletes = w.deletes /\ Base(v, ind) = Others(Base(w, ind), f)
        BY <1>5, <2>5, PutFacts
      <3>2. ind \notin v.deletes
        BY <2>2, <2>3, <2>5, <3>1
      <3> QED
        BY <2>3, <3>1, <3>2 DEF Result
    <2>6. CASE Others(Base(w, ind), f) = {} /\ ind \in v.deletes /\ ind \notin DOMAIN v.rows
      BY <2>3, <2>6 DEF Result
    <2> QED
      BY <1>2, <1>5, <2>4, <2>5, <2>6, RevokeFacts
  <1>16. \A i \in Indicators : /\ Result(v, i) = Told(f, payload, now, i, n, rows[i])
                               /\ i \in v.deletes => i \notin DOMAIN v.rows /\ Others(rows[i], f) = {}
    BY <1>12, <1>14, <1>15
  <1> QED
    BY <1>3, <1>4, <1>13, <1>16 DEF Progress

LEMMA QuietTurn ==
    ASSUME NEW S, NEW f, NEW payload \in Seq(S), NEW now, NEW n \in Nat \ {0}, NEW w,
           Progress(w, f, payload, now, n - 1), n \notin records(f, payload, now),
           n - Len(payload) \notin revocations(f, payload, now)
    PROVE  Progress(Turn(w, f, payload, now, n), f, payload, now, n)
  <1>1. Turn(w, f, payload, now, n) = w
    BY DEF Turn
  <1>2. /\ Len(payload) \in Nat
        /\ \A j \in records(f, payload, now) : j \in Nat /\ j # n
        /\ \A j \in revocations(f, payload, now) : j \in Nat /\ j # n - Len(payload)
    BY DEF revocations, records
  <1>3. /\ \A j \in records(f, payload, now) : j <= n <=> j <= n - 1
        /\ \A j \in revocations(f, payload, now) : j + Len(payload) <= n <=> j + Len(payload) <= n - 1
    BY <1>2
  <1>4. \A i : /\ Asserted(f, payload, now, i, n) = Asserted(f, payload, now, i, n - 1)
               /\ Dropped(f, payload, now, i, n) = Dropped(f, payload, now, i, n - 1)
    BY <1>3, Zenon DEF Asserted, Dropped
  <1>5. \A i \in Indicators : Told(f, payload, now, i, n, rows[i]) = Told(f, payload, now, i, n - 1, rows[i])
    BY <1>4 DEF Told
  <1>6. n <= Len(payload) => n - 1 <= Len(payload)
    BY <1>2
  <1> QED
    BY <1>1, <1>5, <1>6 DEF Progress

\* The result of ingest for every row.
LEMMA BatchResult ==
    ASSUME NEW S, NEW f, NEW payload \in Seq(S), NEW now
    PROVE  Progress(Batch(f, payload, now), f, payload, now, 2 * Len(payload))
  <1> DEFINE N == 2 * Len(payload)
  <1>1. Len(payload) \in Nat /\ N \in Nat
    OBVIOUS
  <1>2. PICK h : Steps(h, f, payload, now, N) /\ Batch(f, payload, now) = h[N]
    BY <1>1, BatchRuns
  <1> DEFINE T == {n \in 0 .. N : ~Progress(h[n], f, payload, now, n)}
  <1>3. ASSUME T # {} PROVE FALSE
    <2>1. T \in SUBSET Nat
      OBVIOUS
    <2>2. PICK m \in T : \A k \in T : m <= k
      BY <1>3, <2>1, LeastNumber
    <2>3. m \in 0 .. N /\ ~Progress(h[m], f, payload, now, m)
      BY <2>2
    <2>4. m # 0
      <3>1. h[0] = Untouched
        BY <1>2 DEF Steps
      <3>2. InHand(Untouched) /\ Untouched.deletes = {} /\ DOMAIN Untouched.rows = {}
        BY DEF InHand, Untouched
      <3>3. \A i : Result(Untouched, i) = rows[i]
        BY <3>2 DEF Result, Base
      <3>4. \A i : Asserted(f, payload, now, i, 0) = {} /\ Dropped(f, payload, now, i, 0) = {}
        BY <1>1 DEF Asserted, Dropped, records, revocations
      <3>5. \A i : Told(f, payload, now, i, 0, rows[i]) = rows[i]
        BY <3>4 DEF Told
      <3>6. Progress(Untouched, f, payload, now, 0)
        BY <3>2, <3>3, <3>5 DEF Progress
      <3> QED
        BY <2>3, <3>1, <3>6
    <2>5. m \in 1 .. N /\ m \in Nat \ {0} /\ m - 1 \in 0 .. N /\ m - 1 \notin T
      BY <1>1, <2>2, <2>3, <2>4
    <2>6. Progress(h[m - 1], f, payload, now, m - 1) /\ h[m] = Turn(h[m - 1], f, payload, now, m)
      BY <1>2, <2>5 DEF Steps
    <2>7. Progress(Turn(h[m - 1], f, payload, now, m), f, payload, now, m)
      BY <2>5, <2>6, MergeTurn, RevokeTurn, QuietTurn
    <2> QED
      BY <2>3, <2>6, <2>7
  <1>4. N \in 0 .. N
    BY <1>1
  <1> QED
    BY <1>2, <1>3, <1>4

-----------------------------------------------------------------------------
(* The table holds what each feed last said.                               *)

Pieces(f) == UNION {Range(p) : p \in Range(Published[f])}

UpsertFields == {"at", "feed", "got", "now", "batch"}

\* What the batch in hand has to make of the row of i.
Due(i) == Told(job.feed, job.got, job.now, i, 2 * Len(job.got), saved[i])

\* What was fetched so far is a beginning of what the feed publishes.
Fetched(got, payload) ==
    /\ got = <<>> \/ Len(got) < Len(payload)
    /\ \A n \in 1 .. Len(got) : got[n] = payload[n]

\* Where the refresher is: the table differs from what is committed in a transaction
\* only, and there by what is due.
JobInv ==
    /\ job.at \in {"idle", "fetch", "upsert", "delete", "commit"}
    /\ job.at \in {"idle", "fetch", "upsert"} => rows = saved
    /\ job.at # "idle" => job.feed \in DOMAIN Feeds /\ Unserved(job.feed)
    /\ job.at = "fetch" => /\ DOMAIN job = FetchFields
                           /\ job.got \in Seq(Pieces(job.feed)) /\ Fetched(job.got, Payload(job.feed))
    /\ job.at \in {"upsert", "delete", "commit"} => DOMAIN job = UpsertFields /\ job.got = Payload(job.feed)
    /\ job.at = "upsert" => \A i \in Indicators : Result(job.batch, i) = Due(i)
    /\ job.at = "delete" =>
          \A i \in Indicators : (IF i \in job.batch.deletes THEN {} ELSE rows[i]) = Due(i)
    /\ job.at = "commit" => \A i \in Indicators : rows[i] = Due(i)

HistoryType == served \in [DOMAIN Feeds -> Nat] /\ ingested \in Seq(Range(ingested))

StoreInv == JobInv /\ HistoryType /\ StoreFollowsFeeds

LEMMA PayloadType ==
    ASSUME HistoryType, NEW f \in DOMAIN Feeds, Unserved(f)
    PROVE  Payload(f) \in Seq(Pieces(f)) /\ Len(Payload(f)) \in Nat
  <1>1. Published[f] \in Seq(Seq(Pieces(f)))
    BY IntelAssumption DEF IntelAssumption, Pieces
  <1>2. PICK n : n = served[f] + 1
    OBVIOUS
  <1>3. n \in 1 .. Len(Published[f])
    BY <1>1, <1>2 DEF HistoryType, Unserved
  <1>4. Published[f][n] \in Seq(Pieces(f))
    BY <1>1, <1>3
  <1> QED
    BY <1>2, <1>4 DEF Payload

\* A fetch that is complete has the whole payload.
LEMMA CompleteIsPayload ==
    ASSUME NEW S, NEW got \in Seq(S), NEW payload \in Seq(S), Len(got) = Len(payload),
           \A n \in 1 .. Len(got) : got[n] = payload[n]
    PROVE  got = payload
  OBVIOUS

\* The job is given up or done, and the table is as committed.
LEMMA IdleJob ==
    ASSUME HistoryType, job' = Idle, rows' = saved', served' = [served EXCEPT ![job.feed] = @ + 1],
           job.feed \in DOMAIN Feeds, UNCHANGED ingested
    PROVE  JobInv' /\ HistoryType'
  <1>1. job'.at = "idle"
    BY DEF Idle
  <1>2. JobInv'
    BY <1>1 DEF JobInv
  <1>3. HistoryType'
    BY DEF HistoryType
  <1> QED
    BY <1>2, <1>3

\* LastSaid and StoreFollowsFeeds, of any history and any table.
SaidOf(b, f, ind) ==
    LET says == {i \in DOMAIN b.payload : b.payload[i].ind = ind}
        asserts == {i \in says : WellFormed(b.payload[i]) /\ ~Withdrawn(f, b.payload[i], b.now)}
    IN  IF \E i \in says : Withdrawn(f, b.payload[i], b.now) THEN {}
        ELSE {normalize(f, b.payload[Max(asserts)], b.now)}
Saying(H, f, ind) == {n \in DOMAIN H : H[n].feed = f /\ Mentions(H[n], ind)}
SaidIn(H, f, ind) ==
    IF Saying(H, f, ind) = {} THEN {} ELSE SaidOf(H[Max(Saying(H, f, ind))], f, ind)
Follows(T, H) == \A i \in Indicators : T[i] = UNION {SaidIn(H, f, i) : f \in DOMAIN Feeds}

LEMMA FollowsIs == /\ StoreFollowsFeeds <=> Follows(saved, ingested)
                   /\ StoreFollowsFeeds' <=> Follows(saved', ingested')
  <1>1. \A f, ind : LastSaid(f, ind) = SaidIn(ingested, f, ind)
    <2> TAKE f, ind
    <2>1. CASE Saying(ingested, f, ind) = {}
      BY <2>1 DEF LastSaid, SaidIn, Saying
    <2>2. CASE Saying(ingested, f, ind) # {}
      BY <2>2 DEF LastSaid, SaidIn, Saying, SaidOf
    <2> QED
      BY <2>1, <2>2
  <1>2. \A f, ind : LastSaid(f, ind)' = SaidIn(ingested', f, ind)
    <2> TAKE f, ind
    <2>1. CASE Saying(ingested', f, ind) = {}
      BY <2>1 DEF LastSaid, SaidIn, Saying
    <2>2. CASE Saying(ingested', f, ind) # {}
      BY <2>2 DEF LastSaid, SaidIn, Saying, SaidOf
    <2> QED
      BY <2>1, <2>2
  <1>3. StoreFollowsFeeds <=> Follows(saved, ingested)
    BY <1>1 DEF StoreFollowsFeeds, Follows
  <1>4. StoreFollowsFeeds' <=> Follows(saved', ingested')
    BY <1>2 DEF StoreFollowsFeeds, Follows
  <1> QED
    BY <1>3, <1>4

LEMMA StoreUnread ==
    ASSUME StoreInv, UNCHANGED <<saved, ingested>>
    PROVE  StoreFollowsFeeds'
  <1>1. Follows(saved, ingested)
    BY FollowsIs DEF StoreInv
  <1>2. Follows(saved', ingested')
    BY <1>1
  <1> QED
    BY <1>2, FollowsIs

LEMMA PageStored ==
    ASSUME StoreInv, NEW cert \in BOOLEAN, FetchPage(cert)
    PROVE  StoreInv'
  <1>0. JobInv /\ HistoryType /\ job.at = "fetch" /\ UNCHANGED <<rows, saved, served, ingested>>
    BY DEF StoreInv, FetchPage, store
  <1>1. PICK p : p = Payload(job.feed)
    OBVIOUS
  <1>2. PICK got : got = IF Feeds[job.feed].stix /\ p # <<>> THEN Append(job.got, p[Len(job.got) + 1]) ELSE p
    OBVIOUS
  <1>3. /\ job.feed \in DOMAIN Feeds /\ Unserved(job.feed) /\ DOMAIN job = FetchFields
        /\ job.got \in Seq(Pieces(job.feed)) /\ Fetched(job.got, p) /\ rows = saved
    BY <1>0, <1>1 DEF JobInv
  <1>4. p \in Seq(Pieces(job.feed)) /\ Len(p) \in Nat
    BY <1>0, <1>1, <1>3, PayloadType
  <1>5. /\ got \in Seq(Pieces(job.feed)) /\ Len(got) \in Nat /\ Len(got) <= Len(p)
        /\ \A n \in 1 .. Len(got) : got[n] = p[n]
    <2>1. CASE got = p
      BY <1>4, <2>1
    <2>2. CASE p # <<>> /\ got = Append(job.got, p[Len(job.got) + 1])
      <3>1. PICK m : m = Len(job.got)
        OBVIOUS
      <3>2. m \in Nat /\ m + 1 \in 1 .. Len(p) /\ \A n \in 1 .. m : job.got[n] = p[n]
        BY <1>3, <1>4, <2>2, <3>1 DEF Fetched
      <3>3. p[m + 1] \in Pieces(job.feed)
        BY <1>4, <3>2
      <3>4. /\ got \in Seq(Pieces(job.feed)) /\ Len(got) = m + 1 /\ got[m + 1] = p[m + 1]
            /\ \A n \in 1 .. m : got[n] = job.got[n]
        BY <1>3, <2>2, <3>1, <3>3
      <3> QED
        BY <1>4, <3>2, <3>4
    <2> QED
      BY <1>2, <2>1, <2>2
  <1>6. CASE Complete(got)
    <2>1. job' = [at |-> "upsert", feed |-> job.feed, got |-> got, now |-> job.now,
                  batch |-> Batch(job.feed, got, job.now)]
      BY <1>1, <1>2, <1>6 DEF FetchPage
    <2>2. got = p
      BY <1>1, <1>4, <1>5, <1>6, CompleteIsPayload DEF Complete
    <2>3. PICK b : b = Batch(job.feed, got, job.now)
      OBVIOUS
    <2>4. /\ job'.at = "upsert" /\ job'.feed = job.feed /\ job'.got = got /\ job'.now = job.now
          /\ job'.batch = b /\ DOMAIN job' = UpsertFields
      BY <2>1, <2>3 DEF UpsertFields
    <2>5. Progress(b, job.feed, got, job.now, 2 * Len(got))
      BY <1>5, <2>3, BatchResult
    <2>6. \A i \in Indicators : Result(b, i) = Told(job.feed, got, job.now, i, 2 * Len(got), saved[i])
      BY <1>3, <2>5 DEF Progress
    <2>7. \A i \in Indicators : Result(job.batch, i)' = Result(b, i) /\ Due(i)' = Told(job.feed, got, job.now, i, 2 * Len(got), saved[i])
      BY <1>0, <2>4 DEF Result, Base, Due
    <2>8. Payload(job.feed)' = p /\ Unserved(job.feed)'
      BY <1>0, <1>1, <1>3, <2>4 DEF Payload, Unserved
    <2>9. JobInv'
      BY <1>0, <1>3, <2>2, <2>4, <2>6, <2>7, <2>8 DEF JobInv
    <2> QED
      BY <1>0, <2>9, StoreUnread DEF StoreInv, HistoryType
  <1>7. CASE ~Complete(got)
    <2>1. job' = [job EXCEPT !.got = got]
      BY <1>1, <1>2, <1>7 DEF FetchPage
    <2>2. job'.at = "fetch" /\ job'.feed = job.feed /\ job'.got = got /\ DOMAIN job' = FetchFields
      BY <1>0, <1>3, <2>1 DEF FetchFields
    <2>3. Len(got) < Len(p)
      BY <1>1, <1>4, <1>5, <1>7 DEF Complete
    <2>4. Fetched(got, p)
      BY <1>5, <2>3 DEF Fetched
    <2>5. Payload(job.feed)' = p /\ Unserved(job.feed)' /\ Pieces(job.feed)' = Pieces(job.feed)
      BY <1>0, <1>1, <1>3, <2>2 DEF Payload, Unserved, Pieces
    <2>6. JobInv'
      BY <1>0, <1>3, <1>5, <2>2, <2>4, <2>5 DEF JobInv, Fetched
    <2> QED
      BY <1>0, <2>6, StoreUnread DEF StoreInv, HistoryType
  <1> QED
    BY <1>6, <1>7

LEMMA UpsertStored ==
    ASSUME StoreInv, Upsert
    PROVE  StoreInv'
  <1>0. JobInv /\ HistoryType /\ job.at = "upsert" /\ UNCHANGED <<saved, served, ingested>>
    BY DEF StoreInv, Upsert
  <1>1. /\ job.feed \in DOMAIN Feeds /\ Unserved(job.feed) /\ DOMAIN job = UpsertFields
        /\ job.got = Payload(job.feed) /\ \A i \in Indicators : Result(job.batch, i) = Due(i)
    BY <1>0 DEF JobInv
  <1>2. job' = [job EXCEPT !.at = "delete"]
    BY DEF Upsert
  <1>3. /\ job'.at = "delete" /\ job'.feed = job.feed /\ job'.got = job.got /\ job'.now = job.now
        /\ job'.batch = job.batch /\ DOMAIN job' = UpsertFields
    BY <1>1, <1>2 DEF UpsertFields
  <1>4. \A i \in Indicators : rows'[i] = Base(job.batch, i)
    BY DEF Upsert, Base
  <1>5. \A i \in Indicators : Due(i)' = Due(i)
    BY <1>0, <1>3 DEF Due
  <1>6. \A i \in Indicators : (IF i \in job'.batch.deletes THEN {} ELSE rows'[i]) = Due(i)'
    BY <1>1, <1>3, <1>4, <1>5 DEF Result
  <1>7. Payload(job.feed)' = Payload(job.feed) /\ Unserved(job.feed)'
    BY <1>0, <1>1, <1>3 DEF Payload, Unserved
  <1>8. JobInv'
    BY <1>1, <1>3, <1>6, <1>7 DEF JobInv
  <1> QED
    BY <1>0, <1>8, StoreUnread DEF StoreInv, HistoryType

LEMMA DeleteStored ==
    ASSUME StoreInv, Delete
    PROVE  StoreInv'
  <1>0. JobInv /\ HistoryType /\ job.at = "delete" /\ UNCHANGED <<saved, served, ingested>>
    BY DEF StoreInv, Delete
  <1>1. /\ job.feed \in DOMAIN Feeds /\ Unserved(job.feed) /\ DOMAIN job = UpsertFields
        /\ job.got = Payload(job.feed)
        /\ \A i \in Indicators : (IF i \in job.batch.deletes THEN {} ELSE rows[i]) = Due(i)
    BY <1>0 DEF JobInv
  <1>2. job' = [job EXCEPT !.at = "commit"]
    BY DEF Delete
  <1>3. /\ job'.at = "commit" /\ job'.feed = job.feed /\ job'.got = job.got /\ job'.now = job.now
        /\ DOMAIN job' = UpsertFields
    BY <1>1, <1>2 DEF UpsertFields
  <1>4. \A i \in Indicators : rows'[i] = Due(i)
    BY <1>1 DEF Delete
  <1>5. \A i \in Indicators : rows'[i] = Due(i)'
    BY <1>0, <1>3, <1>4 DEF Due
  <1>6. Payload(job.feed)' = Payload(job.feed) /\ Unserved(job.feed)'
    BY <1>0, <1>1, <1>3 DEF Payload, Unserved
  <1>7. JobInv'
    BY <1>1, <1>3, <1>5, <1>6 DEF JobInv
  <1> QED
    BY <1>0, <1>7, StoreUnread DEF StoreInv, HistoryType

\* What a feed said carries its name.
LEMMA SaidFeed ==
    ASSUME NEW H, NEW f, NEW i, NEW p \in SaidIn(H, f, i)
    PROVE  p.feed = f
  <1>1. \A x, now : normalize(f, x, now).feed = f
    BY DEF normalize
  <1>2. PICK b : p \in SaidOf(b, f, i)
    BY DEF SaidIn
  <1>3. PICK x : p = normalize(f, x, b.now)
    BY <1>2 DEF SaidOf
  <1> QED
    BY <1>1, <1>3

\* A payload says nothing for another feed, nor of an indicator it does not mention.
LEMMA SaidElsewhere ==
    ASSUME NEW S, NEW H \in Seq(S), NEW b, NEW g, NEW i, b.feed # g \/ ~Mentions(b, i)
    PROVE  SaidIn(Append(H, b), g, i) = SaidIn(H, g, i)
  <1>1. PICK K : K = Append(H, b)
    OBVIOUS
  <1>2. /\ Len(H) \in Nat /\ DOMAIN H = 1 .. Len(H) /\ DOMAIN K = 1 .. Len(H) + 1
        /\ K[Len(H) + 1] = b /\ \A n \in 1 .. Len(H) : K[n] = H[n]
    BY <1>1
  <1>3. \A n : n \in Saying(K, g, i) <=> n \in Saying(H, g, i)
    <2> TAKE n
    <2>1. n \in 1 .. Len(H) + 1 <=> (n \in 1 .. Len(H) \/ n = Len(H) + 1)
      BY <1>2
    <2>2. Len(H) + 1 \notin Saying(K, g, i) /\ Len(H) + 1 \notin Saying(H, g, i)
      BY <1>2 DEF Saying
    <2>3. n \in 1 .. Len(H) => (n \in Saying(K, g, i) <=> n \in Saying(H, g, i))
      BY <1>2 DEF Saying
    <2>4. (n \in Saying(K, g, i) \/ n \in Saying(H, g, i)) => n \in 1 .. Len(H) + 1
      BY <1>2 DEF Saying
    <2> QED
      BY <2>1, <2>2, <2>3, <2>4
  <1>4. Saying(K, g, i) = Saying(H, g, i)
    BY <1>3
  <1>5. PICK T : T = Saying(H, g, i)
    OBVIOUS
  <1>6. CASE T = {}
    BY <1>1, <1>4, <1>5, <1>6 DEF SaidIn
  <1>7. CASE T # {}
    <2>1. T \in SUBSET (1 .. Len(H)) /\ T \in SUBSET Nat
      BY <1>2, <1>5 DEF Saying
    <2>2. PICK m \in T : \A k \in T : k <= m
      BY <1>2, <1>7, <2>1, LastPosition
    <2>3. Max(T) = m
      BY <2>1, <2>2, MaxIs
    <2>4. K[m] = H[m]
      BY <1>2, <2>1, <2>2
    <2> QED
      BY <1>1, <1>4, <1>5, <1>7, <2>3, <2>4 DEF SaidIn
  <1> QED
    BY <1>6, <1>7

\* The newest payload that mentions an indicator is its feed's last word.
LEMMA SaidNow ==
    ASSUME NEW S, NEW H \in Seq(S), NEW b, NEW i, Mentions(b, i)
    PROVE  SaidIn(Append(H, b), b.feed, i) = SaidOf(b, b.feed, i)
  <1>1. PICK K : K = Append(H, b)
    OBVIOUS
  <1>2. Len(H) \in Nat /\ DOMAIN K = 1 .. Len(H) + 1 /\ K[Len(H) + 1] = b
    BY <1>1
  <1>3. PICK T : T = Saying(K, b.feed, i)
    OBVIOUS
  <1>4. T \in SUBSET Nat /\ Len(H) + 1 \in T /\ \A k \in T : k <= Len(H) + 1
    BY <1>2, <1>3 DEF Saying
  <1>5. Max(T) = Len(H) + 1
    BY <1>4, MaxIs
  <1> QED
    BY <1>1, <1>2, <1>3, <1>4, <1>5 DEF SaidIn

Entry(f, payload, now) == [feed |-> f, payload |-> payload, now |-> now]
Amended(b, f, i, row) == IF Mentions(b, i) THEN Others(row, f) \cup SaidOf(b, f, i) ELSE row
ToldAll(f, payload, now, i, row) == Told(f, payload, now, i, 2 * Len(payload), row)

\* What ingest makes of a row is what the payload says, beside the other feeds' word.
LEMMA ToldIsSaid ==
    ASSUME NEW S, NEW payload \in Seq(S), NEW f, NEW now, NEW i, NEW row
    PROVE  ToldAll(f, payload, now, i, row) = Amended(Entry(f, payload, now), f, i, row)
  <1>0. PICK b : b = Entry(f, payload, now)
    OBVIOUS
  <1>1. b.feed = f /\ b.payload = payload /\ b.now = now
    BY <1>0 DEF Entry
  <1>2. PICK A, D : /\ A = Asserted(f, payload, now, i, 2 * Len(payload))
                    /\ D = Dropped(f, payload, now, i, 2 * Len(payload))
    OBVIOUS
  <1>3. DOMAIN payload = 1 .. Len(payload) /\ Len(payload) \in Nat
    OBVIOUS
  <1>4. \A j \in DOMAIN payload : j <= 2 * Len(payload) /\ j + Len(payload) <= 2 * Len(payload)
    BY <1>3
  <1>5. \A j : j \in A <=> /\ j \in DOMAIN payload /\ payload[j].ind = i
                           /\ WellFormed(payload[j]) /\ ~Withdrawn(f, payload[j], now)
    BY <1>2, <1>4, Zenon DEF Asserted, records
  <1>6. \A j : j \in D <=> j \in DOMAIN payload /\ payload[j].ind = i /\ Withdrawn(f, payload[j], now)
    BY <1>2, <1>4, Zenon DEF Dropped, revocations
  <1>7. Mentions(b, i) <=> A # {} \/ D # {}
    BY <1>1, <1>5, <1>6, Zenon DEF Mentions
  <1>8. A = {j \in {k \in DOMAIN b.payload : b.payload[k].ind = i} :
                WellFormed(b.payload[j]) /\ ~Withdrawn(f, b.payload[j], b.now)}
    BY <1>1, <1>5, Zenon
  <1>9. (\E j \in {k \in DOMAIN b.payload : b.payload[k].ind = i} : Withdrawn(f, b.payload[j], b.now)) <=> D # {}
    BY <1>1, <1>6, Zenon
  <1>10. SaidOf(b, f, i) = IF D # {} THEN {} ELSE {normalize(f, payload[Max(A)], now)}
    BY <1>1, <1>8, <1>9 DEF SaidOf
  <1> QED
    BY <1>0, <1>2, <1>7, <1>10 DEF Told, ToldAll, Amended

LEMMA CommitFollows ==
    ASSUME NEW S, NEW H \in Seq(S), NEW T, Follows(T, H), NEW U, NEW f \in DOMAIN Feeds,
           NEW P, NEW payload \in Seq(P), NEW now, NEW b,
           b = [feed |-> f, payload |-> payload, now |-> now],
           \A i \in Indicators : U[i] = Told(f, payload, now, i, 2 * Len(payload), T[i])
    PROVE  Follows(U, Append(H, b))
  <1>1. PICK K : K = Append(H, b)
    OBVIOUS
  <1>2. b.feed = f
    OBVIOUS
  <1>3. ASSUME NEW i \in Indicators PROVE U[i] = UNION {SaidIn(K, g, i) : g \in DOMAIN Feeds}
    <2>1. T[i] = UNION {SaidIn(H, g, i) : g \in DOMAIN Feeds}
      BY <1>3 DEF Follows
    <2>2. \A g : g # f \/ ~Mentions(b, i) => SaidIn(K, g, i) = SaidIn(H, g, i)
      BY <1>1, <1>2, SaidElsewhere
    <2>3. U[i] = IF Mentions(b, i) THEN Others(T[i], f) \cup SaidOf(b, f, i) ELSE T[i]
      <3>1. PICK row : row = T[i]
        OBVIOUS
      <3>2. U[i] = ToldAll(f, payload, now, i, row)
        BY <1>3, <3>1 DEF ToldAll
      <3>3. ToldAll(f, payload, now, i, row) = Amended(Entry(f, payload, now), f, i, row)
        BY ToldIsSaid
      <3> QED
        BY <3>1, <3>2, <3>3 DEF Amended, Entry
    <2>4. CASE ~Mentions(b, i)
      BY <2>1, <2>2, <2>3, <2>4
    <2>5. CASE Mentions(b, i)
      <3>1. SaidIn(K, f, i) = SaidOf(b, f, i)
        BY <1>1, <1>2, <2>5, SaidNow
      <3>2. \A p, g : p \in SaidIn(H, g, i) => p.feed = g
        BY SaidFeed
      <3>3. \A p : p \in Others(T[i], f) <=> \E g \in DOMAIN Feeds : g # f /\ p \in SaidIn(K, g, i)
        BY <2>1, <2>2, <3>2 DEF Others
      <3> QED
        BY <2>3, <2>5, <3>1, <3>3
    <2> QED
      BY <2>4, <2>5
  <1> QED
    BY <1>1, <1>3 DEF Follows

LEMMA CommitStored ==
    ASSUME StoreInv, CommitBatch
    PROVE  StoreInv'
  <1>1. PICK b : b = [feed |-> job.feed, payload |-> Payload(job.feed), now |-> job.now]
    OBVIOUS
  <1>2. /\ JobInv /\ HistoryType /\ job.at = "commit" /\ rows' = rows /\ saved' = rows
        /\ ingested' = Append(ingested, b)
        /\ job' = Idle /\ served' = [served EXCEPT ![job.feed] = @ + 1]
    BY <1>1 DEF StoreInv, CommitBatch, Abandoned
  <1>3. /\ job.feed \in DOMAIN Feeds /\ Unserved(job.feed)
        /\ job.got = Payload(job.feed) /\ \A i \in Indicators : rows[i] = Due(i)
    BY <1>2 DEF JobInv
  <1>4. job.got \in Seq(Pieces(job.feed))
    BY <1>2, <1>3, PayloadType
  <1>5. Follows(saved, ingested) /\ ingested \in Seq(Range(ingested))
    BY FollowsIs DEF StoreInv, HistoryType
  <1>6. PICK f, got, now : f = job.feed /\ got = job.got /\ now = job.now
    OBVIOUS
  <1>7. Follows(rows, Append(ingested, b))
    <2>1. \A i \in Indicators : rows[i] = Told(f, got, now, i, 2 * Len(got), saved[i])
      BY <1>3, <1>6 DEF Due
    <2>2. b = [feed |-> f, payload |-> got, now |-> now] /\ f \in DOMAIN Feeds /\ got \in Seq(Pieces(f))
      BY <1>1, <1>3, <1>4, <1>6
    <2> QED
      BY <1>5, <2>1, <2>2, CommitFollows
  <1>8. StoreFollowsFeeds'
    BY <1>2, <1>7, FollowsIs
  <1>9. job'.at = "idle"
    BY <1>2 DEF Idle
  <1>10. JobInv'
    BY <1>2, <1>9 DEF JobInv
  <1>11. Append(ingested, b) \in Seq(Range(Append(ingested, b)))
    <2>1. PICK H : H = ingested
      OBVIOUS
    <2>2. PICK K : K = Append(H, b)
      OBVIOUS
    <2>3. H \in Seq(Range(H))
      BY <1>5, <2>1
    <2>4. Len(K) \in Nat /\ DOMAIN K = 1 .. Len(K) /\ K = [n \in 1 .. Len(K) |-> K[n]]
      <3>1. PICK S : S = Range(H) \cup {b}
        OBVIOUS
      <3>2. K \in Seq(S)
        BY <2>2, <2>3, <3>1
      <3> QED
        BY <3>2
    <2>5. \A n \in 1 .. Len(K) : K[n] \in Range(K)
      BY <2>4 DEF Range
    <2>6. K \in Seq(Range(K))
      BY <2>4, <2>5
    <2> QED
      BY <2>1, <2>2, <2>6
  <1>12. HistoryType'
    BY <1>2, <1>3, <1>11 DEF HistoryType
  <1> QED
    BY <1>8, <1>10, <1>12 DEF StoreInv

\* A fetch of the same feed goes on.
LEMMA FetchGoesOn ==
    ASSUME StoreInv, job.at = "fetch", NEW https, NEW origin, NEW redirects,
           job' = [job EXCEPT !.https = https, !.origin = origin, !.redirects = redirects],
           UNCHANGED <<rows, saved, served, ingested>>
    PROVE  StoreInv'
  <1>1. /\ JobInv /\ HistoryType /\ rows = saved /\ job.feed \in DOMAIN Feeds /\ Unserved(job.feed)
        /\ DOMAIN job = FetchFields /\ job.got \in Seq(Pieces(job.feed)) /\ Fetched(job.got, Payload(job.feed))
    BY DEF StoreInv, JobInv
  <1>2. job'.at = "fetch" /\ job'.feed = job.feed /\ job'.got = job.got /\ DOMAIN job' = FetchFields
    BY <1>1 DEF FetchFields
  <1>3. Unserved(job.feed)' /\ Payload(job.feed)' = Payload(job.feed) /\ Pieces(job.feed)' = Pieces(job.feed)
    BY <1>1, <1>2 DEF Unserved, Payload, Pieces
  <1>4. Fetched(job.got, Payload(job.feed))'
    BY <1>1, <1>2, <1>3 DEF Fetched
  <1>5. JobInv'
    BY <1>1, <1>2, <1>3, <1>4 DEF JobInv
  <1> QED
    BY <1>1, <1>5, StoreUnread DEF StoreInv, HistoryType

LEMMA StartStored ==
    ASSUME StoreInv, NEW f \in DOMAIN Feeds, StartFeed(f)
    PROVE  StoreInv'
  <1>1. /\ JobInv /\ HistoryType /\ job.at = "idle" /\ Unserved(f)
        /\ UNCHANGED <<rows, saved, served, ingested>>
    BY DEF StoreInv, StartFeed, Idle, store
  <1>2. rows = saved
    BY <1>1 DEF JobInv
  <1>3. job' = [at |-> "fetch", feed |-> f, now |-> clock, https |-> TRUE, origin |-> TRUE,
                redirects |-> 0, got |-> <<>>]
    BY DEF StartFeed
  <1>4. job'.at = "fetch" /\ job'.feed = f /\ job'.got = <<>> /\ DOMAIN job' = FetchFields
    BY <1>3 DEF FetchFields
  <1>5. \A S : <<>> \in Seq(S)
    OBVIOUS
  <1>6. \A p : Fetched(<<>>, p)
    BY DEF Fetched
  <1>7. Unserved(job.feed)'
    BY <1>1, <1>4 DEF Unserved
  <1>8. (job.got \in Seq(Pieces(job.feed)))'
    BY <1>4, <1>5
  <1>9. Fetched(job.got, Payload(job.feed))'
    BY <1>4, <1>6 DEF Fetched
  <1>10. JobInv'
    BY <1>1, <1>2, <1>4, <1>7, <1>8, <1>9 DEF JobInv
  <1> QED
    BY <1>1, <1>10, StoreUnread DEF StoreInv, HistoryType

\* The ways to abandon a feed.
LEMMA AbandonStored ==
    ASSUME StoreInv, job.at # "idle", Abandoned, rows' = saved', UNCHANGED <<saved, ingested>>
    PROVE  StoreInv'
  <1>1. JobInv /\ HistoryType /\ job.feed \in DOMAIN Feeds
    BY DEF StoreInv, JobInv
  <1>2. JobInv' /\ HistoryType'
    BY <1>1, IdleJob DEF Abandoned
  <1> QED
    BY <1>2, StoreUnread DEF StoreInv

LEMMA RefreshStored ==
    ASSUME StoreInv, Refresh
    PROVE  StoreInv'
  <1>0. job.at = "fetch" => rows = saved
    BY DEF StoreInv, JobInv
  <1>1. CASE FetchRefused
    BY <1>0, <1>1, AbandonStored DEF FetchRefused, GiveUp, store
  <1>2. ASSUME NEW cert \in BOOLEAN, FetchFailed(cert) PROVE StoreInv'
    BY <1>0, <1>2, AbandonStored DEF FetchFailed, store
  <1>3. ASSUME NEW cert \in BOOLEAN, NEW https \in BOOLEAN, FetchRedirected(cert, https) PROVE StoreInv'
    <2>1. job.at = "fetch" /\ UNCHANGED <<rows, saved, ingested>>
      BY <1>3 DEF FetchRedirected, store
    <2>2. CASE MayRedirect(https)
      <3>1. UNCHANGED served /\ job' = [job EXCEPT !.https = https, !.origin = FALSE, !.redirects = job.redirects + 1]
        BY <1>3, <2>2 DEF FetchRedirected
      <3> QED
        BY <2>1, <3>1, FetchGoesOn
    <2>3. CASE ~MayRedirect(https)
      BY <1>0, <1>3, <2>1, <2>3, AbandonStored DEF FetchRedirected
    <2> QED
      BY <2>2, <2>3
  <1>4. CASE Rollback
    BY <1>4, AbandonStored DEF Rollback, GiveUp
  <1> QED
    BY <1>1, <1>2, <1>3, <1>4, StartStored, PageStored, UpsertStored, DeleteStored, CommitStored DEF Refresh

\* Through failed and cut-off fetches, rollbacks, withdrawals and refreshes that overlap
\* validity windows, the committed table holds for every indicator exactly what each
\* feed last said of it: ingest and upsert_many for all feeds and payloads.
THEOREM StoreAlwaysFollowsFeeds == Spec => []StoreFollowsFeeds
  <1>1. Init => StoreInv
    <2> SUFFICES ASSUME Init PROVE StoreInv
      OBVIOUS
    <2>1. /\ rows = saved /\ saved = [i \in Indicators |-> {}] /\ job = Idle
          /\ served = [f \in DOMAIN Feeds |-> 0] /\ ingested = <<>>
      BY DEF Init
    <2>2. JobInv
      BY <2>1 DEF JobInv, Idle
    <2>3. HistoryType
      BY <2>1 DEF HistoryType
    <2>4. \A f, i : SaidIn(<<>>, f, i) = {}
      <3>1. \A f, i : Saying(<<>>, f, i) = {}
        BY DEF Saying
      <3> QED
        BY <3>1 DEF SaidIn
    <2>5. Follows(saved, ingested)
      BY <2>1, <2>4 DEF Follows
    <2> QED
      BY <2>2, <2>3, <2>5, FollowsIs DEF StoreInv
  <1>2. StoreInv /\ [Next]_vars => StoreInv'
    <2> SUFFICES ASSUME StoreInv, [Next]_vars PROVE StoreInv'
      OBVIOUS
    <2>1. CASE Refresh
      BY <2>1, RefreshStored
    <2>2. CASE ~Refresh
      <3>1. UNCHANGED <<rows, saved, job, served, ingested>>
        BY <2>2 DEF Next, Lookup, Deliver, suppress, Tick, store, refresher, vars
      <3>2. JobInv' /\ HistoryType'
        BY <3>1 DEF StoreInv, JobInv, HistoryType, Unserved, Payload, Pieces, Fetched, Due, Result, Base
      <3> QED
        BY <3>1, <3>2, StoreUnread DEF StoreInv
    <2> QED
      BY <2>1, <2>2
  <1>3. StoreInv => StoreFollowsFeeds
    BY DEF StoreInv
  <1> QED
    BY <1>1, <1>2, <1>3, PTL DEF Spec
=============================================================================
