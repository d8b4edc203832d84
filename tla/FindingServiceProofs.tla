------------------------ MODULE FindingServiceProofs ------------------------
(***************************************************************************)
(* The finding service never loses a capture obligation: proofs, for every *)
(* set of tenants, finding ids and candidates and every bound, of the type *)
(* invariant, the revision ladder, the suppression policy and              *)
(* ObligationsTracked; and, where answers name their tenant, of            *)
(* EvidenceOwnTenant.                                                      *)
(***************************************************************************)
EXTENDS FindingService, TLAPS

-----------------------------------------------------------------------------
(* What the lifecycle operators of state_machine.py return.                *)

\* The first revision of a finding waits for a capture exactly when it is
\* routed to one, and build_finding decides delivery by the policy alone.
LEMMA BuildFacts ==
    ASSUME NEW c \in Candidates
    PROVE  /\ build_finding(c).finding \in Findings
           /\ build_finding(c).finding.cand = c
           /\ build_finding(c).finding.rev = 1
           /\ build_finding(c).route \in {"final", "capture", "final_and_capture"}
           /\ build_finding(c).route = "final" =>
                /\ build_finding(c).finding.enr = "NOT_REQUIRED"
                /\ build_finding(c).finding.state = DeliveryState(c)
           /\ build_finding(c).route = "capture" =>
                /\ build_finding(c).finding.enr = "REQUIRED"
                /\ build_finding(c).finding.state = "CAPTURE_REQUESTED"
           /\ build_finding(c).route = "final_and_capture" =>
                /\ build_finding(c).finding.enr = "PENDING"
                /\ build_finding(c).finding.state = "FINAL"
                /\ DeliveryState(c) = "FINAL"
  BY DEF build_finding, Revision, Findings, DeliveryState, suppress_delivery, Unfinalized

\* A finding that waits is undelivered or was delivered by the policy.
Sound(f) == f.state \in {"CAPTURE_REQUESTED", DeliveryState(f.cand)}

\* An enrichment result makes the next, terminal revision.
LEMMA ApplyFacts ==
    ASSUME NEW f \in Findings, NEW m, m.origin \in Keys
    PROVE  /\ apply_enrichment_result(f, m) \in Findings
           /\ apply_enrichment_result(f, m).cand = f.cand
           /\ apply_enrichment_result(f, m).rev = f.rev + 1
           /\ apply_enrichment_result(f, m).enr \in {"ENRICHED", "ENRICHMENT_FAILED"}
           /\ Sound(f) => apply_enrichment_result(f, m).state = DeliveryState(f.cand)
  <1>1. terminal_state(f) \in {"FINAL", "SUPPRESSED"}
    BY DEF terminal_state, DeliveryState
  <1>2. Sound(f) => terminal_state(f) = DeliveryState(f.cand)
    BY DEF Sound, terminal_state, DeliveryState
  <1> DEFINE st == terminal_state(f)
             enr == IF m.ok THEN "ENRICHED" ELSE "ENRICHMENT_FAILED"
             evid == IF m.ok THEN f.evid \cup {m.origin} ELSE f.evid
             rev == f.rev + 1
             g == [f EXCEPT !.enr = enr, !.evid = evid, !.state = st, !.rev = rev]
  <1>3. apply_enrichment_result(f, m) = g
    BY DEF apply_enrichment_result
  <1>4. /\ evid \in SUBSET Keys /\ rev \in Nat \ {0}
        /\ enr \in {"ENRICHED", "ENRICHMENT_FAILED"}
    BY DEF Findings
  <1>5. rev = f.rev + 1 /\ (Sound(f) => st = DeliveryState(f.cand))
    BY <1>2
  <1>6. st \in {"FINAL", "SUPPRESSED"}
    BY <1>1
  <1> HIDE DEF st, enr, evid, rev
  <1>7. g \in Findings
    BY <1>4, <1>6 DEF Findings, Terminal
  <1>8. g.cand = f.cand /\ g.rev = rev /\ g.enr = enr /\ g.state = st
    BY <1>4, <1>6 DEF Findings
  <1> QED
    BY <1>3, <1>4, <1>5, <1>7, <1>8

\* A timeout makes the next, terminal revision.
LEMMA TimeoutFacts ==
    ASSUME NEW f \in Findings
    PROVE  /\ finalize_timeout(f) \in Findings
           /\ finalize_timeout(f).cand = f.cand
           /\ finalize_timeout(f).rev = f.rev + 1
           /\ finalize_timeout(f).enr = "TIMEOUT"
           /\ Sound(f) => finalize_timeout(f).state = DeliveryState(f.cand)
  <1>1. terminal_state(f) \in {"FINAL", "SUPPRESSED"}
    BY DEF terminal_state, DeliveryState
  <1>2. Sound(f) => terminal_state(f) = DeliveryState(f.cand)
    BY DEF Sound, terminal_state, DeliveryState
  <1> DEFINE st == terminal_state(f)
             rev == f.rev + 1
             g == [f EXCEPT !.state = st, !.enr = "TIMEOUT", !.rev = rev]
  <1>3. finalize_timeout(f) = g
    BY DEF finalize_timeout
  <1>4. rev \in Nat \ {0} /\ rev = f.rev + 1
    BY DEF Findings
  <1>5. st \in {"FINAL", "SUPPRESSED"} /\ (Sound(f) => st = DeliveryState(f.cand))
    BY <1>1, <1>2
  <1> HIDE DEF st, rev
  <1>6. g \in Findings
    BY <1>4, <1>5 DEF Findings, Terminal
  <1>7. g.cand = f.cand /\ g.rev = rev /\ g.enr = "TIMEOUT" /\ g.state = st
    BY <1>4, <1>5 DEF Findings
  <1> QED
    BY <1>3, <1>4, <1>5, <1>6, <1>7

-----------------------------------------------------------------------------
(* The cache of finalized findings.                                        *)

\* Taking an element out of a sequence leaves a sequence over the same set.
LEMMA WithoutType ==
    ASSUME NEW S, NEW s \in Seq(S), NEW i \in 1..Len(s)
    PROVE  Without(s, i) \in Seq(S)
  <1>1. SubSeq(s, 1, i - 1) \in Seq(S)
    OBVIOUS
  <1>2. SubSeq(s, i + 1, Len(s)) \in Seq(S)
    OBVIOUS
  <1> QED
    BY <1>1, <1>2 DEF Without

\* _remember_finalized keeps the cache a sequence over the same set.
LEMMA RememberType ==
    ASSUME NEW S, finalized \in Seq(S), NEW done \in S, remember_finalized(done)
    PROVE  finalized' \in Seq(S)
  <1> DEFINE others == IF CachedAt(Key(done)) = {} THEN finalized
                       ELSE Without(finalized, CHOOSE i \in CachedAt(Key(done)) : TRUE)
             longer == Append(others, done)
  <1>1. others \in Seq(S)
    <2>1. CASE CachedAt(Key(done)) = {}
      BY <2>1
    <2>2. CASE CachedAt(Key(done)) # {}
      <3>1. (CHOOSE i \in CachedAt(Key(done)) : TRUE) \in 1..Len(finalized)
        BY <2>2 DEF CachedAt
      <3> QED
        BY <2>2, <3>1, WithoutType
    <2> QED
      BY <2>1, <2>2
  <1> HIDE DEF others
  <1>2. longer \in Seq(S) /\ longer # <<>>
    BY <1>1
  <1> HIDE DEF longer
  <1>3. Tail(longer) \in Seq(S)
    BY <1>2
  <1>4. finalized' = IF Len(longer) > MaxFinalized THEN Tail(longer) ELSE longer
    BY DEF remember_finalized, longer, others
  <1> QED
    BY <1>2, <1>3, <1>4

\* A sequence over a set is a sequence over every larger set.
LEMMA SeqMonotone ==
    ASSUME NEW S, NEW T, S \subseteq T, NEW s \in Seq(S)
    PROVE  s \in Seq(T)
  OBVIOUS

-----------------------------------------------------------------------------
(* Messages.                                                               *)

\* What a handler may rely on in the record it was given.
LEMMA MessageFacts ==
    ASSUME NEW m \in Messages
    PROVE  /\ m.type = "candidate" => m.cand \in Candidates
           /\ m.type \in {"result", "status"} =>
                m.origin \in Keys /\ m.tenant \in Tenants \cup {NoTenant}
  BY DEF Messages, CandidateMsgs, CandidateMsg, AnswerMsgs, AnswerMsg, Keys

-----------------------------------------------------------------------------
(* The inductive invariant.                                                *)

\* A finding that timed out: what the cache may hold.
TimedOut == {f \in Findings : /\ f.rev = 2 /\ f.enr = "TIMEOUT"
                              /\ f.state = DeliveryState(f.cand)
                              /\ ChEnabled => f \in rows}

\* The pending map holds first revisions that wait for their capture.
PendingWaits ==
    \A e \in pending : /\ e.finding.rev = 1 /\ e.finding.enr \in Unfinalized
                       /\ Sound(e.finding)

RowsSound == /\ \A r \in rows : Sound(r)
             /\ ChEnabled \/ rows = {}

IInv ==
    /\ TypeOK
    /\ PendingWaits
    /\ finalized \in Seq(TimedOut)
    /\ RowsSound
    /\ Rungs
    /\ SuppressionConsistent
    /\ ObligationsTracked

\* Inserting a row of another finding changes nothing about the current rows
\* of k.
LEMMA OtherKey ==
    ASSUME NEW f, NEW k \in Keys, persist(f), Key(f) # k
    PROVE  Obligated(k)' = Obligated(k)
  <1>1. MaxRows(k)' = MaxRows(k)
    BY DEF persist, MaxRows
  <1> QED
    BY <1>1 DEF Obligated

\* The revision a finalization emits, and what is true once it is persisted.
Finalizes(done) ==
    /\ done \in Findings
    /\ done.state = DeliveryState(done.cand)
    /\ \/ done.rev = 2 /\ done.enr \in Terminal
       \/ /\ done.rev = 3 /\ done.enr \in {"ENRICHED", "ENRICHMENT_FAILED"}
          /\ ChEnabled => \E s \in rows : s.cand = done.cand /\ s.rev = 2 /\ s.enr = "TIMEOUT"

\* Persisting and sending a terminal revision keeps the table and the outgoing
\* findings sound, and ends the obligation of its key and of no other.
LEMMA EmitFacts ==
    ASSUME IInv, NEW done, Finalizes(done), emit_finalized(done), finalTopic' = finalTopic
    PROVE  /\ rows' \subseteq Findings /\ outFinal' \subseteq Findings
           /\ rows \subseteq rows'
           /\ ChEnabled => done \in rows'
           /\ RowsSound' /\ Rungs' /\ SuppressionConsistent'
           /\ \A k \in Keys : Obligated(k)' => Obligated(k) /\ k # Key(done)
  <1> USE DEF emit_finalized, persist
  <1>1. rows' \subseteq Findings /\ outFinal' \subseteq Findings /\ rows \subseteq rows'
        /\ (ChEnabled => done \in rows')
    BY DEF IInv, TypeOK, Finalizes
  <1>2. RowsSound'
    BY DEF IInv, RowsSound, Finalizes, Sound
  <1>3. Rungs'
    <2> SUFFICES ASSUME NEW r \in rows'
                 PROVE  \/ r.rev = 1 /\ r.enr \in Unfinalized \cup {"NOT_REQUIRED"}
                        \/ r.rev = 2 /\ r.enr \in Terminal
                        \/ /\ r.rev = 3 /\ r.enr \in {"ENRICHED", "ENRICHMENT_FAILED"}
                           /\ \E s \in rows' : s.cand = r.cand /\ s.rev = 2 /\ s.enr = "TIMEOUT"
      BY DEF Rungs
    <2>1. CASE r \in rows
      BY <1>1, <2>1 DEF IInv, Rungs
    <2>2. CASE r \notin rows
      <3>1. r = done /\ ChEnabled
        BY <2>2
      <3> QED
        BY <1>1, <3>1 DEF Finalizes
    <2> QED
      BY <2>1, <2>2
  <1>4. SuppressionConsistent'
    BY DEF IInv, SuppressionConsistent, Finalizes
  <1>5. ASSUME NEW k \in Keys, Obligated(k)'
        PROVE  Obligated(k) /\ k # Key(done)
    <2>1. CASE Key(done) # k
      BY <1>5, <2>1, OtherKey
    <2>2. CASE Key(done) = k
      <3>1. ChEnabled
        BY <1>5 DEF IInv, RowsSound, Obligated, MaxRows
      <3>2. done \in rows' /\ done.rev \in Nat /\ done.rev >= 2
        BY <1>1, <3>1 DEF Finalizes
      <3>3. PICK r \in MaxRows(k)' : r.enr \in Unfinalized
        BY <1>5 DEF Obligated
      <3>4. r \in rows' /\ r.rev >= 2
        BY <1>1, <2>2, <3>2, <3>3 DEF MaxRows, Findings
      <3> QED
        BY <1>3, <3>3, <3>4 DEF Rungs, Unfinalized, Terminal
    <2> QED
      BY <2>1, <2>2
  <1> QED
    BY <1>1, <1>2, <1>3, <1>4, <1>5

\* The cache stays sound while rows are only added.
LEMMA CacheGrows ==
    ASSUME finalized \in Seq(TimedOut), rows \subseteq rows'
    PROVE  finalized \in Seq(TimedOut')
  <1>1. TimedOut \subseteq TimedOut'
    BY DEF TimedOut
  <1> QED
    BY <1>1, SeqMonotone

-----------------------------------------------------------------------------
(* Every step keeps the invariant.                                         *)

\* The invariant holds before the first poll.
LEMMA InitInv == Init => IInv
  <1> SUFFICES ASSUME Init PROVE IInv
    OBVIOUS
  <1>1. TypeOK
    <2>1. degraded \in BOOLEAN
      BY DEF Init
    <2>2. finalized \in Seq(Findings)
      BY DEF Init
    <2> QED
      BY <2>1, <2>2 DEF Init, TypeOK, Messages
  <1>2. finalized \in Seq(TimedOut)
    BY DEF Init
  <1> QED
    BY <1>1, <1>2 DEF Init, IInv, PendingWaits, RowsSound, Rungs,
                      SuppressionConsistent, ObligationsTracked, Obligated, MaxRows

\* A candidate adds a first revision, and an entry when it waits for packets.
LEMMA CandidateInv ==
    ASSUME IInv, NEW m \in inbox, HandleCandidate(m)
    PROVE  IInv'
  <1> DEFINE b == build_finding(m.cand)
             f == b.finding
             entry == [finding |-> f, due |-> FALSE, delivered |-> b.route = "final_and_capture"]
  <1>0. m \in Messages /\ m.cand \in Candidates
    BY MessageFacts DEF IInv, TypeOK, HandleCandidate
  <1>1. /\ f \in Findings /\ f.cand = m.cand /\ f.rev = 1
        /\ b.route \in {"final", "capture", "final_and_capture"}
        /\ b.route = "final" => f.enr = "NOT_REQUIRED" /\ f.state = DeliveryState(m.cand)
        /\ b.route = "capture" => f.enr = "REQUIRED" /\ f.state = "CAPTURE_REQUESTED"
        /\ b.route = "final_and_capture" =>
              f.enr = "PENDING" /\ f.state = "FINAL" /\ DeliveryState(m.cand) = "FINAL"
    BY <1>0, BuildFacts
  <1>2. /\ persist(f)
        /\ outFinal' = IF b.route \in {"final", "final_and_capture"}
                       THEN outFinal \cup {f} ELSE outFinal
        /\ outCapture' = IF b.route \in {"capture", "final_and_capture"}
                         THEN outCapture \cup {Key(f)} ELSE outCapture
        /\ pending' = IF b.route \in {"capture", "final_and_capture"}
                      THEN (pending \ PendingAt(Key(f))) \cup {entry} ELSE pending
        /\ UNCHANGED <<finalized, finalTopic, captureTopic, phase, degraded, restarts, redelivered>>
        /\ inbox' = inbox \ {m} /\ uncommitted' = uncommitted \cup {m}
    BY DEF HandleCandidate, Consume, bus
  <1> DEFINE waits == b.route \in {"capture", "final_and_capture"}
  <1>3. entry \in Entries
    BY <1>1 DEF Entries
  <1>4. Key(f) \in Keys
    BY <1>0, <1>1, ServiceAssumption DEF Key, CandKey, Keys
  <1> HIDE DEF b, f, entry
  <1>5. rows' \subseteq Findings /\ rows \subseteq rows' /\ (rows' = rows \/ rows' = rows \cup {f})
    BY <1>1, <1>2 DEF persist, IInv, TypeOK
  <1>6. TypeOK'
    <2>1. outFinal' \subseteq Findings
      BY <1>1, <1>2 DEF IInv, TypeOK
    <2>2. outCapture' \subseteq Keys
      BY <1>2, <1>4 DEF IInv, TypeOK
    <2>3. pending' \subseteq Entries
      BY <1>2, <1>3 DEF IInv, TypeOK
    <2> QED
      BY <1>0, <1>2, <1>5, <2>1, <2>2, <2>3 DEF IInv, TypeOK
  <1>7. PendingWaits'
    <2>1. waits => f.enr \in Unfinalized /\ Sound(f)
      BY <1>1 DEF Unfinalized, Sound
    <2>2. entry.finding = f
      BY DEF entry
    <2> QED
      BY <1>1, <1>2, <2>1, <2>2 DEF IInv, PendingWaits
  <1>8. (finalized \in Seq(TimedOut))'
    BY <1>2, <1>5, CacheGrows DEF IInv
  <1>9. RowsSound'
    BY <1>1, <1>2 DEF IInv, RowsSound, persist, Sound
  <1>10. Rungs'
    <2>1. f.rev = 1 /\ f.enr \in Unfinalized \cup {"NOT_REQUIRED"}
      BY <1>1 DEF Unfinalized
    <2> QED
      BY <1>5, <2>1 DEF IInv, Rungs
  <1>11. SuppressionConsistent'
    BY <1>1, <1>2 DEF IInv, SuppressionConsistent
  <1>12. ObligationsTracked'
    <2> SUFFICES ASSUME NEW k \in Keys, Up, ~degraded, Obligated(k)'
                 PROVE  PendingAt(k)' # {}
      BY <1>2 DEF ObligationsTracked, Up
    <2>1. CASE Key(f) = k /\ waits
      <3>1. entry \in pending' /\ entry.finding = f
        BY <1>2, <2>1 DEF entry
      <3> QED
        BY <2>1, <3>1 DEF PendingAt
    <2>2. CASE Key(f) # k
      <3>1. Obligated(k)
        BY <1>2, <2>2, OtherKey
      <3>2. PICK e \in PendingAt(k) : TRUE
        BY <3>1 DEF IInv, ObligationsTracked
      <3>3. e \in pending'
        BY <1>2, <2>2, <3>2 DEF PendingAt
      <3> QED
        BY <3>2, <3>3 DEF PendingAt
    <2>3. CASE Key(f) = k /\ ~waits
      <3>1. f.enr = "NOT_REQUIRED" /\ f.rev = 1 /\ pending' = pending
        BY <1>1, <1>2, <2>3
      <3>2. ChEnabled
        BY <1>9, <1>5 DEF RowsSound, Obligated, MaxRows
      <3>3. f \in rows'
        BY <1>2, <3>2 DEF persist
      <3>4. PICK r \in MaxRows(k)' : r.enr \in Unfinalized
        BY DEF Obligated
      <3>5. r \in rows' /\ r.rev = 1
        BY <1>10, <3>4 DEF MaxRows, Rungs, Unfinalized, Terminal
      <3>6. f \in MaxRows(k)'
        BY <2>3, <3>1, <3>3, <3>4, <3>5 DEF MaxRows
      <3> QED
        BY <3>1, <3>6 DEF Obligated, Unfinalized
    <2> QED
      BY <2>1, <2>2, <2>3
  <1> QED
    BY <1>6, <1>7, <1>8, <1>9, <1>10, <1>11, <1>12 DEF IInv

\* Ending the wait of a pending entry with its terminal revision.
LEMMA FinalizeEntry ==
    ASSUME IInv, NEW e \in pending, NEW done,
           Finalizes(done), done.cand = e.finding.cand,
           pending' = pending \ {e}, emit_finalized(done),
           finalized' \in Seq(TimedOut'),
           inbox' \subseteq Messages, uncommitted' \subseteq Messages,
           UNCHANGED <<outCapture, finalTopic, captureTopic, phase, degraded, restarts, redelivered>>
    PROVE  IInv'
  <1>1. /\ rows' \subseteq Findings /\ outFinal' \subseteq Findings
        /\ rows \subseteq rows'
        /\ RowsSound' /\ Rungs' /\ SuppressionConsistent'
        /\ \A k \in Keys : Obligated(k)' => Obligated(k) /\ k # Key(done)
    BY EmitFacts
  <1>2. finalized' \in Seq(Findings)
    <2>1. TimedOut' \subseteq Findings
      BY DEF TimedOut
    <2> QED
      BY <2>1, SeqMonotone
  <1>3. TypeOK'
    BY <1>1, <1>2 DEF IInv, TypeOK
  <1>4. PendingWaits'
    BY DEF IInv, PendingWaits
  <1>5. ObligationsTracked'
    <2> SUFFICES ASSUME NEW k \in Keys, Up, ~degraded, Obligated(k)'
                 PROVE  PendingAt(k)' # {}
      BY DEF ObligationsTracked, Up
    <2>1. Obligated(k) /\ k # Key(done) /\ Key(done) = Key(e.finding)
      BY <1>1 DEF Key
    <2>2. PICK d \in PendingAt(k) : TRUE
      BY <2>1 DEF IInv, ObligationsTracked
    <2> QED
      BY <2>1, <2>2 DEF PendingAt
  <1> QED
    BY <1>1, <1>3, <1>4, <1>5 DEF IInv

\* The terminal revisions of a pending entry.
LEMMA EntryFinalizes ==
    ASSUME IInv, NEW e \in pending
    PROVE  /\ e.finding \in Findings
           /\ Finalizes(finalize_timeout(e.finding))
           /\ finalize_timeout(e.finding).cand = e.finding.cand
           /\ \A m \in ResultMsgs :
                 /\ Finalizes(apply_enrichment_result(e.finding, m))
                 /\ apply_enrichment_result(e.finding, m).cand = e.finding.cand
  <1>1. e.finding \in Findings /\ e.finding.rev = 1 /\ Sound(e.finding)
    BY DEF IInv, TypeOK, Entries, PendingWaits
  <1>2. /\ Finalizes(finalize_timeout(e.finding))
        /\ finalize_timeout(e.finding).cand = e.finding.cand
    BY <1>1, TimeoutFacts DEF Finalizes, Terminal
  <1>3. ASSUME NEW m \in ResultMsgs
        PROVE  /\ Finalizes(apply_enrichment_result(e.finding, m))
               /\ apply_enrichment_result(e.finding, m).cand = e.finding.cand
    <2>1. m.origin \in Keys
      BY <1>3, MessageFacts DEF ResultMsgs, Messages
    <2> QED
      BY <1>1, <2>1, ApplyFacts DEF Finalizes, Terminal
  <1> QED
    BY <1>1, <1>2, <1>3

\* A timed-out entry moves to the cache.
LEMMA TimeoutEntry ==
    ASSUME IInv, NEW e \in pending,
           pending' = pending \ {e},
           emit_finalized(finalize_timeout(e.finding)),
           remember_finalized(finalize_timeout(e.finding)),
           inbox' \subseteq Messages, uncommitted' \subseteq Messages,
           UNCHANGED <<outCapture, finalTopic, captureTopic, phase, degraded, restarts, redelivered>>
    PROVE  IInv'
  <1> DEFINE done == finalize_timeout(e.finding)
  <1>1. Finalizes(done) /\ done.cand = e.finding.cand
    BY EntryFinalizes
  <1>2. done.rev = 2 /\ done.enr = "TIMEOUT"
    BY TimeoutFacts, EntryFinalizes DEF IInv, PendingWaits
  <1>3. emit_finalized(done) /\ remember_finalized(done)
    OBVIOUS
  <1> HIDE DEF done
  <1>4. rows \subseteq rows' /\ (ChEnabled => done \in rows')
    BY <1>1, <1>3, EmitFacts
  <1>5. done \in TimedOut'
    BY <1>1, <1>2, <1>4 DEF TimedOut, Finalizes
  <1>6. finalized \in Seq(TimedOut')
    BY <1>4, CacheGrows DEF IInv
  <1>7. finalized' \in Seq(TimedOut')
    BY <1>3, <1>5, <1>6, RememberType
  <1> QED
    BY <1>1, <1>3, <1>7, FinalizeEntry

\* A step that leaves the table, the pending map and the memory of the process
\* alone keeps the invariant.
LEMMA QuietStep ==
    ASSUME IInv, UNCHANGED <<pending, finalized, rows, degraded, restarts, redelivered>>,
           inbox' \subseteq Messages, uncommitted' \subseteq Messages,
           outFinal' \cup finalTopic' \subseteq outFinal \cup finalTopic,
           outCapture' \cup captureTopic' \subseteq Keys,
           phase' \in {"handle", "sweep"}, Up
    PROVE  IInv'
  <1>1. TypeOK'
    BY DEF IInv, TypeOK
  <1>2. PendingWaits' /\ RowsSound' /\ Rungs' /\ SuppressionConsistent'
    BY DEF IInv, PendingWaits, RowsSound, Rungs, SuppressionConsistent
  <1>3. (finalized \in Seq(TimedOut))'
    BY CacheGrows DEF IInv
  <1>4. ObligationsTracked'
    BY DEF IInv, ObligationsTracked, Obligated, MaxRows, PendingAt
  <1> QED
    BY <1>1, <1>2, <1>3, <1>4 DEF IInv

\* A result finalizes its entry, re-opens a timed-out finding, or does nothing.
LEMMA ResultInv ==
    ASSUME IInv, NEW m \in inbox, HandleResult(m)
    PROVE  IInv'
  <1>0. /\ m \in ResultMsgs /\ m.origin \in Keys
        /\ inbox' \subseteq Messages /\ uncommitted' \subseteq Messages
        /\ UNCHANGED <<outCapture, finalTopic, captureTopic, phase, degraded, restarts, redelivered>>
        /\ phase = "handle"
    <2>1. m \in Messages /\ m.type = "result"
      BY DEF IInv, TypeOK, HandleResult
    <2>2. m \in ResultMsgs
      BY <2>1 DEF Messages, CandidateMsgs, CandidateMsg, ResultMsgs
    <2>3. m.origin \in Keys
      BY <2>1, MessageFacts
    <2> QED
      BY <2>1, <2>2, <2>3 DEF HandleResult, Consume, IInv, TypeOK, bus
  <1>1. CASE \E e \in pop_pending(m) :
               /\ pending' = pending \ {e}
               /\ emit_finalized(apply_enrichment_result(e.finding, m))
               /\ UNCHANGED finalized
    <2>1. PICK e \in pop_pending(m) :
               /\ pending' = pending \ {e}
               /\ emit_finalized(apply_enrichment_result(e.finding, m))
               /\ UNCHANGED finalized
      BY <1>1
    <2>2. e \in pending
      BY DEF pop_pending, PendingAt
    <2>3. /\ Finalizes(apply_enrichment_result(e.finding, m))
          /\ apply_enrichment_result(e.finding, m).cand = e.finding.cand
      BY <1>0, <2>2, EntryFinalizes
    <2>4. rows \subseteq rows'
      BY <1>0, <2>1, <2>3, EmitFacts
    <2>5. finalized' \in Seq(TimedOut')
      BY <2>1, <2>4, CacheGrows DEF IInv
    <2> QED
      BY <1>0, <2>1, <2>2, <2>3, <2>5, FinalizeEntry
  <1>2. ASSUME NEW i \in 1..Len(finalized), finalized' = Without(finalized, i),
               emit_finalized(apply_enrichment_result(finalized[i], m)), UNCHANGED pending
        PROVE  IInv'
    <2> DEFINE f == finalized[i]
               done == apply_enrichment_result(f, m)
    <2>1. f \in TimedOut
      BY <1>2 DEF IInv
    <2>2. f \in Findings /\ f.rev = 2 /\ Sound(f) /\ (ChEnabled => f \in rows) /\ f.enr = "TIMEOUT"
      BY <2>1 DEF TimedOut, Sound
    <2>3. Finalizes(done)
      BY <1>0, <2>2, ApplyFacts DEF Finalizes
    <2>4. /\ rows' \subseteq Findings /\ outFinal' \subseteq Findings
          /\ rows \subseteq rows'
          /\ RowsSound' /\ Rungs' /\ SuppressionConsistent'
          /\ \A k \in Keys : Obligated(k)' => Obligated(k) /\ k # Key(done)
      BY <1>0, <1>2, <2>3, EmitFacts
    <2>5. finalized' \in Seq(TimedOut')
      <3>1. finalized \in Seq(TimedOut')
        BY <2>4, CacheGrows DEF IInv
      <3> QED
        BY <1>2, <3>1, WithoutType
    <2>6. finalized' \in Seq(Findings)
      BY <1>2, WithoutType DEF IInv, TypeOK
    <2>7. TypeOK'
      BY <1>0, <1>2, <2>4, <2>6 DEF IInv, TypeOK
    <2>8. PendingWaits' /\ ObligationsTracked'
      BY <1>0, <1>2, <2>4 DEF IInv, PendingWaits, ObligationsTracked, Up, PendingAt
    <2> QED
      BY <2>4, <2>5, <2>7, <2>8 DEF IInv
  <1>3. CASE UNCHANGED <<pending, finalized, rows, outFinal>>
    BY <1>0, <1>3, QuietStep DEF IInv, TypeOK, Up
  <1> QED
    BY <1>1, <1>2, <1>3 DEF HandleResult, CachedAt

\* A status finalizes its entry or does nothing.
LEMMA StatusInv ==
    ASSUME IInv, NEW m \in inbox, HandleStatus(m)
    PROVE  IInv'
  <1>0. /\ inbox' \subseteq Messages /\ uncommitted' \subseteq Messages
        /\ UNCHANGED <<outCapture, finalTopic, captureTopic, phase, degraded, restarts, redelivered>>
        /\ phase = "handle"
    BY DEF HandleStatus, Consume, IInv, TypeOK, bus
  <1>1. ASSUME NEW e \in pop_pending(m), pending' = pending \ {e},
               emit_finalized(finalize_timeout(e.finding)),
               remember_finalized(finalize_timeout(e.finding))
        PROVE  IInv'
    <2>1. e \in pending
      BY DEF pop_pending, PendingAt
    <2> QED
      BY <1>0, <1>1, <2>1, TimeoutEntry
  <1>2. CASE UNCHANGED <<pending, finalized, rows, outFinal>>
    BY <1>0, <1>2, QuietStep DEF IInv, TypeOK, Up
  <1> QED
    BY <1>1, <1>2 DEF HandleStatus

\* Answers, the loop's own steps and the clock.
LEMMA LoopInv ==
    ASSUME IInv,
           \/ \E k \in Keys, a \in Answers : Answer(k, a)
           \/ \E k \in Keys : DeadlinePasses(k)
           \/ BeginSweep \/ SweepOne \/ Flush
    PROVE  IInv'
  <1>1. ASSUME NEW k \in Keys, NEW a \in Answers, Answer(k, a) PROVE IInv'
    <2>1. AnswerMsg(k, a) \in Messages
      BY DEF Messages, AnswerMsgs
    <2>2. inbox' \subseteq Messages
      BY <1>1, <2>1 DEF Answer, IInv, TypeOK
    <2>3. CASE Up
      BY <1>1, <2>2, <2>3, QuietStep DEF Answer, bus, IInv, TypeOK, Up
    <2>4. CASE ~Up
      <3>1. TypeOK' /\ PendingWaits' /\ RowsSound' /\ Rungs' /\ SuppressionConsistent'
        BY <1>1, <2>2 DEF Answer, bus, IInv, TypeOK, PendingWaits, RowsSound, Rungs,
                          SuppressionConsistent
      <3>2. (finalized \in Seq(TimedOut))'
        BY <1>1, CacheGrows DEF Answer, IInv
      <3>3. ObligationsTracked'
        BY <1>1, <2>4 DEF Answer, ObligationsTracked, Up
      <3> QED
        BY <3>1, <3>2, <3>3 DEF IInv
    <2> QED
      BY <2>3, <2>4
  <1>2. ASSUME NEW k \in Keys, DeadlinePasses(k) PROVE IInv'
    <2>1. PICK e \in PendingAt(k) : pending' = (pending \ {e}) \cup {[e EXCEPT !.due = TRUE]}
      BY <1>2 DEF DeadlinePasses
    <2> DEFINE d == [e EXCEPT !.due = TRUE]
    <2>2. e \in pending /\ e \in Entries
      BY DEF PendingAt, IInv, TypeOK
    <2>3. d \in Entries /\ d.finding = e.finding
      BY <2>2 DEF Entries
    <2>4. /\ UNCHANGED <<inbox, uncommitted, finalized, rows, outFinal, outCapture,
                         finalTopic, captureTopic, phase, degraded, restarts, redelivered>>
          /\ Up
      BY <1>2 DEF DeadlinePasses, bus
    <2> HIDE DEF d
    <2>5. TypeOK'
      BY <2>1, <2>3, <2>4 DEF IInv, TypeOK, d
    <2>6. PendingWaits'
      BY <2>1, <2>2, <2>3 DEF IInv, PendingWaits, d
    <2>7. RowsSound' /\ Rungs' /\ SuppressionConsistent'
      BY <2>4 DEF IInv, RowsSound, Rungs, SuppressionConsistent
    <2>8. (finalized \in Seq(TimedOut))'
      BY <2>4, CacheGrows DEF IInv
    <2>9. ObligationsTracked'
      <3> SUFFICES ASSUME NEW j \in Keys, Up, ~degraded, Obligated(j)
                   PROVE  PendingAt(j)' # {}
        BY <2>4 DEF ObligationsTracked, Up, Obligated, MaxRows
      <3>1. PICK c \in PendingAt(j) : TRUE
        BY DEF IInv, ObligationsTracked
      <3>2. CASE c = e
        BY <2>1, <2>3, <3>1, <3>2 DEF PendingAt, d
      <3>3. CASE c # e
        BY <2>1, <3>1, <3>3 DEF PendingAt
      <3> QED
        BY <3>2, <3>3
    <2> QED
      BY <2>5, <2>6, <2>7, <2>8, <2>9 DEF IInv
  <1>3. CASE BeginSweep
    BY <1>3, QuietStep DEF BeginSweep, bus, IInv, TypeOK, Up
  <1>4. CASE SweepOne
    <2>1. PICK e \in Due : /\ pending' = pending \ {e}
                           /\ emit_finalized(finalize_timeout(e.finding))
                           /\ remember_finalized(finalize_timeout(e.finding))
      BY <1>4 DEF SweepOne
    <2>2. e \in pending
      BY DEF Due
    <2> QED
      BY <1>4, <2>1, <2>2, TimeoutEntry DEF SweepOne, bus, IInv, TypeOK
  <1>5. CASE Flush
    BY <1>5, QuietStep DEF Flush, IInv, TypeOK, Up
  <1> QED
    BY <1>1, <1>2, <1>3, <1>4, <1>5

\* A stop forgets the memory of the process; the table and what was flushed
\* remain.
LEMMA StopInv ==
    ASSUME IInv, Shutdown \/ Crash
    PROVE  IInv'
  <1>1. /\ phase' = "down" /\ restarts' = restarts + 1
        /\ pending' = {} /\ finalized' = <<>> /\ outFinal' = {} /\ outCapture' = {}
        /\ uncommitted' = {} /\ rows' = rows /\ degraded' = degraded
    BY DEF Shutdown, Crash, LoseMemory
  <1>2. /\ inbox' \subseteq inbox \cup uncommitted
        /\ finalTopic' \subseteq finalTopic \cup outFinal
        /\ captureTopic' \subseteq captureTopic \cup outCapture
    BY DEF Shutdown, Crash, bus
  <1>0. redelivered' \subseteq Candidates
    <2>1. \A m \in CandidateMsgs : m.cand \in Candidates
      BY DEF CandidateMsgs, CandidateMsg
    <2> QED
      BY <2>1 DEF Shutdown, Crash, bus, IInv, TypeOK
  <1>3. TypeOK'
    <2>1. finalized' \in Seq(Findings)
      BY <1>1
    <2> QED
      BY <1>0, <1>1, <1>2, <2>1 DEF IInv, TypeOK
  <1>4. PendingWaits' /\ RowsSound' /\ Rungs' /\ SuppressionConsistent'
    BY <1>1, <1>2 DEF IInv, PendingWaits, RowsSound, Rungs, SuppressionConsistent
  <1>5. (finalized \in Seq(TimedOut))'
    BY <1>1
  <1>6. ObligationsTracked'
    BY <1>1 DEF ObligationsTracked, Up
  <1> QED
    BY <1>3, <1>4, <1>5, <1>6 DEF IInv

\* The entries recovered from rows of the current view wait for their capture.
LEMMA RecoveredFacts ==
    ASSUME IInv, NEW view \in SUBSET rows, pending' = pending_from_rows(view), rows' = rows
    PROVE  pending' \subseteq Entries /\ PendingWaits'
  <1> SUFFICES ASSUME NEW e \in pending'
               PROVE  /\ e \in Entries /\ e.finding.rev = 1
                      /\ e.finding.enr \in Unfinalized /\ Sound(e.finding)
    BY DEF PendingWaits
  <1>1. PICK r \in view : /\ r.enr \in Unfinalized
                          /\ e = [finding |-> r, delivered |-> r.state = "FINAL", due |-> TRUE]
    BY DEF pending_from_rows
  <1>2. r \in Findings /\ Sound(r)
    BY DEF IInv, TypeOK, RowsSound
  <1>3. r.rev = 1
    BY <1>1 DEF IInv, Rungs, Unfinalized, Terminal
  <1> QED
    BY <1>1, <1>2, <1>3 DEF Entries

\* A complete recovery finds an entry for every outstanding capture.
LEMMA StartInv ==
    ASSUME IInv, Start \/ StartDegraded
    PROVE  IInv'
  <1>1. PICK view \in SUBSET rows :
            /\ pending' = pending_from_rows(view)
            /\ ~degraded' => view \in CurrentViews
    <2>1. CASE Start
      BY <2>1 DEF Start, CurrentViews
    <2>2. CASE StartDegraded
      <3>1. PICK whole \in CurrentViews :
               \E part \in SUBSET whole : pending' = pending_from_rows(part)
        BY <2>2 DEF StartDegraded
      <3>2. degraded' /\ whole \subseteq rows
        BY <2>2, <3>1 DEF StartDegraded, CurrentViews
      <3> QED
        BY <3>1, <3>2
    <2> QED
      BY <2>1, <2>2
  <1>2. /\ UNCHANGED <<inbox, uncommitted, finalized, rows, outFinal, outCapture,
                        finalTopic, captureTopic, restarts, redelivered>>
        /\ phase' = "handle" /\ degraded' \in BOOLEAN
    BY DEF Start, StartDegraded, bus
  <1>3. pending' \subseteq Entries /\ PendingWaits'
    BY <1>1, <1>2, RecoveredFacts
  <1>4. TypeOK'
    BY <1>2, <1>3 DEF IInv, TypeOK
  <1>5. RowsSound' /\ Rungs' /\ SuppressionConsistent'
    BY <1>2 DEF IInv, RowsSound, Rungs, SuppressionConsistent
  <1>6. (finalized \in Seq(TimedOut))'
    BY <1>2, CacheGrows DEF IInv
  <1>7. ObligationsTracked'
    <2> SUFFICES ASSUME NEW k \in Keys, ~degraded', Obligated(k)
                 PROVE  PendingAt(k)' # {}
      BY <1>2 DEF ObligationsTracked, Obligated, MaxRows
    <2>1. PICK r \in MaxRows(k) : TRUE
      BY DEF Obligated
    <2>2. PICK s \in view : Key(s) = k
      BY <1>1, <2>1 DEF CurrentViews, MaxRows
    <2>3. s.enr \in Unfinalized
      BY <1>1, <2>2 DEF CurrentViews, Obligated
    <2> DEFINE e == [finding |-> s, delivered |-> s.state = "FINAL", due |-> TRUE]
    <2>4. e \in pending'
      BY <1>1, <2>2, <2>3 DEF pending_from_rows
    <2>5. e.finding = s
      OBVIOUS
    <2> QED
      BY <2>2, <2>4, <2>5 DEF PendingAt
  <1> QED
    BY <1>3, <1>4, <1>5, <1>6, <1>7 DEF IInv

\* Every step of the service keeps the invariant.
LEMMA NextInv == IInv /\ [Next]_vars => IInv'
  <1> SUFFICES ASSUME IInv, [Next]_vars PROVE IInv'
    OBVIOUS
  <1>1. ASSUME NEW m \in inbox, Handle(m) PROVE IInv'
    BY <1>1, CandidateInv, ResultInv, StatusInv DEF Handle
  <1>2. CASE \/ \E k \in Keys, a \in Answers : Answer(k, a)
             \/ \E k \in Keys : DeadlinePasses(k)
             \/ BeginSweep \/ SweepOne \/ Flush
    BY <1>2, LoopInv
  <1>3. CASE Shutdown \/ Crash
    BY <1>3, StopInv
  <1>4. CASE Start \/ StartDegraded
    BY <1>4, StartInv
  <1>5. CASE UNCHANGED vars
    <2>1. TypeOK' /\ PendingWaits' /\ RowsSound' /\ Rungs' /\ SuppressionConsistent'
      BY <1>5 DEF vars, IInv, TypeOK, PendingWaits, RowsSound, Rungs,
                  SuppressionConsistent
    <2>2. (finalized \in Seq(TimedOut))'
      BY <1>5, CacheGrows DEF vars, IInv
    <2>3. ObligationsTracked'
      BY <1>5 DEF vars, IInv, ObligationsTracked, Up, Obligated, MaxRows, PendingAt
    <2> QED
      BY <2>1, <2>2, <2>3 DEF IInv
  <1> QED
    BY <1>1, <1>2, <1>3, <1>4, <1>5 DEF Next

-----------------------------------------------------------------------------
(* The theorems.                                                           *)

\* The inductive invariant holds in every reachable state of the service.
THEOREM Invariance == Spec => []IInv
  BY InitInv, NextInv, PTL DEF Spec

\* Every variable of the finding service keeps its type.
THEOREM TypeCorrect == Spec => []TypeOK
  <1>1. IInv => TypeOK
    BY DEF IInv
  <1> QED
    BY <1>1, Invariance, PTL

\* F14, for any number of tenants, candidates, crashes and duplicate answers:
\* a finding ClickHouse shows as waiting for its capture is in the pending map
\* of a process that recovered completely.
THEOREM ObligationsNeverLost == Spec => []ObligationsTracked
  <1>1. IInv => ObligationsTracked
    BY DEF IInv
  <1> QED
    BY <1>1, Invariance, PTL

-----------------------------------------------------------------------------
(* One content per revision.  The history that keeps it: a candidate that  *)
(* no crash brought back is built once, waits in at most one entry, and    *)
(* has only its first revision in the table while it waits.                *)

\* What the table holds of a finding whose candidate was handled once.
Known(c) == {r \in rows : r.cand = c /\ c \notin redelivered}

OneContent == \A r, s \in rows : r.cand = s.cand /\ r.rev = s.rev /\ r.cand \notin redelivered => r = s
WaitsAtFirst == \A e \in pending : \A r \in Known(e.finding.cand) : r.rev = 1
UnreadIsNew ==
    \A c \in Candidates : CandidateMsg(c) \in inbox /\ c \notin redelivered =>
        Known(c) = {} /\ \A e \in pending : e.finding.cand # c
NotReopened == \A i \in 1..Len(finalized) : \A r \in Known(finalized[i].cand) : r.rev # 3
OneEntry == \A e, d \in pending : Key(e.finding) = Key(d.finding) => e = d
CachedOnce == \A i, j \in 1..Len(finalized) : Key(finalized[i]) = Key(finalized[j]) => i = j

SingleInv ==
    /\ OneContent
    /\ WaitsAtFirst
    /\ UnreadIsNew
    /\ NotReopened
    /\ OneEntry
    /\ CachedOnce

\* Taking out position i keeps the other elements, in their order.
LEMMA WithoutFacts ==
    ASSUME NEW S, NEW s \in Seq(S), NEW i \in 1..Len(s)
    PROVE  /\ Len(Without(s, i)) = Len(s) - 1
           /\ \A j \in 1..(Len(s) - 1) :
                 Without(s, i)[j] = IF j < i THEN s[j] ELSE s[j + 1]
  <1> DEFINE a == SubSeq(s, 1, i - 1)
             b == SubSeq(s, i + 1, Len(s))
  <1>1. a \in Seq(S) /\ Len(a) = i - 1 /\ \A j \in 1..(i - 1) : a[j] = s[j]
    OBVIOUS
  <1>2. b \in Seq(S) /\ Len(b) = Len(s) - i /\ \A j \in 1..(Len(s) - i) : b[j] = s[j + i]
    OBVIOUS
  <1>3. Without(s, i) = a \o b
    BY DEF Without
  <1> HIDE DEF a, b
  <1>4. Len(a \o b) = Len(s) - 1
    BY <1>1, <1>2
  <1>5. ASSUME NEW j \in 1..(Len(s) - 1)
        PROVE  (a \o b)[j] = IF j < i THEN s[j] ELSE s[j + 1]
    <2>1. CASE j < i
      BY <1>1, <1>2, <2>1
    <2>2. CASE ~(j < i)
      <3>1. (a \o b)[j] = b[j - (i - 1)] /\ j - (i - 1) \in 1..(Len(s) - i)
        BY <1>1, <1>2, <2>2
      <3>2. b[j - (i - 1)] = s[(j - (i - 1)) + i]
        BY <1>2, <3>1
      <3> QED
        BY <2>2, <3>1, <3>2
    <2> QED
      BY <2>1, <2>2
  <1> QED
    BY <1>3, <1>4, <1>5

\* A sequence of findings with no key twice.
Distinct(s) == \A i, j \in 1..Len(s) : Key(s[i]) = Key(s[j]) => i = j

\* Taking out an element leaves distinct keys, none of them its own.
LEMMA WithoutDistinct ==
    ASSUME NEW s \in Seq(Findings), NEW i \in 1..Len(s), Distinct(s)
    PROVE  /\ Without(s, i) \in Seq(Findings)
           /\ Distinct(Without(s, i))
           /\ \A j \in 1..Len(Without(s, i)) :
                 /\ \E k \in 1..Len(s) : Without(s, i)[j] = s[k]
                 /\ Key(Without(s, i)[j]) # Key(s[i])
  <1> DEFINE w == Without(s, i)
  <1>1. w \in Seq(Findings)
    BY WithoutType
  <1>2. /\ Len(w) = Len(s) - 1
        /\ \A j \in 1..(Len(s) - 1) : w[j] = IF j < i THEN s[j] ELSE s[j + 1]
    BY WithoutFacts
  <1> HIDE DEF w
  <1>3. ASSUME NEW j \in 1..Len(w)
        PROVE  \E k \in 1..Len(s) : w[j] = s[k] /\ k # i /\ k = IF j < i THEN j ELSE j + 1
    BY <1>2
  <1>4. \A j \in 1..Len(w) : Key(w[j]) # Key(s[i])
    BY <1>3 DEF Distinct
  <1>5. Distinct(w)
    <2> SUFFICES ASSUME NEW j \in 1..Len(w), NEW l \in 1..Len(w), Key(w[j]) = Key(w[l])
                 PROVE  j = l
      BY DEF Distinct
    <2>1. PICK k \in 1..Len(s) : w[j] = s[k] /\ k = IF j < i THEN j ELSE j + 1
      BY <1>3
    <2>2. PICK n \in 1..Len(s) : w[l] = s[n] /\ n = IF l < i THEN l ELSE l + 1
      BY <1>3
    <2>3. k = n
      BY <2>1, <2>2 DEF Distinct
    <2> QED
      BY <2>1, <2>2, <2>3
  <1> QED
    BY <1>1, <1>3, <1>4, <1>5 DEF w

\* Remembering a finding keeps the keys distinct and adds nothing but it.
LEMMA RememberFacts ==
    ASSUME finalized \in Seq(Findings), NEW done \in Findings, remember_finalized(done), CachedOnce
    PROVE  /\ CachedOnce'
           /\ \A i \in 1..Len(finalized') :
                 finalized'[i] = done \/ \E j \in 1..Len(finalized) : finalized'[i] = finalized[j]
  <1> DEFINE others == IF CachedAt(Key(done)) = {} THEN finalized
                       ELSE Without(finalized, CHOOSE i \in CachedAt(Key(done)) : TRUE)
             longer == Append(others, done)
  <1>0. Distinct(finalized)
    BY DEF Distinct, CachedOnce
  <1>1. /\ others \in Seq(Findings) /\ Distinct(others)
        /\ \A j \in 1..Len(others) : /\ \E k \in 1..Len(finalized) : others[j] = finalized[k]
                                     /\ Key(others[j]) # Key(done)
    <2>1. CASE CachedAt(Key(done)) = {}
      BY <1>0, <2>1 DEF CachedAt
    <2>2. CASE CachedAt(Key(done)) # {}
      <3> DEFINE p == CHOOSE i \in CachedAt(Key(done)) : TRUE
      <3>1. p \in 1..Len(finalized) /\ Key(finalized[p]) = Key(done)
        BY <2>2 DEF CachedAt
      <3>2. others = Without(finalized, p)
        BY <2>2
      <3> HIDE DEF p, others
      <3> QED
        BY <1>0, <3>1, <3>2, WithoutDistinct
    <2> QED
      BY <2>1, <2>2
  <1>2. finalized' = IF Len(longer) > MaxFinalized THEN Tail(longer) ELSE longer
    BY DEF remember_finalized
  <1> HIDE DEF others
  <1>3. /\ longer \in Seq(Findings) /\ Len(longer) = Len(others) + 1
        /\ longer[Len(others) + 1] = done
        /\ \A j \in 1..Len(others) : longer[j] = others[j]
    BY <1>1
  <1> HIDE DEF longer
  <1>4. Distinct(longer)
    <2> DEFINE n == Len(others)
    <2>1. n \in Nat /\ 1..Len(longer) = (1..n) \cup {n + 1}
      BY <1>1, <1>3
    <2> SUFFICES ASSUME NEW i \in (1..n) \cup {n + 1}, NEW j \in (1..n) \cup {n + 1},
                        Key(longer[i]) = Key(longer[j])
                 PROVE  i = j
      BY <2>1 DEF Distinct
    <2>2. CASE i \in 1..n /\ j \in 1..n
      BY <1>1, <1>3, <2>2 DEF Distinct
    <2>3. CASE i = n + 1 /\ j \in 1..n
      BY <1>1, <1>3, <2>3
    <2>4. CASE i \in 1..n /\ j = n + 1
      BY <1>1, <1>3, <2>4
    <2> QED
      BY <2>2, <2>3, <2>4
  <1>5. \A j \in 1..Len(longer) :
            longer[j] = done \/ \E k \in 1..Len(finalized) : longer[j] = finalized[k]
    BY <1>1, <1>3
  <1>6. /\ Len(Tail(longer)) = Len(longer) - 1
        /\ \A j \in 1..(Len(longer) - 1) : Tail(longer)[j] = longer[j + 1]
    BY <1>1, <1>3
  <1>7. Distinct(Tail(longer))
    BY <1>3, <1>4, <1>6 DEF Distinct
  <1>8. Distinct(finalized')
    BY <1>2, <1>4, <1>7
  <1>9. \A i \in 1..Len(finalized') : \E j \in 1..Len(longer) : finalized'[i] = longer[j]
    BY <1>2, <1>3, <1>6
  <1> QED
    BY <1>5, <1>8, <1>9 DEF Distinct, CachedOnce

\* A terminal revision of an entry: the table gets its second rung, once.
LEMMA FinalizeSingle ==
    ASSUME IInv, SingleInv, NEW e \in pending, NEW done \in Findings,
           done.cand = e.finding.cand, done.rev = 2,
           pending' = pending \ {e}, persist(done),
           inbox' \subseteq inbox, redelivered' = redelivered,
           CachedOnce',
           \A i \in 1..Len(finalized') :
               finalized'[i] = done \/ \E j \in 1..Len(finalized) : finalized'[i] = finalized[j]
    PROVE  SingleInv'
  <1>1. /\ rows' \subseteq rows \cup {done}
        /\ \A r \in Known(done.cand) : r.rev = 1
    BY DEF persist, SingleInv, WaitsAtFirst
  <1>2. OneContent'
    BY <1>1 DEF SingleInv, OneContent, Known
  <1>3. WaitsAtFirst'
    <2> SUFFICES ASSUME NEW d \in pending', NEW r \in Known(d.finding.cand)' PROVE r.rev = 1
      BY DEF WaitsAtFirst
    <2>1. d \in pending /\ d # e
      OBVIOUS
    <2>2. d.finding.cand # done.cand
      BY <2>1 DEF SingleInv, OneEntry, Key
    <2>3. r \in Known(d.finding.cand)
      BY <1>1, <2>2 DEF Known
    <2> QED
      BY <2>1, <2>3 DEF SingleInv, WaitsAtFirst
  <1>4. UnreadIsNew'
    <2> SUFFICES ASSUME NEW c \in Candidates, CandidateMsg(c) \in inbox, c \notin redelivered
                 PROVE  Known(c)' = {} /\ \A d \in pending' : d.finding.cand # c
      BY DEF UnreadIsNew
    <2>1. Known(c) = {} /\ \A d \in pending : d.finding.cand # c
      BY DEF SingleInv, UnreadIsNew
    <2> QED
      BY <1>1, <2>1 DEF Known
  <1>5. NotReopened'
    <2> SUFFICES ASSUME NEW i \in 1..Len(finalized'), NEW r \in rows',
                        r.cand = finalized'[i].cand, r.cand \notin redelivered
                 PROVE  r.rev # 3
      BY DEF NotReopened, Known
    <2>1. CASE r = done
      BY <2>1
    <2>2. CASE r # done /\ finalized'[i] = done
      BY <1>1, <2>2 DEF Known
    <2>3. CASE r # done /\ finalized'[i] # done
      <3>1. PICK j \in 1..Len(finalized) : finalized'[i] = finalized[j]
        BY <2>3
      <3>2. r \in Known(finalized[j].cand)
        BY <1>1, <2>3, <3>1 DEF Known
      <3> QED
        BY <3>1, <3>2 DEF SingleInv, NotReopened
    <2> QED
      BY <2>1, <2>2, <2>3
  <1>6. OneEntry'
    BY DEF SingleInv, OneEntry
  <1> QED
    BY <1>2, <1>3, <1>4, <1>5, <1>6 DEF SingleInv

\* A step that writes no row and makes no entry keeps one content per revision.
LEMMA QuietSingle ==
    ASSUME SingleInv, rows' = rows, finalized' = finalized, redelivered' = redelivered,
           \A e \in pending' : \E d \in pending : e.finding = d.finding,
           OneEntry',
           \A c \in Candidates : CandidateMsg(c) \in inbox' => CandidateMsg(c) \in inbox
    PROVE  SingleInv'
  <1>1. \A c : Known(c)' = Known(c)
    BY DEF Known
  <1>2. OneContent' /\ NotReopened' /\ CachedOnce'
    BY <1>1 DEF SingleInv, OneContent, NotReopened, CachedOnce
  <1>3. WaitsAtFirst'
    BY <1>1 DEF SingleInv, WaitsAtFirst
  <1>4. UnreadIsNew'
    BY <1>1 DEF SingleInv, UnreadIsNew
  <1> QED
    BY <1>2, <1>3, <1>4 DEF SingleInv

\* A candidate that was not there before is built once.
LEMMA CandidateSingle ==
    ASSUME IInv, SingleInv, NEW m \in inbox, HandleCandidate(m)
    PROVE  SingleInv'
  <1> DEFINE f == build_finding(m.cand).finding
  <1>1. m \in CandidateMsgs /\ m = CandidateMsg(m.cand) /\ m.cand \in Candidates
    BY DEF HandleCandidate, IInv, TypeOK, Messages, CandidateMsgs, CandidateMsg,
           AnswerMsgs, AnswerMsg
  <1>2. f \in Findings /\ f.cand = m.cand /\ f.rev = 1
    BY <1>1, BuildFacts
  <1>3. /\ rows' \subseteq rows \cup {f} /\ inbox' = inbox \ {m}
        /\ UNCHANGED <<finalized, redelivered>>
        /\ \/ pending' = pending
           \/ \E e : e.finding = f /\ pending' = (pending \ PendingAt(Key(f))) \cup {e}
    BY DEF HandleCandidate, Consume, persist
  <1> HIDE DEF f
  <1>4. m.cand \notin redelivered =>
            Known(m.cand) = {} /\ \A e \in pending : e.finding.cand # m.cand
    BY <1>1 DEF SingleInv, UnreadIsNew
  <1>5. \A c : Known(c)' \subseteq Known(c) \cup {f}
    BY <1>3 DEF Known
  <1>6. \A c : c # m.cand => Known(c)' \subseteq Known(c)
    BY <1>2, <1>3 DEF Known
  <1>7. \A e \in pending' : e.finding = f \/ e \in pending
    BY <1>3
  <1>8. OneContent'
    BY <1>2, <1>3, <1>4 DEF SingleInv, OneContent, Known
  <1>9. WaitsAtFirst'
    <2> SUFFICES ASSUME NEW e \in pending', NEW r \in Known(e.finding.cand)' PROVE r.rev = 1
      BY DEF WaitsAtFirst
    <2>1. CASE r = f
      BY <1>2, <2>1
    <2>2. CASE r # f
      <3>1. r \in Known(e.finding.cand)
        BY <1>5, <2>2
      <3>2. m.cand \notin redelivered => r.cand # m.cand
        BY <1>4, <3>1 DEF Known
      <3>3. r.cand = e.finding.cand /\ r.cand \notin redelivered
        BY <3>1 DEF Known
      <3>4. e.finding # f
        BY <1>2, <3>2, <3>3
      <3> QED
        BY <1>7, <3>1, <3>4 DEF SingleInv, WaitsAtFirst
    <2> QED
      BY <2>1, <2>2
  <1>10. UnreadIsNew'
    <2> SUFFICES ASSUME NEW c \in Candidates, CandidateMsg(c) \in inbox', c \notin redelivered
                 PROVE  Known(c)' = {} /\ \A e \in pending' : e.finding.cand # c
      BY <1>3 DEF UnreadIsNew
    <2>1. CandidateMsg(c) \in inbox /\ c # m.cand
      BY <1>1, <1>3
    <2>2. Known(c) = {} /\ \A e \in pending : e.finding.cand # c
      BY <2>1 DEF SingleInv, UnreadIsNew
    <2> QED
      BY <1>2, <1>6, <1>7, <2>1, <2>2
  <1>11. NotReopened'
    <2> SUFFICES ASSUME NEW i \in 1..Len(finalized), NEW r \in rows',
                        r.cand = finalized[i].cand, r.cand \notin redelivered
                 PROVE  r.rev # 3
      BY <1>3 DEF NotReopened, Known
    <2>1. r = f \/ r \in Known(finalized[i].cand)
      BY <1>3 DEF Known
    <2> QED
      BY <1>2, <2>1 DEF SingleInv, NotReopened
  <1>12. OneEntry'
    BY <1>3 DEF SingleInv, OneEntry, PendingAt
  <1>13. CachedOnce'
    BY <1>3 DEF SingleInv, CachedOnce
  <1> QED
    BY <1>8, <1>9, <1>10, <1>11, <1>12, <1>13 DEF SingleInv

\* Reading an answer brings no candidate into the inbox.
LEMMA AnswerIsNoCandidate ==
    ASSUME NEW k, NEW a, NEW c
    PROVE  AnswerMsg(k, a) # CandidateMsg(c)
  <1>1. AnswerMsg(k, a).type \in {"result", "status"}
    BY DEF AnswerMsg
  <1>2. CandidateMsg(c).type = "candidate"
    BY DEF CandidateMsg
  <1> QED
    BY <1>1, <1>2

\* An entry that times out, in a sweep or on a status.
LEMMA TimeoutSingle ==
    ASSUME IInv, SingleInv, NEW e \in pending, pending' = pending \ {e},
           emit_finalized(finalize_timeout(e.finding)),
           remember_finalized(finalize_timeout(e.finding)),
           inbox' \subseteq inbox, redelivered' = redelivered
    PROVE  SingleInv'
  <1> DEFINE done == finalize_timeout(e.finding)
  <1>1. e.finding \in Findings /\ e.finding.rev = 1
    BY DEF IInv, TypeOK, Entries, PendingWaits
  <1>2. done \in Findings /\ done.cand = e.finding.cand /\ done.rev = 2
    BY <1>1, TimeoutFacts
  <1>3. persist(done) /\ remember_finalized(done)
    BY DEF emit_finalized
  <1> HIDE DEF done
  <1>4. /\ CachedOnce'
        /\ \A i \in 1..Len(finalized') :
              finalized'[i] = done \/ \E j \in 1..Len(finalized) : finalized'[i] = finalized[j]
    BY <1>2, <1>3, RememberFacts DEF IInv, TypeOK, SingleInv
  <1> QED
    BY <1>2, <1>3, <1>4, FinalizeSingle

\* A result finalizes an entry, or re-opens a finding that leaves the cache.
LEMMA ResultSingle ==
    ASSUME IInv, SingleInv, NEW m \in inbox, HandleResult(m)
    PROVE  SingleInv'
  <1>0. /\ m \in Messages /\ m.origin \in Keys
        /\ inbox' \subseteq inbox /\ redelivered' = redelivered
    BY MessageFacts DEF IInv, TypeOK, HandleResult, Consume
  <1>1. ASSUME NEW e \in pop_pending(m), pending' = pending \ {e},
               emit_finalized(apply_enrichment_result(e.finding, m)), UNCHANGED finalized
        PROVE  SingleInv'
    <2> DEFINE done == apply_enrichment_result(e.finding, m)
    <2>1. e \in pending
      BY DEF pop_pending, PendingAt
    <2>2. e.finding \in Findings /\ e.finding.rev = 1
      BY <2>1 DEF IInv, TypeOK, Entries, PendingWaits
    <2>3. done \in Findings /\ done.cand = e.finding.cand /\ done.rev = 2 /\ persist(done)
      BY <1>0, <1>1, <2>2, ApplyFacts DEF emit_finalized
    <2>4. CachedOnce'
      BY <1>1 DEF SingleInv, CachedOnce
    <2> HIDE DEF done
    <2> QED
      BY <1>0, <1>1, <2>1, <2>3, <2>4, FinalizeSingle
  <1>2. ASSUME NEW i \in 1..Len(finalized), finalized' = Without(finalized, i),
               emit_finalized(apply_enrichment_result(finalized[i], m)), UNCHANGED pending
        PROVE  SingleInv'
    <2> DEFINE f == finalized[i]
               done == apply_enrichment_result(f, m)
    <2>1. f \in TimedOut
      BY <1>2 DEF IInv
    <2>2. f \in Findings /\ f.rev = 2 /\ (ChEnabled => f \in rows)
      BY <2>1 DEF TimedOut
    <2>3. done \in Findings /\ done.cand = f.cand /\ done.rev = 3 /\ persist(done)
      BY <1>0, <1>2, <2>2, ApplyFacts DEF emit_finalized
    <2>4. finalized \in Seq(Findings) /\ Distinct(finalized)
      BY DEF IInv, TypeOK, SingleInv, CachedOnce, Distinct
    <2>5. /\ Distinct(finalized')
          /\ \A j \in 1..Len(finalized') : /\ \E k \in 1..Len(finalized) : finalized'[j] = finalized[k]
                                           /\ Key(finalized'[j]) # Key(f)
      BY <1>2, <2>4, WithoutDistinct
    <2>6. \A r \in Known(f.cand) : r.rev # 3
      BY <1>2 DEF SingleInv, NotReopened
    <2> HIDE DEF f, done
    <2>7. /\ rows' \subseteq rows \cup {done} /\ (~ChEnabled => rows' = {})
          /\ \A c : c # f.cand => Known(c)' \subseteq Known(c)
      BY <1>0, <2>3 DEF persist, Known, IInv, RowsSound
    <2>8. OneContent'
      BY <2>3, <2>6, <2>7, <1>0 DEF SingleInv, OneContent, Known
    <2>9. WaitsAtFirst'
      <3> SUFFICES ASSUME NEW e \in pending, NEW r \in Known(e.finding.cand)' PROVE r.rev = 1
        BY <1>2 DEF WaitsAtFirst
      <3>1. ChEnabled /\ f \in rows
        BY <2>2, <2>7 DEF Known
      <3>2. e.finding.cand # f.cand
        <4> SUFFICES ASSUME e.finding.cand = f.cand PROVE FALSE
          OBVIOUS
        <4>1. f \in Known(e.finding.cand)
          BY <1>0, <3>1 DEF Known
        <4> QED
          BY <2>2, <4>1 DEF SingleInv, WaitsAtFirst
      <3> QED
        BY <2>7, <3>2 DEF SingleInv, WaitsAtFirst
    <2>10. UnreadIsNew'
      <3> SUFFICES ASSUME NEW c \in Candidates, CandidateMsg(c) \in inbox, c \notin redelivered
                   PROVE  Known(c)' = {} /\ \A e \in pending : e.finding.cand # c
        BY <1>0, <1>2 DEF UnreadIsNew
      <3>1. Known(c) = {} /\ \A e \in pending : e.finding.cand # c
        BY DEF SingleInv, UnreadIsNew
      <3>2. CASE c # f.cand
        BY <2>7, <3>1, <3>2
      <3>3. CASE c = f.cand
        BY <1>0, <2>2, <2>7, <3>1, <3>3 DEF Known
      <3> QED
        BY <3>1, <3>2, <3>3
    <2>11. NotReopened'
      <3> SUFFICES ASSUME NEW j \in 1..Len(finalized'), NEW r \in rows',
                          r.cand = finalized'[j].cand, r.cand \notin redelivered
                   PROVE  r.rev # 3
        BY <1>0 DEF NotReopened, Known
      <3>1. PICK k \in 1..Len(finalized) : finalized'[j] = finalized[k]
        BY <2>5
      <3>2. finalized'[j].cand # f.cand
        BY <2>5 DEF Key
      <3>3. r \in Known(finalized[k].cand)
        BY <2>3, <2>7, <3>1, <3>2 DEF Known
      <3> QED
        BY <3>1, <3>3 DEF SingleInv, NotReopened
    <2>12. OneEntry' /\ CachedOnce'
      BY <1>2, <2>5 DEF SingleInv, OneEntry, CachedOnce, Distinct
    <2> QED
      BY <2>8, <2>9, <2>10, <2>11, <2>12 DEF SingleInv
  <1>3. CASE UNCHANGED <<pending, finalized, rows>>
    BY <1>0, <1>3, QuietSingle DEF SingleInv, OneEntry
  <1> QED
    BY <1>1, <1>2, <1>3 DEF HandleResult, CachedAt

\* The other steps of a running process: statuses, sweeps, the clock and the bus.
LEMMA OtherSingle ==
    ASSUME IInv, SingleInv,
           \/ \E m \in inbox : HandleStatus(m)
           \/ \E k \in Keys, a \in Answers : Answer(k, a)
           \/ \E k \in Keys : DeadlinePasses(k)
           \/ BeginSweep \/ SweepOne \/ Flush
    PROVE  SingleInv'
  <1>1. ASSUME NEW m \in inbox, HandleStatus(m) PROVE SingleInv'
    <2>1. inbox' \subseteq inbox /\ redelivered' = redelivered
      BY <1>1 DEF HandleStatus, Consume
    <2>2. \A e \in pop_pending(m) : e \in pending
      BY DEF pop_pending, PendingAt
    <2>3. CASE UNCHANGED <<pending, finalized, rows>>
      BY <2>1, <2>3, QuietSingle DEF SingleInv, OneEntry
    <2> QED
      BY <1>1, <2>1, <2>2, <2>3, TimeoutSingle DEF HandleStatus
  <1>2. ASSUME NEW k \in Keys, NEW a \in Answers, Answer(k, a) PROVE SingleInv'
    BY <1>2, AnswerIsNoCandidate, QuietSingle DEF Answer, SingleInv, OneEntry
  <1>3. ASSUME NEW k \in Keys, DeadlinePasses(k) PROVE SingleInv'
    <2>1. PICK e \in PendingAt(k) : pending' = (pending \ {e}) \cup {[e EXCEPT !.due = TRUE]}
      BY <1>3 DEF DeadlinePasses
    <2>2. e \in pending /\ [e EXCEPT !.due = TRUE].finding = e.finding
      BY DEF PendingAt, IInv, TypeOK, Entries
    <2> DEFINE d == [e EXCEPT !.due = TRUE]
    <2> HIDE DEF d
    <2>3. OneEntry'
      BY <2>1, <2>2 DEF SingleInv, OneEntry, d
    <2>4. \A g \in pending' : \E h \in pending : g.finding = h.finding
      BY <2>1, <2>2
    <2> QED
      BY <1>3, <2>3, <2>4, QuietSingle DEF DeadlinePasses
  <1>4. CASE BeginSweep \/ Flush
    BY <1>4, QuietSingle DEF BeginSweep, Flush, SingleInv, OneEntry
  <1>5. CASE SweepOne
    <2>1. \A e \in Due : e \in pending
      BY DEF Due
    <2> QED
      BY <1>5, <2>1, TimeoutSingle DEF SweepOne
  <1> QED
    BY <1>1, <1>2, <1>3, <1>4, <1>5

\* A stop empties the memory; the candidates it brings back are no longer held to one content.
LEMMA StopSingle ==
    ASSUME IInv, SingleInv, Shutdown \/ Crash
    PROVE  SingleInv'
  <1>1. /\ pending' = {} /\ finalized' = <<>> /\ rows' = rows
        /\ redelivered \subseteq redelivered'
    BY DEF Shutdown, Crash, LoseMemory, bus
  <1>2. ASSUME NEW c \in Candidates, CandidateMsg(c) \in inbox', c \notin redelivered'
        PROVE  CandidateMsg(c) \in inbox
    <2>1. CandidateMsg(c).cand = c /\ CandidateMsg(c) \in CandidateMsgs
      BY DEF CandidateMsg, CandidateMsgs
    <2> QED
      BY <1>2, <2>1 DEF Shutdown, Crash, bus
  <1>3. \A c : Known(c)' \subseteq Known(c)
    BY <1>1 DEF Known
  <1>4. OneContent'
    BY <1>1 DEF SingleInv, OneContent
  <1>5. UnreadIsNew'
    BY <1>1, <1>2, <1>3 DEF SingleInv, UnreadIsNew
  <1>6. WaitsAtFirst' /\ NotReopened' /\ OneEntry' /\ CachedOnce'
    BY <1>1 DEF WaitsAtFirst, NotReopened, OneEntry, CachedOnce
  <1> QED
    BY <1>4, <1>5, <1>6 DEF SingleInv

\* A recovery makes one entry of a key whose rows are all first revisions.
LEMMA StartSingle ==
    ASSUME IInv, SingleInv, Start \/ StartDegraded
    PROVE  SingleInv'
  <1>1. PICK view \in SUBSET rows :
            /\ pending' = pending_from_rows(view)
            /\ \A r \in view : r \in MaxRows(Key(r))
            /\ \A r, s \in view : Key(r) = Key(s) => r = s
    <2>1. CASE Start
      BY <2>1 DEF Start, CurrentViews
    <2>2. CASE StartDegraded
      BY <2>2 DEF StartDegraded, CurrentViews
    <2> QED
      BY <2>1, <2>2
  <1>2. UNCHANGED <<inbox, finalized, rows, redelivered>>
    BY DEF Start, StartDegraded
  <1>3. \A c : Known(c)' = Known(c)
    BY <1>2 DEF Known
  <1>4. \A e \in pending' : /\ e.finding \in view /\ e.finding.enr \in Unfinalized
                            /\ e = [finding |-> e.finding, delivered |-> e.finding.state = "FINAL",
                                    due |-> TRUE]
    BY <1>1 DEF pending_from_rows
  <1>5. OneContent' /\ NotReopened' /\ CachedOnce'
    BY <1>2, <1>3 DEF SingleInv, OneContent, NotReopened, CachedOnce
  <1>6. WaitsAtFirst'
    <2> SUFFICES ASSUME NEW e \in pending', NEW r \in Known(e.finding.cand) PROVE r.rev = 1
      BY <1>3 DEF WaitsAtFirst
    <2>1. e.finding \in MaxRows(Key(e.finding)) /\ e.finding.rev = 1
      BY <1>1, <1>4 DEF MaxRows, IInv, Rungs, Unfinalized, Terminal
    <2>2. r \in rows /\ Key(r) = Key(e.finding) /\ r \in Findings
      BY DEF Known, Key, IInv, TypeOK
    <2>3. r.rev <= 1 /\ r.rev \in Nat \ {0}
      BY <2>1, <2>2 DEF MaxRows, Findings
    <2> QED
      BY <2>3
  <1>7. UnreadIsNew'
    <2> SUFFICES ASSUME NEW c \in Candidates, CandidateMsg(c) \in inbox, c \notin redelivered
                 PROVE  Known(c) = {} /\ \A e \in pending' : e.finding.cand # c
      BY <1>2, <1>3 DEF UnreadIsNew
    <2>1. Known(c) = {}
      BY DEF SingleInv, UnreadIsNew
    <2> QED
      BY <1>4, <2>1 DEF Known
  <1>8. OneEntry'
    <2> SUFFICES ASSUME NEW e \in pending', NEW d \in pending', Key(e.finding) = Key(d.finding)
                 PROVE  e = d
      BY DEF OneEntry
    <2>1. e.finding = d.finding
      BY <1>1, <1>4
    <2>2. /\ e = [finding |-> e.finding, delivered |-> e.finding.state = "FINAL", due |-> TRUE]
          /\ d = [finding |-> d.finding, delivered |-> d.finding.state = "FINAL", due |-> TRUE]
      BY <1>4
    <2> QED
      BY <2>1, <2>2, Zenon
  <1> QED
    BY <1>5, <1>6, <1>7, <1>8 DEF SingleInv

LEMMA SingleNext == IInv /\ SingleInv /\ [Next]_vars => SingleInv'
  <1> SUFFICES ASSUME IInv, SingleInv, [Next]_vars PROVE SingleInv'
    OBVIOUS
  <1>1. CASE UNCHANGED vars
    <2>1. OneEntry'
      BY <1>1 DEF vars, SingleInv, OneEntry
    <2>2. /\ rows' = rows /\ finalized' = finalized /\ redelivered' = redelivered
          /\ pending' = pending /\ inbox' = inbox
      BY <1>1 DEF vars
    <2> QED
      BY <2>1, <2>2, QuietSingle
  <1> QED
    BY <1>1, CandidateSingle, ResultSingle, OtherSingle, StopSingle, StartSingle DEF Next, Handle

\* R03, for any tenants, candidates, crashes, duplicate and late answers: the revisions of
\* a finding climb the lifecycle's three rungs, and each has one content, except for a
\* candidate that a crash made the service read twice.
THEOREM RevisionsClimb == Spec => []RevisionLadder
  <1>1. Init => SingleInv
    BY DEF Init, SingleInv, OneContent, WaitsAtFirst, UnreadIsNew, NotReopened, OneEntry,
           CachedOnce, Known
  <1>2. IInv /\ SingleInv => RevisionLadder
    BY DEF IInv, SingleInv, OneContent, RevisionLadder
  <1> QED
    BY <1>1, <1>2, InitInv, NextInv, SingleNext, PTL DEF Spec

\* R06: the suppression policy alone decides what is delivered.
THEOREM PolicyDecidesDelivery == Spec => []SuppressionConsistent
  <1>1. IInv => SuppressionConsistent
    BY DEF IInv
  <1> QED
    BY <1>1, Invariance, PTL

-----------------------------------------------------------------------------
(* Evidence stays with its tenant, when answers carry the tenant of their  *)
(* request.  (FindingCrossTenant shows what happens when they do not.)     *)

\* Findings with no evidence but their own.
Own == {f \in Findings : f.evid \subseteq {Key(f)}}

EvidenceInv ==
    /\ \A e \in pending : e.finding \in Own
    /\ finalized \in Seq(Own)
    /\ rows \subseteq Own /\ outFinal \subseteq Own /\ finalTopic \subseteq Own

LEMMA OwnFacts ==
    ASSUME NEW f \in Own
    PROVE  /\ finalize_timeout(f) \in Own
           /\ \A m : m.origin = Key(f) /\ m.origin \in Keys => apply_enrichment_result(f, m) \in Own
  <1>1. f \in Findings /\ f.evid \subseteq {Key(f)}
    BY DEF Own
  <1>2. /\ finalize_timeout(f) \in Findings /\ finalize_timeout(f).cand = f.cand
    BY <1>1, TimeoutFacts
  <1>3. finalize_timeout(f).evid = f.evid
    BY <1>1 DEF finalize_timeout, Findings
  <1>4. ASSUME NEW m, m.origin = Key(f), m.origin \in Keys
        PROVE  apply_enrichment_result(f, m) \in Own
    <2>1. /\ apply_enrichment_result(f, m) \in Findings /\ apply_enrichment_result(f, m).cand = f.cand
      BY <1>1, <1>4, ApplyFacts
    <2>2. apply_enrichment_result(f, m).evid = IF m.ok THEN f.evid \cup {m.origin} ELSE f.evid
      BY <1>1 DEF apply_enrichment_result, Findings
    <2> QED
      BY <1>1, <1>4, <2>1, <2>2 DEF Own, Key
  <1> QED
    BY <1>1, <1>2, <1>3, <1>4 DEF Own, Key

\* An answer that names its tenant belongs to the request of that key alone.
LEMMA AnswerFacts ==
    ASSUME EchoTenant, NEW m \in Messages, m.type \in {"result", "status"}
    PROVE  m.origin \in Keys /\ m.tenant # NoTenant /\ <<m.tenant, m.origin[2]>> = m.origin
  <1>1. PICK k \in Keys, a \in Answers : m = AnswerMsg(k, a)
    BY DEF Messages, CandidateMsgs, CandidateMsg, AnswerMsgs
  <1>2. m.origin = k /\ m.tenant = k[1]
    BY <1>1 DEF AnswerMsg
  <1>3. k = <<k[1], k[2]>> /\ k[1] # NoTenant
    BY ServiceAssumption DEF Keys, ServiceAssumption
  <1> QED
    BY <1>2, <1>3

LEMMA OwnEmitted ==
    ASSUME EvidenceInv, NEW done \in Own, emit_finalized(done)
    PROVE  rows' \subseteq Own /\ outFinal' \subseteq Own
  BY DEF EvidenceInv, emit_finalized, persist

LEMMA EvidenceNext ==
    ASSUME EchoTenant, IInv, EvidenceInv, [Next]_vars
    PROVE  EvidenceInv'
  <1>1. ASSUME NEW m \in inbox, HandleCandidate(m) PROVE EvidenceInv'
    <2> DEFINE f == build_finding(m.cand).finding
    <2>1. f \in Own
      <3>1. m \in Messages /\ m.type = "candidate"
        BY <1>1 DEF HandleCandidate, IInv, TypeOK
      <3>2. f \in Findings
        BY <3>1, MessageFacts, BuildFacts
      <3>3. f.evid = {}
        BY DEF build_finding, Revision
      <3> QED
        BY <3>2, <3>3 DEF Own
    <2>2. rows' \subseteq rows \cup {f} /\ outFinal' \subseteq outFinal \cup {f}
      BY <1>1 DEF HandleCandidate, persist
    <2>3. \A e \in pending' : e \in pending \/ e.finding = f
      BY <1>1 DEF HandleCandidate
    <2>4. UNCHANGED <<finalized, finalTopic>>
      BY <1>1 DEF HandleCandidate, bus
    <2> HIDE DEF f
    <2> QED
      BY <2>1, <2>2, <2>3, <2>4 DEF EvidenceInv
  <1>2. ASSUME NEW m \in inbox, HandleResult(m) PROVE EvidenceInv'
    <2>1. m \in Messages /\ m.type = "result"
      BY <1>2 DEF HandleResult, IInv, TypeOK
    <2>2. m.origin \in Keys /\ m.tenant # NoTenant /\ <<m.tenant, m.origin[2]>> = m.origin
      BY <2>1, AnswerFacts
    <2>3. finalTopic' = finalTopic
      BY <1>2 DEF HandleResult, bus
    <2>4. ASSUME NEW e \in pop_pending(m), pending' = pending \ {e},
                 emit_finalized(apply_enrichment_result(e.finding, m)), UNCHANGED finalized
          PROVE  EvidenceInv'
      <3>1. e \in pending /\ Key(e.finding) = m.origin
        BY <2>2 DEF pop_pending, PendingAt
      <3>2. apply_enrichment_result(e.finding, m) \in Own
        BY <2>2, <3>1, OwnFacts DEF EvidenceInv
      <3>3. rows' \subseteq Own /\ outFinal' \subseteq Own
        BY <2>4, <3>2, OwnEmitted
      <3> QED
        BY <2>3, <2>4, <3>3 DEF EvidenceInv
    <2>5. ASSUME NEW i \in CachedAt(m.origin), finalized' = Without(finalized, i), UNCHANGED pending,
                 emit_finalized(apply_enrichment_result(finalized[i], m))
          PROVE  EvidenceInv'
      <3>1. i \in 1..Len(finalized) /\ Key(finalized[i]) = m.origin /\ finalized[i] \in Own
        BY DEF CachedAt, EvidenceInv
      <3>2. apply_enrichment_result(finalized[i], m) \in Own
        BY <2>2, <3>1, OwnFacts
      <3>3. rows' \subseteq Own /\ outFinal' \subseteq Own
        BY <2>5, <3>2, OwnEmitted
      <3>4. finalized' \in Seq(Own)
        BY <2>5, <3>1, WithoutType DEF EvidenceInv
      <3> QED
        BY <2>3, <2>5, <3>3, <3>4 DEF EvidenceInv
    <2>6. ASSUME UNCHANGED <<pending, finalized, rows, outFinal>> PROVE EvidenceInv'
      BY <2>3, <2>6 DEF EvidenceInv
    <2>7. \/ \E e \in pop_pending(m) :
              /\ pending' = pending \ {e}
              /\ emit_finalized(apply_enrichment_result(e.finding, m))
              /\ UNCHANGED finalized
          \/ \E i \in CachedAt(m.origin) :
              /\ finalized' = Without(finalized, i) /\ UNCHANGED pending
              /\ emit_finalized(apply_enrichment_result(finalized[i], m))
          \/ UNCHANGED <<pending, finalized, rows, outFinal>>
      BY <1>2, <2>2 DEF HandleResult
    <2> QED
      BY <2>4, <2>5, <2>6, <2>7
  <1>3. ASSUME NEW e \in pending, pending' = pending \ {e}, finalTopic' = finalTopic,
               emit_finalized(finalize_timeout(e.finding)),
               remember_finalized(finalize_timeout(e.finding))
        PROVE  EvidenceInv'
    <2>1. finalize_timeout(e.finding) \in Own
      BY OwnFacts DEF EvidenceInv
    <2>2. rows' \subseteq Own /\ outFinal' \subseteq Own
      BY <1>3, <2>1, OwnEmitted
    <2>3. finalized' \in Seq(Own)
      BY <1>3, <2>1, RememberType DEF EvidenceInv
    <2> QED
      BY <1>3, <2>2, <2>3 DEF EvidenceInv
  <1>4. ASSUME NEW m \in inbox, HandleStatus(m) PROVE EvidenceInv'
    <2>1. finalTopic' = finalTopic
      BY <1>4 DEF HandleStatus, bus
    <2>2. \A e \in pop_pending(m) : e \in pending
      BY DEF pop_pending, PendingAt
    <2>3. \/ \E e \in pop_pending(m) :
              /\ pending' = pending \ {e}
              /\ emit_finalized(finalize_timeout(e.finding))
              /\ remember_finalized(finalize_timeout(e.finding))
          \/ UNCHANGED <<pending, finalized, rows, outFinal>>
      BY <1>4 DEF HandleStatus
    <2>4. CASE UNCHANGED <<pending, finalized, rows, outFinal>>
      BY <2>1, <2>4 DEF EvidenceInv
    <2> QED
      BY <1>3, <2>1, <2>2, <2>3, <2>4
  <1>5. CASE SweepOne
    BY <1>3, <1>5 DEF SweepOne, Due, bus
  <1>6. CASE \/ (\E k \in Keys, a \in Answers : Answer(k, a)) \/ BeginSweep \/ UNCHANGED vars
    BY <1>6 DEF Answer, BeginSweep, vars, bus, EvidenceInv
  <1>7. ASSUME NEW k \in Keys, DeadlinePasses(k) PROVE EvidenceInv'
    <2>1. PICK e \in PendingAt(k) : pending' = (pending \ {e}) \cup {[e EXCEPT !.due = TRUE]}
      BY <1>7 DEF DeadlinePasses
    <2>2. e \in pending /\ e \in Entries
      BY DEF PendingAt, IInv, TypeOK
    <2>3. [e EXCEPT !.due = TRUE].finding = e.finding
      BY <2>2 DEF Entries
    <2> QED
      BY <1>7, <2>1, <2>2, <2>3 DEF DeadlinePasses, bus, EvidenceInv
  <1>8. CASE Flush
    BY <1>8 DEF Flush, EvidenceInv
  <1>9. CASE Shutdown \/ Crash
    <2>1. /\ pending' = {} /\ finalized' = <<>> /\ outFinal' = {} /\ rows' = rows
          /\ finalTopic' \subseteq finalTopic \cup outFinal
      BY <1>9 DEF Shutdown, Crash, LoseMemory, bus
    <2> QED
      BY <2>1 DEF EvidenceInv
  <1>10. CASE Start \/ StartDegraded
    <2>1. PICK view \in SUBSET rows : pending' = pending_from_rows(view)
      <3>1. CASE Start
        BY <3>1 DEF Start, CurrentViews
      <3>2. CASE StartDegraded
        <4>1. PICK whole \in CurrentViews : \E part \in SUBSET whole : pending' = pending_from_rows(part)
          BY <3>2 DEF StartDegraded
        <4> QED
          BY <4>1 DEF CurrentViews
      <3> QED
        BY <1>10, <3>1, <3>2
    <2>2. \A e \in pending' : e.finding \in rows
      BY <2>1 DEF pending_from_rows
    <2> QED
      BY <1>10, <2>2 DEF Start, StartDegraded, bus, EvidenceInv
  <1> QED
    BY <1>1, <1>2, <1>4, <1>5, <1>6, <1>7, <1>8, <1>9, <1>10 DEF Next, Handle

\* A capture plane that echoes the tenant of its requests never gets the packets of one
\* tenant into a finding of another, whatever finding ids they share, however late or
\* often it answers and whatever restarts come between.
THEOREM EvidenceStaysWithTenant ==
    ASSUME EchoTenant
    PROVE  Spec => []EvidenceOwnTenant
  <1>1. Init => EvidenceInv
    BY DEF Init, EvidenceInv
  <1>2. IInv /\ EvidenceInv /\ [Next]_vars => EvidenceInv'
    BY EvidenceNext
  <1>3. EvidenceInv => EvidenceOwnTenant
    BY DEF EvidenceInv, EvidenceOwnTenant, Own
  <1> QED
    BY <1>1, <1>2, <1>3, Invariance, NextInv, InitInv, PTL DEF Spec
=============================================================================
