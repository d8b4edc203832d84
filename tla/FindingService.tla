--------------------------- MODULE FindingService ---------------------------
(***************************************************************************)
(* services/finding-service/app.py: the consumer that turns candidates     *)
(* into findings, tracks the ones that wait for a packet capture, and      *)
(* finalizes them on an enrichment result, a capture status, a timeout or  *)
(* a restart.                                                              *)
(*                                                                         *)
(* One iteration of main()'s loop is: handle polled records ("handle"),    *)
(* sweep the due entries ("sweep"), flush the producer.  The consumer      *)
(* auto-commits on a later poll, so records handled since the last commit  *)
(* are delivered again after a crash.  ClickHouse keeps every inserted     *)
(* row until a background merge; a query may return any row of the highest *)
(* revision.                                                               *)
(***************************************************************************)
EXTENDS FindingPolicy, FiniteSets, Sequences

CONSTANTS
    Tenants, Fids,
    DefaultTenant,     \* the tenant _pk uses for a message without one
    NoTenant,          \* tenant_id absent from a message
    Candidates,        \* the candidates on ndr.finding.candidate.v1
    ChEnabled,         \* CLICKHOUSE_PASSWORD is set
    EchoTenant,        \* results and statuses carry the tenant of their request
    Answers,           \* what the capture plane may answer to a request
    MaxAnswers,        \* bound: answers neither read nor committed
    MaxFinalized,      \* NDR_FINALIZED_CACHE
    MaxRestarts,       \* bound: how often the process stops
    CanCrash,          \* a stop may be a crash, not only a SIGTERM
    RecoveryMayFail    \* ClickHouse may be unreachable while starting

Keys == Tenants \X Fids
AllAnswers == {"result_ok", "result_failed", "armed", "completed", "failed"}

ASSUME ServiceAssumption ==
    /\ DefaultTenant \in Tenants
    /\ NoTenant \notin Tenants
    /\ Candidates \subseteq [tenant : Tenants, fid : Fids, det : STRING, cat : STRING,
                             ver : STRING, sev : Nat, conf : Nat]
    /\ ChEnabled \in BOOLEAN
    /\ EchoTenant \in BOOLEAN
    /\ Answers \subseteq AllAnswers
    /\ MaxAnswers \in Nat
    /\ MaxFinalized \in Nat \ {0}
    /\ MaxRestarts \in Nat
    /\ CanCrash \in BOOLEAN
    /\ RecoveryMayFail \in BOOLEAN

VARIABLES
    inbox,         \* records of the subscribed topics not yet handled
    uncommitted,   \* records handled whose offsets are not committed
    pending,       \* the pending map: entries [finding, delivered, due]
    finalized,     \* _finalized_capture, least recently remembered first
    rows,          \* ndr.finding in ClickHouse
    outFinal,      \* findings sent and not flushed
    outCapture,    \* capture jobs sent and not flushed
    finalTopic,    \* everything ever written to ndr.finding.final.v1
    captureTopic,  \* the keys of ndr.capture.request.v1
    phase,         \* where main() is
    degraded,      \* this process started without a complete recovery
    restarts,
    redelivered    \* history: candidates that a crash brought back

vars == <<inbox, uncommitted, pending, finalized, rows, outFinal, outCapture,
          finalTopic, captureTopic, phase, degraded, restarts, redelivered>>
bus == <<finalTopic, captureTopic>>

-----------------------------------------------------------------------------
CandKey(cand) == <<cand.tenant, cand.fid>>
Key(finding) == CandKey(finding.cand)

Findings == [cand : Candidates,
             state : {"CAPTURE_REQUESTED", "SUPPRESSED", "FINAL"},
             enr : Unfinalized \cup Terminal \cup {"NOT_REQUIRED"},
             rev : Nat \ {0},
             evid : SUBSET Keys]
Entries == [finding : Findings, delivered : BOOLEAN, due : BOOLEAN]

CandidateMsg(cand) == [type |-> "candidate", cand |-> cand]

\* An answer of the capture plane to the request for key; origin is the
\* request it belongs to, which the wire message does not name beyond the
\* finding id and, when it is echoed, the tenant.
AnswerMsg(key, answer) ==
    LET tenant == IF EchoTenant THEN key[1] ELSE NoTenant
    IN  IF answer \in {"result_ok", "result_failed"}
        THEN [type |-> "result", origin |-> key, tenant |-> tenant,
              ok |-> (answer = "result_ok")]
        ELSE [type |-> "status", origin |-> key, tenant |-> tenant, state |-> answer]

CandidateMsgs == {CandidateMsg(c) : c \in Candidates}
AnswerMsgs == {AnswerMsg(k, a) : k \in Keys, a \in Answers}
ResultMsgs == {m \in AnswerMsgs : m.type = "result"}
Messages == CandidateMsgs \cup AnswerMsgs

-----------------------------------------------------------------------------
Init ==
    /\ inbox = CandidateMsgs
    /\ uncommitted = {}
    /\ pending = {}
    /\ finalized = <<>>
    /\ rows = {}
    /\ outFinal = {} /\ outCapture = {}
    /\ finalTopic = {} /\ captureTopic = {}
    /\ phase = "handle"
    /\ degraded = FALSE
    /\ restarts = 0
    /\ redelivered = {}

Up == phase # "down"

\* A polled record reaches its handler.
Consume(m) ==
    /\ phase = "handle"
    /\ m \in inbox
    /\ inbox' = inbox \ {m}
    /\ uncommitted' = uncommitted \cup {m}

persist(finding) == rows' = IF ChEnabled THEN rows \cup {finding} ELSE rows

\* _emit_finalized: persist the terminal revision, then send it.
emit_finalized(done) ==
    /\ persist(done)
    /\ outFinal' = outFinal \cup {done}

PendingAt(k) == {e \in pending : Key(e.finding) = k}

\* Mutant: any pending entry of the finding id will do.
MatchById(m) == {e \in pending : Key(e.finding)[2] = m.origin[2]}

\* _pop_pending: the entry an answer belongs to, if any.
pop_pending(m) ==
    IF m.tenant # NoTenant
    THEN PendingAt(<<m.tenant, m.origin[2]>>)
    ELSE LET matches == {e \in pending : Key(e.finding)[2] = m.origin[2]}
         IN  {e \in matches : \A d \in matches : Key(d.finding) = Key(e.finding)}

\* The position of key k in the finalized cache, if it is there.
CachedAt(k) == {i \in 1..Len(finalized) : Key(finalized[i]) = k}
Without(s, i) == SubSeq(s, 1, i - 1) \o SubSeq(s, i + 1, Len(s))

\* _remember_finalized: most recent last, the oldest leaves a full cache.
remember_finalized(done) ==
    LET others == IF CachedAt(Key(done)) = {} THEN finalized
                  ELSE Without(finalized, CHOOSE i \in CachedAt(Key(done)) : TRUE)
        longer == Append(others, done)
    IN  finalized' = IF Len(longer) > MaxFinalized THEN Tail(longer) ELSE longer

-----------------------------------------------------------------------------
HandleCandidate(m) ==
    /\ Consume(m)
    /\ m.type = "candidate"
    /\ LET built == build_finding(m.cand)
           finding == built.finding
           entry == [finding |-> finding, due |-> FALSE,
                     delivered |-> built.route = "final_and_capture"]
       IN  /\ persist(finding)
           /\ outFinal' = IF built.route \in {"final", "final_and_capture"}
                          THEN outFinal \cup {finding} ELSE outFinal
           /\ outCapture' = IF built.route \in {"capture", "final_and_capture"}
                            THEN outCapture \cup {Key(finding)} ELSE outCapture
           /\ pending' = IF built.route \in {"capture", "final_and_capture"}
                         THEN (pending \ PendingAt(Key(finding))) \cup {entry}
                         ELSE pending
    /\ UNCHANGED <<finalized, bus, phase, degraded, restarts, redelivered>>

\* Mutant: a finding that a late result re-opened may be re-opened again.
HandleResultAgain(m) ==
    /\ Consume(m)
    /\ m.type = "result"
    /\ \/ \E e \in pop_pending(m) :
            /\ pending' = pending \ {e}
            /\ emit_finalized(apply_enrichment_result(e.finding, m))
       \/ /\ pop_pending(m) = {} /\ UNCHANGED pending
          /\ LET late == <<IF m.tenant = NoTenant THEN DefaultTenant ELSE m.tenant, m.origin[2]>>
             IN  \/ \E i \in CachedAt(late) : emit_finalized(apply_enrichment_result(finalized[i], m))
                 \/ CachedAt(late) = {} /\ UNCHANGED <<rows, outFinal>>
    /\ UNCHANGED <<finalized, outCapture, bus, phase, degraded, restarts, redelivered>>

\* _handle_result: finalize the pending finding, re-open a finding finalized
\* without its evidence, or ignore an answer nobody waits for.
HandleResult(m) ==
    /\ Consume(m)
    /\ m.type = "result"
    /\ \/ \E e \in pop_pending(m) :
            /\ pending' = pending \ {e}
            /\ emit_finalized(apply_enrichment_result(e.finding, m))
            /\ UNCHANGED finalized
       \/ /\ pop_pending(m) = {}
          /\ LET late == <<IF m.tenant = NoTenant THEN DefaultTenant ELSE m.tenant, m.origin[2]>>
             IN  \/ \E i \in CachedAt(late) :
                      /\ finalized' = Without(finalized, i)
                      /\ emit_finalized(apply_enrichment_result(finalized[i], m))
                 \/ CachedAt(late) = {} /\ UNCHANGED <<finalized, rows, outFinal>>
          /\ UNCHANGED pending
    /\ UNCHANGED <<outCapture, bus, phase, degraded, restarts, redelivered>>

\* Mutant: a status that ends a capture drops the entry.
HandleStatusDropping(m) ==
    /\ Consume(m)
    /\ m.type = "status"
    /\ \/ \E e \in pop_pending(m) :
            /\ m.state \notin {"armed", "completed"}
            /\ pending' = pending \ {e}
            /\ UNCHANGED <<rows, outFinal>>
       \/ /\ m.state \in {"armed", "completed"} \/ pop_pending(m) = {}
          /\ UNCHANGED <<pending, rows, outFinal>>
    /\ UNCHANGED <<finalized, outCapture, bus, phase, degraded, restarts, redelivered>>

\* _handle_status: only a status after which no result follows finalizes.
HandleStatus(m) ==
    /\ Consume(m)
    /\ m.type = "status"
    /\ \/ \E e \in pop_pending(m) :
            /\ m.state \notin {"armed", "completed"}
            /\ pending' = pending \ {e}
            /\ emit_finalized(finalize_timeout(e.finding))
            /\ remember_finalized(finalize_timeout(e.finding))
       \/ /\ m.state \in {"armed", "completed"} \/ pop_pending(m) = {}
          /\ UNCHANGED <<pending, finalized, rows, outFinal>>
    /\ UNCHANGED <<outCapture, bus, phase, degraded, restarts, redelivered>>

\* The capture plane answers a request it has read.
Answer(k, a) ==
    /\ k \in captureTopic
    /\ Cardinality((inbox \cup uncommitted) \ CandidateMsgs) < MaxAnswers
    /\ inbox' = inbox \cup {AnswerMsg(k, a)}
    /\ UNCHANGED <<uncommitted, pending, finalized, rows, outFinal, outCapture, bus,
                   phase, degraded, restarts, redelivered>>

\* The deadline of a pending entry is in the past.
DeadlinePasses(k) ==
    /\ Up
    /\ \E e \in PendingAt(k) :
         /\ ~e.due
         /\ pending' = (pending \ {e}) \cup {[e EXCEPT !.due = TRUE]}
    /\ UNCHANGED <<inbox, uncommitted, finalized, rows, outFinal, outCapture, bus, phase,
                   degraded, restarts, redelivered>>

\* Mutant: only findings that were delivered at once are swept.
DueDelivered == {e \in pending : e.due /\ e.delivered}

Due == {e \in pending : e.due}

BeginSweep ==
    /\ phase = "handle"
    /\ phase' = "sweep"
    /\ UNCHANGED <<inbox, uncommitted, pending, finalized, rows, outFinal, outCapture,
                   bus, degraded, restarts, redelivered>>

\* One round of the loop of _sweep_timeouts.
SweepOne ==
    /\ phase = "sweep"
    /\ \E e \in Due :
         /\ pending' = pending \ {e}
         /\ emit_finalized(finalize_timeout(e.finding))
         /\ remember_finalized(finalize_timeout(e.finding))
    /\ UNCHANGED <<inbox, uncommitted, outCapture, bus, phase, degraded, restarts, redelivered>>

\* producer.flush(), and the poll of the next iteration, which commits the
\* offsets when the auto-commit interval has passed.
Flush ==
    /\ phase = "sweep" /\ Due = {}
    /\ finalTopic' = finalTopic \cup outFinal
    /\ captureTopic' = captureTopic \cup outCapture
    /\ outFinal' = {} /\ outCapture' = {}
    /\ uncommitted' \in {uncommitted, {}}
    /\ phase' = "handle"
    /\ UNCHANGED <<inbox, pending, finalized, rows, degraded, restarts, redelivered>>

\* What a stop does to the memory of the process.
LoseMemory ==
    /\ phase' = "down"
    /\ restarts' = restarts + 1
    /\ pending' = {}
    /\ finalized' = <<>>
    /\ outFinal' = {} /\ outCapture' = {}
    /\ uncommitted' = {}
    /\ UNCHANGED <<rows, degraded>>

\* SIGTERM: the loop condition is tested after the flush, consumer.close()
\* commits.
Shutdown ==
    /\ phase = "handle" /\ outFinal = {} /\ outCapture = {}
    /\ restarts < MaxRestarts
    /\ LoseMemory
    /\ UNCHANGED <<inbox, bus, redelivered>>

\* A crash, or the exception of a failed insert: any part of the unflushed
\* records may have left, and the uncommitted ones come back.
Crash ==
    /\ CanCrash /\ Up /\ restarts < MaxRestarts
    /\ LoseMemory
    /\ \E sent \in SUBSET outFinal : finalTopic' = finalTopic \cup sent
    /\ \E sent \in SUBSET outCapture : captureTopic' = captureTopic \cup sent
    /\ inbox' = inbox \cup uncommitted
    /\ redelivered' = redelivered \cup {m.cand : m \in uncommitted \cap CandidateMsgs}

\* The rows the recovery query may see: one of the highest revision per key.
MaxRows(k) == {r \in rows : /\ Key(r) = k
                            /\ \A s \in rows : Key(s) = k => s.rev <= r.rev}
CurrentViews == {view \in SUBSET rows :
                    /\ \A r \in view : r \in MaxRows(Key(r))
                    /\ \A r, s \in view : Key(r) = Key(s) => r = s
                    /\ \A r \in rows : \E s \in view : Key(s) = Key(r)}

\* _pending_from_rows: a recovered entry is due at once.
pending_from_rows(view) ==
    {[finding |-> r, delivered |-> r.state = "FINAL", due |-> TRUE] :
        r \in {v \in view : v.enr \in Unfinalized}}

Start ==
    /\ phase = "down"
    /\ \E view \in CurrentViews : pending' = pending_from_rows(view)
    /\ phase' = "handle"
    /\ degraded' = FALSE
    /\ UNCHANGED <<inbox, uncommitted, finalized, rows, outFinal, outCapture, bus, restarts, redelivered>>

\* Every recovery attempt failed or hit RECOVERY_MAX: what was loaded is used.
StartDegraded ==
    /\ phase = "down" /\ RecoveryMayFail
    /\ \E view \in CurrentViews :
         \E part \in SUBSET view : pending' = pending_from_rows(part)
    /\ phase' = "handle"
    /\ degraded' = TRUE
    /\ UNCHANGED <<inbox, uncommitted, finalized, rows, outFinal, outCapture, bus, restarts, redelivered>>

-----------------------------------------------------------------------------
Handle(m) == HandleCandidate(m) \/ HandleResult(m) \/ HandleStatus(m)

Next ==
    \/ \E m \in inbox : Handle(m)
    \/ \E k \in Keys, a \in Answers : Answer(k, a)
    \/ \E k \in Keys : DeadlinePasses(k)
    \/ BeginSweep
    \/ SweepOne
    \/ Flush
    \/ Shutdown
    \/ Crash
    \/ Start
    \/ StartDegraded

Spec == Init /\ [][Next]_vars

\* main() never stops iterating, its clock advances, a poll eventually returns
\* every candidate, and the process is restarted by its supervisor.  Nothing is
\* assumed of the capture plane, which may never answer.
Fairness ==
    /\ WF_vars(BeginSweep \/ SweepOne \/ Flush \/ Start \/ StartDegraded)
    /\ \A k \in Keys : WF_vars(DeadlinePasses(k))
    /\ \A m \in CandidateMsgs : SF_vars(HandleCandidate(m))

FairSpec == Spec /\ Fairness

-----------------------------------------------------------------------------
(***************************************************************************)
(* Properties                                                              *)
(***************************************************************************)
TypeOK ==
    /\ inbox \subseteq Messages
    /\ uncommitted \subseteq Messages
    /\ pending \subseteq Entries
    /\ finalized \in Seq(Findings)
    /\ rows \subseteq Findings
    /\ outFinal \subseteq Findings
    /\ outCapture \subseteq Keys
    /\ finalTopic \subseteq Findings
    /\ captureTopic \subseteq Keys
    /\ phase \in {"handle", "sweep", "down"}
    /\ degraded \in BOOLEAN
    /\ restarts \in Nat
    /\ redelivered \subseteq Candidates

\* The row ClickHouse shows for k says its capture is still outstanding.
Obligated(k) ==
    /\ MaxRows(k) # {}
    /\ \A r \in MaxRows(k) : r.enr \in Unfinalized

\* F14: a finding ClickHouse shows as waiting for its capture is in the pending
\* map of the running process, whatever crashes, redeliveries and duplicate
\* answers came before, as long as the recovery at start succeeded.
ObligationsTracked ==
    Up /\ ~degraded => \A k \in Keys : Obligated(k) => PendingAt(k) # {}

\* The rungs of the lifecycle.
Rungs ==
    \A r \in rows :
        \/ r.rev = 1 /\ r.enr \in Unfinalized \cup {"NOT_REQUIRED"}
        \/ r.rev = 2 /\ r.enr \in Terminal
        \/ /\ r.rev = 3 /\ r.enr \in {"ENRICHED", "ENRICHMENT_FAILED"}
           /\ \E s \in rows : s.cand = r.cand /\ s.rev = 2 /\ s.enr = "TIMEOUT"

\* R03: a finding's revisions are a first version, one finalization of it, and one late
\* enrichment of a finding that had timed out; no row has another revision, and no
\* revision has a second content, however duplicate and late answers, timeouts and
\* recoveries meet.  A candidate that a crash brings back starts again at revision 1: its
\* rows are on the same rungs, but a rung may hold a second content.
RevisionLadder ==
    /\ Rungs
    /\ \A r, s \in rows : r.cand = s.cand /\ r.rev = s.rev /\ r.cand \notin redelivered => r = s

\* R06: what reaches ndr.finding.final.v1 was decided by the suppression policy
\* alone: no enrichment outcome, timeout or recovery promotes a low-severity
\* finding to the analysts or withdraws a delivered one.
SuppressionConsistent ==
    \A f \in finalTopic \cup outFinal : f.state = DeliveryState(f.cand)

\* _pop_pending: no finding ever carries evidence captured for another tenant.
EvidenceOwnTenant ==
    \A f \in finalTopic \cup outFinal \cup rows : f.evid \subseteq {Key(f)}

\* F01: every candidate eventually reaches ndr.finding.final.v1 in a state that
\* waits for nothing.
EveryCandidateFinalized ==
    \A c \in Candidates :
        <>(\E f \in finalTopic : Key(f) = CandKey(c) /\ f.enr \notin Unfinalized)
=============================================================================
