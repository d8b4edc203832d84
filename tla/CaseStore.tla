------------------------------ MODULE CaseStore ------------------------------
(***************************************************************************)
(* The case workflow of services/finding-service: the pure case mutations  *)
(* of cases.py, the SQLite store of store.py that runs each of them in one *)
(* locked transaction, the HTTP routes of app.py that call it, and the     *)
(* outbox of dispositions that concurrent drains deliver to the            *)
(* feedback-service's Router.                                              *)
(*                                                                         *)
(* A mutation is atomic because the read, the change and the commit happen *)
(* under the store's lock; a drain holds the lock only to look at a row    *)
(* and to mark it, so its steps interleave with everything else.           *)
(***************************************************************************)
EXTENDS Integers, Sequences, FiniteSets

CONSTANTS
    Cases, Tenants, Findings, Entities, Verdicts,
    Sessions,      \* CASE_SESSIONS: [analyst, tenant, write]
    Routes,        \* the HTTP routes and library calls a run exercises
    Drains,        \* threads that may run drain_dispositions
    MaxAttempts,   \* max_attempts of a drain
    MaxAudit,      \* bound: events in a case's audit trail
    MaxFaults      \* bound: faults of all kinds together

AllRoutes == {"owner", "assign", "unassign", "notes", "status", "findings", "unfindings",
              "entities", "unentities", "resolve", "replay"}

ASSUME CaseAssumption ==
    /\ Sessions \subseteq [analyst : STRING, tenant : Tenants, write : BOOLEAN]
    /\ Routes \subseteq AllRoutes
    /\ MaxAttempts \in Nat \ {0} /\ MaxAudit \in Nat \ {0}
    /\ MaxFaults \in Nat

VARIABLES
    docs,       \* the cases table: documents of the cases created so far
    outbox,     \* the dispositions table: ids enqueued
    delivered,  \* ids with delivered=1
    claimed,    \* _claimed, in memory
    drain,      \* the threads: [pc, todo, cur, tries]
    receipts,   \* feedback rows the Router inserted: [id, copy]
    faults      \* crashes, lost answers of the consumer and failed marks so far

vars == <<docs, outbox, delivered, claimed, drain, receipts, faults>>
drainVars == <<delivered, claimed, drain, receipts, faults>>

Statuses == {"new", "investigating", "resolved", "closed"}
Resolutions == {"resolved", "closed"}
CASE_TRANSITIONS ==
    [new |-> {"investigating", "closed"},
     investigating |-> {"resolved", "closed"},
     resolved |-> {"closed", "investigating"},
     closed |-> {"investigating"}]

valid_case_transition(current, nxt) == nxt \in CASE_TRANSITIONS[current]

-----------------------------------------------------------------------------
(* cases.py.  An audit event keeps the argument of the change it records.  *)

Event(event, actor, arg) == [event |-> event, actor |-> actor, arg |-> arg]
touch(doc, event) == [doc EXCEPT !.audit = Append(@, event)]

new_case(tenant, owner, actor) ==
    [tenant |-> tenant, owner |-> owner, assignees |-> {}, status |-> "new", notes |-> 0,
     findings |-> {}, entities |-> {}, audit |-> <<Event("created", actor, owner)>>]

change_owner(doc, owner, actor) ==
    [touch(doc, Event("owner_changed", actor, owner)) EXCEPT !.owner = owner]

assign(doc, who, actor) ==
    IF who \in doc.assignees THEN doc
    ELSE [touch(doc, Event("assignee_added", actor, who)) EXCEPT !.assignees = @ \cup {who}]
unassign(doc, who, actor) ==
    IF who \notin doc.assignees THEN doc
    ELSE [touch(doc, Event("assignee_removed", actor, who)) EXCEPT !.assignees = @ \ {who}]

add_note(doc, actor) ==
    [touch(doc, Event("note_added", actor, "text")) EXCEPT !.notes = @ + 1]

\* Mutant: the status moves without its audit event.
SilentTransition(doc, status, actor) == [doc EXCEPT !.status = status]

\* The caller has checked valid_case_transition, which raises otherwise.
transition(doc, status, actor) ==
    [touch(doc, Event("status_changed", actor, status)) EXCEPT !.status = status]

link_finding(doc, f, actor) ==
    IF f \in doc.findings THEN doc
    ELSE [touch(doc, Event("finding_linked", actor, f)) EXCEPT !.findings = @ \cup {f}]
unlink_finding(doc, f, actor) ==
    IF f \notin doc.findings THEN doc
    ELSE [touch(doc, Event("finding_unlinked", actor, f)) EXCEPT !.findings = @ \ {f}]
link_entity(doc, e, actor) ==
    IF e \in doc.entities THEN doc
    ELSE [touch(doc, Event("entity_linked", actor, e)) EXCEPT !.entities = @ \cup {e}]
unlink_entity(doc, e, actor) ==
    IF e \notin doc.entities THEN doc
    ELSE [touch(doc, Event("entity_unlinked", actor, e)) EXCEPT !.entities = @ \ {e}]

\* case_dispositions raises unless every verdict names a linked finding and a
\* linked entity; it shapes nothing while the case is unresolved.
Attributed(doc, verdicts) ==
    doc.status \in Resolutions =>
        \A v \in verdicts : v.finding \in doc.findings /\ v.entity \in doc.entities
case_dispositions(doc, verdicts) == IF doc.status \in Resolutions THEN verdicts ELSE {}

AllVerdicts == [finding : Findings, entity : Entities, verdict : Verdicts]

-----------------------------------------------------------------------------
Init ==
    /\ docs = <<>>
    /\ outbox = {} /\ delivered = {} /\ claimed = {}
    /\ drain = [d \in Drains |-> [pc |-> "idle", todo |-> {}, cur |-> {}, tries |-> 0]]
    /\ receipts = {}
    /\ faults = 0

\* handle_case: a writing session, and the case belongs to its tenant.
Granted(c, s) == s.write /\ docs[c].tenant = s.tenant

\* disp_id: the audit sequence the mutation lands at identifies the event.
disp_id(c, new, v) ==
    [case |-> c, seq |-> Len(new.audit), finding |-> v.finding, entity |-> v.entity,
     verdict |-> v.verdict]

\* CaseStore.mutate: the document and its dispositions in one transaction.
Mutate(c, s, new, verdicts) ==
    /\ c \in DOMAIN docs /\ Granted(c, s)
    /\ Len(docs[c].audit) < MaxAudit
    /\ docs' = [docs EXCEPT ![c] = new]
    /\ outbox' = outbox \cup {disp_id(c, new, v) : v \in verdicts}
    /\ UNCHANGED drainVars

\* audited: an HTTP request that changed nothing still leaves an event.
audited(before, after, event) ==
    IF Len(after.audit) = Len(before.audit) THEN touch(after, event) ELSE after

Noop(route, s) == Event("noop", s.analyst, route)

Create(c, s, owner) ==
    /\ s.write
    /\ c \notin DOMAIN docs
    /\ docs' = [x \in DOMAIN docs \cup {c} |->
                  IF x = c THEN new_case(s.tenant, owner, s.analyst) ELSE docs[x]]
    /\ UNCHANGED <<outbox, drainVars>>

PostOwner(c, s, owner) ==
    /\ "owner" \in Routes /\ c \in DOMAIN docs
    /\ Mutate(c, s, change_owner(docs[c], owner, s.analyst), {})
PostAssign(c, s, who) ==
    /\ "assign" \in Routes /\ c \in DOMAIN docs
    /\ Mutate(c, s, audited(docs[c], assign(docs[c], who, s.analyst), Noop("assign", s)), {})
DeleteAssign(c, s, who) ==
    /\ "unassign" \in Routes /\ c \in DOMAIN docs
    /\ Mutate(c, s, audited(docs[c], unassign(docs[c], who, s.analyst), Noop("unassign", s)), {})
PostNotes(c, s) ==
    /\ "notes" \in Routes /\ c \in DOMAIN docs
    /\ Mutate(c, s, add_note(docs[c], s.analyst), {})
PostStatus(c, s, status) ==
    /\ "status" \in Routes /\ c \in DOMAIN docs
    /\ valid_case_transition(docs[c].status, status)
    /\ Mutate(c, s, audited(docs[c], transition(docs[c], status, s.analyst), Noop("status", s)), {})
PostFindings(c, s, f) ==
    /\ "findings" \in Routes /\ c \in DOMAIN docs
    /\ Mutate(c, s, audited(docs[c], link_finding(docs[c], f, s.analyst), Noop("findings", s)), {})
DeleteFindings(c, s, f) ==
    /\ "unfindings" \in Routes /\ c \in DOMAIN docs
    /\ Mutate(c, s, audited(docs[c], unlink_finding(docs[c], f, s.analyst), Noop("unfindings", s)), {})
PostEntities(c, s, e) ==
    /\ "entities" \in Routes /\ c \in DOMAIN docs
    /\ Mutate(c, s, audited(docs[c], link_entity(docs[c], e, s.analyst), Noop("entities", s)), {})
DeleteEntities(c, s, e) ==
    /\ "unentities" \in Routes /\ c \in DOMAIN docs
    /\ Mutate(c, s, audited(docs[c], unlink_entity(docs[c], e, s.analyst), Noop("unentities", s)), {})

\* A resolution and its verdicts in one mutate(), as the case library is used.
Resolve(c, s, status, verdicts) ==
    /\ "resolve" \in Routes /\ c \in DOMAIN docs
    /\ valid_case_transition(docs[c].status, status)
    /\ LET new == transition(docs[c], status, s.analyst)
       IN  /\ Attributed(new, verdicts)
           /\ Mutate(c, s, new, case_dispositions(new, verdicts))

\* The same resolution enqueued again, without a new transition.
Replay(c, s, verdicts) ==
    /\ "replay" \in Routes /\ c \in DOMAIN docs
    /\ Attributed(docs[c], verdicts)
    /\ Mutate(c, s, docs[c], case_dispositions(docs[c], verdicts))

-----------------------------------------------------------------------------
(* drain_dispositions.                                                     *)

At(d, pc) == drain[d].pc = pc
Goto(d, pc) == drain' = [drain EXCEPT ![d].pc = pc]
Idle == [pc |-> "idle", todo |-> {}, cur |-> {}, tries |-> 0]

DrainSnapshot(d, tenant) ==
    /\ At(d, "idle")
    /\ LET rows == {r \in outbox \ delivered : docs[r.case].tenant = tenant}
       IN  /\ rows # {}
           /\ drain' = [drain EXCEPT ![d] = [pc |-> "loop", todo |-> rows, cur |-> {}, tries |-> 0]]
    /\ UNCHANGED <<docs, outbox, delivered, claimed, receipts, faults>>

\* Mutant: a row another drain holds is not skipped.
ClaimUnguarded(r) == r \notin delivered

Claimable(r) == r \notin claimed /\ r \notin delivered

\* The next row of the snapshot is claimed under the lock, or skipped.
DrainClaim(d) ==
    /\ At(d, "loop")
    /\ \E r \in drain[d].todo :
         IF Claimable(r)
         THEN /\ claimed' = claimed \cup {r}
              /\ drain' = [drain EXCEPT ![d] = [pc |-> "deliver", todo |-> @.todo \ {r},
                                                cur |-> {r}, tries |-> 0]]
         ELSE /\ drain' = [drain EXCEPT ![d].todo = @ \ {r}]
              /\ UNCHANGED claimed
    /\ UNCHANGED <<docs, outbox, delivered, receipts, faults>>

\* Router.consume commits a fresh row for every record it accepts.
Consumed(r) == receipts' = receipts \cup {[id |-> r, copy |-> Cardinality({x \in receipts : x.id = r}) + 1]}

DrainAccepted(d) ==
    /\ At(d, "deliver")
    /\ \E r \in drain[d].cur : Consumed(r)
    /\ Goto(d, "mark")
    /\ UNCHANGED <<docs, outbox, delivered, claimed, faults>>

Failed(d) == drain' = [drain EXCEPT ![d].tries = @ + 1,
                                    ![d].pc = IF drain[d].tries + 1 = MaxAttempts
                                              THEN "release" ELSE "deliver"]

\* deliver() raised or returned a falsy value.
DrainRejected(d) ==
    /\ At(d, "deliver")
    /\ Failed(d)
    /\ UNCHANGED <<docs, outbox, delivered, claimed, receipts, faults>>

\* The consumer accepted the record and its answer was lost.
DrainAckLost(d) ==
    /\ At(d, "deliver")
    /\ faults < MaxFaults
    /\ faults' = faults + 1
    /\ \E r \in drain[d].cur : Consumed(r)
    /\ Failed(d)
    /\ UNCHANGED <<docs, outbox, delivered, claimed>>

\* A BaseException leaves the drain; its finally drops the claim.
DrainInterrupted(d) ==
    /\ At(d, "deliver")
    /\ claimed' = claimed \ drain[d].cur
    /\ drain' = [drain EXCEPT ![d] = Idle]
    /\ UNCHANGED <<docs, outbox, delivered, receipts, faults>>

DrainMark(d) ==
    /\ At(d, "mark")
    /\ delivered' = delivered \cup drain[d].cur
    /\ Goto(d, "release")
    /\ UNCHANGED <<docs, outbox, claimed, receipts, faults>>

\* The UPDATE or its commit fails, or the thread is interrupted, after the consumer has
\* accepted: the exception leaves the drain, whose finally drops the claim.
DrainMarkFails(d) ==
    /\ At(d, "mark")
    /\ faults < MaxFaults
    /\ faults' = faults + 1
    /\ claimed' = claimed \ drain[d].cur
    /\ drain' = [drain EXCEPT ![d] = Idle]
    /\ UNCHANGED <<docs, outbox, delivered, receipts>>

\* Mutant: a row whose delivery failed stays claimed.
KeepClaim(d) ==
    /\ At(d, "release")
    /\ claimed' = IF drain[d].cur \subseteq delivered THEN claimed \ drain[d].cur ELSE claimed
    /\ drain' = [drain EXCEPT ![d] = [@ EXCEPT !.pc = "loop", !.cur = {}]]
    /\ UNCHANGED <<docs, outbox, delivered, receipts, faults>>

DrainRelease(d) ==
    /\ At(d, "release")
    /\ claimed' = claimed \ drain[d].cur
    /\ drain' = [drain EXCEPT ![d] = [@ EXCEPT !.pc = "loop", !.cur = {}]]
    /\ UNCHANGED <<docs, outbox, delivered, receipts, faults>>

DrainEnd(d) ==
    /\ At(d, "loop") /\ drain[d].todo = {}
    /\ drain' = [drain EXCEPT ![d] = Idle]
    /\ UNCHANGED <<docs, outbox, delivered, claimed, receipts, faults>>

\* The process dies: committed rows stay, claims and threads are gone.
Crash ==
    /\ faults < MaxFaults
    /\ faults' = faults + 1
    /\ claimed' = {}
    /\ drain' = [d \in Drains |-> Idle]
    /\ UNCHANGED <<docs, outbox, delivered, receipts>>

-----------------------------------------------------------------------------
Analysts == {s.analyst : s \in Sessions}

CaseStep(c, s) ==
    \/ \E o \in Analysts \cup {"nobody"} : Create(c, s, o) \/ PostOwner(c, s, o)
    \/ \E w \in Analysts : PostAssign(c, s, w) \/ DeleteAssign(c, s, w)
    \/ PostNotes(c, s)
    \/ \E st \in Statuses : PostStatus(c, s, st)
    \/ \E f \in Findings : PostFindings(c, s, f) \/ DeleteFindings(c, s, f)
    \/ \E e \in Entities : PostEntities(c, s, e) \/ DeleteEntities(c, s, e)
    \/ \E st \in Statuses, vs \in SUBSET AllVerdicts : Resolve(c, s, st, vs)
    \/ \E vs \in SUBSET AllVerdicts : Replay(c, s, vs)

DrainStep(d) ==
    \/ \E t \in Tenants : DrainSnapshot(d, t)
    \/ DrainClaim(d) \/ DrainAccepted(d) \/ DrainRejected(d) \/ DrainAckLost(d)
    \/ DrainInterrupted(d) \/ DrainMark(d) \/ DrainMarkFails(d) \/ DrainRelease(d) \/ DrainEnd(d)

Next ==
    \/ \E c \in Cases, s \in Sessions : CaseStep(c, s)
    \/ \E d \in Drains : DrainStep(d)
    \/ Crash

Spec == Init /\ [][Next]_vars

\* A drain is run again and again, its thread is scheduled, and a consumer
\* that is tried again and again accepts at last.
Fairness ==
    \A d \in Drains :
        /\ \A t \in Tenants : WF_vars(DrainSnapshot(d, t))
        /\ WF_vars(DrainClaim(d) \/ DrainMark(d) \/ DrainRelease(d) \/ DrainEnd(d))
        /\ SF_vars(DrainAccepted(d))

FairSpec == Spec /\ Fairness

-----------------------------------------------------------------------------
(***************************************************************************)
(* Properties                                                              *)
(***************************************************************************)
Docs == [tenant : Tenants, owner : Analysts \cup {"nobody"}, assignees : SUBSET Analysts,
         status : Statuses, notes : Nat, findings : SUBSET Findings,
         entities : SUBSET Entities, audit : Seq([event : STRING, actor : Analysts, arg : STRING])]
Ids == [case : Cases, seq : 1..MaxAudit, finding : Findings, entity : Entities, verdict : Verdicts]

TypeOK ==
    /\ DOMAIN docs \subseteq Cases /\ \A c \in DOMAIN docs : docs[c] \in Docs
    /\ outbox \subseteq Ids
    /\ delivered \subseteq outbox /\ claimed \subseteq outbox
    /\ drain \in [Drains -> [pc : {"idle", "loop", "deliver", "mark", "release"},
                             todo : SUBSET outbox, cur : SUBSET outbox, tries : 0..MaxAttempts]]
    /\ receipts \subseteq [id : Ids, copy : Nat]
    /\ faults \in Nat

\* The document that an audit event makes of the one before it.
Applied(b, ev) ==
    LET doc == CASE ev.event = "owner_changed" -> [b EXCEPT !.owner = ev.arg]
                 [] ev.event = "assignee_added" -> [b EXCEPT !.assignees = @ \cup {ev.arg}]
                 [] ev.event = "assignee_removed" -> [b EXCEPT !.assignees = @ \ {ev.arg}]
                 [] ev.event = "note_added" -> [b EXCEPT !.notes = @ + 1]
                 [] ev.event = "status_changed" -> [b EXCEPT !.status = ev.arg]
                 [] ev.event = "finding_linked" -> [b EXCEPT !.findings = @ \cup {ev.arg}]
                 [] ev.event = "finding_unlinked" -> [b EXCEPT !.findings = @ \ {ev.arg}]
                 [] ev.event = "entity_linked" -> [b EXCEPT !.entities = @ \cup {ev.arg}]
                 [] ev.event = "entity_unlinked" -> [b EXCEPT !.entities = @ \ {ev.arg}]
                 [] ev.event = "noop" -> b
    IN  [doc EXCEPT !.audit = Append(@, ev)]

\* The document that the first n events of an audit trail describe.
Replayed(tenant, audit, n) ==
    LET after[i \in 1..n] == IF i = 1 THEN new_case(tenant, audit[1].arg, audit[1].actor)
                             ELSE Applied(after[i - 1], audit[i])
    IN  after[n]

\* "No mutation is silent": a case is what its audit trail says happened to it.
AuditExplainsCase ==
    \A c \in DOMAIN docs :
        docs[c] = Replayed(docs[c].tenant, docs[c].audit, Len(docs[c].audit))

\* A row marked delivered has reached the feedback consumer, however drains
\* overlap, are interrupted before it, are retried or die.  It reaches the consumer a
\* second time only after a crash, a lost answer or a mark that fails once the consumer
\* has accepted, and each of them makes one copy.
DeliveredOnce ==
    /\ \A r \in delivered : \E x \in receipts : x.id = r
    /\ \A x \in receipts : x.copy <= 1 + faults

\* A consumer outage, an interrupted drain or a crash never drops a resolution's
\* feedback: every enqueued disposition is eventually marked delivered.
EventuallyDelivered ==
    \A r \in Ids : r \in outbox ~> r \in delivered
=============================================================================
