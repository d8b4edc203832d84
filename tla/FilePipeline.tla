---------------------------- MODULE FilePipeline ----------------------------
(***************************************************************************)
(* Carved files: file-artifact checks each one and promotes it to the      *)
(* accepted namespace of its tenant, then announces it; file-yara fetches  *)
(* what was announced and scans it, in a forked child, with every ruleset  *)
(* that its registry serves.  Rulesets enter the registry as drafts and    *)
(* are moved by authorised actors, from any connection; file-yara itself   *)
(* promotes the ones of its image when it starts.                          *)
(*                                                                         *)
(* A carving event is [tenant, data, announced]: tenant None is a key      *)
(* without tenant, announced None an event that gives no digest.  data     *)
(* names bytes; a ruleset is identified by its bytes.                      *)
(***************************************************************************)
EXTENDS Integers, Sequences, FiniteSets

CONSTANTS
    Events,          \* ndr.file.extracted.v1
    Contents,        \* bytes -> [size, depth, unsafe]
    MaxFileSize, MaxArchiveDepth, RetentionDays,
    Bundled, Remote, \* rulesets of the image, rulesets to be fetched
    Hits,            \* <<ruleset, bytes>> that match
    Tenant,          \* file-yara's
    Actors, Authorized,
    None,
    MaxTime, MaxFaults, MaxMoves \* bounds

Baseline == "file-yara-baseline"
Rulesets == Bundled \cup Remote

Sources == {"bundled-image", "rules-refresh"}
Statuses == {"draft", "shadow", "active", "retired"}

\* None is no registry row.
ASSUME FileAssumption ==
    /\ {MaxFileSize, MaxArchiveDepth, RetentionDays, MaxTime, MaxFaults, MaxMoves} \subseteq Nat
    /\ Authorized \subseteq Actors /\ Baseline \notin Actors
    /\ Len(Events) \in Nat /\ DOMAIN Events = 1 .. Len(Events)
    /\ \A i \in DOMAIN Events : Events[i].data \in DOMAIN Contents
    /\ None \notin [source : Sources, status : Statuses]

VARIABLES
    clock,
    carved,    \* file-artifact: [read, committed, holding]
    objects,   \* accepted objects: [tenant, data, at]
    links,     \* ndr.file.artifact.v1: sequence of [tenant, data, event]
    yara,      \* file-yara: [stage, left, read, committed, work]
    registry,  \* ruleset -> [source, status], or None
    audit,     \* ruleset -> sequence of [actor, event, from, to]
    verdicts,  \* observations of scans: [offset, ruleset, status, outcome, killed]
    findings,  \* [offset, rules]
    refused,   \* history: link offsets rejected for good
    faults     \* deaths of a process or of a child

vars == <<clock, carved, objects, links, yara, registry, audit, verdicts, findings, refused, faults>>
artifact == <<carved, objects, links>>
scanner == <<yara, verdicts, findings, refused>>
rules == <<registry, audit>>
-----------------------------------------------------------------------------
(* file-artifact.                                                          *)

\* validate_archive: nesting, member sizes, paths and readability.
ArchiveOk(data) == Contents[data].depth <= MaxArchiveDepth /\ ~Contents[data].unsafe
Oversize(data) == Contents[data].size > MaxFileSize
\* The checks that are final; anything else that goes wrong is retried.
Acceptable(ev) ==
    /\ ev.tenant # None
    /\ ~Oversize(ev.data) /\ ArchiveOk(ev.data)
    /\ ev.announced \in {None, ev.data}

Stored(tenant, data) == \E o \in objects : o.tenant = tenant /\ o.data = data

\* process_one, up to the publication; bytes already there keep their age.
StoreArtifact ==
    /\ carved.holding = None /\ carved.read < Len(Events)
    /\ LET ev == Events[carved.read + 1]
       IN  IF ~Acceptable(ev)
           THEN carved' = [carved EXCEPT !.read = @ + 1] /\ UNCHANGED objects
           ELSE /\ carved' = [carved EXCEPT !.holding = ev]
                /\ objects' = IF Stored(ev.tenant, ev.data) THEN objects
                              ELSE objects \cup {[tenant |-> ev.tenant, data |-> ev.data, at |-> clock]}
    /\ UNCHANGED <<clock, links, scanner, rules, faults>>

\* The link is acknowledged.
PublishLink ==
    /\ carved.holding # None
    /\ links' = Append(links, [tenant |-> carved.holding.tenant, data |-> carved.holding.data,
                               event |-> carved.read + 1])
    /\ carved' = [carved EXCEPT !.read = @ + 1, !.holding = None]
    /\ UNCHANGED <<clock, objects, scanner, rules, faults>>

\* Mutant: the offset of the record in hand is committed with its batch.
CommitAhead ==
    /\ carved.holding # None /\ carved.committed # carved.read + 1
    /\ carved' = [carved EXCEPT !.committed = carved.read + 1]
    /\ UNCHANGED <<clock, objects, links, scanner, rules, faults>>
CommitCarved ==
    /\ carved.holding = None /\ carved.committed # carved.read
    /\ carved' = [carved EXCEPT !.committed = carved.read]
    /\ UNCHANGED <<clock, objects, links, scanner, rules, faults>>

\* A fetch, a put or an acknowledgement fails, or the process dies.  The group has a
\* committed offset to come back to; a first start, at the latest record, is left out.
ArtifactCrash ==
    /\ faults < MaxFaults /\ faults' = faults + 1
    /\ carved' = [carved EXCEPT !.read = carved.committed, !.holding = None]
    /\ UNCHANGED <<clock, objects, links, scanner, rules>>

Expired(o) == clock - o.at > RetentionDays
\* The bucket's lifecycle rule.
Sweep(o) ==
    /\ o \in objects /\ Expired(o)
    /\ objects' = objects \ {o}
    /\ UNCHANGED <<clock, carved, links, scanner, rules, faults>>
-----------------------------------------------------------------------------
(* The ruleset registry: every operation is one immediate transaction.     *)

\* Mutant: a retired ruleset may return.
Revivable(status) == CASE status \in {"draft", "retired"} -> {"shadow", "retired"}
                       [] status = "shadow" -> {"active", "retired"}
                       [] status = "active" -> {"shadow", "retired"}
Transitions(status) == CASE status = "draft" -> {"shadow", "retired"}
                         [] status = "shadow" -> {"active", "retired"}
                         [] status = "active" -> {"shadow", "retired"}
                         [] status = "retired" -> {}
Served(b) == registry[b] # None /\ registry[b].status \in {"active", "shadow"}

Audited(actor, event, from, to) == [actor |-> actor, event |-> event, from |-> from, to |-> to]
RegisterDraft(b, source) ==
    /\ registry' = [registry EXCEPT ![b] = [source |-> source, status |-> "draft"]]
    /\ audit' = [audit EXCEPT ![b] = Append(@, Audited(None, "registered", None, "draft"))]

MoveEvent(to, authorized) == IF ~authorized THEN "promotion_denied"
                             ELSE IF to \in {"active", "shadow"} THEN "promoted" ELSE to
\* Legality first, then authority: a denial is recorded and changes nothing.
promote(b, to, actor, authorized) ==
    /\ registry[b] # None /\ to \in Transitions(registry[b].status)
    /\ registry' = IF authorized THEN [registry EXCEPT ![b].status = to] ELSE registry
    /\ audit' = [audit EXCEPT ![b] = Append(@, Audited(actor, MoveEvent(to, authorized), registry[b].status, to))]

\* An operator on a connection of its own.
Moves == Cardinality({m \in Rulesets \X (1 .. 3 + MaxMoves) :
                        m[2] \in DOMAIN audit[m[1]] /\ audit[m[1]][m[2]].actor \in Actors})
OperatorMoves(b, to, actor) ==
    /\ Moves < MaxMoves
    /\ promote(b, to, actor, actor \in Authorized)
    /\ UNCHANGED <<clock, artifact, scanner, faults>>

\* refresh_to_registry, between two batches: remote bytes that have no row become a draft.
StageRemote(b) ==
    /\ yara.stage = "run" /\ yara.work = None /\ yara.read = yara.committed /\ registry[b] = None
    /\ RegisterDraft(b, "rules-refresh")
    /\ UNCHANGED <<clock, artifact, scanner, faults>>
-----------------------------------------------------------------------------
(* file-yara.                                                              *)

Boot == [stage |-> "check", left |-> Bundled, read |-> 0, committed |-> 0, work |-> None]
Booting == yara.left # {} /\ yara.stage \in {"check", "shadow", "active"}
Current == CHOOSE b \in yara.left : TRUE
Done == [yara EXCEPT !.stage = IF yara.left = {Current} THEN "run" ELSE "check", !.left = @ \ {Current}]
Restarted == [Boot EXCEPT !.read = yara.committed, !.committed = yara.committed]

\* _bootstrap_baseline: bytes that somebody has already moved are left alone.
BootCheck ==
    /\ Booting /\ yara.stage = "check"
    /\ IF registry[Current] = None
       THEN RegisterDraft(Current, "bundled-image") /\ UNCHANGED yara
       ELSE /\ yara' = IF registry[Current].status = "draft" THEN [yara EXCEPT !.stage = "shadow"] ELSE Done
            /\ UNCHANGED rules
    /\ UNCHANGED <<clock, artifact, verdicts, findings, refused, faults>>

BootPromote ==
    /\ Booting /\ yara.stage \in {"shadow", "active"}
    /\ promote(Current, yara.stage, Baseline, TRUE)
    /\ yara' = IF yara.stage = "shadow" THEN [yara EXCEPT !.stage = "active"] ELSE Done
    /\ UNCHANGED <<clock, artifact, verdicts, findings, refused, faults>>

\* An operator came between: the promotion is illegal and the service dies.
BootRefused ==
    /\ Booting /\ yara.stage \in {"shadow", "active"}
    /\ yara.stage \notin Transitions(registry[Current].status)
    /\ yara' = Restarted
    /\ UNCHANGED <<clock, artifact, rules, verdicts, findings, refused, faults>>

Link == links[yara.read + 1]
Available == {o \in objects : o.tenant = Link.tenant /\ o.data = Link.data}
Rejected == [yara EXCEPT !.read = @ + 1]

\* Another tenant's reference, or bytes past their retention: skipped for good.
RejectLink ==
    /\ yara.stage = "run" /\ yara.work = None /\ yara.read < Len(links)
    /\ Link.tenant # Tenant \/ (Available # {} /\ \A o \in Available : Expired(o))
    /\ yara' = Rejected
    /\ refused' = refused \cup {yara.read + 1}
    /\ UNCHANGED <<clock, artifact, rules, verdicts, findings, faults>>

\* Swept bytes are an infrastructure error: the process dies before the commit.
LinkDangles ==
    /\ yara.stage = "run" /\ yara.work = None /\ yara.read < Len(links)
    /\ Link.tenant = Tenant /\ Available = {}
    /\ yara' = Restarted
    /\ UNCHANGED <<clock, artifact, rules, verdicts, findings, refused, faults>>

\* What the child writes when nothing stops it.
ChildResult(b, data) == CASE Oversize(data) \/ ~ArchiveOk(data) -> "error"
                          [] <<b, data>> \in Hits -> "match"
                          [] OTHER -> "clean"
\* Mutant: the file is read, however the child ended.
OutcomeAsWritten(b, data, killed) == ChildResult(b, data)
\* run_scan: whatever the child wrote, a killed child is an error.
Outcome(b, data, killed) == IF killed THEN "error" ELSE ChildResult(b, data)

\* scan_bytes over a snapshot of the served rulesets.
Result(b, killed) ==
    [offset |-> yara.read + 1, ruleset |-> b, status |-> registry[b].status,
     outcome |-> Outcome(b, Link.data, b \in killed), killed |-> b \in killed]
NoRules == [offset |-> yara.read + 1, ruleset |-> None, status |-> None, outcome |-> "no_rules", killed |-> FALSE]
Scanned(killed) == IF \E b \in Rulesets : Served(b)
                   THEN {Result(b, killed) : b \in {x \in Rulesets : Served(x)}}
                   ELSE {NoRules}

\* A child may be killed.
Scan ==
    /\ yara.stage = "run" /\ yara.work = None /\ yara.read < Len(links)
    /\ Link.tenant = Tenant /\ \E o \in Available : ~Expired(o)
    /\ \E killed \in SUBSET {b \in Rulesets : Served(b)} :
         /\ faults + Cardinality(killed) <= MaxFaults
         /\ faults' = faults + Cardinality(killed)
         /\ yara' = [yara EXCEPT !.work = Scanned(killed)]
    /\ UNCHANGED <<clock, artifact, rules, verdicts, findings, refused>>

Unwritten == yara.work \ verdicts
InsertVerdict ==
    /\ yara.work # None /\ Unwritten # {}
    /\ verdicts' = verdicts \cup {CHOOSE v \in Unwritten : TRUE}
    /\ UNCHANGED <<clock, artifact, rules, yara, findings, refused, faults>>

Acted(v) == v.status = "active" /\ v.outcome = "match"
\* finding_from_results, once every observation is stored; shadow hits do not act.
EmitFinding ==
    /\ yara.work # None /\ Unwritten = {}
    /\ findings' = IF \E v \in yara.work : Acted(v)
                   THEN findings \cup {[offset |-> yara.read + 1,
                                        rules |-> {v.ruleset : v \in {w \in yara.work : Acted(w)}}]}
                   ELSE findings
    /\ yara' = [yara EXCEPT !.work = None, !.read = @ + 1]
    /\ UNCHANGED <<clock, artifact, rules, verdicts, refused, faults>>

CommitScans ==
    /\ yara.work = None /\ yara.committed # yara.read
    /\ yara' = [yara EXCEPT !.committed = yara.read]
    /\ UNCHANGED <<clock, artifact, rules, verdicts, findings, refused, faults>>

YaraCrash ==
    /\ faults < MaxFaults /\ faults' = faults + 1
    /\ yara' = Restarted
    /\ UNCHANGED <<clock, artifact, rules, verdicts, findings, refused>>
-----------------------------------------------------------------------------
Tick == /\ clock < MaxTime /\ clock' = clock + 1
        /\ UNCHANGED <<artifact, scanner, rules, faults>>

Init ==
    /\ clock = 0
    /\ carved = [read |-> 0, committed |-> 0, holding |-> None]
    /\ objects = {} /\ links = <<>>
    /\ yara = Boot /\ registry = [b \in Rulesets |-> None] /\ audit = [b \in Rulesets |-> <<>>]
    /\ verdicts = {} /\ findings = {} /\ refused = {}
    /\ faults = 0

Artifacts == StoreArtifact \/ PublishLink \/ CommitCarved \/ ArtifactCrash \/ \E o \in objects : Sweep(o)
Registry == \/ \E b \in Rulesets, to \in {"shadow", "active", "retired"}, a \in Actors : OperatorMoves(b, to, a)
            \/ \E b \in Remote : StageRemote(b)
Yara == \/ BootCheck \/ BootPromote \/ BootRefused
        \/ RejectLink \/ LinkDangles \/ Scan \/ InsertVerdict \/ EmitFinding
        \/ CommitScans \/ YaraCrash
Next == Artifacts \/ Registry \/ Yara \/ Tick

Spec == Init /\ [][Next]_vars
-----------------------------------------------------------------------------
(* Properties.                                                             *)

Moved(b) == {i \in DOMAIN audit[b] : audit[b][i].event # "promotion_denied"}
LastMove(b) == audit[b][CHOOSE i \in Moved(b) : \A j \in Moved(b) : j <= i]
PromotedTo(b, status) ==
    \E i \in Moved(b) : audit[b][i].to = status /\ audit[b][i].actor \in Authorized \cup {Baseline}

\* Whoever races whom, and wherever file-yara dies while it starts: the audit trail
\* explains where a ruleset stands, a retired one stays retired, remote bytes are
\* served only on an authorised operator's word, and a finding names only rulesets
\* that somebody authorised made active.
OnlyPromotedRulesAct ==
    /\ \A b \in Rulesets : registry[b] # None => LastMove(b).to = registry[b].status
    /\ \A b \in Rulesets : (\E i \in Moved(b) : audit[b][i].to = "retired") => registry[b].status = "retired"
    /\ \A b \in Remote \ Bundled : Served(b) => \E i \in Moved(b) : audit[b][i].actor \in Authorized
    /\ \A f \in findings : \A b \in f.rules : PromotedTo(b, "active")

\* Across deaths and replays: a link names bytes that passed the policy under the tenant
\* of their own event, and a committed event that is acceptable has its link.
CommittedLinked ==
    /\ \A i \in DOMAIN links : LET ev == Events[links[i].event]
                               IN  Acceptable(ev) /\ links[i].tenant = ev.tenant /\ links[i].data = ev.data
    /\ \A n \in 1 .. carved.committed : Acceptable(Events[n]) => \E i \in DOMAIN links : links[i].event = n

\* A committed link was scanned, with a stored verdict, or refused for good; a verdict
\* of clean or match comes from a child that ran to its end, and every finding rests
\* on stored verdicts of rulesets that were active when the file was scanned.
ScansAccounted ==
    /\ \A n \in 1 .. yara.committed : n \in refused \/ \E v \in verdicts : v.offset = n
    /\ \A v \in verdicts : v.outcome \in {"clean", "match"} => ~v.killed
    /\ \A f \in findings : \A b \in f.rules :
          \E v \in verdicts : v.offset = f.offset /\ v.ruleset = b /\ v.status = "active" /\ v.outcome = "match"
=============================================================================
