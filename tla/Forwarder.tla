------------------------------ MODULE Forwarder ------------------------------
(***************************************************************************)
(* services/findings-forwarder: the one consumer that takes findings out   *)
(* of the system.  It polls ndr.finding.final.v1, hands every batch to the *)
(* configured sinks, and commits its offsets once the batch is durably     *)
(* handled.  Each sink keeps an obligation ledger and a dead-letter file.  *)
(*                                                                         *)
(* What survives a crash: the topic, the committed offsets, both files of  *)
(* each sink, and what the receivers got.  What does not: the consumer's   *)
(* position, the batch in hand and the ledger's in-memory index.           *)
(*                                                                         *)
(* A ledger file is the sequence of its lines and its index the set of the *)
(* latest line per obligation key.  A write that fails either fails to     *)
(* open the file, or fails to flush: then the index already has all the    *)
(* lines and the file any prefix of them.                                  *)
(***************************************************************************)
EXTENDS Integers, Sequences, FiniteSets, SequencesExt

CONSTANTS
    Topic,       \* [partition -> sequence of records of ndr.finding.final.v1]
    SinkNames,   \* sequence of the sinks of CERNITY_SINK
    Retries,     \* CERNITY_DELIVER_RETRIES
    MaxPoll,     \* bound: records of a partition one poll returns
    MaxFaults,   \* bound: crashes, failed writes and lost answers of a sink
    MaxReplays,  \* bound: operator replays of a dead-letter file
    None         \* no partition is being handled

Partitions == DOMAIN Topic
Sinks == Range(SinkNames)

-----------------------------------------------------------------------------
\* Record identities and obligation keys.

\* record_identity: verdicts are identified per verdict revision, findings per
\* finding revision, investigations by their id alone.
record_identity(r) ==
    IF r.kind = "investigation" THEN <<r.kind, r.id>> ELSE <<r.kind, r.id, r.rev>>

obl_key(r, dest) ==
    <<IF r.tenant = "" THEN "default" ELSE r.tenant, record_identity(r), dest>>

Suppressed(r) == r.state = "SUPPRESSED"
Live(r) == ~Suppressed(r)

Records == UNION {Range(Topic[p]) : p \in Partitions}
LiveRecords == {r \in Records : Live(r)}
Line(r, dest, outcome) == [key |-> obl_key(r, dest), outcome |-> outcome]
Lines == {Line(r, d, o) : r \in Records, d \in Sinks \cup {"(withheld)"},
                          o \in {"delivered", "dead_lettered", "suppressed"}}

ASSUME ForwarderAssumption ==
    /\ Retries \in Nat /\ MaxPoll \in Nat \ {0}
    /\ MaxFaults \in Nat /\ MaxReplays \in Nat
    /\ SinkNames \in Seq(Sinks) \ {<<>>} /\ "(withheld)" \notin Sinks
    /\ None \notin Partitions
    /\ \A p \in Partitions :
          /\ Topic[p] \in Seq(Range(Topic[p]))
          /\ \A r \in Range(Topic[p]) : DOMAIN r = {"tenant", "kind", "id", "rev", "state"}

VARIABLES
    committed,  \* offset committed per partition
    position,   \* offset the running consumer has read up to
    batch,      \* records of the batch not yet handled, per partition
    durable,    \* batch_durable
    phase,      \* "poll", "batch", "replay" or "down"
    work,       \* progress through record_suppressed, emit_batch or replay
    ledger,     \* obligations-<sink>.jsonl
    outcome,    \* DurableLedger.outcome
    dlq,        \* dlq-<sink>.jsonl
    got,        \* how often each receiver got each live record
    skipped,    \* ghost: records of batches that were not durably handled
    torn,       \* ghost: dead letters lost with an interrupted rewrite
    faults,     \* bounded by MaxFaults
    replays     \* bounded by MaxReplays

vars == <<committed, position, batch, durable, phase, work, ledger, outcome, dlq, got,
          skipped, torn, faults, replays>>

Idle == [part |-> None, sinks |-> <<>>, stage |-> "idle", pending |-> <<>>,
         failed |-> <<>>, attempt |-> 0, broken |-> FALSE]

Stages == {"idle", "withheld", "dedup", "send", "record", "dlq", "mark",
           "scan", "transition", "rewrite"}

Init ==
    /\ committed = [p \in Partitions |-> 0]
    /\ position = committed
    /\ batch = [p \in Partitions |-> <<>>]
    /\ durable = TRUE
    /\ phase = "poll"
    /\ work = Idle
    /\ ledger = [s \in Sinks |-> <<>>]
    /\ outcome = [s \in Sinks |-> {}]
    /\ dlq = [s \in Sinks |-> <<>>]
    /\ got = [s \in Sinks |-> [r \in LiveRecords |-> 0]]
    /\ skipped = {} /\ torn = {}
    /\ faults = 0 /\ replays = 0

-----------------------------------------------------------------------------
\* DurableLedger.

\* The latest line per key: what compact keeps of a file.
Latest(file) ==
    {file[i] : i \in {j \in DOMAIN file : \A l \in j + 1 .. Len(file) : file[l].key # file[j].key}}

\* Mutant: the index of a restarted process is empty.
LoadNothing(file) == {}

\* DurableLedger.__init__.
LoadLedger(file) == Latest(file)

\* The items of rs at the positions of I, in their order: a list comprehension.
Picked(rs, I) ==
    [n \in 1 .. Cardinality(I) |-> rs[CHOOSE i \in I : Cardinality({j \in I : j <= i}) = n]]

Selected(rs, S) == Picked(rs, {i \in DOMAIN rs : rs[i] \in S})

Terminal(s, r, dest) == \E e \in outcome[s] : e.key = obl_key(r, dest)
DeliveredTo(s, r) == Line(r, s, "delivered") \in outcome[s]

\* Where rs has a record of S that is not terminal yet, the first for its obligation.
Fresh(s, rs, S, dest) ==
    {i \in DOMAIN rs :
        /\ rs[i] \in S /\ ~Terminal(s, rs[i], dest)
        /\ \A j \in 1 .. i - 1 : rs[j] \in S => obl_key(rs[j], dest) # obl_key(rs[i], dest)}

\* record: the lines of those records.
NewLines(s, rs, S, dest, oc) ==
    Picked([i \in DOMAIN rs |-> Line(rs[i], dest, oc)], Fresh(s, rs, S, dest))

\* Lines appended to the ledger of s and entered in its index.
Indexed(s, lines) ==
    {e \in outcome[s] : ~\E l \in Range(lines) : l.key = e.key} \cup Range(lines)

Written(s, lines) ==
    /\ ledger' = [ledger EXCEPT ![s] = @ \o lines]
    /\ outcome' = [outcome EXCEPT ![s] = Indexed(s, lines)]
    /\ UNCHANGED faults

\* The file cannot be opened, or the flush fails after some prefix.
NotWritten(s, lines) ==
    /\ lines # <<>> /\ faults < MaxFaults
    /\ faults' = faults + 1
    /\ \/ UNCHANGED <<ledger, outcome>>
       \/ \E n \in 0 .. Len(lines) :
            /\ ledger' = [ledger EXCEPT ![s] = @ \o SubSeq(lines, 1, n)]
            /\ outcome' = [outcome EXCEPT ![s] = Indexed(s, lines)]

-----------------------------------------------------------------------------
\* The consumer loop of main.

\* Mutant: the offsets are committed when the records are fetched.
AutoCommitPoll ==
    /\ phase = "poll"
    /\ \E n \in [Partitions -> 0 .. MaxPoll] :
         /\ \E p \in Partitions : n[p] > 0
         /\ \A p \in Partitions : position[p] + n[p] <= Len(Topic[p])
         /\ batch' = [p \in Partitions |-> SubSeq(Topic[p], position[p] + 1, position[p] + n[p])]
         /\ position' = [p \in Partitions |-> position[p] + n[p]]
    /\ committed' = position'
    /\ phase' = "batch" /\ durable' = TRUE
    /\ UNCHANGED <<work, ledger, outcome, dlq, got, skipped, torn, faults, replays>>

Poll ==
    /\ phase = "poll"
    /\ \E n \in [Partitions -> 0 .. MaxPoll] :
         /\ \E p \in Partitions : n[p] > 0
         /\ \A p \in Partitions : position[p] + n[p] <= Len(Topic[p])
         /\ batch' = [p \in Partitions |-> SubSeq(Topic[p], position[p] + 1, position[p] + n[p])]
         /\ position' = [p \in Partitions |-> position[p] + n[p]]
    /\ phase' = "batch" /\ durable' = TRUE
    /\ UNCHANGED <<committed, work, ledger, outcome, dlq, got, skipped, torn, faults, replays>>

\* The records of the partition being handled that reach the sinks.
LiveBatch == {r \in Range(batch[work.part]) : Live(r)}

BeginPartition(p) ==
    /\ phase = "batch" /\ work = Idle /\ batch[p] # <<>>
    /\ work' = [Idle EXCEPT !.part = p, !.sinks = SinkNames, !.stage = "withheld"]
    /\ UNCHANGED <<committed, position, batch, durable, phase, ledger, outcome, dlq, got,
                   skipped, torn, faults, replays>>

\* A partition is left: its records were all handled, or one write failed.
LeavePartition(ok) ==
    /\ work' = Idle
    /\ batch' = [batch EXCEPT ![work.part] = <<>>]
    /\ durable' = (durable /\ ok)
    /\ skipped' = IF ok THEN skipped ELSE skipped \cup Range(batch[work.part])

\* MultiAdapter.emit_batch goes on to the next sink whatever this one did.
SinkDone(ok) ==
    LET broken == work.broken \/ ~ok
    IN IF Len(work.sinks) = 1
       THEN LeavePartition(~broken)
       ELSE /\ work' = [Idle EXCEPT !.part = work.part, !.sinks = Tail(work.sinks),
                                    !.stage = "dedup", !.broken = broken]
            /\ UNCHANGED <<batch, durable, skipped>>

\* record_suppressed: withheld findings go to the first sink's ledger.
RecordWithheld ==
    LET s == SinkNames[1]
        lines == NewLines(s, batch[work.part], Records \ LiveRecords, "(withheld)", "suppressed")
    IN /\ work.stage = "withheld"
       /\ \/ /\ Written(s, lines)
             /\ IF LiveBatch = {}
                THEN LeavePartition(TRUE)
                ELSE work' = [work EXCEPT !.stage = "dedup"] /\ UNCHANGED <<batch, durable, skipped>>
          \/ /\ NotWritten(s, lines)
             /\ LeavePartition(FALSE)
       /\ UNCHANGED <<committed, position, phase, dlq, got, torn, replays>>

\* DurableSink.emit_batch: obligations already terminal are not sent again.
Dedup ==
    LET s == Head(work.sinks)
        fresh == Picked(batch[work.part], Fresh(s, batch[work.part], LiveRecords, s))
    IN /\ work.stage = "dedup"
       /\ IF fresh = <<>>
          THEN SinkDone(TRUE)
          ELSE /\ work' = [work EXCEPT !.stage = "send", !.pending = fresh]
               /\ UNCHANGED <<batch, durable, skipped>>
       /\ UNCHANGED <<committed, position, phase, ledger, outcome, dlq, got, torn, faults, replays>>

Receives(s, rs) == got' = [got EXCEPT ![s] = [r \in LiveRecords |-> @[r] + IF r \in rs THEN 1 ELSE 0]]

\* One attempt: the receiver answers for every item, or the call fails; a
\* failed call may have delivered some of the items (a lost answer).
Send ==
    LET s == Head(work.sinks) items == Range(work.pending)
    IN /\ work.stage = "send"
       /\ \E taken \in SUBSET items :
            \/ /\ Receives(s, taken)
               /\ work' = [work EXCEPT !.stage = "record",
                              !.failed = Selected(work.pending, items \ taken)]
               /\ UNCHANGED faults
            \/ /\ taken # {} /\ faults < MaxFaults /\ faults' = faults + 1
               /\ Receives(s, taken)
               /\ work' = [work EXCEPT !.stage = "record", !.failed = work.pending]
       /\ UNCHANGED <<committed, position, batch, durable, phase, ledger, outcome, dlq,
                      skipped, torn, replays>>

\* Mutant: the attempts are not counted.
RetryForever ==
    work' = [work EXCEPT !.stage = "send", !.pending = work.failed, !.failed = <<>>]

\* What follows an attempt that left items unresolved.
Retry ==
    work' = [work EXCEPT !.stage = IF work.attempt >= Retries THEN "dlq" ELSE "send",
                         !.pending = work.failed, !.failed = <<>>,
                         !.attempt = IF @ >= Retries THEN @ ELSE @ + 1]

RecordAccepted ==
    LET s == Head(work.sinks)
        accepted == LiveRecords \ Range(work.failed)
        lines == NewLines(s, work.pending, accepted, s, "delivered")
    IN /\ work.stage = "record"
       /\ \/ /\ Written(s, lines)
             /\ IF work.failed = <<>>
                THEN SinkDone(TRUE)
                ELSE Retry /\ UNCHANGED <<batch, durable, skipped>>
          \/ /\ NotWritten(s, lines)
             /\ SinkDone(FALSE)
       /\ UNCHANGED <<committed, position, phase, dlq, got, torn, replays>>

\* _dlq: the payloads are durable before the ledger says dead_lettered.
WriteDlq ==
    LET s == Head(work.sinks)
    IN /\ work.stage = "dlq"
       /\ \/ /\ dlq' = [dlq EXCEPT ![s] = @ \o work.pending]
             /\ work' = [work EXCEPT !.stage = "mark"]
             /\ UNCHANGED <<faults, batch, durable, skipped>>
          \/ /\ faults < MaxFaults /\ faults' = faults + 1
             /\ \E n \in 0 .. Len(work.pending) :
                  dlq' = [dlq EXCEPT ![s] = @ \o SubSeq(work.pending, 1, n)]
             /\ SinkDone(FALSE)
       /\ UNCHANGED <<committed, position, phase, ledger, outcome, got, torn, replays>>

MarkDead ==
    LET s == Head(work.sinks) lines == NewLines(s, work.pending, LiveRecords, s, "dead_lettered")
    IN /\ work.stage = "mark"
       /\ \/ Written(s, lines) /\ SinkDone(TRUE)
          \/ NotWritten(s, lines) /\ SinkDone(FALSE)
       /\ UNCHANGED <<committed, position, phase, dlq, got, torn, replays>>

\* consumer.commit() commits the consumer's position, if the batch was durable.
EndBatch ==
    /\ phase = "batch" /\ work = Idle
    /\ \A p \in Partitions : batch[p] = <<>>
    /\ committed' = IF durable THEN position ELSE committed
    /\ phase' = "poll"
    /\ UNCHANGED <<position, batch, durable, work, ledger, outcome, dlq, got, skipped, torn,
                   faults, replays>>

\* compact_ledgers, every COMPACT_SECS: each ledger keeps one line per key (in
\* whatever order) by an atomic rename, and its index is built again.  Only a
\* MultiAdapter has compact_ledgers: a single sink is never compacted.
Compact ==
    /\ phase = "poll" /\ Len(SinkNames) > 1
    /\ \E s \in Sinks : Len(ledger[s]) # Cardinality(Latest(ledger[s])) \/ outcome[s] # Latest(ledger[s])
    /\ ledger' = [s \in Sinks |-> SetToSeq(Latest(ledger[s]))]
    /\ outcome' = [s \in Sinks |-> Latest(ledger[s])]
    /\ UNCHANGED <<committed, position, batch, durable, phase, work, dlq, got, skipped, torn,
                   faults, replays>>

-----------------------------------------------------------------------------
\* DurableSink.replay, an operator's call on one sink.  work.pending holds the
\* entries still to try and work.broken that one was delivered.

BeginReplay(s) ==
    /\ phase = "poll" /\ dlq[s] # <<>> /\ replays < MaxReplays
    /\ replays' = replays + 1
    /\ phase' = "replay"
    /\ work' = [Idle EXCEPT !.sinks = <<s>>, !.stage = "scan", !.pending = dlq[s]]
    /\ UNCHANGED <<committed, position, batch, durable, ledger, outcome, dlq, got, skipped,
                   torn, faults>>

ReplayOne ==
    LET s == Head(work.sinks) r == Head(work.pending)
        next == [work EXCEPT !.pending = Tail(@)]
    IN /\ work.stage = "scan" /\ work.pending # <<>>
       /\ \/ /\ DeliveredTo(s, r) /\ work' = next
             /\ UNCHANGED <<got, faults>>
          \/ /\ ~DeliveredTo(s, r)
             /\ \/ work' = next /\ UNCHANGED <<got, faults>>
                \/ /\ faults < MaxFaults /\ faults' = faults + 1
                   /\ Receives(s, {r}) /\ work' = next
                \/ /\ Receives(s, {r}) /\ UNCHANGED faults
                   /\ work' = [work EXCEPT !.stage = "transition"]
       /\ UNCHANGED <<committed, position, batch, durable, phase, ledger, outcome, dlq,
                      skipped, torn, replays>>

EndReplay == work' = Idle /\ phase' = "poll"

\* The audited transition of a dead letter; its failure ends the call.
ReplayTransition ==
    LET s == Head(work.sinks) lines == <<Line(Head(work.pending), s, "delivered")>>
    IN /\ work.stage = "transition"
       /\ \/ /\ Written(s, lines)
             /\ work' = [work EXCEPT !.stage = "scan", !.pending = Tail(@), !.broken = TRUE]
             /\ UNCHANGED phase
          \/ NotWritten(s, lines) /\ EndReplay
       /\ UNCHANGED <<committed, position, batch, durable, dlq, got, skipped, torn, replays>>

\* The entries that remain in the dead-letter file.
Kept(s) == Selected(dlq[s], {r \in LiveRecords : ~DeliveredTo(s, r)})

\* The file is opened with "w": from here to RewriteDlq it is empty.
TruncateDlq ==
    LET s == Head(work.sinks)
    IN /\ work.stage = "scan" /\ work.pending = <<>>
       /\ IF work.broken
          THEN /\ dlq' = [dlq EXCEPT ![s] = <<>>]
               /\ work' = [work EXCEPT !.stage = "rewrite", !.pending = Kept(s)]
               /\ UNCHANGED phase
          ELSE EndReplay /\ UNCHANGED dlq
       /\ UNCHANGED <<committed, position, batch, durable, ledger, outcome, got, skipped,
                      torn, faults, replays>>

RewriteDlq ==
    LET s == Head(work.sinks)
    IN /\ work.stage = "rewrite"
       /\ \/ /\ dlq' = [dlq EXCEPT ![s] = work.pending]
             /\ UNCHANGED <<faults, torn>>
          \/ /\ faults < MaxFaults /\ faults' = faults + 1
             /\ \E n \in 0 .. Len(work.pending) - 1 :
                  /\ dlq' = [dlq EXCEPT ![s] = SubSeq(work.pending, 1, n)]
                  /\ torn' = torn \cup {<<s, work.pending[i]>> : i \in n + 1 .. Len(work.pending)}
       /\ EndReplay
       /\ UNCHANGED <<committed, position, batch, durable, ledger, outcome, got, skipped, replays>>

-----------------------------------------------------------------------------
\* The process dies, or stops between two polls, and is started again.

Crash ==
    /\ phase # "down" /\ faults < MaxFaults
    /\ faults' = faults + 1
    /\ phase' = "down"
    /\ torn' = IF work.stage = "rewrite"
               THEN torn \cup {<<Head(work.sinks), r>> : r \in Range(work.pending)}
               ELSE torn
    /\ work' = Idle
    /\ batch' = [p \in Partitions |-> <<>>]
    /\ outcome' = [s \in Sinks |-> {}]
    /\ UNCHANGED <<committed, position, durable, ledger, dlq, got, skipped, replays>>

\* The consumer resumes at the committed offsets and each ledger is loaded.
Restart ==
    /\ phase = "down"
    /\ phase' = "poll"
    /\ position' = committed
    /\ outcome' = [s \in Sinks |-> LoadLedger(ledger[s])]
    /\ UNCHANGED <<committed, batch, durable, work, ledger, dlq, got, skipped, torn, faults,
                   replays>>

EmitStep == RecordWithheld \/ Dedup \/ Send \/ RecordAccepted \/ WriteDlq \/ MarkDead
ReplayStep == ReplayOne \/ ReplayTransition \/ TruncateDlq \/ RewriteDlq

Next ==
    \/ Poll
    \/ \E p \in Partitions : BeginPartition(p)
    \/ EmitStep
    \/ EndBatch
    \/ Compact
    \/ \E s \in Sinks : BeginReplay(s)
    \/ ReplayStep
    \/ Crash
    \/ Restart

Spec == Init /\ [][Next]_vars

\* The process is scheduled and restarted by its supervisor; receivers owe
\* nothing, and faults and replays need not happen.
Fairness ==
    /\ WF_vars(Poll) /\ WF_vars(EndBatch) /\ WF_vars(Restart)
    /\ WF_vars(\E p \in Partitions : BeginPartition(p))
    /\ WF_vars(EmitStep) /\ WF_vars(ReplayStep)

FairSpec == Spec /\ Fairness

-----------------------------------------------------------------------------
Work == [part : Partitions \cup {None}, sinks : Seq(Sinks), stage : Stages,
         pending : Seq(LiveRecords), failed : Seq(LiveRecords), attempt : 0 .. Retries,
         broken : BOOLEAN]

\* Every variable has the type its comment gives, offsets never run past the
\* topic or the consumer's position, and no sink is tried more than Retries + 1
\* times.
TypeOK ==
    /\ \A p \in Partitions : position[p] \in 0 .. Len(Topic[p])
    /\ \A p \in Partitions : committed[p] \in 0 .. position[p]
    /\ batch \in [Partitions -> Seq(Records)]
    /\ durable \in BOOLEAN
    /\ phase \in {"poll", "batch", "replay", "down"}
    /\ work \in Work
    /\ ledger \in [Sinks -> Seq(Lines)]
    /\ outcome \in [Sinks -> SUBSET Lines]
    /\ dlq \in [Sinks -> Seq(LiveRecords)]
    /\ got \in [Sinks -> [LiveRecords -> Nat]]
    /\ skipped \subseteq Records
    /\ torn \subseteq Sinks \X LiveRecords
    /\ faults \in 0 .. MaxFaults /\ replays \in 0 .. MaxReplays

\* What the ledger file of s says of r: the outcome of its last line.
FileSays(s, r, oc) ==
    \E i \in DOMAIN ledger[s] :
        /\ ledger[s][i] = Line(r, s, oc)
        /\ \A j \in i + 1 .. Len(ledger[s]) : ledger[s][j].key # obl_key(r, s)

\* The dead letters of s, the ones a rewrite has in hand included.
DeadLetters(s) ==
    Range(dlq[s]) \cup
    IF work.stage = "rewrite" /\ Head(work.sinks) = s THEN Range(work.pending) ELSE {}

\* The live records that are one obligation of s with r: the sink sends one of them.
SameObligation(s, r) == {q \in LiveRecords : obl_key(q, s) = obl_key(r, s)}

\* r is out of the system's hands at s: the receiver has it or the dead-letter
\* file does.
HandledAt(s, r) == \E q \in SameObligation(s, r) : got[s][q] > 0 \/ q \in DeadLetters(s)

\* r was a dead letter of s and an interrupted rewrite lost it.
TornAt(s, r) == \E q \in SameObligation(s, r) : <<s, q>> \in torn

CommittedRecords == {Topic[pi[1]][pi[2]] :
    pi \in {x \in UNION {{p} \X (1 .. Len(Topic[p])) : p \in Partitions} : x[2] <= committed[x[1]]}}

\* F07: a finding whose offset is committed was received or dead-lettered at
\* every sink.
CommittedNeverLost ==
    \A r \in CommittedRecords : Live(r) => \A s \in Sinks : HandledAt(s, r)

\* F07, less the two windows the code leaves open: a batch whose write failed
\* and that a later commit passes, and a dead-letter rewrite cut short.
CommittedHandled ==
    \A r \in CommittedRecords :
        Live(r) /\ r \notin skipped => \A s \in Sinks : HandledAt(s, r) \/ TornAt(s, r)

\* A receiver is never sent what the ledger file calls delivered, and only a
\* replay sends what it calls dead_lettered; a restart does not change that.
TerminalNotResent ==
    [][\A s \in Sinks : \A r \in LiveRecords :
          got'[s][r] > got[s][r] =>
              /\ ~FileSays(s, r, "delivered")
              /\ FileSays(s, r, "dead_lettered") => phase = "replay"]_vars

\* F07: every live record is received or dead-lettered at last, whatever the
\* receivers answer, unless a write for its batch failed.
EventuallyHandled ==
    \A r \in LiveRecords : \A s \in Sinks :
        <>(HandledAt(s, r) \/ r \in skipped)
=============================================================================
