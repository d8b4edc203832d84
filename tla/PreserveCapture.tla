--------------------------- MODULE PreserveCapture ---------------------------
(***************************************************************************)
(* The preserve (v2) captures: packets of the recent past are cut out of a *)
(* sensor's rolling memory ring under a local policy.                      *)
(*                                                                         *)
(* The orchestrator turns a capture intent into a signed directive after   *)
(* reserving it in its Budget; the agent of the sensor checks it again,    *)
(* reserves it in its own Budget, slices the ring, uploads and reports.    *)
(* Each Budget is a dictionary in memory and a file that every change      *)
(* rewrites; a failed rewrite raises after memory has changed.             *)
(*                                                                         *)
(* An intent is [n, tenant, sensor, fid]; its request id is a hash of      *)
(* everything but n, so an intent that is repeated keeps its id.  A packet *)
(* is the time it was read at.  One unit of time is longer than the        *)
(* auto-commit interval and than the orchestrator's lag.                   *)
(***************************************************************************)
EXTENDS Integers, Sequences, FiniteSets, SequencesExt

CONSTANTS
    Intents,          \* the capture intents on ndr.capture.request.v1
    Sensors,
    Hour,             \* 3600, the rolling window of a Budget
    Lifetime,         \* 60, how long a directive may be used
    Lookback,         \* lookback_s of the policy
    RingSecs,         \* ring_seconds
    RingSlots,        \* ring_bytes, in packets
    PolicyExpires,    \* expires_at of the policies
    MaxJobs,          \* max_jobs
    RequestsPerHour,  \* requests_per_hour
    BytesPerHour,     \* bytes_per_hour, in requests (each asks for max_bytes)
    TenantBytes,      \* the least tenant_bytes_per_hour, in requests
    MaxTime,          \* bound: units of time
    MaxFaults         \* bound: deaths, failed saves and lost answers

ASSUME PreserveAssumption ==
    /\ {Hour, Lifetime, Lookback, RingSecs, RingSlots, PolicyExpires, MaxJobs,
        RequestsPerHour, BytesPerHour, TenantBytes} \subseteq Nat \ {0}
    /\ Lifetime < Hour
    /\ MaxTime \in Nat /\ MaxFaults \in Nat
    /\ \A i \in Intents : DOMAIN i = {"n", "tenant", "sensor", "fid"} /\ i.sensor \in Sensors

VARIABLES
    now,
    intents,     \* intents not yet read by the orchestrator
    recent,      \* intents and statuses read since the last commit
    sending,     \* directive the orchestrator has reserved and not sent, as a set
    central,     \* the orchestrator's Budget.entries
    centralDisk, \* and its file
    directives,  \* ndr.capture.request.v2: not yet read by their agent
    taken,       \* directives agents have read since the last commit
    job,         \* [sensor -> what its agent's loop is doing]
    local,       \* [sensor -> the agent's Budget.entries]
    localDisk,   \* and its file
    ring,        \* [sensor -> the packets of the ring, oldest first]
    closed,      \* [sensor -> the ring was closed]
    unread,      \* statuses the orchestrator has not read
    answers,     \* every terminal status ever sent, by intent
    uploads,     \* objects written to the store
    doubtful,    \* ghost: directives whose send raised after they had left
    faults

budgetVars == <<central, centralDisk, local, localDisk>>
ringVars == <<ring, closed>>
vars == <<now, intents, recent, sending, budgetVars, directives, taken, job, ringVars, unread,
          answers, uploads, doubtful, faults>>

Req(i) == <<i.tenant, i.sensor, i.fid>>
Reqs == {Req(i) : i \in Intents}
Idle == [stage |-> "idle"]
Down == [stage |-> "down"]

Init ==
    /\ now = 0
    /\ intents \in SUBSET Intents /\ recent = {} /\ sending = {}
    /\ central = {} /\ centralDisk = {}
    /\ directives = {} /\ taken = {}
    /\ job = [s \in Sensors |-> Idle]
    /\ local = [s \in Sensors |-> {}] /\ localDisk = [s \in Sensors |-> {}]
    /\ ring = [s \in Sensors |-> <<>>] /\ closed = [s \in Sensors |-> FALSE]
    /\ unread = {} /\ answers = {} /\ uploads = {}
    /\ doubtful = {}
    /\ faults = 0

Fault == faults < MaxFaults /\ faults' = faults + 1
-----------------------------------------------------------------------------
(* Budget.                                                                 *)

\* Mutant: every reservation leaves after an hour.
PrunedAll(entries) == {e \in entries : now - e.ts < Hour}
\* reserve forgets what is neither active nor of the last hour.
Pruned(entries) == {e \in entries : e.active \/ now - e.ts < Hour}

Active(entries) == {e \in entries : e.active}
OfSensor(entries, r) == {e \in entries : e.req[2] = r[2]}
OfTenant(entries, r) == {e \in entries : e.req[1] = r[1]}

Duplicate(entries, r) == \E e \in entries : e.req = r

\* Mutant: the tenant's bytes are not added up.
ExhaustedPerSensor(entries, r) ==
    \/ Cardinality(Active(OfSensor(entries, r))) >= MaxJobs
    \/ Cardinality(OfSensor(entries, r)) >= RequestsPerHour
    \/ Cardinality(OfSensor(entries, r)) + 1 > BytesPerHour
Exhausted(entries, r) ==
    \/ Cardinality(Active(OfSensor(entries, r))) >= MaxJobs
    \/ Cardinality(OfSensor(entries, r)) >= RequestsPerHour
    \/ Cardinality(OfSensor(entries, r)) + 1 > BytesPerHour
    \/ Cardinality(OfTenant(entries, r)) + 1 > TenantBytes
Admits(entries, r) == ~Duplicate(Pruned(entries), r) /\ ~Exhausted(Pruned(entries), r)

Reserved(entries, r) == Pruned(entries) \cup {[req |-> r, ts |-> now, active |-> TRUE]}

\* Mutant: a finished reservation is refunded.
Refunded(entries, r) == {e \in entries : e.req # r}
\* finish: the reservation is no longer active; it stays charged.
Finished(entries, r) == {IF e.req = r THEN [e EXCEPT !.active = FALSE] ELSE e : e \in entries}
-----------------------------------------------------------------------------
(* The orchestrator.                                                       *)

Directive(i) ==
    [intent |-> i, req |-> Req(i), start |-> now - Lookback, end |-> now,
     expires |-> now + Lifetime]
Answer(i, state) == [intent |-> i, state |-> state]

PolicyValid(t) == t < PolicyExpires

\* A refusal carries no request id: read back, it finishes nothing.
Refuse(i) == answers' = answers \cup {Answer(i, "refused")} /\ UNCHANGED unread

\* decide_preserve up to its reservation: health, policy, budget.
HandleIntent(i) ==
    /\ sending = {} /\ i \in intents
    /\ intents' = intents \ {i}
    /\ recent' = recent \cup {i}
    /\ \/ /\ PolicyValid(now) /\ Admits(central, Req(i))
          /\ central' = Reserved(central, Req(i))
          /\ \/ /\ centralDisk' = central'
                /\ sending' = {Directive(i)}
                /\ UNCHANGED <<unread, answers, faults>>
             \/ /\ Fault      \* _save raises, the file replaced or not; the entry stays
                /\ centralDisk' \in {centralDisk, central'}
                /\ Refuse(i)
                /\ UNCHANGED sending
       \/ \* unhealthy, not admitted, or a duplicate: reserve prunes all the same
          /\ Refuse(i)
          /\ \/ UNCHANGED central
             \/ /\ PolicyValid(now) /\ ~Admits(central, Req(i))
                /\ central' = Pruned(central)
          /\ UNCHANGED <<centralDisk, sending, faults>>
    /\ UNCHANGED <<now, local, localDisk, directives, taken, job, ringVars, uploads, doubtful>>

\* producer.send(...).get(timeout=10).
SendDirective ==
    /\ \E d \in sending :
         \/ /\ directives' = directives \cup {d}
            /\ UNCHANGED <<central, centralDisk, unread, answers, doubtful, faults>>
         \/ /\ Fault          \* it raises; the directive may have left
            /\ central' = Finished(central, d.req)
            /\ centralDisk' = central'
            /\ Refuse(d.intent)
            /\ \/ directives' = directives \cup {d} /\ doubtful' = doubtful \cup {d}
               \/ UNCHANGED <<directives, doubtful>>
    /\ sending' = {}
    /\ UNCHANGED <<now, intents, recent, local, localDisk, taken, job, ringVars, uploads>>

\* _handle_completion of a preserve status.
HandleStatus(st) ==
    /\ sending = {} /\ st \in unread
    /\ unread' = unread \ {st}
    /\ recent' = recent \cup {st}
    /\ central' = Finished(central, Req(st.intent))
    /\ centralDisk' = IF Duplicate(central, Req(st.intent)) THEN central' ELSE centralDisk
    /\ UNCHANGED <<now, intents, sending, local, localDisk, directives, taken, job, ringVars,
                   answers, uploads, doubtful, faults>>

\* The process dies (a finish that cannot be saved ends it too) and starts again
\* with its file.  poll() commits only what earlier polls returned, so the intent
\* in hand comes again, and others that were read may.
OrchestratorCrash ==
    /\ Fault
    /\ central' = centralDisk
    /\ sending' = {}
    /\ \E again \in SUBSET recent :
         /\ Cardinality(again) <= 1
         /\ intents' = intents \cup (again \cap Intents) \cup {d.intent : d \in sending}
         /\ unread' = unread \cup (again \ Intents)
    /\ recent' = {}
    /\ UNCHANGED <<now, centralDisk, local, localDisk, directives, taken, job, ringVars, answers,
                   uploads, doubtful>>
-----------------------------------------------------------------------------
(* The packet ring.                                                        *)

\* The oldest packets go while they are too old.
Fresh(s) ==
    LET gone == CHOOSE n \in 0 .. Len(ring[s]) :
                    /\ \A k \in 1 .. n : ring[s][k] <= now - RingSecs
                    /\ n < Len(ring[s]) => ring[s][n + 1] > now - RingSecs
    IN  SubSeq(ring[s], gone + 1, Len(ring[s]))
\* PacketRing.expire: what is left of the ring.
Expired(s) == IF closed[s] \/ ~PolicyValid(now) THEN <<>> ELSE Fresh(s)

\* The oldest packet gives way.
Room(packets) == IF Len(packets) = RingSlots THEN Tail(packets) ELSE packets

\* append, under the lock, after expire.
Packet(s) ==
    /\ job[s] # Down /\ ~closed[s]
    /\ ring' = [ring EXCEPT ![s] = IF PolicyValid(now) THEN Append(Room(Expired(s)), now)
                                                       ELSE Expired(s)]
    /\ ring' # ring
    /\ UNCHANGED <<now, intents, recent, sending, budgetVars, directives, taken, job, closed,
                   unread, answers, uploads, doubtful, faults>>

\* The thread that expires the ring even on a quiet interface, and closes it
\* when the policy has expired.
ExpireThread(s) ==
    /\ job[s] # Down
    /\ ring' = [ring EXCEPT ![s] = Expired(s)]
    /\ closed' = [closed EXCEPT ![s] = @ \/ ~PolicyValid(now)]
    /\ <<ring, closed>>' # <<ring, closed>>
    /\ UNCHANGED <<now, intents, recent, sending, budgetVars, directives, taken, job, unread,
                   answers, uploads, doubtful, faults>>

\* tcpdump ends or its stream is malformed: the reader closes the ring.
RingStops(s) ==
    /\ Fault
    /\ job[s] # Down /\ ~closed[s]
    /\ ring' = [ring EXCEPT ![s] = <<>>]
    /\ closed' = [closed EXCEPT ![s] = TRUE]
    /\ UNCHANGED <<now, intents, recent, sending, budgetVars, directives, taken, job, unread,
                   answers, uploads, doubtful>>
-----------------------------------------------------------------------------
(* The agent.  Its loop handles one directive at a time.                   *)

Goto(s, j) == job' = [job EXCEPT ![s] = j]
Failing(d) == [stage |-> "report", d |-> d, state |-> "failed"]

\* authorize: policy, lifetime and window of a directive; its MAC is good.
authorize(d) == PolicyValid(now) /\ now < d.expires /\ d.start >= now - RingSecs

\* preserve() up to its reservation; the bucket or the disk may refuse as well.
TakeDirective(s, d) ==
    /\ job[s] = Idle /\ d \in directives /\ d.req[2] = s
    /\ directives' = directives \ {d}
    /\ taken' = taken \cup {d}
    /\ \/ authorize(d) /\ Goto(s, [stage |-> "reserve", d |-> d])
       \/ Goto(s, Failing(d))
    /\ UNCHANGED <<now, intents, recent, sending, budgetVars, ringVars, unread, answers, uploads,
                   doubtful, faults>>

\* budget.reserve; when it raises, nothing is finished later.
Reserve(s) ==
    /\ job[s].stage = "reserve"
    /\ LET d == job[s].d IN
         \/ /\ Admits(local[s], d.req)
            /\ local' = [local EXCEPT ![s] = Reserved(@, d.req)]
            /\ \/ /\ localDisk' = [localDisk EXCEPT ![s] = local'[s]]
                  /\ Goto(s, [stage |-> "slice", d |-> d, ts |-> now])
                  /\ UNCHANGED faults
               \/ /\ Fault
                  /\ Goto(s, Failing(d))
                  /\ localDisk' \in {localDisk, [localDisk EXCEPT ![s] = local'[s]]}
         \/ /\ ~Admits(local[s], d.req)
            /\ local' = [local EXCEPT ![s] = Pruned(@)]
            /\ Goto(s, Failing(d))
            /\ UNCHANGED <<localDisk, faults>>
    /\ UNCHANGED <<now, intents, recent, sending, central, centralDisk, directives, taken,
                   ringVars, unread, answers, uploads, doubtful>>

InWindow(d, at) == d.start <= at /\ at < d.end

\* ring.slice (which expires first), the carve, and the upload.  The carve may
\* leave nothing, and put_object may fail, having stored the object or not.
Slice(s) ==
    /\ job[s].stage = "slice"
    /\ ring' = [ring EXCEPT ![s] = Expired(s)]
    /\ LET d == job[s].d
           selected == \E k \in 1 .. Len(Expired(s)) : InWindow(d, Expired(s)[k])
           end(state) == Goto(s, [stage |-> "finish", d |-> d, state |-> state])
           stored == uploads' = uploads \cup
               {[req |-> d.req, ts |-> job[s].ts, asked |-> d.end, intent |-> d.intent]}
       IN  \/ selected /\ stored /\ end("completed") /\ UNCHANGED faults
           \/ selected /\ Fault /\ stored /\ end("failed")
           \/ end("failed") /\ UNCHANGED <<uploads, faults>>
    /\ UNCHANGED <<now, intents, recent, sending, budgetVars, directives, taken, closed, unread,
                   answers, doubtful>>

\* budget.finish in preserve's finally: when its save fails, the exception
\* replaces the result.
Finish(s) ==
    /\ job[s].stage = "finish"
    /\ local' = [local EXCEPT ![s] = Finished(@, job[s].d.req)]
    /\ \/ /\ localDisk' = [localDisk EXCEPT ![s] = local'[s]]
          /\ Goto(s, [job[s] EXCEPT !.stage = "report"])
          /\ UNCHANGED faults
       \/ /\ Fault
          /\ Goto(s, Failing(job[s].d))
          /\ localDisk' \in {localDisk, [localDisk EXCEPT ![s] = local'[s]]}
    /\ UNCHANGED <<now, intents, recent, sending, central, centralDisk, directives, taken,
                   ringVars, unread, answers, uploads, doubtful>>

\* Mutant: a failed preservation is only audited.
ReportCompleted(s) ==
    /\ job[s].stage = "report"
    /\ LET st == Answer(job[s].d.intent, job[s].state)
           sent == IF job[s].state = "completed" THEN {st} ELSE {}
       IN  answers' = answers \cup sent /\ unread' = unread \cup sent
    /\ Goto(s, Idle)
    /\ UNCHANGED <<now, intents, recent, sending, budgetVars, directives, taken, ringVars,
                   uploads, doubtful, faults>>
\* _preserve_capture: the terminal status, flushed.
Report(s) ==
    /\ job[s].stage = "report"
    /\ LET st == Answer(job[s].d.intent, job[s].state)
       IN  answers' = answers \cup {st} /\ unread' = unread \cup {st}
    /\ Goto(s, Idle)
    /\ UNCHANGED <<now, intents, recent, sending, budgetVars, directives, taken, ringVars,
                   uploads, doubtful, faults>>

InHand(s) == IF job[s] \in {Idle, Down} THEN {} ELSE {job[s].d}

\* The directive in hand comes again, and others that were read may.
AgentCrash(s) ==
    /\ job[s] # Down
    /\ Fault
    /\ \E again \in SUBSET {d \in taken : d.req[2] = s} :
         /\ Cardinality(again) <= 1
         /\ directives' = directives \cup again \cup InHand(s)
    /\ Goto(s, Down)
    /\ local' = [local EXCEPT ![s] = {}]
    /\ ring' = [ring EXCEPT ![s] = <<>>]
    /\ taken' = {d \in taken : d.req[2] # s}
    /\ UNCHANGED <<now, intents, recent, sending, central, centralDisk, localDisk, closed, unread,
                   answers, uploads, doubtful>>

\* main() loads the budget and opens a ring, which an expired policy refuses.
AgentStart(s) ==
    /\ job[s] = Down /\ PolicyValid(now)
    /\ Goto(s, Idle)
    /\ local' = [local EXCEPT ![s] = localDisk[s]]
    /\ closed' = [closed EXCEPT ![s] = FALSE]
    /\ UNCHANGED <<now, intents, recent, sending, central, centralDisk, localDisk, directives,
                   taken, ring, unread, answers, uploads, doubtful, faults>>
-----------------------------------------------------------------------------
\* A unit of time: what was read is committed, and statuses have been read.
Tick ==
    /\ now < MaxTime /\ unread = {}
    /\ now' = now + 1
    /\ recent' = {}
    /\ taken' = {}
    /\ UNCHANGED <<intents, sending, budgetVars, directives, job, ringVars, unread, answers,
                   uploads, doubtful, faults>>

Orchestrate ==
    \/ \E i \in intents : HandleIntent(i)
    \/ SendDirective
    \/ \E st \in unread : HandleStatus(st)
JobStep(s) ==
    \/ \E d \in directives : TakeDirective(s, d)
    \/ Reserve(s) \/ Slice(s) \/ Finish(s) \/ Report(s)

Next ==
    \/ Tick
    \/ Orchestrate \/ OrchestratorCrash
    \/ \E s \in Sensors : \/ JobStep(s) \/ AgentCrash(s) \/ AgentStart(s)
                          \/ Packet(s) \/ ExpireThread(s) \/ RingStops(s)

Spec == Init /\ [][Next]_vars

\* Both services poll and run on, and a dead agent is started again.  Neither
\* time, packets nor faults need come.
Fairness ==
    /\ WF_vars(Orchestrate)
    /\ \A s \in Sensors : WF_vars(JobStep(s)) /\ WF_vars(AgentStart(s))
FairSpec == Spec /\ Fairness
-----------------------------------------------------------------------------
(* Properties.                                                             *)

Directives == [intent : Intents, req : Reqs, start : Int, end : Nat, expires : Nat]
Entries == [req : Reqs, ts : 0 .. MaxTime, active : BOOLEAN]

\* Every variable has its type; a ring never outgrows its bytes.
TypeOK ==
    /\ now \in 0 .. MaxTime /\ faults \in 0 .. MaxFaults
    /\ intents \subseteq Intents
    /\ sending \cup directives \cup taken \cup doubtful \subseteq Directives
    /\ central \cup centralDisk \subseteq Entries
    /\ \A s \in Sensors : local[s] \cup localDisk[s] \subseteq Entries
    /\ \A s \in Sensors : job[s].stage \in {"idle", "down", "reserve", "slice", "finish", "report"}
    /\ \A s \in Sensors : Len(ring[s]) <= RingSlots /\ Range(ring[s]) \subseteq 0 .. MaxTime
    /\ closed \in [Sensors -> BOOLEAN]
    /\ unread \cup answers \subseteq [intent : Intents, state : {"refused", "failed", "completed"}]

Charged(objects, t) == {u \in objects : t - Hour < u.asked /\ u.asked <= t}

\* The hourly limits hold for what is really uploaded, per sensor and per tenant:
\* no redelivery, death, failed save, lost answer or early finish buys a byte.
HourlyBytes ==
    \A t \in 0 .. now :
        /\ \A s \in Sensors :
              Cardinality(Charged({u \in uploads : u.req[2] = s}, t)) <= BytesPerHour
        /\ \A i \in Intents :
              Cardinality(Charged({u \in uploads : u.req[1] = i.tenant}, t)) <= TenantBytes

\* A request is carried out at most once an hour, through every redelivery of its
\* intent or its directive and every death; so no reader of the last hour loses
\* the object it was told of.
PreservedOnce ==
    \A u, v \in uploads : u.req = v.req /\ u # v => u.ts - v.ts >= Hour \/ v.ts - u.ts >= Hour

Answered(r) == \E a \in answers : Req(a.intent) = r /\ a.state # "refused"
Outstanding == (directives \cup UNION {InHand(s) : s \in Sensors}) \ doubtful

\* A directive that is out holds a slot at the orchestrator, in memory and in its
\* file, so a restart admits no more than max_jobs, until a status for its request
\* id has been sent: successive intents share the id, so a late status of one
\* frees the slot of the next.  A directive that left although its send raised
\* has no slot.
DirectivesReserved ==
    \A d \in Outstanding : Answered(d.req) \/ \A entries \in {central, centralDisk} :
        \E e \in entries : e.req = d.req /\ e.active

\* Every intent gets a terminal status, whatever dies, unless the policy ended.
IntentsAnswered ==
    intents = Intents =>
        <>(~PolicyValid(now) \/ \A i \in Intents : \E a \in answers : a.intent = i)

=============================================================================
