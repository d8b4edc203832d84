----------------------------- MODULE CaptureLoop -----------------------------
(***************************************************************************)
(* The packet-capture loop: capture-orchestrator admits capture requests   *)
(* under a per-sensor budget and issues arm directives; the capture-agent  *)
(* of each sensor runs one thread per directive that arms a Suricata       *)
(* dataset, waits, disarms, carves the finding's packets out of the shared *)
(* pcap log, uploads them and reports; zeek-central turns an upload into   *)
(* an enrichment result.                                                   *)
(*                                                                         *)
(* A request is [id, tenant, sensor, profile, value, fid]; a directive is  *)
(* [req, n, take], the n-th one issued for its request in its take-th      *)
(* delivery.  Packets are [at, of], the sensor that recorded them and the  *)
(* profile and value they match; an upload is one unit of bytes.  Topics   *)
(* are sets of unread messages.                                            *)
(***************************************************************************)
EXTENDS Integers, FiniteSets

CONSTANTS
    Requests,    \* the capture requests of the finding service
    Sensors,
    Profiles,    \* the profiles of MANIFEST and PROFILE_DATASET
    MaxJobs,     \* MAX_JOBS of the orchestrator
    MaxBytes,    \* MAX_BYTES, in uploads
    LocalMax,    \* AGENT_MAX_CONCURRENT
    MaxCrashes   \* bound: deaths of the orchestrator or of an agent

CaptureAssumption ==
    /\ MaxJobs \in Nat \ {0} /\ MaxBytes \in Nat \ {0} /\ LocalMax \in Nat \ {0}
    /\ MaxCrashes \in Nat
    /\ \A r \in Requests : DOMAIN r = {"id", "tenant", "sensor", "profile", "value", "fid"}
    /\ \A r \in Requests : r.sensor \in Sensors

VARIABLES
    requests,   \* ndr.capture.request.v1: not yet handled
    issued,     \* how many directives were issued per request
    budget,     \* the orchestrator's _budget
    arms,       \* ndr.capture.arm.v1: not yet taken by the agent
    jobs,       \* the agents' capture threads
    active,     \* each agent's _active
    dataset,    \* values in the capture datasets of each sensor's Suricata
    pcap,       \* the packets in each sensor's pcap log
    temp,       \* /tmp/cap-<fid>.pcap on each sensor: its packets ({}: none, or no file)
    store,      \* uploaded objects
    statuses,   \* ndr.capture.status.v1: everything published
    unread,     \* the statuses the orchestrator has not read
    enrich,     \* ndr.enrichment.request.v1: not yet handled
    results,    \* ndr.enrichment.result.v1: the results with evidence
    lost,       \* history: directives that died with their agent
    restarts,   \* history: deaths of the orchestrator, each leaving an empty budget
    repeats,    \* history, per sensor: finished directives and read statuses Kafka delivers again
    crashes     \* bounded by MaxCrashes

ghosts == <<lost, restarts, repeats, crashes>>
vars == <<requests, issued, budget, arms, jobs, active, dataset, pcap, temp, store, statuses,
          unread, enrich, results, ghosts>>

Fids == {r.fid : r \in Requests}
NoBudget == [active |-> 0, bytes |-> 0]

Init ==
    /\ requests \in SUBSET Requests
    /\ issued = [r \in Requests |-> 0]
    /\ budget = [s \in Sensors |-> NoBudget]
    /\ arms = {} /\ jobs = {}
    /\ active = [s \in Sensors |-> 0]
    /\ dataset = [s \in Sensors |-> {}]
    /\ pcap = [s \in Sensors |-> {}]
    /\ temp = [s \in Sensors |-> [f \in Fids |-> {}]]
    /\ store = {} /\ statuses = {} /\ unread = {} /\ enrich = {} /\ results = {}
    /\ lost = {} /\ restarts = 0 /\ repeats = [s \in Sensors |-> 0]
    /\ crashes = 0

-----------------------------------------------------------------------------
\* The orchestrator.

capability_gate(r) == r.profile \in Profiles

\* Mutant: one job too many is admitted.
LooseBudgetGate(b) == b.active <= MaxJobs /\ b.bytes < MaxBytes

budget_gate(b) == b.active < MaxJobs /\ b.bytes < MaxBytes

\* decide_arm: capability, health, budget; the health reading is the sensor's.
decide_arm(r, healthy) == capability_gate(r) /\ healthy /\ budget_gate(budget[r.sensor])

\* The terminal states that free a slot.
FreeingStates == {"completed", "failed", "rejected", "refused"}

Status(a, state) == [arm |-> a, state |-> state]

\* _handle_request.  Reading its own decision (a status without "state") back
\* does nothing, so a decision is published as already read.
HandleRequest(r) ==
    /\ r \in requests
    /\ requests' = requests \ {r}
    /\ \E healthy \in BOOLEAN :
         LET a == [req |-> r, n |-> issued[r] + 1, take |-> 0]
         IN IF decide_arm(r, healthy)
            THEN /\ issued' = [issued EXCEPT ![r] = @ + 1]
                 /\ budget' = [budget EXCEPT ![r.sensor].active = @ + 1]
                 /\ arms' = arms \cup {a}
                 /\ statuses' = statuses \cup {Status(a, "armed")}
            ELSE /\ statuses' = statuses \cup {Status(a, "denied")}
                 /\ UNCHANGED <<issued, budget, arms>>
    /\ UNCHANGED <<jobs, active, dataset, pcap, temp, store, unread, enrich, results, ghosts>>

\* What an agent's terminal status does to the sensor's budget.
Freed(b, st) ==
    [active |-> IF b.active > 0 THEN b.active - 1 ELSE 0,
     bytes |-> b.bytes + IF st.state = "completed" THEN 1 ELSE 0]

\* _handle_completion.
HandleCompletion(st) ==
    /\ st \in unread
    /\ unread' = unread \ {st}
    /\ budget' = IF st.state \in FreeingStates
                 THEN [budget EXCEPT ![st.arm.req.sensor] = Freed(@, st)]
                 ELSE budget
    /\ UNCHANGED <<requests, issued, arms, jobs, active, dataset, pcap, temp, store, statuses,
                   enrich, results, ghosts>>

-----------------------------------------------------------------------------
\* The agent.

Publish(sts) == statuses' = statuses \cup sts /\ unread' = unread \cup sts

JobsOf(s) == {j \in jobs : j.arm.req.sensor = s}
Entry(r) == <<r.profile, r.value>>
At(j, stage) == j \in jobs /\ j.stage = stage
Step(j, new) == jobs' = (jobs \ {j}) \cup {new}

\* validate: profile and value of a directive.
validate(r) == r.profile \in Profiles /\ r.value # ""

budget_ok(n) == n < LocalMax

\* One directive of the agent's main loop: rejected, refused, or a new thread.
TakeDirective(a) ==
    LET r == a.req IN
    /\ a \in arms
    /\ arms' = arms \ {a}
    /\ IF validate(r) /\ budget_ok(active[r.sensor])
       THEN /\ active' = [active EXCEPT ![r.sensor] = @ + 1]
            /\ jobs' = jobs \cup {[arm |-> a, stage |-> "arm", touched |-> FALSE,
                                   carved |-> FALSE, outcome |-> "failed"]}
            /\ UNCHANGED <<statuses, unread>>
       ELSE /\ Publish({Status(a, IF validate(r) THEN "refused" ELSE "rejected")})
            /\ UNCHANGED <<active, jobs>>
    /\ UNCHANGED <<requests, issued, budget, dataset, pcap, temp, store, enrich, results, ghosts>>

\* dataset_add succeeds, or fails and the thread reports a setup failure.
Arm(j) ==
    /\ At(j, "arm")
    /\ \/ /\ dataset' = [dataset EXCEPT ![j.arm.req.sensor] = @ \cup {Entry(j.arm.req)}]
          /\ Step(j, [j EXCEPT !.stage = "window"])
       \/ Step(j, [j EXCEPT !.stage = "report"]) /\ UNCHANGED dataset
    /\ UNCHANGED <<requests, issued, budget, arms, active, pcap, temp, store, statuses, unread,
                   enrich, results, ghosts>>

\* Suricata logs a packet of an armed value: every open window sees the file
\* touched.
Packet(s, e) ==
    /\ e \in dataset[s]
    /\ pcap' = [pcap EXCEPT ![s] = @ \cup {[at |-> s, of |-> e]}]
    /\ jobs' = {IF j.arm.req.sensor = s /\ j.stage = "window" THEN [j EXCEPT !.touched = TRUE]
                ELSE j : j \in jobs}
    /\ <<pcap, jobs>>' # <<pcap, jobs>>
    /\ UNCHANGED <<requests, issued, budget, arms, active, dataset, temp, store, statuses, unread,
                   enrich, results, ghosts>>

\* The window ends (TTL, byte cap or stop) and the value leaves the dataset,
\* unless dataset_remove fails, which is only logged.
Disarm(j) ==
    LET s == j.arm.req.sensor e == Entry(j.arm.req) IN
    /\ At(j, "window")
    /\ Step(j, [j EXCEPT !.stage = "carve"])
    /\ \/ dataset' = [dataset EXCEPT ![s] = @ \ {e}]
       \/ e \in dataset[s] /\ UNCHANGED dataset
    /\ UNCHANGED <<requests, issued, budget, arms, active, pcap, temp, store, statuses, unread,
                   enrich, results, ghosts>>

\* The packets of a directive's own profile and value in the shared log.
Own(r) == {p \in pcap[r.sensor] : p.of = Entry(r)}

\* _isolate, first half: with no packets the capture fails; an IP capture has tcpdump
\* write its packets to the temp file of the finding's id, or write nothing; the other
\* profiles have no filter and ship the shared file.
Carve(j) ==
    LET r == j.arm.req IN
    /\ At(j, "carve")
    /\ \/ Step(j, [j EXCEPT !.stage = "report"]) /\ UNCHANGED temp
       \/ /\ j.touched /\ r.profile = "ip"
          /\ Step(j, [j EXCEPT !.stage = "isolate"])
          /\ temp' \in {temp, [temp EXCEPT ![r.sensor][r.fid] = Own(r)]}
       \/ /\ j.touched /\ r.profile # "ip"
          /\ Step(j, [j EXCEPT !.stage = "upload"])
          /\ UNCHANGED temp
    /\ UNCHANGED <<requests, issued, budget, arms, active, dataset, pcap, store, statuses, unread,
                   enrich, results, ghosts>>

\* _isolate, second half: what the temp file holds by now is shipped; the shared file
\* is when that is nothing.
Isolate(j) ==
    /\ At(j, "isolate")
    /\ Step(j, [j EXCEPT !.stage = "upload", !.carved = temp[j.arm.req.sensor][j.arm.req.fid] # {}])
    /\ UNCHANGED <<requests, issued, budget, arms, active, dataset, pcap, temp, store, statuses,
                   unread, enrich, results, ghosts>>

\* Mutant: objects are keyed by finding alone.
SharedKey(r) == <<"ndr-pcap", r.fid, r.profile>>

\* object_key / pcap_key: the directive advertises a key in its own tenant's
\* namespace, which the agent honours.
pcap_key(r) == <<r.tenant, r.fid, r.profile>>

\* The uploaded file, as it is when it is read.
Object(j) ==
    LET r == j.arm.req
    IN  [key |-> pcap_key(r), of |-> Entry(r),
         content |-> IF j.carved THEN temp[r.sensor][r.fid] ELSE pcap[r.sensor]]

\* upload_file and getsize: either may fail.
Upload(j) ==
    /\ At(j, "upload")
    /\ LET kept == {o \in store : o.key # pcap_key(j.arm.req)}
       IN  \/ /\ Step(j, [j EXCEPT !.stage = "report"])
              /\ store' \in {store, kept \cup {Object(j)}}
           \/ /\ Step(j, [j EXCEPT !.stage = "report", !.outcome = "completed"])
              /\ store' = kept \cup {Object(j)}
    /\ UNCHANGED <<requests, issued, budget, arms, active, dataset, pcap, temp, statuses, unread,
                   enrich, results, ghosts>>

\* _capture's finally removes a carved file, whoever wrote it last.
Cleaned(j) == IF j.carved THEN [temp EXCEPT ![j.arm.req.sensor][j.arm.req.fid] = {}] ELSE temp

\* Mutant: a failed capture is only logged.
ReportSuccessOnly(j) ==
    /\ At(j, "report")
    /\ IF j.outcome = "completed" THEN Publish({Status(j.arm, j.outcome)}) ELSE Publish({})
    /\ enrich' = IF j.outcome = "completed" THEN enrich \cup {j.arm} ELSE enrich
    /\ Step(j, [j EXCEPT !.stage = "exit"])
    /\ temp' = Cleaned(j)
    /\ UNCHANGED <<requests, issued, budget, arms, active, dataset, pcap, store, results, ghosts>>

\* producer.flush().
Report(j) ==
    /\ At(j, "report")
    /\ Publish({Status(j.arm, j.outcome)})
    /\ enrich' = IF j.outcome = "completed" THEN enrich \cup {j.arm} ELSE enrich
    /\ Step(j, [j EXCEPT !.stage = "exit"])
    /\ temp' = Cleaned(j)
    /\ UNCHANGED <<requests, issued, budget, arms, active, dataset, pcap, store, results, ghosts>>

Exit(j) ==
    /\ At(j, "exit")
    /\ jobs' = jobs \ {j}
    /\ active' = [active EXCEPT ![j.arm.req.sensor] = @ - 1]
    /\ UNCHANGED <<requests, issued, budget, arms, dataset, pcap, temp, store, statuses, unread,
                   enrich, results, ghosts>>

-----------------------------------------------------------------------------
\* zeek-central: download the object and run Zeek, or report a failure.
Enrich(a) ==
    /\ a \in enrich
    /\ enrich' = enrich \ {a}
    /\ \E o \in {x \in store : x.key = pcap_key(a.req)} :
         results' = results \cup {[req |-> a.req, content |-> o.content]}
    /\ UNCHANGED <<requests, issued, budget, arms, jobs, active, dataset, pcap, temp, store,
                   statuses, unread, ghosts>>

\* A download or Zeek run that fails yields a result without evidence.
EnrichFails(a) ==
    /\ a \in enrich
    /\ enrich' = enrich \ {a}
    /\ UNCHANGED <<requests, issued, budget, arms, jobs, active, dataset, pcap, temp, store,
                   statuses, unread, results, ghosts>>

-----------------------------------------------------------------------------
\* Deaths.  Offsets are auto-committed, so what was read and not committed comes
\* again, finished or not, and what was committed and not finished does not.

OrchestratorCrash ==
    /\ crashes < MaxCrashes /\ crashes' = crashes + 1
    /\ restarts' = restarts + 1
    /\ budget' = [s \in Sensors |-> NoBudget]
    /\ \E again \in SUBSET (Requests \ requests), old \in SUBSET (statuses \ unread) :
         /\ \A st \in old : st.state \in FreeingStates
         /\ Cardinality(again) + Cardinality(old) <= 1
         /\ requests' = requests \cup again
         /\ unread' = unread \cup old
         /\ repeats' = [s \in Sensors |->
                           repeats[s] + Cardinality({st \in old : st.arm.req.sensor = s})]
    /\ UNCHANGED <<issued, arms, jobs, active, dataset, pcap, temp, store, statuses, enrich,
                   results, lost>>

\* The directives of sensor s that were answered.
Finished(s) ==
    {st.arm : st \in {x \in statuses : x.arm.req.sensor = s /\ x.state \in FreeingStates}}

\* Threads are daemons: a stop of the agent ends them as a crash does.  The temp
\* files stay.
AgentCrash(s) ==
    LET gone == {j.arm : j \in {x \in JobsOf(s) : x.stage # "exit"}} IN
    /\ crashes < MaxCrashes /\ crashes' = crashes + 1
    /\ \E again \in SUBSET gone, done \in SUBSET Finished(s) :
         /\ Cardinality(done) <= 1
         /\ arms' = arms \cup {[a EXCEPT !.take = crashes + 1] : a \in again \cup done}
         /\ lost' = lost \cup (gone \ again)
         /\ repeats' = [repeats EXCEPT ![s] = @ + Cardinality(done)]
    /\ jobs' = jobs \ JobsOf(s)
    /\ active' = [active EXCEPT ![s] = 0]
    /\ UNCHANGED <<requests, issued, budget, dataset, pcap, temp, store, statuses, unread, enrich,
                   results, restarts>>

JobStep(j) == Arm(j) \/ Disarm(j) \/ Carve(j) \/ Isolate(j) \/ Upload(j) \/ Report(j) \/ Exit(j)

Next ==
    \/ \E r \in requests : HandleRequest(r)
    \/ \E st \in unread : HandleCompletion(st)
    \/ \E a \in arms : TakeDirective(a)
    \/ \E j \in jobs : JobStep(j)
    \/ \E s \in Sensors : \E e \in dataset[s] : Packet(s, e)
    \/ \E a \in enrich : Enrich(a) \/ EnrichFails(a)
    \/ OrchestratorCrash
    \/ \E s \in Sensors : AgentCrash(s)

Spec == Init /\ [][Next]_vars

\* Every service polls again and every thread runs on; windows end by their TTL.
\* No packet and no crash need ever come.
Fairness ==
    /\ WF_vars(\E r \in requests : HandleRequest(r))
    /\ WF_vars(\E st \in unread : HandleCompletion(st))
    /\ WF_vars(\E a \in arms : TakeDirective(a))
    /\ WF_vars(\E j \in jobs : JobStep(j))
    /\ WF_vars(\E a \in enrich : Enrich(a) \/ EnrichFails(a))

FairSpec == Spec /\ Fairness

-----------------------------------------------------------------------------
Arms == [req : Requests, n : 1 .. MaxCrashes + 1, take : 0 .. MaxCrashes]
Entries == {Entry(r) : r \in Requests}
PacketsAt(s) == [at : {s}, of : Entries]

\* Every variable has the type its comment gives; budgets and thread counts are
\* natural numbers.
TypeOK ==
    /\ requests \subseteq Requests
    /\ issued \in [Requests -> 0 .. MaxCrashes + 1]
    /\ budget \in [Sensors -> [active : Nat, bytes : Nat]]
    /\ arms \subseteq Arms
    /\ jobs \subseteq [arm : Arms,
                       stage : {"arm", "window", "carve", "isolate", "upload", "report", "exit"},
                       touched : BOOLEAN, carved : BOOLEAN, outcome : {"failed", "completed"}]
    /\ active \in [Sensors -> Nat]
    /\ dataset \in [Sensors -> SUBSET Entries]
    /\ \A s \in Sensors : pcap[s] \subseteq PacketsAt(s)
    /\ \A s \in Sensors : temp[s] \in [Fids -> SUBSET PacketsAt(s)]
    /\ statuses \subseteq [arm : Arms, state : FreeingStates \cup {"armed", "denied"}]
    /\ unread \subseteq statuses
    /\ enrich \subseteq Arms /\ lost \subseteq Arms
    /\ restarts \in Nat /\ repeats \in [Sensors -> Nat]

\* The captures of a sensor the orchestrator has admitted and no answer of which it
\* has read: on their way to the agent, in a thread, and answered.
Waiting(s) == {a \in arms : a.req.sensor = s}
Running(s) == {j \in JobsOf(s) : j.stage # "exit"}
Answered(s) == {st \in unread : st.arm.req.sensor = s}

\* The orchestrator never admits more than MAX_JOBS captures of a sensor at a time, and
\* what is outstanding exceeds MAX_JOBS only by what its own deaths made it forget and by
\* the directives and statuses that Kafka delivers again.
BudgetCoversOutstanding ==
    \A s \in Sensors :
        /\ budget[s].active <= MaxJobs
        /\ Cardinality(Waiting(s)) + Cardinality(Running(s)) + Cardinality(Answered(s))
               <= MaxJobs * (restarts + 1) + repeats[s]

\* F11: a slice of an IP capture holds only packets of the finding's own host.
SliceIsolated ==
    \A o \in store : o.of[1] = "ip" => \A p \in o.content : p.of = o.of

\* U1a: a finding is enriched from packets recorded by a sensor of its tenant, however
\* captures and uploads of equal finding ids overlap.
EnrichedFromOwnTenant ==
    \A x \in results : \A p \in x.content :
        \E r \in Requests : r.tenant = x.req.tenant /\ r.sensor = p.at

\* Every request is answered by a refusal or a terminal status, unless its
\* capture died with the agent.
EveryRequestAnswered ==
    requests = Requests =>
        <>(\A r \in Requests : \/ \E st \in statuses : st.arm.req = r /\ st.state # "armed"
                               \/ \E a \in lost : a.req = r)
=============================================================================
