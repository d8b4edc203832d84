----------------------- MODULE PreserveCaptureProofs -----------------------
(***************************************************************************)
(* Preserve captures keep to their budgets: proofs for all intents,        *)
(* sensors, limits and times.                                              *)
(***************************************************************************)
EXTENDS PreserveCapture, TLAPS, FiniteSetTheorems, WellFoundedInduction, SequenceTheorems

Directed == {d \in Directives : d.req = Req(d.intent)}
Jobs ==
    {Idle, Down}
    \cup [stage : {"reserve"}, d : Directed]
    \cup [stage : {"slice"}, d : Directed, ts : Nat]
    \cup [stage : {"finish", "report"}, d : Directed, state : {"failed", "completed"}]

Types ==
    /\ now \in 0 .. MaxTime
    /\ intents \subseteq Intents
    /\ sending \subseteq Directed /\ directives \subseteq Directed /\ taken \subseteq Directed
    /\ central \subseteq Entries /\ centralDisk \subseteq Entries
    /\ local \in [Sensors -> SUBSET Entries] /\ localDisk \in [Sensors -> SUBSET Entries]
    /\ job \in [Sensors -> Jobs]
    /\ \A s \in Sensors : \A d \in InHand(s) : d.req[2] = s

\* A reservation of request r made at time t, and one that is still active.
Held(entries, r, t) == \E e \in entries : e.req = r /\ e.ts = t
Slot(entries, r) == \E e \in entries : e.req = r /\ e.active

-----------------------------------------------------------------------------
(* Budget.                                                                 *)

LEMMA ReqFields ==
    ASSUME NEW i \in Intents
    PROVE  /\ Req(i) \in Reqs
           /\ Req(i)[1] = i.tenant /\ Req(i)[2] = i.sensor /\ i.sensor \in Sensors
  BY PreserveAssumption DEF Req, Reqs

LEMMA BudgetTypes ==
    ASSUME now \in 0 .. MaxTime, NEW entries \in SUBSET Entries, NEW r
    PROVE  /\ Pruned(entries) \in SUBSET Entries
           /\ r \in Reqs => Reserved(entries, r) \in SUBSET Entries
           /\ Finished(entries, r) \in SUBSET Entries
  <1>1. Pruned(entries) \in SUBSET Entries
    BY DEF Pruned
  <1>2. r \in Reqs => [req |-> r, ts |-> now, active |-> TRUE] \in Entries
    BY DEF Entries
  <1>3. \A e \in Entries : [e EXCEPT !.active = FALSE] \in Entries
    BY DEF Entries
  <1> QED
    BY <1>1, <1>2, <1>3 DEF Reserved, Finished

\* reserve forgets no reservation of the last hour, finish none at all.
LEMMA HeldStays ==
    ASSUME NEW entries \in SUBSET Entries, NEW r, NEW q, NEW t,
           Held(entries, q, t)
    PROVE  /\ now - t < Hour => Held(Pruned(entries), q, t) /\ Held(Reserved(entries, r), q, t)
           /\ Held(Finished(entries, r), q, t)
  <1>1. PICK e \in entries : e.req = q /\ e.ts = t
    BY DEF Held
  <1>2. e \in Entries
    OBVIOUS
  <1>3. ASSUME now - t < Hour PROVE e \in Pruned(entries)
    BY <1>1, <1>3 DEF Pruned
  <1>4. PICK f : f \in Finished(entries, r) /\ f = (IF e.req = r THEN [e EXCEPT !.active = FALSE] ELSE e)
    BY DEF Finished
  <1>5. f.req = q /\ f.ts = t
    BY <1>1, <1>2, <1>4 DEF Entries
  <1> QED
    BY <1>1, <1>3, <1>4, <1>5 DEF Held, Reserved

\* reserve forgets no active reservation; finish ends those of its request only.
LEMMA SlotStays ==
    ASSUME NEW entries \in SUBSET Entries, NEW r, NEW q, Slot(entries, q)
    PROVE  /\ Slot(Pruned(entries), q) /\ Slot(Reserved(entries, r), q)
           /\ q # r => Slot(Finished(entries, r), q)
  <1>1. PICK e \in entries : e.req = q /\ e.active
    BY DEF Slot
  <1>2. e \in Pruned(entries)
    BY <1>1 DEF Pruned
  <1>3. ASSUME q # r PROVE e \in Finished(entries, r)
    BY <1>1, <1>3 DEF Finished
  <1> QED
    BY <1>1, <1>2, <1>3 DEF Slot, Reserved

\* A request that is admitted has no active reservation and none of the last hour.
LEMMA AdmitsNew ==
    ASSUME NEW entries, NEW r, Admits(entries, r)
    PROVE  /\ ~Slot(entries, r)
           /\ \A t : now - t < Hour => ~Held(entries, r, t)
  BY DEF Admits, Duplicate, Pruned, Slot, Held

LEMMA ReservedHeld ==
    ASSUME NEW entries, NEW r
    PROVE  Held(Reserved(entries, r), r, now) /\ Slot(Reserved(entries, r), r)
  <1> DEFINE e == [req |-> r, ts |-> now, active |-> TRUE]
  <1>1. e \in Reserved(entries, r) /\ e.req = r /\ e.ts = now /\ e.active
    BY DEF Reserved
  <1> QED
    BY <1>1 DEF Held, Slot

-----------------------------------------------------------------------------
(* Types.                                                                  *)

LEMMA JobShape ==
    ASSUME NEW j \in Jobs
    PROVE  /\ j.stage \in {"idle", "down", "reserve", "slice", "finish", "report"}
           /\ j.stage = "idle" <=> j = Idle
           /\ j.stage = "down" <=> j = Down
           /\ j.stage \notin {"idle", "down"} => j.d \in Directed
           /\ j.stage = "slice" => j.ts \in Nat
           /\ j.stage \in {"finish", "report"} =>
                 /\ j.state \in {"failed", "completed"}
                 /\ [j EXCEPT !.stage = "report"] \in Jobs
                 /\ [j EXCEPT !.stage = "report"].d = j.d
                 /\ [j EXCEPT !.stage = "report"].stage = "report"
  BY DEF Jobs, Idle, Down

LEMMA Held1 ==
    ASSUME Types, NEW s \in Sensors, job[s].stage \notin {"idle", "down"}
    PROVE  /\ InHand(s) = {job[s].d} /\ job[s].d \in Directed /\ job[s].d.req[2] = s
           /\ job[s].d.req \in Reqs
  <1>1. job[s] \in Jobs
    BY DEF Types
  <1>2. job[s] \notin {Idle, Down} /\ job[s].d \in Directed
    BY <1>1, JobShape
  <1>3. InHand(s) = {job[s].d}
    BY <1>2 DEF InHand
  <1> QED
    BY <1>2, <1>3 DEF Types, Directed, Directives

JobsTyped ==
    /\ job \in [Sensors -> Jobs]
    /\ \A s \in Sensors : \A d \in InHand(s) : d.req[2] = s

\* An agent goes on to something else: the other agents' jobs stand.
LEMMA GotoTyped ==
    ASSUME Types, NEW s \in Sensors, NEW j \in Jobs, Goto(s, j),
           j \notin {Idle, Down} => j.d.req[2] = s
    PROVE  JobsTyped'
  <1>1. job' = [job EXCEPT ![s] = j] /\ job \in [Sensors -> Jobs]
    BY DEF Goto, Types
  <1>2. job' \in [Sensors -> Jobs] /\ job'[s] = j /\ \A x \in Sensors \ {s} : job'[x] = job[x]
    BY <1>1
  <1>3. ASSUME NEW x \in Sensors, NEW d \in InHand(x)' PROVE d.req[2] = x
    BY <1>2, <1>3 DEF InHand, Types
  <1> QED
    BY <1>2, <1>3 DEF JobsTyped

LEMMA NewJobs ==
    ASSUME NEW d \in Directed, NEW t \in Nat, NEW st \in {"failed", "completed"}
    PROVE  /\ [stage |-> "reserve", d |-> d] \in Jobs
           /\ [stage |-> "slice", d |-> d, ts |-> t] \in Jobs
           /\ [stage |-> "finish", d |-> d, state |-> st] \in Jobs
           /\ Failing(d) \in Jobs /\ Failing(d).d = d
           /\ Idle \in Jobs /\ Down \in Jobs
  BY DEF Jobs, Failing

LEMMA DirectiveTyped ==
    ASSUME Types, NEW i \in Intents
    PROVE  Directive(i) \in Directed /\ Directive(i).req = Req(i) /\ Directive(i).end = now
  BY ReqFields, PreserveAssumption DEF Types, Directive, Directed, Directives

LEMMA ReserveDoes ==
    ASSUME Types, NEW s \in Sensors, Reserve(s)
    PROVE  /\ JobsTyped'
           /\ local' \in [Sensors -> SUBSET Entries] /\ localDisk' \in [Sensors -> SUBSET Entries]
  <1> DEFINE d == job[s].d
  <1>1. d \in Directed /\ d.req[2] = s /\ d.req \in Reqs
    BY Held1 DEF Reserve
  <1>2. JobsTyped'
    <2>1. CASE Goto(s, Failing(d))
      BY <1>1, <2>1, NewJobs, GotoTyped
    <2>2. CASE Goto(s, [stage |-> "slice", d |-> d, ts |-> now])
      <3> DEFINE j == [stage |-> "slice", d |-> d, ts |-> now]
      <3>1. now \in Nat
        BY DEF Types
      <3>2. j \in Jobs /\ j.d = d
        BY <1>1, <3>1, NewJobs
      <3> QED
        BY <1>1, <2>2, <3>2, GotoTyped
    <2> QED
      BY <2>1, <2>2 DEF Reserve
  <1>3. local[s] \in SUBSET Entries /\ now \in 0 .. MaxTime
    BY DEF Types
  <1>4. Reserved(local[s], d.req) \in SUBSET Entries /\ Pruned(local[s]) \in SUBSET Entries
    BY <1>1, <1>3, BudgetTypes
  <1>5. local' \in [Sensors -> SUBSET Entries]
    BY <1>4 DEF Reserve, Types
  <1>6. localDisk' \in {localDisk, [localDisk EXCEPT ![s] = local'[s]]}
    BY DEF Reserve
  <1> QED
    BY <1>2, <1>5, <1>6 DEF Types

LEMMA FinishDoes ==
    ASSUME Types, NEW s \in Sensors, Finish(s)
    PROVE  /\ JobsTyped'
           /\ local' \in [Sensors -> SUBSET Entries] /\ localDisk' \in [Sensors -> SUBSET Entries]
  <1> DEFINE d == job[s].d
             j == [job[s] EXCEPT !.stage = "report"]
  <1>1. d \in Directed /\ d.req[2] = s /\ d.req \in Reqs
    BY Held1 DEF Finish
  <1>2. job[s] \in Jobs /\ job[s].stage = "finish"
    BY DEF Types, Finish
  <1>3. j \in Jobs /\ j.d = d
    BY <1>2, JobShape
  <1>4. Goto(s, j) \/ Goto(s, Failing(d))
    BY DEF Finish
  <1>5. JobsTyped'
    BY <1>1, <1>3, <1>4, NewJobs, GotoTyped
  <1>6. local[s] \in SUBSET Entries /\ now \in 0 .. MaxTime
    BY DEF Types
  <1>7. Finished(local[s], d.req) \in SUBSET Entries
    BY <1>1, <1>6, BudgetTypes
  <1>8. local' \in [Sensors -> SUBSET Entries]
    BY <1>7 DEF Finish, Types
  <1>9. localDisk' \in {localDisk, [localDisk EXCEPT ![s] = local'[s]]}
    BY DEF Finish
  <1> QED
    BY <1>5, <1>8, <1>9 DEF Types

LEMMA TypesInit == Init => Types
  BY PreserveAssumption DEF Init, Types, InHand, Jobs

\* An agent's steps.
LEMMA TypesAgent ==
    ASSUME Types, NEW s \in Sensors,
           JobStep(s) \/ AgentCrash(s) \/ AgentStart(s)
    PROVE  Types'
  <1>1. ASSUME NEW d \in directives, TakeDirective(s, d) PROVE Types'
    <2>1. d \in Directed /\ d.req[2] = s
      BY <1>1 DEF TakeDirective, Types
    <2>2. \/ Goto(s, [stage |-> "reserve", d |-> d])
          \/ Goto(s, Failing(d))
      BY <1>1 DEF TakeDirective
    <2>3. JobsTyped'
      BY <2>1, <2>2, NewJobs, GotoTyped
    <2> QED
      BY <1>1, <2>1, <2>3 DEF TakeDirective, Types, JobsTyped, budgetVars
  <1>2. CASE Reserve(s)
    <2>1. UNCHANGED <<now, intents, sending, central, centralDisk, directives, taken>>
      BY <1>2 DEF Reserve
    <2> QED
      BY <1>2, <2>1, ReserveDoes DEF Types, JobsTyped
  <1>3. CASE Slice(s)
    <2>1. job[s].d \in Directed /\ job[s].d.req[2] = s
      BY <1>3, Held1 DEF Slice
    <2>2. PICK st \in {"failed", "completed"} :
            Goto(s, [stage |-> "finish", d |-> job[s].d, state |-> st])
      BY <1>3 DEF Slice
    <2>3. JobsTyped'
      BY <2>1, <2>2, NewJobs, GotoTyped
    <2>4. UNCHANGED <<now, intents, sending, budgetVars, directives, taken>>
      BY <1>3 DEF Slice
    <2> QED
      BY <2>3, <2>4 DEF Types, JobsTyped, budgetVars
  <1>4. CASE Finish(s)
    <2>1. UNCHANGED <<now, intents, sending, central, centralDisk, directives, taken>>
      BY <1>4 DEF Finish
    <2> QED
      BY <1>4, <2>1, FinishDoes DEF Types, JobsTyped
  <1>5. CASE Report(s)
    <2>1. Goto(s, Idle) /\ UNCHANGED <<now, intents, sending, budgetVars, directives, taken>>
      BY <1>5 DEF Report
    <2>2. Idle \in Jobs
      BY DEF Jobs
    <2>3. JobsTyped'
      BY <2>1, <2>2, GotoTyped
    <2> QED
      BY <2>1, <2>3 DEF Types, JobsTyped, budgetVars
  <1>6. CASE AgentCrash(s)
    <2>1. Down \in Jobs /\ Goto(s, Down)
      BY <1>6 DEF Jobs, AgentCrash
    <2>2. JobsTyped'
      BY <2>1, GotoTyped
    <2>3. InHand(s) \subseteq Directed
      <3>1. job[s] \in Jobs
        BY DEF Types
      <3> QED
        BY <3>1, JobShape DEF InHand
    <2>4. directives' \subseteq Directed /\ taken' \subseteq Directed
      BY <1>6, <2>3 DEF AgentCrash, Types
    <2>5. local' \in [Sensors -> SUBSET Entries]
      BY <1>6 DEF AgentCrash, Types
    <2>6. UNCHANGED <<now, intents, sending, central, centralDisk, localDisk>>
      BY <1>6 DEF AgentCrash
    <2> QED
      BY <2>2, <2>4, <2>5, <2>6 DEF Types, JobsTyped
  <1>7. CASE AgentStart(s)
    <2>1. Idle \in Jobs /\ Goto(s, Idle)
      BY <1>7 DEF Jobs, AgentStart
    <2>2. JobsTyped'
      BY <2>1, GotoTyped
    <2>3. local' \in [Sensors -> SUBSET Entries]
      BY <1>7 DEF AgentStart, Types
    <2>4. UNCHANGED <<now, intents, sending, central, centralDisk, localDisk, directives, taken>>
      BY <1>7 DEF AgentStart
    <2> QED
      BY <2>2, <2>3, <2>4 DEF Types, JobsTyped
  <1> QED
    BY <1>1, <1>2, <1>3, <1>4, <1>5, <1>6, <1>7 DEF JobStep

\* What HandleIntent does to the orchestrator's budget.
LEMMA IntentDoes ==
    ASSUME Types, NEW i \in intents, HandleIntent(i)
    PROVE  LET r == Req(i) IN
           \/ /\ Admits(central, r) /\ central' = Reserved(central, r) /\ centralDisk' = central'
              /\ sending' = {Directive(i)}
           \/ /\ central' = Reserved(central, r) /\ centralDisk' \in {centralDisk, central'}
              /\ sending' = {}
           \/ /\ central' \in {central, Pruned(central)} /\ centralDisk' = centralDisk
              /\ sending' = {}
  BY DEF HandleIntent

LEMMA TypesOrchestrator ==
    ASSUME Types, Orchestrate \/ OrchestratorCrash
    PROVE  Types'
  <1>1. ASSUME NEW i \in intents, HandleIntent(i) PROVE Types'
    <2>1. i \in Intents /\ Req(i) \in Reqs /\ Directive(i) \in Directed
      BY ReqFields, DirectiveTyped DEF Types
    <2>2. Pruned(central) \subseteq Entries /\ Reserved(central, Req(i)) \subseteq Entries
      BY <2>1, BudgetTypes DEF Types
    <2>3. central' \subseteq Entries /\ centralDisk' \subseteq Entries /\ sending' \subseteq Directed
      BY <1>1, <2>1, <2>2, IntentDoes DEF Types
    <2>4. intents' \subseteq intents /\ UNCHANGED <<now, local, localDisk, directives, taken, job>>
      BY <1>1 DEF HandleIntent
    <2> QED
      BY <2>3, <2>4 DEF Types, InHand
  <1>2. CASE SendDirective
    <2>1. PICK d \in sending :
            /\ directives' \subseteq directives \cup {d}
            /\ \/ UNCHANGED <<central, centralDisk>>
               \/ central' = Finished(central, d.req) /\ centralDisk' = central'
      BY <1>2 DEF SendDirective
    <2>2. d \in Directed /\ d.req \in Reqs
      BY DEF Types, Directed, Directives
    <2>3. Finished(central, d.req) \subseteq Entries
      BY <2>2, BudgetTypes DEF Types
    <2>4. sending' = {} /\ UNCHANGED <<now, intents, local, localDisk, taken, job>>
      BY <1>2 DEF SendDirective
    <2> QED
      BY <2>1, <2>2, <2>3, <2>4 DEF Types, InHand
  <1>3. ASSUME NEW st \in unread, HandleStatus(st) PROVE Types'
    <2>1. Finished(central, Req(st.intent)) \subseteq Entries
      BY BudgetTypes DEF Types
    <2>2. /\ central' = Finished(central, Req(st.intent)) /\ centralDisk' \in {central', centralDisk}
          /\ UNCHANGED <<now, intents, sending, local, localDisk, directives, taken, job>>
      BY <1>3 DEF HandleStatus
    <2> QED
      BY <2>1, <2>2 DEF Types, InHand
  <1>4. CASE OrchestratorCrash
    <2>1. intents' \subseteq intents \cup Intents \cup {d.intent : d \in sending}
      BY <1>4 DEF OrchestratorCrash
    <2>2. intents' \subseteq Intents
      BY <2>1 DEF Types, Directed, Directives
    <2>3. /\ central' = centralDisk /\ sending' = {}
          /\ UNCHANGED <<now, centralDisk, local, localDisk, directives, taken, job>>
      BY <1>4 DEF OrchestratorCrash
    <2> QED
      BY <2>2, <2>3 DEF Types, InHand
  <1> QED
    BY <1>1, <1>2, <1>3, <1>4 DEF Orchestrate

RingStep == \E s \in Sensors : Packet(s) \/ ExpireThread(s) \/ RingStops(s)

LEMMA RingStepKeeps ==
    ASSUME RingStep
    PROVE  UNCHANGED <<now, intents, recent, sending, budgetVars, directives, taken, job, unread,
                       answers, uploads, doubtful>>
  BY DEF RingStep, Packet, ExpireThread, RingStops

LEMMA TypesNext ==
    ASSUME Types, [Next]_vars
    PROVE  Types'
  <1>1. CASE Tick
    <2>1. now' \in 0 .. MaxTime
      BY <1>1, PreserveAssumption DEF Tick, Types
    <2>2. taken' = {} /\ UNCHANGED <<intents, sending, budgetVars, directives, job>>
      BY <1>1 DEF Tick
    <2> QED
      BY <2>1, <2>2 DEF Types, InHand, budgetVars
  <1>2. CASE RingStep
    <2>1. UNCHANGED <<now, intents, sending, budgetVars, directives, taken, job>>
      BY <1>2, RingStepKeeps
    <2> QED
      BY <2>1 DEF Types, InHand, budgetVars
  <1>3. CASE UNCHANGED vars
    BY <1>3 DEF Types, InHand, vars, budgetVars
  <1> QED
    BY <1>1, <1>2, <1>3, TypesAgent, TypesOrchestrator DEF Next, RingStep

-----------------------------------------------------------------------------
(* A directive that is out has its slot at the orchestrator.               *)

\* Directives an agent has not read, may read again, or has in hand.
Out == directives \cup taken \cup UNION {InHand(s) : s \in Sensors}
Reserving(r) == Slot(central, r) /\ Slot(centralDisk, r)

SlotInv ==
    /\ Types
    /\ \A st \in unread \cup (recent \ Intents) : st \in answers /\ st.state # "refused"
    /\ \A d \in Out \ doubtful : Answered(d.req) \/ Reserving(d.req)
    /\ \A d \in sending : /\ Reserving(d.req)
                          /\ \A x \in Out \ doubtful : x.req = d.req => Answered(d.req)

\* A step of another part: nothing more is out, and no slot is given up.
LEMMA SlotStands ==
    ASSUME SlotInv, Types', answers \subseteq answers', doubtful' = doubtful,
           \A st \in unread' \cup (recent' \ Intents) : st \in answers' /\ st.state # "refused",
           Out' \subseteq Out,
           central' = central, centralDisk' = centralDisk, sending' = sending
    PROVE  SlotInv'
  <1>1. \A r : Answered(r) => Answered(r)'
    BY DEF Answered
  <1>2. \A r : Reserving(r)' <=> Reserving(r)
    BY DEF Reserving
  <1> QED
    BY <1>1, <1>2 DEF SlotInv

\* A job that goes on keeps its directive; one that ends lets it go.
LEMMA GotoHolds ==
    ASSUME Types, NEW s \in Sensors, NEW j, Goto(s, j),
           j \in {Idle, Down} \/ j.d \in InHand(s)
    PROVE  \A x \in Sensors : InHand(x)' \subseteq InHand(x)
  <1>1. job' = [job EXCEPT ![s] = j]
    BY DEF Goto
  <1>2. job'[s] = j /\ \A x \in Sensors \ {s} : job'[x] = job[x]
    BY <1>1 DEF Types
  <1> QED
    BY <1>2 DEF InHand

\* After it has taken a directive, an agent holds that one or none.
LEMMA JobHolds ==
    ASSUME Types, NEW s \in Sensors,
           Reserve(s) \/ Slice(s) \/ Finish(s) \/ Report(s) \/ AgentCrash(s) \/ AgentStart(s)
    PROVE  \A x \in Sensors : InHand(x)' \subseteq InHand(x)
  <1>0. job[s] \in Jobs
    BY DEF Types
  <1>1. CASE Reserve(s) \/ Slice(s) \/ Finish(s)
    <2>1. InHand(s) = {job[s].d}
      BY <1>1, Held1 DEF Reserve, Slice, Finish
    <2>2. CASE Reserve(s) \/ Slice(s)
      BY <2>1, <2>2, GotoHolds DEF Reserve, Slice, Failing
    <2>3. CASE Finish(s)
      <3>1. [job[s] EXCEPT !.stage = "report"].d = job[s].d /\ Failing(job[s].d).d = job[s].d
        BY <1>0, <2>3, JobShape DEF Finish, Failing
      <3>2. PICK j : Goto(s, j) /\ j.d = job[s].d
        BY <2>3, <3>1 DEF Finish
      <3> QED
        BY <2>1, <3>2, GotoHolds
    <2> QED
      BY <1>1, <2>2, <2>3
  <1>2. CASE Report(s) \/ AgentCrash(s) \/ AgentStart(s)
    BY <1>2, GotoHolds DEF Report, AgentCrash, AgentStart
  <1> QED
    BY <1>1, <1>2

LEMMA TakeHolds ==
    ASSUME Types, NEW s \in Sensors, NEW d \in directives, TakeDirective(s, d)
    PROVE  /\ InHand(s)' \subseteq {d} /\ d.req[2] = s
           /\ \A x \in Sensors \ {s} : InHand(x)' = InHand(x)
  <1>1. PICK j : Goto(s, j) /\ j.d = d
    BY DEF TakeDirective, Failing
  <1>2. job'[s] = j /\ \A x \in Sensors \ {s} : job'[x] = job[x]
    BY <1>1 DEF Types, Goto
  <1> QED
    BY <1>1, <1>2 DEF InHand, TakeDirective

\* An agent puts nothing new out: it takes directives, and its death returns them.
LEMMA AgentOut ==
    ASSUME Types, NEW s \in Sensors, JobStep(s) \/ AgentCrash(s) \/ AgentStart(s)
    PROVE  /\ Out' \subseteq Out
           /\ UNCHANGED <<now, central, centralDisk, sending, recent, doubtful>>
  <1>1. UNCHANGED <<now, central, centralDisk, sending, recent, doubtful>>
    BY DEF JobStep, TakeDirective, Reserve, Slice, Finish, Report, AgentCrash, AgentStart, budgetVars
  <1>2. ASSUME NEW d \in directives, TakeDirective(s, d) PROVE Out' \subseteq Out
    <2>1. directives' \subseteq directives /\ taken' = taken \cup {d}
      BY <1>2 DEF TakeDirective
    <2>2. \A x \in Sensors : InHand(x)' \subseteq InHand(x) \cup {d}
      BY <1>2, TakeHolds
    <2> QED
      BY <2>1, <2>2 DEF Out
  <1>3. CASE Reserve(s) \/ Slice(s) \/ Finish(s) \/ Report(s) \/ AgentCrash(s) \/ AgentStart(s)
    <2>1. /\ taken' \subseteq taken
          /\ directives' \subseteq directives \cup taken \cup InHand(s)
      BY <1>3 DEF Reserve, Slice, Finish, Report, AgentCrash, AgentStart
    <2>2. \A x \in Sensors : InHand(x)' \subseteq InHand(x)
      BY <1>3, JobHolds
    <2>3. \A x \in Sensors : InHand(x) \subseteq Out
      BY DEF Out
    <2>4. directives' \subseteq Out /\ taken' \subseteq Out
      BY <2>1, <2>3 DEF Out
    <2>5. \A x \in Sensors : InHand(x)' \subseteq Out
      BY <2>2, <2>3
    <2> QED
      BY <1>1, <2>4, <2>5 DEF Out
  <1> QED
    BY <1>1, <1>2, <1>3 DEF JobStep

LEMMA SlotAgent ==
    ASSUME SlotInv, NEW s \in Sensors, JobStep(s) \/ AgentCrash(s) \/ AgentStart(s)
    PROVE  SlotInv'
  <1>0. Types /\ Types' /\ job[s] \in Jobs
    BY TypesAgent DEF SlotInv, Types
  <1>1. /\ Out' \subseteq Out
        /\ UNCHANGED <<central, centralDisk, sending, recent, doubtful>>
    BY <1>0, AgentOut
  <1>2. CASE UNCHANGED <<answers, unread>>
    BY <1>0, <1>1, <1>2, SlotStands DEF SlotInv
  <1>3. CASE Report(s)
    <2> DEFINE st == Answer(job[s].d.intent, job[s].state)
    <2>1. st.state # "refused"
      BY <1>0, <1>3, JobShape DEF Report, Answer
    <2>2. answers' = answers \cup {st} /\ unread' = unread \cup {st}
      BY <1>3 DEF Report
    <2> HIDE DEF st
    <2> QED
      BY <1>0, <1>1, <2>1, <2>2, SlotStands DEF SlotInv
  <1> QED
    BY <1>2, <1>3 DEF JobStep, TakeDirective, Reserve, Slice, Finish, AgentCrash, AgentStart

LEMMA SlotOrchestrator ==
    ASSUME SlotInv, Orchestrate \/ OrchestratorCrash
    PROVE  SlotInv'
  <1>0. Types /\ Types' /\ central \in SUBSET Entries /\ centralDisk \in SUBSET Entries
    BY TypesOrchestrator DEF SlotInv, Types
  <1>1. ASSUME NEW i \in intents, HandleIntent(i) PROVE SlotInv'
    <2> DEFINE r == Req(i)
    <2>1. /\ sending = {} /\ recent' = recent \cup {i} /\ i \in Intents
          /\ answers \subseteq answers' /\ unread' = unread
          /\ UNCHANGED <<directives, taken, job, doubtful>>
      BY <1>0, <1>1 DEF HandleIntent, Refuse, Types
    <2>2. Out' = Out
      BY <2>1 DEF Out, InHand
    <2>3. \A q : Answered(q) => Answered(q)'
      BY <2>1 DEF Answered
    <2>4. \A st \in unread' \cup (recent' \ Intents) : st \in answers' /\ st.state # "refused"
      BY <2>1 DEF SlotInv
    <2>5. \A q : Reserving(q) => Reserving(q)'
      BY <1>0, <1>1, IntentDoes, SlotStays DEF Reserving
    <2>6. \A d \in Out' \ doubtful' : Answered(d.req)' \/ Reserving(d.req)'
      BY <2>1, <2>2, <2>3, <2>5 DEF SlotInv
    <2>7. ASSUME NEW d \in sending'
          PROVE  /\ Reserving(d.req)'
                 /\ \A x \in Out' \ doubtful' : x.req = d.req => Answered(d.req)'
      <3>1. /\ Admits(central, r) /\ central' = Reserved(central, r) /\ centralDisk' = central'
            /\ d = Directive(i)
        BY <1>0, <1>1, <2>7, IntentDoes
      <3>2. d.req = r
        BY <3>1 DEF Directive
      <3>3. Reserving(r)'
        BY <3>1, ReservedHeld DEF Reserving
      <3>4. ~Reserving(r)
        BY <3>1, AdmitsNew DEF Reserving
      <3> HIDE DEF r
      <3> QED
        BY <2>1, <2>2, <2>3, <3>2, <3>3, <3>4 DEF SlotInv
    <2> QED
      BY <1>0, <2>4, <2>6, <2>7 DEF SlotInv
  <1>2. CASE SendDirective
    <2>1. PICK d \in sending :
            \/ /\ directives' = directives \cup {d}
               /\ UNCHANGED <<central, centralDisk, unread, answers, doubtful>>
            \/ /\ central' = Finished(central, d.req) /\ centralDisk' = central'
               /\ answers \subseteq answers' /\ unread' = unread
               /\ \/ directives' = directives \cup {d} /\ doubtful' = doubtful \cup {d}
                  \/ UNCHANGED <<directives, doubtful>>
      BY <1>2 DEF SendDirective, Refuse
    <2>2. sending' = {} /\ UNCHANGED <<recent, taken, job>>
      BY <1>2 DEF SendDirective
    <2>3. \A st \in unread' \cup (recent' \ Intents) : st \in answers' /\ st.state # "refused"
      BY <2>1, <2>2 DEF SlotInv
    <2>4. \A q : Answered(q) => Answered(q)'
      BY <2>1 DEF Answered
    <2>5. Reserving(d.req) /\ \A x \in Out \ doubtful : x.req = d.req => Answered(d.req)
      BY DEF SlotInv
    <2>6. Out' \subseteq Out \cup {d} /\ doubtful \subseteq doubtful'
      BY <2>1, <2>2 DEF Out, InHand
    <2>7. CASE UNCHANGED <<central, centralDisk>>
      <3>1. \A q : Reserving(q)' <=> Reserving(q)
        BY <2>7 DEF Reserving
      <3> QED
        BY <1>0, <2>2, <2>3, <2>4, <2>5, <2>6, <3>1 DEF SlotInv
    <2>8. CASE /\ central' = Finished(central, d.req) /\ centralDisk' = central'
               /\ \/ directives' = directives \cup {d} /\ doubtful' = doubtful \cup {d}
                  \/ UNCHANGED <<directives, doubtful>>
      <3>1. \A q : q # d.req /\ Reserving(q) => Reserving(q)'
        BY <1>0, <2>8, SlotStays DEF Reserving
      <3>2. Out' \ doubtful' \subseteq Out \ doubtful
        BY <2>2, <2>8 DEF Out, InHand
      <3>3. \A x \in Out' \ doubtful' : Answered(x.req)' \/ Reserving(x.req)'
        BY <2>4, <2>5, <3>1, <3>2 DEF SlotInv
      <3> QED
        BY <1>0, <2>2, <2>3, <3>3 DEF SlotInv
    <2> QED
      BY <2>1, <2>7, <2>8
  <1>3. ASSUME NEW st \in unread, HandleStatus(st) PROVE SlotInv'
    <2> DEFINE r == Req(st.intent)
    <2>1. /\ unread' = unread \ {st} /\ recent' = recent \cup {st}
          /\ sending = {} /\ central' = Finished(central, r) /\ centralDisk' \in {central', centralDisk}
          /\ UNCHANGED <<sending, directives, taken, job, answers, doubtful>>
      BY <1>3 DEF HandleStatus
    <2>2. Answered(r)
      BY DEF SlotInv, Answered
    <2>3. Out' = Out
      BY <2>1 DEF Out, InHand
    <2>4. \A q : Answered(q)' <=> Answered(q)
      BY <2>1 DEF Answered
    <2>5. \A q : q # r /\ Reserving(q) => Reserving(q)'
      BY <1>0, <2>1, SlotStays DEF Reserving
    <2>6. \A x \in unread' \cup (recent' \ Intents) : x \in answers' /\ x.state # "refused"
      BY <2>1 DEF SlotInv
    <2> HIDE DEF r
    <2>7. \A d \in Out' \ doubtful' : Answered(d.req)' \/ Reserving(d.req)'
      BY <2>1, <2>2, <2>3, <2>4, <2>5 DEF SlotInv
    <2> QED
      BY <1>0, <2>1, <2>6, <2>7 DEF SlotInv
  <1>4. CASE OrchestratorCrash
    <2>1. /\ central' = centralDisk /\ sending' = {} /\ recent' = {}
          /\ UNCHANGED <<centralDisk, directives, taken, job, answers, doubtful>>
          /\ unread' \subseteq unread \cup (recent \ Intents)
      BY <1>4 DEF OrchestratorCrash
    <2>2. Out' = Out
      BY <2>1 DEF Out, InHand
    <2>3. \A q : Answered(q)' <=> Answered(q)
      BY <2>1 DEF Answered
    <2>4. \A q : Reserving(q) => Reserving(q)'
      BY <2>1 DEF Reserving
    <2>5. \A d \in Out' \ doubtful' : Answered(d.req)' \/ Reserving(d.req)'
      BY <2>1, <2>2, <2>3, <2>4 DEF SlotInv
    <2> QED
      BY <1>0, <2>1, <2>5 DEF SlotInv
  <1> QED
    BY <1>1, <1>2, <1>3, <1>4 DEF Orchestrate

LEMMA SlotNext ==
    ASSUME SlotInv, [Next]_vars
    PROVE  SlotInv'
  <1>0. Types' /\ Types
    BY TypesNext DEF SlotInv
  <1>1. CASE Tick
    <2>1. /\ recent' = {} /\ taken' = {}
          /\ UNCHANGED <<sending, central, centralDisk, directives, job, unread, answers, doubtful>>
      BY <1>1 DEF Tick, budgetVars
    <2>2. Out' \subseteq Out
      BY <2>1 DEF Out, InHand
    <2> QED
      BY <1>0, <2>1, <2>2, SlotStands DEF SlotInv
  <1>2. CASE RingStep \/ UNCHANGED vars
    <2>1. UNCHANGED <<sending, central, centralDisk, directives, taken, job, recent, unread, answers,
                      doubtful>>
      BY <1>2, RingStepKeeps DEF vars, budgetVars
    <2>2. Out' \subseteq Out
      BY <2>1 DEF Out, InHand
    <2> QED
      BY <1>0, <2>1, <2>2, SlotStands DEF SlotInv
  <1> QED
    BY <1>1, <1>2, SlotAgent, SlotOrchestrator DEF Next, RingStep

\* max_jobs of the orchestrator is kept through every death: a directive that is
\* out, unless its send raised, has an active reservation in memory and in the
\* file until a status of its request has been sent.
THEOREM DirectivesStayReserved == Spec => []DirectivesReserved
  <1>1. Init => SlotInv
    <2> SUFFICES ASSUME Init PROVE SlotInv
      OBVIOUS
    <2>1. Out = {} /\ unread = {} /\ recent = {} /\ sending = {}
      BY DEF Init, Out, InHand
    <2> QED
      BY <2>1, TypesInit DEF SlotInv
  <1>2. SlotInv => DirectivesReserved
    BY DEF SlotInv, DirectivesReserved, Outstanding, Out, Reserving, Slot
  <1> QED
    BY <1>1, <1>2, SlotNext, PTL DEF Spec

-----------------------------------------------------------------------------
(* A request is carried out at most once an hour.                          *)

\* The agent's budget, in memory unless it is down and in its file.
Remembers(s, r, t) ==
    /\ Held(localDisk[s], r, t)
    /\ job[s] # Down => Held(local[s], r, t)

Recorded(u) ==
    /\ u.req \in Reqs /\ u.ts \in 0 .. now
    /\ now - u.ts < Hour => Remembers(u.req[2], u.req, u.ts)
Slicing(s, j) ==
    /\ j.ts \in 0 .. now
    /\ now - j.ts < Hour => Remembers(s, j.d.req, j.ts)
    /\ \A u \in uploads : u.req = j.d.req => j.ts - u.ts >= Hour

\* What was uploaded, or is about to be, stays charged for an hour.
OnceInv ==
    /\ Types
    /\ \A u \in uploads : Recorded(u)
    /\ \A s \in Sensors, j \in Jobs : job[s] = j /\ j.stage = "slice" => Slicing(s, j)
    /\ PreservedOnce

LEMMA ReqSensor == \A r \in Reqs : r[2] \in Sensors
  BY ReqFields DEF Reqs

\* A step that adds neither upload nor slicing job keeps the property when the
\* agents still remember the last hour.
LEMMA OnceStands ==
    ASSUME OnceInv, Types', now' \in {now, now + 1}, uploads' = uploads,
           \A s \in Sensors : job'[s].stage = "slice" => job'[s] = job[s],
           \A s \in Sensors : \A r, t : now - t < Hour /\ Remembers(s, r, t) => Remembers(s, r, t)'
    PROVE  OnceInv'
  <1>1. now \in Nat /\ now' \in Nat /\ now <= now' /\ Hour \in Nat
    BY PreserveAssumption DEF OnceInv, Types
  <1>2. ASSUME NEW u \in uploads' PROVE Recorded(u)'
    <2>1. /\ u.req \in Reqs /\ u.ts \in 0 .. now /\ u.req[2] \in Sensors
          /\ now - u.ts < Hour => Remembers(u.req[2], u.req, u.ts)
      BY ReqSensor DEF OnceInv, Recorded
    <2>2. u.ts \in 0 .. now' /\ (now' - u.ts < Hour => now - u.ts < Hour)
      BY <1>1, <2>1
    <2> QED
      BY <2>1, <2>2 DEF Recorded
  <1>3. ASSUME NEW s \in Sensors, NEW j \in Jobs, job'[s] = j, j.stage = "slice"
        PROVE  Slicing(s, j)'
    <2>1. /\ job[s] = j /\ j.ts \in 0 .. now
          /\ now - j.ts < Hour => Remembers(s, j.d.req, j.ts)
          /\ \A u \in uploads : u.req = j.d.req => j.ts - u.ts >= Hour
      BY <1>3 DEF OnceInv, Slicing
    <2>2. j.ts \in 0 .. now' /\ (now' - j.ts < Hour => now - j.ts < Hour)
      BY <1>1, <2>1
    <2> QED
      BY <2>1, <2>2 DEF Slicing
  <1>4. PreservedOnce'
    BY DEF OnceInv, PreservedOnce
  <1> QED
    BY <1>2, <1>3, <1>4 DEF OnceInv

\* Budget.reserve of an agent.
LEMMA OnceReserve ==
    ASSUME OnceInv, NEW s \in Sensors, Reserve(s)
    PROVE  OnceInv'
  <1>0. PICK d : d = job[s].d
    OBVIOUS
  <1>1. /\ Types /\ Types' /\ now \in Nat /\ Hour \in Nat \ {0}
        /\ local[s] \in SUBSET Entries /\ local'[s] \in SUBSET Entries
    BY TypesAgent, PreserveAssumption DEF OnceInv, JobStep, Types
  <1>2. d \in Directed /\ d.req[2] = s /\ d.req \in Reqs
    BY <1>0, <1>1, Held1 DEF Reserve
  <1>3. /\ now' = now /\ uploads' = uploads
        /\ localDisk' \in {localDisk, [localDisk EXCEPT ![s] = local'[s]]}
        /\ \A x \in Sensors \ {s} : local'[x] = local[x] /\ job'[x] = job[x]
        /\ local'[s] \in {Reserved(local[s], d.req), Pruned(local[s])}
    BY <1>0, <1>1 DEF Reserve, Goto, Types
  <1>4. job[s] # Down
    BY DEF Reserve, Down
  <1>5. /\ \A x \in Sensors \ {s} : localDisk'[x] = localDisk[x]
        /\ localDisk'[s] \in {localDisk[s], local'[s]}
    BY <1>1, <1>3 DEF Types
  <1>6. ASSUME NEW x \in Sensors, NEW r, NEW t, now - t < Hour, Remembers(x, r, t)
        PROVE  Remembers(x, r, t)'
    <2>1. CASE x = s
      <3>1. Held(local[s], r, t) /\ Held(localDisk[s], r, t)
        BY <1>4, <1>6, <2>1 DEF Remembers
      <3>a. Held(Pruned(local[s]), r, t) /\ Held(Reserved(local[s], d.req), r, t)
        BY <1>1, <1>6, <3>1, HeldStays
      <3>2. Held(local'[s], r, t)
        BY <1>3, <3>a
      <3>3. Held(localDisk'[s], r, t)
        BY <1>5, <3>1, <3>2
      <3> QED
        BY <2>1, <3>2, <3>3 DEF Remembers, Held
    <2>2. CASE x # s
      BY <1>3, <1>5, <1>6, <2>2 DEF Remembers, Held
    <2> QED
      BY <2>1, <2>2
  <1>7. CASE job'[s].stage # "slice"
    BY <1>1, <1>3, <1>6, <1>7, OnceStands
  <1>8. CASE job'[s].stage = "slice"
    <2>0. PICK t : t = now
      OBVIOUS
    <2>1. /\ Admits(local[s], d.req) /\ local'[s] = Reserved(local[s], d.req)
          /\ localDisk'[s] = local'[s]
          /\ job'[s] = [stage |-> "slice", d |-> d, ts |-> t]
      BY <1>0, <1>1, <1>8, <2>0 DEF Reserve, Goto, Failing, Types
    <2>2. Remembers(s, d.req, t)'
      BY <2>0, <2>1, ReservedHeld DEF Remembers, Held
    <2>3. ASSUME NEW u \in uploads, u.req = d.req PROVE now - u.ts >= Hour
      <3>1. u.ts \in 0 .. now /\ (now - u.ts < Hour => Held(local[s], d.req, u.ts))
        BY <1>2, <1>4, <2>3 DEF OnceInv, Recorded, Remembers
      <3>2. ~(now - u.ts < Hour)
        BY <2>1, <3>1, AdmitsNew
      <3> QED
        BY <1>1, <3>1, <3>2
    <2>4. ASSUME NEW u \in uploads' PROVE Recorded(u)'
      BY <1>3, <1>6, ReqSensor DEF OnceInv, Recorded
    <2>5. ASSUME NEW x \in Sensors, NEW j \in Jobs, job'[x] = j, j.stage = "slice"
          PROVE  Slicing(x, j)'
      <3>1. CASE x = s
        <4>1. j.ts = t /\ j.d = d
          BY <2>1, <2>5, <3>1
        <4> QED
          BY <1>1, <1>3, <2>0, <2>2, <2>3, <3>1, <4>1 DEF Slicing
      <3>2. CASE x # s
        <4>1. Slicing(x, j)
          BY <1>3, <2>5, <3>2 DEF OnceInv
        <4> QED
          BY <1>3, <1>6, <4>1 DEF Slicing
      <3> QED
        BY <3>1, <3>2
    <2>6. PreservedOnce'
      BY <1>3 DEF OnceInv, PreservedOnce
    <2> QED
      BY <1>1, <2>4, <2>5, <2>6 DEF OnceInv
  <1> QED
    BY <1>7, <1>8

LEMMA OnceFinish ==
    ASSUME OnceInv, NEW s \in Sensors, Finish(s)
    PROVE  OnceInv'
  <1>0. PICK d : d = job[s].d
    OBVIOUS
  <1>1. /\ Types /\ Types' /\ job[s] \in Jobs /\ job[s].stage = "finish"
        /\ local[s] \in SUBSET Entries
    BY TypesAgent DEF OnceInv, JobStep, Types, Finish
  <1>2. /\ now' = now /\ uploads' = uploads
        /\ localDisk' \in {localDisk, [localDisk EXCEPT ![s] = local'[s]]}
        /\ \A x \in Sensors \ {s} : local'[x] = local[x] /\ job'[x] = job[x]
        /\ local'[s] = Finished(local[s], d.req)
    BY <1>0, <1>1 DEF Finish, Goto, Types
  <1>3. /\ \A x \in Sensors \ {s} : localDisk'[x] = localDisk[x]
        /\ localDisk'[s] \in {localDisk[s], local'[s]}
    BY <1>1, <1>2 DEF Types
  <1>4. [job[s] EXCEPT !.stage = "report"].stage = "report" /\ Failing(job[s].d).stage = "report"
    BY <1>1, JobShape DEF Failing
  <1>a. job'[s] \in {[job[s] EXCEPT !.stage = "report"], Failing(job[s].d)}
    BY <1>1 DEF Finish, Goto, Types
  <1>b. job'[s].stage = "report"
    BY <1>4, <1>a, Zenon
  <1>5. job'[s].stage = "report" /\ job[s] # Down
    BY <1>1, <1>b DEF Down
  <1>6. ASSUME NEW x \in Sensors, NEW r, NEW t, Remembers(x, r, t)
        PROVE  Remembers(x, r, t)'
    <2>1. CASE x = s
      <3>1. Held(local[s], r, t) /\ Held(localDisk[s], r, t)
        BY <1>5, <1>6, <2>1 DEF Remembers
      <3>2. Held(Finished(local[s], d.req), r, t)
        BY <1>1, <3>1, HeldStays
      <3>3. Held(local'[s], r, t) /\ Held(localDisk'[s], r, t)
        BY <1>2, <1>3, <3>1, <3>2
      <3> QED
        BY <2>1, <3>3 DEF Remembers, Held
    <2>2. CASE x # s
      BY <1>2, <1>3, <1>6, <2>2 DEF Remembers, Held
    <2> QED
      BY <2>1, <2>2
  <1>7. \A x \in Sensors : job'[x].stage = "slice" => job'[x] = job[x]
    BY <1>2, <1>5
  <1> QED
    BY <1>1, <1>2, <1>6, <1>7, OnceStands

\* put_object.
LEMMA OnceSlice ==
    ASSUME OnceInv, NEW s \in Sensors, Slice(s)
    PROVE  OnceInv'
  <1>0. PICK j : j = job[s]
    OBVIOUS
  <1> DEFINE new == [req |-> j.d.req, ts |-> j.ts, asked |-> j.d.end, intent |-> j.d.intent]
  <1>a. Types /\ Types' /\ job[s].stage = "slice"
    BY TypesAgent DEF OnceInv, JobStep, Slice
  <1>b. job[s].d.req \in Reqs /\ job[s].d.req[2] = s
    BY <1>a, Held1
  <1>c. j \in Jobs /\ j # Down
    BY <1>0, <1>a DEF Types, Down
  <1>1. /\ Types /\ Types' /\ j \in Jobs /\ j.stage = "slice" /\ j # Down /\ Slicing(s, j)
        /\ j.d.req \in Reqs /\ j.d.req[2] = s
    BY <1>0, <1>a, <1>b, <1>c DEF OnceInv
  <1>2. /\ UNCHANGED <<now, local, localDisk>>
        /\ \A x \in Sensors \ {s} : job'[x] = job[x]
        /\ job'[s].stage = "finish"
        /\ uploads' \in {uploads, uploads \cup {new}}
    BY <1>0, <1>1 DEF Slice, Goto, Types, budgetVars
  <1>3. ASSUME NEW x \in Sensors, NEW r, NEW t, Remembers(x, r, t)
        PROVE  Remembers(x, r, t)'
    BY <1>0, <1>1, <1>2, <1>3 DEF Remembers, Held
  <1>4. CASE uploads' = uploads
    <2>1. \A x \in Sensors : job'[x].stage = "slice" => job'[x] = job[x]
      BY <1>2
    <2> QED
      BY <1>1, <1>2, <1>3, <1>4, <2>1, OnceStands
  <1>5. CASE uploads' = uploads \cup {new}
    <2>1. new.req = j.d.req /\ new.ts = j.ts
      OBVIOUS
    <2> HIDE DEF new
    <2>2. \A u \in uploads : u.req = new.req => new.ts - u.ts >= Hour
      BY <1>1, <2>1 DEF Slicing
    <2>3. Recorded(new)
      BY <1>1, <2>1 DEF Slicing, Recorded
    <2>4. ASSUME NEW u \in uploads' PROVE Recorded(u)'
      <3>1. Recorded(u) /\ u.req[2] \in Sensors
        BY <1>5, <2>3, ReqSensor DEF OnceInv, Recorded
      <3> QED
        BY <1>2, <1>3, <3>1 DEF Recorded
    <2>5. ASSUME NEW x \in Sensors, NEW k \in Jobs, job'[x] = k, k.stage = "slice"
          PROVE  Slicing(x, k)'
      <3>1. x # s /\ job[x] = k
        BY <1>2, <2>5
      <3>2. Slicing(x, k)
        BY <2>5, <3>1 DEF OnceInv
      <3>3. k.d.req[2] = x
        BY <1>1, <2>5, <3>1, Held1
      <3>4. new.req # k.d.req
        BY <1>1, <2>1, <3>1, <3>3
      <3> QED
        BY <1>2, <1>3, <1>5, <3>2, <3>4 DEF Slicing
    <2>6. PreservedOnce'
      <3> SUFFICES ASSUME NEW u \in uploads', NEW v \in uploads', u.req = v.req, u # v
                   PROVE  u.ts - v.ts >= Hour \/ v.ts - u.ts >= Hour
        BY DEF PreservedOnce
      <3>1. CASE u \in uploads /\ v \in uploads
        BY <3>1 DEF OnceInv, PreservedOnce
      <3>2. CASE u = new /\ v \in uploads
        BY <2>2, <3>2
      <3>3. CASE v = new /\ u \in uploads
        BY <2>2, <3>3
      <3> QED
        BY <1>5, <3>1, <3>2, <3>3
    <2> QED
      BY <1>1, <2>4, <2>5, <2>6 DEF OnceInv
  <1> QED
    BY <1>2, <1>4, <1>5

LEMMA OnceNext ==
    ASSUME OnceInv, [Next]_vars
    PROVE  OnceInv'
  <1>0. Types /\ Types' /\ now \in Nat
    BY TypesNext DEF OnceInv, Types
  <1>1. ASSUME NEW s \in Sensors, AgentCrash(s) PROVE OnceInv'
    <2>1. /\ UNCHANGED <<now, localDisk, uploads>> /\ job'[s] = Down
          /\ \A x \in Sensors \ {s} : local'[x] = local[x] /\ job'[x] = job[x]
      BY <1>0, <1>1 DEF AgentCrash, Goto, Types
    <2>2. \A x \in Sensors : \A r, t : Remembers(x, r, t) => Remembers(x, r, t)'
      BY <2>1 DEF Remembers, Held
    <2>3. \A x \in Sensors : job'[x].stage = "slice" => job'[x] = job[x]
      BY <2>1 DEF Down
    <2> QED
      BY <1>0, <2>1, <2>2, <2>3, OnceStands
  <1>2. ASSUME NEW s \in Sensors, AgentStart(s) PROVE OnceInv'
    <2>1. /\ UNCHANGED <<now, localDisk, uploads>> /\ job'[s] = Idle /\ local'[s] = localDisk[s]
          /\ \A x \in Sensors \ {s} : local'[x] = local[x] /\ job'[x] = job[x]
      BY <1>0, <1>2 DEF AgentStart, Goto, Types
    <2>2. \A x \in Sensors : \A r, t : Remembers(x, r, t) => Remembers(x, r, t)'
      BY <2>1 DEF Remembers, Held
    <2>3. \A x \in Sensors : job'[x].stage = "slice" => job'[x] = job[x]
      BY <2>1 DEF Idle
    <2> QED
      BY <1>0, <2>1, <2>2, <2>3, OnceStands
  <1>3. ASSUME NEW s \in Sensors, (\E d \in directives : TakeDirective(s, d)) \/ Report(s)
        PROVE  OnceInv'
    <2>1. /\ UNCHANGED <<now, local, localDisk, uploads>>
          /\ job[s] # Down /\ job'[s].stage \in {"idle", "reserve", "report"}
          /\ \A x \in Sensors \ {s} : job'[x] = job[x]
      BY <1>0, <1>3 DEF TakeDirective, Report, Goto, Types, budgetVars, Failing, Idle, Down
    <2>2. \A x \in Sensors : \A r, t : Remembers(x, r, t) => Remembers(x, r, t)'
      BY <2>1 DEF Remembers, Held
    <2>3. \A x \in Sensors : job'[x].stage = "slice" => job'[x] = job[x]
      BY <2>1
    <2> QED
      BY <1>0, <2>1, <2>2, <2>3, OnceStands
  <1>4. CASE Orchestrate \/ OrchestratorCrash \/ Tick \/ RingStep \/ UNCHANGED vars
    <2>1. now' \in {now, now + 1} /\ UNCHANGED <<local, localDisk, job, uploads>>
      <3>1. CASE Orchestrate
        BY <3>1 DEF Orchestrate, HandleIntent, SendDirective, HandleStatus
      <3>2. CASE OrchestratorCrash
        BY <3>2 DEF OrchestratorCrash
      <3>3. CASE Tick
        BY <3>3 DEF Tick, budgetVars
      <3>4. CASE RingStep
        BY <3>4, RingStepKeeps DEF budgetVars
      <3>5. CASE UNCHANGED vars
        BY <3>5 DEF vars, budgetVars
      <3> QED
        BY <1>4, <3>1, <3>2, <3>3, <3>4, <3>5
    <2>2. \A x \in Sensors : \A r, t : Remembers(x, r, t) => Remembers(x, r, t)'
      BY <2>1 DEF Remembers, Held
    <2> QED
      BY <1>0, <2>1, <2>2, OnceStands
  <1> QED
    BY <1>1, <1>2, <1>3, <1>4, OnceReserve, OnceSlice, OnceFinish DEF Next, JobStep, RingStep

\* Budget's deduplication survives every death, redelivery and failed save: two
\* uploads for one request are an hour apart.
THEOREM OncePerHour == Spec => []PreservedOnce
  <1>1. Init => OnceInv
    <2> SUFFICES ASSUME Init PROVE OnceInv
      OBVIOUS
    <2>1. uploads = {} /\ \A s \in Sensors : job[s] = Idle
      BY DEF Init
    <2> QED
      BY <2>1, TypesInit DEF OnceInv, PreservedOnce, Idle
  <1>2. OnceInv => PreservedOnce
    BY DEF OnceInv
  <1> QED
    BY <1>1, <1>2, OnceNext, PTL DEF Spec

-----------------------------------------------------------------------------
(* The hourly bytes.  A charge is the request and the time of a directive: *)
(* the orchestrator's budget keeps every charge of the last hour, so it    *)
(* counts them all when it admits one more.                                *)

Issued == sending \cup Out
Charges ==
    {<<d.req, d.end>> : d \in Issued} \cup {<<u.req, u.asked>> : u \in uploads}
Accounted(r, t) == Held(central, r, t) /\ Held(centralDisk, r, t)

\* Charges of the hour up to t whose c-th part, sensor or tenant, is x.
Hourly(P, c, x, t) == {p \in P : p[1][c] = x /\ t - Hour < p[2] /\ p[2] <= t}

CountInv ==
    /\ Types
    /\ IsFiniteSet(central) /\ IsFiniteSet(centralDisk) /\ IsFiniteSet(Charges)
    /\ \A p \in Charges : p \in Reqs \X (0 .. now)
    /\ \A p \in Charges : now - p[2] < Hour => Accounted(p[1], p[2])
    /\ \A t \in Nat : /\ \A s \in Sensors : Cardinality(Hourly(Charges, 2, s, t)) <= BytesPerHour
                      /\ \A i \in Intents : Cardinality(Hourly(Charges, 1, i.tenant, t)) <= TenantBytes

LEMMA FinishedFinite ==
    ASSUME NEW entries, IsFiniteSet(entries), NEW r
    PROVE  IsFiniteSet(Finished(entries, r))
  <1> DEFINE g(e) == IF e.req = r THEN [e EXCEPT !.active = FALSE] ELSE e
             f == [e \in entries |-> g(e)]
  <1>1. Finished(entries, r) = {g(e) : e \in entries}
    BY DEF Finished
  <1> HIDE DEF g
  <1>2. f \in Surjection(entries, Finished(entries, r))
    BY <1>1 DEF Surjection
  <1> QED
    BY <1>2, FS_Surjection

LEMMA ReservedFinite ==
    ASSUME NEW entries, IsFiniteSet(entries), NEW r
    PROVE  IsFiniteSet(Pruned(entries)) /\ IsFiniteSet(Reserved(entries, r))
  <1>1. Pruned(entries) \in SUBSET entries
    BY DEF Pruned
  <1>2. IsFiniteSet(Pruned(entries))
    BY <1>1, FS_Subset
  <1> QED
    BY <1>2, FS_AddElement DEF Reserved

LEMMA HourlyFinite ==
    ASSUME NEW P, IsFiniteSet(P), NEW Q \in SUBSET P, NEW c, NEW x, NEW t
    PROVE  /\ IsFiniteSet(Hourly(Q, c, x, t))
           /\ Cardinality(Hourly(Q, c, x, t)) \in Nat
           /\ Cardinality(Hourly(P, c, x, t)) \in Nat
           /\ Cardinality(Hourly(Q, c, x, t)) <= Cardinality(Hourly(P, c, x, t))
  <1>1. Hourly(P, c, x, t) \in SUBSET P /\ Hourly(Q, c, x, t) \in SUBSET Hourly(P, c, x, t)
    BY DEF Hourly
  <1>2. IsFiniteSet(Hourly(P, c, x, t))
    BY <1>1, FS_Subset
  <1>3. /\ IsFiniteSet(Hourly(Q, c, x, t))
        /\ Cardinality(Hourly(Q, c, x, t)) <= Cardinality(Hourly(P, c, x, t))
    BY <1>1, <1>2, FS_Subset
  <1> QED
    BY <1>2, <1>3, FS_CardinalityType

\* One more charge fits when the budget, which holds every charge of the last hour,
\* has room for it.
LEMMA Fits ==
    ASSUME NEW P, IsFiniteSet(P), NEW E, IsFiniteSet(E), NEW c, NEW r, NEW n \in Nat, NEW m \in Nat,
           Hour \in Nat, \A p \in P : p \in Reqs \X (0 .. m),
           \A p \in P : m - p[2] < Hour => Held(E, p[1], p[2]),
           Cardinality({e \in E : e.req[c] = r[c]}) + 1 <= n,
           \A t \in Nat : Cardinality(Hourly(P, c, r[c], t)) <= n,
           NEW t \in Nat
    PROVE  Cardinality(Hourly(P \cup {<<r, m>>}, c, r[c], t)) <= n
  <1> DEFINE x == r[c]
             D == {e \in E : e.req[c] = x}
             new == <<r, m>>
             H == Hourly(P, c, x, t)
  <1>1. CASE t < m
    <2>1. Hourly(P \cup {new}, c, x, t) = H
      BY <1>1 DEF Hourly
    <2> QED
      BY <2>1
  <1>2. CASE t >= m
    <2>1. \A p \in H : m - p[2] < Hour /\ p[1][c] = x /\ p \in P
      BY <1>2 DEF Hourly
    <2>2. \A p \in H : \E e \in D : e.req = p[1] /\ e.ts = p[2]
      BY <2>1 DEF Held
    <2> DEFINE f == [p \in H |-> CHOOSE e \in D : e.req = p[1] /\ e.ts = p[2]]
    <2>3. \A p \in H : f[p] \in D /\ f[p].req = p[1] /\ f[p].ts = p[2]
      BY <2>2, Zenon
    <2>4. f \in [H -> D]
      BY <2>3
    <2> HIDE DEF f
    <2>5. \A p, q \in H : f[p] = f[q] => p = q
      BY <2>1, <2>3
    <2>6. f \in Injection(H, D)
      BY <2>4, <2>5 DEF Injection, IsInjective
    <2>7. IsFiniteSet(D) /\ Cardinality(D) \in Nat
      BY FS_Subset, FS_CardinalityType
    <2>8. IsFiniteSet(H) /\ Cardinality(H) <= Cardinality(D)
      BY <2>6, <2>7, FS_Injection
    <2>9. Cardinality(H) \in Nat /\ Cardinality(H) + 1 <= n
      BY <2>7, <2>8, FS_CardinalityType
    <2>10. Hourly(P \cup {new}, c, x, t) \in SUBSET (H \cup {new})
      BY DEF Hourly
    <2>11. IsFiniteSet(H \cup {new}) /\ Cardinality(H \cup {new}) <= Cardinality(H) + 1
      <3> HIDE DEF H, new
      <3>1. /\ IsFiniteSet(H \cup {new})
            /\ Cardinality(H \cup {new}) = IF new \in H THEN Cardinality(H) ELSE Cardinality(H) + 1
        BY <2>8, FS_AddElement
      <3> QED
        BY <2>9, <3>1
    <2> DEFINE G == Hourly(P \cup {new}, c, x, t)
    <2>12. IsFiniteSet(G) /\ Cardinality(G) <= Cardinality(H \cup {new})
      BY <2>10, <2>11, FS_Subset
    <2>13. Cardinality(G) \in Nat /\ Cardinality(H \cup {new}) \in Nat
      BY <2>11, <2>12, FS_CardinalityType
    <2> HIDE DEF G, H, D, new
    <2> QED
      BY <2>9, <2>11, <2>12, <2>13 DEF G, new
  <1> QED
    BY <1>1, <1>2

\* A step that charges nothing.
LEMMA CountStands ==
    ASSUME CountInv, Types', now' \in {now, now + 1}, Charges' \subseteq Charges,
           IsFiniteSet(central'), IsFiniteSet(centralDisk'),
           \A r, t : now - t < Hour /\ Accounted(r, t) => Accounted(r, t)'
    PROVE  CountInv'
  <1>1. now \in Nat /\ now' \in Nat /\ now <= now' /\ Hour \in Nat
    BY PreserveAssumption DEF CountInv, Types
  <1>2. IsFiniteSet(Charges')
    BY FS_Subset DEF CountInv
  <1>3. ASSUME NEW p \in Charges'
        PROVE  p \in Reqs \X (0 .. now') /\ (now' - p[2] < Hour => Accounted(p[1], p[2])')
    <2>1. p \in Reqs \X (0 .. now) /\ (now - p[2] < Hour => Accounted(p[1], p[2]))
      BY DEF CountInv
    <2>2. p \in Reqs \X (0 .. now') /\ (now' - p[2] < Hour => now - p[2] < Hour)
      BY <1>1, <2>1
    <2> QED
      BY <2>1, <2>2
  <1>4. ASSUME NEW c, NEW x, NEW t
        PROVE  /\ Cardinality(Hourly(Charges', c, x, t)) \in Nat
               /\ Cardinality(Hourly(Charges, c, x, t)) \in Nat
               /\ Cardinality(Hourly(Charges', c, x, t)) <= Cardinality(Hourly(Charges, c, x, t))
    BY HourlyFinite DEF CountInv
  <1>5. ASSUME NEW t \in Nat
        PROVE  /\ \A s \in Sensors : Cardinality(Hourly(Charges', 2, s, t)) <= BytesPerHour
               /\ \A i \in Intents : Cardinality(Hourly(Charges', 1, i.tenant, t)) <= TenantBytes
    <2>1. BytesPerHour \in Nat /\ TenantBytes \in Nat
      BY PreserveAssumption
    <2>2. ASSUME NEW s \in Sensors PROVE Cardinality(Hourly(Charges', 2, s, t)) <= BytesPerHour
      <3>1. Cardinality(Hourly(Charges, 2, s, t)) <= BytesPerHour
        BY DEF CountInv
      <3> QED
        BY <1>4, <2>1, <3>1
    <2>3. ASSUME NEW i \in Intents PROVE Cardinality(Hourly(Charges', 1, i.tenant, t)) <= TenantBytes
      <3>1. Cardinality(Hourly(Charges, 1, i.tenant, t)) <= TenantBytes
        BY DEF CountInv
      <3> QED
        BY <1>4, <2>1, <3>1
    <2> QED
      BY <2>2, <2>3
  <1>6. \A t \in Nat :
          /\ \A s \in Sensors : Cardinality(Hourly(Charges, 2, s, t)') <= BytesPerHour
          /\ \A i \in Intents : Cardinality(Hourly(Charges, 1, i.tenant, t)') <= TenantBytes
    BY <1>5 DEF Hourly
  <1> QED
    BY <1>2, <1>3, <1>6 DEF CountInv

\* The orchestrator admits an intent.
LEMMA CountAdmit ==
    ASSUME CountInv, Types', NEW i \in Intents, Admits(central, Req(i)), now' = now,
           central' = Reserved(central, Req(i)), centralDisk' = central',
           Charges' \subseteq Charges \cup {<<Req(i), now>>}
    PROVE  CountInv'
  <1>0. PICK r, m, new : r = Req(i) /\ m = now /\ new = <<r, m>>
    OBVIOUS
  <1>1. /\ m \in Nat /\ Hour \in Nat \ {0} /\ r \in Reqs /\ r[1] = i.tenant /\ r[2] = i.sensor
        /\ r[2] \in Sensors /\ central \in SUBSET Entries
        /\ BytesPerHour \in Nat /\ TenantBytes \in Nat
    BY <1>0, PreserveAssumption, ReqFields DEF CountInv, Types
  <1> DEFINE E == Pruned(central)
             P == Charges \cup {new}
  <1>2. IsFiniteSet(E) /\ IsFiniteSet(central') /\ IsFiniteSet(centralDisk')
    BY ReservedFinite DEF CountInv
  <1>3. ~Exhausted(E, r)
    BY <1>0 DEF Admits
  <1>4. /\ ~(Cardinality({e \in E : e.req[2] = r[2]}) + 1 > BytesPerHour)
        /\ ~(Cardinality({e \in E : e.req[1] = r[1]}) + 1 > TenantBytes)
    BY <1>3 DEF Exhausted, OfSensor, OfTenant
  <1>5. /\ Cardinality({e \in E : e.req[2] = r[2]}) \in Nat
        /\ Cardinality({e \in E : e.req[1] = r[1]}) \in Nat
    BY <1>2, FS_Subset, FS_CardinalityType
  <1>6. /\ Cardinality({e \in E : e.req[2] = r[2]}) + 1 <= BytesPerHour
        /\ Cardinality({e \in E : e.req[1] = r[1]}) + 1 <= TenantBytes
    BY <1>1, <1>4, <1>5
  <1>7. IsFiniteSet(Charges) /\ IsFiniteSet(P) /\ Charges' \in SUBSET P
    BY <1>0, FS_AddElement DEF CountInv
  <1>8. ASSUME NEW p \in Charges
        PROVE  p \in Reqs \X (0 .. m) /\ (m - p[2] < Hour => Held(E, p[1], p[2]))
    <2>1. p \in Reqs \X (0 .. m) /\ (m - p[2] < Hour => Held(central, p[1], p[2]))
      BY <1>0 DEF CountInv, Accounted
    <2> QED
      BY <1>0, <1>1, <2>1, HeldStays
  <1>9. ASSUME NEW p \in Charges'
        PROVE  p \in Reqs \X (0 .. now') /\ (now' - p[2] < Hour => Accounted(p[1], p[2])')
    <2>1. CASE p = new
      <3>1. p \in Reqs \X (0 .. now') /\ p[1] = r /\ p[2] = m
        BY <1>0, <1>1, <2>1
      <3>2. Held(central', r, m)
        BY <1>0, ReservedHeld
      <3> QED
        BY <3>1, <3>2 DEF Accounted, Held
    <2>2. CASE p \in Charges
      <3>1. p \in Reqs \X (0 .. now') /\ (m - p[2] < Hour => Held(central, p[1], p[2]))
        BY <1>0, <2>2 DEF CountInv, Accounted
      <3>2. m - p[2] < Hour => Held(central', p[1], p[2])
        BY <1>0, <1>1, <3>1, HeldStays
      <3> QED
        BY <1>0, <3>1, <3>2 DEF Accounted, Held
    <2> QED
      BY <1>7, <2>1, <2>2
  <1>10. ASSUME NEW t \in Nat, NEW s \in Sensors
         PROVE  Cardinality(Hourly(Charges', 2, s, t)) <= BytesPerHour
    <2>1. Cardinality(Hourly(P, 2, s, t)) <= BytesPerHour
      <3>1. CASE s = r[2]
        <4>1. \A y \in Nat : Cardinality(Hourly(Charges, 2, r[2], y)) <= BytesPerHour
          BY <1>1 DEF CountInv
        <4> HIDE DEF E, P
        <4>2. Cardinality(Hourly(Charges \cup {<<r, m>>}, 2, r[2], t)) <= BytesPerHour
          BY <1>1, <1>2, <1>6, <1>7, <1>8, <4>1, Fits
        <4> QED
          BY <1>0, <3>1, <4>2 DEF P
      <3>2. CASE s # r[2]
        <4>1. Hourly(P, 2, s, t) = Hourly(Charges, 2, s, t)
          BY <1>0, <3>2 DEF Hourly
        <4> QED
          BY <4>1 DEF CountInv
      <3> QED
        BY <3>1, <3>2
    <2>2. /\ Cardinality(Hourly(Charges', 2, s, t)) \in Nat /\ Cardinality(Hourly(P, 2, s, t)) \in Nat
          /\ Cardinality(Hourly(Charges', 2, s, t)) <= Cardinality(Hourly(P, 2, s, t))
      BY <1>7, HourlyFinite
    <2> QED
      BY <1>1, <2>1, <2>2
  <1>11. ASSUME NEW t \in Nat, NEW k \in Intents
         PROVE  Cardinality(Hourly(Charges', 1, k.tenant, t)) <= TenantBytes
    <2>0. PICK x : x = k.tenant
      OBVIOUS
    <2>1. Cardinality(Hourly(P, 1, x, t)) <= TenantBytes
      <3>1. CASE x = r[1]
        <4>1. \A y \in Nat : Cardinality(Hourly(Charges, 1, r[1], y)) <= TenantBytes
          BY <1>1 DEF CountInv
        <4> HIDE DEF E, P
        <4>2. Cardinality(Hourly(Charges \cup {<<r, m>>}, 1, r[1], t)) <= TenantBytes
          BY <1>1, <1>2, <1>6, <1>7, <1>8, <4>1, Fits
        <4> QED
          BY <1>0, <3>1, <4>2 DEF P
      <3>2. CASE x # r[1]
        <4>1. Hourly(P, 1, x, t) = Hourly(Charges, 1, x, t)
          BY <1>0, <3>2 DEF Hourly
        <4> QED
          BY <2>0, <4>1 DEF CountInv
      <3> QED
        BY <3>1, <3>2
    <2>2. /\ Cardinality(Hourly(Charges', 1, x, t)) \in Nat /\ Cardinality(Hourly(P, 1, x, t)) \in Nat
          /\ Cardinality(Hourly(Charges', 1, x, t)) <= Cardinality(Hourly(P, 1, x, t))
      BY <1>7, HourlyFinite
    <2> QED
      BY <1>1, <2>0, <2>1, <2>2
  <1>12. \A t \in Nat :
          /\ \A s \in Sensors : Cardinality(Hourly(Charges, 2, s, t)') <= BytesPerHour
          /\ \A k \in Intents : Cardinality(Hourly(Charges, 1, k.tenant, t)') <= TenantBytes
    BY <1>10, <1>11 DEF Hourly
  <1>13. IsFiniteSet(Charges')
    BY <1>7, FS_Subset
  <1> QED
    BY <1>2, <1>9, <1>12, <1>13 DEF CountInv

\* Nothing new is issued, and an upload is charged to a directive that was.
LEMMA ChargesShrink ==
    ASSUME Issued' \subseteq Issued,
           \A u \in uploads' : u \in uploads \/ \E d \in Issued : u.req = d.req /\ u.asked = d.end
    PROVE  Charges' \subseteq Charges
  <1>1. ASSUME NEW d \in Issued' PROVE <<d.req, d.end>> \in Charges
    BY DEF Charges
  <1>2. ASSUME NEW u \in uploads' PROVE <<u.req, u.asked>> \in Charges
    BY DEF Charges
  <1>3. Charges' = {<<d.req, d.end>> : d \in Issued'} \cup {<<u.req, u.asked>> : u \in uploads'}
    BY DEF Charges
  <1> QED
    BY <1>1, <1>2, <1>3

\* What a step of the orchestrator puts out is what it was sending.
LEMMA OrchestratorOut ==
    ASSUME Types, Orchestrate \/ OrchestratorCrash
    PROVE  /\ UNCHANGED <<now, taken, job, uploads, ring>>
           /\ directives \subseteq directives' /\ directives' \subseteq directives \cup sending
           /\ sending' = {} \/ (sending = {} /\ UNCHANGED directives)
           /\ sending' # {} => sending' = sending \/ \E i \in intents :
                 /\ sending' = {Directive(i)} /\ Admits(central, Req(i))
                 /\ central' = Reserved(central, Req(i)) /\ centralDisk' = central'
           /\ sending' \in {{}, sending} =>
                 /\ (IsFiniteSet(central) /\ IsFiniteSet(centralDisk)) =>
                       (IsFiniteSet(central') /\ IsFiniteSet(centralDisk'))
                 /\ \A r, t : now - t < Hour /\ Accounted(r, t) => Accounted(r, t)'
  <1>0. central \in SUBSET Entries /\ centralDisk \in SUBSET Entries
    BY DEF Types
  <1>a. \A E, r : IsFiniteSet(E) => IsFiniteSet(Pruned(E)) /\ IsFiniteSet(Reserved(E, r))
                                    /\ IsFiniteSet(Finished(E, r))
    BY ReservedFinite, FinishedFinite
  <1>b. \A r, q, t : Held(central, q, t) =>
          /\ now - t < Hour => Held(Pruned(central), q, t) /\ Held(Reserved(central, r), q, t)
          /\ Held(Finished(central, r), q, t)
    BY <1>0, HeldStays
  <1>1. ASSUME NEW i \in intents, HandleIntent(i)
        PROVE  /\ UNCHANGED <<now, taken, job, uploads, ring, directives>> /\ sending = {}
               /\ \/ /\ Admits(central, Req(i)) /\ central' = Reserved(central, Req(i))
                     /\ centralDisk' = central' /\ sending' = {Directive(i)}
                  \/ /\ sending' = {}
                     /\ central' \in {central, Pruned(central), Reserved(central, Req(i))}
                     /\ centralDisk' \in {centralDisk, central'}
    BY <1>1, IntentDoes DEF HandleIntent, ringVars
  <1>2. ASSUME SendDirective
        PROVE  /\ UNCHANGED <<now, taken, job, uploads, ring>> /\ sending' = {}
               /\ directives \subseteq directives' /\ directives' \subseteq directives \cup sending
               /\ \/ UNCHANGED <<central, centralDisk>>
                  \/ \E d \in sending : central' = Finished(central, d.req) /\ centralDisk' = central'
    BY <1>2 DEF SendDirective, ringVars
  <1>3. ASSUME NEW st \in unread, HandleStatus(st)
        PROVE  /\ UNCHANGED <<now, taken, job, uploads, ring, directives, sending>> /\ sending = {}
               /\ central' = Finished(central, Req(st.intent)) /\ centralDisk' \in {central', centralDisk}
    BY <1>3 DEF HandleStatus, ringVars
  <1>4. ASSUME OrchestratorCrash
        PROVE  /\ UNCHANGED <<now, taken, job, uploads, ring, directives, centralDisk>>
               /\ sending' = {} /\ central' = centralDisk
    BY <1>4 DEF OrchestratorCrash, ringVars
  <1>5. \/ \E i \in intents : HandleIntent(i)
        \/ SendDirective \/ OrchestratorCrash
        \/ \E st \in unread : HandleStatus(st)
    BY DEF Orchestrate
  <1>6. ASSUME sending' \in {{}, sending}, IsFiniteSet(central), IsFiniteSet(centralDisk)
        PROVE  IsFiniteSet(central') /\ IsFiniteSet(centralDisk')
    BY <1>1, <1>2, <1>3, <1>4, <1>5, <1>6, <1>a
  <1>7. ASSUME sending' \in {{}, sending}, NEW r, NEW t, now - t < Hour, Accounted(r, t)
        PROVE  Accounted(r, t)'
    <2>1. Held(central, r, t) /\ Held(centralDisk, r, t)
      BY <1>7 DEF Accounted
    <2>2. Held(central', r, t) /\ Held(centralDisk', r, t)
      BY <1>1, <1>2, <1>3, <1>4, <1>5, <1>7, <1>b, <2>1
    <2> QED
      BY <2>2 DEF Accounted, Held
  <1> QED
    BY <1>1, <1>2, <1>3, <1>4, <1>5, <1>6, <1>7

LEMMA InHandIssued ==
    ASSUME Types, NEW s \in Sensors, job[s].stage \notin {"idle", "down"}
    PROVE  job[s].d \in Issued
  BY Held1 DEF Issued, Out

LEMMA CountNext ==
    ASSUME CountInv, [Next]_vars
    PROVE  CountInv'
  <1>0. Types /\ Types' /\ now \in Nat /\ IsFiniteSet(central) /\ IsFiniteSet(centralDisk)
    BY TypesNext DEF CountInv, Types
  <1>1. ASSUME UNCHANGED <<central, centralDisk>>, now' \in {now, now + 1}, Charges' \subseteq Charges
        PROVE  CountInv'
    <2>1. \A r, t : Accounted(r, t) => Accounted(r, t)'
      BY <1>1 DEF Accounted, Held
    <2> QED
      BY <1>0, <1>1, <2>1, CountStands
  <1>2. ASSUME NEW s \in Sensors, JobStep(s) \/ AgentCrash(s) \/ AgentStart(s)
        PROVE  CountInv'
    <2>1. Out' \subseteq Out /\ UNCHANGED <<now, central, centralDisk, sending>>
      BY <1>0, <1>2, AgentOut
    <2>2. Issued' \subseteq Issued
      BY <2>1 DEF Issued
    <2>3. ASSUME NEW u \in uploads', u \notin uploads
          PROVE  \E d \in Issued : u.req = d.req /\ u.asked = d.end
      <3>1. Slice(s)
        BY <1>2, <2>3 DEF JobStep, TakeDirective, Reserve, Finish, Report, AgentCrash, AgentStart
      <3>2. u.req = job[s].d.req /\ u.asked = job[s].d.end
        BY <2>3, <3>1 DEF Slice
      <3>3. job[s].d \in Issued
        BY <1>0, <3>1, InHandIssued DEF Slice
      <3> QED
        BY <3>2, <3>3
    <2>4. Charges' \subseteq Charges
      BY <2>2, <2>3, ChargesShrink
    <2> QED
      BY <1>1, <2>1, <2>4
  <1>3. CASE Tick \/ RingStep \/ UNCHANGED vars
    <2>1. /\ now' \in {now, now + 1} /\ taken' \subseteq taken
          /\ UNCHANGED <<central, centralDisk, sending, directives, job, uploads>>
      BY <1>3, RingStepKeeps DEF Tick, vars, budgetVars
    <2>2. Issued' \subseteq Issued
      BY <2>1 DEF Issued, Out, InHand
    <2>3. Charges' \subseteq Charges
      BY <2>1, <2>2, ChargesShrink
    <2> QED
      BY <1>1, <2>1, <2>3
  <1>4. CASE Orchestrate \/ OrchestratorCrash
    <2>1. /\ UNCHANGED <<now, taken, job, uploads>>
          /\ directives' \subseteq directives \cup sending
      BY <1>0, <1>4, OrchestratorOut
    <2>2. Issued' \subseteq Issued \cup sending'
      BY <2>1 DEF Issued, Out, InHand
    <2>3. CASE sending' \in {{}, sending}
      <3>1. /\ IsFiniteSet(central') /\ IsFiniteSet(centralDisk')
            /\ \A r, t : now - t < Hour /\ Accounted(r, t) => Accounted(r, t)'
        BY <1>0, <1>4, <2>3, OrchestratorOut
      <3>2. Issued' \subseteq Issued
        BY <2>2, <2>3 DEF Issued
      <3>3. Charges' \subseteq Charges
        BY <2>1, <3>2, ChargesShrink
      <3> QED
        BY <1>0, <2>1, <3>1, <3>3, CountStands
    <2>4. CASE sending' \notin {{}, sending}
      <3>1. PICK i \in intents : /\ sending' = {Directive(i)} /\ Admits(central, Req(i))
                                 /\ central' = Reserved(central, Req(i)) /\ centralDisk' = central'
        BY <1>0, <1>4, <2>4, OrchestratorOut
      <3>2. i \in Intents /\ Directive(i).req = Req(i) /\ Directive(i).end = now
        BY <1>0 DEF Types, Directive
      <3>3. ASSUME NEW d \in Issued' PROVE <<d.req, d.end>> \in Charges \cup {<<Req(i), now>>}
        BY <2>2, <3>1, <3>2 DEF Charges
      <3>4. ASSUME NEW u \in uploads' PROVE <<u.req, u.asked>> \in Charges
        BY <2>1 DEF Charges
      <3>5. Charges' = {<<d.req, d.end>> : d \in Issued'} \cup {<<u.req, u.asked>> : u \in uploads'}
        BY DEF Charges
      <3>6. Charges' \subseteq Charges \cup {<<Req(i), now>>}
        BY <3>3, <3>4, <3>5
      <3> QED
        BY <1>0, <2>1, <3>1, <3>2, <3>6, CountAdmit
    <2> QED
      BY <2>3, <2>4
  <1> QED
    BY <1>2, <1>3, <1>4 DEF Next, RingStep

-----------------------------------------------------------------------------
(* The packet ring: what is in it was read no earlier than when the agent  *)
(* started, so a directive that comes again after a death finds nothing.   *)

Young(s, t) == \A k \in 1 .. Len(ring[s]) : ring[s][k] >= t

LEMMA LeastNumber ==
    ASSUME NEW T \in SUBSET Nat, T # {}
    PROVE  \E m \in T : \A k \in T : m <= k
  <1> DEFINE R == {ss \in Nat \X Nat : ss[1] < ss[2]}
  <1>1. IsWellFoundedOn(R, Nat)
    BY NatLessThanWellFounded, Zenon DEF OpToRel
  <1>2. \A x, y \in Nat : x < y => <<x, y>> \in R
    OBVIOUS
  <1> HIDE DEF R
  <1>3. PICK x \in T : \A y \in T : ~(<<y, x>> \in R)
    BY <1>1, WFMin, Zenon
  <1>4. \A y \in T : ~(y < x)
    BY <1>2, <1>3
  <1> QED
    BY <1>4

\* What is left of a sequence from which some front was taken.
LEMMA FrontGone ==
    ASSUME NEW q \in Seq(Nat), NEW n \in 0 .. Len(q)
    PROVE  /\ SubSeq(q, n + 1, Len(q)) \in Seq(Nat)
           /\ \A k \in 1 .. Len(SubSeq(q, n + 1, Len(q))) :
                \E m \in 1 .. Len(q) : SubSeq(q, n + 1, Len(q))[k] = q[m]
  <1>1. /\ SubSeq(q, n + 1, Len(q)) \in Seq(Nat)
        /\ Len(SubSeq(q, n + 1, Len(q))) = IF n + 1 <= Len(q) THEN Len(q) - n ELSE 0
        /\ \A i \in 1 .. Len(q) - n : SubSeq(q, n + 1, Len(q))[i] = q[n + i]
    <2>1. n + 1 \in Int /\ Len(q) \in Int /\ \A i \in n + 1 .. Len(q) : q[i] \in Nat
      OBVIOUS
    <2>2. /\ SubSeq(q, n + 1, Len(q)) \in Seq(Nat)
          /\ Len(SubSeq(q, n + 1, Len(q))) =
                IF n + 1 <= Len(q) THEN Len(q) - (n + 1) + 1 ELSE 0
          /\ \A i \in 1 .. Len(q) - (n + 1) + 1 : SubSeq(q, n + 1, Len(q))[i] = q[n + 1 + i - 1]
      BY <2>1, SubSeqProperties
    <2> QED
      BY <2>1, <2>2
  <1>2. ASSUME NEW k \in 1 .. Len(SubSeq(q, n + 1, Len(q)))
        PROVE  \E m \in 1 .. Len(q) : SubSeq(q, n + 1, Len(q))[k] = q[m]
    <2>1. k \in 1 .. Len(q) - n /\ n + k \in 1 .. Len(q)
      BY <1>1
    <2>2. SubSeq(q, n + 1, Len(q))[k] = q[n + k]
      BY <1>1, <2>1
    <2> QED
      BY <2>1, <2>2
  <1> QED
    BY <1>1, <1>2

\* PacketRing.expire takes the oldest packets out.
LEMMA ExpiredIs ==
    ASSUME now \in Nat, NEW s, ring[s] \in Seq(Nat)
    PROVE  /\ Expired(s) \in Seq(Nat)
           /\ \A k \in 1 .. Len(Expired(s)) : \E m \in 1 .. Len(ring[s]) : Expired(s)[k] = ring[s][m]
  <1> DEFINE q == ring[s]
             old == now - RingSecs
             Stop(n) == n < Len(q) => q[n + 1] > old
             T == {n \in 0 .. Len(q) : Stop(n)}
  <1>1. T \in SUBSET Nat /\ Len(q) \in T /\ Len(q) \in Nat
    OBVIOUS
  <1>2. PICK n \in T : \A k \in T : n <= k
    <2> HIDE DEF T
    <2> QED
      BY <1>1, LeastNumber
  <1>3. ASSUME NEW k \in 1 .. n PROVE q[k] <= old
    <2>0. n \in 0 .. Len(q)
      OBVIOUS
    <2>1. k - 1 \in 0 .. Len(q) /\ ~(n <= k - 1) /\ k - 1 < Len(q)
      BY <1>1, <2>0
    <2>2. ~Stop(k - 1)
      BY <1>2, <2>1
    <2>3. k - 1 + 1 = k /\ k \in 1 .. Len(q)
      BY <1>1, <2>0
    <2>4. ~(q[k] > old)
      BY <2>1, <2>2, <2>3
    <2>5. q[k] \in Nat
      BY <2>3
    <2>6. RingSecs \in Nat
      BY PreserveAssumption
    <2> QED
      BY <2>4, <2>5, <2>6
  <1> DEFINE gone == CHOOSE x \in 0 .. Len(q) : (\A k \in 1 .. x : q[k] <= old) /\ Stop(x)
  <1>4. gone \in 0 .. Len(q)
    BY <1>2, <1>3
  <1>5. Fresh(s) = SubSeq(q, gone + 1, Len(q))
    BY DEF Fresh
  <1>6. Expired(s) \in {<<>>, Fresh(s)}
    BY DEF Expired
  <1> HIDE DEF gone
  <1>7. CASE Expired(s) = Fresh(s)
    <2> HIDE DEF q
    <2>1. q \in Seq(Nat)
      BY DEF q
    <2>2. /\ SubSeq(q, gone + 1, Len(q)) \in Seq(Nat)
          /\ \A k \in 1 .. Len(SubSeq(q, gone + 1, Len(q))) :
               \E m \in 1 .. Len(q) : SubSeq(q, gone + 1, Len(q))[k] = q[m]
      BY <1>4, <2>1, FrontGone
    <2> QED
      BY <1>5, <1>7, <2>2 DEF q
  <1>8. CASE Expired(s) = <<>>
    BY <1>8
  <1> QED
    BY <1>6, <1>7, <1>8

Rings == [Sensors -> Seq(Nat)]

LEMMA RingChange ==
    ASSUME now \in Nat, ring \in Rings, NEW s \in Sensors, NEW q \in Seq(Nat),
           ring' = [ring EXCEPT ![s] = q],
           \A k \in 1 .. Len(q) : q[k] = now \/ \E m \in 1 .. Len(ring[s]) : q[k] = ring[s][m]
    PROVE  /\ ring' \in Rings
           /\ \A x \in Sensors, t \in 0 .. now : Young(x, t) => Young(x, t)'
  <1>1. ring' \in Rings /\ ring'[s] = q /\ \A x \in Sensors \ {s} : ring'[x] = ring[x]
    BY DEF Rings
  <1>2. ASSUME NEW x \in Sensors, NEW t \in 0 .. now, Young(x, t) PROVE Young(x, t)'
    <2>1. CASE x = s
      <3>1. ASSUME NEW k \in 1 .. Len(q) PROVE q[k] >= t
        <4>1. CASE q[k] = now
          BY <4>1
        <4>2. CASE \E m \in 1 .. Len(ring[s]) : q[k] = ring[s][m]
          BY <1>2, <2>1, <4>2 DEF Young
        <4> QED
          BY <4>1, <4>2
      <3> QED
        BY <1>1, <2>1, <3>1 DEF Young
    <2>2. CASE x # s
      BY <1>1, <1>2, <2>2 DEF Young
    <2> QED
      BY <2>1, <2>2
  <1> QED
    BY <1>1, <1>2

LEMMA RoomIs ==
    ASSUME NEW q \in Seq(Nat)
    PROVE  /\ Room(q) \in Seq(Nat)
           /\ \A k \in 1 .. Len(Room(q)) : \E m \in 1 .. Len(q) : Room(q)[k] = q[m]
  <1>1. CASE Len(q) = RingSlots
    <2>1. Room(q) = Tail(q) /\ q # <<>>
      BY <1>1, PreserveAssumption DEF Room
    <2>2. /\ Tail(q) \in Seq(Nat) /\ Len(Tail(q)) = Len(q) - 1
          /\ \A i \in 1 .. Len(Tail(q)) : Tail(q)[i] = q[i + 1]
      BY <2>1, HeadTailProperties
    <2>3. \A k \in 1 .. Len(Tail(q)) : k + 1 \in 1 .. Len(q) /\ Tail(q)[k] = q[k + 1]
      BY <2>2
    <2> QED
      BY <2>1, <2>2, <2>3
  <1>2. CASE Len(q) # RingSlots
    BY <1>2 DEF Room
  <1> QED
    BY <1>1, <1>2

\* Every step leaves old packets or none, and adds packets of now.
LEMMA RingNext ==
    ASSUME Types, ring \in Rings, [Next]_vars
    PROVE  /\ ring' \in Rings
           /\ \A x \in Sensors, t \in 0 .. now : Young(x, t) => Young(x, t)'
  <1>0. now \in Nat
    BY DEF Types
  <1>1. ASSUME NEW s \in Sensors,
               ring' = [ring EXCEPT ![s] = <<>>] \/ ring' = [ring EXCEPT ![s] = Expired(s)]
        PROVE  /\ ring' \in Rings
               /\ \A x \in Sensors, t \in 0 .. now : Young(x, t) => Young(x, t)'
    <2>1. ring[s] \in Seq(Nat)
      BY DEF Rings
    <2>2. /\ Expired(s) \in Seq(Nat)
          /\ \A k \in 1 .. Len(Expired(s)) : \E m \in 1 .. Len(ring[s]) : Expired(s)[k] = ring[s][m]
      BY <1>0, <2>1, ExpiredIs
    <2>3. <<>> \in Seq(Nat) /\ Len(<<>>) = 0
      OBVIOUS
    <2>4. CASE ring' = [ring EXCEPT ![s] = Expired(s)]
      BY <1>0, <2>2, <2>4, RingChange
    <2>5. CASE ring' = [ring EXCEPT ![s] = <<>>]
      <3>1. \A k \in 1 .. Len(<<>>) : FALSE
        BY <2>3
      <3> QED
        BY <1>0, <2>3, <2>5, <3>1, RingChange
    <2> QED
      BY <1>1, <2>4, <2>5
  <1>2. ASSUME NEW s \in Sensors, Packet(s), PolicyValid(now)
        PROVE  /\ ring' \in Rings
               /\ \A x \in Sensors, t \in 0 .. now : Young(x, t) => Young(x, t)'
    <2> DEFINE q == Room(Expired(s))
               a == Append(q, now)
    <2>1. ring[s] \in Seq(Nat) /\ ring' = [ring EXCEPT ![s] = a]
      BY <1>2 DEF Rings, Packet
    <2>2. /\ Expired(s) \in Seq(Nat)
          /\ \A k \in 1 .. Len(Expired(s)) : \E m \in 1 .. Len(ring[s]) : Expired(s)[k] = ring[s][m]
      BY <1>0, <2>1, ExpiredIs
    <2>3. /\ q \in Seq(Nat)
          /\ \A k \in 1 .. Len(q) : \E m \in 1 .. Len(Expired(s)) : q[k] = Expired(s)[m]
      BY <2>2, RoomIs
    <2>4. \A k \in 1 .. Len(q) : \E m \in 1 .. Len(ring[s]) : q[k] = ring[s][m]
      <3> HIDE DEF q
      <3> QED
        BY <2>2, <2>3
    <2>5. /\ a \in Seq(Nat) /\ Len(a) = Len(q) + 1 /\ a[Len(q) + 1] = now
          /\ \A k \in 1 .. Len(q) : a[k] = q[k]
      <3> HIDE DEF q
      <3> QED
        BY <1>0, <2>3, AppendProperties
    <2> HIDE DEF q, a
    <2>6. \A k \in 1 .. Len(a) : a[k] = now \/ \E m \in 1 .. Len(ring[s]) : a[k] = ring[s][m]
      <3> SUFFICES ASSUME NEW k \in 1 .. Len(a)
                   PROVE  a[k] = now \/ \E m \in 1 .. Len(ring[s]) : a[k] = ring[s][m]
        OBVIOUS
      <3>1. Len(q) \in Nat
        BY <2>3
      <3>2. k = Len(q) + 1 \/ k \in 1 .. Len(q)
        BY <2>5, <3>1
      <3> QED
        BY <2>4, <2>5, <3>2
    <2> QED
      BY <1>0, <2>1, <2>5, <2>6, RingChange
  <1>3. CASE UNCHANGED ring
    BY <1>3 DEF Young
  <1>4. \/ UNCHANGED ring
        \/ \E s \in Sensors : Packet(s) /\ PolicyValid(now)
        \/ \E s \in Sensors : \/ ring' = [ring EXCEPT ![s] = <<>>]
                              \/ ring' = [ring EXCEPT ![s] = Expired(s)]
    <2>1. CASE Orchestrate \/ OrchestratorCrash
      BY <2>1, OrchestratorOut
    <2>2. ASSUME NEW s \in Sensors, JobStep(s)
          PROVE  UNCHANGED ring \/ ring' = [ring EXCEPT ![s] = Expired(s)]
      BY <2>2 DEF JobStep, TakeDirective, Reserve, Slice, Finish, Report, ringVars
    <2>3. ASSUME NEW s \in Sensors, AgentCrash(s) \/ RingStops(s)
          PROVE  ring' = [ring EXCEPT ![s] = <<>>]
      BY <2>3 DEF AgentCrash, RingStops
    <2>4. ASSUME NEW s \in Sensors, AgentStart(s) PROVE UNCHANGED ring
      BY <2>4 DEF AgentStart
    <2>5. ASSUME NEW s \in Sensors, Packet(s)
          PROVE  PolicyValid(now) \/ ring' = [ring EXCEPT ![s] = Expired(s)]
      BY <2>5 DEF Packet
    <2>6. ASSUME NEW s \in Sensors, ExpireThread(s) PROVE ring' = [ring EXCEPT ![s] = Expired(s)]
      BY <2>6 DEF ExpireThread
    <2>7. CASE Tick \/ UNCHANGED vars
      BY <2>7 DEF Tick, vars, ringVars
    <2> QED
      BY <2>1, <2>2, <2>3, <2>4, <2>5, <2>6, <2>7 DEF Next
  <1> QED
    BY <1>1, <1>2, <1>3, <1>4

-----------------------------------------------------------------------------
(* A directive is uploaded once: it comes again only through the death of  *)
(* its agent, which loses the packets from before it was issued.           *)

SameCharge(u, d) == u.req = d.req /\ u.asked = d.end
Pending(s) == IF job[s].stage \in {"reserve", "slice"} THEN {job[s].d} ELSE {}

PlaceInv ==
    /\ CountInv
    /\ ring \in Rings
    /\ \A d, x \in Issued : d.req = x.req /\ d.end = x.end => d = x
    /\ sending \cap Out = {}
    /\ \A s \in Sensors : InHand(s) \cap directives = {}
    /\ \A u \in uploads : \A d \in sending : ~SameCharge(u, d)
    /\ \A u \in uploads : \A d \in directives : SameCharge(u, d) => Young(d.req[2], d.end)
    /\ \A u \in uploads : \A s \in Sensors : \A d \in Pending(s) :
          SameCharge(u, d) => Young(s, d.end)
    /\ \A u, v \in uploads : u.req = v.req /\ u.asked = v.asked => u = v

LEMMA IssuedCharged ==
    ASSUME CountInv, NEW d \in Issued
    PROVE  <<d.req, d.end>> \in Charges /\ d.end \in 0 .. now /\ d.req \in Reqs
  <1>1. <<d.req, d.end>> \in Charges
    BY DEF Charges
  <1> QED
    BY <1>1 DEF CountInv

LEMMA PendingIs ==
    ASSUME Types, NEW s \in Sensors, NEW d \in Pending(s)
    PROVE  d \in InHand(s) /\ d.req[2] = s /\ d \in Issued
  BY Held1, InHandIssued DEF Pending

LEMMA PlaceStands ==
    ASSUME PlaceInv, [Next]_vars, uploads' = uploads, Issued' \subseteq Issued,
           sending' = {} \/ (sending' = sending /\ Out' \subseteq Out),
           \A s \in Sensors : InHand(s)' \cap directives' = {},
           \A d \in directives' : d \in directives \cup sending \/ Young(d.req[2], d.end)',
           \A s \in Sensors : \A d \in Pending(s)' :
                d \in Pending(s) \/ (d \in directives /\ d.req[2] = s)
    PROVE  PlaceInv'
  <1>0. CountInv /\ Types /\ now \in Nat
    BY DEF PlaceInv, CountInv, Types
  <1>1. CountInv' /\ ring' \in Rings
    BY <1>0, CountNext, RingNext DEF PlaceInv
  <1>2. \A x \in Sensors, t \in 0 .. now : Young(x, t) => Young(x, t)'
    BY <1>0, RingNext DEF PlaceInv
  <1>3. /\ \A d, x \in Issued' : d.req = x.req /\ d.end = x.end => d = x
        /\ sending' \cap Out' = {}
        /\ \A u \in uploads' : \A d \in sending' : ~SameCharge(u, d)
        /\ \A u, v \in uploads' : u.req = v.req /\ u.asked = v.asked => u = v
    BY DEF PlaceInv
  <1>4. ASSUME NEW u \in uploads', NEW d \in directives', SameCharge(u, d)
        PROVE  Young(d.req[2], d.end)'
    <2>1. CASE d \in sending
      BY <1>4, <2>1 DEF PlaceInv
    <2>2. CASE d \in directives
      <3>1. Young(d.req[2], d.end)
        BY <1>4, <2>2 DEF PlaceInv
      <3>2. d \in Issued
        BY <2>2 DEF Issued, Out
      <3>3. d.end \in 0 .. now /\ d.req[2] \in Sensors
        BY <1>0, <3>2, IssuedCharged, ReqSensor
      <3> QED
        BY <1>2, <3>1, <3>3
    <2> QED
      BY <2>1, <2>2
  <1>5. ASSUME NEW u \in uploads', NEW s \in Sensors, NEW d \in Pending(s)', SameCharge(u, d)
        PROVE  Young(s, d.end)'
    <2>1. Young(s, d.end) /\ d \in Issued
      BY <1>0, <1>5, PendingIs DEF PlaceInv, Issued, Out
    <2>2. d.end \in 0 .. now
      BY <1>0, <2>1, IssuedCharged
    <2> QED
      BY <1>2, <2>1, <2>2
  <1>6. \A u \in uploads : \A d : SameCharge(u, d)' <=> SameCharge(u, d)
    BY DEF SameCharge
  <1> QED
    BY <1>1, <1>3, <1>4, <1>5, <1>6 DEF PlaceInv

LEMMA PlaceAgent ==
    ASSUME PlaceInv, NEW s \in Sensors,
           \/ \E d \in directives : TakeDirective(s, d)
           \/ Reserve(s) \/ Finish(s) \/ Report(s) \/ AgentCrash(s) \/ AgentStart(s)
    PROVE  PlaceInv'
  <1>0. Types /\ Types' /\ Next
    BY TypesAgent DEF PlaceInv, CountInv, JobStep, Next
  <1>1. Out' \subseteq Out /\ sending' = sending
    BY <1>0, AgentOut DEF JobStep
  <1>2. Issued' \subseteq Issued
    BY <1>1 DEF Issued
  <1>3. uploads' = uploads
    BY DEF TakeDirective, Reserve, Finish, Report, AgentCrash, AgentStart
  <1>4. \A x \in Sensors \ {s} : job'[x] = job[x]
    BY <1>0 DEF TakeDirective, Reserve, Finish, Report, AgentCrash, AgentStart, Goto, Types
  <1>5. \A x \in Sensors \ {s} : Pending(x)' = Pending(x)
    BY <1>4 DEF Pending
  <1>6. ASSUME NEW d \in directives, TakeDirective(s, d) PROVE PlaceInv'
    <2>1. /\ InHand(s)' \subseteq {d} /\ d.req[2] = s /\ directives' = directives \ {d}
          /\ \A x \in Sensors \ {s} : InHand(x)' = InHand(x)
      BY <1>0, <1>6, TakeHolds DEF TakeDirective
    <2>2. \A x \in Sensors : InHand(x)' \cap directives' = {}
      BY <2>1 DEF PlaceInv
    <2>3. Pending(s)' \subseteq InHand(s)'
      BY <1>0, Held1 DEF Pending, InHand, Idle, Down
    <2> QED
      BY <1>0, <1>1, <1>2, <1>3, <1>5, <2>1, <2>2, <2>3, PlaceStands
  <1>7. CASE Reserve(s) \/ Finish(s) \/ Report(s) \/ AgentStart(s)
    <2>1. directives' = directives /\ \A x \in Sensors : InHand(x)' \subseteq InHand(x)
      BY <1>0, <1>7, JobHolds DEF Reserve, Finish, Report, AgentStart
    <2>2. \A x \in Sensors : InHand(x)' \cap directives' = {}
      BY <2>1 DEF PlaceInv
    <2>3. Pending(s)' \subseteq Pending(s)
      <3>1. CASE Reserve(s)
        <4>1. Pending(s)' \subseteq InHand(s)'
          BY <1>0 DEF Pending, InHand, Idle, Down
        <4>2. InHand(s) = {job[s].d} /\ Pending(s) = {job[s].d}
          BY <1>0, <3>1, Held1 DEF Reserve, Pending
        <4> QED
          BY <2>1, <4>1, <4>2
      <3>2. CASE Finish(s)
        <4>1. job[s] \in Jobs /\ job[s].stage = "finish"
          BY <1>0, <3>2 DEF Types, Finish
        <4>2. [job[s] EXCEPT !.stage = "report"].stage = "report" /\ Failing(job[s].d).stage = "report"
          BY <4>1, JobShape DEF Failing
        <4>3. job'[s] \in {[job[s] EXCEPT !.stage = "report"], Failing(job[s].d)}
          BY <1>0, <3>2 DEF Finish, Goto, Types
        <4>4. job'[s].stage = "report"
          BY <4>2, <4>3, Zenon
        <4> QED
          BY <4>4 DEF Pending
      <3>3. CASE Report(s) \/ AgentStart(s)
        <4>1. job'[s] = Idle
          BY <1>0, <3>3 DEF Report, AgentStart, Goto, Types
        <4> QED
          BY <4>1 DEF Pending, Idle
      <3> QED
        BY <1>7, <3>1, <3>2, <3>3
    <2> QED
      BY <1>0, <1>1, <1>2, <1>3, <1>5, <2>1, <2>2, <2>3, PlaceStands
  <1>8. CASE AgentCrash(s)
    <2>1. /\ job'[s] = Down /\ ring'[s] = <<>>
          /\ \A d \in directives' : d \in directives \/ d \in InHand(s) \/ (d \in taken /\ d.req[2] = s)
      BY <1>0, <1>8 DEF AgentCrash, Goto, Types, PlaceInv, Rings
    <2>2. \A d \in directives' : d \in directives \/ d.req[2] = s
      BY <1>0, <2>1 DEF Types
    <2>3. \A d \in directives' : d \in directives \/ Young(d.req[2], d.end)'
      BY <2>1, <2>2 DEF Young
    <2>4. InHand(s)' = {} /\ Pending(s)' = {}
      BY <2>1 DEF InHand, Pending, Down
    <2>5. ASSUME NEW x \in Sensors PROVE InHand(x)' \cap directives' = {}
      <3>1. CASE x = s
        BY <2>4, <3>1
      <3>2. CASE x # s
        <4>1. InHand(x)' = InHand(x) /\ \A d \in InHand(x) : d.req[2] = x
          BY <1>0, <1>4, <3>2 DEF InHand, Types
        <4> QED
          BY <2>2, <3>2, <4>1 DEF PlaceInv
      <3> QED
        BY <3>1, <3>2
    <2> QED
      BY <1>0, <1>1, <1>2, <1>3, <1>5, <2>3, <2>4, <2>5, PlaceStands
  <1> QED
    BY <1>6, <1>7, <1>8

\* ring.slice finds no packet for a directive that was uploaded before.
LEMMA PlaceSlice ==
    ASSUME PlaceInv, NEW s \in Sensors, Slice(s)
    PROVE  PlaceInv'
  <1>0. Types /\ Types' /\ Next /\ CountInv /\ now \in Nat
    BY TypesAgent DEF PlaceInv, CountInv, JobStep, Next, Types
  <1>1. PICK d : d = job[s].d
    OBVIOUS
  <1>2. InHand(s) = {d} /\ Pending(s) = {d} /\ d.req[2] = s /\ d \in Issued
    BY <1>0, <1>1, Held1, InHandIssued DEF Slice, Pending
  <1>3. d.end \in 0 .. now
    BY <1>0, <1>2, IssuedCharged
  <1>4. /\ Out' \subseteq Out /\ sending' = sending /\ directives' = directives
        /\ \A x \in Sensors : InHand(x)' \subseteq InHand(x)
    BY <1>0, AgentOut, JobHolds DEF JobStep, Slice
  <1>5. Issued' \subseteq Issued
    BY <1>4 DEF Issued
  <1>6. job'[s].stage = "finish" /\ \A x \in Sensors \ {s} : job'[x] = job[x]
    BY <1>0 DEF Slice, Goto, Types
  <1>7. Pending(s)' = {} /\ \A x \in Sensors \ {s} : Pending(x)' = Pending(x)
    BY <1>6 DEF Pending
  <1>8. \A x \in Sensors : InHand(x)' \cap directives' = {}
    BY <1>4 DEF PlaceInv
  <1>9. CASE uploads' = uploads
    BY <1>0, <1>4, <1>5, <1>7, <1>8, <1>9, PlaceStands
  <1>10. CASE uploads' # uploads
    <2>1. PICK new : /\ uploads' = uploads \cup {new} /\ new.req = d.req /\ new.asked = d.end
                     /\ \E k \in 1 .. Len(Expired(s)) : InWindow(d, Expired(s)[k])
      BY <1>1, <1>10 DEF Slice
    <2>2. PICK k \in 1 .. Len(Expired(s)) : Expired(s)[k] < d.end
      BY <2>1 DEF InWindow
    <2>3. ring[s] \in Seq(Nat)
      BY DEF PlaceInv, Rings
    <2>4. PICK m \in 1 .. Len(ring[s]) : Expired(s)[k] = ring[s][m]
      BY <1>0, <2>3, ExpiredIs
    <2>5. ~Young(s, d.end)
      <3>1. ring[s][m] \in Nat /\ ring[s][m] < d.end /\ d.end \in Nat
        BY <1>3, <2>2, <2>3, <2>4
      <3>2. ~(ring[s][m] >= d.end)
        BY <3>1
      <3> QED
        BY <3>2 DEF Young
    <2>6. \A u \in uploads : ~SameCharge(u, d)
      BY <1>2, <2>5 DEF PlaceInv
    <2>7. \A u, v \in uploads' : u.req = v.req /\ u.asked = v.asked => u = v
      BY <2>1, <2>6 DEF PlaceInv, SameCharge
    <2>8. CountInv' /\ ring' \in Rings
      BY <1>0, CountNext, RingNext DEF PlaceInv
    <2>9. \A x \in Sensors, t \in 0 .. now : Young(x, t) => Young(x, t)'
      BY <1>0, RingNext DEF PlaceInv
    <2>10. /\ \A e, x \in Issued' : e.req = x.req /\ e.end = x.end => e = x
           /\ sending' \cap Out' = {}
      BY <1>4, <1>5 DEF PlaceInv
    <2>11. ASSUME NEW e \in Issued, SameCharge(new, e) PROVE e = d
      BY <1>2, <2>1, <2>11 DEF PlaceInv, SameCharge
    <2>12. \A u \in uploads' : \A e \in sending' : ~SameCharge(u, e)
      <3>1. d \in Out
        BY <1>2 DEF Out
      <3>2. d \notin sending /\ sending \subseteq Issued
        BY <3>1 DEF PlaceInv, Issued
      <3> QED
        BY <1>4, <2>1, <2>11, <3>2 DEF PlaceInv
    <2>13. ASSUME NEW u \in uploads', NEW e \in directives', SameCharge(u, e)
           PROVE  Young(e.req[2], e.end)'
      <3>1. e \in Issued /\ e # d
        BY <1>2, <1>4 DEF PlaceInv, Issued, Out
      <3>2. u \in uploads
        BY <2>1, <2>11, <2>13, <3>1
      <3>3. Young(e.req[2], e.end)
        BY <1>4, <2>13, <3>2 DEF PlaceInv
      <3>4. e.end \in 0 .. now /\ e.req[2] \in Sensors
        BY <1>0, <3>1, IssuedCharged, ReqSensor
      <3> QED
        BY <2>9, <3>3, <3>4
    <2>14. ASSUME NEW u \in uploads', NEW x \in Sensors, NEW e \in Pending(x)', SameCharge(u, e)
           PROVE  Young(x, e.end)'
      <3>1. x # s /\ e \in Pending(x)
        BY <1>7, <2>14
      <3>2. e.req[2] = x /\ e \in Issued
        BY <1>0, <3>1, PendingIs
      <3>3. u \in uploads
        BY <1>2, <2>1, <2>11, <2>14, <3>1, <3>2
      <3>4. Young(x, e.end)
        BY <2>14, <3>1, <3>3 DEF PlaceInv
      <3>5. e.end \in 0 .. now
        BY <1>0, <3>2, IssuedCharged
      <3> QED
        BY <2>9, <3>4, <3>5
    <2>15. \A u, e : SameCharge(u, e)' <=> SameCharge(u, e)
      BY DEF SameCharge
    <2> QED
      BY <1>8, <2>7, <2>8, <2>10, <2>12, <2>13, <2>14, <2>15 DEF PlaceInv
  <1> QED
    BY <1>9, <1>10

\* A directive is admitted at most once at a time, so its charge is its own.
LEMMA PlaceOrchestrator ==
    ASSUME PlaceInv, Orchestrate \/ OrchestratorCrash
    PROVE  PlaceInv'
  <1>0. Types /\ Types' /\ Next /\ CountInv /\ now \in Nat /\ Hour \in Nat \ {0}
    BY TypesOrchestrator, PreserveAssumption DEF PlaceInv, CountInv, Next, Types
  <1>1. /\ UNCHANGED <<now, taken, job, uploads, ring>>
        /\ directives \subseteq directives' /\ directives' \subseteq directives \cup sending
    BY <1>0, OrchestratorOut
  <1>2. \A s \in Sensors : InHand(s)' = InHand(s) /\ Pending(s)' = Pending(s)
    BY <1>1 DEF InHand, Pending
  <1>3. Out' \subseteq Issued
    BY <1>1, <1>2 DEF Issued, Out
  <1>4. ASSUME NEW s \in Sensors PROVE InHand(s)' \cap directives' = {}
    <2>1. InHand(s) \subseteq Out
      BY DEF Out
    <2> QED
      BY <1>1, <1>2, <2>1 DEF PlaceInv
  <1>5. CASE sending' = {}
    <2>1. Issued' \subseteq Issued
      BY <1>3, <1>5 DEF Issued
    <2> QED
      BY <1>0, <1>1, <1>2, <1>4, <1>5, <2>1, PlaceStands
  <1>6. CASE sending' # {}
    <2>1. sending = {} /\ directives' = directives
      BY <1>0, <1>6, OrchestratorOut
    <2>2. PICK i \in intents : sending' = {Directive(i)} /\ Admits(central, Req(i))
      BY <1>0, <1>6, <2>1, OrchestratorOut
    <2>a. Directive(i).req = Req(i) /\ Directive(i).end = now
      BY DEF Directive
    <2>3. PICK new : new = Directive(i) /\ new.req = Req(i) /\ new.end = now
      BY <2>a
    <2>4. <<new.req, new.end>> \notin Charges
      <3>1. ~Held(central, Req(i), now)
        BY <1>0, <2>2, AdmitsNew
      <3>2. \A p \in Charges : p[2] = now => Held(central, p[1], p[2])
        BY <1>0 DEF CountInv, Accounted
      <3> QED
        BY <2>3, <3>1, <3>2
    <2>5. Out' = Out /\ Issued = Out /\ Issued' = Out \cup {new}
      BY <1>1, <1>2, <2>1, <2>2, <2>3 DEF Issued, Out
    <2>6. \A d \in Issued : ~(d.req = new.req /\ d.end = new.end)
      BY <1>0, <2>4, IssuedCharged
    <2>7. \A d, x \in Issued' : d.req = x.req /\ d.end = x.end => d = x
      BY <2>5, <2>6 DEF PlaceInv
    <2>8. sending' \cap Out' = {}
      BY <2>2, <2>3, <2>5, <2>6
    <2>9. \A u \in uploads' : \A d \in sending' : ~SameCharge(u, d)'
      BY <1>1, <2>2, <2>3, <2>4 DEF SameCharge, Charges
    <2>10. CountInv' /\ ring' \in Rings
      BY <1>0, <1>1, CountNext DEF PlaceInv
    <2>11. /\ \A u, d : SameCharge(u, d)' <=> SameCharge(u, d)
           /\ \A x, t : Young(x, t)' <=> Young(x, t)
      BY <1>1 DEF SameCharge, Young
    <2> QED
      BY <1>1, <1>2, <1>4, <2>1, <2>7, <2>8, <2>9, <2>10, <2>11 DEF PlaceInv
  <1> QED
    BY <1>5, <1>6

LEMMA PlaceNext ==
    ASSUME PlaceInv, [Next]_vars
    PROVE  PlaceInv'
  <1>1. CASE Tick \/ RingStep \/ UNCHANGED vars
    <2>1. taken' \subseteq taken /\ UNCHANGED <<sending, directives, job, uploads>>
      BY <1>1, RingStepKeeps DEF Tick, vars, budgetVars
    <2>2. \A s \in Sensors : InHand(s)' = InHand(s) /\ Pending(s)' = Pending(s)
      BY <2>1 DEF InHand, Pending
    <2>3. Out' \subseteq Out /\ Issued' \subseteq Issued
      BY <2>1, <2>2 DEF Issued, Out
    <2>4. \A s \in Sensors : InHand(s)' \cap directives' = {}
      BY <2>1, <2>2 DEF PlaceInv
    <2> QED
      BY <2>1, <2>2, <2>3, <2>4, PlaceStands
  <1> QED
    BY <1>1, PlaceAgent, PlaceSlice, PlaceOrchestrator DEF Next, JobStep, RingStep

\* The hourly limits on bytes, per sensor and per tenant, hold for what is really
\* uploaded, through every redelivery, death, failed save and early finish.
THEOREM UploadsWithinHourlyBytes == Spec => []HourlyBytes
  <1>1. Init => PlaceInv
    <2> SUFFICES ASSUME Init PROVE PlaceInv
      OBVIOUS
    <2>a. \A s \in Sensors : InHand(s) = {}
      BY DEF Init, InHand
    <2>b. Out = {}
      BY <2>a DEF Init, Out
    <2>c. Issued = {}
      BY <2>b DEF Init, Issued
    <2>1. /\ Out = {} /\ Issued = {} /\ Charges = {} /\ uploads = {} /\ sending = {} /\ directives = {}
          /\ central = {} /\ centralDisk = {}
      BY <2>b, <2>c DEF Init, Charges
    <2>2. ring \in Rings
      BY DEF Init, Rings
    <2>3. \A c, x, t : Hourly(Charges, c, x, t) = {}
      BY <2>1 DEF Hourly
    <2>4. BytesPerHour \in Nat /\ TenantBytes \in Nat
      BY PreserveAssumption
    <2>5. IsFiniteSet({}) /\ Cardinality({}) = 0
      BY FS_EmptySet
    <2>6. \A t \in Nat :
            /\ \A s \in Sensors : Cardinality(Hourly(Charges, 2, s, t)) <= BytesPerHour
            /\ \A i \in Intents : Cardinality(Hourly(Charges, 1, i.tenant, t)) <= TenantBytes
      BY <2>3, <2>4, <2>5
    <2>7. CountInv
      BY <2>1, <2>5, <2>6, TypesInit DEF CountInv
    <2> QED
      BY <2>1, <2>2, <2>7 DEF PlaceInv
  <1>2. PlaceInv => HourlyBytes
    <2> SUFFICES ASSUME PlaceInv PROVE HourlyBytes
      OBVIOUS
    <2>1. ASSUME NEW c, NEW x, NEW t \in Nat, NEW n \in Nat, Cardinality(Hourly(Charges, c, x, t)) <= n
          PROVE  Cardinality(Charged({u \in uploads : u.req[c] = x}, t)) <= n
      <3> DEFINE U == Charged({u \in uploads : u.req[c] = x}, t)
                 H == Hourly(Charges, c, x, t)
                 f == [u \in U |-> <<u.req, u.asked>>]
      <3>1. \A u \in U : u \in uploads /\ <<u.req, u.asked>> \in H
        BY DEF Charged, Hourly, Charges
      <3>2. f \in Injection(U, H)
        BY <3>1 DEF Injection, IsInjective, PlaceInv
      <3>3. IsFiniteSet(H)
        BY HourlyFinite DEF PlaceInv, CountInv
      <3> HIDE DEF U, H, f
      <3>4. IsFiniteSet(U) /\ Cardinality(U) <= Cardinality(H)
        BY <3>2, <3>3, FS_Injection
      <3>5. Cardinality(U) \in Nat /\ Cardinality(H) \in Nat
        BY <3>3, <3>4, FS_CardinalityType
      <3> QED
        BY <2>1, <3>4, <3>5 DEF H, U
    <2>2. now \in Nat /\ BytesPerHour \in Nat /\ TenantBytes \in Nat
      BY PreserveAssumption DEF PlaceInv, CountInv, Types
    <2>3. ASSUME NEW t \in 0 .. now, NEW s \in Sensors
          PROVE  Cardinality(Charged({u \in uploads : u.req[2] = s}, t)) <= BytesPerHour
      <3>1. t \in Nat /\ Cardinality(Hourly(Charges, 2, s, t)) <= BytesPerHour
        BY <2>2 DEF PlaceInv, CountInv
      <3> QED
        BY <2>1, <2>2, <3>1
    <2>4. ASSUME NEW t \in 0 .. now, NEW i \in Intents
          PROVE  Cardinality(Charged({u \in uploads : u.req[1] = i.tenant}, t)) <= TenantBytes
      <3>1. t \in Nat /\ Cardinality(Hourly(Charges, 1, i.tenant, t)) <= TenantBytes
        BY <2>2 DEF PlaceInv, CountInv
      <3> QED
        BY <2>1, <2>2, <3>1
    <2> QED
      BY <2>3, <2>4 DEF HourlyBytes
  <1> QED
    BY <1>1, <1>2, PlaceNext, PTL DEF Spec

=============================================================================
