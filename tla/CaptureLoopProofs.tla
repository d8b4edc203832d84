------------------------- MODULE CaptureLoopProofs -------------------------
(***************************************************************************)
(* What is outstanding is covered by the capture budget, and evidence      *)
(* comes from the sensors of the finding's own tenant: proofs for all      *)
(* requests, sensors, profiles and limits.                                 *)
(***************************************************************************)
EXTENDS CaptureLoop, TLAPS, FiniteSetTheorems

Directives == [req : Requests, n : Nat, take : Nat]
Stages == {"arm", "window", "carve", "isolate", "upload", "report", "exit"}
Jobs == [arm : Directives, stage : Stages, touched : BOOLEAN, carved : BOOLEAN,
         outcome : {"failed", "completed"}]

Types ==
    /\ requests \subseteq Requests
    /\ issued \in [Requests -> Nat]
    /\ budget \in [Sensors -> [active : Nat, bytes : Nat]]
    /\ arms \subseteq Directives /\ jobs \subseteq Jobs
    /\ \A st \in unread \cup statuses : st.arm \in Directives
    /\ restarts \in Nat /\ repeats \in [Sensors -> Nat] /\ crashes \in Nat
    /\ IsFiniteSet(arms) /\ IsFiniteSet(jobs) /\ IsFiniteSet(unread) /\ IsFiniteSet(statuses)

\* How many captures of sensor s are outstanding.
Load(s) == Cardinality(Waiting(s)) + Cardinality(Running(s)) + Cardinality(Answered(s))

Fits(s) == /\ budget[s].active <= MaxJobs
           /\ Load(s) <= budget[s].active + MaxJobs * restarts + repeats[s]

BudgetInv == Types /\ \A s \in Sensors : Fits(s)

-----------------------------------------------------------------------------
(* Counting.                                                               *)

LEMMA NoMore ==
    ASSUME NEW S, IsFiniteSet(S), NEW T, T \subseteq S
    PROVE  /\ IsFiniteSet(T) /\ Cardinality(T) \in Nat /\ Cardinality(S) \in Nat
           /\ Cardinality(T) <= Cardinality(S)
  BY FS_Subset, FS_CardinalityType

LEMMA OneMore ==
    ASSUME NEW S, IsFiniteSet(S), NEW x, NEW T, T \subseteq S \cup {x}
    PROVE  /\ IsFiniteSet(T) /\ Cardinality(T) \in Nat /\ Cardinality(S) \in Nat
           /\ Cardinality(T) <= Cardinality(S) + 1
  <1>1. /\ IsFiniteSet(S \cup {x}) /\ Cardinality(S) \in Nat
        /\ Cardinality(S \cup {x}) \in {Cardinality(S), Cardinality(S) + 1}
    <2>1. CASE x \in S
      <3>1. S \cup {x} = S
        BY <2>1
      <3> QED
        BY <3>1, FS_CardinalityType
    <2>2. CASE x \notin S
      BY <2>2, FS_AddElement, FS_CardinalityType
    <2> QED
      BY <2>1, <2>2
  <1>2. /\ IsFiniteSet(T) /\ Cardinality(T) \in Nat
        /\ Cardinality(T) <= Cardinality(S \cup {x})
    BY <1>1, NoMore
  <1> QED
    BY <1>1, <1>2

LEMMA OneLess ==
    ASSUME NEW S, IsFiniteSet(S), NEW x \in S, NEW T, T \subseteq S \ {x}
    PROVE  /\ IsFiniteSet(T) /\ Cardinality(T) \in Nat /\ Cardinality(S) \in Nat
           /\ Cardinality(T) <= Cardinality(S) - 1
  <1>1. /\ IsFiniteSet(S \ {x}) /\ Cardinality(S \ {x}) = Cardinality(S) - 1
        /\ Cardinality(S) \in Nat
    BY FS_RemoveElement, FS_CardinalityType
  <1> QED
    BY <1>1, NoMore

LEMMA OneMoved ==
    ASSUME NEW S, IsFiniteSet(S), NEW x \in S, NEW y, NEW T, T \subseteq (S \ {x}) \cup {y}
    PROVE  /\ IsFiniteSet(T) /\ Cardinality(T) \in Nat /\ Cardinality(S) \in Nat
           /\ Cardinality(T) <= Cardinality(S)
  <1>1. /\ IsFiniteSet(S \ {x}) /\ Cardinality(S \ {x}) <= Cardinality(S) - 1
        /\ Cardinality(S) \in Nat /\ Cardinality(S \ {x}) \in Nat
    BY OneLess
  <1>2. /\ IsFiniteSet(T) /\ Cardinality(T) \in Nat
        /\ Cardinality(T) <= Cardinality(S \ {x}) + 1
    BY <1>1, OneMore
  <1> QED
    BY <1>1, <1>2

LEMMA Mapped ==
    ASSUME NEW S, IsFiniteSet(S), NEW U, NEW f \in [S -> U], NEW T, T \subseteq {f[x] : x \in S}
    PROVE  /\ IsFiniteSet(T) /\ Cardinality(T) \in Nat /\ Cardinality(S) \in Nat
           /\ Cardinality(T) <= Cardinality(S)
  <1> DEFINE R == {f[x] : x \in S}
  <1>1. f \in Surjection(S, R)
    BY DEF Surjection
  <1>2. IsFiniteSet(R) /\ Cardinality(R) <= Cardinality(S)
    BY <1>1, FS_Surjection
  <1>3. /\ IsFiniteSet(T) /\ Cardinality(T) \in Nat /\ Cardinality(R) \in Nat
        /\ Cardinality(T) <= Cardinality(R)
    BY <1>2, NoMore
  <1> QED
    BY <1>2, <1>3, FS_CardinalityType

LEMMA StillFinite ==
    ASSUME NEW S, IsFiniteSet(S)
    PROVE  /\ \A x : IsFiniteSet(S \cup {x})
           /\ \A x, y : IsFiniteSet((S \ {x}) \cup {y})
           /\ \A T \in SUBSET S : IsFiniteSet(T)
  <1>1. \A T \in SUBSET S : IsFiniteSet(T)
    BY FS_Subset
  <1>2. ASSUME NEW x PROVE IsFiniteSet(S \cup {x})
    BY OneMore
  <1>3. ASSUME NEW x, NEW y PROVE IsFiniteSet((S \ {x}) \cup {y})
    <2>1. IsFiniteSet(S \ {x})
      BY <1>1
    <2> QED
      BY <2>1, OneMore
  <1> QED
    BY <1>1, <1>2, <1>3

LEMMA JoinTwo ==
    ASSUME NEW S, NEW T, IsFiniteSet(S), IsFiniteSet(T)
    PROVE  /\ IsFiniteSet(S \cup T) /\ Cardinality(S \cup T) \in Nat
           /\ Cardinality(S) \in Nat /\ Cardinality(T) \in Nat
           /\ Cardinality(S \cup T) <= Cardinality(S) + Cardinality(T)
  <1>1. /\ IsFiniteSet(S \cup T) /\ IsFiniteSet(S \cap T)
        /\ Cardinality(S \cup T) = Cardinality(S) + Cardinality(T) - Cardinality(S \cap T)
    BY FS_Union, FS_Intersection
  <1> QED
    BY <1>1, FS_CardinalityType

\* The parts of a finite state are finite.
LEMMA PartsFinite ==
    ASSUME Types, NEW s
    PROVE  /\ IsFiniteSet(Waiting(s)) /\ IsFiniteSet(Running(s)) /\ IsFiniteSet(Answered(s))
           /\ Cardinality(Waiting(s)) \in Nat /\ Cardinality(Running(s)) \in Nat
           /\ Cardinality(Answered(s)) \in Nat /\ Load(s) \in Nat
           /\ IsFiniteSet(JobsOf(s))
  <1>1. /\ Waiting(s) \subseteq arms /\ Running(s) \subseteq jobs /\ Answered(s) \subseteq unread
        /\ JobsOf(s) \subseteq jobs
    BY DEF Waiting, Running, JobsOf, Answered
  <1>2. /\ IsFiniteSet(Waiting(s)) /\ IsFiniteSet(Running(s)) /\ IsFiniteSet(Answered(s))
        /\ IsFiniteSet(JobsOf(s))
    BY <1>1, FS_Subset DEF Types
  <1>3. /\ Cardinality(Waiting(s)) \in Nat /\ Cardinality(Running(s)) \in Nat
        /\ Cardinality(Answered(s)) \in Nat
    BY <1>2, FS_CardinalityType
  <1> QED
    BY <1>2, <1>3 DEF Load

LEMMA Product ==
    ASSUME NEW m \in Nat, NEW n \in Nat
    PROVE  m * n \in Nat /\ m * (n + 1) = m * n + m
  OBVIOUS

\* The numbers of sensor s.
LEMMA FitFacts ==
    ASSUME CaptureAssumption, BudgetInv, NEW s \in Sensors
    PROVE  /\ budget[s].active \in Nat /\ MaxJobs \in Nat /\ MaxJobs * restarts \in Nat
           /\ repeats[s] \in Nat /\ Load(s) \in Nat
           /\ budget[s].active <= MaxJobs
           /\ Load(s) <= budget[s].active + MaxJobs * restarts + repeats[s]
  <1>1. MaxJobs \in Nat /\ restarts \in Nat
    BY DEF CaptureAssumption, BudgetInv, Types
  <1>2. MaxJobs * restarts \in Nat
    BY <1>1, Product
  <1>3. Load(s) \in Nat
    BY PartsFinite DEF BudgetInv
  <1> QED
    BY <1>1, <1>2, <1>3 DEF BudgetInv, Types, Fits

-----------------------------------------------------------------------------
(* Types are kept.                                                         *)

LEMMA TypesInit == CaptureAssumption /\ Init => Types
  BY FS_EmptySet DEF Init, Types, NoBudget

LEMMA OrchestratorTypes ==
    ASSUME CaptureAssumption, Types,
           \/ \E r \in requests : HandleRequest(r)
           \/ \E st \in unread : HandleCompletion(st)
    PROVE  Types'
  <1>1. ASSUME NEW r \in requests, HandleRequest(r) PROVE Types'
    <2> DEFINE a == [req |-> r, n |-> issued[r] + 1, take |-> 0]
    <2>1. r \in Requests /\ a \in Directives /\ r.sensor \in Sensors
      BY DEF CaptureAssumption, Types, Directives
    <2>2. \A state : Status(a, state).arm = a
      BY DEF Status
    <2>3. \E state : /\ statuses' = statuses \cup {Status(a, state)}
                     /\ \/ arms' = arms
                        \/ arms' = arms \cup {a}
                     /\ \/ budget' = budget
                        \/ budget' = [budget EXCEPT ![r.sensor].active = @ + 1]
                     /\ \/ issued' = issued
                        \/ issued' = [issued EXCEPT ![r] = @ + 1]
      BY <1>1 DEF HandleRequest
    <2>4. /\ requests' \subseteq requests
          /\ UNCHANGED <<jobs, unread, restarts, repeats, crashes>>
      BY <1>1 DEF HandleRequest, ghosts
    <2>5. IsFiniteSet(arms') /\ IsFiniteSet(statuses')
      BY <2>3, StillFinite DEF Types
    <2>6. issued' \in [Requests -> Nat]
      BY <2>3 DEF Types
    <2>7. budget' \in [Sensors -> [active : Nat, bytes : Nat]]
      BY <2>3 DEF Types
    <2>8. \A st \in unread' \cup statuses' : st.arm \in Directives
      BY <2>1, <2>2, <2>3, <2>4 DEF Types
    <2> HIDE DEF a
    <2> QED
      BY <2>1, <2>3, <2>4, <2>5, <2>6, <2>7, <2>8 DEF Types
  <1>2. ASSUME NEW st \in unread, HandleCompletion(st) PROVE Types'
    <2>1. /\ unread' \subseteq unread
          /\ UNCHANGED <<requests, issued, arms, jobs, statuses, restarts, repeats, crashes>>
      BY <1>2 DEF HandleCompletion, ghosts
    <2>2. \A b \in [active : Nat, bytes : Nat] : Freed(b, st) \in [active : Nat, bytes : Nat]
      BY DEF Freed
    <2>3. budget' \in [Sensors -> [active : Nat, bytes : Nat]]
      BY <1>2, <2>2 DEF HandleCompletion, Types
    <2>4. IsFiniteSet(unread')
      BY <2>1, FS_Subset DEF Types
    <2> QED
      BY <2>1, <2>3, <2>4 DEF Types
  <1> QED
    BY <1>1, <1>2

\* One step of a thread: it goes on, reports, or is gone.
LEMMA ThreadMoves ==
    ASSUME Types, NEW j \in jobs, JobStep(j)
    PROVE  /\ UNCHANGED <<requests, issued, budget, arms, restarts, repeats, crashes>>
           /\ \/ /\ UNCHANGED <<statuses, unread>>
                 /\ \/ jobs' = jobs \ {j}
                    \/ \E new \in Jobs : /\ jobs' = (jobs \ {j}) \cup {new}
                                         /\ new.arm = j.arm /\ j.stage # "exit"
              \/ /\ statuses' = statuses \cup {Status(j.arm, j.outcome)}
                 /\ unread' = unread \cup {Status(j.arm, j.outcome)}
                 /\ \E new \in Jobs : /\ jobs' = (jobs \ {j}) \cup {new}
                                      /\ new.stage = "exit" /\ j.stage = "report"
  <1>1. j \in Jobs
    BY DEF Types
  <1>4. UNCHANGED <<requests, issued, budget, arms, restarts, repeats, crashes>>
    BY DEF JobStep, Arm, Disarm, Carve, Isolate, Upload, Report, Exit, ghosts
  <1>5. CASE Arm(j)
    <2>1. \/ Step(j, [j EXCEPT !.stage = "window"])
          \/ Step(j, [j EXCEPT !.stage = "report"])
      BY <1>5 DEF Arm
    <2>2. PICK new : /\ \/ new = [j EXCEPT !.stage = "window"]
                        \/ new = [j EXCEPT !.stage = "report"]
                     /\ Step(j, new)
      BY <2>1, Zenon
    <2>3. new \in Jobs /\ new.arm = j.arm
      BY <1>1, <2>2 DEF Jobs, Stages
    <2> QED
      BY <1>4, <1>5, <2>2, <2>3 DEF Arm, At, Step
  <1>6. CASE Disarm(j)
    <2>1. Step(j, [j EXCEPT !.stage = "carve"])
      BY <1>6 DEF Disarm
    <2>2. PICK new : /\ new = [j EXCEPT !.stage = "carve"]
                     /\ Step(j, new)
      BY <2>1, Zenon
    <2>3. new \in Jobs /\ new.arm = j.arm
      BY <1>1, <2>2 DEF Jobs, Stages
    <2> QED
      BY <1>4, <1>6, <2>2, <2>3 DEF Disarm, At, Step
  <1>7. CASE Carve(j)
    <2>1. \/ Step(j, [j EXCEPT !.stage = "isolate"])
          \/ Step(j, [j EXCEPT !.stage = "upload"])
          \/ Step(j, [j EXCEPT !.stage = "report"])
      BY <1>7 DEF Carve
    <2>2. PICK new : /\ \/ new = [j EXCEPT !.stage = "isolate"]
                        \/ new = [j EXCEPT !.stage = "upload"]
                        \/ new = [j EXCEPT !.stage = "report"]
                     /\ Step(j, new)
      BY <2>1, Zenon
    <2>3. new \in Jobs /\ new.arm = j.arm
      BY <1>1, <2>2 DEF Jobs, Stages
    <2> QED
      BY <1>4, <1>7, <2>2, <2>3 DEF Carve, At, Step
  <1>8. CASE Isolate(j)
    <2>1. PICK c \in BOOLEAN : Step(j, [j EXCEPT !.stage = "upload", !.carved = c])
      BY <1>8, Zenon DEF Isolate
    <2>2. PICK new : /\ new = [j EXCEPT !.stage = "upload", !.carved = c]
                     /\ Step(j, new)
      BY <2>1, Zenon
    <2>3. new \in Jobs /\ new.arm = j.arm
      BY <1>1, <2>2 DEF Jobs, Stages
    <2> QED
      BY <1>4, <1>8, <2>2, <2>3 DEF Isolate, At, Step
  <1>9. CASE Upload(j)
    <2>1. \/ Step(j, [j EXCEPT !.stage = "report"])
          \/ Step(j, [j EXCEPT !.stage = "report", !.outcome = "completed"])
      BY <1>9 DEF Upload
    <2>2. PICK new : /\ \/ new = [j EXCEPT !.stage = "report"]
                        \/ new = [j EXCEPT !.stage = "report", !.outcome = "completed"]
                     /\ Step(j, new)
      BY <2>1, Zenon
    <2>3. new \in Jobs /\ new.arm = j.arm
      BY <1>1, <2>2 DEF Jobs, Stages
    <2> QED
      BY <1>4, <1>9, <2>2, <2>3 DEF Upload, At, Step
  <1>10. CASE Report(j)
    <2>1. Step(j, [j EXCEPT !.stage = "exit"])
      BY <1>10 DEF Report
    <2>2. PICK new : /\ new = [j EXCEPT !.stage = "exit"]
                     /\ Step(j, new)
      BY <2>1, Zenon
    <2>3. new \in Jobs /\ new.stage = "exit"
      BY <1>1, <2>2 DEF Jobs, Stages
    <2> QED
      BY <1>4, <1>10, <2>2, <2>3 DEF Report, At, Step, Publish
  <1>11. CASE Exit(j)
    BY <1>4, <1>11 DEF Exit
  <1> QED
    BY <1>5, <1>6, <1>7, <1>8, <1>9, <1>10, <1>11 DEF JobStep

LEMMA AgentTypes ==
    ASSUME CaptureAssumption, Types,
           \/ \E a \in arms : TakeDirective(a)
           \/ \E j \in jobs : JobStep(j)
           \/ \E s \in Sensors : \E e \in dataset[s] : Packet(s, e)
    PROVE  Types'
  <1>1. ASSUME NEW a \in arms, TakeDirective(a) PROVE Types'
    <2> DEFINE new == [arm |-> a, stage |-> "arm", touched |-> FALSE, carved |-> FALSE,
                       outcome |-> "failed"]
    <2>1. a \in Directives /\ new \in Jobs
      BY DEF Types, Jobs, Stages
    <2>2. /\ arms' \subseteq arms
          /\ UNCHANGED <<requests, issued, budget, restarts, repeats, crashes>>
          /\ \/ jobs' = jobs \cup {new} /\ UNCHANGED <<statuses, unread>>
             \/ /\ jobs' = jobs
                /\ \E state : /\ statuses' = statuses \cup {Status(a, state)}
                              /\ unread' = unread \cup {Status(a, state)}
      BY <1>1 DEF TakeDirective, ghosts, Publish
    <2> HIDE DEF new
    <2>3. \A state : Status(a, state).arm \in Directives
      BY <2>1 DEF Status
    <2>4. /\ IsFiniteSet(arms') /\ IsFiniteSet(jobs') /\ IsFiniteSet(statuses')
          /\ IsFiniteSet(unread')
      BY <2>2, StillFinite DEF Types
    <2>5. \A st \in unread' \cup statuses' : st.arm \in Directives
      BY <2>2, <2>3 DEF Types
    <2>6. arms' \subseteq Directives /\ jobs' \subseteq Jobs
      BY <2>1, <2>2 DEF Types
    <2> QED
      BY <2>2, <2>4, <2>5, <2>6 DEF Types
  <1>2. ASSUME NEW j \in jobs, JobStep(j) PROVE Types'
    <2>1. j \in Jobs
      BY DEF Types
    <2>2. /\ UNCHANGED <<requests, issued, budget, arms, restarts, repeats, crashes>>
          /\ \/ jobs' \subseteq jobs
             \/ \E new \in Jobs : jobs' = (jobs \ {j}) \cup {new}
          /\ \/ UNCHANGED <<statuses, unread>>
             \/ /\ statuses' = statuses \cup {Status(j.arm, j.outcome)}
                /\ unread' = unread \cup {Status(j.arm, j.outcome)}
      BY <1>2, ThreadMoves
    <2>3. Status(j.arm, j.outcome).arm \in Directives
      BY <2>1 DEF Status, Jobs
    <2>4. IsFiniteSet(jobs') /\ IsFiniteSet(statuses') /\ IsFiniteSet(unread')
      BY <2>2, StillFinite DEF Types
    <2>5. \A st \in unread' \cup statuses' : st.arm \in Directives
      BY <2>2, <2>3 DEF Types
    <2>6. jobs' \subseteq Jobs
      BY <2>2 DEF Types
    <2> QED
      BY <2>2, <2>4, <2>5, <2>6 DEF Types
  <1>3. ASSUME NEW s \in Sensors, NEW e \in dataset[s], Packet(s, e) PROVE Types'
    <2> DEFINE seen(j) == IF j.arm.req.sensor = s /\ j.stage = "window"
                          THEN [j EXCEPT !.touched = TRUE] ELSE j
    <2>1. /\ jobs' = {seen(j) : j \in jobs}
          /\ UNCHANGED <<requests, issued, budget, arms, statuses, unread, restarts, repeats,
                         crashes>>
      BY <1>3 DEF Packet, ghosts
    <2>2. \A j \in Jobs : seen(j) \in Jobs
      BY DEF Jobs
    <2>3. IsFiniteSet(jobs')
      <3>1. PICK f : f = [j \in jobs |-> seen(j)]
        OBVIOUS
      <3>2. f \in [jobs -> {seen(j) : j \in jobs}] /\ jobs' \subseteq {f[j] : j \in jobs}
        BY <2>1, <3>1
      <3>3. IsFiniteSet(jobs)
        BY DEF Types
      <3> HIDE DEF seen
      <3> QED
        BY <3>2, <3>3, Mapped
    <2> HIDE DEF seen
    <2>4. jobs' \subseteq Jobs
      BY <2>1, <2>2 DEF Types
    <2> QED
      BY <2>1, <2>3, <2>4 DEF Types
  <1> QED
    BY <1>1, <1>2, <1>3

-----------------------------------------------------------------------------
(* The budget covers what is outstanding.                                  *)

\* A sensor with no more of anything outstanding.
LEMMA FitsStill ==
    ASSUME CaptureAssumption, BudgetInv, NEW s \in Sensors,
           Waiting(s)' \subseteq Waiting(s), Running(s)' \subseteq Running(s),
           Answered(s)' \subseteq Answered(s),
           budget'[s] = budget[s], restarts' = restarts, repeats'[s] = repeats[s]
    PROVE  Fits(s)'
  <1>1. /\ IsFiniteSet(Waiting(s)) /\ IsFiniteSet(Running(s)) /\ IsFiniteSet(Answered(s))
    BY PartsFinite DEF BudgetInv
  <1>2. /\ Cardinality(Waiting(s)') \in Nat /\ Cardinality(Waiting(s)') <= Cardinality(Waiting(s))
        /\ Cardinality(Waiting(s)) \in Nat
    BY <1>1, NoMore
  <1>3. /\ Cardinality(Running(s)') \in Nat /\ Cardinality(Running(s)') <= Cardinality(Running(s))
        /\ Cardinality(Running(s)) \in Nat
    BY <1>1, NoMore
  <1>4. /\ Cardinality(Answered(s)') \in Nat
        /\ Cardinality(Answered(s)') <= Cardinality(Answered(s))
        /\ Cardinality(Answered(s)) \in Nat
    BY <1>1, NoMore
  <1> QED
    BY <1>2, <1>3, <1>4, FitFacts DEF Fits, Load

LEMMA RequestFits ==
    ASSUME CaptureAssumption, BudgetInv, NEW r \in requests, HandleRequest(r),
           NEW s \in Sensors
    PROVE  Fits(s)'
  <1> DEFINE a == [req |-> r, n |-> issued[r] + 1, take |-> 0]
  <1>1. a.req = r /\ r \in Requests
    BY DEF BudgetInv, Types
  <1>2. /\ UNCHANGED <<jobs, unread, restarts, repeats>>
        /\ \/ /\ arms' = arms \cup {a}
              /\ budget' = [budget EXCEPT ![r.sensor].active = @ + 1]
              /\ budget[r.sensor].active < MaxJobs
           \/ UNCHANGED <<arms, budget>>
    BY DEF HandleRequest, ghosts, decide_arm, budget_gate
  <1> HIDE DEF a
  <1>3. Running(s)' = Running(s) /\ Answered(s)' = Answered(s)
    BY <1>2 DEF Running, JobsOf, Answered
  <1>4. /\ IsFiniteSet(Waiting(s)) /\ Cardinality(Running(s)) \in Nat
        /\ Cardinality(Answered(s)) \in Nat
    BY PartsFinite DEF BudgetInv
  <1>5. CASE UNCHANGED <<arms, budget>>
    <2>1. Waiting(s)' = Waiting(s)
      BY <1>5 DEF Waiting
    <2> QED
      BY <1>2, <1>3, <1>5, <2>1, FitsStill
  <1>6. ASSUME arms' = arms \cup {a}, budget' = [budget EXCEPT ![r.sensor].active = @ + 1],
               budget[r.sensor].active < MaxJobs, r.sensor # s
        PROVE  Fits(s)'
    <2>1. Waiting(s)' \subseteq Waiting(s)
      BY <1>1, <1>6 DEF Waiting
    <2>2. budget'[s] = budget[s]
      BY <1>6 DEF BudgetInv, Types
    <2> QED
      BY <1>2, <1>3, <2>1, <2>2, FitsStill
  <1>7. ASSUME arms' = arms \cup {a}, budget' = [budget EXCEPT ![r.sensor].active = @ + 1],
               budget[r.sensor].active < MaxJobs, r.sensor = s
        PROVE  Fits(s)'
    <2>1. Waiting(s)' \subseteq Waiting(s) \cup {a}
      BY <1>7 DEF Waiting
    <2>2. /\ Cardinality(Waiting(s)') \in Nat /\ Cardinality(Waiting(s)) \in Nat
          /\ Cardinality(Waiting(s)') <= Cardinality(Waiting(s)) + 1
      BY <1>4, <2>1, OneMore
    <2>3. /\ budget'[s].active = budget[s].active + 1 /\ budget[s].active < MaxJobs
      BY <1>7 DEF BudgetInv, Types
    <2> QED
      BY <1>2, <1>3, <1>4, <2>2, <2>3, FitFacts DEF Fits, Load
  <1> QED
    BY <1>2, <1>5, <1>6, <1>7

LEMMA CompletionFits ==
    ASSUME CaptureAssumption, BudgetInv, NEW st \in unread, HandleCompletion(st),
           NEW s \in Sensors
    PROVE  Fits(s)'
  <1>1. /\ UNCHANGED <<arms, jobs, restarts, repeats>> /\ unread' = unread \ {st}
        /\ \/ budget' = budget
           \/ budget' = [budget EXCEPT ![st.arm.req.sensor] = Freed(@, st)]
    BY DEF HandleCompletion, ghosts
  <1>2. Waiting(s)' = Waiting(s) /\ Running(s)' = Running(s)
    BY <1>1 DEF Running, JobsOf, Waiting
  <1>3. /\ IsFiniteSet(Answered(s)) /\ Cardinality(Waiting(s)) \in Nat
        /\ Cardinality(Running(s)) \in Nat
    BY PartsFinite DEF BudgetInv
  <1>4. CASE st.arm.req.sensor # s
    <2>1. Answered(s)' \subseteq Answered(s) /\ budget'[s] = budget[s]
      BY <1>1, <1>4 DEF Answered, BudgetInv, Types
    <2> QED
      BY <1>1, <1>2, <2>1, FitsStill
  <1>5. CASE st.arm.req.sensor = s
    <2>1. st \in Answered(s) /\ Answered(s)' \subseteq Answered(s) \ {st}
      BY <1>1, <1>5 DEF Answered
    <2>2. /\ Cardinality(Answered(s)') \in Nat /\ Cardinality(Answered(s)) \in Nat
          /\ Cardinality(Answered(s)') <= Cardinality(Answered(s)) - 1
      BY <1>3, <2>1, OneLess
    <2>3. budget[s].active \in Nat
      BY FitFacts
    <2>4. \/ budget'[s].active = budget[s].active
          \/ budget'[s].active = budget[s].active - 1 /\ budget[s].active > 0
      BY <1>1, <1>5, <2>3 DEF Freed, BudgetInv, Types
    <2> QED
      BY <1>1, <1>2, <1>3, <2>2, <2>4, FitFacts DEF Fits, Load
  <1> QED
    BY <1>4, <1>5

LEMMA DirectiveFits ==
    ASSUME CaptureAssumption, BudgetInv, NEW a \in arms, TakeDirective(a),
           NEW s \in Sensors
    PROVE  Fits(s)'
  <1> DEFINE new == [arm |-> a, stage |-> "arm", touched |-> FALSE, carved |-> FALSE,
                     outcome |-> "failed"]
  <1>1. PICK state : Status(a, state).arm = a
    BY DEF Status
  <1>2. /\ UNCHANGED <<budget, restarts, repeats>> /\ arms' = arms \ {a}
        /\ \/ jobs' = jobs \cup {new} /\ UNCHANGED unread
           \/ jobs' = jobs /\ \E x : unread' = unread \cup {Status(a, x)}
    BY DEF TakeDirective, ghosts, Publish
  <1>3. new.arm = a
    OBVIOUS
  <1> HIDE DEF new
  <1>4. /\ IsFiniteSet(Waiting(s)) /\ IsFiniteSet(Running(s)) /\ IsFiniteSet(Answered(s))
        /\ Cardinality(Running(s)) \in Nat /\ Cardinality(Answered(s)) \in Nat
    BY PartsFinite DEF BudgetInv
  <1>5. PICK st : /\ st.arm = a
                  /\ \/ jobs' = jobs \cup {new} /\ UNCHANGED unread
                     \/ jobs' = jobs /\ unread' = unread \cup {st}
    BY <1>1, <1>2 DEF Status
  <1>6. CASE a.req.sensor # s
    <2>1. /\ Waiting(s)' \subseteq Waiting(s) /\ Running(s)' \subseteq Running(s)
          /\ Answered(s)' \subseteq Answered(s)
      BY <1>2, <1>3, <1>5, <1>6 DEF Waiting, Running, JobsOf, Answered
    <2> QED
      BY <1>2, <2>1, FitsStill
  <1>7. CASE a.req.sensor = s
    <2>1. a \in Waiting(s) /\ Waiting(s)' \subseteq Waiting(s) \ {a}
      BY <1>2, <1>7 DEF Waiting
    <2>2. /\ Cardinality(Waiting(s)') \in Nat /\ Cardinality(Waiting(s)) \in Nat
          /\ Cardinality(Waiting(s)') <= Cardinality(Waiting(s)) - 1
      BY <1>4, <2>1, OneLess
    <2>3. CASE jobs' = jobs \cup {new} /\ UNCHANGED unread
      <3>1. Running(s)' \subseteq Running(s) \cup {new} /\ Answered(s)' = Answered(s)
        BY <2>3 DEF Running, JobsOf, Answered
      <3>2. /\ Cardinality(Running(s)') \in Nat
            /\ Cardinality(Running(s)') <= Cardinality(Running(s)) + 1
        BY <1>4, <3>1, OneMore
      <3> QED
        BY <1>2, <1>4, <2>2, <3>1, <3>2, FitFacts DEF Fits, Load
    <2>4. CASE jobs' = jobs /\ unread' = unread \cup {st}
      <3>1. Answered(s)' \subseteq Answered(s) \cup {st} /\ Running(s)' = Running(s)
        BY <2>4 DEF Running, JobsOf, Answered
      <3>2. /\ Cardinality(Answered(s)') \in Nat
            /\ Cardinality(Answered(s)') <= Cardinality(Answered(s)) + 1
        BY <1>4, <3>1, OneMore
      <3> QED
        BY <1>2, <1>4, <2>2, <3>1, <3>2, FitFacts DEF Fits, Load
    <2> QED
      BY <1>5, <2>3, <2>4
  <1> QED
    BY <1>6, <1>7

LEMMA ThreadFits ==
    ASSUME CaptureAssumption, BudgetInv, NEW j \in jobs, JobStep(j),
           NEW s \in Sensors
    PROVE  Fits(s)'
  <1>1. Types
    BY DEF BudgetInv
  <1>2. /\ UNCHANGED <<arms, budget, restarts, repeats>>
        /\ \/ /\ UNCHANGED unread
              /\ \/ jobs' = jobs \ {j}
                 \/ \E new \in Jobs : /\ jobs' = (jobs \ {j}) \cup {new}
                                      /\ new.arm = j.arm /\ j.stage # "exit"
           \/ /\ unread' = unread \cup {Status(j.arm, j.outcome)}
              /\ \E new \in Jobs : /\ jobs' = (jobs \ {j}) \cup {new}
                                   /\ new.stage = "exit" /\ j.stage = "report"
    BY <1>1, ThreadMoves
  <1>3. Waiting(s)' = Waiting(s)
    BY <1>2 DEF Waiting
  <1>4. /\ IsFiniteSet(Waiting(s)) /\ IsFiniteSet(Running(s)) /\ IsFiniteSet(Answered(s))
        /\ Cardinality(Waiting(s)) \in Nat /\ Cardinality(Answered(s)) \in Nat
    BY <1>1, PartsFinite
  <1>5. CASE jobs' = jobs \ {j} /\ UNCHANGED unread
    BY <1>2, <1>5, FitsStill DEF Waiting, Running, JobsOf, Answered
  <1>6. ASSUME NEW new \in Jobs, jobs' = (jobs \ {j}) \cup {new}, UNCHANGED unread,
               new.arm = j.arm, j.stage # "exit"
        PROVE  Fits(s)'
    <2>1. Answered(s)' = Answered(s)
      BY <1>6 DEF Answered
    <2>2. CASE j.arm.req.sensor # s
      <3>1. Running(s)' \subseteq Running(s)
        BY <1>6, <2>2 DEF Running, JobsOf
      <3> QED
        BY <1>2, <1>3, <2>1, <3>1, FitsStill
    <2>3. CASE j.arm.req.sensor = s
      <3>1. j \in Running(s) /\ Running(s)' \subseteq (Running(s) \ {j}) \cup {new}
        BY <1>6, <2>3 DEF Running, JobsOf
      <3> DEFINE S == Running(s)  T == Running(s)'
      <3>2. IsFiniteSet(S) /\ j \in S /\ T \subseteq (S \ {j}) \cup {new}
        BY <1>4, <3>1
      <3> HIDE DEF S, T
      <3>3. /\ Cardinality(T) \in Nat /\ Cardinality(S) \in Nat
            /\ Cardinality(T) <= Cardinality(S)
        BY <3>2, OneMoved
      <3> QED
        BY <1>2, <1>3, <1>4, <2>1, <3>3, FitFacts DEF Fits, Load, S, T
    <2> QED
      BY <2>2, <2>3
  <1>7. ASSUME NEW new \in Jobs, jobs' = (jobs \ {j}) \cup {new}, new.stage = "exit",
               j.stage = "report", unread' = unread \cup {Status(j.arm, j.outcome)}
        PROVE  Fits(s)'
    <2>1. Status(j.arm, j.outcome).arm = j.arm
      BY DEF Status
    <2>2. CASE j.arm.req.sensor # s
      <3>1. Running(s)' \subseteq Running(s) /\ Answered(s)' \subseteq Answered(s)
        BY <1>7, <2>1, <2>2 DEF Running, JobsOf, Answered
      <3> QED
        BY <1>2, <1>3, <3>1, FitsStill
    <2>3. CASE j.arm.req.sensor = s
      <3>1. /\ j \in Running(s) /\ Running(s)' \subseteq Running(s) \ {j}
            /\ Answered(s)' \subseteq Answered(s) \cup {Status(j.arm, j.outcome)}
        <4>1. j \in Running(s)
          BY <1>7, <2>3 DEF Running, JobsOf
        <4>2. j \notin Running(s)'
          BY <1>7 DEF Running, JobsOf
        <4>3. Running(s)' \subseteq Running(s)
          BY <1>7 DEF Running, JobsOf
        <4>4. Answered(s)' \subseteq Answered(s) \cup {Status(j.arm, j.outcome)}
          BY <1>7 DEF Answered
        <4> QED
          BY <4>1, <4>2, <4>3, <4>4
      <3>2. /\ Cardinality(Running(s)') \in Nat /\ Cardinality(Running(s)) \in Nat
            /\ Cardinality(Running(s)') <= Cardinality(Running(s)) - 1
        BY <1>4, <3>1, OneLess
      <3>3. /\ Cardinality(Answered(s)') \in Nat
            /\ Cardinality(Answered(s)') <= Cardinality(Answered(s)) + 1
        BY <1>4, <3>1, OneMore
      <3> QED
        BY <1>2, <1>3, <1>4, <3>2, <3>3, FitFacts DEF Fits, Load
    <2> QED
      BY <2>2, <2>3
  <1> QED
    BY <1>2, <1>5, <1>6, <1>7

LEMMA PacketFits ==
    ASSUME CaptureAssumption, BudgetInv, NEW at, NEW e, Packet(at, e), NEW s \in Sensors
    PROVE  Fits(s)'
  <1> DEFINE seen(j) == IF j.arm.req.sensor = at /\ j.stage = "window"
                        THEN [j EXCEPT !.touched = TRUE] ELSE j
  <1>1. /\ jobs' = {seen(j) : j \in jobs} /\ UNCHANGED <<arms, budget, unread, restarts, repeats>>
    BY DEF Packet, ghosts
  <1>2. Waiting(s)' = Waiting(s) /\ Answered(s)' = Answered(s)
    BY <1>1 DEF Waiting, Answered
  <1>3. /\ IsFiniteSet(Running(s)) /\ Cardinality(Waiting(s)) \in Nat
        /\ Cardinality(Answered(s)) \in Nat
    BY PartsFinite DEF BudgetInv
  <1>4. \A j \in jobs : seen(j).arm = j.arm /\ seen(j).stage = j.stage
    BY DEF BudgetInv, Types, Jobs
  <1>5. PICK f : f = [j \in Running(s) |-> seen(j)]
    OBVIOUS
  <1>6. f \in [Running(s) -> {seen(j) : j \in Running(s)}]
    BY <1>5
  <1> HIDE DEF seen
  <1>7. Running(s)' \subseteq {f[j] : j \in Running(s)}
    <2>1. ASSUME NEW x \in Running(s)' PROVE \E j \in Running(s) : x = f[j]
      <3>1. PICK j \in jobs : x = seen(j)
        BY <1>1 DEF Running, JobsOf
      <3>2. j \in Running(s)
        BY <1>4, <3>1 DEF Running, JobsOf
      <3> QED
        BY <1>5, <3>1, <3>2
    <2> QED
      BY <2>1
  <1> DEFINE S == Running(s)  T == Running(s)'  U == {seen(j) : j \in S}
  <1>8. IsFiniteSet(S) /\ f \in [S -> U] /\ T \subseteq {f[j] : j \in S}
    BY <1>3, <1>6, <1>7
  <1> HIDE DEF S, T, U
  <1>9. /\ Cardinality(T) \in Nat /\ Cardinality(S) \in Nat
        /\ Cardinality(T) <= Cardinality(S)
    BY <1>8, Mapped
  <1> QED
    BY <1>1, <1>2, <1>3, <1>9, FitFacts DEF Fits, Load, S, T

\* A death of the orchestrator.
LEMMA OrchestratorCrashInv ==
    ASSUME CaptureAssumption, BudgetInv, OrchestratorCrash
    PROVE  BudgetInv'
  <1>1. PICK old \in SUBSET statuses :
            /\ requests' \subseteq Requests /\ unread' = unread \cup old
            /\ repeats' = [s \in Sensors |->
                              repeats[s] + Cardinality({st \in old : st.arm.req.sensor = s})]
    BY DEF OrchestratorCrash, BudgetInv, Types
  <1>2. /\ UNCHANGED <<issued, arms, jobs, statuses>> /\ crashes' = crashes + 1
        /\ restarts' = restarts + 1 /\ budget' = [s \in Sensors |-> NoBudget]
    BY DEF OrchestratorCrash
  <1>3. IsFiniteSet(old)
    BY FS_Subset DEF BudgetInv, Types
  <1>4. ASSUME NEW s \in Sensors
        PROVE  /\ IsFiniteSet({st \in old : st.arm.req.sensor = s})
               /\ Cardinality({st \in old : st.arm.req.sensor = s}) \in Nat
    BY <1>3, NoMore
  <1>5. Types'
    <2>1. /\ IsFiniteSet(unread') /\ \A st \in unread' \cup statuses' : st.arm \in Directives
      BY <1>1, <1>2, <1>3, JoinTwo DEF BudgetInv, Types
    <2>2. /\ restarts' \in Nat /\ crashes' \in Nat
          /\ budget' \in [Sensors -> [active : Nat, bytes : Nat]]
      BY <1>2 DEF BudgetInv, Types, NoBudget
    <2>3. repeats' \in [Sensors -> Nat]
      <3> DEFINE extra(s) == Cardinality({st \in old : st.arm.req.sensor = s})
      <3>1. repeats' = [s \in Sensors |-> repeats[s] + extra(s)]
        BY <1>1
      <3>2. \A s \in Sensors : extra(s) \in Nat /\ repeats[s] \in Nat
        BY <1>4 DEF BudgetInv, Types
      <3> HIDE DEF extra
      <3> QED
        BY <3>1, <3>2
    <2> QED
      BY <1>1, <1>2, <2>1, <2>2, <2>3 DEF BudgetInv, Types
  <1>6. ASSUME NEW s \in Sensors PROVE Fits(s)'
    <2> DEFINE olds == {st \in old : st.arm.req.sensor = s}  S == Answered(s)  T == Answered(s)'
    <2>1. Waiting(s)' = Waiting(s) /\ Running(s)' = Running(s)
      BY <1>2 DEF Waiting, Running, JobsOf
    <2>2. T = S \cup olds
      BY <1>1 DEF Answered
    <2>3. /\ IsFiniteSet(S) /\ IsFiniteSet(olds) /\ Cardinality(Waiting(s)) \in Nat
          /\ Cardinality(Running(s)) \in Nat /\ Types
      BY <1>4, PartsFinite DEF BudgetInv
    <2>4. /\ budget'[s].active = 0 /\ repeats'[s] = repeats[s] + Cardinality(olds)
      BY <1>1, <1>2 DEF NoBudget
    <2> HIDE DEF olds, S, T
    <2>5. /\ Cardinality(T) \in Nat /\ Cardinality(S) \in Nat /\ Cardinality(olds) \in Nat
          /\ Cardinality(T) <= Cardinality(S) + Cardinality(olds)
      BY <2>2, <2>3, JoinTwo
    <2>6. MaxJobs * restarts' = MaxJobs * restarts + MaxJobs
      BY <1>2, <2>3, Product DEF CaptureAssumption, Types
    <2> QED
      BY <2>1, <2>3, <2>4, <2>5, <2>6, FitFacts DEF Fits, Load, S, T
  <1> QED
    BY <1>5, <1>6 DEF BudgetInv

\* A death of an agent: the threads are gone, and what comes again is bounded by them
\* and by what is counted in repeats.
LEMMA AgentCrashInv ==
    ASSUME CaptureAssumption, BudgetInv, NEW at \in Sensors, AgentCrash(at)
    PROVE  BudgetInv'
  <1> DEFINE gone == {j.arm : j \in Running(at)}
             anew(a) == [a EXCEPT !.take = crashes + 1]
  <1>1. PICK again \in SUBSET gone, done \in SUBSET Finished(at) :
            /\ arms' = arms \cup {anew(a) : a \in again \cup done}
            /\ repeats' = [repeats EXCEPT ![at] = @ + Cardinality(done)]
    BY DEF AgentCrash, Running
  <1>2. /\ UNCHANGED <<requests, issued, budget, statuses, unread, restarts>>
        /\ jobs' = jobs \ JobsOf(at) /\ crashes' = crashes + 1
    BY DEF AgentCrash
  <1>3. /\ Types /\ IsFiniteSet(Running(at)) /\ IsFiniteSet(statuses)
    BY PartsFinite DEF BudgetInv, Types
  <1>4. /\ \A a \in again : a \in Directives /\ a.req.sensor = at
        /\ \A a \in done : a \in Directives /\ a.req.sensor = at
    BY <1>3 DEF Running, JobsOf, Types, Jobs, Finished
  <1>5. \A a \in Directives : anew(a) \in Directives /\ anew(a).req = a.req
    BY <1>3 DEF Directives, Types
  <1>6. /\ IsFiniteSet(again) /\ Cardinality(again) \in Nat
        /\ Cardinality(again) <= Cardinality(Running(at))
    <2>1. PICK f : f = [j \in Running(at) |-> j.arm]
      OBVIOUS
    <2> DEFINE S == Running(at)
    <2>2. IsFiniteSet(S) /\ f \in [S -> gone] /\ again \subseteq {f[j] : j \in S}
      BY <1>3, <2>1
    <2> HIDE DEF S, gone
    <2>3. IsFiniteSet(again) /\ Cardinality(again) \in Nat /\ Cardinality(again) <= Cardinality(S)
      BY <2>2, Mapped
    <2> QED
      BY <2>3 DEF S
  <1>7. IsFiniteSet(done) /\ Cardinality(done) \in Nat
    <2>1. PICK f : f = [st \in statuses |-> st.arm]
      OBVIOUS
    <2> DEFINE S == statuses  U == {st.arm : st \in S}
    <2>2. IsFiniteSet(S) /\ f \in [S -> U] /\ done \subseteq {f[st] : st \in S}
      BY <1>3, <2>1 DEF Finished
    <2> HIDE DEF S, U
    <2> QED
      BY <2>2, Mapped
  <1> DEFINE first == {anew(a) : a \in again}  second == {anew(a) : a \in done}
  <1>8. /\ IsFiniteSet(first) /\ Cardinality(first) \in Nat
        /\ Cardinality(first) <= Cardinality(again)
    <2>1. PICK f : f = [a \in again |-> anew(a)]
      OBVIOUS
    <2> DEFINE S == again  U == {anew(a) : a \in S}
    <2>2. IsFiniteSet(S) /\ f \in [S -> U] /\ first \subseteq {f[a] : a \in S}
      BY <1>6, <2>1
    <2> HIDE DEF first, S, U
    <2>3. /\ IsFiniteSet(first) /\ Cardinality(first) \in Nat
          /\ Cardinality(first) <= Cardinality(S)
      BY <2>2, Mapped
    <2> QED
      BY <2>3 DEF S
  <1>9. /\ IsFiniteSet(second) /\ Cardinality(second) \in Nat
        /\ Cardinality(second) <= Cardinality(done)
    <2>1. PICK f : f = [a \in done |-> anew(a)]
      OBVIOUS
    <2> DEFINE S == done  U == {anew(a) : a \in S}
    <2>2. IsFiniteSet(S) /\ f \in [S -> U] /\ second \subseteq {f[a] : a \in S}
      BY <1>7, <2>1
    <2> HIDE DEF second, S, U
    <2>3. /\ IsFiniteSet(second) /\ Cardinality(second) \in Nat
          /\ Cardinality(second) <= Cardinality(S)
      BY <2>2, Mapped
    <2> QED
      BY <2>3 DEF S
  <1>10. /\ IsFiniteSet(first \cup second) /\ Cardinality(first \cup second) \in Nat
         /\ Cardinality(first \cup second) <= Cardinality(again) + Cardinality(done)
    <2> HIDE DEF first, second
    <2>1. /\ IsFiniteSet(first \cup second) /\ Cardinality(first \cup second) \in Nat
          /\ Cardinality(first \cup second) <= Cardinality(first) + Cardinality(second)
      BY <1>8, <1>9, JoinTwo
    <2> QED
      BY <1>6, <1>7, <1>8, <1>9, <2>1
  <1>11. arms' = arms \cup (first \cup second)
    BY <1>1
  <1>12. ASSUME NEW x \in first \cup second PROVE x \in Directives /\ x.req.sensor = at
    <2>1. PICK a \in again \cup done : x = anew(a)
      OBVIOUS
    <2>2. a \in Directives /\ a.req.sensor = at
      BY <1>4
    <2> QED
      BY <1>5, <2>1, <2>2
  <1> HIDE DEF gone, anew, first, second
  <1>13. Types'
    <2>1. IsFiniteSet(arms') /\ arms' \subseteq Directives
      BY <1>3, <1>10, <1>11, <1>12, JoinTwo DEF Types
    <2>2. IsFiniteSet(jobs') /\ jobs' \subseteq Jobs
      BY <1>2, <1>3, FS_Subset DEF Types
    <2>3. repeats' \in [Sensors -> Nat] /\ crashes' \in Nat
      BY <1>1, <1>2, <1>3, <1>7 DEF Types
    <2> QED
      BY <1>2, <1>3, <2>1, <2>2, <2>3 DEF Types
  <1>14. ASSUME NEW s \in Sensors, s # at PROVE Fits(s)'
    <2>1. Waiting(s)' \subseteq Waiting(s)
      BY <1>11, <1>12, <1>14 DEF Waiting
    <2>2. Running(s)' \subseteq Running(s) /\ Answered(s)' \subseteq Answered(s)
      BY <1>2 DEF Running, JobsOf, Answered
    <2>3. repeats'[s] = repeats[s]
      BY <1>1, <1>3, <1>14 DEF Types
    <2> QED
      BY <1>2, <2>1, <2>2, <2>3, FitsStill
  <1>15. Fits(at)'
    <2> DEFINE S == Waiting(at)  T == Waiting(at)'
    <2>1. IsFiniteSet(S) /\ T \subseteq S \cup (first \cup second)
      BY <1>3, <1>11, PartsFinite DEF Waiting
    <2>2. Running(at)' = {} /\ Answered(at)' = Answered(at)
      BY <1>2 DEF Running, JobsOf, Answered
    <2>3. Cardinality(Running(at)') = 0
      BY <2>2, FS_EmptySet
    <2>4. /\ Cardinality(Running(at)) \in Nat /\ Cardinality(Answered(at)) \in Nat
      BY <1>3, PartsFinite
    <2> HIDE DEF S, T
    <2>5. /\ Cardinality(T) \in Nat /\ Cardinality(S) \in Nat
          /\ Cardinality(T) <= Cardinality(S) + Cardinality(first \cup second)
      <3>1. /\ IsFiniteSet(S \cup (first \cup second)) /\ Cardinality(S) \in Nat
            /\ Cardinality(S \cup (first \cup second)) \in Nat
            /\ Cardinality(S \cup (first \cup second))
                   <= Cardinality(S) + Cardinality(first \cup second)
        BY <1>10, <2>1, JoinTwo
      <3>2. /\ Cardinality(T) \in Nat
            /\ Cardinality(T) <= Cardinality(S \cup (first \cup second))
        BY <2>1, <3>1, NoMore
      <3> QED
        BY <1>10, <3>1, <3>2
    <2>6. repeats'[at] = repeats[at] + Cardinality(done)
      BY <1>1, <1>3 DEF Types
    <2>7. Cardinality(T) + Cardinality(Running(at)') + Cardinality(Answered(at)')
              <= Load(at) + Cardinality(done)
      BY <1>6, <1>7, <1>10, <2>2, <2>3, <2>4, <2>5 DEF Load, S
    <2>8. /\ budget'[at] = budget[at] /\ restarts' = restarts
      BY <1>2
    <2> QED
      BY <1>7, <2>2, <2>3, <2>4, <2>5, <2>6, <2>7, <2>8, FitFacts DEF Fits, Load, T
  <1> QED
    BY <1>13, <1>14, <1>15 DEF BudgetInv

LEMMA BudgetInit == CaptureAssumption /\ Init => BudgetInv
  <1> SUFFICES ASSUME CaptureAssumption, Init PROVE BudgetInv
    OBVIOUS
  <1>1. Types
    BY TypesInit
  <1>2. ASSUME NEW s \in Sensors PROVE Fits(s)
    <2>1. Waiting(s) = {} /\ Running(s) = {} /\ Answered(s) = {}
      BY DEF Init, Waiting, Running, JobsOf, Answered
    <2>2. Load(s) = 0
      BY <2>1, FS_EmptySet DEF Load
    <2>3. budget[s].active = 0 /\ restarts = 0 /\ repeats[s] = 0 /\ MaxJobs \in Nat
      BY DEF Init, NoBudget, CaptureAssumption
    <2> QED
      BY <2>2, <2>3 DEF Fits
  <1> QED
    BY <1>1, <1>2 DEF BudgetInv

LEMMA BudgetNext ==
    ASSUME CaptureAssumption, BudgetInv, [Next]_vars
    PROVE  BudgetInv'
  <1>1. ASSUME NEW r \in requests, HandleRequest(r) PROVE BudgetInv'
    BY <1>1, OrchestratorTypes, RequestFits DEF BudgetInv
  <1>2. ASSUME NEW st \in unread, HandleCompletion(st) PROVE BudgetInv'
    BY <1>2, OrchestratorTypes, CompletionFits DEF BudgetInv
  <1>3. ASSUME NEW a \in arms, TakeDirective(a) PROVE BudgetInv'
    BY <1>3, AgentTypes, DirectiveFits DEF BudgetInv
  <1>4. ASSUME NEW j \in jobs, JobStep(j) PROVE BudgetInv'
    BY <1>4, AgentTypes, ThreadFits DEF BudgetInv
  <1>5. ASSUME NEW s \in Sensors, NEW e \in dataset[s], Packet(s, e) PROVE BudgetInv'
    BY <1>5, AgentTypes, PacketFits DEF BudgetInv
  <1>6. CASE OrchestratorCrash
    BY <1>6, OrchestratorCrashInv
  <1>7. ASSUME NEW s \in Sensors, AgentCrash(s) PROVE BudgetInv'
    BY <1>7, AgentCrashInv
  <1>8. CASE UNCHANGED <<requests, issued, budget, arms, jobs, statuses, unread, ghosts>>
    <2>1. Types'
      BY <1>8 DEF BudgetInv, Types, ghosts
    <2>2. ASSUME NEW s \in Sensors PROVE Fits(s)'
      BY <1>8, FitsStill DEF Waiting, Running, JobsOf, Answered, ghosts
    <2> QED
      BY <2>1, <2>2 DEF BudgetInv
  <1>9. (\E a \in enrich : Enrich(a) \/ EnrichFails(a)) \/ UNCHANGED vars
            => UNCHANGED <<requests, issued, budget, arms, jobs, statuses, unread, ghosts>>
    BY DEF Enrich, EnrichFails, vars
  <1> QED
    BY <1>1, <1>2, <1>3, <1>4, <1>5, <1>6, <1>7, <1>8, <1>9 DEF Next

\* The orchestrator never admits more captures of a sensor than MAX_JOBS, and its count
\* covers what is outstanding at the sensor -- directives on their way, captures in a
\* thread, answers not yet read -- up to what its own deaths made it forget and what
\* Kafka delivered again after a death: for any number of requests, sensors and deaths.
THEOREM BudgetAlwaysCovers ==
    ASSUME CaptureAssumption
    PROVE  Spec => []BudgetCoversOutstanding
  <1>1. Init => BudgetInv
    BY BudgetInit
  <1>2. BudgetInv /\ [Next]_vars => BudgetInv'
    BY BudgetNext
  <1>3. BudgetInv => BudgetCoversOutstanding
    <2> SUFFICES ASSUME BudgetInv, NEW s \in Sensors
                 PROVE  /\ budget[s].active <= MaxJobs
                        /\ Load(s) <= MaxJobs * (restarts + 1) + repeats[s]
      BY DEF BudgetCoversOutstanding, Load
    <2>1. MaxJobs * (restarts + 1) = MaxJobs * restarts + MaxJobs
      BY Product DEF BudgetInv, Types, CaptureAssumption
    <2> QED
      BY <2>1, FitFacts
  <1> QED
    BY <1>1, <1>2, <1>3, PTL DEF Spec

-----------------------------------------------------------------------------
(* Packets stay on the sensor that recorded them until they are uploaded   *)
(* under the key of a request of that sensor.                              *)

Packets == [at : Sensors, of : Entries]

\* What a sensor keeps was recorded there.
DiskInv ==
    /\ dataset \in [Sensors -> SUBSET Entries]
    /\ pcap \in [Sensors -> SUBSET Packets]
    /\ temp \in [Sensors -> [Fids -> SUBSET Packets]]
    /\ \A s \in Sensors : \A p \in pcap[s] : p.at = s
    /\ \A s \in Sensors : \A f \in Fids : \A p \in temp[s][f] : p.at = s

\* What lies under a tenant's key was recorded by a sensor some request of the tenant
\* names.
StoreInv ==
    /\ \A o \in store : \A p \in o.content :
          \E r \in Requests : r.tenant = o.key[1] /\ r.sensor = p.at
    /\ EnrichedFromOwnTenant

TenantInv == DiskInv /\ StoreInv

LEMMA ThreadTenants ==
    ASSUME CaptureAssumption, Types, TenantInv, NEW j \in jobs, JobStep(j)
    PROVE  TenantInv'
  <1> DEFINE r == j.arm.req
  <1>1. /\ r \in Requests /\ r.sensor \in Sensors /\ r.fid \in Fids /\ Entry(r) \in Entries
    BY DEF Types, Jobs, Directives, CaptureAssumption, Fids, Entries
  <1> HIDE DEF r
  <1>2. CASE Arm(j) \/ Disarm(j)
    <2>1. /\ UNCHANGED <<pcap, temp, store, results>>
          /\ \/ dataset' = dataset
             \/ dataset' = [dataset EXCEPT ![r.sensor] = @ \cup {Entry(r)}]
             \/ dataset' = [dataset EXCEPT ![r.sensor] = @ \ {Entry(r)}]
      BY <1>2 DEF Arm, Disarm, r
    <2>2. dataset' \in [Sensors -> SUBSET Entries]
      BY <1>1, <2>1 DEF TenantInv, DiskInv
    <2> QED
      BY <2>1, <2>2 DEF TenantInv, DiskInv, StoreInv, EnrichedFromOwnTenant
  <1>3. CASE Carve(j) \/ Report(j)
    <2>1. /\ UNCHANGED <<dataset, pcap, store, results>>
          /\ \/ temp' = temp
             \/ temp' = [temp EXCEPT ![r.sensor][r.fid] = Own(r)]
             \/ temp' = [temp EXCEPT ![r.sensor][r.fid] = {}]
      BY <1>3 DEF Carve, Report, Cleaned, r
    <2>2. /\ Own(r) \in SUBSET Packets /\ \A p \in Own(r) : p.at = r.sensor
      BY <1>1 DEF TenantInv, DiskInv, Own
    <2>3. PICK new \in SUBSET Packets :
              /\ \A p \in new : p.at = r.sensor
              /\ temp' = temp \/ temp' = [temp EXCEPT ![r.sensor][r.fid] = new]
      <3>1. {} \in SUBSET Packets /\ \A p \in {} : p.at = r.sensor
        OBVIOUS
      <3>2. CASE temp' = temp
        BY <3>1, <3>2, Zenon
      <3>3. CASE temp' = [temp EXCEPT ![r.sensor][r.fid] = Own(r)]
        BY <2>2, <3>3, Zenon
      <3>4. CASE temp' = [temp EXCEPT ![r.sensor][r.fid] = {}]
        BY <3>1, <3>4, Zenon
      <3> QED
        BY <2>1, <3>2, <3>3, <3>4
    <2>4. temp' \in [Sensors -> [Fids -> SUBSET Packets]]
      <3>1. /\ temp \in [Sensors -> [Fids -> SUBSET Packets]]
            /\ temp[r.sensor] \in [Fids -> SUBSET Packets]
        BY <1>1 DEF TenantInv, DiskInv
      <3>2. [temp[r.sensor] EXCEPT ![r.fid] = new] \in [Fids -> SUBSET Packets]
        BY <3>1
      <3> QED
        BY <2>3, <3>1, <3>2
    <2>5. ASSUME NEW s \in Sensors, NEW f \in Fids, NEW p \in temp'[s][f] PROVE p.at = s
      <3>1. temp'[s][f] = temp[s][f] \/ (s = r.sensor /\ temp'[s][f] = new)
        BY <1>1, <2>3 DEF TenantInv, DiskInv
      <3> QED
        BY <2>3, <3>1 DEF TenantInv, DiskInv
    <2> QED
      BY <2>1, <2>4, <2>5 DEF TenantInv, DiskInv, StoreInv, EnrichedFromOwnTenant
  <1>4. CASE Upload(j)
    <2>1. /\ UNCHANGED <<dataset, pcap, temp, results>> /\ store' \subseteq store \cup {Object(j)}
      BY <1>4 DEF Upload
    <2>2. /\ Object(j).key = pcap_key(r)
          /\ \/ Object(j).content = temp[r.sensor][r.fid]
             \/ Object(j).content = pcap[r.sensor]
      BY DEF Object, r
    <2>3. Object(j).key[1] = r.tenant
      BY <2>2 DEF pcap_key
    <2>4. \A p \in Object(j).content : p.at = r.sensor
      BY <1>1, <2>2 DEF TenantInv, DiskInv
    <2>5. ASSUME NEW o \in store', NEW p \in o.content
          PROVE  \E q \in Requests : q.tenant = o.key[1] /\ q.sensor = p.at
      <3>1. CASE o \in store
        BY <3>1 DEF TenantInv, StoreInv
      <3>2. CASE o = Object(j)
        BY <1>1, <2>3, <2>4, <2>5, <3>2
      <3> QED
        BY <2>1, <3>1, <3>2
    <2> QED
      BY <2>1, <2>5 DEF TenantInv, DiskInv, StoreInv, EnrichedFromOwnTenant
  <1>5. CASE Isolate(j) \/ Exit(j)
    BY <1>5 DEF Isolate, Exit, TenantInv, DiskInv, StoreInv, EnrichedFromOwnTenant
  <1> QED
    BY <1>2, <1>3, <1>4, <1>5 DEF JobStep

LEMMA TenantNext ==
    ASSUME CaptureAssumption, Types, TenantInv, [Next]_vars
    PROVE  TenantInv'
  <1>1. ASSUME NEW j \in jobs, JobStep(j) PROVE TenantInv'
    BY <1>1, ThreadTenants
  <1>2. ASSUME NEW s \in Sensors, NEW e \in dataset[s], Packet(s, e) PROVE TenantInv'
    <2> DEFINE new == [at |-> s, of |-> e]
    <2>1. /\ UNCHANGED <<dataset, temp, store, results>>
          /\ pcap' = [pcap EXCEPT ![s] = @ \cup {new}]
      BY <1>2 DEF Packet
    <2>2. new \in Packets /\ new.at = s
      BY DEF TenantInv, DiskInv, Packets
    <2> HIDE DEF new
    <2>3. /\ pcap' \in [Sensors -> SUBSET Packets]
          /\ \A x \in Sensors : \A p \in pcap'[x] : p.at = x
      BY <2>1, <2>2 DEF TenantInv, DiskInv
    <2> QED
      BY <2>1, <2>3 DEF TenantInv, DiskInv, StoreInv, EnrichedFromOwnTenant
  <1>3. ASSUME NEW a \in enrich, Enrich(a) PROVE TenantInv'
    <2>1. PICK o \in store :
              /\ o.key = pcap_key(a.req)
              /\ results' = results \cup {[req |-> a.req, content |-> o.content]}
      BY <1>3 DEF Enrich
    <2>2. \A p \in o.content : \E r \in Requests : r.tenant = a.req.tenant /\ r.sensor = p.at
      BY <2>1 DEF TenantInv, StoreInv, pcap_key
    <2>3. EnrichedFromOwnTenant'
      BY <2>1, <2>2 DEF TenantInv, StoreInv, EnrichedFromOwnTenant
    <2>4. UNCHANGED <<dataset, pcap, temp, store>>
      BY <1>3 DEF Enrich
    <2> QED
      BY <2>3, <2>4 DEF TenantInv, DiskInv, StoreInv
  <1>4. CASE UNCHANGED <<dataset, pcap, temp, store, results>>
    BY <1>4 DEF TenantInv, DiskInv, StoreInv, EnrichedFromOwnTenant
  <1>5. ASSUME \/ \E r \in requests : HandleRequest(r)
               \/ \E st \in unread : HandleCompletion(st)
               \/ \E a \in arms : TakeDirective(a)
               \/ \E a \in enrich : EnrichFails(a)
               \/ OrchestratorCrash
               \/ \E s \in Sensors : AgentCrash(s)
               \/ UNCHANGED vars
        PROVE  UNCHANGED <<dataset, pcap, temp, store, results>>
    BY <1>5 DEF HandleRequest, HandleCompletion, TakeDirective, EnrichFails, OrchestratorCrash,
           AgentCrash, vars
  <1> QED
    BY <1>1, <1>2, <1>3, <1>4, <1>5 DEF Next

\* Captures and uploads of equal finding ids overlap, share a temp file and overwrite
\* each other's objects: the packets an enrichment result is computed from were all
\* recorded by a sensor that a request of the finding's own tenant names.
THEOREM EnrichmentKeepsTenants ==
    ASSUME CaptureAssumption
    PROVE  Spec => []EnrichedFromOwnTenant
  <1>1. Init => BudgetInv /\ TenantInv
    <2>1. Init => TenantInv
      BY DEF Init, TenantInv, DiskInv, StoreInv, EnrichedFromOwnTenant
    <2> QED
      BY <2>1, BudgetInit
  <1>2. BudgetInv /\ TenantInv /\ [Next]_vars => (BudgetInv /\ TenantInv)'
    BY BudgetNext, TenantNext DEF BudgetInv
  <1>3. TenantInv => EnrichedFromOwnTenant
    BY DEF TenantInv, StoreInv
  <1> QED
    BY <1>1, <1>2, <1>3, PTL DEF Spec
=============================================================================
