-------------------------- MODULE MCPreserveCapture --------------------------
(***************************************************************************)
(* The two ways of capturing packets: the preserve captures of the past,   *)
(* and the capture loop, once with overlapping captures of equal finding   *)
(* ids and once with deaths.  A behaviour is one of the three.             *)
(***************************************************************************)
EXTENDS PreserveCapture

VARIABLES part, requests, issued, budget, arms, jobs, active, dataset, pcap, temp, store, statuses,
    reported, enrich, results, lost, restarts, repeats, crashes

\* A finding whose capture is asked for twice and another finding of its tenant.
Intent(n, s, f) == [n |-> n, tenant |-> "acme", sensor |-> s, fid |-> f]
Repeated == {Intent(1, "s1", "f1"), Intent(2, "s1", "f1"), Intent(3, "s1", "f2")}

Asked(id, t, s, p, v) == [id |-> id, tenant |-> t, sensor |-> s, profile |-> p, value |-> v, fid |-> "f"]
\* Two hosts of one finding, and a finding with the same id, of the same host, of another
\* tenant behind a sensor of its own.
Here == Asked(1, "acme", "s1", "ip", "v1")
Again == Asked(2, "acme", "s1", "ip", "v2")
There == Asked(3, "globex", "s2", "ip", "v1")
Overlap == INSTANCE CaptureLoop WITH
    Requests <- {Here, Again, There}, Sensors <- {"s1", "s2"}, Profiles <- {"ip", "sni"},
    MaxJobs <- 2, MaxBytes <- 2, LocalMax <- 2, MaxCrashes <- 0, unread <- reported

\* A capture by server name and one by host for one slot, with the death of a process.
ByName == {Asked(1, "acme", "s1", "sni", "v1"), Asked(2, "acme", "s1", "ip", "v1")}
Deaths == INSTANCE CaptureLoop WITH
    Requests <- ByName, Sensors <- {"s1"}, Profiles <- {"ip", "sni"},
    MaxJobs <- 1, MaxBytes <- 1, LocalMax <- 1, MaxCrashes <- 1, unread <- reported

loop == <<requests, issued, budget, arms, jobs, active, dataset, pcap, temp, store, statuses,
          reported, enrich, results, lost, restarts, repeats, crashes>>
ASSUME OtherConstants == Overlap!CaptureAssumption /\ Deaths!CaptureAssumption

MCInit == \/ part = "preserve" /\ Init /\ intents = Intents /\ Overlap!Init /\ requests = {}
          \/ /\ part = "overlap" /\ Init /\ intents = {}
             /\ Overlap!Init /\ requests \in {{Here, Again}, {Here, There}}
          \/ part = "deaths" /\ Init /\ intents = {} /\ Deaths!Init /\ requests = ByName
MCNext == \/ part = "preserve" /\ Next /\ UNCHANGED <<part, loop>>
          \/ part = "overlap" /\ Overlap!Next /\ UNCHANGED <<part, vars>>
          \/ part = "deaths" /\ Deaths!Next /\ UNCHANGED <<part, vars>>
\* In each part only its own fairness asks for a step.
MCSpec == /\ MCInit /\ [][MCNext]_<<part, vars, loop>>
          /\ Fairness
          /\ WF_loop(part = "deaths" /\ \E r \in requests : Deaths!HandleRequest(r))
          /\ WF_loop(part = "deaths" /\ \E st \in reported : Deaths!HandleCompletion(st))
          /\ WF_loop(part = "deaths" /\ \E a \in arms : Deaths!TakeDirective(a))
          /\ WF_loop(part = "deaths" /\ \E j \in jobs : Deaths!JobStep(j))
          /\ WF_loop(part = "deaths" /\ \E a \in enrich : Deaths!Enrich(a) \/ Deaths!EnrichFails(a))

\* What is outstanding is covered by the budget, the orchestrator's deaths and Kafka's repeats.
BudgetCoversOutstanding == (part = "overlap" => Overlap!BudgetCoversOutstanding)
                           /\ (part = "deaths" => Deaths!BudgetCoversOutstanding)
\* A finding is enriched from packets of a sensor of its tenant.
EnrichedFromOwnTenant == part = "overlap" => Overlap!EnrichedFromOwnTenant
\* Every request is answered or its capture died with the agent.
EveryRequestAnswered == part = "deaths" => Deaths!EveryRequestAnswered
=============================================================================
