---------------------------- MODULE FindingPolicy ----------------------------
(***************************************************************************)
(* The pure decisions of services/finding-service/state_machine.py: which  *)
(* candidates need packets, which findings are withheld from the analyst   *)
(* plane, and what each lifecycle transition does to a finding.            *)
(*                                                                         *)
(* A candidate is a record [tenant, fid, det, cat, ver, sev, conf]; its    *)
(* confidence is a percentage.  A finding keeps the candidate it was built *)
(* from and the fields the lifecycle changes; its evidence is the set of   *)
(* keys of the findings the evidence was captured for.                     *)
(***************************************************************************)
EXTENDS Integers

CONSTANTS
    SuppressMaxSeverity,  \* NDR_SUPPRESS_MAX_SEVERITY, 5 by default
    NdpiDeliverAll        \* NDR_NDPI_DELIVER_ALL

ASSUME PolicyAssumption ==
    /\ SuppressMaxSeverity \in Nat
    /\ NdpiDeliverAll \in BOOLEAN

CONFIRMED_THREAT_SOURCES == {"ids_signature", "threat_intel", "file_malware_hash"}

\* Categories and detectors whose conclusion is answerable from metadata.
StructuralCategories ==
    {"recon", "discovery", "credential_access", "lateral", "impact", "defense_evasion"}
StructuralDetectors == {"low_slow_exfil", "ndpi_risk"}

\* The enrichment states of a finding that still waits for its capture.
Unfinalized == {"PENDING", "REQUIRED"}
Terminal == {"ENRICHED", "ENRICHMENT_FAILED", "TIMEOUT"}

Confirmed(cand) == cand.det \in CONFIRMED_THREAT_SOURCES

decide_enrichment(cand) ==
    IF ~Confirmed(cand) /\ (\/ cand.cat \in StructuralCategories
                            \/ cand.det \in StructuralDetectors
                            \/ cand.conf >= 90)
    THEN "metadata_sufficient"
    ELSE "packets_needed"

ndpi_deliver_exempt(cand) ==
    NdpiDeliverAll /\ cand.det = "ndpi_risk" /\ cand.ver = "2.0"

\* int(severity or 10): a missing or zero severity counts as 10.
EffectiveSeverity(cand) == IF cand.sev = 0 THEN 10 ELSE cand.sev

suppress_delivery(cand) ==
    /\ ~Confirmed(cand)
    /\ ~ndpi_deliver_exempt(cand)
    /\ EffectiveSeverity(cand) <= SuppressMaxSeverity

\* The delivery decision the policy alone makes for a candidate.
DeliveryState(cand) == IF suppress_delivery(cand) THEN "SUPPRESSED" ELSE "FINAL"

\* Mutant: a capture outcome promotes an undelivered finding to the analysts.
PromotingTerminalState(finding) == "FINAL"

terminal_state(finding) ==
    IF finding.state = "FINAL" THEN "FINAL" ELSE DeliveryState(finding.cand)

-----------------------------------------------------------------------------
\* Mutant: revisions count from zero.
ZeroRevision(cand, state, enr) ==
    [cand |-> cand, state |-> state, enr |-> enr, rev |-> 0, evid |-> {}]

Revision(cand, state, enr) ==
    [cand |-> cand, state |-> state, enr |-> enr, rev |-> 1, evid |-> {}]

\* build_finding: the first revision and the route it takes.
build_finding(cand) ==
    IF decide_enrichment(cand) = "metadata_sufficient"
    THEN [finding |-> Revision(cand, DeliveryState(cand), "NOT_REQUIRED"),
          route |-> "final"]
    ELSE IF Confirmed(cand)
    THEN [finding |-> Revision(cand, "FINAL", "PENDING"), route |-> "final_and_capture"]
    ELSE [finding |-> Revision(cand, "CAPTURE_REQUESTED", "REQUIRED"), route |-> "capture"]

\* Mutant: the enriched update reuses the revision of the finding it updates.
UnrevisedEnrichment(finding, result) ==
    [finding EXCEPT
        !.enr = IF result.ok THEN "ENRICHED" ELSE "ENRICHMENT_FAILED",
        !.evid = IF result.ok THEN @ \cup {result.origin} ELSE @,
        !.state = terminal_state(finding)]

apply_enrichment_result(finding, result) ==
    [finding EXCEPT
        !.enr = IF result.ok THEN "ENRICHED" ELSE "ENRICHMENT_FAILED",
        !.evid = IF result.ok THEN @ \cup {result.origin} ELSE @,
        !.state = terminal_state(finding),
        !.rev = @ + 1]

finalize_timeout(finding) ==
    [finding EXCEPT !.state = terminal_state(finding), !.enr = "TIMEOUT", !.rev = @ + 1]
=============================================================================
