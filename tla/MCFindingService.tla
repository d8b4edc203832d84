------------------------- MODULE MCFindingService -------------------------
(***************************************************************************)
(* Small instances of FindingService: two tenants, one finding id, and     *)
(* candidates that take the three routes of build_finding.                 *)
(***************************************************************************)
EXTENDS FindingService

Cand(t, f, det, cat, sev, conf) ==
    [tenant |-> t, fid |-> f, det |-> det, cat |-> cat, ver |-> "1.0",
     sev |-> sev, conf |-> conf]

\* Two tenants whose detectors produce the same finding id: one finding is
\* captured before it is delivered, the other is a confirmed threat.
SharedId ==
    {Cand("default", "f1", "beacon", "c2", 4, 60),
     Cand("acme", "f1", "ids_signature", "c2", 4, 60)}

\* The same with a finding answerable from metadata.
ThreeRoutes == SharedId \cup {Cand("acme", "f2", "beacon", "recon", 4, 60)}

\* The same finding reported twice, the second time with a severity the policy
\* delivers; both reports wait for a capture.
Reported ==
    {Cand("default", "f1", "beacon", "c2", 4, 60),
     Cand("default", "f1", "beacon", "c2", 7, 60)}

OneCapture == {Cand("default", "f1", "beacon", "c2", 7, 60)}
=============================================================================
