---------------------------- MODULE MCCaptureLoop ----------------------------
(***************************************************************************)
(* Small instances of CaptureLoop.                                         *)
(***************************************************************************)
EXTENDS CaptureLoop

Req(id, t, s, p, v, f) ==
    [id |-> id, tenant |-> t, sensor |-> s, profile |-> p, value |-> v, fid |-> f]

\* Two tenants' findings of one id behind one sensor, captured by host.
Pair ==
    {Req(1, "acme", "s1", "ip", "v1", "f1"), Req(2, "globex", "s1", "ip", "v2", "f1")}
=============================================================================
