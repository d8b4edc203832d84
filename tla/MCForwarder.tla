----------------------------- MODULE MCForwarder -----------------------------
(***************************************************************************)
(* Small instances of Forwarder.                                           *)
(***************************************************************************)
EXTENDS Forwarder

Finding(t, id, rev, state) ==
    [tenant |-> t, kind |-> "finding", id |-> id, rev |-> rev, state |-> state]

\* Two tenants' findings of one id, one of them sent twice by its producer, and
\* a withheld finding in another partition.
SharedTopic ==
    [p0 |-> <<Finding("acme", "f1", 1, "FINAL"), Finding("acme", "f1", 1, "FINAL"),
              Finding("", "f1", 1, "FINAL")>>,
     p1 |-> <<Finding("acme", "f2", 1, "SUPPRESSED")>>]

TwoSinks == <<"es", "file">>
OneSink == <<"es">>

OnePartition ==
    [p0 |-> <<Finding("acme", "f1", 1, "FINAL"), Finding("acme", "f2", 1, "FINAL")>>]
=============================================================================
