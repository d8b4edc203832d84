----------------------------- MODULE MCDetectors -----------------------------
(* The detectors that keep their windows in the shared store, and the      *)
(* scanner of carved files: a behaviour is about one of them.              *)
EXTENDS FilePipeline, TLC

CONSTANT FlowReplicas
VARIABLES part,
    redisTime, owner, assigned, position, committed, pc, pending, todo, seen, outbox, emitted, dedup, hash, flFaults,
    moves, lost, unsettled,
    ewNow, stream, ewOwner, ewRead, ewCommitted, sets, obs, index, ewDedup, calls, ewTodo, empty, ewEmitted, crashes,
    ewMoves, errors,
    prNow, input, prRead, prCommitted, hand, kv, prSets, prMoves, counters, prDedup, prEmitted, past, overlap, prCrashes,
    prErrors

Rec(f, b) == [pair |-> "a", flow |-> f, bytes |-> b]
\* A pair whose first flow has sent nothing yet and takes the only field the cap
\* leaves, a second flow refused at the cap, and an interim record that brings the
\* first flow over the threshold.
InterimLog == [p \in {"p1"} |-> <<Rec("f1", 0), Rec("f2", 1), Rec("f1", 2)>>]
\* The replicas of the group are interchangeable.
Symmetry == Permutations(FlowReplicas)
Flow == INSTANCE FlowAggregates WITH
    Replicas <- FlowReplicas, Log <- InterimLog, Window <- 1, FlowCap <- 1, Threshold <- 2, LowFloor <- 1,
    MinConns <- 1, Material <- 1, MinMaterial <- 1, MaxPoll <- 2, MaxTime <- 2, MaxFaults <- 1, MaxMoves <- 1,
    Absent <- None, now <- redisTime, faults <- flFaults
flows == <<redisTime, owner, assigned, position, committed, pc, pending, todo, seen, outbox, emitted, dedup, hash,
           flFaults, moves, lost, unsettled>>

Thresholds == [lat |-> 1, rdp |-> 1, dsts |-> 2, ports |-> 1, spns |-> 2, rc4 |-> 1, spray |-> 2, asrep |-> 1,
               files |-> 1, writes |-> 1, llmnr |-> 2]
Conn(dst, port, ts) == [type |-> "flow", src |-> "s", dst |-> dst, port |-> port, internal |-> TRUE, ts |-> ts]
Krb(sname, cname, ts) == [type |-> "krb5", src |-> "s", tgs |-> TRUE, sname |-> sname, cipher |-> "rc4",
                          failed |-> TRUE, preauthless |-> TRUE, cname |-> cname, ts |-> ts]
Smb(user, file, ts) == [type |-> "smb", src |-> "s", failed |-> TRUE, user |-> user, file |-> file, op |-> "w",
                        signal |-> "", ts |-> ts]
RemoteCall(op) == [type |-> "dcerpc", src |-> "s", dst |-> "d", op |-> op, lateral |-> TRUE, ts |-> -1]
Name(n) == [type |-> "dns", src |-> "s", answer |-> n, ts |-> 0]
\* Names answered one after the other, two remote calls, a flow that belongs to
\* two sets, a ticket request, and a write.
EastStreams == {<<Name("a"), Name("b")>>, <<RemoteCall("create"), RemoteCall("start")>>,
           <<Conn("d", "smb", -1)>>,
           <<Krb("x", "", 0)>>, <<Smb("", "f", 1)>>}
East == INSTANCE EastWest WITH
    Replicas <- {"e1", "e2"}, Streams <- EastStreams, AtLeast <- Thresholds, Window <- 1, Bucket <- 2, MaxTime <- 3, MaxFaults <- 1,
    now <- ewNow, owner <- ewOwner, read <- ewRead, committed <- ewCommitted, dedup <- ewDedup, todo <- ewTodo,
    emitted <- ewEmitted, moves <- ewMoves
east == <<ewNow, stream, ewOwner, ewRead, ewCommitted, sets, obs, index, ewDedup, calls, ewTodo, empty, ewEmitted,
          crashes, ewMoves, errors>>

Ports == [p \in {22, 443} |-> IF p = 22 THEN "ssh" ELSE "tls"]
Names == [staging |-> {"drive"}, doh |-> {"resolver"}, agents |-> {"tool"}]
Eve == [type |-> "tls", src |-> "s", dst |-> "d", port |-> 443, app |-> "", ja4 |-> <<>>, ja3 |-> "", skind |-> "ja4s", server |-> "",
           sni |-> "", cid |-> "", cert |-> [subject |-> "", issuer |-> "", short |-> FALSE], ech |-> FALSE,
           ua |-> "", host |-> "", external |-> TRUE, proto |-> "TCP", bytes |-> 0]
Tls(ac, b) == [Eve EXCEPT !.ja4 = <<ac, b>>]
Quic(ac, b) == [Tls(ac, b) EXCEPT !.type = "quic", !.port = 4433]
IpFlow(proto, n) == [Eve EXCEPT !.type = "flow", !.app = "failed", !.proto = proto, !.bytes = n]
Ssh == [Eve EXCEPT !.type = "ssh", !.port = 22]
Old == [Eve EXCEPT !.ja3 = "j", !.server = "v", !.sni = "resolver", !.cid = "c", !.ech = TRUE, !.cert.short = TRUE]
Odd == [Old EXCEPT !.ja3 = "k", !.sni = "drive", !.type = "quic", !.port = 4433]
Web == [Eve EXCEPT !.type = "http", !.cid = "c", !.host = "site"]

\* A source whose fingerprints come on two topics; one that is slow to mature; records
\* with everything else; attempts and flows between one pair.
Inbound ==
    {[r1 |-> a, r2 |-> b] : <<a, b>> \in
        {<< <<Tls("x", "1")>>, <<Quic("y", "1")>> >>,
         << <<Tls("x", "1"), Tls("x", "1"), Tls("x", "1"), Tls("y", "2")>>, <<>> >>,
         << <<Old, Odd, Web>>, <<>> >>, << <<Ssh, Ssh>>, <<>> >>, << <<IpFlow("TCP", 2), IpFlow("ICMP", 1)>>, <<>> >>}}
Proto == INSTANCE ProtocolDetectors WITH
    Replicas <- {"r1", "r2"}, Inputs <- Inbound, Warmup <- 1, SeenTTL <- 1, MinObservations <- 1, MinSpan <- 1,
    BaselineTTL <- 1, RareMax <- 1, Transition <- 1, MinDistinct <- 2, SniTTL <- 1, Counting <- 1, Sessions <- 2,
    Bytes <- 2, Bucket <- 2, Expected <- Ports, AllowPorts <- {}, Approved <- {}, Lists <- Names,
    MaxTime <- 2, MaxFaults <- 1,
    now <- prNow, read <- prRead, committed <- prCommitted, sets <- prSets, moves <- prMoves, dedup <- prDedup,
    emitted <- prEmitted, crashes <- prCrashes, errors <- prErrors
proto == <<prNow, input, prRead, prCommitted, hand, kv, prSets, prMoves, counters, prDedup, prEmitted, past, overlap,
           prCrashes, prErrors>>

\* A bomb, the file of another tenant, and a file.
Carving(tenant, bytes, announced) == [tenant |-> tenant, data |-> bytes, announced |-> announced]
Carvings == <<Carving("a", "bomb", None), Carving("b", "file", None), Carving("a", "file", "file")>>
Kept == [file |-> [size |-> 1, depth |-> 1, unsafe |-> FALSE], bomb |-> [size |-> 1, depth |-> 3, unsafe |-> FALSE]]
Matching == {<<"base", "file">>, <<"open", "file">>}

ASSUME OtherConstants == Flow!FlowAssumption /\ East!EastWestAssumption /\ Proto!ProtocolAssumption

\* Which replica of two begins makes no difference; the parts that do not run begin anyhow.
MCInit == /\ part \in {"flows", "east", "proto", "rules", "files"}
          /\ Init /\ Flow!Init /\ East!Init /\ Proto!Init
          /\ ewOwner = "e1"
          /\ part # "east" => stream = CHOOSE s \in EastStreams : TRUE
          /\ part # "proto" => input = CHOOSE i \in Inbound : TRUE
\* Two moves of rulesets and one link, or one move and two links.
MCNext == \/ part = "rules" /\ Next /\ Len(links') <= 1 /\ UNCHANGED <<part, flows, east, proto>>
          \/ part = "files" /\ Next /\ Moves' <= 1 /\ UNCHANGED <<part, flows, east, proto>>
          \/ part = "flows" /\ Flow!Next /\ UNCHANGED <<part, vars, east, proto>>
          \/ part = "east" /\ East!Next /\ UNCHANGED <<part, vars, flows, proto>>
          \/ part = "proto" /\ Proto!Next /\ UNCHANGED <<part, vars, flows, east>>
MCSpec == MCInit /\ [][MCNext]_<<part, vars, flows, east, proto>>

\* No candidate reports more bytes than its pair has sent.
NoFalseExfil == Flow!NoFalseExfil
\* Fields hold the last value of their flow once the log is read.
FieldsCurrent == Flow!FieldsCurrent
\* The members a candidate counts are of the last window.
EvidenceFresh == part = "east" => East!EvidenceFresh
\* A candidate is sent once in its bucket.
EmittedOnce == part = "east" => East!EmittedOnce
\* A live set can be found by the next evaluation.
LiveSetsIndexed == part = "east" => East!LiveSetsIndexed
\* A novelty is reported of a mature source and an unknown fingerprint only.
NoveltyJustified == part = "proto" => Proto!NoveltyJustified
\* A new fingerprint of a mature source is reported.
NoveltyReported == part = "proto" => Proto!NoveltyReported
=============================================================================
