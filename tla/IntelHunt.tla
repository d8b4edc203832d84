----------------------------- MODULE IntelHunt -----------------------------
(***************************************************************************)
(* intel-hunt: each POST of a hunt advances it by one page of evidence;    *)
(* the job, its cursor and its hits are rows of one SQLite file.  Evidence *)
(* keeps arriving, reads and saves fail, the client posts again.           *)
(*                                                                         *)
(* An observation is [id, ts, tenant, values]; a request                   *)
(* [hunt, tenant, from, to, size, inds], inds pairs <<type, value>>.       *)
(***************************************************************************)
EXTENDS Integers, FiniteSets

CONSTANTS
    Observations, Requests,
    Stored,             \* the evidence there is at the start
    Supported,          \* dimensions the hunt can match
    MaxWindow,          \* the evidence query's window cap
    LongestHunt,        \* 31 days
    None, MaxFailures   \* bound

\* The row of a job: the request, the cursor, and the indicators that can be matched.
Job == [request : Requests, from : Int, after : Nat, status : {"pending", "complete"},
        inds : SUBSET UNION {r.inds : r \in Requests}]

\* Ids are taken to be unique in the evidence view, a DISTINCT union of five tables over
\* the ids that the observations bring.
HuntAssumption ==
    /\ Stored \subseteq Observations
    /\ \A o \in Observations : DOMAIN o = {"id", "ts", "tenant", "values"} /\ o.id \in Nat \ {0} /\ o.ts \in Int
    /\ \A o, p \in Observations : o.id = p.id => o = p
    /\ \A r \in Requests : /\ DOMAIN r = {"hunt", "tenant", "from", "to", "size", "inds"}
                           /\ r.from \in Int /\ r.to \in Int /\ r.size \in Nat \ {0}
    /\ MaxWindow \in Nat \ {0} /\ MaxFailures \in Nat
    /\ None \notin Requests /\ None \notin Job

VARIABLES
    evidence,   \* the observations stored so far
    jobs,       \* [tenant, hunt] -> [request, from, after, status, inds], or None
    hits,       \* <<tenant, hunt, observation, indicator>>
    serving,    \* the request that holds the store's lock, or None
    started,    \* history: the evidence when a job was first saved
    failures

vars == <<evidence, jobs, hits, serving, started, failures>>

JobKey(r) == [tenant |-> r.tenant, hunt |-> r.hunt]
Keys == {JobKey(r) : r \in Requests}
Earlier(a, b) == a.ts < b.ts \/ (a.ts = b.ts /\ a.id < b.id)

Init ==
    /\ evidence = Stored /\ jobs = [k \in Keys |-> None] /\ hits = {} /\ serving = None
    /\ started = [k \in Keys |-> {}] /\ failures = 0

Arrive(o) ==
    /\ o \in Observations \ evidence
    /\ evidence' = evidence \cup {o}
    /\ UNCHANGED <<jobs, hits, serving, started, failures>>

\* Observation ids start at 1: 0 stands for the empty cursor.
Opened(r) == [request |-> r, from |-> r.from, after |-> 0, status |-> "pending",
              inds |-> {i \in r.inds : i[1] \in Supported}]

\* step, up to the first save: the lock is taken, the job is loaded or recorded.
\* Another request under a known id is refused.
Post(r) ==
    /\ serving = None /\ r.from < r.to /\ r.to - r.from <= LongestHunt
    /\ IF jobs[JobKey(r)] = None
       THEN /\ jobs' = [jobs EXCEPT ![JobKey(r)] = Opened(r)]
            /\ started' = [started EXCEPT ![JobKey(r)] = evidence]
       ELSE jobs[JobKey(r)].request = r /\ UNCHANGED <<jobs, started>>
    /\ jobs'[JobKey(r)].status = "pending"
    /\ serving' = r
    /\ UNCHANGED <<evidence, hits, failures>>

\* Mutant: a page resumes at its time, without the tie.
AfterTime(o, from, after) == IF after = 0 THEN o.ts >= from ELSE o.ts > from
\* The keyset: past the row the cursor names, from the start when it names none.
After(o, from, after) == o.ts > from \/ (o.ts = from /\ o.id > after)

\* The rows of a page that ends with the row last, in the order of the query.
UpTo(rows, last) == {o \in rows : ~Earlier(last, o)}

\* fetch_hunt_page: at most size rows of at most one window.  The cursor is the last row of a
\* page that was cut; there is one such row, as no two have the same id.
Pages(j) ==
    LET until == IF j.request.to < j.from + MaxWindow THEN j.request.to ELSE j.from + MaxWindow
        rows == {o \in evidence : o.tenant = j.request.tenant /\ o.ts < until /\ After(o, j.from, j.after)}
    IN  IF Cardinality(rows) > j.request.size
        THEN {[rows |-> UpTo(rows, last), more |-> TRUE, from |-> last.ts, after |-> last.id] :
                last \in {o \in rows : Cardinality(UpTo(rows, o)) = j.request.size}}
        ELSE {[rows |-> rows, more |-> until < j.request.to, from |-> until, after |-> 0]}

Matches(o, i) == i \in o.values

\* The rest of step: cursor, status and hits are saved in one transaction.
Advance ==
    /\ serving # None
    /\ LET k == JobKey(serving)  j == jobs[k]
       IN  IF j.inds = {} THEN jobs' = [jobs EXCEPT ![k].status = "complete"] /\ UNCHANGED hits
           ELSE \E page \in Pages(j) :
                /\ hits' = hits \cup {<<k.tenant, k.hunt, x[1], x[2]>> :
                              x \in {y \in page.rows \X j.inds : Matches(y[1], y[2])}}
                /\ jobs' = [jobs EXCEPT ![k] =
                     IF page.more THEN [j EXCEPT !.from = page.from, !.after = page.after]
                     ELSE [j EXCEPT !.status = "complete"]]
    /\ serving' = None
    /\ UNCHANGED <<evidence, started, failures>>

\* The read or the save fails, or the process dies: the checkpoint stays.
Fail ==
    /\ serving # None /\ failures < MaxFailures
    /\ failures' = failures + 1 /\ serving' = None
    /\ UNCHANGED <<evidence, jobs, hits, started>>

Next == \/ \E o \in Observations : Arrive(o)
        \/ \E r \in Requests : Post(r)
        \/ Advance \/ Fail

Spec == Init /\ [][Next]_vars
-----------------------------------------------------------------------------
InWindow(o, r) == o.tenant = r.tenant /\ r.from <= o.ts /\ o.ts < r.to

\* Whatever the page size, ties in time, arrivals, failures and other hunts: the hits of a
\* completed hunt are matches of its own tenant inside its window, and none of those
\* that were stored when it began is missing.
HuntExact ==
    \A k \in Keys : jobs[k] # None =>
        LET r == jobs[k].request
            found == {<<h[3], h[4]>> : h \in {x \in hits : x[1] = k.tenant /\ x[2] = k.hunt}}
            due(S) == {x \in S \X jobs[k].inds : InWindow(x[1], r) /\ Matches(x[1], x[2])}
        IN  /\ found \subseteq due(evidence)
            /\ jobs[k].status = "complete" => due(started[k]) \subseteq found
=============================================================================
