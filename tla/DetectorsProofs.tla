-------------------------- MODULE DetectorsProofs --------------------------
(***************************************************************************)
(* Carved files and rulesets, for any events, rulesets, actors and bounds: *)
(* what is committed is linked, what is scanned is accounted for, and only *)
(* promoted rules act.                                                     *)
(*                                                                         *)
(* The east-west detectors, for any streams, replicas, windows and faults: *)
(* what a candidate counts is recent, a candidate is sent once, and a set  *)
(* that has members is on the index.                                       *)
(*                                                                         *)
(* The protocol detectors, for any records, replicas, thresholds and       *)
(* faults: a novelty is reported only when the source's history bears it   *)
(* out, and every novelty that is due is reported.                         *)
(*                                                                         *)
(* The flow aggregates, for any log, replicas, thresholds and faults: no   *)
(* finding claims more bytes than the flows of its pair sent, and settled  *)
(* fields are the last values of their flows.                              *)
(***************************************************************************)
EXTENDS FilePipeline, FiniteSetTheorems, SequenceTheorems, TLAPS

-----------------------------------------------------------------------------
(* file-artifact.                                                          *)

Passing == {n \in 1 .. Len(Events) : Acceptable(Events[n])}
LinkOf(n) == [tenant |-> Events[n].tenant, data |-> Events[n].data, event |-> n]
Held == {Events[n] : n \in 1 .. Len(Events)} \cup {None}
Linked(n) == \E i \in DOMAIN links : links[i].event = n

\* Links are made of acceptable events, the event in hand is the one to be linked, and
\* what was read, and not only what was committed, has its link.
ArtifactInv ==
    /\ carved \in [read : 0 .. Len(Events), committed : Nat, holding : Held]
    /\ carved.committed <= carved.read
    /\ carved.holding # None => /\ carved.read + 1 \in Passing
                                /\ carved.holding = Events[carved.read + 1]
    /\ links \in Seq({LinkOf(n) : n \in Passing})
    /\ \A n \in 1 .. carved.read : n \in Passing => Linked(n)

LEMMA ArtifactInit == Init => ArtifactInv
  BY FileAssumption DEF Init, ArtifactInv, Held

LEMMA ArtifactStep == ArtifactInv /\ [Next]_vars => ArtifactInv'
  <1> SUFFICES ASSUME ArtifactInv, [Next]_vars
               PROVE  ArtifactInv'
    OBVIOUS
  <1> USE FileAssumption
  <1>1. CASE StoreArtifact
    <2> DEFINE n == carved.read + 1
    <2>1. /\ links' = links /\ n \in 1 .. Len(Events) /\ carved.committed <= carved.read
          /\ carved \in [read : 0 .. Len(Events), committed : Nat, holding : Held]
      BY <1>1 DEF StoreArtifact, ArtifactInv
    <2> HIDE DEF n
    <2>2. \A k : Linked(k) => Linked(k)'
      BY <2>1 DEF Linked
    <2>3. \A k \in 1 .. carved.read : k \in Passing => Linked(k)'
      BY <2>2 DEF ArtifactInv
    <2>4. CASE ~Acceptable(Events[n])
      <3>1. carved' = [carved EXCEPT !.read = n] /\ carved.holding = None
        BY <1>1, <2>4 DEF StoreArtifact, n
      <3>2. carved' \in [read : 0 .. Len(Events), committed : Nat, holding : Held]
            /\ carved'.read = n /\ carved'.holding = None /\ carved'.committed <= n
        BY <2>1, <3>1 DEF n
      <3>3. \A k \in 1 .. n : k \in 1 .. carved.read \/ k = n
        BY <2>1 DEF n
      <3>4. \A k \in 1 .. carved'.read : k \in Passing => Linked(k)'
        BY <2>3, <2>4, <3>2, <3>3 DEF Passing
      <3> QED
        BY <2>1, <3>2, <3>4 DEF ArtifactInv
    <2>5. CASE Acceptable(Events[n])
      <3>1. carved' = [carved EXCEPT !.holding = Events[n]] /\ Events[n] \in Held /\ n \in Passing
        BY <1>1, <2>1, <2>5 DEF StoreArtifact, Held, Passing, n
      <3> QED
        BY <2>1, <2>3, <3>1 DEF ArtifactInv, n
    <2> QED
      BY <2>4, <2>5
  <1>2. CASE PublishLink
    <2> DEFINE n == carved.read + 1
    <2>1. n \in Passing /\ carved.holding = Events[n]
      BY <1>2 DEF PublishLink, ArtifactInv
    <2>2. links' = Append(links, LinkOf(n))
      BY <1>2, <2>1 DEF PublishLink, LinkOf
    <2>3. /\ carved'.read = n /\ carved'.holding = None /\ carved'.committed = carved.committed
          /\ carved' \in [read : 0 .. Len(Events), committed : Nat, holding : Held]
      <3>1. n \in 0 .. Len(Events) /\ None \in Held
        BY <2>1 DEF ArtifactInv, Passing, Held
      <3>2. carved' = [carved EXCEPT !.read = n, !.holding = None]
        BY <1>2 DEF PublishLink
      <3> QED
        BY <3>1, <3>2 DEF ArtifactInv
    <2>4. links' \in Seq({LinkOf(k) : k \in Passing})
      BY <2>1, <2>2 DEF ArtifactInv
    <2>5. /\ \A i \in DOMAIN links : i \in DOMAIN links' /\ links'[i] = links[i]
          /\ \E i \in DOMAIN links' : links'[i] = LinkOf(n)
      <3> DEFINE k == Len(links) + 1
      <3>1. /\ Len(links) \in Nat /\ DOMAIN links = 1 .. Len(links) /\ DOMAIN links' = 1 .. k
            /\ links'[k] = LinkOf(n) /\ \A i \in 1 .. Len(links) : links'[i] = links[i]
        BY <2>2 DEF ArtifactInv
      <3> QED
        BY <3>1
    <2>6. \A k \in 1 .. carved'.read : k \in Passing => Linked(k)'
      <3>0. PICK m : m = n
        OBVIOUS
      <3>1. Linked(m)'
        BY <2>5, <3>0 DEF Linked, LinkOf
      <3>2. \A k : Linked(k) => Linked(k)'
        BY <2>5 DEF Linked
      <3>3. \A k \in 1 .. carved'.read : k \in 1 .. carved.read \/ k = m
        BY <2>3, <3>0 DEF ArtifactInv
      <3> QED
        BY <3>1, <3>2, <3>3 DEF ArtifactInv
    <2> QED
      BY <2>1, <2>3, <2>4, <2>6 DEF ArtifactInv, Passing
  <1>3. CASE CommitCarved
    <2>1. /\ carved' = [carved EXCEPT !.committed = carved.read]
          /\ carved.holding = None /\ links' = links
      BY <1>3 DEF CommitCarved
    <2>2. carved' \in [read : 0 .. Len(Events), committed : Nat, holding : Held]
      BY <2>1 DEF ArtifactInv
    <2> QED
      BY <2>1, <2>2 DEF ArtifactInv, Linked
  <1>4. CASE ArtifactCrash
    <2>1. /\ carved' = [carved EXCEPT !.read = carved.committed, !.holding = None]
          /\ links' = links
      BY <1>4 DEF ArtifactCrash
    <2>2. carved.committed \in 0 .. Len(Events) /\ None \in Held
      BY DEF ArtifactInv, Held
    <2>3. carved' \in [read : 0 .. Len(Events), committed : Nat, holding : Held]
      BY <2>1, <2>2 DEF ArtifactInv
    <2> QED
      BY <2>1, <2>2, <2>3 DEF ArtifactInv, Linked
  <1>5. CASE UNCHANGED <<carved, links>>
    BY <1>5 DEF ArtifactInv, Passing, Linked
  <1>6. ASSUME NEW o \in objects, Sweep(o) PROVE UNCHANGED <<carved, links>>
    BY <1>6 DEF Sweep
  <1>7. Registry \/ Yara \/ Tick => UNCHANGED <<carved, links>>
    BY DEF Registry, Yara, Tick, OperatorMoves, StageRemote, BootCheck, BootPromote, BootRefused, RejectLink,
           LinkDangles, Scan, InsertVerdict, EmitFinding, CommitScans, YaraCrash, artifact
  <1> QED
    BY <1>1, <1>2, <1>3, <1>4, <1>5, <1>6, <1>7 DEF Next, Artifacts, vars

\* Every committed event that passes the policy has its link, and a link names the bytes
\* and the tenant of an event that passes (process_one and its commit, whatever is
\* read again after a death).
THEOREM CommittedEventsLinked == Spec => []CommittedLinked
  <1>1. ArtifactInv => CommittedLinked
    <2> SUFFICES ASSUME ArtifactInv PROVE CommittedLinked
      OBVIOUS
    <2>1. \A i \in DOMAIN links : links[i] \in {LinkOf(n) : n \in Passing}
      BY DEF ArtifactInv
    <2>2. \A i \in DOMAIN links : LET ev == Events[links[i].event]
                                  IN  Acceptable(ev) /\ links[i].tenant = ev.tenant /\ links[i].data = ev.data
      BY <2>1 DEF LinkOf, Passing
    <2>3. \A n \in 1 .. carved.committed : Acceptable(Events[n]) => \E i \in DOMAIN links : links[i].event = n
      <3> SUFFICES ASSUME NEW n \in 1 .. carved.committed, Acceptable(Events[n])
                   PROVE  Linked(n)
        BY DEF Linked
      <3>1. carved.committed \in Nat /\ carved.read \in 0 .. Len(Events) /\ carved.committed <= carved.read
        BY DEF ArtifactInv
      <3>2. n \in 1 .. carved.read /\ n \in 1 .. Len(Events)
        BY <3>1, FileAssumption
      <3> QED
        BY <3>2 DEF ArtifactInv, Passing
    <2> QED
      BY <2>2, <2>3 DEF CommittedLinked
  <1> QED
    BY <1>1, ArtifactInit, ArtifactStep, PTL DEF Spec
-----------------------------------------------------------------------------
(* file-yara: scans.                                                       *)

Results == [offset : Nat, ruleset : Rulesets \cup {None}, status : Statuses \cup {None},
            outcome : {"clean", "match", "error", "no_rules"}, killed : BOOLEAN]
Scanner == [stage : {"check", "shadow", "active", "run"}, left : SUBSET Bundled, read : Nat, committed : Nat,
            work : (SUBSET Results) \cup {None}]
Whole(v) == v.outcome \in {"clean", "match"} => ~v.killed
Based(f) == \A b \in f.rules :
    \E v \in verdicts : v.offset = f.offset /\ v.ruleset = b /\ v.status = "active" /\ v.outcome = "match"
Accounted(n) == n \in refused \/ \E v \in verdicts : v.offset = n

\* What is in hand are the results of the next link, at least one; what was read, and
\* not only what was committed, is accounted for.
ScanInv ==
    /\ yara \in Scanner /\ yara.committed <= yara.read
    /\ registry \in [Rulesets -> [source : Sources, status : Statuses] \cup {None}]
    /\ verdicts \subseteq Results
    /\ yara.work # None => /\ yara.work \subseteq Results /\ yara.work # {}
                           /\ \A v \in yara.work : v.offset = yara.read + 1 /\ Whole(v)
    /\ \A n \in 1 .. yara.read : Accounted(n)
    /\ \A v \in verdicts : Whole(v)
    /\ \A f \in findings : Based(f)

\* A process that starts again reads from what is committed, with nothing in hand.
LEMMA RestartedFacts ==
    ASSUME ScanInv
    PROVE  /\ Restarted \in Scanner /\ Restarted.work = None
           /\ Restarted.read = yara.committed /\ Restarted.committed = yara.committed
  BY DEF ScanInv, Restarted, Boot, Scanner

\* The bundled rulesets that are left are bundled.
LEMMA DoneFacts ==
    ASSUME ScanInv
    PROVE  /\ Done \in Scanner /\ Done.work = yara.work
           /\ Done.read = yara.read /\ Done.committed = yara.committed
  <1> DEFINE st == IF yara.left = {Current} THEN "run" ELSE "check"
             l == yara.left \ {Current}
  <1>1. st \in {"check", "run"} /\ l \in SUBSET Bundled
    BY DEF ScanInv, Scanner
  <1>2. Done = [yara EXCEPT !.stage = st, !.left = l]
    BY DEF Done
  <1> HIDE DEF st, l
  <1> QED
    BY <1>1, <1>2 DEF ScanInv, Scanner

\* A change of the scanner's state that neither reads nor takes work.
LEMMA ScannerMoves ==
    ASSUME ScanInv, yara' \in Scanner, yara'.committed = yara.committed,
           \/ yara'.read = yara.read /\ yara'.work = yara.work
           \/ yara'.read = yara.committed /\ yara'.work = None,
           UNCHANGED <<verdicts, findings, refused>>,
           registry' \in [Rulesets -> [source : Sources, status : Statuses] \cup {None}]
    PROVE  ScanInv'
  <1>1. \A n \in 1 .. yara'.read : Accounted(n)'
    BY DEF ScanInv, Scanner, Accounted
  <1>2. yara'.committed <= yara'.read
    BY DEF ScanInv, Scanner
  <1>3. \A f \in findings' : Based(f)'
    BY DEF ScanInv, Based
  <1>4. yara'.work # None => /\ yara'.work \subseteq Results /\ yara'.work # {}
                             /\ \A v \in yara'.work : v.offset = yara'.read + 1 /\ Whole(v)
    BY DEF ScanInv
  <1> QED
    BY <1>1, <1>2, <1>3, <1>4 DEF ScanInv

\* What the registry's operations leave is a registry.
LEMMA RegistryType ==
    ASSUME registry \in [Rulesets -> [source : Sources, status : Statuses] \cup {None}], NEW b \in Rulesets
    PROVE  /\ \A source \in Sources : RegisterDraft(b, source) =>
                registry' \in [Rulesets -> [source : Sources, status : Statuses] \cup {None}]
           /\ \A to \in Statuses : \A actor, auth : promote(b, to, actor, auth) =>
                registry' \in [Rulesets -> [source : Sources, status : Statuses] \cup {None}]
  <1>1. \A source \in Sources : [source |-> source, status |-> "draft"] \in [source : Sources, status : Statuses]
    BY DEF Statuses
  <1>2. ASSUME NEW to \in Statuses, registry[b] # None
        PROVE  [registry[b] EXCEPT !.status = to] \in [source : Sources, status : Statuses]
    BY <1>2
  <1> QED
    BY <1>1, <1>2 DEF RegisterDraft, promote

LEMMA ScanInit == Init => ScanInv
  <1> SUFFICES ASSUME Init PROVE ScanInv
    OBVIOUS
  <1>1. yara \in Scanner /\ yara.read = 0 /\ yara.committed = 0 /\ yara.work = None
    BY DEF Init, Boot, Scanner
  <1> QED
    BY <1>1 DEF Init, ScanInv

\* What a scan takes in hand are results, at least one.
LEMMA ScanTakes ==
    ASSUME ScanInv, Scan
    PROVE  /\ yara' = [yara EXCEPT !.work = yara'.work]
           /\ yara'.work \subseteq Results /\ yara'.work # {}
           /\ \A v \in yara'.work : v.offset = yara.read + 1 /\ Whole(v)
           /\ \A v \in yara'.work : v.outcome = "match" => v.ruleset \in Rulesets /\ v.status = registry[v.ruleset].status
  <1>1. PICK killed : yara' = [yara EXCEPT !.work = Scanned(killed)]
    BY DEF Scan
  <1>2. ASSUME NEW b \in Rulesets, Served(b)
        PROVE  /\ Result(b, killed) \in Results /\ Whole(Result(b, killed))
               /\ Result(b, killed).status = registry[b].status
               /\ Result(b, killed).offset = yara.read + 1 /\ Result(b, killed).ruleset = b
    <2>1. Outcome(b, Link.data, b \in killed) \in {"clean", "match", "error"}
      BY DEF Outcome, ChildResult
    <2>2. b \in killed => Outcome(b, Link.data, b \in killed) = "error"
      BY DEF Outcome
    <2>3. registry[b].status \in Statuses /\ yara.read + 1 \in Nat
      BY <1>2 DEF ScanInv, Served, Scanner
    <2>4. (b \in killed) \in BOOLEAN
      OBVIOUS
    <2> QED
      BY <2>1, <2>2, <2>3, <2>4 DEF Results, Whole, Result
  <1>3. NoRules \in Results /\ Whole(NoRules) /\ NoRules.offset = yara.read + 1 /\ NoRules.outcome = "no_rules"
    BY DEF Results, Whole, ScanInv, Scanner, NoRules
  <1>4. yara'.work = Scanned(killed) /\ yara' = [yara EXCEPT !.work = yara'.work]
    BY <1>1 DEF ScanInv, Scanner
  <1>5. \A v \in Scanned(killed) :
           /\ v \in Results /\ v.offset = yara.read + 1 /\ Whole(v)
           /\ v.outcome = "match" => v.ruleset \in Rulesets /\ v.status = registry[v.ruleset].status
    <2>1. \A v \in Scanned(killed) : v = NoRules \/ \E b \in Rulesets : Served(b) /\ v = Result(b, killed)
      BY DEF Scanned
    <2> QED
      BY <1>2, <1>3, <2>1
  <1>6. Scanned(killed) # {}
    BY DEF Scanned
  <1> QED
    BY <1>4, <1>5, <1>6

LEMMA ScanStep == ScanInv /\ [Next]_vars => ScanInv'
  <1> SUFFICES ASSUME ScanInv, [Next]_vars
               PROVE  ScanInv'
    OBVIOUS
  <1> DEFINE Registries == [Rulesets -> [source : Sources, status : Statuses] \cup {None}]
  <1>0. /\ yara \in Scanner /\ registry \in Registries
        /\ yara.left # {} => Current \in Bundled /\ Current \in Rulesets
    BY DEF ScanInv, Scanner, Current, Rulesets
  <1>1. ASSUME NEW b \in Rulesets, NEW to \in {"shadow", "active", "retired"}, NEW a, OperatorMoves(b, to, a)
        PROVE  ScanInv'
    <2>1. registry' \in Registries
      BY <1>0, <1>1, RegistryType DEF OperatorMoves, Statuses
    <2> QED
      BY <1>0, <1>1, <2>1, ScannerMoves DEF OperatorMoves, scanner
  <1>2. ASSUME NEW b \in Remote, StageRemote(b)
        PROVE  ScanInv'
    <2>1. registry' \in Registries
      BY <1>0, <1>2, RegistryType DEF StageRemote, Rulesets, Sources
    <2> QED
      BY <1>0, <1>2, <2>1, ScannerMoves DEF StageRemote, scanner
  <1>3. CASE BootCheck
    <2>1. registry' \in Registries
      BY <1>0, <1>3, RegistryType DEF BootCheck, Booting, Sources, rules
    <2>2. yara' \in {yara, [yara EXCEPT !.stage = "shadow"], Done}
      BY <1>3 DEF BootCheck
    <2>3. /\ [yara EXCEPT !.stage = "shadow"] \in Scanner
          /\ \A f \in {"read", "committed", "work"} : [yara EXCEPT !.stage = "shadow"][f] = yara[f]
      BY <1>0 DEF Scanner
    <2> QED
      BY <1>0, <1>3, <2>1, <2>2, <2>3, DoneFacts, ScannerMoves DEF BootCheck
  <1>4. CASE BootPromote
    <2>1. registry' \in Registries
      <3>1. yara.stage \in Statuses /\ Current \in Rulesets /\ promote(Current, yara.stage, Baseline, TRUE)
        BY <1>0, <1>4 DEF BootPromote, Booting, Statuses
      <3> QED
        BY <1>0, <3>1, RegistryType
    <2>2. yara' \in {[yara EXCEPT !.stage = "active"], Done}
      BY <1>4 DEF BootPromote
    <2>3. /\ [yara EXCEPT !.stage = "active"] \in Scanner
          /\ \A f \in {"read", "committed", "work"} : [yara EXCEPT !.stage = "active"][f] = yara[f]
      BY <1>0 DEF Scanner
    <2> QED
      BY <1>0, <1>4, <2>1, <2>2, <2>3, DoneFacts, ScannerMoves DEF BootPromote
  <1>5. CASE BootRefused \/ LinkDangles \/ YaraCrash
    BY <1>0, <1>5, RestartedFacts, ScannerMoves DEF BootRefused, LinkDangles, YaraCrash, rules
  <1>6. CASE RejectLink
    <2>1. /\ yara' = [yara EXCEPT !.read = yara.read + 1] /\ yara.work = None
          /\ refused' = refused \cup {yara.read + 1}
          /\ UNCHANGED <<registry, verdicts, findings>>
      BY <1>6 DEF RejectLink, Rejected, rules
    <2>2. /\ yara' \in Scanner /\ yara'.work = None /\ yara'.committed = yara.committed
          /\ yara'.read = yara.read + 1
      BY <1>0, <2>1 DEF Scanner
    <2>3. \A n \in 1 .. yara'.read : Accounted(n)'
      BY <1>0, <2>1, <2>2 DEF ScanInv, Scanner, Accounted
    <2> QED
      BY <1>0, <2>1, <2>2, <2>3 DEF ScanInv, Based, Scanner
  <1>7. CASE Scan
    <2>1. /\ UNCHANGED <<registry, verdicts, findings, refused>>
          /\ yara' = [yara EXCEPT !.work = yara'.work]
          /\ yara'.work \subseteq Results /\ yara'.work # {}
          /\ \A v \in yara'.work : v.offset = yara.read + 1 /\ Whole(v)
      BY <1>7, ScanTakes DEF Scan, rules
    <2>2. yara' \in Scanner /\ yara'.read = yara.read /\ yara'.committed = yara.committed
      BY <1>0, <2>1 DEF Scanner
    <2> QED
      BY <2>1, <2>2 DEF ScanInv, Based, Accounted
  <1>8. CASE InsertVerdict
    <2>1. PICK v \in yara.work : verdicts' = verdicts \cup {v}
      BY <1>8 DEF InsertVerdict, Unwritten
    <2>2. UNCHANGED <<yara, registry, findings, refused>>
      BY <1>8 DEF InsertVerdict, rules
    <2>3. yara.work # None
      BY <1>8 DEF InsertVerdict
    <2> QED
      BY <2>1, <2>2, <2>3 DEF ScanInv, Based, Accounted
  <1>9. CASE EmitFinding
    <2>1. /\ yara.work # None /\ yara.work \subseteq verdicts
          /\ yara' = [yara EXCEPT !.work = None, !.read = yara.read + 1]
          /\ UNCHANGED <<registry, verdicts, refused>>
      BY <1>9 DEF EmitFinding, Unwritten, rules
    <2>2. /\ yara' \in Scanner /\ yara'.work = None /\ yara'.committed = yara.committed
          /\ yara'.read = yara.read + 1
      <3> DEFINE n == yara.read + 1
      <3>1. n \in Nat /\ None \in (SUBSET Results) \cup {None}
        BY <1>0 DEF Scanner
      <3>2. yara' = [yara EXCEPT !.work = None, !.read = n]
        BY <2>1
      <3> HIDE DEF n
      <3>3. /\ yara' \in Scanner /\ yara'.work = None /\ yara'.committed = yara.committed /\ yara'.read = n
        BY <1>0, <3>1, <3>2 DEF Scanner
      <3> QED
        BY <3>3 DEF n
    <2>3. \A n \in 1 .. yara'.read : Accounted(n)'
      BY <1>0, <2>1, <2>2 DEF ScanInv, Scanner, Accounted
    <2>4. \A f \in findings' : Based(f)'
      <3>1. ASSUME NEW f, f = [offset |-> yara.read + 1,
                               rules |-> {v.ruleset : v \in {w \in yara.work : Acted(w)}}]
            PROVE  Based(f)
        <4> SUFFICES ASSUME NEW b \in f.rules
                     PROVE  \E v \in verdicts : /\ v.offset = f.offset /\ v.ruleset = b
                                                /\ v.status = "active" /\ v.outcome = "match"
          BY DEF Based
        <4>1. PICK v \in yara.work : Acted(v) /\ b = v.ruleset
          BY <3>1
        <4> QED
          BY <2>1, <3>1, <4>1 DEF ScanInv, Acted
      <3>2. \A f \in findings : Based(f)
        BY DEF ScanInv
      <3>3. \A f \in findings' : Based(f)
        BY <1>9, <3>1, <3>2 DEF EmitFinding
      <3> QED
        BY <2>1, <3>3 DEF Based
    <2> QED
      BY <1>0, <2>1, <2>2, <2>3, <2>4 DEF ScanInv, Scanner
  <1>10. CASE CommitScans
    <2>1. /\ yara' = [yara EXCEPT !.committed = yara.read] /\ yara.work = None
          /\ UNCHANGED <<registry, verdicts, findings, refused>>
      BY <1>10 DEF CommitScans, rules
    <2>2. yara' \in Scanner /\ yara'.work = None /\ yara'.read = yara.read /\ yara'.committed = yara.read
      BY <1>0, <2>1 DEF Scanner
    <2> QED
      BY <1>0, <2>1, <2>2 DEF ScanInv, Based, Accounted, Scanner
  <1>11. CASE Artifacts \/ Tick \/ UNCHANGED vars
    <2>1. UNCHANGED <<yara, registry, verdicts, findings, refused>>
      BY <1>11 DEF Artifacts, Tick, vars, StoreArtifact, PublishLink, CommitCarved, ArtifactCrash, Sweep, scanner, rules
    <2> QED
      BY <1>0, <2>1, ScannerMoves
  <1> QED
    BY <1>1, <1>2, <1>3, <1>4, <1>5, <1>6, <1>7, <1>8, <1>9, <1>10, <1>11 DEF Next, Registry, Yara

\* A committed link has a stored verdict or was refused for good, a verdict of clean or
\* match is of a child that ran to its end, and findings rest on stored verdicts
\* (scan_bytes, the inserts and the commit, wherever file-yara dies).
THEOREM EveryScanAccounted == Spec => []ScansAccounted
  <1>1. ScanInv => ScansAccounted
    BY DEF ScanInv, Scanner, ScansAccounted, Accounted, Whole, Based
  <1> QED
    BY <1>1, ScanInit, ScanStep, PTL DEF Spec
-----------------------------------------------------------------------------
(* The ruleset registry.                                                   *)

Entries == [actor : Actors \cup {Baseline, None}, event : {"registered", "promoted", "promotion_denied", "retired"},
            from : Statuses \cup {None}, to : Statuses]
Trails == [Rulesets -> Seq(Entries)]
Retired(b) == \E i \in Moved(b) : audit[b][i].to = "retired"
Admitted(b) == \E i \in Moved(b) : audit[b][i].actor \in Authorized

\* One ruleset and its audit trail: the last move that was not denied says where it
\* stands, and it is active, served or retired for a reason that is on record.
RuleOk(b) ==
    /\ registry[b] # None => \E m \in Moved(b) : /\ \A j \in Moved(b) : j <= m
                                                 /\ audit[b][m].to = registry[b].status
    /\ Retired(b) => registry[b] # None /\ registry[b].status = "retired"
    /\ b \in Remote \ Bundled /\ Served(b) => Admitted(b)
    /\ registry[b] # None /\ registry[b].status = "active" => PromotedTo(b, "active")

\* What acts was active when it was scanned, so its promotion is on record, also when
\* it has been moved on since.
RuleInv ==
    /\ audit \in Trails
    /\ \A b \in Rulesets : RuleOk(b)
    /\ yara.work # None => \A v \in yara.work : Acted(v) => v.ruleset \in Rulesets /\ PromotedTo(v.ruleset, "active")
    /\ \A f \in findings : \A b \in f.rules : b \in Rulesets /\ PromotedTo(b, "active")

\* What one more entry does to a trail.
LEMMA TrailGrows ==
    ASSUME audit \in Trails, NEW b \in Rulesets, NEW e \in Entries,
           audit' = [audit EXCEPT ![b] = Append(@, e)]
    PROVE  /\ audit' \in Trails
           /\ \A c \in Rulesets \ {b} : audit'[c] = audit[c]
           /\ Moved(b) \subseteq 1 .. Len(audit[b]) /\ Len(audit[b]) \in Nat
           /\ \A i \in Moved(b) : i \in Moved(b)' /\ audit'[b][i] = audit[b][i]
           /\ \A i \in Moved(b)' : i \in Moved(b) \/ (i = Len(audit[b]) + 1 /\ e.event # "promotion_denied")
           /\ e.event # "promotion_denied" => Len(audit[b]) + 1 \in Moved(b)'
           /\ audit'[b][Len(audit[b]) + 1] = e
  <1>1. audit[b] \in Seq(Entries) /\ audit'[b] = Append(audit[b], e)
    BY DEF Trails
  <1>2. audit' \in Trails /\ \A c \in Rulesets \ {b} : audit'[c] = audit[c]
    BY <1>1 DEF Trails
  <1>3. /\ DOMAIN audit[b] = 1 .. Len(audit[b]) /\ Len(audit[b]) \in Nat
        /\ DOMAIN audit'[b] = 1 .. Len(audit[b]) + 1
        /\ \A i \in 1 .. Len(audit[b]) : audit'[b][i] = audit[b][i]
        /\ audit'[b][Len(audit[b]) + 1] = e
    BY <1>1
  <1>4. \A i \in 1 .. Len(audit[b]) : i \in Moved(b)' <=> i \in Moved(b)
    <2> SUFFICES ASSUME NEW i \in 1 .. Len(audit[b]) PROVE i \in Moved(b)' <=> i \in Moved(b)
      OBVIOUS
    <2>1. audit'[b][i] = audit[b][i] /\ i \in DOMAIN audit[b] /\ i \in DOMAIN audit'[b]
      BY <1>3
    <2> QED
      BY <2>1, Zenon DEF Moved
  <1>5. Len(audit[b]) + 1 \in Moved(b)' <=> e.event # "promotion_denied"
    <2>1. Len(audit[b]) + 1 \in DOMAIN audit'[b]
      BY <1>3
    <2> QED
      BY <1>3, <2>1, Zenon DEF Moved
  <1>6. Moved(b) \subseteq 1 .. Len(audit[b]) /\ Moved(b)' \subseteq 1 .. Len(audit[b]) + 1
    BY <1>3 DEF Moved
  <1>7. \A i \in Moved(b) : i \in Moved(b)' /\ audit'[b][i] = audit[b][i]
    BY <1>3, <1>4, <1>6
  <1>8. \A i \in Moved(b)' : i \in Moved(b) \/ i = Len(audit[b]) + 1
    BY <1>3, <1>4, <1>6
  <1>9. \A i \in Moved(b)' : i \in Moved(b) \/ (i = Len(audit[b]) + 1 /\ e.event # "promotion_denied")
    BY <1>5, <1>8
  <1> QED
    BY <1>2, <1>3, <1>5, <1>6, <1>7, <1>9

\* A promotion that is on record stays there.
LEMMA PromotionStands ==
    ASSUME audit \in Trails, NEW b \in Rulesets, NEW e \in Entries,
           audit' = [audit EXCEPT ![b] = Append(@, e)],
           NEW c \in Rulesets, PromotedTo(c, "active")
    PROVE  PromotedTo(c, "active")'
  <1>1. CASE c = b
    <2>1. \A i \in Moved(b) : i \in Moved(b)' /\ audit'[b][i] = audit[b][i]
      BY TrailGrows
    <2> QED
      BY <1>1, <2>1 DEF PromotedTo
  <1>2. CASE c # b
    <2>1. audit'[c] = audit[c]
      BY <1>2, TrailGrows
    <2> QED
      BY <2>1 DEF PromotedTo, Moved
  <1> QED
    BY <1>1, <1>2

\* A ruleset that is left alone.
LEMMA RuleKept ==
    ASSUME NEW c, RuleOk(c), audit'[c] = audit[c], registry'[c] = registry[c]
    PROVE  RuleOk(c)'
  BY DEF RuleOk, Moved, Retired, Admitted, Served, PromotedTo

\* register_draft of bytes without a row.
LEMMA DraftKeeps ==
    ASSUME audit \in Trails, registry \in [Rulesets -> [source : Sources, status : Statuses] \cup {None}],
           \A c \in Rulesets : RuleOk(c),
           NEW b \in Rulesets, registry[b] = None, NEW source \in Sources, RegisterDraft(b, source)
    PROVE  /\ audit' \in Trails /\ \A c \in Rulesets : RuleOk(c)'
           /\ \A c \in Rulesets : PromotedTo(c, "active") => PromotedTo(c, "active")'
  <1> DEFINE e == Audited(None, "registered", None, "draft")
  <1>1. e \in Entries /\ e.to = "draft" /\ e.event # "promotion_denied"
    BY DEF Entries, Statuses, Audited
  <1>2. audit' = [audit EXCEPT ![b] = Append(@, e)]
    BY DEF RegisterDraft
  <1>3. registry'[b].status = "draft" /\ \A c \in Rulesets \ {b} : registry'[c] = registry[c]
    BY DEF RegisterDraft
  <1> HIDE DEF e
  <1>4. \A c \in Rulesets \ {b} : RuleOk(c)'
    BY <1>1, <1>2, <1>3, TrailGrows, RuleKept
  <1>5. ~Retired(b)
    BY DEF RuleOk
  <1>6. RuleOk(b)'
    <2> DEFINE n == Len(audit[b]) + 1
    <2>0. /\ Moved(b) \subseteq 1 .. Len(audit[b]) /\ Len(audit[b]) \in Nat
          /\ \A i \in Moved(b) : audit'[b][i] = audit[b][i]
          /\ \A i \in Moved(b)' : i \in Moved(b) \/ i = n
          /\ n \in Moved(b)' /\ audit'[b][n] = e
      BY <1>1, <1>2, TrailGrows
    <2>1. \E m \in Moved(b)' : (\A j \in Moved(b)' : j <= m) /\ audit'[b][m].to = registry'[b].status
      <3>1. \A j \in Moved(b)' : j <= n
        BY <2>0
      <3> QED
        BY <1>1, <1>3, <2>0, <3>1
    <2>2. ~Retired(b)'
      BY <1>1, <1>5, <2>0 DEF Retired
    <2> QED
      BY <1>3, <2>1, <2>2 DEF RuleOk, Served
  <1> QED
    BY <1>1, <1>2, <1>4, <1>6, TrailGrows, PromotionStands

\* promote by whoever may, or may not, do it.
LEMMA PromoteKeeps ==
    ASSUME audit \in Trails, registry \in [Rulesets -> [source : Sources, status : Statuses] \cup {None}],
           \A c \in Rulesets : RuleOk(c),
           NEW b \in Rulesets, NEW to \in {"shadow", "active", "retired"}, NEW actor \in Actors \cup {Baseline},
           NEW auth \in BOOLEAN, promote(b, to, actor, auth),
           auth => actor \in Authorized \cup {Baseline},
           auth /\ b \in Remote \ Bundled => actor \in Authorized
    PROVE  /\ audit' \in Trails /\ \A c \in Rulesets : RuleOk(c)'
           /\ \A c \in Rulesets : PromotedTo(c, "active") => PromotedTo(c, "active")'
  <1> DEFINE e == Audited(actor, MoveEvent(to, auth), registry[b].status, to)
             n == Len(audit[b]) + 1
  <1>0. registry[b] # None /\ registry[b] \in [source : Sources, status : Statuses] /\ registry[b].status # "retired"
    BY DEF promote, Transitions
  <1>1. /\ e \in Entries /\ e.to = to /\ e.actor = actor
        /\ auth => e.event # "promotion_denied"
        /\ ~auth => e.event = "promotion_denied"
    BY <1>0 DEF Entries, Statuses, Audited, MoveEvent
  <1>2. audit' = [audit EXCEPT ![b] = Append(@, e)]
    BY DEF promote
  <1> HIDE DEF e
  <1>3. \A c \in Rulesets \ {b} : registry'[c] = registry[c]
    BY DEF promote
  <1>4. \A c \in Rulesets \ {b} : RuleOk(c)'
    BY <1>1, <1>2, <1>3, TrailGrows, RuleKept
  <1>5. /\ Moved(b) \subseteq 1 .. Len(audit[b]) /\ Len(audit[b]) \in Nat
        /\ \A i \in Moved(b) : i \in Moved(b)' /\ audit'[b][i] = audit[b][i]
        /\ \A i \in Moved(b)' : i \in Moved(b) \/ (i = n /\ e.event # "promotion_denied")
        /\ e.event # "promotion_denied" => n \in Moved(b)'
        /\ audit'[b][n] = e
    BY <1>1, <1>2, TrailGrows
  <1>6. RuleOk(b)
    OBVIOUS
  <1>7. ~Retired(b)
    BY <1>0, <1>6 DEF RuleOk
  <1>8. CASE auth
    <2>1. registry'[b] # None /\ registry'[b].status = to
      <3>1. registry'[b] = [registry[b] EXCEPT !.status = to]
        BY <1>8 DEF promote
      <3>2. registry'[b] \in [source : Sources, status : Statuses] /\ registry'[b].status = to
        BY <1>0, <3>1 DEF Statuses
      <3> QED
        BY <3>2, FileAssumption
    <2>2. n \in Moved(b)' /\ audit'[b][n] = e /\ \A j \in Moved(b)' : j <= n
      BY <1>1, <1>5, <1>8
    <2>3. Retired(b)' => to = "retired"
      BY <1>1, <1>5, <1>7 DEF Retired
    <2>4. b \in Remote \ Bundled => Admitted(b)'
      BY <1>1, <1>8, <2>2 DEF Admitted
    <2>5. to = "active" => PromotedTo(b, "active")'
      BY <1>1, <1>8, <2>2 DEF PromotedTo
    <2>6. \E m \in Moved(b)' : (\A j \in Moved(b)' : j <= m) /\ audit'[b][m].to = registry'[b].status
      BY <1>1, <2>1, <2>2
    <2> QED
      BY <1>4, <1>1, <1>2, <2>1, <2>3, <2>4, <2>5, <2>6, TrailGrows, PromotionStands, ZenonT(40) DEF RuleOk
  <1>9. CASE ~auth
    <2>1. registry' = registry
      BY <1>9 DEF promote
    <2>2. Moved(b)' = Moved(b) /\ \A i \in Moved(b) : audit'[b][i] = audit[b][i]
      BY <1>1, <1>5, <1>9
    <2>3. RuleOk(b)'
      BY <1>6, <2>1, <2>2 DEF RuleOk, Retired, Admitted, PromotedTo, Served
    <2> QED
      BY <1>1, <1>2, <1>4, <2>3, TrailGrows, PromotionStands
  <1> QED
    BY <1>8, <1>9

LEMMA RuleInit == Init => RuleInv
  <1> SUFFICES ASSUME Init PROVE RuleInv
    OBVIOUS
  <1>1. audit \in Trails /\ \A b \in Rulesets : registry[b] = None /\ Moved(b) = {}
    BY DEF Init, Trails, Moved
  <1>2. \A b \in Rulesets : RuleOk(b)
    BY <1>1 DEF RuleOk, Retired, Served
  <1>3. yara.work = None /\ findings = {}
    BY DEF Init, Boot
  <1> QED
    BY <1>1, <1>2, <1>3 DEF RuleInv

\* Steps that leave the registry alone and take no work in hand.
LEMMA RulesApart ==
    ASSUME RuleInv, UNCHANGED <<registry, audit>>,
           yara'.work \in {yara.work, None}, findings' = findings
    PROVE  RuleInv'
  <1>1. \A b : RuleOk(b)' <=> RuleOk(b)
    BY DEF RuleOk, Moved, Retired, Admitted, Served, PromotedTo
  <1>2. \A b : PromotedTo(b, "active")' <=> PromotedTo(b, "active")
    BY DEF PromotedTo, Moved
  <1> QED
    BY <1>1, <1>2 DEF RuleInv

\* Steps that change the registry.
LEMMA RulesMove ==
    ASSUME RuleInv, audit' \in Trails, \A b \in Rulesets : RuleOk(b)',
           \A b \in Rulesets : PromotedTo(b, "active") => PromotedTo(b, "active")',
           yara'.work = yara.work, findings' = findings
    PROVE  RuleInv'
  BY DEF RuleInv

LEMMA RuleStep == ScanInv /\ RuleInv /\ [Next]_vars => RuleInv'
  <1> SUFFICES ASSUME ScanInv, RuleInv, [Next]_vars
               PROVE  RuleInv'
    OBVIOUS
  <1>0. /\ yara \in Scanner /\ registry \in [Rulesets -> [source : Sources, status : Statuses] \cup {None}]
        /\ audit \in Trails /\ \A b \in Rulesets : RuleOk(b)
        /\ yara.left # {} => Current \in Bundled /\ Current \in Rulesets
    BY DEF ScanInv, RuleInv, Scanner, Current, Rulesets
  <1>1. ASSUME NEW b \in Rulesets, NEW to \in {"shadow", "active", "retired"}, NEW a \in Actors,
               OperatorMoves(b, to, a)
        PROVE  RuleInv'
    <2> DEFINE auth == a \in Authorized
    <2>1. promote(b, to, a, auth) /\ UNCHANGED <<yara, findings>>
      BY <1>1 DEF OperatorMoves, scanner
    <2>2. auth \in BOOLEAN /\ (auth => a \in Authorized) /\ a \in Actors \cup {Baseline}
      OBVIOUS
    <2> HIDE DEF auth
    <2>3. /\ audit' \in Trails /\ \A c \in Rulesets : RuleOk(c)'
          /\ \A c \in Rulesets : PromotedTo(c, "active") => PromotedTo(c, "active")'
      BY <1>0, <2>1, <2>2, PromoteKeeps
    <2> QED
      BY <2>1, <2>3, RulesMove
  <1>2. ASSUME NEW b \in Remote, StageRemote(b)
        PROVE  RuleInv'
    <2>1. /\ b \in Rulesets /\ "rules-refresh" \in Sources /\ registry[b] = None
          /\ RegisterDraft(b, "rules-refresh") /\ UNCHANGED <<yara, findings>>
      BY <1>2 DEF StageRemote, Rulesets, Sources, scanner
    <2> QED
      BY <1>0, <2>1, DraftKeeps, RulesMove
  <1>3. CASE BootCheck
    <2>1. yara'.work = yara.work /\ findings' = findings
      <3>1. yara' \in {yara, [yara EXCEPT !.stage = "shadow"], Done} /\ findings' = findings
        BY <1>3 DEF BootCheck
      <3>2. [yara EXCEPT !.stage = "shadow"].work = yara.work
        BY <1>0 DEF Scanner
      <3> QED
        BY <3>1, <3>2, DoneFacts
    <2>2. CASE registry[Current] = None
      <3>1. /\ Current \in Rulesets /\ "bundled-image" \in Sources
            /\ RegisterDraft(Current, "bundled-image")
        BY <1>0, <1>3, <2>2 DEF BootCheck, Booting, Sources
      <3> QED
        BY <1>0, <2>1, <2>2, <3>1, DraftKeeps, RulesMove
    <2>3. CASE registry[Current] # None
      BY <1>3, <2>1, <2>3, RulesApart DEF BootCheck, rules
    <2> QED
      BY <2>2, <2>3
  <1>4. CASE BootPromote
    <2>1. yara'.work = yara.work /\ findings' = findings
      <3>1. yara' \in {[yara EXCEPT !.stage = "active"], Done} /\ findings' = findings
        BY <1>4 DEF BootPromote
      <3>2. [yara EXCEPT !.stage = "active"].work = yara.work
        BY <1>0 DEF Scanner
      <3> QED
        BY <3>1, <3>2, DoneFacts
    <2>2. /\ Current \in Rulesets /\ Current \notin Remote \ Bundled
          /\ yara.stage \in {"shadow", "active", "retired"}
          /\ promote(Current, yara.stage, Baseline, TRUE)
      BY <1>0, <1>4 DEF BootPromote, Booting
    <2>3. TRUE \in BOOLEAN /\ Baseline \in Actors \cup {Baseline} /\ Baseline \in Authorized \cup {Baseline}
      OBVIOUS
    <2>4. /\ audit' \in Trails /\ \A c \in Rulesets : RuleOk(c)'
          /\ \A c \in Rulesets : PromotedTo(c, "active") => PromotedTo(c, "active")'
      BY <1>0, <2>2, <2>3, PromoteKeeps
    <2> QED
      BY <2>1, <2>4, RulesMove
  <1>5. CASE BootRefused \/ LinkDangles \/ YaraCrash
    BY <1>5, RestartedFacts, RulesApart DEF BootRefused, LinkDangles, YaraCrash, rules
  <1>6. CASE RejectLink \/ CommitScans \/ InsertVerdict
    <2>1. yara' \in {yara, [yara EXCEPT !.read = yara.read + 1], [yara EXCEPT !.committed = yara.read]}
      BY <1>6 DEF RejectLink, Rejected, CommitScans, InsertVerdict
    <2>2. yara'.work = yara.work
      BY <1>0, <2>1 DEF Scanner
    <2> QED
      BY <1>6, <2>2, RulesApart DEF RejectLink, CommitScans, InsertVerdict, rules
  <1>7. CASE Scan
    <2>1. UNCHANGED <<registry, audit, findings>>
      BY <1>7 DEF Scan, rules
    <2>2. \A v \in yara'.work : v.outcome = "match" => v.ruleset \in Rulesets /\ v.status = registry[v.ruleset].status
      BY <1>7, ScanTakes
    <2>3. \A v \in yara'.work : v.outcome = "match" => registry[v.ruleset] # None
      <3> SUFFICES ASSUME NEW v \in yara'.work, v.outcome = "match" PROVE registry[v.ruleset] # None
        OBVIOUS
      <3>1. PICK killed : yara' = [yara EXCEPT !.work = Scanned(killed)]
        BY <1>7 DEF Scan
      <3>2. v \in Scanned(killed)
        BY <1>0, <3>1 DEF Scanner
      <3>3. NoRules.outcome = "no_rules"
        BY DEF NoRules
      <3>4. PICK b \in Rulesets : Served(b) /\ v = Result(b, killed)
        BY <3>2, <3>3 DEF Scanned
      <3> QED
        BY <3>4 DEF Result, Served
    <2>4. \A b \in Rulesets : registry[b] # None /\ registry[b].status = "active" => PromotedTo(b, "active")
      BY <1>0 DEF RuleOk
    <2>5. \A v \in yara'.work : Acted(v) => v.ruleset \in Rulesets /\ PromotedTo(v.ruleset, "active")
      BY <2>2, <2>3, <2>4 DEF Acted
    <2>6. \A b : (RuleOk(b)' <=> RuleOk(b)) /\ (PromotedTo(b, "active")' <=> PromotedTo(b, "active"))
      BY <2>1 DEF RuleOk, Moved, Retired, Admitted, Served, PromotedTo
    <2> QED
      BY <2>1, <2>5, <2>6 DEF RuleInv, Acted
  <1>8. CASE EmitFinding
    <2>1. yara.work # None /\ UNCHANGED <<registry, audit>>
      BY <1>8 DEF EmitFinding, rules
    <2>2. yara'.work = None
      BY <1>0, <1>8 DEF EmitFinding, Scanner
    <2>3. ASSUME NEW f, f = [offset |-> yara.read + 1, rules |-> {v.ruleset : v \in {w \in yara.work : Acted(w)}}],
                 NEW b \in f.rules
          PROVE  b \in Rulesets /\ PromotedTo(b, "active")
      <3>1. PICK v \in yara.work : Acted(v) /\ b = v.ruleset
        BY <2>3
      <3> QED
        BY <2>1, <3>1 DEF RuleInv
    <2>4. \A f \in findings' : \A b \in f.rules : b \in Rulesets /\ PromotedTo(b, "active")
      BY <1>8, <2>3 DEF EmitFinding, RuleInv
    <2>5. \A b : (RuleOk(b)' <=> RuleOk(b)) /\ (PromotedTo(b, "active")' <=> PromotedTo(b, "active"))
      BY <2>1 DEF RuleOk, Moved, Retired, Admitted, Served, PromotedTo
    <2> QED
      BY <2>1, <2>2, <2>4, <2>5 DEF RuleInv
  <1>9. CASE Artifacts \/ Tick \/ UNCHANGED vars
    <2>1. UNCHANGED <<yara, registry, audit, findings>>
      BY <1>9 DEF Artifacts, Tick, vars, StoreArtifact, PublishLink, CommitCarved, ArtifactCrash, Sweep, scanner, rules
    <2> QED
      BY <2>1, RulesApart
  <1> QED
    BY <1>1, <1>2, <1>3, <1>4, <1>5, <1>6, <1>7, <1>8, <1>9 DEF Next, Registry, Yara

\* The audit trail explains where every ruleset stands, retirement is for ever, remote
\* bytes are served on an authorised actor's word only, and so is every ruleset that a
\* finding names (the registry's transactions, whoever races whom).
THEOREM OnlyPromotedRulesFind == Spec => []OnlyPromotedRulesAct
  <1>1. RuleInv => OnlyPromotedRulesAct
    <2> SUFFICES ASSUME RuleInv PROVE OnlyPromotedRulesAct
      OBVIOUS
    <2>1. ASSUME NEW b \in Rulesets, registry[b] # None PROVE LastMove(b).to = registry[b].status
      <3>1. PICK m \in Moved(b) : (\A j \in Moved(b) : j <= m) /\ audit[b][m].to = registry[b].status
        BY <2>1 DEF RuleInv, RuleOk
      <3> DEFINE l == CHOOSE i \in Moved(b) : \A j \in Moved(b) : j <= i
      <3>2. l \in Moved(b) /\ \A j \in Moved(b) : j <= l
        BY <3>1
      <3>3. \A i \in Moved(b) : i \in Nat
        BY DEF RuleInv, Trails, Moved
      <3>4. l = m
        BY <3>1, <3>2, <3>3
      <3> QED
        BY <3>1, <3>4 DEF LastMove
    <2>2. \A b \in Remote \ Bundled : b \in Rulesets
      BY DEF Rulesets
    <2> QED
      BY <2>1, <2>2 DEF RuleInv, RuleOk, OnlyPromotedRulesAct, Retired, Admitted
  <1>2. ScanInv /\ RuleInv /\ [Next]_vars => ScanInv' /\ RuleInv'
    BY ScanStep, RuleStep
  <1> QED
    BY <1>1, <1>2, ScanInit, RuleInit, PTL DEF Spec

-----------------------------------------------------------------------------
(* east-west-detectors: candidates.                                        *)

CONSTANTS Replicas, Streams, Window, Bucket, AtLeast
VARIABLES now, stream, owner, read, committed, sets, obs, index, dedup, calls, todo, empty, emitted, crashes, moves, errors
East == INSTANCE EastWest

LEMMA DivFacts ==
    ASSUME NEW a \in Int, NEW b \in Nat \ {0}
    PROVE  a \div b \in Int /\ (a \div b) * b <= a /\ a < (a \div b) * b + b
  BY Z3

\* A member lives for one window from when a record brought it; the mark of a candidate is kept as
\* long as a bucket can last.
CandidateInv ==
    /\ now \in Nat
    /\ \A x \in sets : /\ x.came \in Nat /\ x.came <= now /\ x.exp = x.came + Window
                       /\ x.exp \in Nat /\ x.exp <= now + Window
    /\ \A d \in dedup : d.exp \in Nat
    /\ \A c \in emitted : /\ c.at \in Nat /\ c.at <= now /\ c.id[4] = c.at \div Bucket
                          /\ now <= c.at + Bucket => \E d \in dedup : d.id = c.id /\ d.exp > c.at + Bucket
    /\ East!EvidenceFresh /\ East!EmittedOnce

LEMMA EastSizes ==
    ASSUME East!EastWestAssumption
    PROVE  Window \in Nat \ {0} /\ Bucket \in Nat \ {0}
  BY DEF East!EastWestAssumption

\* An emission whose mark is there is not repeated.
LEMMA EmitsOnce ==
    ASSUME East!EastWestAssumption, CandidateInv, NEW r, NEW id, NEW evidence, NEW times, NEW dies,
           id[4] = now \div Bucket, \A x \in evidence : x \in sets /\ x.exp >= now,
           East!Emit(r, id, evidence, times, dies), UNCHANGED <<now, sets>>
    PROVE  CandidateInv'
  <1>0. Window \in Nat \ {0} /\ Bucket \in Nat \ {0} /\ now \in Nat
    BY EastSizes DEF CandidateInv
  <1>1. CASE East!Seen(id)
    BY <1>1 DEF East!Emit, CandidateInv, East!EvidenceFresh, East!EmittedOnce
  <1>2. CASE ~East!Seen(id)
    <2>1. dedup' = East!Mark(id)
      BY <1>2 DEF East!Emit
    <2>2. \A d \in dedup' : d.exp \in Nat
      BY <1>0, <2>1 DEF East!Mark, CandidateInv
    <2>3. ASSUME NEW c \in emitted, c.id = id PROVE ~(now <= c.at + Bucket)
      BY <1>2, <2>3, <1>0 DEF CandidateInv, East!Seen
    <2>4. ASSUME NEW c \in emitted, c.id = id PROVE FALSE
      <3>1. c.at \in Nat /\ c.at <= now /\ c.at \div Bucket = now \div Bucket
        BY <2>4 DEF CandidateInv
      <3>2. PICK a, b : a = c.at /\ b = a \div Bucket
        OBVIOUS
      <3>3. /\ b \in Int /\ b * Bucket <= a /\ a < b * Bucket + Bucket
            /\ b * Bucket <= now /\ now < b * Bucket + Bucket
        <4>0. a \in Int /\ b = a \div Bucket
          BY <3>1, <3>2
        <4>1. b = now \div Bucket
          BY <3>1, <3>2
        <4>2. b \in Int /\ b * Bucket <= a /\ a < b * Bucket + Bucket
          BY <1>0, <4>0, DivFacts
        <4>3. b * Bucket <= now /\ now < b * Bucket + Bucket
          BY <1>0, <4>1, DivFacts
        <4> QED
          BY <4>2, <4>3
      <3>4. PICK m : m = b * Bucket
        OBVIOUS
      <3>5. m \in Int /\ m <= a /\ now < m + Bucket /\ a \in Nat
        BY <1>0, <3>1, <3>2, <3>3, <3>4
      <3>6. now <= a + Bucket
        BY <1>0, <3>5
      <3> QED
        BY <2>3, <2>4, <3>2, <3>6
    <2>5. ASSUME NEW c \in emitted, now <= c.at + Bucket
          PROVE  \E d \in dedup' : d.id = c.id /\ d.exp > c.at + Bucket
      <3>1. c.id # id
        BY <2>4
      <3>2. PICK d \in dedup : d.id = c.id /\ d.exp > c.at + Bucket
        BY <2>5 DEF CandidateInv
      <3> QED
        BY <2>1, <3>1, <3>2 DEF East!Mark
    <2>6. CASE emitted' = emitted
      BY <2>2, <2>5, <2>6 DEF CandidateInv, East!EvidenceFresh, East!EmittedOnce
    <2>7. CASE emitted' # emitted
      <3>1. PICK new : new = [id |-> id, by |-> r, at |-> now, evidence |-> evidence, times |-> times]
        OBVIOUS
      <3>2. emitted' = emitted \cup {new}
        BY <1>2, <2>7, <3>1 DEF East!Emit
      <3>3. new.id = id /\ new.at = now /\ new.evidence = evidence
        BY <3>1
      <3>4. \E d \in dedup' : d.id = id /\ d.exp > now + Bucket
        <4>1. [id |-> id, exp |-> now + Bucket + 1] \in dedup'
          BY <2>1 DEF East!Mark
        <4> QED
          BY <1>0, <4>1
      <3>5. \A x \in evidence : x.came <= now /\ now - x.came <= Window
        <4> SUFFICES ASSUME NEW x \in evidence
                     PROVE  x.came <= now /\ now - x.came <= Window
          OBVIOUS
        <4>1. x.came \in Nat /\ x.came <= now /\ x.exp = x.came + Window /\ x.exp >= now
          BY DEF CandidateInv
        <4> QED
          BY <1>0, <4>1
      <3>6. East!EvidenceFresh'
        BY <3>2, <3>3, <3>5 DEF CandidateInv, East!EvidenceFresh
      <3>7. East!EmittedOnce'
        BY <2>4, <3>2, <3>3 DEF CandidateInv, East!EmittedOnce
      <3>8. now <= now
        BY <1>0
      <3>9. \A c \in emitted' :
              /\ c.at \in Nat /\ c.at <= now /\ c.id[4] = c.at \div Bucket
              /\ now <= c.at + Bucket => \E d \in dedup' : d.id = c.id /\ d.exp > c.at + Bucket
        BY <1>0, <2>5, <3>2, <3>3, <3>4, <3>8 DEF CandidateInv
      <3> QED
        BY <2>2, <3>6, <3>7, <3>9 DEF CandidateInv
    <2> QED
      BY <2>6, <2>7
  <1> QED
    BY <1>1, <1>2

LEMMA TakeOnce ==
    ASSUME East!EastWestAssumption, CandidateInv, NEW r, NEW dies, East!Take(r, dies)
    PROVE  CandidateInv'
  <1>1. PICK e : e = stream[read + 1]
    OBVIOUS
  <1>2. UNCHANGED <<now, sets>>
    BY DEF East!Take
  <1>3. CASE East!Emit(r, East!Id("dcerpc", e.src, <<e.dst, e.op>>), {}, {e.ts} \ {East!Unknown}, dies)
    <2>1. PICK id, times : id = East!Id("dcerpc", e.src, <<e.dst, e.op>>) /\ times = {e.ts} \ {East!Unknown}
      OBVIOUS
    <2>2. id[4] = now \div Bucket
      BY <2>1 DEF East!Id
    <2>3. East!Emit(r, id, {}, times, dies)
      BY <1>3, <2>1
    <2> QED
      BY <1>2, <2>2, <2>3, EmitsOnce
  <1>4. CASE UNCHANGED <<dedup, emitted>>
    BY <1>2, <1>4 DEF CandidateInv, East!EvidenceFresh, East!EmittedOnce
  <1> QED
    BY <1>1, <1>3, <1>4 DEF East!Take

LEMMA VisitOnce ==
    ASSUME East!EastWestAssumption, CandidateInv, NEW r, NEW key, NEW dies, East!Visit(r, key, dies)
    PROVE  CandidateInv'
  <1>1. PICK evidence, n, times, id : /\ evidence = East!Live(key) /\ times = East!Observed(key)
                                      /\ n = East!Score(key[1], {x.member : x \in evidence})[2]
                                      /\ id = East!Id(key[1], key[2], n)
    OBVIOUS
  <1>2. UNCHANGED <<now, sets>>
    BY DEF East!Visit
  <1>3. CASE East!Emit(r, id, evidence, times, dies)
    <2>1. id[4] = now \div Bucket
      BY <1>1 DEF East!Id
    <2>2. \A x \in evidence : x \in sets /\ x.exp >= now
      BY <1>1 DEF East!Live
    <2> QED
      BY <1>2, <1>3, <2>1, <2>2, EmitsOnce
  <1>4. CASE UNCHANGED <<dedup, emitted>>
    BY <1>2, <1>4 DEF CandidateInv, East!EvidenceFresh, East!EmittedOnce
  <1> QED
    BY <1>1, <1>3, <1>4 DEF East!Visit

LEMMA CandidateNext ==
    ASSUME East!EastWestAssumption, CandidateInv, [East!Next]_(East!vars)
    PROVE  CandidateInv'
  <1>0. Window \in Nat \ {0} /\ Bucket \in Nat \ {0} /\ now \in Nat
    BY EastSizes DEF CandidateInv
  <1>1. ASSUME NEW r \in Replicas, East!Handle(r) PROVE CandidateInv'
    BY <1>1, TakeOnce DEF East!Handle
  <1>2. ASSUME NEW r \in Replicas, East!VisitKey(r) PROVE CandidateInv'
    BY <1>2, VisitOnce DEF East!VisitKey
  <1>3. ASSUME NEW r \in Replicas, East!Crash(r) PROVE CandidateInv'
    <2>1. CASE UNCHANGED <<now, East!store, emitted>>
      BY <2>1 DEF East!store, CandidateInv, East!EvidenceFresh, East!EmittedOnce
    <2> QED
      BY <1>3, <2>1, TakeOnce, VisitOnce DEF East!Crash
  <1>4. ASSUME NEW r \in Replicas, East!Call(r) PROVE CandidateInv'
    <2>1. UNCHANGED <<now, dedup, emitted>>
      BY <1>4 DEF East!Call
    <2>2. \A x \in sets' : x \in sets \/ (x.exp = now + Window /\ x.came = now)
      BY <1>4 DEF East!Call, East!AddMember, East!Written, East!AddObserved, East!AddIndex
    <2>3. \A x \in sets' : x.came \in Nat /\ x.came <= now /\ x.exp = x.came + Window /\ x.exp \in Nat /\ x.exp <= now + Window
      BY <1>0, <2>2 DEF CandidateInv
    <2> QED
      BY <2>1, <2>3 DEF CandidateInv, East!EvidenceFresh, East!EmittedOnce
  <1>5. CASE East!Tick
    <2>1. /\ now' = now + 1 /\ emitted' = emitted /\ sets' \subseteq sets
          /\ dedup' = {d \in dedup : d.exp > now'}
      BY <1>5 DEF East!Tick
    <2>2. \A x \in sets' : x.came \in Nat /\ x.came <= now' /\ x.exp = x.came + Window /\ x.exp \in Nat /\ x.exp <= now' + Window
      BY <1>0, <2>1 DEF CandidateInv
    <2>3. ASSUME NEW c \in emitted, now' <= c.at + Bucket
          PROVE  \E d \in dedup' : d.id = c.id /\ d.exp > c.at + Bucket
      <3>1. c.at \in Nat /\ now <= c.at + Bucket
        BY <1>0, <2>1, <2>3 DEF CandidateInv
      <3>2. PICK d \in dedup : d.id = c.id /\ d.exp > c.at + Bucket /\ d.exp \in Nat
        BY <3>1 DEF CandidateInv
      <3>3. d.exp > now'
        BY <1>0, <2>1, <2>3, <3>1, <3>2
      <3> QED
        BY <2>1, <3>2, <3>3
    <2>4. \A c \in emitted : c.at <= now'
      BY <1>0, <2>1 DEF CandidateInv
    <2>5. now' \in Nat
      BY <1>0, <2>1
    <2> QED
      BY <2>1, <2>2, <2>3, <2>4, <2>5 DEF CandidateInv, East!EvidenceFresh, East!EmittedOnce
  <1>6. ASSUME UNCHANGED <<now, sets, dedup, emitted>> PROVE CandidateInv'
    BY <1>6 DEF CandidateInv, East!EvidenceFresh, East!EmittedOnce
  <1>7. ASSUME NEW r \in Replicas,
               East!StoreFails(r) \/ East!Prune(r) \/ East!Move(r) \/ \E prefix \in East!PREFIXES : East!Evaluate(r, prefix)
        PROVE  CandidateInv'
    BY <1>6, <1>7 DEF East!StoreFails, East!Prune, East!Move, East!Evaluate, East!store
  <1>8. CASE East!AutoCommit \/ UNCHANGED East!vars
    BY <1>6, <1>8 DEF East!AutoCommit, East!vars, East!store
  <1> QED
    BY <1>1, <1>2, <1>3, <1>4, <1>5, <1>7, <1>8 DEF East!Next

\* Whatever is replayed, by whichever replica, and however busy a source is: a candidate
\* counts only members that a record brought within the window before it (EvidenceFresh),
\* and one detector and its entities make one candidate in a bucket, though two replicas
\* evaluate the same set or a record is handled twice (EmittedOnce).
THEOREM CandidatesFreshAndSingle ==
    ASSUME East!EastWestAssumption
    PROVE  East!Spec => [](East!EvidenceFresh /\ East!EmittedOnce)
  <1>1. East!Init => CandidateInv
    BY DEF East!Init, CandidateInv, East!EvidenceFresh, East!EmittedOnce
  <1>2. CandidateInv /\ [East!Next]_(East!vars) => CandidateInv'
    BY CandidateNext
  <1>3. CandidateInv => East!EvidenceFresh /\ East!EmittedOnce
    BY DEF CandidateInv
  <1> QED
    BY <1>1, <1>2, <1>3, PTL DEF East!Spec

-----------------------------------------------------------------------------
(* east-west-detectors: the index.                                         *)

\* The calls of a record are three for each of its sets.
LEMMA AddsLength ==
    ASSUME NEW e
    PROVE  Len(East!Adds(e)) \in Nat
  <1>0. \A c, x : \A S : x \in S => East!If(c, x) \in Seq(S)
    BY DEF East!If
  <1>1. ASSUME NEW a, NEW b, NEW c, NEW x, NEW y, NEW z
        PROVE  Len(East!If(a, x) \o East!If(b, y) \o East!If(c, z)) \in Nat
    <2>1. PICK u, v, w, S : /\ u = East!If(a, x) /\ v = East!If(b, y) /\ w = East!If(c, z)
                            /\ S = {x, y, z}
      BY Zenon
    <2>2. u \in Seq(S) /\ v \in Seq(S) /\ w \in Seq(S)
      BY <1>0, <2>1
    <2>3. Len(u \o v \o w) \in Nat
      BY <2>2
    <2> QED
      BY <2>1, <2>3
  <1>2. CASE e.type = "flow"
    <2>1. PICK x, y, z : x = <<"scan", <<e.dst, e.port>>>> /\ y = <<"lat", <<e.dst, e.port>>>> /\ z = <<"rdp", <<e.dst>>>>
      OBVIOUS
    <2>2. East!Adds(e) = IF ~e.internal THEN <<>>
                         ELSE <<x>> \o East!If(e.port \in East!ADMIN_PORTS, y) \o East!If(e.port = "rdp", z)
      BY <1>2, <2>1 DEF East!Adds
    <2>3. PICK c : <<x>> = East!If(c, x)
      BY DEF East!If
    <2>4. CASE ~e.internal
      BY <2>2, <2>4
    <2>5. CASE ~~e.internal
      <3>1. East!Adds(e) = East!If(c, x) \o East!If(e.port \in East!ADMIN_PORTS, y) \o East!If(e.port = "rdp", z)
        BY <2>2, <2>3, <2>5
      <3>2. PICK a, b : a = (e.port \in East!ADMIN_PORTS) /\ b = (e.port = "rdp")
        BY Zenon
      <3>3. East!Adds(e) = East!If(c, x) \o East!If(a, y) \o East!If(b, z)
        BY <3>1, <3>2, Zenon
      <3> QED
        BY <3>3, <1>1
    <2> QED
      BY <2>4, <2>5
  <1>3. CASE e.type = "krb5"
    <2>1. PICK a, b, c : /\ a = (e.tgs \/ e.sname # "") /\ b = (e.failed /\ e.cname # "")
                         /\ c = (e.preauthless /\ e.cname # "")
      BY Zenon
    <2>2. East!Adds(e) = East!If(a, <<"krb", <<e.sname, e.cipher>>>>) \o East!If(b, <<"spray", <<e.cname>>>>)
                         \o East!If(c, <<"asrep", <<e.cname>>>>)
      BY <1>3, <2>1, Zenon DEF East!Adds
    <2> QED
      BY <2>2, <1>1
  <1>4. CASE e.type = "smb"
    <2>1. PICK a, b, c : /\ a = (e.failed /\ e.user # "") /\ b = (e.file # "" /\ e.op # "")
                         /\ c = (e.signal # "")
      BY Zenon
    <2>2. East!Adds(e) = East!If(a, <<"spray", <<e.user>>>>) \o East!If(b, <<"rw", <<e.op, e.file>>>>)
                         \o East!If(c, <<"lex", <<e.signal>>>>)
      BY <1>4, <2>1, Zenon DEF East!Adds
    <2> QED
      BY <2>2, <1>1
  <1>5. CASE e.type = "dns"
    <2>1. PICK c, x : c = (e.answer # "") /\ x = <<"llmnr", <<e.answer>>>>
      BY Zenon
    <2>2. East!Adds(e) = East!If(c, x)
      BY <1>5, <2>1, Zenon DEF East!Adds
    <2>3. East!Adds(e) \in Seq({x})
      BY <1>0, <2>2
    <2> QED
      BY <2>3
  <1>6. CASE e.type \notin {"flow", "krb5", "smb", "dns"}
    <2>1. East!Adds(e) = <<>>
      BY <1>6, Zenon DEF East!Adds
    <2> QED
      BY <2>1
  <1> QED
    BY <1>2, <1>3, <1>4, <1>5, <1>6

\* A member is followed by the index of its set.
Followed(s) ==
    \A i \in DOMAIN s : s[i].op = "member" => /\ i + 2 \in DOMAIN s /\ s[i + 2].op = "index"
                                              /\ s[i + 2].key = s[i].key
\* An index call of the set is among the calls.
Brought(s, key) == \E i \in DOMAIN s : s[i].op = "index" /\ s[i].key = key
Record(n) == East!Calls(stream[n], n)
CallsOf(n) == {Record(n)[i] : i \in DOMAIN Record(n)}

LEMMA Thirds ==
    ASSUME NEW n \in Nat, NEW i \in 1 .. 3 * n
    PROVE  LET j == (i + 2) \div 3
           IN  /\ j \in 1 .. n /\ 3 * j \in 1 .. 3 * n
               /\ (3 * j + 2) \div 3 = j /\ ((3 * j - 1) % 3) + 1 = 3
               /\ (((i - 1) % 3) + 1 = 1 => 3 * j = i + 2)
               /\ ((i - 1) % 3) + 1 \in {1, 2, 3}
  BY Z3

LEMMA RecordCalls ==
    ASSUME NEW n
    PROVE  /\ Record(n) \in Seq(CallsOf(n)) /\ Followed(Record(n))
           /\ \A c \in CallsOf(n) : c.rec = n /\ Brought(Record(n), c.key)
  <1>1. PICK e, l : e = stream[n] /\ l = Len(East!Adds(e))
    OBVIOUS
  <1>2. l \in Nat
    BY <1>1, AddsLength
  <1>3. PICK f : f = Record(n)
    OBVIOUS
  <1>4. /\ DOMAIN f = 1 .. 3 * l
        /\ f = [i \in 1 .. 3 * l |->
                  [op |-> <<"member", "observed", "index">>[((i - 1) % 3) + 1],
                   key |-> <<East!Adds(e)[(i + 2) \div 3][1], e.src>>, member |-> East!Adds(e)[(i + 2) \div 3][2],
                   at |-> e.ts, rec |-> n]]
    BY <1>1, <1>3 DEF Record, East!Calls
  <1>5. \A i \in 1 .. 3 * l : /\ f[i].op = <<"member", "observed", "index">>[((i - 1) % 3) + 1]
                              /\ f[i].key = <<East!Adds(e)[(i + 2) \div 3][1], e.src>> /\ f[i].rec = n
    BY <1>4
  <1>6. ASSUME NEW i \in 1 .. 3 * l
        PROVE  \E k \in 1 .. 3 * l : f[k].op = "index" /\ f[k].key = f[i].key /\ (f[i].op = "member" => k = i + 2)
    <2>1. PICK j, m, k : j = (i + 2) \div 3 /\ m = ((i - 1) % 3) + 1 /\ k = 3 * j
      OBVIOUS
    <2>2. /\ j \in 1 .. l /\ k \in 1 .. 3 * l /\ (k + 2) \div 3 = j /\ ((k - 1) % 3) + 1 = 3
          /\ (m = 1 => k = i + 2) /\ m \in {1, 2, 3}
      BY <1>2, <2>1, Thirds
    <2>3. f[i].op = <<"member", "observed", "index">>[m] /\ f[i].key = <<East!Adds(e)[j][1], e.src>>
      BY <1>5, <2>1
    <2>4. f[k].op = <<"member", "observed", "index">>[3] /\ f[k].key = <<East!Adds(e)[j][1], e.src>>
      BY <1>5, <2>2
    <2>5. f[i].op = "member" => m = 1
      BY <2>2, <2>3
    <2> QED
      BY <2>2, <2>3, <2>4, <2>5
  <1>7. f \in Seq({f[i] : i \in DOMAIN f})
    <2>1. PICK m, S : m = 3 * l /\ S = {f[i] : i \in DOMAIN f}
      OBVIOUS
    <2>2. m \in Nat /\ DOMAIN f = 1 .. m
      BY <1>2, <1>4, <2>1
    <2>3. f = [i \in 1 .. m |-> f[i]]
      BY <1>4, <2>1
    <2>4. \A i \in 1 .. m : f[i] \in S
      BY <2>1, <2>2
    <2>5. f \in [1 .. m -> S]
      BY <2>3, <2>4
    <2>6. f \in Seq(S)
      BY <2>2, <2>5
    <2> QED
      BY <2>1, <2>6
  <1>8. Followed(f)
    <2> SUFFICES ASSUME NEW i \in DOMAIN f, f[i].op = "member"
                 PROVE  i + 2 \in DOMAIN f /\ f[i + 2].op = "index" /\ f[i + 2].key = f[i].key
      BY DEF Followed
    <2>1. DOMAIN f = 1 .. 3 * l
      BY <1>4
    <2>2. PICK k \in 1 .. 3 * l : f[k].op = "index" /\ f[k].key = f[i].key /\ (f[i].op = "member" => k = i + 2)
      BY <1>6, <2>1
    <2> QED
      BY <2>1, <2>2
  <1>9. \A i \in DOMAIN f : f[i].rec = n /\ Brought(f, f[i].key)
    BY <1>4, <1>5, <1>6 DEF Brought
  <1> QED
    BY <1>3, <1>7, <1>8, <1>9 DEF CallsOf

\* What is being done with a record, while its partition has stayed where it was and the
\* store has answered: only the owner has work, its calls are calls of the record it read
\* last, which is not committed, and what it is about to take off the index is empty.
Working ==
    /\ owner \in Replicas /\ DOMAIN calls = Replicas /\ DOMAIN todo = Replicas /\ DOMAIN empty = Replicas
    /\ read \in Nat /\ committed \in Nat /\ committed <= read
    /\ \A r \in Replicas \ {owner} : East!Idle(r)
    /\ calls[owner] # <<>> => /\ calls[owner] \in Seq(CallsOf(read)) /\ Followed(calls[owner])
                              /\ committed < read /\ todo[owner] = {} /\ empty[owner] = {}
    /\ \A key \in empty[owner] : East!Live(key) = {}

\* A live member can be found, or will be put on the index again: by the record in hand,
\* or by one that is read again.
Found(x) ==
    \/ \E i \in index : i.key = x.key /\ i.exp \in Nat /\ i.exp >= x.exp
    \/ x.rec > read
    \/ x.rec = read /\ Brought(calls[owner], x.key)

IndexInv ==
    /\ moves \in Nat /\ errors \in Nat
    /\ moves = 0 /\ errors = 0 =>
        /\ Working
        /\ \A x \in sets : x.rec \in Nat /\ Brought(Record(x.rec), x.key) /\ (x.exp >= now => Found(x))

LEMMA IndexFollows ==
    ASSUME CandidateInv, IndexInv
    PROVE  East!LiveSetsIndexed
  <1> SUFFICES ASSUME moves = 0, errors = 0, NEW x \in sets, x.exp >= now, x.rec <= committed
               PROVE  East!Indexed(x.key)
    BY DEF East!LiveSetsIndexed
  <1>1. /\ Working /\ x.rec \in Nat /\ Found(x) /\ now \in Nat /\ x.exp \in Nat
    BY DEF IndexInv, CandidateInv
  <1>2. ~(x.rec > read)
    BY <1>1 DEF Working
  <1>3. ~(x.rec = read /\ Brought(calls[owner], x.key))
    BY <1>1 DEF Working, Brought
  <1>4. PICK i \in index : i.key = x.key /\ i.exp \in Nat /\ i.exp >= x.exp
    BY <1>1, <1>2, <1>3 DEF Found
  <1>5. i.exp >= now
    BY <1>1, <1>4
  <1> QED
    BY <1>4, <1>5 DEF East!Indexed

\* A step that leaves the members and the index alone and takes nothing in hand.
LEMMA IndexSame ==
    ASSUME IndexInv, UNCHANGED <<now, stream, sets, index, moves, errors>>,
           moves = 0 /\ errors = 0 => Working',
           moves = 0 /\ errors = 0 => \A x \in sets : x.rec \in Nat /\ Brought(Record(x.rec), x.key) /\ x.exp >= now /\ Found(x) => Found(x)'
    PROVE  IndexInv'
  <1>1. \A n : Record(n)' = Record(n)
    BY DEF Record
  <1>2. \A n, key : Brought(Record(n), key)' = Brought(Record(n), key)
    BY <1>1 DEF Brought
  <1> QED
    BY <1>2 DEF IndexInv

LEMMA IndexInit == East!Init => IndexInv
  <1> SUFFICES ASSUME East!Init PROVE IndexInv
    OBVIOUS
  <1>1. calls[owner] = <<>> /\ todo[owner] = {} /\ empty[owner] = {} /\ owner \in Replicas
    BY DEF East!Init
  <1>2. \A r \in Replicas : East!Idle(r)
    BY DEF East!Init, East!Idle
  <1>3. Working
    BY <1>1, <1>2 DEF East!Init, Working, Followed
  <1> QED
    BY <1>3 DEF East!Init, IndexInv

LEMMA HandleIndexed ==
    ASSUME IndexInv, NEW r \in Replicas, East!Handle(r)
    PROVE  IndexInv'
  <1>1. /\ owner = r /\ East!Idle(r) /\ read' = read + 1 /\ calls' = [calls EXCEPT ![r] = Record(read + 1)]
        /\ UNCHANGED <<now, stream, owner, committed, sets, index, todo, empty, moves, errors>>
    BY DEF East!Handle, East!Take, Record
  <1>2. ASSUME moves = 0, errors = 0
        PROVE  /\ Working'
               /\ \A x \in sets : x.rec \in Nat /\ Brought(Record(x.rec), x.key) /\ Found(x) => Found(x)'
    <2>1. Working
      BY <1>2 DEF IndexInv
    <2>2. PICK n : n = read + 1
      OBVIOUS
    <2>3. n \in Nat /\ read' = n /\ committed < n /\ read < n
      BY <1>1, <2>1, <2>2 DEF Working
    <2>4. calls'[owner'] = Record(n) /\ calls[owner] = <<>> /\ todo'[owner'] = {} /\ empty'[owner'] = {}
      BY <1>1, <2>1, <2>2 DEF Working, East!Idle
    <2>5. Record(n) \in Seq(CallsOf(n)) /\ Followed(Record(n))
      BY RecordCalls
    <2>6. CallsOf(n)' = CallsOf(n)
      BY <1>1 DEF CallsOf, Record
    <2>7. Followed(calls[owner])'
      BY <2>4, <2>5 DEF Followed
    <2>8. \A q \in Replicas \ {owner} : East!Idle(q)'
      BY <1>1, <2>1 DEF Working, East!Idle
    <2>9. /\ owner' \in Replicas /\ DOMAIN calls' = Replicas /\ DOMAIN todo' = Replicas /\ DOMAIN empty' = Replicas
          /\ committed' \in Nat /\ committed' < read' /\ committed' <= read'
      BY <1>1, <2>1, <2>3 DEF Working
    <2>10. Working'
      <3>1. CallsOf(read)' = CallsOf(n)
        BY <1>1, <2>3 DEF CallsOf, Record
      <3> QED
        BY <1>1, <2>3, <2>4, <2>5, <2>7, <2>8, <2>9, <3>1 DEF Working
    <2>11. ASSUME NEW x \in sets, x.rec \in Nat, Brought(Record(x.rec), x.key), Found(x)
           PROVE  Found(x)'
      <3>1. CASE \E i \in index : i.key = x.key /\ i.exp \in Nat /\ i.exp >= x.exp
        BY <1>1, <3>1 DEF Found
      <3>2. CASE x.rec > read
        <4>1. x.rec > n \/ x.rec = n
          BY <2>1, <2>2, <2>11, <3>2 DEF Working
        <4>2. x.rec = n => Brought(calls'[owner'], x.key)
          BY <2>4, <2>11
        <4> QED
          BY <2>3, <4>1, <4>2 DEF Found, Brought
      <3>3. CASE x.rec = read /\ Brought(calls[owner], x.key)
        BY <2>4, <3>3 DEF Brought
      <3> QED
        BY <2>11, <3>1, <3>2, <3>3 DEF Found
    <2> QED
      BY <2>10, <2>11
  <1> QED
    BY <1>1, <1>2, IndexSame

LEMMA TailFacts ==
    ASSUME NEW S, NEW s \in Seq(S), s # <<>>, Followed(s)
    PROVE  /\ Tail(s) \in Seq(S) /\ Head(s) \in S /\ Followed(Tail(s))
           /\ Head(s).op = "member" => Brought(Tail(s), Head(s).key)
           /\ \A key : Brought(s, key) /\ ~(Head(s).op = "index" /\ Head(s).key = key) => Brought(Tail(s), key)
  <1>1. PICK t, l : t = Tail(s) /\ l = Len(s)
    OBVIOUS
  <1>2. /\ t \in Seq(S) /\ Head(s) \in S /\ Head(s) = s[1] /\ l \in Nat \ {0} /\ DOMAIN s = 1 .. l
        /\ DOMAIN t = 1 .. (l - 1) /\ \A i \in 1 .. (l - 1) : t[i] = s[i + 1]
    BY <1>1
  <1>3. \A i \in 2 .. l : i - 1 \in DOMAIN t /\ t[i - 1] = s[i]
    <2> SUFFICES ASSUME NEW i \in 2 .. l PROVE i - 1 \in DOMAIN t /\ t[i - 1] = s[i]
      OBVIOUS
    <2>1. i - 1 \in 1 .. (l - 1) /\ (i - 1) + 1 = i
      BY <1>2
    <2> QED
      BY <1>2, <2>1
  <1>4. Followed(t)
    <2> SUFFICES ASSUME NEW i \in DOMAIN t, t[i].op = "member"
                 PROVE  i + 2 \in DOMAIN t /\ t[i + 2].op = "index" /\ t[i + 2].key = t[i].key
      BY DEF Followed
    <2>1. PICK j : j = i + 1
      OBVIOUS
    <2>2. j \in DOMAIN s /\ s[j] = t[i] /\ i \in Int
      BY <1>2, <2>1
    <2>3. j + 2 \in DOMAIN s /\ s[j + 2].op = "index" /\ s[j + 2].key = s[j].key
      BY <2>2 DEF Followed
    <2>4. j + 2 \in 2 .. l /\ (j + 2) - 1 = i + 2
      BY <1>2, <2>1, <2>2, <2>3
    <2> QED
      BY <1>3, <2>2, <2>3, <2>4
  <1>5. s[1].op = "member" => Brought(t, s[1].key)
    <2> SUFFICES ASSUME s[1].op = "member" PROVE Brought(t, s[1].key)
      OBVIOUS
    <2>1. 1 \in DOMAIN s
      BY <1>2
    <2>2. 3 \in DOMAIN s /\ s[3].op = "index" /\ s[3].key = s[1].key
      <3>1. 1 + 2 \in DOMAIN s /\ s[1 + 2].op = "index" /\ s[1 + 2].key = s[1].key
        BY <2>1 DEF Followed
      <3> QED
        BY <3>1
    <2>3. 3 \in 2 .. l
      BY <1>2, <2>2
    <2> QED
      BY <1>3, <2>2, <2>3 DEF Brought
  <1>6. ASSUME NEW key, Brought(s, key), ~(s[1].op = "index" /\ s[1].key = key) PROVE Brought(t, key)
    <2>1. PICK i \in DOMAIN s : s[i].op = "index" /\ s[i].key = key
      BY <1>6 DEF Brought
    <2>2. i \in 2 .. l
      BY <1>2, <1>6, <2>1
    <2> QED
      BY <1>3, <2>1, <2>2 DEF Brought
  <1> QED
    BY <1>1, <1>2, <1>4, <1>5, <1>6

LEMMA CallIndexed ==
    ASSUME East!EastWestAssumption, CandidateInv, IndexInv, NEW r \in Replicas, East!Call(r)
    PROVE  IndexInv'
  <1>1. PICK s, c : s = calls[r] /\ c = Head(s)
    OBVIOUS
  <1>2. /\ s # <<>> /\ calls' = [calls EXCEPT ![r] = Tail(s)]
        /\ UNCHANGED <<now, stream, owner, read, committed, todo, empty, moves, errors>>
    BY <1>1 DEF East!Call
  <1>3. \/ c.op = "member" /\ East!AddMember(c)
        \/ c.op = "observed" /\ East!AddObserved(c)
        \/ c.op = "index" /\ East!AddIndex(c)
    BY <1>1 DEF East!Call
  <1>4. \A n : Record(n)' = Record(n)
    BY <1>2 DEF Record
  <1>5. \A n : CallsOf(n)' = CallsOf(n)
    BY <1>4 DEF CallsOf
  <1>6. \A n, key : Brought(Record(n), key)' = Brought(Record(n), key)
    BY <1>4 DEF Brought
  <1> SUFFICES ASSUME moves = 0, errors = 0
               PROVE  /\ Working'
                      /\ \A x \in sets' : x.rec \in Nat /\ Brought(Record(x.rec), x.key) /\ (x.exp >= now => Found(x)')
    BY <1>2, <1>6 DEF IndexInv
  <1>7. /\ Working /\ \A x \in sets : x.rec \in Nat /\ Brought(Record(x.rec), x.key) /\ (x.exp >= now => Found(x))
    BY DEF IndexInv
  <1>8. r = owner
    BY <1>1, <1>2, <1>7 DEF Working, East!Idle
  <1>9. /\ s = calls[owner] /\ s \in Seq(CallsOf(read)) /\ Followed(s) /\ committed < read
        /\ todo[owner] = {} /\ empty[owner] = {}
    BY <1>1, <1>2, <1>7, <1>8 DEF Working
  <1>10. /\ Tail(s) \in Seq(CallsOf(read)) /\ c \in CallsOf(read) /\ Followed(Tail(s))
         /\ c.op = "member" => Brought(Tail(s), c.key)
         /\ \A key : Brought(s, key) /\ ~(c.op = "index" /\ c.key = key) => Brought(Tail(s), key)
    BY <1>1, <1>2, <1>9, TailFacts
  <1>11. calls'[owner'] = Tail(s)
    BY <1>2, <1>7, <1>8 DEF Working
  <1>12. c.rec = read /\ Brought(Record(read), c.key) /\ read \in Nat
    BY <1>7, <1>10, RecordCalls DEF Working
  <1>13. Working'
    <2>1. Followed(calls[owner])' /\ calls'[owner'] \in Seq(CallsOf(read)')
      <3>1. CallsOf(read)' = CallsOf(read)
        BY <1>2 DEF CallsOf, Record
      <3> QED
        BY <1>10, <1>11, <3>1 DEF Followed
    <2>2. \A q \in Replicas \ {owner} : East!Idle(q)'
      BY <1>2, <1>7, <1>8 DEF Working, East!Idle
    <2> QED
      BY <1>2, <1>7, <1>9, <2>1, <2>2 DEF Working
  <1>14. \A key : Brought(Tail(s), key) => Brought(calls[owner], key)'
    BY <1>11 DEF Brought
  <1>15. CASE c.op = "member" /\ East!AddMember(c)
    <2>1. PICK new : new = East!Written(c)
      OBVIOUS
    <2>2. index' = index /\ new.key = c.key /\ new.rec = c.rec /\ \A x \in sets' : x \in sets \/ x = new
      BY <1>15, <2>1 DEF East!AddMember, East!Written
    <2>3. Found(new)'
      BY <1>2, <1>10, <1>12, <1>14, <1>15, <2>2 DEF Found
    <2>4. \A x \in sets : Found(x) => Found(x)'
      BY <1>2, <1>9, <1>10, <1>14, <1>15, <2>2 DEF Found
    <2> QED
      BY <1>7, <1>12, <1>13, <2>2, <2>3, <2>4
  <1>16. CASE c.op = "observed" /\ East!AddObserved(c)
    <2>1. index' = index /\ sets' = sets
      BY <1>16 DEF East!AddObserved
    <2>2. \A x \in sets : Found(x) => Found(x)'
      BY <1>2, <1>9, <1>10, <1>14, <1>16, <2>1 DEF Found
    <2> QED
      BY <1>7, <1>13, <2>1, <2>2
  <1>17. CASE c.op = "index" /\ East!AddIndex(c)
    <2>1. PICK new : new = [key |-> c.key, exp |-> now + Window]
      OBVIOUS
    <2>2. /\ sets' = sets /\ index' = {i \in index : i.key # c.key} \cup {new} /\ new.key = c.key /\ new.exp = now + Window
      BY <1>17, <2>1 DEF East!AddIndex
    <2>3. new.exp \in Nat /\ \A x \in sets : new.exp >= x.exp
      BY <2>2, EastSizes DEF CandidateInv
    <2>4. ASSUME NEW x \in sets, Found(x) PROVE Found(x)'
      <3>1. CASE x.key = c.key
        BY <2>2, <2>3, <3>1 DEF Found
      <3>2. CASE x.key # c.key
        BY <1>2, <1>9, <1>10, <1>14, <2>2, <2>4, <3>2 DEF Found
      <3> QED
        BY <3>1, <3>2
    <2> QED
      BY <1>7, <1>13, <2>2, <2>4
  <1> QED
    BY <1>3, <1>15, <1>16, <1>17

\* Nothing is visited while calls are left; an empty set stays empty until it is pruned.
LEMMA VisitIndexed ==
    ASSUME IndexInv, NEW r \in Replicas, East!VisitKey(r)
    PROVE  IndexInv'
  <1>1. PICK key \in todo[r] :
          /\ todo' = [todo EXCEPT ![r] = @ \ {key}]
          /\ empty' = [empty EXCEPT ![r] = IF East!Live(key) = {} THEN {key} ELSE {}]
          /\ UNCHANGED <<now, stream, owner, read, committed, sets, index, calls, moves, errors>>
    BY DEF East!VisitKey, East!Visit
  <1>2. ASSUME moves = 0, errors = 0 PROVE Working'
    <2>1. Working
      BY <1>2 DEF IndexInv
    <2>2. r = owner /\ calls[owner] = <<>>
      BY <1>1, <2>1 DEF Working, East!Idle
    <2>3. calls'[owner'] = <<>>
      BY <1>1, <2>2
    <2>4. \A k : East!Live(k)' = East!Live(k)
      BY <1>1 DEF East!Live
    <2>5. \A k \in empty'[owner'] : East!Live(k) = {}
      BY <1>1, <2>1, <2>2 DEF Working
    <2>6. \A q \in Replicas \ {owner} : East!Idle(q)'
      BY <1>1, <2>1, <2>2 DEF Working, East!Idle
    <2> QED
      BY <1>1, <2>1, <2>3, <2>4, <2>5, <2>6 DEF Working
  <1>3. \A x : Found(x)' = Found(x)
    BY <1>1 DEF Found, Brought
  <1> QED
    BY <1>1, <1>2, <1>3, IndexSame

LEMMA PruneIndexed ==
    ASSUME IndexInv, NEW r \in Replicas, East!Prune(r)
    PROVE  IndexInv'
  <1>1. /\ empty[r] # {} /\ empty' = [empty EXCEPT ![r] = {}]
        /\ index' = {i \in index : i.key \notin empty[r]}
        /\ UNCHANGED <<now, stream, owner, read, committed, sets, calls, todo, moves, errors>>
    BY DEF East!Prune
  <1>2. \A n, key : Brought(Record(n), key)' = Brought(Record(n), key)
    BY <1>1 DEF Brought, Record
  <1> SUFFICES ASSUME moves = 0, errors = 0
               PROVE  Working' /\ \A x \in sets : x.exp >= now => Found(x)'
    BY <1>1, <1>2 DEF IndexInv
  <1>3. Working /\ \A x \in sets : x.exp >= now => Found(x)
    BY DEF IndexInv
  <1>4. r = owner /\ calls[owner] = <<>>
    BY <1>1, <1>3 DEF Working, East!Idle
  <1>5. Working'
    <2>1. calls'[owner'] = <<>> /\ empty'[owner'] = {}
      BY <1>1, <1>3, <1>4 DEF Working
    <2>2. \A q \in Replicas \ {owner} : East!Idle(q)'
      BY <1>1, <1>3, <1>4 DEF Working, East!Idle
    <2> QED
      BY <1>1, <1>3, <2>1, <2>2 DEF Working
  <1>6. ASSUME NEW x \in sets, x.exp >= now PROVE Found(x)'
    <2>1. x.key \notin empty[r]
      <3>1. x \in East!Live(x.key)
        BY <1>6 DEF East!Live
      <3> QED
        BY <1>3, <1>4, <3>1 DEF Working
    <2> QED
      BY <1>1, <1>3, <1>6, <2>1 DEF Found, Brought
  <1> QED
    BY <1>5, <1>6

LEMMA EvaluateIndexed ==
    ASSUME IndexInv, NEW r \in Replicas, NEW prefix, East!Evaluate(r, prefix)
    PROVE  IndexInv'
  <1>1. /\ owner = r /\ East!Idle(r) /\ \E todos : todo' = [todo EXCEPT ![r] = todos]
        /\ UNCHANGED <<now, stream, owner, read, committed, sets, index, calls, empty, moves, errors>>
    BY DEF East!Evaluate, East!store
  <1>2. ASSUME moves = 0, errors = 0 PROVE Working'
    <2>1. Working
      BY <1>2 DEF IndexInv
    <2>2. calls'[owner'] = <<>> /\ empty'[owner'] = {}
      BY <1>1 DEF East!Idle
    <2>3. \A q \in Replicas \ {owner} : East!Idle(q)'
      BY <1>1, <2>1 DEF Working, East!Idle
    <2> QED
      BY <1>1, <2>1, <2>2, <2>3 DEF Working
  <1>3. \A x : Found(x)' = Found(x)
    BY <1>1 DEF Found, Brought
  <1> QED
    BY <1>1, <1>2, <1>3, IndexSame

\* What a dead owner had in hand is read again.
LEMMA CrashIndexed ==
    ASSUME IndexInv, NEW r \in Replicas, East!Crash(r)
    PROVE  IndexInv'
  <1>1. /\ calls' = [calls EXCEPT ![r] = <<>>] /\ todo' = [todo EXCEPT ![r] = {}] /\ empty' = [empty EXCEPT ![r] = {}]
        /\ read' = (IF owner = r THEN committed ELSE read)
    BY DEF East!Crash, East!Reset
  <1>2. UNCHANGED <<now, stream, owner, committed, sets, index, moves, errors>>
    BY DEF East!Crash, East!Take, East!Visit, East!store
  <1>3. ASSUME moves = 0, errors = 0
        PROVE  Working' /\ \A x \in sets : x.rec \in Nat /\ Found(x) => Found(x)'
    <2>1. Working
      BY <1>3 DEF IndexInv
    <2>2. \A q \in Replicas \ {owner} : East!Idle(q)'
      BY <1>1, <1>2, <2>1 DEF Working, East!Idle
    <2>3. CASE owner = r
      <3>1. calls'[owner'] = <<>> /\ empty'[owner'] = {} /\ read' = committed
        BY <1>1, <1>2, <2>1, <2>3 DEF Working
      <3>2. committed <= committed
        BY <2>1 DEF Working
      <3>3. Working'
        BY <1>1, <1>2, <2>1, <2>2, <3>1, <3>2 DEF Working
      <3>4. ASSUME NEW x \in sets, x.rec \in Nat, Found(x) PROVE Found(x)'
        <4>1. CASE \E i \in index : i.key = x.key /\ i.exp \in Nat /\ i.exp >= x.exp
          BY <1>2, <4>1 DEF Found
        <4>2. CASE x.rec > read
          BY <2>1, <3>1, <3>4, <4>2 DEF Found, Working
        <4>3. CASE x.rec = read /\ Brought(calls[owner], x.key)
          <5>1. calls[owner] # <<>>
            BY <4>3 DEF Brought
          <5> QED
            BY <2>1, <3>1, <3>4, <4>3, <5>1 DEF Found, Working
        <4> QED
          BY <3>4, <4>1, <4>2, <4>3 DEF Found
      <3> QED
        BY <3>3, <3>4
    <2>4. CASE owner # r
      <3>1. calls'[owner'] = calls[owner] /\ empty'[owner'] = empty[owner] /\ todo'[owner'] = todo[owner] /\ read' = read
        BY <1>1, <1>2, <2>1, <2>4 DEF Working
      <3>2. \A x : Found(x)' = Found(x)
        BY <1>2, <3>1 DEF Found, Brought
      <3>3. Followed(calls[owner])' = Followed(calls[owner]) /\ \A k : East!Live(k)' = East!Live(k)
        BY <1>2, <3>1 DEF Followed, East!Live
      <3>4. CallsOf(read)' = CallsOf(read)
        BY <1>2, <3>1 DEF CallsOf, Record
      <3>5. Working'
        BY <1>1, <1>2, <2>1, <2>2, <3>1, <3>3, <3>4 DEF Working
      <3> QED
        BY <3>2, <3>5
    <2> QED
      BY <2>3, <2>4
  <1> QED
    BY <1>2, <1>3, IndexSame

LEMMA CommitIndexed ==
    ASSUME IndexInv, East!AutoCommit
    PROVE  IndexInv'
  <1>1. /\ East!Idle(owner) /\ committed' = read
        /\ UNCHANGED <<now, stream, owner, read, sets, index, calls, todo, empty, moves, errors>>
    BY DEF East!AutoCommit, East!store, East!local
  <1>2. ASSUME moves = 0, errors = 0 PROVE Working'
    <2>1. Working
      BY <1>2 DEF IndexInv
    <2>2. calls'[owner'] = <<>> /\ empty'[owner'] = {} /\ read <= read
      BY <1>1, <2>1 DEF East!Idle, Working
    <2>3. \A q \in Replicas \ {owner} : East!Idle(q)'
      BY <1>1, <2>1 DEF Working, East!Idle
    <2> QED
      BY <1>1, <2>1, <2>2, <2>3 DEF Working
  <1>3. \A x : Found(x)' = Found(x)
    BY <1>1 DEF Found, Brought
  <1> QED
    BY <1>1, <1>2, <1>3, IndexSame

\* What was empty stays empty, and an entry of the index outlives the members it stands for.
LEMMA TickIndexed ==
    ASSUME CandidateInv, IndexInv, East!Tick
    PROVE  IndexInv'
  <1>1. /\ now' = now + 1 /\ sets' \subseteq sets /\ index' = {i \in index : i.exp >= now'}
        /\ UNCHANGED <<stream, owner, read, committed, calls, todo, empty, moves, errors>>
    BY DEF East!Tick, East!local
  <1>2. now \in Nat /\ now' \in Nat /\ \A x \in sets : x.exp \in Nat /\ (x.exp >= now' => x.exp >= now)
    BY <1>1 DEF CandidateInv
  <1>3. \A n, key : Brought(Record(n), key)' = Brought(Record(n), key)
    BY <1>1 DEF Brought, Record
  <1> SUFFICES ASSUME moves = 0, errors = 0
               PROVE  Working' /\ \A x \in sets : x.exp >= now' => Found(x)'
    BY <1>1, <1>3 DEF IndexInv
  <1>4. Working /\ \A x \in sets : x.exp >= now' => Found(x)
    BY <1>2 DEF IndexInv
  <1>5. Working'
    <2>1. \A k : East!Live(k) = {} => East!Live(k)' = {}
      BY <1>1, <1>2 DEF East!Live
    <2>2. \A q \in Replicas \ {owner} : East!Idle(q)'
      BY <1>1, <1>4 DEF Working, East!Idle
    <2>3. Followed(calls[owner])' = Followed(calls[owner])
      BY <1>1 DEF Followed
    <2>4. CallsOf(read)' = CallsOf(read)
      BY <1>1 DEF CallsOf, Record
    <2> QED
      BY <1>1, <1>4, <2>1, <2>2, <2>3, <2>4 DEF Working
  <1>6. ASSUME NEW x \in sets, x.exp >= now' PROVE Found(x)'
    <2>1. CASE \E i \in index : i.key = x.key /\ i.exp \in Nat /\ i.exp >= x.exp
      <3>1. PICK i \in index : i.key = x.key /\ i.exp \in Nat /\ i.exp >= x.exp
        BY <2>1
      <3>2. i.exp >= now'
        BY <1>2, <1>6, <3>1
      <3> QED
        BY <1>1, <3>1, <3>2 DEF Found
    <2>2. CASE x.rec > read \/ (x.rec = read /\ Brought(calls[owner], x.key))
      BY <1>1, <2>2 DEF Found, Brought
    <2> QED
      BY <1>4, <1>6, <2>1, <2>2 DEF Found
  <1> QED
    BY <1>5, <1>6

LEMMA IndexNext ==
    ASSUME East!EastWestAssumption, CandidateInv, IndexInv, [East!Next]_(East!vars)
    PROVE  IndexInv'
  <1>1. ASSUME NEW r \in Replicas, East!StoreFails(r) PROVE IndexInv'
    BY <1>1 DEF East!StoreFails, IndexInv
  <1>2. ASSUME NEW r \in Replicas, East!Move(r) PROVE IndexInv'
    BY <1>2 DEF East!Move, IndexInv
  <1>3. CASE UNCHANGED East!vars
    <2>1. UNCHANGED <<now, stream, owner, read, committed, sets, index, calls, todo, empty, moves, errors>>
      BY <1>3 DEF East!vars, East!store, East!local
    <2>2. Working => Working'
      BY <2>1 DEF Working, Followed, CallsOf, Record, East!Idle, East!Live
    <2>3. \A x : Found(x)' = Found(x)
      BY <2>1 DEF Found, Brought
    <2>4. moves = 0 /\ errors = 0 => Working'
      BY <2>2 DEF IndexInv
    <2> QED
      BY <2>1, <2>3, <2>4, IndexSame
  <1> QED
    BY <1>1, <1>2, <1>3, HandleIndexed, CallIndexed, VisitIndexed, PruneIndexed, EvaluateIndexed, CrashIndexed,
       CommitIndexed, TickIndexed DEF East!Next

\* A set that still has members of handled records is named by the index of its
\* partition, wherever processes died between the calls of a record and its commit, as
\* long as the partition has stayed where it was and the store has answered.
THEOREM LiveSetsAreFound ==
    ASSUME East!EastWestAssumption
    PROVE  East!Spec => []East!LiveSetsIndexed
  <1>1. East!Init => CandidateInv /\ IndexInv
    BY IndexInit DEF East!Init, CandidateInv, East!EvidenceFresh, East!EmittedOnce
  <1>2. CandidateInv /\ IndexInv /\ [East!Next]_(East!vars) => CandidateInv' /\ IndexInv'
    BY CandidateNext, IndexNext
  <1>3. CandidateInv /\ IndexInv => East!LiveSetsIndexed
    BY IndexFollows
  <1> QED
    BY <1>1, <1>2, <1>3, PTL DEF East!Spec
-----------------------------------------------------------------------------
(* protocol-detectors: novelty.                                            *)

CONSTANTS Inputs, Warmup, SeenTTL, MinObservations, MinSpan, BaselineTTL, RareMax, Transition, MinDistinct,
          SniTTL, Counting, Sessions, Bytes, Expected, AllowPorts, Approved, Lists
VARIABLES input, hand, kv, counters, past, overlap
Proto == INSTANCE ProtocolDetectors

\* A step of a record as it comes: only the score is about novelty.
Allowed(s) ==
    /\ s.op = "keep" => s.key[1] = "fpseen" /\ s.detector # "ja4_novelty"
    /\ s.op = "report" => s.detector # "ja4_novelty"
    /\ s.op # "send"
\* A step that neither reads nor writes what a source is known by.
Plain(s) == Allowed(s) /\ s.op \notin {"seen", "score", "baseline", "know"}
PlainSteps(s) == s \in Seq({s[i] : i \in DOMAIN s}) /\ \A i \in DOMAIN s : Plain(s[i])

\* "Score before learning": what is read comes before what is written, and once.
Wrong(a, b) == \/ a = "score" /\ b = "seen"
               \/ a \in {"baseline", "know"} /\ b = "score"
               \/ a = "baseline" /\ b = "baseline"
Ordered(s) == \A i, j \in DOMAIN s : i < j => ~Wrong(s[i].op, s[j].op)
Has(s, op) == \E i \in DOMAIN s : s[i].op = op
\* The steps of a record: nothing is learned of a source without a score.
Observing(s) ==
    /\ s \in Seq({s[i] : i \in DOMAIN s}) /\ \A i \in DOMAIN s : Allowed(s[i])
    /\ Ordered(s)
    /\ Has(s, "score") => Has(s, "seen")
    /\ Has(s, "baseline") \/ Has(s, "know") => Has(s, "score")

LEMMA PlainOne ==
    ASSUME NEW s, \/ s = <<>>
                  \/ \E x : s = <<x>> /\ Plain(x)
    PROVE  PlainSteps(s)
  <1>1. CASE s = <<>>
    BY <1>1 DEF PlainSteps
  <1>2. CASE \E x : s = <<x>> /\ Plain(x)
    <2>1. PICK x : s = <<x>> /\ Plain(x)
      BY <1>2
    <2>2. DOMAIN s = {1} /\ s[1] = x
      BY <2>1
    <2>3. {s[i] : i \in DOMAIN s} = {x}
      BY <2>2
    <2>4. s \in Seq({x})
      BY <2>1
    <2> QED
      BY <2>1, <2>2, <2>3, <2>4 DEF PlainSteps
  <1> QED
    BY <1>1, <1>2

LEMMA PlainBoth ==
    ASSUME NEW s, NEW t, PlainSteps(s), PlainSteps(t)
    PROVE  PlainSteps(s \o t)
  <1>1. PICK S, T, u : S = {s[i] : i \in DOMAIN s} /\ T = {t[i] : i \in DOMAIN t} /\ u = s \o t
    OBVIOUS
  <1>2. s \in Seq(S) /\ t \in Seq(T) /\ s \in Seq(S \cup T) /\ t \in Seq(S \cup T)
    <2>1. s \in Seq(S) /\ t \in Seq(T)
      BY <1>1 DEF PlainSteps
    <2> QED
      BY <2>1
  <1>3. PICK m, n : m = Len(s) /\ n = Len(t)
    OBVIOUS
  <1>4. /\ m \in Nat /\ n \in Nat /\ DOMAIN s = 1 .. m /\ DOMAIN t = 1 .. n
        /\ u \in Seq(S \cup T) /\ Len(u) = m + n /\ DOMAIN u = 1 .. m + n
    BY <1>1, <1>2, <1>3
  <1>5. \A i \in 1 .. m + n : u[i] = IF i <= m THEN s[i] ELSE t[i - m]
    BY <1>1, <1>2, <1>3, <1>4
  <1>6. \A i \in DOMAIN u : Plain(u[i])
    <2> SUFFICES ASSUME NEW i \in DOMAIN u PROVE Plain(u[i])
      OBVIOUS
    <2>1. CASE i <= m
      BY <1>4, <1>5, <2>1 DEF PlainSteps
    <2>2. CASE ~(i <= m)
      <3>1. PICK j : j = i - m
        OBVIOUS
      <3>2. j \in DOMAIN t /\ u[i] = t[j]
        BY <1>4, <1>5, <2>2, <3>1
      <3> QED
        BY <3>2 DEF PlainSteps
    <2> QED
      BY <2>1, <2>2
  <1>7. u \in Seq({u[i] : i \in DOMAIN u})
    <2>1. PICK k, R : k = m + n /\ R = {u[i] : i \in DOMAIN u}
      OBVIOUS
    <2>2. k \in Nat /\ DOMAIN u = 1 .. k /\ u \in [1 .. k -> S \cup T]
      BY <1>4, <2>1
    <2>3. \A i \in 1 .. k : u[i] \in R
      BY <2>1, <2>2
    <2>4. u \in [1 .. k -> R]
      BY <2>2, <2>3
    <2>5. u \in Seq(R)
      BY <2>2, <2>4
    <2> QED
      BY <2>1, <2>5
  <1> QED
    BY <1>1, <1>6, <1>7 DEF PlainSteps

LEMMA PlainObserving ==
    ASSUME NEW s, PlainSteps(s)
    PROVE  Observing(s)
  <1>1. \A i \in DOMAIN s : Allowed(s[i]) /\ s[i].op \notin {"seen", "score", "baseline", "know"}
    BY DEF PlainSteps, Plain
  <1>2. Ordered(s)
    BY <1>1 DEF Ordered, Wrong
  <1>3. ~Has(s, "score") /\ ~Has(s, "baseline") /\ ~Has(s, "know")
    BY <1>1 DEF Has
  <1> QED
    BY <1>1, <1>2, <1>3 DEF Observing, PlainSteps

LEMMA ObservingBoth ==
    ASSUME NEW s, NEW t, Observing(s), Observing(t), PlainSteps(s) \/ PlainSteps(t)
    PROVE  Observing(s \o t)
  <1>1. PICK S, T, u : S = {s[i] : i \in DOMAIN s} /\ T = {t[i] : i \in DOMAIN t} /\ u = s \o t
    OBVIOUS
  <1>2. s \in Seq(S) /\ t \in Seq(T) /\ s \in Seq(S \cup T) /\ t \in Seq(S \cup T)
    <2>1. s \in Seq(S) /\ t \in Seq(T)
      BY <1>1 DEF Observing
    <2> QED
      BY <2>1
  <1>3. PICK m, n : m = Len(s) /\ n = Len(t)
    OBVIOUS
  <1>4. /\ m \in Nat /\ n \in Nat /\ DOMAIN s = 1 .. m /\ DOMAIN t = 1 .. n
        /\ u \in Seq(S \cup T) /\ Len(u) = m + n /\ DOMAIN u = 1 .. m + n
    BY <1>1, <1>2, <1>3
  <1>5. \A i \in 1 .. m + n : u[i] = IF i <= m THEN s[i] ELSE t[i - m]
    BY <1>1, <1>2, <1>3, <1>4
  <1>6. \A i \in DOMAIN u : \/ i \in DOMAIN s /\ u[i] = s[i] /\ i <= m
                            \/ \E j \in DOMAIN t : j = i - m /\ u[i] = t[j] /\ ~(i <= m)
    <2> SUFFICES ASSUME NEW i \in DOMAIN u
                 PROVE  \/ i \in DOMAIN s /\ u[i] = s[i] /\ i <= m
                        \/ \E j \in DOMAIN t : j = i - m /\ u[i] = t[j] /\ ~(i <= m)
      OBVIOUS
    <2>1. CASE i <= m
      BY <1>4, <1>5, <2>1
    <2>2. CASE ~(i <= m)
      <3>1. PICK j : j = i - m
        OBVIOUS
      <3>2. j \in DOMAIN t /\ u[i] = t[j]
        BY <1>4, <1>5, <2>2, <3>1
      <3> QED
        BY <2>2, <3>1, <3>2
    <2> QED
      BY <2>1, <2>2
  <1>7. \A i \in DOMAIN u : Allowed(u[i])
    BY <1>6 DEF Observing
  <1>8. u \in Seq({u[i] : i \in DOMAIN u})
    <2>1. PICK k, R : k = m + n /\ R = {u[i] : i \in DOMAIN u}
      OBVIOUS
    <2>2. k \in Nat /\ DOMAIN u = 1 .. k /\ u \in [1 .. k -> S \cup T]
      BY <1>4, <2>1
    <2>3. \A i \in 1 .. k : u[i] \in R
      BY <2>1, <2>2
    <2>4. u \in [1 .. k -> R]
      BY <2>2, <2>3
    <2>5. u \in Seq(R)
      BY <2>2, <2>4
    <2> QED
      BY <2>1, <2>5
  <1>9. Ordered(u)
    <2> SUFFICES ASSUME NEW i \in DOMAIN u, NEW j \in DOMAIN u, i < j PROVE ~Wrong(u[i].op, u[j].op)
      BY DEF Ordered
    <2>1. i \in Nat /\ j \in Nat
      BY <1>4
    <2>2. CASE i \in DOMAIN s /\ u[i] = s[i] /\ i <= m /\ j \in DOMAIN s /\ u[j] = s[j]
      BY <2>2 DEF Observing, Ordered
    <2>3. CASE ~(i <= m)
      <3>1. ~(j <= m)
        BY <1>4, <2>1, <2>3
      <3>2. PICK a \in DOMAIN t, b \in DOMAIN t : a = i - m /\ u[i] = t[a] /\ b = j - m /\ u[j] = t[b]
        BY <1>6, <2>3, <3>1
      <3>3. a < b
        BY <1>4, <2>1, <3>2
      <3> QED
        BY <3>2, <3>3 DEF Observing, Ordered
    <2>4. CASE i <= m /\ ~(j <= m)
      <3>1. i \in DOMAIN s /\ u[i] = s[i] /\ \E b \in DOMAIN t : u[j] = t[b]
        BY <1>6, <2>4
      <3>2. CASE PlainSteps(s)
        BY <3>1, <3>2 DEF PlainSteps, Plain, Wrong
      <3>3. CASE PlainSteps(t)
        BY <3>1, <3>3 DEF PlainSteps, Plain, Wrong
      <3> QED
        BY <3>2, <3>3
    <2> QED
      BY <1>6, <2>2, <2>3, <2>4
  <1>10. \A op : Has(u, op) => Has(s, op) \/ Has(t, op)
    BY <1>6 DEF Has
  <1>11. \A op : Has(s, op) \/ Has(t, op) => Has(u, op)
    <2>1. \A i \in DOMAIN s : i \in DOMAIN u /\ u[i] = s[i]
      BY <1>4, <1>5
    <2>2. ASSUME NEW i \in DOMAIN t PROVE \E j \in DOMAIN u : u[j] = t[i]
      <3>1. PICK j : j = i + m
        OBVIOUS
      <3>2. j \in DOMAIN u /\ ~(j <= m) /\ j - m = i
        BY <1>4, <3>1
      <3> QED
        BY <1>4, <1>5, <3>2
    <2> QED
      BY <2>1, <2>2 DEF Has
  <1>12. /\ Has(u, "score") => Has(u, "seen")
         /\ Has(u, "baseline") \/ Has(u, "know") => Has(u, "score")
    BY <1>10, <1>11 DEF Observing
  <1> QED
    BY <1>1, <1>7, <1>8, <1>9, <1>12 DEF Observing

LEMMA ReportPlain ==
    ASSUME NEW d, NEW who, d # "ja4_novelty"
    PROVE  Plain(Proto!Report(d, who))
  BY DEF Plain, Allowed, Proto!Report

LEMMA IfPlain ==
    ASSUME NEW s, NEW x, s = <<x>> \/ s = <<>>, Plain(x)
    PROVE  PlainSteps(s)
  BY PlainOne

LEMMA RarityPlain ==
    ASSUME NEW kind, NEW fp, NEW d, NEW who, d # "ja4_novelty"
    PROVE  PlainSteps(Proto!Rarity(kind, fp, d, who))
  <1>1. PICK k, x, y : /\ k = <<"fpseen", kind>> /\ x = [op |-> "look", key |-> k, fp |-> fp]
                       /\ y = [op |-> "keep", key |-> k, fp |-> fp, detector |-> d, who |-> who]
    OBVIOUS
  <1>2. k[1] = "fpseen" /\ x.op = "look" /\ y.op = "keep" /\ y.key = k /\ y.detector = d
    BY <1>1
  <1>3. Plain(x) /\ Plain(y)
    BY <1>2 DEF Plain, Allowed
  <1>4. PlainSteps(<<>>)
    BY PlainOne
  <1>5. PICK s : s = <<x, y>>
    OBVIOUS
  <1>6. PlainSteps(s)
    <2>1. DOMAIN s = {1, 2} /\ s[1] = x /\ s[2] = y
      BY <1>5
    <2>2. {s[i] : i \in DOMAIN s} = {x, y}
      BY <2>1
    <2>3. s \in Seq({x, y})
      BY <1>5
    <2> QED
      BY <1>3, <2>1, <2>2, <2>3 DEF PlainSteps
  <1>7. \/ Proto!Rarity(kind, fp, d, who) = <<>>
        \/ Proto!Rarity(kind, fp, d, who) = <<x, y>>
    BY <1>1 DEF Proto!Rarity
  <1> QED
    BY <1>4, <1>5, <1>6, <1>7

LEMMA ObserveObserving ==
    ASSUME NEW e
    PROVE  Observing(Proto!Observe(e))
  <1>1. PICK s, ops : /\ s = Proto!Observe(e)
                      /\ ops = <<"seen", "score", "burst", "baseline", "know", "context">>
    OBVIOUS
  <1>2. s = [i \in 1 .. 6 |-> [op |-> ops[i]]]
    BY <1>1 DEF Proto!Observe
  <1>3. \A i \in 1 .. 6 : ops[i] \notin {"keep", "report", "send"}
    BY <1>1
  <1>4. DOMAIN s = 1 .. 6 /\ \A i \in 1 .. 6 : s[i].op = ops[i]
    BY <1>2
  <1>5. \A i \in 1 .. 6 : Allowed(s[i])
    BY <1>3, <1>4 DEF Allowed
  <1>6. s \in Seq({s[i] : i \in DOMAIN s})
    <2>1. PICK R, k : R = {s[i] : i \in DOMAIN s} /\ k = 6
      OBVIOUS
    <2>2. s = [i \in 1 .. k |-> s[i]]
      BY <1>2, <2>1
    <2>3. \A i \in 1 .. k : s[i] \in R
      BY <1>4, <2>1
    <2>4. s \in [1 .. k -> R] /\ k \in Nat
      BY <2>1, <2>2, <2>3
    <2>5. s \in Seq(R)
      BY <2>4
    <2> QED
      BY <2>1, <2>5
  <1>7. \A i, j \in 1 .. 6 : i < j => ~Wrong(ops[i], ops[j])
    BY <1>1 DEF Wrong
  <1>8. Ordered(s)
    BY <1>4, <1>7 DEF Ordered
  <1>9. Has(s, "seen") /\ Has(s, "score")
    <2>1. 1 \in DOMAIN s /\ s[1].op = "seen" /\ 2 \in DOMAIN s /\ s[2].op = "score"
      BY <1>1, <1>4
    <2> QED
      BY <2>1 DEF Has
  <1> QED
    BY <1>1, <1>4, <1>5, <1>6, <1>8, <1>9 DEF Observing

LEMMA HelloObserving ==
    ASSUME NEW e
    PROVE  Observing(Proto!Hello(e))
  <1>1. PICK a, b, c, d, k :
          /\ a = (IF Proto!ja4_valid(e.ja4) THEN IF e.src = Proto!Missing THEN <<>> ELSE Proto!Observe(e)
                  ELSE Proto!Rarity("ja3", e.ja3, "ja4_rarity", <<e.ja3, e.type, e.src, e.sni, e.cid>>))
          /\ b = Proto!Rarity(e.skind, e.server, "server_fp_rarity", <<e.server, e.dst, e.sni, e.cid>>)
          /\ c = Proto!If(Proto!cloud_staging_hit(e.sni), Proto!Report("cloud_staging", <<e.src, e.sni>>))
          /\ d = Proto!If(Proto!doh_hit(e.sni, e.port), Proto!Report("doh_detect", <<e.src, e.sni>>))
          /\ k = (IF e.type = "quic" THEN <<>>
                  ELSE Proto!If(Proto!cert_anomaly(e.cert), Proto!Report("tls_cert_anomaly", <<e.dst, e.sni, e.cid>>))
                       \o Proto!If(e.ech, Proto!Report("ech_sni_mismatch", <<e.src, e.dst, "ech", e.cid>>))
                       \o Proto!If(e.cid # Proto!Missing /\ e.sni # Proto!Missing, [op |-> "sni"]))
    OBVIOUS
  <1>2. Observing(a)
    <2>1. Observing(<<>>)
      BY PlainOne, PlainObserving
    <2>2. Observing(Proto!Rarity("ja3", e.ja3, "ja4_rarity", <<e.ja3, e.type, e.src, e.sni, e.cid>>))
      BY RarityPlain, PlainObserving
    <2> QED
      BY <1>1, <2>1, <2>2, ObserveObserving
  <1>3. PlainSteps(b)
    BY <1>1, RarityPlain
  <1>4. PlainSteps(c)
    <2>1. PICK x : x = Proto!Report("cloud_staging", <<e.src, e.sni>>)
      OBVIOUS
    <2>2. Plain(x)
      BY <2>1, ReportPlain
    <2>3. c = <<x>> \/ c = <<>>
      BY <1>1, <2>1 DEF Proto!If
    <2> QED
      BY <2>2, <2>3, IfPlain
  <1>5. PlainSteps(d)
    <2>1. PICK x : x = Proto!Report("doh_detect", <<e.src, e.sni>>)
      OBVIOUS
    <2>2. Plain(x)
      BY <2>1, ReportPlain
    <2>3. d = <<x>> \/ d = <<>>
      BY <1>1, <2>1 DEF Proto!If
    <2> QED
      BY <2>2, <2>3, IfPlain
  <1>6. PlainSteps(k)
    <2>1. PICK x, y, z : /\ x = Proto!Report("tls_cert_anomaly", <<e.dst, e.sni, e.cid>>)
                         /\ y = Proto!Report("ech_sni_mismatch", <<e.src, e.dst, "ech", e.cid>>)
                         /\ z = [op |-> "sni"]
      OBVIOUS
    <2>2. Plain(x) /\ Plain(y)
      BY <2>1, ReportPlain
    <2>3. Plain(z)
      BY <2>1 DEF Plain, Allowed
    <2>4. PICK u, v, w : /\ u = Proto!If(Proto!cert_anomaly(e.cert), x) /\ v = Proto!If(e.ech, y)
                         /\ w = Proto!If(e.cid # Proto!Missing /\ e.sni # Proto!Missing, z)
      OBVIOUS
    <2>5. (u = <<x>> \/ u = <<>>) /\ (v = <<y>> \/ v = <<>>) /\ (w = <<z>> \/ w = <<>>)
      BY <2>4 DEF Proto!If
    <2>6. PlainSteps(u) /\ PlainSteps(v) /\ PlainSteps(w) /\ PlainSteps(<<>>)
      BY <2>2, <2>3, <2>5, IfPlain, PlainOne
    <2>7. PlainSteps(u \o v)
      BY <2>6, PlainBoth
    <2>8. PlainSteps(u \o v \o w)
      BY <2>6, <2>7, PlainBoth
    <2>9. k = <<>> \/ k = u \o v \o w
      BY <1>1, <2>1, <2>4
    <2> QED
      BY <2>6, <2>8, <2>9
  <1>7. Observing(a \o b)
    BY <1>2, <1>3, PlainObserving, ObservingBoth
  <1>8. Observing(a \o b \o c)
    BY <1>7, <1>4, PlainObserving, ObservingBoth
  <1>9. Observing(a \o b \o c \o d)
    BY <1>8, <1>5, PlainObserving, ObservingBoth
  <1>10. Observing(a \o b \o c \o d \o k)
    BY <1>9, <1>6, PlainObserving, ObservingBoth
  <1>11. Proto!Hello(e) = a \o b \o c \o d \o k
    BY <1>1 DEF Proto!Hello
  <1> QED
    BY <1>10, <1>11

LEMMA StepsObserving ==
    ASSUME NEW e
    PROVE  Observing(Proto!Steps(e))
  <1>1. PICK app : app = IF e.app = Proto!Missing THEN e.type ELSE e.app
    OBVIOUS
  <1> DEFINE pair == e.src # Proto!Missing /\ e.dst # Proto!Missing
  <1>2. PICK x, y, z, u, v : /\ x = Proto!Report("port_proto_mismatch", <<e.src, e.dst, app, e.cid>>)
                             /\ y = Proto!Report("suspicious_ua", <<e.src, e.dst, e.ua>>)
                             /\ z = [op |-> "host"] /\ u = [op |-> "ssh"] /\ v = [op |-> "bytes"]
    OBVIOUS
  <1>3. Plain(x) /\ Plain(y)
    BY <1>2, ReportPlain
  <1>4. Plain(z) /\ Plain(u) /\ Plain(v)
    BY <1>2 DEF Plain, Allowed
  <1>5. PICK a, b, d, k, g, h :
          /\ a = Proto!If(pair /\ Proto!Mismatch(app, e.port), x)
          /\ b = (IF e.type \in {"tls", "quic"} THEN Proto!Hello(e) ELSE <<>>)
          /\ g = Proto!If(Proto!suspicious_ua(e.ua) /\ e.external, y)
          /\ h = Proto!If(e.cid # Proto!Missing /\ e.host # Proto!Missing, z)
          /\ d = Proto!If(pair /\ (e.type = "ssh" \/ (e.type = "flow" /\ e.port = 22)), u)
          /\ k = Proto!If(pair /\ e.type = "flow", v)
    OBVIOUS
  <1>c. PICK c : c = IF e.type = "http" THEN g \o h ELSE <<>>
    OBVIOUS
  <1>6. /\ (a = <<x>> \/ a = <<>>) /\ (g = <<y>> \/ g = <<>>) /\ (h = <<z>> \/ h = <<>>)
        /\ (d = <<u>> \/ d = <<>>) /\ (k = <<v>> \/ k = <<>>)
    BY <1>5 DEF Proto!If
  <1>7. PlainSteps(a) /\ PlainSteps(g) /\ PlainSteps(h) /\ PlainSteps(d) /\ PlainSteps(k) /\ PlainSteps(<<>>)
    BY <1>3, <1>4, <1>6, IfPlain, PlainOne
  <1>8. PlainSteps(g \o h)
    BY <1>7, PlainBoth
  <1>9. Observing(b) /\ PlainSteps(c)
    BY <1>5, <1>c, <1>7, <1>8, HelloObserving, PlainObserving
  <1>10. Observing(a \o b)
    BY <1>7, <1>9, PlainObserving, ObservingBoth
  <1>11. Observing(a \o b \o c)
    BY <1>9, <1>10, PlainObserving, ObservingBoth
  <1>12. Observing(a \o b \o c \o d)
    BY <1>7, <1>11, PlainObserving, ObservingBoth
  <1>13. Observing(a \o b \o c \o d \o k)
    BY <1>7, <1>12, PlainObserving, ObservingBoth
  <1>14. Proto!Steps(e) = a \o b \o c \o d \o k
    BY <1>1, <1>2, <1>5, <1>c DEF Proto!Steps
  <1> QED
    BY <1>13, <1>14

Of(p, kind, src) == p.kind = kind /\ p.key = <<src>>
Writes(src, first) == {p \in past : Of(p, "baseline", src) /\ p.at >= first}

\* The source has been active since `first`, so many times, and up to `until` without a gap.
Since(src, n, first, until) ==
    /\ n \in Nat /\ first \in Nat /\ \E f \in past : Of(f, "baseline", src) /\ f.at = first
    /\ Cardinality(Writes(src, first)) >= n
    /\ \A t \in first + 1 .. until : \E p \in past : Of(p, "baseline", src) /\ p.at < t /\ t <= p.at + BaselineTTL

\* What a novelty says held when it was found, as far as its handler could know.
Justified(c) ==
    c.id[1] = "ja4_novelty" =>
        /\ c.at \in Nat /\ c.mark \in Nat /\ c.mark <= Cardinality(past)
        /\ \E f \in past : Since(c.id[2][1], MinObservations, f.at, c.at) /\ c.at - f.at >= MinSpan
        /\ ~\E p \in past : /\ Of(p, "know", c.id[2][1]) /\ p.fp = c.id[2][2]
                            /\ p.no <= c.mark /\ p.at + BaselineTTL >= c.at

StepOK(s) ==
    /\ s.op = "keep" => s.key[1] = "fpseen" /\ s.detector # "ja4_novelty"
    /\ s.op = "report" => s.detector # "ja4_novelty"
    /\ s.op = "send" => Justified(s.c)

\* No baseline, or one that its writes bear out up to now.
BaseOK(src, base) ==
    \/ base.n = 0 /\ base.first = -1
    \/ Since(src, base.n, base.first, now)
\* Nothing read, or all that was learned before the handler began and is not forgotten.
SeenOK(src, seen, mark) ==
    \/ seen = {}
    \/ \A p \in past : Of(p, "know", src) /\ p.no <= mark /\ p.at + BaselineTTL >= now => p.fp \in seen

Tasks(s) == s \in Seq({s[i] : i \in DOMAIN s}) /\ \A i \in DOMAIN s : StepOK(s[i])
Handler(h) ==
    /\ h = [e |-> h.e, steps |-> h.steps, seen |-> h.seen, ac |-> h.ac, base |-> h.base, rare |-> h.rare, mark |-> h.mark]
    /\ Tasks(h.steps) /\ h.mark \in Nat /\ h.mark <= Cardinality(past)
    /\ BaseOK(h.e.src, h.base) /\ SeenOK(h.e.src, h.seen, h.mark)

\* What has been written is numbered, ...
PastOK ==
    /\ now \in Nat /\ IsFiniteSet(past)
    /\ \A p \in past : p.no \in Nat /\ p.no <= Cardinality(past) /\ p.at \in Nat /\ p.at <= now
\* ... the baselines rest on it, ...
KvOK == \A b \in kv : b.exp \in Nat /\ Since(b.src, b.n, b.first, b.exp)
\* ... and what was learned can be read until it is forgotten.
Learned(S) ==
    /\ \A x \in S : x.exp \in Nat
    /\ \A p \in past : Of(p, "know", p.key[1]) /\ p.at + BaselineTTL >= now =>
          \E x \in S : x.key = Proto!Known(p.key[1]) /\ x.member = p.fp /\ x.exp >= p.at + BaselineTTL
HandsOK == DOMAIN hand = Replicas /\ \A h \in {hand[r] : r \in Replicas} : h.steps # <<>> => Handler(h)
NoveltyInv == PastOK /\ KvOK /\ Learned(sets) /\ HandsOK /\ \A c \in emitted : Justified(c)

LEMMA SameCount == \A S : Proto!Cardinality(S) = Cardinality(S)
  BY DEF Proto!Cardinality, Cardinality

\* Writes that come later take nothing back.
LEMMA PastGrows ==
    ASSUME PastOK, IsFiniteSet(past)', past \subseteq past',
           \A p \in past' : p \in past \/ (p.no \in Nat /\ p.no > Cardinality(past))
    PROVE  /\ Cardinality(past) \in Nat /\ Cardinality(past)' \in Nat /\ Cardinality(past) <= Cardinality(past)'
           /\ \A src, n, first, until : Since(src, n, first, until) => Since(src, n, first, until)'
           /\ \A c : Justified(c) => Justified(c)'
           /\ \A s : StepOK(s) => StepOK(s)'
  <1>1. IsFiniteSet(past) /\ IsFiniteSet(past')
    BY DEF PastOK
  <1>2. Cardinality(past) \in Nat /\ Cardinality(past') \in Nat /\ Cardinality(past) <= Cardinality(past')
    BY <1>1, FS_Subset, FS_CardinalityType
  <1>3. ASSUME NEW src, NEW n, NEW first, NEW until, Since(src, n, first, until)
        PROVE  Since(src, n, first, until)'
    <2>1. Writes(src, first) \subseteq Writes(src, first)' /\ Writes(src, first)' \subseteq past'
      BY DEF Writes, Of
    <2>2. IsFiniteSet(Writes(src, first)')
      BY <1>1, <2>1, FS_Subset
    <2>3. /\ Cardinality(Writes(src, first)) <= Cardinality(Writes(src, first)')
          /\ Cardinality(Writes(src, first)) \in Nat /\ Cardinality(Writes(src, first)') \in Nat
      BY <2>1, <2>2, FS_Subset, FS_CardinalityType
    <2>4. n \in Nat /\ first \in Nat /\ Cardinality(Writes(src, first)) >= n
      BY <1>3 DEF Since
    <2>5. Cardinality(Writes(src, first)') >= n
      BY <2>3, <2>4
    <2>6. \E f \in past' : Of(f, "baseline", src) /\ f.at = first
      BY <1>3 DEF Since
    <2>7. \A t \in first + 1 .. until : \E p \in past' : Of(p, "baseline", src) /\ p.at < t /\ t <= p.at + BaselineTTL
      BY <1>3 DEF Since
    <2> QED
      BY <2>4, <2>5, <2>6, <2>7 DEF Since, Of
  <1>4. ASSUME NEW c, Justified(c) PROVE Justified(c)'
    <2> SUFFICES ASSUME c.id[1] = "ja4_novelty"
                 PROVE  /\ c.at \in Nat /\ c.mark \in Nat /\ c.mark <= Cardinality(past')
                        /\ \E f \in past' : Since(c.id[2][1], MinObservations, f.at, c.at)' /\ c.at - f.at >= MinSpan
                        /\ ~\E p \in past' : /\ Of(p, "know", c.id[2][1]) /\ p.fp = c.id[2][2]
                                             /\ p.no <= c.mark /\ p.at + BaselineTTL >= c.at
      BY DEF Justified, Of
    <2>1. c.at \in Nat /\ c.mark \in Nat /\ c.mark <= Cardinality(past)
      BY <1>4 DEF Justified
    <2>2. c.mark <= Cardinality(past')
      BY <1>2, <2>1
    <2>3. PICK f \in past : Since(c.id[2][1], MinObservations, f.at, c.at) /\ c.at - f.at >= MinSpan
      BY <1>4 DEF Justified
    <2>4. Since(c.id[2][1], MinObservations, f.at, c.at)'
      BY <1>3, <2>3
    <2>5. ASSUME NEW p \in past', Of(p, "know", c.id[2][1]), p.fp = c.id[2][2], p.no <= c.mark,
                 p.at + BaselineTTL >= c.at
          PROVE  FALSE
      <3>1. p \in past
        <4>1. PICK m, k, a : m = c.mark /\ k = Cardinality(past) /\ a = p.no
          OBVIOUS
        <4>2. m \in Nat /\ k \in Nat /\ m <= k /\ a <= m
          BY <1>2, <2>1, <2>5, <4>1
        <4>3. ~(a \in Nat /\ a > k)
          BY <4>2
        <4> QED
          BY <4>1, <4>3
      <3> QED
        BY <1>4, <2>5, <3>1 DEF Justified
    <2> QED
      BY <2>1, <2>2, <2>3, <2>4, <2>5
  <1>5. ASSUME NEW s, StepOK(s) PROVE StepOK(s)'
    BY <1>4, <1>5 DEF StepOK
  <1> QED
    BY <1>2, <1>3, <1>4, <1>5

\* So does a handler's knowledge, while the clock stands.
LEMMA HandlerKeeps ==
    ASSUME PastOK, IsFiniteSet(past)', past \subseteq past',
           \A p \in past' : p \in past \/ (p.no \in Nat /\ p.no > Cardinality(past)), now' = now, NEW h, Handler(h)
    PROVE  Handler(h)'
  <1>1. h.mark \in Nat /\ h.mark <= Cardinality(past)'
    <2>1. PICK m, k, a : m = h.mark /\ k = Cardinality(past) /\ a = Cardinality(past)'
      OBVIOUS
    <2>2. m \in Nat /\ m <= k /\ k \in Nat /\ a \in Nat /\ k <= a
      BY <2>1, PastGrows DEF Handler
    <2> QED
      BY <2>1, <2>2
  <1>2. BaseOK(h.e.src, h.base)'
    <2>1. CASE h.base.n = 0 /\ h.base.first = -1
      BY <2>1 DEF BaseOK
    <2>2. CASE Since(h.e.src, h.base.n, h.base.first, now)
      <3>1. Since(h.e.src, h.base.n, h.base.first, now)'
        <4>1. PICK t : t = now
          OBVIOUS
        <4>2. Since(h.e.src, h.base.n, h.base.first, t)
          BY <2>2, <4>1
        <4>3. Since(h.e.src, h.base.n, h.base.first, t)'
          BY <4>2, PastGrows
        <4> QED
          BY <4>1, <4>3 DEF Since, Writes, Of
      <3> QED
        BY <3>1 DEF BaseOK
    <2> QED
      BY <2>1, <2>2 DEF Handler, BaseOK
  <1>3. SeenOK(h.e.src, h.seen, h.mark)'
    <2>1. CASE h.seen = {}
      BY <2>1 DEF SeenOK
    <2>2. CASE h.seen # {}
      <3>1. ASSUME NEW p \in past', Of(p, "know", h.e.src), p.no <= h.mark, p.at + BaselineTTL >= now
            PROVE  p.fp \in h.seen
        <4>1. PICK m, k, a : m = h.mark /\ k = Cardinality(past) /\ a = p.no
          OBVIOUS
        <4>2. m \in Nat /\ k \in Nat /\ m <= k /\ a <= m
          BY <3>1, <4>1, PastGrows DEF Handler
        <4>3. ~(a \in Nat /\ a > k)
          BY <4>2
        <4>4. p \in past
          BY <4>1, <4>3
        <4> QED
          BY <2>2, <3>1, <4>4 DEF Handler, SeenOK
      <3> QED
        BY <3>1 DEF SeenOK, Of
    <2> QED
      BY <2>1, <2>2
  <1>4. Tasks(h.steps)'
    BY PastGrows DEF Handler, Tasks
  <1> QED
    BY <1>1, <1>2, <1>3, <1>4 DEF Handler

\* What one step writes.
LEMMA WroteFacts ==
    ASSUME PastOK, now' = now, NEW r, NEW kind, NEW key, NEW fp, NEW n, past' = Proto!Wrote(r, kind, key, fp, n)
    PROVE  /\ PastOK' /\ past \subseteq past' /\ \A p \in past' : p \in past \/ (p.no \in Nat /\ p.no > Cardinality(past))
           /\ \E q : /\ past' = past \cup {q} /\ q \notin past /\ q.kind = kind /\ q.key = key /\ q.fp = fp /\ q.at = now
                     /\ q.no = Cardinality(past) + 1 /\ q.mark = hand[r].mark
  <1>1. PICK k : k = Cardinality(past)
    OBVIOUS
  <1>2. k \in Nat /\ IsFiniteSet(past) /\ now \in Nat
    BY <1>1, FS_CardinalityType DEF PastOK
  <1>3. PICK q : q = [kind |-> kind, key |-> key, fp |-> fp, n |-> n, at |-> now, no |-> k + 1, mark |-> hand[r].mark]
    OBVIOUS
  <1>4. q.kind = kind /\ q.key = key /\ q.fp = fp /\ q.at = now /\ q.no = k + 1 /\ q.mark = hand[r].mark
    BY <1>3
  <1>5. past' = past \cup {q}
    <2>1. PICK k1 : k1 = k + 1
      OBVIOUS
    <2>2. Cardinality(past) + 1 = k1
      BY <1>1, <2>1
    <2>3. past' = past \cup {[kind |-> kind, key |-> key, fp |-> fp, n |-> n, at |-> now, no |-> Cardinality(past) + 1,
                             mark |-> hand[r].mark]}
      BY SameCount DEF Proto!Wrote
    <2> QED
      BY <1>3, <2>1, <2>2, <2>3, Zenon
  <1>6. \A p \in past : p.no \in Nat /\ p.no <= k /\ p.at \in Nat /\ p.at <= now
    BY <1>1 DEF PastOK
  <1>7. q \notin past
    <2> SUFFICES ASSUME q \in past PROVE FALSE
      OBVIOUS
    <2>1. PICK a : a = q.no
      OBVIOUS
    <2>2. a \in Nat /\ a <= k /\ a = k + 1
      BY <1>4, <1>6, <2>1
    <2> QED
      BY <1>2, <2>2
  <1>8. IsFiniteSet(past') /\ Cardinality(past') = k + 1
    BY <1>1, <1>2, <1>5, <1>7, FS_AddElement
  <1>9. k + 1 \in Nat /\ k + 1 > k /\ k + 1 <= k + 1 /\ now <= now
    BY <1>2
  <1>10. \A p \in past' : p.no \in Nat /\ p.no <= k + 1 /\ p.at \in Nat /\ p.at <= now
    BY <1>2, <1>4, <1>5, <1>6, <1>9
  <1>11. PastOK'
    BY <1>2, <1>8, <1>10 DEF PastOK
  <1>12. \A p \in past' : p \in past \/ (p.no \in Nat /\ p.no > k)
    <2>1. q.no \in Nat /\ q.no > k
      BY <1>4, <1>9
    <2> QED
      BY <1>5, <2>1
  <1>13. past \subseteq past'
    BY <1>5
  <1> QED
    BY <1>1, <1>4, <1>5, <1>7, <1>11, <1>12, <1>13

LEMMA TasksLeft ==
    ASSUME NEW s, s # <<>>, Tasks(s)
    PROVE  StepOK(Head(s)) /\ Tasks(Tail(s))
  <1>1. PICK S, t, l : S = {s[i] : i \in DOMAIN s} /\ t = Tail(s) /\ l = Len(s)
    OBVIOUS
  <1>2. s \in Seq(S)
    BY <1>1 DEF Tasks
  <1>3. /\ l \in Nat \ {0} /\ DOMAIN s = 1 .. l /\ Head(s) = s[1] /\ t \in Seq(S) /\ Len(t) = l - 1
        /\ DOMAIN t = 1 .. (l - 1) /\ \A i \in 1 .. (l - 1) : t[i] = s[i + 1]
    BY <1>1, <1>2
  <1>4. StepOK(Head(s))
    BY <1>3 DEF Tasks
  <1>5. \A i \in DOMAIN t : StepOK(t[i])
    <2> SUFFICES ASSUME NEW i \in DOMAIN t PROVE StepOK(t[i])
      OBVIOUS
    <2>1. PICK j : j = i + 1
      OBVIOUS
    <2>2. j \in DOMAIN s /\ t[i] = s[j]
      BY <1>3, <2>1
    <2> QED
      BY <2>2 DEF Tasks
  <1>6. t \in Seq({t[i] : i \in DOMAIN t})
    <2>1. PICK k, R : k = l - 1 /\ R = {t[i] : i \in DOMAIN t}
      OBVIOUS
    <2>2. k \in Nat /\ DOMAIN t = 1 .. k /\ t \in [1 .. k -> S]
      BY <1>3, <2>1
    <2>3. \A i \in 1 .. k : t[i] \in R
      BY <2>1, <2>2
    <2>4. t \in [1 .. k -> R]
      BY <2>2, <2>3
    <2>5. t \in Seq(R)
      BY <2>2, <2>4
    <2> QED
      BY <2>1, <2>5
  <1> QED
    BY <1>1, <1>4, <1>5, <1>6 DEF Tasks

LEMMA TasksMore ==
    ASSUME NEW s, NEW x, StepOK(x), Tasks(s)
    PROVE  Tasks(<<x>> \o s)
  <1>1. PICK S, l, u : S = {x} \cup {s[i] : i \in DOMAIN s} /\ l = Len(s) /\ u = <<x>> \o s
    OBVIOUS
  <1>2. s \in Seq(S) /\ <<x>> \in Seq(S)
    <2>1. s \in Seq({s[i] : i \in DOMAIN s})
      BY DEF Tasks
    <2> QED
      BY <1>1, <2>1
  <1>3. l \in Nat /\ DOMAIN s = 1 .. l /\ u \in Seq(S) /\ Len(u) = l + 1 /\ DOMAIN u = 1 .. l + 1
    BY <1>1, <1>2
  <1>4. \A i \in 1 .. l + 1 : u[i] = IF i <= 1 THEN x ELSE s[i - 1]
    BY <1>1, <1>2, <1>3
  <1>5. \A i \in DOMAIN u : StepOK(u[i])
    <2> SUFFICES ASSUME NEW i \in DOMAIN u PROVE StepOK(u[i])
      OBVIOUS
    <2>1. CASE i <= 1
      BY <1>3, <1>4, <2>1
    <2>2. CASE ~(i <= 1)
      <3>1. PICK j : j = i - 1
        OBVIOUS
      <3>2. j \in DOMAIN s /\ u[i] = s[j]
        BY <1>3, <1>4, <2>2, <3>1
      <3> QED
        BY <3>2 DEF Tasks
    <2> QED
      BY <2>1, <2>2
  <1>6. u \in Seq({u[i] : i \in DOMAIN u})
    <2>1. PICK k, R : k = l + 1 /\ R = {u[i] : i \in DOMAIN u}
      OBVIOUS
    <2>2. k \in Nat /\ DOMAIN u = 1 .. k /\ u \in [1 .. k -> S]
      BY <1>3, <2>1
    <2>3. \A i \in 1 .. k : u[i] \in R
      BY <2>1, <2>2
    <2>4. u \in [1 .. k -> R]
      BY <2>2, <2>3
    <2>5. u \in Seq(R)
      BY <2>2, <2>4
    <2> QED
      BY <2>1, <2>5
  <1> QED
    BY <1>1, <1>5, <1>6 DEF Tasks

\* An emission adds the candidate to what its handler has left to do.
Candidate(h, detector, who) == [id |-> <<detector, who, now \div Bucket>>, at |-> now, mark |-> h.mark]
Sending(h, c) == [h EXCEPT !.steps = <<[op |-> "send", c |-> c]>> \o @]

LEMMA EmitTasks ==
    ASSUME NEW r, NEW h, NEW detector, NEW who, Handler(h),
           \/ hand' = [hand EXCEPT ![r] = h]
           \/ /\ hand' = [hand EXCEPT ![r] = Sending(h, Candidate(h, detector, who))]
              /\ detector # "ja4_novelty" \/ Justified(Candidate(h, detector, who))
    PROVE  \E g : hand' = [hand EXCEPT ![r] = g] /\ Handler(g)
  <1>1. PICK c, send : c = Candidate(h, detector, who) /\ send = [op |-> "send", c |-> c]
    OBVIOUS
  <1>2. CASE hand' = [hand EXCEPT ![r] = h]
    BY <1>2
  <1>3. CASE /\ hand' = [hand EXCEPT ![r] = Sending(h, Candidate(h, detector, who))]
             /\ detector # "ja4_novelty" \/ Justified(Candidate(h, detector, who))
    <2>1. c.id[1] = detector /\ send.op = "send" /\ send.c = c
      BY <1>1 DEF Candidate
    <2>2. Justified(c)
      <3>1. CASE detector # "ja4_novelty"
        BY <2>1, <3>1 DEF Justified
      <3>2. CASE Justified(Candidate(h, detector, who))
        BY <1>1, <3>2
      <3> QED
        BY <1>3, <3>1, <3>2
    <2>3. StepOK(send)
      BY <2>1, <2>2 DEF StepOK
    <2>4. PICK steps, g : steps = <<send>> \o h.steps /\ g = [h EXCEPT !.steps = steps]
      OBVIOUS
    <2>5. Tasks(steps)
      BY <2>3, <2>4, TasksMore DEF Handler
    <2>6. g = [e |-> h.e, steps |-> steps, seen |-> h.seen, ac |-> h.ac, base |-> h.base, rare |-> h.rare,
               mark |-> h.mark]
      BY <2>4 DEF Handler
    <2>7. /\ g.e = h.e /\ g.steps = steps /\ g.seen = h.seen /\ g.ac = h.ac /\ g.base = h.base /\ g.rare = h.rare
          /\ g.mark = h.mark
      BY <2>6
    <2>8. Handler(g)
      BY <2>5, <2>6, <2>7 DEF Handler
    <2>9. g = Sending(h, Candidate(h, detector, who))
      BY <1>1, <2>4 DEF Sending
    <2> QED
      BY <1>3, <2>8, <2>9
  <1> QED
    BY <1>2, <1>3

LEMMA EmitCases ==
    ASSUME NEW r, NEW h, NEW hit, NEW detector, NEW who, Proto!Emit(r, h, hit, detector, who)
    PROVE  \/ hand' = [hand EXCEPT ![r] = h]
           \/ hit /\ hand' = [hand EXCEPT ![r] = Sending(h, Candidate(h, detector, who))]
  BY DEF Proto!Emit, Sending, Candidate

\* What every step of a handler leaves: its own handler in order, and the others'.
Later == /\ PastOK' /\ now' = now /\ past \subseteq past'
         /\ \A p \in past' : p \in past \/ (p.no \in Nat /\ p.no > Cardinality(past))

LEMMA HandsAfter ==
    ASSUME PastOK, HandsOK, Later, NEW r \in Replicas, NEW h, hand' = [hand EXCEPT ![r] = h],
           h.steps # <<>> => Handler(h)
    PROVE  HandsOK'
  <1>1. DOMAIN hand' = Replicas
    BY DEF HandsOK
  <1>2. \A g : Handler(g) => Handler(g)'
    BY HandlerKeeps DEF Later, PastOK
  <1>3. ASSUME NEW g \in {hand'[q] : q \in Replicas}, g.steps # <<>> PROVE Handler(g)'
    <2>1. g = h \/ g \in {hand[q] : q \in Replicas}
      <3>1. PICK q \in Replicas : g = hand'[q]
        BY <1>3
      <3>2. CASE q = r
        BY <3>1, <3>2 DEF HandsOK
      <3>3. CASE q # r
        BY <3>1, <3>3 DEF HandsOK
      <3> QED
        BY <3>2, <3>3
    <2>2. Handler(g)
      BY <1>3, <2>1 DEF HandsOK
    <2> QED
      BY <1>2, <2>2
  <1> QED
    BY <1>1, <1>3 DEF HandsOK

LEMMA RestAfter ==
    ASSUME PastOK, Later
    PROVE  /\ KvOK /\ kv' = kv => KvOK'
           /\ (\A c \in emitted : Justified(c)) /\ emitted' = emitted => (\A c \in emitted : Justified(c))'
           /\ \A c : Justified(c) => Justified(c)'
  <1>1. /\ \A src, n, first, until : Since(src, n, first, until) => Since(src, n, first, until)'
        /\ \A c : Justified(c) => Justified(c)'
    BY PastGrows DEF Later, PastOK
  <1>2. ASSUME KvOK, kv' = kv PROVE KvOK'
    <2> SUFFICES ASSUME NEW b \in kv PROVE b.exp \in Nat /\ Since(b.src, b.n, b.first, b.exp)'
      BY <1>2 DEF KvOK
    <2> QED
      BY <1>1, <1>2 DEF KvOK
  <1> QED
    BY <1>1, <1>2

LEMMA LaterSame ==
    ASSUME PastOK, UNCHANGED <<now, past>>
    PROVE  Later
  BY DEF Later, PastOK

\* Entries of other keys do not disturb what is known of a source.
LEMMA LearnedWith ==
    ASSUME PastOK, NEW S, Learned(S), NEW key, NEW member, NEW ttl \in Nat, key[1] # "seen"
    PROVE  Learned(Proto!With(S, key, member, ttl))
  <1>1. PICK T, new : /\ new = [key |-> key, member |-> member, exp |-> now + ttl]
                      /\ T = {x \in S : ~(x.key = key /\ x.member = member)} \cup {new}
    OBVIOUS
  <1>2. T = Proto!With(S, key, member, ttl)
    BY <1>1 DEF Proto!With
  <1>3. new.exp \in Nat
    BY <1>1 DEF PastOK
  <1>4. \A x \in T : x.exp \in Nat
    BY <1>1, <1>3 DEF Learned
  <1>5. ASSUME NEW p \in past, Of(p, "know", p.key[1]), p.at + BaselineTTL >= now
        PROVE  \E x \in T : x.key = Proto!Known(p.key[1]) /\ x.member = p.fp /\ x.exp >= p.at + BaselineTTL
    <2>1. PICK x \in S : x.key = Proto!Known(p.key[1]) /\ x.member = p.fp /\ x.exp >= p.at + BaselineTTL
      BY <1>5 DEF Learned
    <2>2. x.key # key
      BY <2>1 DEF Proto!Known
    <2> QED
      BY <1>1, <2>1, <2>2
  <1> QED
    BY <1>2, <1>4, <1>5 DEF Learned

LEMMA LearnedAfter ==
    ASSUME Learned(sets'), Later, \A p \in past' : p \in past \/ ~Of(p, "know", p.key[1])
    PROVE  Learned(sets)'
  <1>1. now' = now
    BY DEF Later
  <1>2. \A p \in past' : Of(p, "know", p.key[1]) /\ p.at + BaselineTTL >= now' =>
          \E x \in sets' : x.key = Proto!Known(p.key[1]) /\ x.member = p.fp /\ x.exp >= p.at + BaselineTTL
    BY <1>1 DEF Learned
  <1>3. \A x \in sets' : x.exp \in Nat
    BY DEF Learned
  <1> QED
    BY <1>2, <1>3 DEF Learned, Of, Proto!Known

LEMMA StepDone ==
    ASSUME NoveltyInv, Later, NEW r \in Replicas, NEW h, hand' = [hand EXCEPT ![r] = h],
           h.steps # <<>> => Handler(h), KvOK', Learned(sets)', (\A c \in emitted : Justified(c))'
    PROVE  NoveltyInv'
  <1>1. PastOK /\ HandsOK
    BY DEF NoveltyInv
  <1>2. HandsOK'
    BY <1>1, HandsAfter
  <1>3. PastOK'
    BY DEF Later
  <1> QED
    BY <1>2, <1>3 DEF NoveltyInv

\* A step that only emits, and not a novelty or a justified one.
LEMMA EmitOnly ==
    ASSUME NoveltyInv, UNCHANGED <<now, kv, sets, emitted, past>>, NEW r \in Replicas, NEW h, Handler(h),
           NEW detector, NEW who,
           \/ hand' = [hand EXCEPT ![r] = h]
           \/ /\ hand' = [hand EXCEPT ![r] = Sending(h, Candidate(h, detector, who))]
              /\ detector # "ja4_novelty" \/ Justified(Candidate(h, detector, who))
    PROVE  NoveltyInv'
  <1>1. PastOK /\ KvOK /\ Learned(sets) /\ \A c \in emitted : Justified(c)
    BY DEF NoveltyInv
  <1>2. Later
    BY <1>1, LaterSame
  <1>3. KvOK' /\ (\A c \in emitted : Justified(c))'
    BY <1>1, <1>2, RestAfter
  <1>4. Learned(sets)'
    BY <1>1, <1>2, LearnedAfter
  <1>5. PICK g : hand' = [hand EXCEPT ![r] = g] /\ Handler(g)
    BY EmitTasks
  <1> QED
    BY <1>2, <1>3, <1>4, <1>5, StepDone

LEMMA HandlerWith ==
    ASSUME NEW h, Handler(h), NEW seen, NEW ac, NEW base, NEW rare, NEW g,
           g = [e |-> h.e, steps |-> h.steps, seen |-> seen, ac |-> ac, base |-> base, rare |-> rare, mark |-> h.mark],
           BaseOK(h.e.src, base), SeenOK(h.e.src, seen, h.mark)
    PROVE  Handler(g)
  <1>1. /\ g.e = h.e /\ g.steps = h.steps /\ g.seen = seen /\ g.ac = ac /\ g.base = base /\ g.rare = rare
        /\ g.mark = h.mark
    OBVIOUS
  <1> QED
    BY <1>1 DEF Handler

\* What is read of a source is all that was learned and not forgotten.
LEMMA MembersKnow ==
    ASSUME Proto!ProtocolAssumption, PastOK, Learned(sets), NEW src, NEW mark
    PROVE  SeenOK(src, Proto!Members(Proto!Known(src)), mark)
  <1> SUFFICES ASSUME NEW p \in past, Of(p, "know", src), p.at + BaselineTTL >= now
               PROVE  p.fp \in Proto!Members(Proto!Known(src))
    BY DEF SeenOK
  <1>1. p.key[1] = src /\ Of(p, "know", p.key[1])
    BY DEF Of
  <1>2. PICK x \in sets : x.key = Proto!Known(p.key[1]) /\ x.member = p.fp /\ x.exp >= p.at + BaselineTTL
    BY <1>1 DEF Learned
  <1>3. x.exp \in Nat /\ p.at \in Nat /\ now \in Nat /\ BaselineTTL \in Nat
    BY DEF Learned, PastOK, Proto!ProtocolAssumption
  <1>4. x.exp >= now
    BY <1>2, <1>3
  <1> QED
    BY <1>1, <1>2, <1>4 DEF Proto!Members, Proto!Live

\* A baseline that is read is none, or one that its writes bear out.
LEMMA BaselineBorneOut ==
    ASSUME PastOK, KvOK, NEW src
    PROVE  BaseOK(src, Proto!Baseline(src))
  <1>1. CASE \E b \in Proto!Live(kv) : b.src = src
    <2>1. PICK b : b = CHOOSE x \in Proto!Live(kv) : x.src = src
      OBVIOUS
    <2>2. b \in kv /\ b.exp >= now /\ b.src = src
      BY <1>1, <2>1 DEF Proto!Live
    <2>3. Proto!Baseline(src) = [n |-> b.n, first |-> b.first]
      BY <1>1, <2>1 DEF Proto!Baseline
    <2>4. Since(src, b.n, b.first, b.exp) /\ b.exp \in Nat /\ now \in Nat
      BY <2>2 DEF KvOK, PastOK
    <2>5. Since(src, b.n, b.first, now)
      <3>1. PICK f, x, t : f = b.first /\ x = b.exp /\ t = now
        OBVIOUS
      <3>2. f \in Nat /\ x \in Nat /\ t \in Nat /\ x >= t
        BY <2>2, <2>4, <3>1 DEF Since
      <3>3. \A k \in f + 1 .. t : k \in f + 1 .. x
        BY <3>2
      <3> QED
        BY <2>4, <3>1, <3>3 DEF Since
    <2> QED
      BY <2>3, <2>5 DEF BaseOK
  <1>2. CASE ~\E b \in Proto!Live(kv) : b.src = src
    BY <1>2 DEF Proto!Baseline, BaseOK
  <1> QED
    BY <1>1, <1>2

\* A novelty is of a source whose baseline is ready, and of a fingerprint it was not known by.
LEMMA NoveltyMeans ==
    ASSUME Proto!ProtocolAssumption, NEW fp, NEW seen, NEW ac, NEW fleet, NEW n, NEW first,
           Proto!Novelty(fp, seen, ac, fleet, Proto!Maturity(n, Proto!Cardinality(seen), first))[1]
    PROVE  ~(n < MinObservations) /\ first # -1 /\ now - first >= MinSpan /\ seen # {} /\ fp \notin seen
  <1>1. PICK m : m = Proto!Maturity(n, Proto!Cardinality(seen), first)
    OBVIOUS
  <1>2. m = "ready" /\ fp \notin seen
    <2>1. CASE m # "ready" \/ fp \in seen
      <3>1. Proto!Novelty(fp, seen, ac, fleet, m)[1] = FALSE
        BY <2>1 DEF Proto!Novelty
      <3> QED
        BY <1>1, <3>1
    <2> QED
      BY <2>1
  <1>3. ~(n < MinObservations) /\ ~(Proto!Cardinality(seen) < 1) /\ first # -1 /\ now - first >= MinSpan
    BY <1>1, <1>2 DEF Proto!Maturity
  <1>4. seen # {}
    <2>1. Proto!Cardinality({}) = 0
      BY SameCount, FS_EmptySet
    <2> QED
      BY <1>3, <2>1
  <1> QED
    BY <1>2, <1>3, <1>4

LEMMA ScoreStep ==
    ASSUME Proto!ProtocolAssumption, NoveltyInv, UNCHANGED <<now, kv, sets, emitted, past>>,
           NEW r \in Replicas, NEW h, Handler(h), NEW fp, NEW fleet, NEW base, base = Proto!Baseline(h.e.src),
           NEW who, who[1] = h.e.src, who[2] = fp,
           Proto!Emit(r, [h EXCEPT !.base = base],
                      Proto!Novelty(fp, h.seen, h.ac, fleet, Proto!Maturity(base.n, Proto!Cardinality(h.seen), base.first))[1],
                      "ja4_novelty", who)
    PROVE  NoveltyInv'
  <1>1. PICK src, g, hit : /\ src = h.e.src /\ g = [h EXCEPT !.base = base]
                           /\ hit = Proto!Novelty(fp, h.seen, h.ac, fleet,
                                                  Proto!Maturity(base.n, Proto!Cardinality(h.seen), base.first))[1]
    OBVIOUS
  <1>2. PastOK /\ KvOK
    BY DEF NoveltyInv
  <1>3. BaseOK(src, base)
    BY <1>1, <1>2, BaselineBorneOut
  <1>4. g = [e |-> h.e, steps |-> h.steps, seen |-> h.seen, ac |-> h.ac, base |-> base, rare |-> h.rare, mark |-> h.mark]
    BY <1>1 DEF Handler
  <1>5. SeenOK(src, h.seen, h.mark) /\ h.mark \in Nat /\ h.mark <= Cardinality(past)
    BY <1>1 DEF Handler
  <1>6. Handler(g) /\ g.mark = h.mark
    BY <1>1, <1>3, <1>4, <1>5, HandlerWith
  <1>7. \/ hand' = [hand EXCEPT ![r] = g]
        \/ hit /\ hand' = [hand EXCEPT ![r] = Sending(g, Candidate(g, "ja4_novelty", who))]
    BY <1>1, EmitCases
  <1>8. ASSUME hit PROVE Justified(Candidate(g, "ja4_novelty", who))
    <2>1. PICK c, n, first : c = Candidate(g, "ja4_novelty", who) /\ n = base.n /\ first = base.first
      OBVIOUS
    <2>2. c.id[2][1] = src /\ c.id[2][2] = fp /\ c.at = now /\ c.mark = h.mark
      <3>1. PICK id : id = <<"ja4_novelty", who, now \div Bucket>>
        OBVIOUS
      <3>2. id[2] = who
        BY <3>1
      <3>3. c = [id |-> id, at |-> now, mark |-> g.mark]
        BY <2>1, <3>1 DEF Candidate
      <3>4. c.id = id /\ c.at = now /\ c.mark = g.mark
        BY <3>3
      <3> QED
        BY <1>1, <1>6, <3>2, <3>4
    <2>3. ~(n < MinObservations) /\ first # -1 /\ now - first >= MinSpan /\ h.seen # {} /\ fp \notin h.seen
      <3>1. PICK seen, ac : seen = h.seen /\ ac = h.ac
        OBVIOUS
      <3>2. Proto!Novelty(fp, seen, ac, fleet, Proto!Maturity(n, Proto!Cardinality(seen), first))[1]
        BY <1>1, <1>8, <2>1, <3>1
      <3> QED
        BY <3>1, <3>2, NoveltyMeans
    <2>4. Since(src, n, first, now)
      BY <1>3, <2>1, <2>3 DEF BaseOK
    <2>5. Since(src, MinObservations, first, now)
      <3>1. Writes(src, first) \subseteq past
        BY DEF Writes
      <3>2. PICK k : k = Cardinality(Writes(src, first))
        OBVIOUS
      <3>3. k \in Nat
        BY <1>2, <3>1, <3>2, FS_Subset, FS_CardinalityType DEF PastOK
      <3>4. n \in Nat /\ k >= n /\ MinObservations \in Nat
        BY <2>4, <3>2 DEF Since, Proto!ProtocolAssumption
      <3>5. k >= MinObservations
        BY <2>3, <3>3, <3>4
      <3> QED
        BY <2>4, <3>2, <3>4, <3>5 DEF Since
    <2>6. \E f \in past : f.at = first
      BY <2>4 DEF Since
    <2>7. ~\E p \in past : Of(p, "know", src) /\ p.fp = fp /\ p.no <= h.mark /\ p.at + BaselineTTL >= now
      BY <1>5, <2>3 DEF SeenOK
    <2>8. now \in Nat
      BY <1>2 DEF PastOK
    <2>9. \E f \in past : Since(src, MinObservations, f.at, now) /\ now - f.at >= MinSpan
      BY <2>3, <2>5, <2>6
    <2>10. Justified(c)
      BY <1>5, <2>2, <2>7, <2>8, <2>9 DEF Justified
    <2> QED
      BY <2>1, <2>10
  <1> QED
    BY <1>6, <1>7, <1>8, EmitOnly

\* An observation adds one write to those that bear the baseline out, and a window to its life.
LEMMA BaselineStep ==
    ASSUME Proto!ProtocolAssumption, NoveltyInv, UNCHANGED <<now, sets, emitted>>, NEW r \in Replicas, NEW h, Handler(h),
           NEW src, src = h.e.src, NEW first, first = IF h.base.first = -1 THEN now ELSE h.base.first,
           kv' = {b \in kv : b.src # src} \cup {[src |-> src, n |-> h.base.n + 1, first |-> first, exp |-> now + BaselineTTL]},
           hand' = [hand EXCEPT ![r] = h], past' = Proto!Wrote(r, "baseline", <<src>>, <<>>, 1)
    PROVE  NoveltyInv'
  <1>1. PastOK /\ KvOK /\ Learned(sets) /\ \A c \in emitted : Justified(c)
    BY DEF NoveltyInv
  <1>2. Later
    BY <1>1, WroteFacts DEF Later
  <1>3. PICK q : past' = past \cup {q} /\ q \notin past /\ q.kind = "baseline" /\ q.key = <<src>> /\ q.at = now
    BY <1>1, WroteFacts
  <1>4. now \in Nat /\ BaselineTTL \in Nat /\ IsFiniteSet(past) /\ IsFiniteSet(past') /\ Of(q, "baseline", src)
    BY <1>1, <1>2, <1>3 DEF PastOK, Later, Proto!ProtocolAssumption, Of
  <1>5. /\ \A s, n, f, until : Since(s, n, f, until) => Since(s, n, f, until)'
    BY <1>1, <1>2, PastGrows DEF Later, PastOK
  <1>6. PICK n, exp : n = h.base.n + 1 /\ exp = now + BaselineTTL
    OBVIOUS
  <1>7. exp \in Nat
    BY <1>4, <1>6
  <1>8. Since(src, n, first, exp)'
    <2>1. CASE h.base.n = 0 /\ h.base.first = -1
      <3>1. first = now /\ n = 1
        BY <1>6, <2>1
      <3>2. {q} \subseteq Writes(src, first)' /\ Writes(src, first)' \subseteq past'
        BY <1>3, <1>4, <3>1 DEF Writes, Of
      <3>3. IsFiniteSet(Writes(src, first)')
        BY <1>4, <3>2, FS_Subset
      <3>4. Cardinality({q}) <= Cardinality(Writes(src, first)')
        BY <3>2, <3>3, FS_Subset
      <3>5. Cardinality({q}) = 1 /\ Cardinality(Writes(src, first)') \in Nat
        BY <3>3, FS_Singleton, FS_CardinalityType
      <3>6. Cardinality(Writes(src, first)') >= n
        BY <3>1, <3>4, <3>5
      <3>7. \A t \in first + 1 .. exp : q.at < t /\ t <= q.at + BaselineTTL
        BY <1>3, <1>4, <1>6, <3>1
      <3>8. n \in Nat /\ first \in Nat
        BY <1>4, <3>1
      <3> QED
        BY <1>3, <1>4, <3>1, <3>6, <3>7, <3>8 DEF Since, Of
    <2>2. CASE Since(src, h.base.n, h.base.first, now)
      <3>1. first = h.base.first /\ first \in Nat /\ h.base.n \in Nat
        <4>1. h.base.first \in Nat /\ h.base.n \in Nat
          BY <2>2 DEF Since
        <4>2. h.base.first # -1
          BY <4>1
        <4> QED
          BY <4>1, <4>2
      <3>2. PICK f \in past : Of(f, "baseline", src) /\ f.at = first
        BY <2>2, <3>1 DEF Since
      <3>3. first <= now
        BY <1>1, <3>2 DEF PastOK
      <3>4. Writes(src, first)' = Writes(src, first) \cup {q} /\ q \notin Writes(src, first) /\ Writes(src, first) \subseteq past
        BY <1>3, <1>4, <3>1, <3>3 DEF Writes, Of
      <3>5. IsFiniteSet(Writes(src, first))
        BY <1>4, <3>4, FS_Subset
      <3>6. Cardinality(Writes(src, first)') = Cardinality(Writes(src, first)) + 1 /\ Cardinality(Writes(src, first)) \in Nat
        BY <3>4, <3>5, FS_AddElement, FS_CardinalityType
      <3>7. Cardinality(Writes(src, first)) >= h.base.n
        BY <2>2, <3>1 DEF Since
      <3>8. Cardinality(Writes(src, first)') >= n /\ n \in Nat
        BY <1>6, <3>1, <3>6, <3>7
      <3>9. \A t \in first + 1 .. exp : \E p \in past' : Of(p, "baseline", src) /\ p.at < t /\ t <= p.at + BaselineTTL
        <4> SUFFICES ASSUME NEW t \in first + 1 .. exp
                     PROVE  \E p \in past' : Of(p, "baseline", src) /\ p.at < t /\ t <= p.at + BaselineTTL
          OBVIOUS
        <4>1. CASE t <= now
          <5>1. t \in first + 1 .. now
            BY <1>4, <3>1, <4>1
          <5>2. \E p \in past : Of(p, "baseline", src) /\ p.at < t /\ t <= p.at + BaselineTTL
            BY <2>2, <3>1, <5>1 DEF Since
          <5> QED
            BY <1>3, <5>2
        <4>2. CASE ~(t <= now)
          <5>1. q.at < t /\ t <= q.at + BaselineTTL
            BY <1>3, <1>4, <1>6, <3>1, <4>2
          <5> QED
            BY <1>3, <1>4, <5>1
        <4> QED
          BY <4>1, <4>2
      <3>10. \E p \in past' : Of(p, "baseline", src) /\ p.at = first
        BY <1>3, <3>2
      <3> QED
        BY <3>1, <3>8, <3>9, <3>10 DEF Since, Of
    <2> QED
      BY <2>1, <2>2 DEF Handler, BaseOK
  <1>9. KvOK'
    <2>1. PICK new : new = [src |-> src, n |-> n, first |-> first, exp |-> exp]
      OBVIOUS
    <2>2. new.src = src /\ new.n = n /\ new.first = first /\ new.exp = exp
      BY <2>1
    <2>3. kv' = {b \in kv : b.src # src} \cup {new}
      BY <1>6, <2>1
    <2>4. ASSUME NEW b \in kv' PROVE b.exp \in Nat /\ Since(b.src, b.n, b.first, b.exp)'
      <3>1. CASE b \in kv
        BY <1>1, <1>5, <3>1 DEF KvOK
      <3>2. CASE b = new
        <4>1. PICK bs, bn, bf, be : bs = b.src /\ bn = b.n /\ bf = b.first /\ be = b.exp
          OBVIOUS
        <4>2. bs = src /\ bn = n /\ bf = first /\ be = exp
          BY <2>2, <3>2, <4>1
        <4>3. Since(b.src, b.n, b.first, b.exp)'
          BY <1>8, <4>1, <4>2
        <4> QED
          BY <1>7, <2>2, <3>2, <4>3
      <3> QED
        BY <2>3, <2>4, <3>1, <3>2
    <2> QED
      BY <2>4 DEF KvOK
  <1>10. Learned(sets)'
    <2>1. ~Of(q, "know", q.key[1])
      BY <1>3 DEF Of
    <2>2. \A p \in past' : p \in past \/ ~Of(p, "know", p.key[1])
      BY <1>3, <2>1
    <2> QED
      BY <1>1, <1>2, <2>2, LearnedAfter
  <1>11. (\A c \in emitted : Justified(c))'
    BY <1>1, <1>2, RestAfter
  <1> QED
    BY <1>2, <1>9, <1>10, <1>11, StepDone

LEMMA KnowStep ==
    ASSUME Proto!ProtocolAssumption, NoveltyInv, UNCHANGED <<now, kv, emitted>>, NEW r \in Replicas, NEW h, Handler(h),
           NEW src, NEW fp, sets' = Proto!Put(Proto!Known(src), fp, BaselineTTL), hand' = [hand EXCEPT ![r] = h],
           past' = Proto!Wrote(r, "know", <<src>>, fp, 1)
    PROVE  NoveltyInv'
  <1>1. PastOK /\ KvOK /\ Learned(sets) /\ \A c \in emitted : Justified(c)
    BY DEF NoveltyInv
  <1>2. Later
    BY <1>1, WroteFacts DEF Later
  <1>3. PICK q : past' = past \cup {q} /\ q.key = <<src>> /\ q.fp = fp /\ q.at = now
    BY <1>1, WroteFacts
  <1>4. now \in Nat /\ BaselineTTL \in Nat
    BY <1>1 DEF PastOK, Proto!ProtocolAssumption
  <1>5. PICK key, new : /\ key = Proto!Known(src)
                        /\ new = [key |-> key, member |-> fp, exp |-> now + BaselineTTL]
    OBVIOUS
  <1>6. new.key = key /\ new.member = fp /\ new.exp = now + BaselineTTL /\ new.exp \in Nat
    BY <1>4, <1>5
  <1>7. sets' = {x \in sets : ~(x.key = key /\ x.member = fp)} \cup {new}
    BY <1>5 DEF Proto!Put, Proto!With
  <1>8. \A x \in sets' : x.exp \in Nat
    BY <1>1, <1>6, <1>7 DEF Learned
  <1>9. ASSUME NEW p \in past', Of(p, "know", p.key[1]), p.at + BaselineTTL >= now
        PROVE  \E x \in sets' : x.key = Proto!Known(p.key[1]) /\ x.member = p.fp /\ x.exp >= p.at + BaselineTTL
    <2>1. CASE p \in past
      <3>1. PICK x \in sets : x.key = Proto!Known(p.key[1]) /\ x.member = p.fp /\ x.exp >= p.at + BaselineTTL
        BY <1>1, <1>9, <2>1 DEF Learned
      <3>2. CASE x.key = key /\ x.member = fp
        <4>1. p.at \in Nat /\ p.at <= now
          BY <1>1, <2>1 DEF PastOK
        <4>2. new.exp >= p.at + BaselineTTL
          BY <1>4, <1>6, <4>1
        <4> QED
          BY <1>6, <1>7, <3>1, <3>2, <4>2
      <3>3. CASE ~(x.key = key /\ x.member = fp)
        BY <1>7, <3>1, <3>3
      <3> QED
        BY <3>2, <3>3
    <2>2. CASE p = q
      <3>1. p.key[1] = src /\ p.fp = fp /\ p.at = now
        BY <1>3, <2>2
      <3>2. new.exp >= now + BaselineTTL
        BY <1>4, <1>6
      <3> QED
        BY <1>5, <1>6, <1>7, <3>1, <3>2
    <2> QED
      BY <1>3, <2>1, <2>2
  <1>10. Learned(sets)'
    <2>1. now' = now
      OBVIOUS
    <2> QED
      BY <1>8, <1>9, <2>1 DEF Learned, Of, Proto!Known
  <1>11. KvOK' /\ (\A c \in emitted : Justified(c))'
    BY <1>1, <1>2, RestAfter
  <1> QED
    BY <1>2, <1>10, <1>11, StepDone

\* A step that writes other sets, or none, and may emit something that is no novelty.
LEMMA OtherStep ==
    ASSUME NoveltyInv, UNCHANGED <<kv, emitted>>, Later, Learned(sets'),
           \A p \in past' : p \in past \/ ~Of(p, "know", p.key[1]),
           NEW r \in Replicas, NEW h, Handler(h), NEW detector, NEW who, detector # "ja4_novelty",
           \/ hand' = [hand EXCEPT ![r] = h]
           \/ hand' = [hand EXCEPT ![r] = Sending(h, Candidate(h, detector, who))]
    PROVE  NoveltyInv'
  <1>1. PastOK /\ KvOK /\ \A c \in emitted : Justified(c)
    BY DEF NoveltyInv
  <1>2. KvOK' /\ (\A c \in emitted : Justified(c))'
    BY <1>1, RestAfter
  <1>3. Learned(sets)'
    BY LearnedAfter
  <1>4. PICK g : hand' = [hand EXCEPT ![r] = g] /\ Handler(g)
    BY EmitTasks
  <1> QED
    BY <1>2, <1>3, <1>4, StepDone

LEMMA SetsStep ==
    ASSUME NoveltyInv, UNCHANGED <<kv, emitted>>, Later, Learned(sets'), \A p \in past' : p \in past,
           NEW r \in Replicas, NEW h, Handler(h), hand' = [hand EXCEPT ![r] = h]
    PROVE  NoveltyInv'
  <1>1. "other" # "ja4_novelty" /\ \A p \in past' : p \in past \/ ~Of(p, "know", p.key[1])
    OBVIOUS
  <1> QED
    BY <1>1, OtherStep

LEMMA CountStep ==
    ASSUME NoveltyInv, UNCHANGED <<now, kv, sets, emitted>>, NEW r \in Replicas, NEW h, Handler(h),
           NEW detector, NEW who, detector # "ja4_novelty", NEW kind, NEW a, NEW b, NEW n,
           past' = Proto!Wrote(r, kind, <<a, b>>, <<>>, n),
           \/ hand' = [hand EXCEPT ![r] = h]
           \/ hand' = [hand EXCEPT ![r] = Sending(h, Candidate(h, detector, who))]
    PROVE  NoveltyInv'
  <1>1. PastOK /\ Learned(sets)
    BY DEF NoveltyInv
  <1>2. Later
    BY <1>1, WroteFacts DEF Later
  <1>3. PICK q : past' = past \cup {q} /\ q.key = <<a, b>>
    BY <1>1, WroteFacts
  <1>4. ~Of(q, "know", q.key[1])
    BY <1>3 DEF Of
  <1>5. \A p \in past' : p \in past \/ ~Of(p, "know", p.key[1])
    BY <1>3, <1>4
  <1>6. Learned(sets')
    BY <1>1
  <1> QED
    BY <1>2, <1>5, <1>6, OtherStep

LEMMA SendStep ==
    ASSUME NoveltyInv, UNCHANGED <<now, kv, sets, past>>, NEW r \in Replicas, NEW h, Handler(h),
           NEW c, Justified(c), emitted' = emitted \cup {c}, hand' = [hand EXCEPT ![r] = h]
    PROVE  NoveltyInv'
  <1>1. PastOK /\ KvOK /\ Learned(sets) /\ \A d \in emitted : Justified(d)
    BY DEF NoveltyInv
  <1>2. Later
    BY <1>1, LaterSame
  <1>3. KvOK' /\ \A d : Justified(d) => Justified(d)'
    BY <1>1, <1>2, RestAfter
  <1>4. (\A d \in emitted : Justified(d))'
    <2> SUFFICES ASSUME NEW d \in emitted' PROVE Justified(d)'
      OBVIOUS
    <2>1. Justified(d)
      BY <1>1
    <2> QED
      BY <1>3, <2>1
  <1>5. Learned(sets)'
    BY <1>1, <1>2, LearnedAfter
  <1> QED
    BY <1>2, <1>3, <1>4, <1>5, StepDone

\* A step that only reads into the handler.
LEMMA ReadStep ==
    ASSUME NoveltyInv, UNCHANGED <<now, kv, sets, emitted, past>>, NEW r \in Replicas, NEW h, Handler(h),
           NEW seen, NEW ac, NEW rare, SeenOK(h.e.src, seen, h.mark), NEW g,
           g = [e |-> h.e, steps |-> h.steps, seen |-> seen, ac |-> ac, base |-> h.base, rare |-> rare, mark |-> h.mark],
           hand' = [hand EXCEPT ![r] = g]
    PROVE  NoveltyInv'
  <1>1. BaseOK(h.e.src, h.base)
    BY DEF Handler
  <1>2. Handler(g)
    BY <1>1, HandlerWith
  <1> QED
    BY <1>2, EmitOnly

\* One store call of a handler.
LEMMA DoStep ==
    ASSUME Proto!ProtocolAssumption, NoveltyInv, now' = now, NEW r \in Replicas, NEW s, NEW e, NEW h,
           Handler(h), h.e = e, StepOK(s), Proto!Do(r, s, e, h)
    PROVE  NoveltyInv'
  <1>0. PastOK /\ Learned(sets) /\ BaselineTTL \in Nat /\ SniTTL \in Nat /\ SeenTTL \in Nat
    BY DEF NoveltyInv, Proto!ProtocolAssumption
  <1>1. CASE /\ s.op = "report" /\ Proto!Emit(r, h, TRUE, s.detector, s.who)
             /\ UNCHANGED <<kv, sets, moves, counters, emitted, past>>
    <2>1. s.detector # "ja4_novelty"
      BY <1>1 DEF StepOK
    <2>2. PICK d, who : d = s.detector /\ who = s.who
      OBVIOUS
    <2>3. \/ hand' = [hand EXCEPT ![r] = h]
          \/ hand' = [hand EXCEPT ![r] = Sending(h, Candidate(h, d, who))]
      BY <1>1, <2>2 DEF Proto!Emit, Sending, Candidate
    <2> QED
      BY <1>1, <2>1, <2>2, <2>3, EmitOnly
  <1>2. CASE /\ s.op = "send" /\ emitted' = emitted \cup {s.c} /\ hand' = [hand EXCEPT ![r] = h]
             /\ UNCHANGED <<kv, sets, moves, counters, dedup, past>>
    <2>1. Justified(s.c)
      BY <1>2 DEF StepOK
    <2> QED
      BY <1>2, <2>1, SendStep
  <1>3. CASE /\ s.op = "seen"
             /\ hand' = [hand EXCEPT ![r] = [h EXCEPT !.seen = Proto!Members(Proto!Known(e.src)),
                                                      !.ac = Proto!Members(Proto!Similar(e.src))]]
             /\ UNCHANGED <<kv, sets, moves, counters, dedup, emitted, past>>
    <2>1. PICK seen, ac, g : /\ seen = Proto!Members(Proto!Known(e.src)) /\ ac = Proto!Members(Proto!Similar(e.src))
                             /\ g = [h EXCEPT !.seen = seen, !.ac = ac]
      OBVIOUS
    <2>2. hand' = [hand EXCEPT ![r] = g]
      BY <1>3, <2>1
    <2>3. g = [e |-> h.e, steps |-> h.steps, seen |-> seen, ac |-> ac, base |-> h.base, rare |-> h.rare, mark |-> h.mark]
      BY <2>1 DEF Handler
    <2>4. SeenOK(h.e.src, seen, h.mark)
      BY <1>0, <2>1, MembersKnow
    <2>5. UNCHANGED <<now, kv, sets, emitted, past>>
      BY <1>3
    <2> QED
      BY <2>2, <2>3, <2>4, <2>5, ReadStep
  <1>4. CASE /\ s.op = "look"
             /\ hand' = [hand EXCEPT ![r] = [h EXCEPT !.rare = /\ Proto!Cardinality(Proto!Members(s.key)) >= Warmup
                                                              /\ <<s.fp>> \notin Proto!Members(s.key)]]
             /\ UNCHANGED <<kv, sets, moves, counters, dedup, emitted, past>>
    <2>1. PICK rare : rare = (/\ Proto!Cardinality(Proto!Members(s.key)) >= Warmup
                              /\ <<s.fp>> \notin Proto!Members(s.key))
      BY Zenon
    <2>2. PICK g : g = [h EXCEPT !.rare = rare]
      OBVIOUS
    <2>3. hand' = [hand EXCEPT ![r] = g]
      BY <1>4, <2>1, <2>2, Zenon
    <2>4. g = [e |-> h.e, steps |-> h.steps, seen |-> h.seen, ac |-> h.ac, base |-> h.base, rare |-> rare, mark |-> h.mark]
      BY <2>2 DEF Handler
    <2>5. SeenOK(h.e.src, h.seen, h.mark)
      BY DEF Handler
    <2>6. UNCHANGED <<now, kv, sets, emitted, past>>
      BY <1>4
    <2> QED
      BY <2>3, <2>4, <2>5, <2>6, ReadStep
  <1>5. CASE /\ s.op = "score"
             /\ LET base == Proto!Baseline(e.src)
                    fleet == Proto!Cardinality(Proto!Members(Proto!Fleet(e.ja4)))
                    maturity == Proto!Maturity(base.n, Proto!Cardinality(h.seen), base.first)
                    novelty == Proto!Novelty(e.ja4, h.seen, h.ac, fleet, maturity)
                IN  Proto!Emit(r, [h EXCEPT !.base = base], novelty[1], "ja4_novelty",
                               <<e.src, e.ja4, e.type, fleet, novelty[2], e.cid>>)
             /\ UNCHANGED <<kv, sets, moves, counters, emitted, past>>
    <2>1. PICK base, fleet, fp : /\ base = Proto!Baseline(e.src) /\ fp = e.ja4
                                 /\ fleet = Proto!Cardinality(Proto!Members(Proto!Fleet(e.ja4)))
      OBVIOUS
    <2>2. PICK novelty : novelty = Proto!Novelty(fp, h.seen, h.ac, fleet,
                                                 Proto!Maturity(base.n, Proto!Cardinality(h.seen), base.first))
      OBVIOUS
    <2>3. PICK who : who = <<e.src, fp, e.type, fleet, novelty[2], e.cid>>
      OBVIOUS
    <2>4. who[1] = h.e.src /\ who[2] = fp
      BY <2>3
    <2>5. Proto!Emit(r, [h EXCEPT !.base = base],
                     Proto!Novelty(fp, h.seen, h.ac, fleet, Proto!Maturity(base.n, Proto!Cardinality(h.seen), base.first))[1],
                     "ja4_novelty", who)
      BY <1>5, <2>1, <2>2, <2>3, Zenon
    <2>6. UNCHANGED <<now, kv, sets, emitted, past>>
      BY <1>5
    <2> QED
      BY <2>1, <2>4, <2>5, <2>6, ScoreStep
  <1>6. CASE /\ s.op = "burst"
             /\ LET fps == {e.ja4} \cup {m.fp : m \in {x \in moves : x.src = e.src /\ x.at >= now - Transition}}
                IN  Proto!Emit(r, h, /\ Proto!Maturity(h.base.n, Proto!Cardinality(h.seen), h.base.first) = "ready"
                                     /\ Proto!Cardinality(fps) >= MinDistinct,
                               "ja4_transition_burst",
                               <<e.src, e.ja4, e.type, Proto!Cardinality(Proto!Members(Proto!Fleet(e.ja4))),
                                 Proto!Cardinality(fps), e.cid>>)
             /\ UNCHANGED <<kv, sets, moves, counters, emitted, past>>
    <2>1. PICK fps : fps = {e.ja4} \cup {m.fp : m \in {x \in moves : x.src = e.src /\ x.at >= now - Transition}}
      OBVIOUS
    <2>2. PICK hit : hit = (/\ Proto!Maturity(h.base.n, Proto!Cardinality(h.seen), h.base.first) = "ready"
                            /\ Proto!Cardinality(fps) >= MinDistinct)
      BY Zenon
    <2>3. PICK who : who = <<e.src, e.ja4, e.type, Proto!Cardinality(Proto!Members(Proto!Fleet(e.ja4))),
                             Proto!Cardinality(fps), e.cid>>
      OBVIOUS
    <2>4. Proto!Emit(r, h, hit, "ja4_transition_burst", who)
      BY <1>6, <2>1, <2>2, <2>3, Zenon
    <2>5. UNCHANGED <<now, kv, sets, emitted, past>>
      BY <1>6
    <2>6. \/ hand' = [hand EXCEPT ![r] = h]
          \/ hand' = [hand EXCEPT ![r] = Sending(h, Candidate(h, "ja4_transition_burst", who))]
      BY <2>4, EmitCases
    <2> QED
      BY <2>5, <2>6, EmitOnly
  <1>7. CASE /\ s.op = "baseline"
             /\ kv' = {b \in kv : b.src # e.src}
                      \cup {[src |-> e.src, n |-> h.base.n + 1,
                             first |-> IF h.base.first = -1 THEN now ELSE h.base.first, exp |-> now + BaselineTTL]}
             /\ hand' = [hand EXCEPT ![r] = h] /\ past' = Proto!Wrote(r, "baseline", <<e.src>>, <<>>, 1)
             /\ UNCHANGED <<sets, moves, counters, dedup, emitted>>
    <2>1. PICK src, first : src = h.e.src /\ first = IF h.base.first = -1 THEN now ELSE h.base.first
      OBVIOUS
    <2>2. kv' = {b \in kv : b.src # src}
                \cup {[src |-> src, n |-> h.base.n + 1, first |-> first, exp |-> now + BaselineTTL]}
      BY <1>7, <2>1, Zenon
    <2>3. past' = Proto!Wrote(r, "baseline", <<src>>, <<>>, 1) /\ hand' = [hand EXCEPT ![r] = h]
      BY <1>7, <2>1
    <2>4. UNCHANGED <<now, sets, emitted>>
      BY <1>7
    <2> QED
      BY <2>1, <2>2, <2>3, <2>4, BaselineStep
  <1>8. CASE /\ s.op = "know" /\ sets' = Proto!Put(Proto!Known(e.src), e.ja4, BaselineTTL)
             /\ past' = Proto!Wrote(r, "know", <<e.src>>, e.ja4, 1)
             /\ hand' = [hand EXCEPT ![r] = h] /\ UNCHANGED <<kv, moves, counters, dedup, emitted>>
    BY <1>8, KnowStep
  <1>9. CASE /\ s.op = "sni" /\ sets' = Proto!Put(<<"sni", e.cid>>, <<e.sni>>, SniTTL) /\ UNCHANGED past
             /\ hand' = [hand EXCEPT ![r] = h] /\ UNCHANGED <<kv, moves, counters, dedup, emitted>>
    <2>1. PICK key, member : key = <<"sni", e.cid>> /\ member = <<e.sni>>
      OBVIOUS
    <2>2. key[1] # "seen"
      BY <2>1
    <2>3. sets' = Proto!With(sets, key, member, SniTTL)
      BY <1>9, <2>1 DEF Proto!Put
    <2>4. Learned(sets')
      BY <1>0, <2>2, <2>3, LearnedWith
    <2>5. Later
      BY <1>0, <1>9, LaterSame
    <2>6. \A p \in past' : p \in past
      BY <1>9
    <2>7. UNCHANGED <<kv, emitted>> /\ hand' = [hand EXCEPT ![r] = h]
      BY <1>9
    <2> QED
      BY <2>4, <2>5, <2>6, <2>7, SetsStep
  <1>10. CASE /\ s.op = "context" /\ moves' = moves \cup {[src |-> e.src, at |-> now, fp |-> e.ja4]}
              /\ sets' = Proto!With(Proto!Put(Proto!Similar(e.src), <<Proto!ja4_ac(e.ja4)>>, BaselineTTL),
                                    Proto!Fleet(e.ja4), <<e.src>>, BaselineTTL)
              /\ hand' = [hand EXCEPT ![r] = h] /\ UNCHANGED <<kv, counters, dedup, emitted, past>>
    <2>1. PICK a, b, m, k : /\ a = Proto!Similar(e.src) /\ b = Proto!Fleet(e.ja4)
                            /\ m = <<Proto!ja4_ac(e.ja4)>> /\ k = <<e.src>>
      OBVIOUS
    <2>2. a[1] # "seen" /\ b[1] # "seen"
      BY <2>1 DEF Proto!Similar, Proto!Fleet
    <2>3. PICK T : T = Proto!With(sets, a, m, BaselineTTL)
      OBVIOUS
    <2>4. sets' = Proto!With(T, b, k, BaselineTTL)
      BY <1>10, <2>1, <2>3 DEF Proto!Put
    <2>5. Learned(T)
      BY <1>0, <2>2, <2>3, LearnedWith
    <2>6. Learned(sets')
      BY <1>0, <2>2, <2>4, <2>5, LearnedWith
    <2>7. Later
      BY <1>0, <1>10, LaterSame
    <2>8. \A p \in past' : p \in past
      BY <1>10
    <2>9. UNCHANGED <<kv, emitted>> /\ hand' = [hand EXCEPT ![r] = h]
      BY <1>10
    <2> QED
      BY <2>6, <2>7, <2>8, <2>9, SetsStep
  <1>11. CASE /\ s.op = "keep" /\ sets' = Proto!Put(s.key, <<s.fp>>, SeenTTL)
              /\ Proto!Emit(r, h, h.rare, s.detector, s.who) /\ UNCHANGED <<kv, moves, counters, emitted, past>>
    <2>1. PICK key, member, d, who, hit : /\ key = s.key /\ member = <<s.fp>> /\ d = s.detector /\ who = s.who
                                          /\ hit = h.rare
      OBVIOUS
    <2>2. key[1] = "fpseen" /\ d # "ja4_novelty"
      BY <1>11, <2>1 DEF StepOK
    <2>3. sets' = Proto!With(sets, key, member, SeenTTL) /\ key[1] # "seen"
      BY <1>11, <2>1, <2>2 DEF Proto!Put
    <2>4. Learned(sets')
      BY <1>0, <2>3, LearnedWith
    <2>5. Later
      BY <1>0, <1>11, LaterSame
    <2>6. UNCHANGED <<kv, emitted>> /\ \A p \in past' : p \in past \/ ~Of(p, "know", p.key[1])
      BY <1>11
    <2>7. Proto!Emit(r, h, hit, d, who)
      BY <1>11, <2>1
    <2>8. \/ hand' = [hand EXCEPT ![r] = h]
          \/ hand' = [hand EXCEPT ![r] = Sending(h, Candidate(h, d, who))]
      BY <2>7, EmitCases
    <2> QED
      BY <2>2, <2>4, <2>5, <2>6, <2>8, OtherStep
  <1>12. CASE /\ s.op = "host"
              /\ LET others == {m \in Proto!Members(<<"sni", e.cid>>) : Proto!host_sni_mismatch(m[1], e.host)}
                 IN  \E m \in IF others = {} THEN {<<Proto!Missing>>} ELSE others :
                        Proto!Emit(r, h, others # {}, "ech_sni_mismatch", <<e.src, e.dst, e.host, m[1], e.cid>>)
              /\ UNCHANGED <<kv, sets, moves, counters, emitted, past>>
    <2>1. PICK others : others = {m \in Proto!Members(<<"sni", e.cid>>) : Proto!host_sni_mismatch(m[1], e.host)}
      OBVIOUS
    <2>2. PICK hit : hit = (others # {})
      BY Zenon
    <2>3. PICK m : Proto!Emit(r, h, others # {}, "ech_sni_mismatch", <<e.src, e.dst, e.host, m[1], e.cid>>)
      BY <1>12, <2>1, Zenon
    <2>4. PICK who : who = <<e.src, e.dst, e.host, m[1], e.cid>>
      OBVIOUS
    <2>5. Proto!Emit(r, h, hit, "ech_sni_mismatch", who)
      BY <2>2, <2>3, <2>4, Zenon
    <2>6. \/ hand' = [hand EXCEPT ![r] = h]
          \/ hand' = [hand EXCEPT ![r] = Sending(h, Candidate(h, "ech_sni_mismatch", who))]
      BY <2>5, EmitCases
    <2>7. UNCHANGED <<now, kv, sets, emitted, past>>
      BY <1>12
    <2> QED
      BY <2>6, <2>7, EmitOnly
  <1>13. CASE /\ s.op = "ssh"
              /\ Proto!Emit(r, h, Proto!Count(<<"ssh", Proto!Pair(e)>>) + 1 >= Sessions, "ssh_bruteforce",
                            <<Proto!Pair(e), Proto!Count(<<"ssh", Proto!Pair(e)>>) + 1>>)
              /\ past' = Proto!Wrote(r, "ssh", Proto!Pair(e), <<>>, 1) /\ UNCHANGED <<kv, sets, moves, emitted>>
    <2>1. PICK hit : hit = (Proto!Count(<<"ssh", Proto!Pair(e)>>) + 1 >= Sessions)
      BY Zenon
    <2>2. PICK who, a, b : who = <<Proto!Pair(e), Proto!Count(<<"ssh", Proto!Pair(e)>>) + 1>> /\ a = e.src /\ b = e.dst
      OBVIOUS
    <2>3. Proto!Emit(r, h, hit, "ssh_bruteforce", who)
      BY <1>13, <2>1, <2>2, Zenon
    <2>4. past' = Proto!Wrote(r, "ssh", <<a, b>>, <<>>, 1)
      BY <1>13, <2>2 DEF Proto!Pair
    <2>5. \/ hand' = [hand EXCEPT ![r] = h]
          \/ hand' = [hand EXCEPT ![r] = Sending(h, Candidate(h, "ssh_bruteforce", who))]
      BY <2>3, EmitCases
    <2>6. UNCHANGED <<now, kv, sets, emitted>>
      BY <1>13
    <2> QED
      BY <2>4, <2>5, <2>6, CountStep
  <1>14. CASE /\ s.op = "bytes"
              /\ LET total == Proto!Count(<<"icmp", Proto!Pair(e)>>) + e.bytes
                 IN  Proto!Emit(r, h, e.proto = "ICMP" /\ e.external /\ total >= Bytes, "icmp_exfil",
                                <<Proto!Pair(e), total>>)
              /\ past' = Proto!Wrote(r, "bytes", Proto!Pair(e), <<>>, e.bytes) /\ UNCHANGED <<kv, sets, moves, emitted>>
    <2>1. PICK total : total = Proto!Count(<<"icmp", Proto!Pair(e)>>) + e.bytes
      OBVIOUS
    <2>2. PICK hit : hit = (e.proto = "ICMP" /\ e.external /\ total >= Bytes)
      BY Zenon
    <2>3. PICK who, a, b, n : who = <<Proto!Pair(e), total>> /\ a = e.src /\ b = e.dst /\ n = e.bytes
      OBVIOUS
    <2>4. Proto!Emit(r, h, hit, "icmp_exfil", who)
      BY <1>14, <2>1, <2>2, <2>3, Zenon
    <2>5. past' = Proto!Wrote(r, "bytes", <<a, b>>, <<>>, n)
      BY <1>14, <2>3 DEF Proto!Pair
    <2>6. \/ hand' = [hand EXCEPT ![r] = h]
          \/ hand' = [hand EXCEPT ![r] = Sending(h, Candidate(h, "icmp_exfil", who))]
      BY <2>4, EmitCases
    <2>7. UNCHANGED <<now, kv, sets, emitted>>
      BY <1>14
    <2> QED
      BY <2>5, <2>6, <2>7, CountStep
  <1> QED
    BY <1>1, <1>2, <1>3, <1>4, <1>5, <1>6, <1>7, <1>8, <1>9, <1>10, <1>11, <1>12, <1>13, <1>14, Zenon
       DEF Proto!Do, Proto!store

LEMMA HandleStep ==
    ASSUME NoveltyInv, NEW r \in Replicas, Proto!Handle(r)
    PROVE  NoveltyInv'
  <1>1. PICK e, steps, k : e = input[r][read[r] + 1] /\ steps = Proto!Steps(e) /\ k = Proto!Cardinality(past)
    OBVIOUS
  <1>2. PICK g : g = [e |-> e, steps |-> steps, seen |-> {}, ac |-> {}, base |-> [n |-> 0, first |-> -1],
                      rare |-> FALSE, mark |-> k]
    OBVIOUS
  <1>3. hand' = [hand EXCEPT ![r] = g]
    BY <1>1, <1>2 DEF Proto!Handle
  <1>4. UNCHANGED <<now, kv, sets, emitted, past>>
    BY DEF Proto!Handle, Proto!store
  <1>5. PastOK /\ Learned(sets)
    BY DEF NoveltyInv
  <1>6. k \in Nat /\ k = Cardinality(past) /\ k <= Cardinality(past)
    <2>1. k = Cardinality(past)
      BY <1>1, SameCount
    <2>2. k \in Nat
      BY <1>5, <2>1, FS_CardinalityType DEF PastOK
    <2> QED
      BY <2>1, <2>2
  <1>7. Tasks(steps)
    <2>1. Observing(steps)
      BY <1>1, StepsObserving
    <2>2. \A s : Allowed(s) => StepOK(s)
      BY DEF Allowed, StepOK
    <2> QED
      BY <2>1, <2>2 DEF Observing, Tasks
  <1>8. /\ g.e = e /\ g.steps = steps /\ g.seen = {} /\ g.ac = {} /\ g.base = [n |-> 0, first |-> -1]
        /\ g.rare = FALSE /\ g.mark = k
    BY <1>2
  <1>9. g = [e |-> g.e, steps |-> g.steps, seen |-> g.seen, ac |-> g.ac, base |-> g.base, rare |-> g.rare,
             mark |-> g.mark]
    BY <1>2, <1>8, Zenon
  <1>10. BaseOK(g.e.src, g.base) /\ SeenOK(g.e.src, g.seen, g.mark)
    BY <1>8 DEF BaseOK, SeenOK
  <1>11. Handler(g)
    BY <1>6, <1>7, <1>8, <1>9, <1>10 DEF Handler
  <1>12. Later /\ Learned(sets') /\ \A p \in past' : p \in past
    BY <1>4, <1>5, LaterSame
  <1> QED
    BY <1>3, <1>4, <1>11, <1>12, SetsStep

LEMMA StepStep ==
    ASSUME Proto!ProtocolAssumption, NoveltyInv, NEW r \in Replicas, Proto!Step(r)
    PROVE  NoveltyInv'
  <1>1. PICK g, h, s, e : g = hand[r] /\ h = [g EXCEPT !.steps = Tail(@)] /\ s = Head(g.steps) /\ e = g.e
    OBVIOUS
  <1>2. g.steps # <<>> /\ Proto!Do(r, s, e, h) /\ now' = now
    BY <1>1 DEF Proto!Step, Proto!Busy
  <1>3. Handler(g)
    BY <1>1, <1>2 DEF NoveltyInv, HandsOK
  <1>4. StepOK(s) /\ Tasks(Tail(g.steps))
    BY <1>1, <1>2, <1>3, TasksLeft DEF Handler
  <1>5. h = [e |-> e, steps |-> Tail(g.steps), seen |-> g.seen, ac |-> g.ac, base |-> g.base, rare |-> g.rare,
             mark |-> g.mark]
    BY <1>1, <1>3 DEF Handler
  <1>6. /\ h.e = e /\ h.steps = Tail(g.steps) /\ h.seen = g.seen /\ h.ac = g.ac /\ h.base = g.base
        /\ h.rare = g.rare /\ h.mark = g.mark
    BY <1>5
  <1>7. h = [e |-> h.e, steps |-> h.steps, seen |-> h.seen, ac |-> h.ac, base |-> h.base, rare |-> h.rare,
             mark |-> h.mark]
    BY <1>5, <1>6, Zenon
  <1>8. Handler(h)
    BY <1>1, <1>3, <1>4, <1>6, <1>7 DEF Handler
  <1> QED
    BY <1>2, <1>4, <1>6, <1>8, DoStep

LEMMA DropStep ==
    ASSUME NoveltyInv, NEW r \in Replicas, hand' = [hand EXCEPT ![r] = Proto!Idle],
           UNCHANGED <<now, kv, sets, emitted, past>>
    PROVE  NoveltyInv'
  <1>1. PastOK /\ KvOK /\ Learned(sets) /\ \A c \in emitted : Justified(c)
    BY DEF NoveltyInv
  <1>2. Later
    BY <1>1, LaterSame
  <1>3. KvOK' /\ (\A c \in emitted : Justified(c))'
    BY <1>1, <1>2, RestAfter
  <1>4. Learned(sets)'
    BY <1>1, <1>2, LearnedAfter
  <1>5. Proto!Idle.steps = <<>>
    BY DEF Proto!Idle
  <1> QED
    BY <1>2, <1>3, <1>4, <1>5, StepDone

LEMMA SameStep ==
    ASSUME NoveltyInv, UNCHANGED <<now, hand, kv, sets, emitted, past>>
    PROVE  NoveltyInv'
  <1>1. PastOK /\ KvOK /\ Learned(sets) /\ HandsOK /\ \A c \in emitted : Justified(c)
    BY DEF NoveltyInv
  <1>2. Later
    BY <1>1, LaterSame
  <1>3. KvOK' /\ (\A c \in emitted : Justified(c))'
    BY <1>1, <1>2, RestAfter
  <1>4. Learned(sets)'
    BY <1>1, <1>2, LearnedAfter
  <1>5. \A g : Handler(g) => Handler(g)'
    BY <1>1, <1>2, HandlerKeeps DEF Later, PastOK
  <1>6. HandsOK'
    BY <1>1, <1>5 DEF HandsOK
  <1>7. PastOK'
    BY <1>2 DEF Later
  <1> QED
    BY <1>3, <1>4, <1>6, <1>7 DEF NoveltyInv

\* Only what has expired goes, and no handler is under way.
LEMMA TickStep ==
    ASSUME Proto!ProtocolAssumption, NoveltyInv, Proto!Tick
    PROVE  NoveltyInv'
  <1>1. PastOK /\ KvOK /\ Learned(sets) /\ HandsOK /\ \A c \in emitted : Justified(c)
    BY DEF NoveltyInv
  <1>2. /\ now' = now + 1 /\ \A r \in Replicas : hand[r].steps = <<>>
        /\ sets' = {x \in sets : x.exp >= now'} /\ UNCHANGED <<hand, kv, emitted, past>>
    BY DEF Proto!Tick, Proto!Busy
  <1>3. PICK k : k = now'
    OBVIOUS
  <1>4. now \in Nat /\ k = now + 1 /\ k \in Nat /\ BaselineTTL \in Nat
    <2>1. now \in Nat /\ k = now + 1
      BY <1>1, <1>2, <1>3 DEF PastOK
    <2>2. BaselineTTL \in Nat
      BY DEF Proto!ProtocolAssumption
    <2> QED
      BY <2>1, <2>2
  <1>5. PastOK'
    <2>1. \A p \in past : p.at \in Nat /\ p.at <= now /\ p.no \in Nat /\ p.no <= Cardinality(past)
      BY <1>1 DEF PastOK
    <2>2. \A p \in past : p.at <= k
      BY <1>4, <2>1
    <2> QED
      BY <1>1, <1>2, <1>3, <1>4, <2>1, <2>2 DEF PastOK
  <1>6. KvOK'
    BY <1>1, <1>2 DEF KvOK, Since, Writes, Of
  <1>7. (\A c \in emitted : Justified(c))'
    BY <1>1, <1>2 DEF Justified, Since, Writes, Of
  <1>8. HandsOK'
    <2>1. DOMAIN hand' = Replicas /\ \A h \in {hand'[r] : r \in Replicas} : h.steps = <<>>
      BY <1>1, <1>2 DEF HandsOK
    <2> QED
      BY <2>1 DEF HandsOK
  <1>9. Learned(sets)'
    <2>1. \A x \in sets' : x.exp \in Nat
      BY <1>1, <1>2 DEF Learned
    <2>2. ASSUME NEW p \in past, Of(p, "know", p.key[1]), p.at + BaselineTTL >= k
          PROVE  \E x \in sets' : x.key = Proto!Known(p.key[1]) /\ x.member = p.fp /\ x.exp >= p.at + BaselineTTL
      <3>1. p.at \in Nat
        BY <1>1 DEF PastOK
      <3>2. p.at + BaselineTTL >= now
        BY <1>4, <2>2, <3>1
      <3>3. PICK x \in sets : x.key = Proto!Known(p.key[1]) /\ x.member = p.fp /\ x.exp >= p.at + BaselineTTL
        BY <1>1, <2>2, <3>2 DEF Learned
      <3>4. x.exp \in Nat
        BY <1>1 DEF Learned
      <3>5. x.exp >= k
        BY <1>4, <2>2, <3>1, <3>3, <3>4
      <3> QED
        BY <1>2, <1>3, <3>3, <3>5
    <2> QED
      BY <1>2, <1>3, <2>1, <2>2 DEF Learned, Of, Proto!Known
  <1> QED
    BY <1>5, <1>6, <1>7, <1>8, <1>9 DEF NoveltyInv

LEMMA NoveltyStarts ==
    ASSUME Proto!Init
    PROVE  NoveltyInv
  <1>1. now = 0 /\ past = {} /\ kv = {} /\ sets = {} /\ emitted = {} /\ hand = [r \in Replicas |-> Proto!Idle]
    BY DEF Proto!Init
  <1>2. PastOK
    BY <1>1, FS_EmptySet DEF PastOK
  <1>3. KvOK /\ Learned(sets) /\ \A c \in emitted : Justified(c)
    BY <1>1 DEF KvOK, Learned
  <1>4. Proto!Idle.steps = <<>>
    BY DEF Proto!Idle
  <1>5. HandsOK
    BY <1>1, <1>4 DEF HandsOK
  <1> QED
    BY <1>2, <1>3, <1>5 DEF NoveltyInv

LEMMA NoveltyKept ==
    ASSUME Proto!ProtocolAssumption, NoveltyInv, [Proto!Next]_Proto!vars
    PROVE  NoveltyInv'
  <1>1. ASSUME NEW r \in Replicas, Proto!Handle(r) PROVE NoveltyInv'
    BY <1>1, HandleStep
  <1>2. ASSUME NEW r \in Replicas, Proto!Step(r) PROVE NoveltyInv'
    BY <1>2, StepStep
  <1>3. ASSUME NEW r \in Replicas, Proto!HandlerFails(r) PROVE NoveltyInv'
    BY <1>3, DropStep DEF Proto!HandlerFails, Proto!store
  <1>4. ASSUME NEW r \in Replicas, Proto!AutoCommit(r) PROVE NoveltyInv'
    BY <1>4, SameStep DEF Proto!AutoCommit, Proto!store
  <1>5. ASSUME NEW r \in Replicas, Proto!Crash(r) PROVE NoveltyInv'
    BY <1>5, DropStep DEF Proto!Crash, Proto!store
  <1>6. CASE Proto!Tick
    BY <1>6, TickStep
  <1>7. CASE UNCHANGED Proto!vars
    BY <1>7, SameStep DEF Proto!vars, Proto!store
  <1> QED
    BY <1>1, <1>2, <1>3, <1>4, <1>5, <1>6, <1>7 DEF Proto!Next

\* The writes that bear a candidate out are among all that have been numbered.
LEMMA NoveltyMeant ==
    ASSUME Proto!ProtocolAssumption, NoveltyInv
    PROVE  Proto!NoveltyJustified
  <1> SUFFICES ASSUME NEW c \in emitted, c.id[1] = "ja4_novelty"
               PROVE  /\ Proto!Covered(c.id[2][1], c.at, Proto!Cardinality(past))
                      /\ ~\E p \in past : /\ p.kind = "know" /\ p.key = <<c.id[2][1]>> /\ p.fp = c.id[2][2]
                                          /\ p.no <= c.mark /\ p.at + BaselineTTL >= c.at
    BY DEF Proto!NoveltyJustified, Proto!Novelties
  <1>1. PICK src, at, k : src = c.id[2][1] /\ at = c.at /\ k = Proto!Cardinality(past)
    OBVIOUS
  <1>2. Justified(c)
    BY DEF NoveltyInv
  <1>3. ~\E p \in past : /\ p.kind = "know" /\ p.key = <<src>> /\ p.fp = c.id[2][2]
                         /\ p.no <= c.mark /\ p.at + BaselineTTL >= at
    BY <1>1, <1>2 DEF Justified, Of
  <1>4. PICK g \in past : Since(src, MinObservations, g.at, at) /\ at - g.at >= MinSpan
    BY <1>1, <1>2 DEF Justified
  <1>5. PICK first : first = g.at
    OBVIOUS
  <1>6. PICK f \in past : Of(f, "baseline", src) /\ f.at = first
    BY <1>4, <1>5 DEF Since
  <1>7. \A p \in past : p.no <= k
    BY <1>1, SameCount DEF NoveltyInv, PastOK
  <1>8. Proto!Unbroken(src, f.at, at, k)
    BY <1>4, <1>5, <1>6, <1>7 DEF Since, Of, Proto!Unbroken
  <1>9. Proto!Cardinality({p \in past : p.kind = "baseline" /\ p.key = <<src>> /\ p.no <= k /\ p.at >= f.at})
          >= MinObservations
    <2>1. {p \in past : p.kind = "baseline" /\ p.key = <<src>> /\ p.no <= k /\ p.at >= f.at} = Writes(src, first)
      BY <1>6, <1>7 DEF Writes, Of
    <2>2. Cardinality(Writes(src, first)) >= MinObservations
      BY <1>4, <1>5 DEF Since
    <2> QED
      BY <2>1, <2>2, SameCount
  <1>10. at - f.at >= MinSpan
    BY <1>4, <1>5, <1>6
  <1>11. Proto!Covered(src, at, k)
    BY <1>6, <1>7, <1>8, <1>9, <1>10 DEF Proto!Covered, Of
  <1> QED
    BY <1>1, <1>3, <1>11

\* However the handlers of a source interleave, die or are repeated, and for every choice of
\* the thresholds, a novelty is reported only of a source whose activity was observed often
\* enough and long enough without a gap, and only of a fingerprint that none of its handlers
\* had learned before this one began and that was not forgotten (_ja4_observe).
THEOREM NoveltiesAreJustified ==
    ASSUME Proto!ProtocolAssumption
    PROVE  Proto!Spec => []Proto!NoveltyJustified
  <1>1. Proto!Init => NoveltyInv
    BY NoveltyStarts
  <1>2. NoveltyInv /\ [Proto!Next]_Proto!vars => NoveltyInv'
    BY NoveltyKept
  <1>3. NoveltyInv => Proto!NoveltyJustified
    BY NoveltyMeant
  <1> QED
    BY <1>1, <1>2, <1>3, PTL DEF Proto!Spec

\* The source's activity has no gap from a to b.
Gapless(src, a, b) ==
    \A t \in a + 1 .. b : \E p \in past : Of(p, "baseline", src) /\ p.at < t /\ t <= p.at + BaselineTTL
\* A fingerprint that a handler learns is to be reported: as far as the first `mark` writes
\* tell, the source was ready and known by some fingerprint, and none before `no` is this one.
Due(src, fp, at, mark, no) ==
    /\ Proto!Covered(src, at, mark)
    /\ \E p \in past : Of(p, "know", src) /\ p.no <= mark /\ p.at + BaselineTTL >= at
    /\ ~\E p \in past : Of(p, "know", src) /\ p.fp = fp /\ p.no < no /\ p.at + BaselineTTL >= at
Told(src, fp) == \E c \in emitted : c.id[1] = "ja4_novelty" /\ c.id[2][1] = src /\ c.id[2][2] = fp

\* What is written later does not make a report due that was not.
LEMMA DueBefore ==
    ASSUME PastOK, past \subseteq past', \A p \in past' : p \in past \/ (p.no \in Nat /\ p.no > Cardinality(past)),
           NEW src, NEW fp, NEW at, NEW mark \in Nat, mark <= Cardinality(past), NEW no \in Nat, NEW later \in Nat, no <= later,
           Due(src, fp, at, mark, later)'
    PROVE  Due(src, fp, at, mark, no)
  <1>1. PICK k : k = Cardinality(past)
    OBVIOUS
  <1>2. k \in Nat /\ mark <= k
    BY <1>1, FS_CardinalityType DEF PastOK
  <1>3. \A p \in past' : p.no <= mark => p \in past
    BY <1>1, <1>2
  <1>4. \A p \in past : p \in past' /\ p.no \in Nat
    BY DEF PastOK
  <1>5. Proto!Covered(src, at, mark)
    <2>1. Proto!Covered(src, at, mark)'
      BY DEF Due
    <2>2. PICK f \in past' : /\ f.kind = "baseline" /\ f.key = <<src>> /\ f.no <= mark
                             /\ at - f.at >= MinSpan /\ Proto!Unbroken(src, f.at, at, mark)'
                             /\ Proto!Cardinality({p \in past' : p.kind = "baseline" /\ p.key = <<src>> /\ p.no <= mark /\ p.at >= f.at})
                                  >= MinObservations
      BY <2>1 DEF Proto!Covered, Proto!Cardinality
    <2>3. f \in past
      BY <1>3, <2>2
    <2>4. Proto!Unbroken(src, f.at, at, mark)
      BY <1>3, <2>2 DEF Proto!Unbroken
    <2>5. {p \in past' : p.kind = "baseline" /\ p.key = <<src>> /\ p.no <= mark /\ p.at >= f.at}
            = {p \in past : p.kind = "baseline" /\ p.key = <<src>> /\ p.no <= mark /\ p.at >= f.at}
      BY <1>3, <1>4
    <2>6. Proto!Cardinality({p \in past : p.kind = "baseline" /\ p.key = <<src>> /\ p.no <= mark /\ p.at >= f.at})
            >= MinObservations
      BY <2>2, <2>5
    <2> QED
      BY <2>2, <2>3, <2>4, <2>6 DEF Proto!Covered
  <1>6. \E p \in past : Of(p, "know", src) /\ p.no <= mark /\ p.at + BaselineTTL >= at
    BY <1>3 DEF Due, Of
  <1>7. ASSUME NEW p \in past, Of(p, "know", src), p.fp = fp, p.no < no, p.at + BaselineTTL >= at
        PROVE  FALSE
    <2>1. p \in past' /\ p.no < later
      BY <1>4, <1>7
    <2> QED
      BY <1>7, <2>1 DEF Due, Of
  <1> QED
    BY <1>5, <1>6, <1>7 DEF Due

\* The store tells as much as the writes do: a baseline lives as long as the last write of its
\* source, and counts all of them since any from which on there was no gap; ...
KvTells ==
    /\ \A src : \A f \in past : Of(f, "baseline", src) => \E b \in kv : b.src = src /\ b.exp >= f.at + BaselineTTL
    /\ \A b \in kv :
          /\ b.exp <= now + BaselineTTL
          /\ \A f \in past : Of(f, "baseline", b.src) /\ Gapless(b.src, f.at, b.exp - BaselineTTL) =>
                b.first <= f.at /\ Cardinality(Writes(b.src, f.at)) <= b.n
\* ... and a source is known only by what was learned of it.
OnlyLearned(S) ==
    /\ IsFiniteSet(S)
    /\ \A src : \A x \in S : x.key = Proto!Known(src) =>
          \E p \in past : Of(p, "know", src) /\ p.fp = x.member /\ p.at + BaselineTTL >= x.exp
\* A baseline as it is read.
BaseIs(src, base) ==
    \/ \E b \in kv : b.exp >= now /\ b.src = src /\ base.n = b.n /\ base.first = b.first
    \/ ~(\E b \in kv : b.exp >= now /\ b.src = src) /\ base.n = 0 /\ base.first = -1

LEMMA BaselineIs == \A src : BaseIs(src, Proto!Baseline(src))
  <1> SUFFICES ASSUME NEW src PROVE BaseIs(src, Proto!Baseline(src))
    OBVIOUS
  <1>1. CASE \E b \in Proto!Live(kv) : b.src = src
    <2>1. PICK b : b = CHOOSE x \in Proto!Live(kv) : x.src = src
      OBVIOUS
    <2>2. b \in kv /\ b.exp >= now /\ b.src = src
      BY <1>1, <2>1 DEF Proto!Live
    <2>3. Proto!Baseline(src) = [n |-> b.n, first |-> b.first]
      BY <1>1, <2>1 DEF Proto!Baseline
    <2> QED
      BY <2>2, <2>3 DEF BaseIs
  <1>2. CASE ~\E b \in Proto!Live(kv) : b.src = src
    <2>1. Proto!Baseline(src) = [n |-> 0, first |-> -1]
      BY <1>2 DEF Proto!Baseline
    <2> QED
      BY <1>2, <2>1 DEF BaseIs, Proto!Live
  <1> QED
    BY <1>1, <1>2

\* From a write after which there was no gap, the baseline is alive and counts on.
LEMMA BaselineCounts ==
    ASSUME Proto!ProtocolAssumption, PastOK, KvOK, KvTells, NEW src, NEW base, BaseIs(src, base),
           NEW f \in past, Of(f, "baseline", src), Gapless(src, f.at, now)
    PROVE  base.n \in Nat /\ base.first \in Nat /\ base.first <= f.at /\ Cardinality(Writes(src, f.at)) <= base.n
  <1>1. now \in Nat /\ f.at \in Nat /\ f.at <= now /\ BaselineTTL \in Nat
    BY DEF PastOK, Proto!ProtocolAssumption
  <1>2. PICK p \in past : Of(p, "baseline", src) /\ now <= p.at + BaselineTTL /\ p.at \in Nat
    <2>1. CASE f.at = now
      BY <1>1, <2>1
    <2>2. CASE f.at # now
      <3>1. now \in f.at + 1 .. now
        BY <1>1, <2>2
      <3> QED
        BY <3>1 DEF Gapless, PastOK
    <2> QED
      BY <2>1, <2>2
  <1>3. PICK a \in kv : a.src = src /\ a.exp >= p.at + BaselineTTL
    BY <1>2 DEF KvTells
  <1>4. a.exp >= now
    BY <1>1, <1>2, <1>3 DEF KvOK
  <1>5. PICK b \in kv : b.src = src /\ base.n = b.n /\ base.first = b.first
    BY <1>3, <1>4 DEF BaseIs
  <1>6. b.exp \in Nat /\ b.n \in Nat /\ b.first \in Nat /\ b.exp <= now + BaselineTTL
    BY DEF KvOK, Since, KvTells
  <1>7. Gapless(src, f.at, b.exp - BaselineTTL)
    <2>1. PICK x, y : x = f.at /\ y = b.exp - BaselineTTL
      OBVIOUS
    <2>2. \A t \in x + 1 .. y : t \in x + 1 .. now
      BY <1>1, <1>6, <2>1
    <2> QED
      BY <2>1, <2>2 DEF Gapless
  <1>8. b.first <= f.at /\ Cardinality(Writes(b.src, f.at)) <= b.n
    BY <1>5, <1>7 DEF KvTells
  <1> QED
    BY <1>5, <1>6, <1>8

\* What is to be reported is a novelty to the handler that has read the store.
LEMMA DueIsNovel ==
    ASSUME Proto!ProtocolAssumption, PastOK, KvOK, Learned(sets), KvTells, OnlyLearned(sets),
           NEW src, NEW fp, NEW mark, NEW no, \A p \in past : p.no < no, Due(src, fp, now, mark, no),
           NEW base, BaseIs(src, base), NEW seen, seen = Proto!Members(Proto!Known(src)), NEW ac, NEW fleet
    PROVE  Proto!Novelty(fp, seen, ac, fleet, Proto!Maturity(base.n, Proto!Cardinality(seen), base.first))[1]
  <1>1. now \in Nat /\ IsFiniteSet(past) /\ BaselineTTL \in Nat /\ MinObservations \in Nat /\ MinSpan \in Nat
    BY DEF PastOK, Proto!ProtocolAssumption
  <1>2. PICK f \in past : /\ Of(f, "baseline", src) /\ now - f.at >= MinSpan /\ Proto!Unbroken(src, f.at, now, mark)
                          /\ Proto!Cardinality({p \in past : p.kind = "baseline" /\ p.key = <<src>> /\ p.no <= mark /\ p.at >= f.at})
                               >= MinObservations
    BY DEF Due, Proto!Covered, Of
  <1>3. Gapless(src, f.at, now)
    BY <1>2 DEF Proto!Unbroken, Gapless, Of
  <1>4. base.n \in Nat /\ base.first \in Nat /\ base.first <= f.at /\ Cardinality(Writes(src, f.at)) <= base.n
    BY <1>2, <1>3, BaselineCounts
  <1>5. base.n >= MinObservations
    <2>1. PICK A : A = {p \in past : p.kind = "baseline" /\ p.key = <<src>> /\ p.no <= mark /\ p.at >= f.at}
      OBVIOUS
    <2>2. A \subseteq Writes(src, f.at) /\ Writes(src, f.at) \subseteq past
      BY <2>1 DEF Writes, Of
    <2>3. IsFiniteSet(Writes(src, f.at))
      BY <1>1, <2>2, FS_Subset
    <2>4. Cardinality(A) <= Cardinality(Writes(src, f.at)) /\ Cardinality(A) \in Nat /\ Cardinality(Writes(src, f.at)) \in Nat
      BY <2>2, <2>3, FS_Subset, FS_CardinalityType
    <2>5. Cardinality(A) >= MinObservations
      BY <1>2, <2>1, SameCount
    <2> QED
      BY <1>1, <1>4, <2>4, <2>5
  <1>6. now - base.first >= MinSpan /\ base.first # -1
    <2>1. f.at \in Nat
      BY DEF PastOK
    <2> QED
      BY <1>1, <1>2, <1>4, <2>1
  <1>7. seen # {} /\ fp \notin seen
    <2>1. SeenOK(src, seen, mark)
      BY MembersKnow
    <2>2. PICK p \in past : Of(p, "know", src) /\ p.no <= mark /\ p.at + BaselineTTL >= now
      BY DEF Due
    <2>3. seen # {}
      <3>1. p.key[1] = src /\ Of(p, "know", p.key[1])
        BY <2>2 DEF Of
      <3>2. PICK x \in sets : x.key = Proto!Known(p.key[1]) /\ x.member = p.fp /\ x.exp >= p.at + BaselineTTL
        BY <2>2, <3>1 DEF Learned
      <3>3. x.exp \in Nat /\ p.at \in Nat
        BY DEF Learned, PastOK
      <3>4. x.exp >= now
        BY <1>1, <2>2, <3>2, <3>3
      <3> QED
        BY <3>1, <3>2, <3>4 DEF Proto!Members, Proto!Live
    <2>4. ASSUME fp \in seen PROVE FALSE
      <3>1. PICK x \in sets : x.exp >= now /\ x.key = Proto!Known(src) /\ x.member = fp
        BY <2>4 DEF Proto!Members, Proto!Live
      <3>2. PICK q \in past : Of(q, "know", src) /\ q.fp = fp /\ q.at + BaselineTTL >= x.exp
        BY <3>1 DEF OnlyLearned
      <3>3. x.exp \in Nat /\ q.at \in Nat /\ q.no < no
        BY DEF Learned, PastOK
      <3>4. q.at + BaselineTTL >= now
        BY <1>1, <3>1, <3>2, <3>3
      <3> QED
        BY <3>2, <3>3, <3>4 DEF Due
    <2> QED
      BY <2>3, <2>4
  <1>8. ~(Proto!Cardinality(seen) < 1)
    <2>1. PICK S : S = {y \in Proto!Live(sets) : y.key = Proto!Known(src)}
      OBVIOUS
    <2>2. IsFiniteSet(S)
      BY <2>1, FS_Subset DEF OnlyLearned, Proto!Live
    <2>3. seen = {x.member : x \in S}
      BY <2>1 DEF Proto!Members
    <2>4. IsFiniteSet(seen)
      <3>1. PICK g : g = [x \in S |-> x.member]
        OBVIOUS
      <3>2. g \in Surjection(S, seen)
        BY <2>3, <3>1 DEF Surjection
      <3> QED
        BY <2>2, <3>2, FS_Surjection
    <2>5. Cardinality(seen) \in Nat /\ Cardinality(seen) # 0
      BY <1>7, <2>4, FS_CardinalityType, FS_EmptySet
    <2> QED
      BY <2>5, SameCount
  <1>9. Proto!Maturity(base.n, Proto!Cardinality(seen), base.first) = "ready"
    <2>1. ~(base.n < MinObservations)
      BY <1>1, <1>4, <1>5
    <2> QED
      BY <1>6, <1>8, <2>1 DEF Proto!Maturity
  <1> QED
    BY <1>7, <1>9 DEF Proto!Novelty

\* The first thing the handler does is to send the novelty.
Sends(h) ==
    LET s == Head(h.steps)
    IN  s.op = "send" /\ s.c.id[1] = "ja4_novelty" /\ s.c.id[2][1] = h.e.src /\ s.c.id[2][2] = h.e.ja4
\* A handler that has read the store holds what the store tells, and has found what is due.
ReportHand(h) ==
    /\ Ordered(h.steps)
    /\ Has(h.steps, "score") /\ ~Has(h.steps, "seen") => h.seen = Proto!Members(Proto!Known(h.e.src))
    /\ Has(h.steps, "baseline") /\ ~Has(h.steps, "score") => BaseIs(h.e.src, h.base)
    /\ Has(h.steps, "know") /\ ~Has(h.steps, "score") =>
          (Due(h.e.src, h.e.ja4, now, h.mark, Cardinality(past) + 1) => Told(h.e.src, h.e.ja4) \/ Sends(h))
Occupied(r) == hand[r].steps # <<>>
\* A source has one handler at a time.
Alone == \A q, r \in Replicas : Occupied(q) /\ Occupied(r) /\ hand[q].e.src = hand[r].e.src => q = r
\* The mark of a novelty means that it was sent, or is about to be.
MarksTell ==
    \A d \in dedup : d.id[1] = "ja4_novelty" =>
        \/ \E c \in emitted : c.id = d.id
        \/ \E q \in Replicas : /\ Occupied(q) /\ hand[q].e.src = d.id[2][1]
                               /\ Head(hand[q].steps).op = "send" /\ Head(hand[q].steps).c.id = d.id
PastTold ==
    \A p \in past : p.kind = "know" =>
        /\ Of(p, "know", p.key[1]) /\ p.mark \in Nat /\ p.mark <= Cardinality(past)
        /\ Due(p.key[1], p.fp, p.at, p.mark, p.no) => Told(p.key[1], p.fp)
Reporting ==
    /\ Alone /\ KvTells /\ OnlyLearned(sets) /\ MarksTell /\ PastTold
    /\ \A r \in Replicas : Occupied(r) => ReportHand(hand[r])
ReportInv == crashes \in Nat /\ (~overlap /\ crashes = 0 => Reporting)

LEMMA OrderedLeft ==
    ASSUME NEW s, s # <<>>, Tasks(s), Ordered(s)
    PROVE  /\ Ordered(Tail(s))
           /\ \A op : Has(s, op) <=> Head(s).op = op \/ Has(Tail(s), op)
           /\ \A op : Has(Tail(s), op) => ~Wrong(Head(s).op, op)
  <1>1. PICK S, t, l : S = {s[i] : i \in DOMAIN s} /\ t = Tail(s) /\ l = Len(s)
    OBVIOUS
  <1>2. s \in Seq(S)
    BY <1>1 DEF Tasks
  <1>3. /\ l \in Nat \ {0} /\ DOMAIN s = 1 .. l /\ Head(s) = s[1] /\ t \in Seq(S) /\ Len(t) = l - 1
        /\ DOMAIN t = 1 .. (l - 1) /\ \A i \in 1 .. (l - 1) : t[i] = s[i + 1]
    BY <1>1, <1>2
  <1>4. \A i \in DOMAIN t : i \in Nat /\ i + 1 \in DOMAIN s /\ t[i] = s[i + 1] /\ 1 < i + 1
    BY <1>3
  <1>5. 1 \in DOMAIN s
    BY <1>3
  <1>6. \A i \in DOMAIN s : i # 1 => i - 1 \in DOMAIN t /\ s[i] = t[i - 1]
    BY <1>3
  <1>7. Ordered(t)
    <2> SUFFICES ASSUME NEW i \in DOMAIN t, NEW j \in DOMAIN t, i < j PROVE ~Wrong(t[i].op, t[j].op)
      BY DEF Ordered
    <2>1. i + 1 < j + 1
      BY <1>4
    <2> QED
      BY <1>4, <2>1 DEF Ordered
  <1>8. \A op : Has(s, op) <=> Head(s).op = op \/ Has(t, op)
    BY <1>3, <1>4, <1>5, <1>6 DEF Has
  <1>9. \A op : Has(t, op) => ~Wrong(Head(s).op, op)
    BY <1>3, <1>4, <1>5 DEF Has, Ordered
  <1> QED
    BY <1>1, <1>7, <1>8, <1>9

LEMMA OrderedMore ==
    ASSUME NEW s, NEW x, Tasks(s), Ordered(s), x.op = "send"
    PROVE  /\ Ordered(<<x>> \o s) /\ Head(<<x>> \o s) = x
           /\ \A op : op # "send" => (Has(<<x>> \o s, op) <=> Has(s, op))
  <1>1. PICK S, l, u : S = {x} \cup {s[i] : i \in DOMAIN s} /\ l = Len(s) /\ u = <<x>> \o s
    OBVIOUS
  <1>2. s \in Seq(S) /\ <<x>> \in Seq(S)
    <2>1. s \in Seq({s[i] : i \in DOMAIN s})
      BY DEF Tasks
    <2> QED
      BY <1>1, <2>1
  <1>3. l \in Nat /\ DOMAIN s = 1 .. l /\ u \in Seq(S) /\ Len(u) = l + 1 /\ DOMAIN u = 1 .. l + 1
    BY <1>1, <1>2
  <1>4. \A i \in 1 .. l + 1 : u[i] = IF i <= 1 THEN x ELSE s[i - 1]
    BY <1>1, <1>2, <1>3
  <1>5. 1 \in DOMAIN u /\ u[1] = x /\ Head(u) = x
    BY <1>3, <1>4
  <1>6. \A i \in DOMAIN u : i \in Nat /\ (i # 1 => i - 1 \in DOMAIN s /\ u[i] = s[i - 1])
    BY <1>3, <1>4
  <1>7. \A i \in DOMAIN s : i + 1 \in DOMAIN u /\ u[i + 1] = s[i]
    BY <1>3, <1>4
  <1>8. Ordered(u)
    <2> SUFFICES ASSUME NEW i \in DOMAIN u, NEW j \in DOMAIN u, i < j PROVE ~Wrong(u[i].op, u[j].op)
      BY DEF Ordered
    <2>1. CASE i = 1
      BY <1>5, <2>1 DEF Wrong
    <2>2. CASE i # 1
      <3>1. j # 1 /\ i - 1 < j - 1
        BY <1>3, <2>2
      <3> QED
        BY <1>6, <2>2, <3>1 DEF Ordered
    <2> QED
      BY <2>1, <2>2
  <1>9. \A op : op # "send" => (Has(u, op) <=> Has(s, op))
    BY <1>5, <1>6, <1>7 DEF Has
  <1> QED
    BY <1>1, <1>5, <1>8, <1>9

\* The step leaves alone what the store holds of a source.
SameOf(src) ==
    /\ now' = now /\ emitted \subseteq emitted'
    /\ \A x : x.key = Proto!Known(src) => (x \in sets <=> x \in sets')
    /\ \A b : b.src = src => (b \in kv <=> b \in kv')

LEMMA DueStill ==
    ASSUME PastOK, Later, NEW src, NEW fp, NEW mark \in Nat, mark <= Cardinality(past),
           Due(src, fp, now, mark, Cardinality(past) + 1)'
    PROVE  Due(src, fp, now, mark, Cardinality(past) + 1)
  <1>1. PICK k, j, t : k = Cardinality(past) + 1 /\ j = Cardinality(past)' + 1 /\ t = now
    OBVIOUS
  <1>2. k \in Nat /\ j \in Nat /\ k <= j /\ now' = now
    BY <1>1, PastGrows DEF Later, PastOK
  <1>3. Due(src, fp, t, mark, j)'
    BY <1>1, <1>2
  <1>4. Due(src, fp, t, mark, k)
    BY <1>2, <1>3, DueBefore DEF Later
  <1> QED
    BY <1>1, <1>4

LEMMA HandSame ==
    ASSUME PastOK, Later, NEW h, SameOf(h.e.src), h.mark \in Nat, h.mark <= Cardinality(past), Ordered(h.steps),
           Has(h.steps, "score") /\ ~Has(h.steps, "seen") => h.seen = Proto!Members(Proto!Known(h.e.src)),
           Has(h.steps, "baseline") /\ ~Has(h.steps, "score") => BaseIs(h.e.src, h.base),
           Has(h.steps, "know") /\ ~Has(h.steps, "score") =>
               (Due(h.e.src, h.e.ja4, now, h.mark, Cardinality(past) + 1) => Told(h.e.src, h.e.ja4)' \/ Sends(h))
    PROVE  ReportHand(h)'
  <1>1. PICK src, fp, mark : src = h.e.src /\ fp = h.e.ja4 /\ mark = h.mark
    OBVIOUS
  <1>2. now' = now /\ emitted \subseteq emitted' /\ Proto!Known(src)' = Proto!Known(src)
    BY <1>1 DEF SameOf, Proto!Known
  <1>3. Proto!Members(Proto!Known(src))' = Proto!Members(Proto!Known(src))
    <2>1. PICK key : key = Proto!Known(src)
      OBVIOUS
    <2>2. {y \in {x \in sets : x.exp >= now} : y.key = key} = {y \in {x \in sets' : x.exp >= now'} : y.key = key}
      BY <1>1, <1>2, <2>1 DEF SameOf
    <2> QED
      BY <1>2, <2>1, <2>2 DEF Proto!Members, Proto!Live
  <1>4. ASSUME BaseIs(src, h.base) PROVE BaseIs(src, h.base)'
    BY <1>1, <1>2, <1>4 DEF BaseIs, SameOf
  <1>5. ASSUME Has(h.steps, "know"), ~Has(h.steps, "score"), Due(src, fp, now, mark, Cardinality(past) + 1)'
        PROVE  Told(src, fp)' \/ Sends(h)
    <2>1. Due(src, fp, now, mark, Cardinality(past) + 1)
      BY <1>1, <1>5, DueStill
    <2> QED
      BY <1>1, <1>5, <2>1
  <1>6. Has(h.steps, "score") /\ ~Has(h.steps, "seen") => h.seen = Proto!Members(Proto!Known(src))'
    BY <1>1, <1>3
  <1>7. Has(h.steps, "baseline") /\ ~Has(h.steps, "score") => BaseIs(src, h.base)'
    BY <1>1, <1>4
  <1> QED
    BY <1>1, <1>5, <1>6, <1>7 DEF ReportHand, Sends

LEMMA ToldKept ==
    ASSUME emitted \subseteq emitted'
    PROVE  \A src, fp : Told(src, fp) => Told(src, fp)'
  BY DEF Told

LEMMA MarksKept ==
    ASSUME HandsOK, MarksTell, NEW r \in Replicas, NEW k, hand' = [hand EXCEPT ![r] = k], Occupied(r),
           Head(hand[r].steps).op # "send", emitted' = emitted,
           \A d \in dedup' : d \in dedup \/ d.id[1] # "ja4_novelty"
    PROVE  MarksTell'
  <1> SUFFICES ASSUME NEW d \in dedup', d.id[1] = "ja4_novelty"
               PROVE  \/ \E c \in emitted' : c.id = d.id
                      \/ \E q \in Replicas : /\ hand'[q].steps # <<>> /\ hand'[q].e.src = d.id[2][1]
                                             /\ Head(hand'[q].steps).op = "send" /\ Head(hand'[q].steps).c.id = d.id
    BY DEF MarksTell, Occupied
  <1>1. d \in dedup
    OBVIOUS
  <1>2. CASE \E c \in emitted : c.id = d.id
    BY <1>2
  <1>3. ASSUME NEW q \in Replicas, Occupied(q), hand[q].e.src = d.id[2][1],
               Head(hand[q].steps).op = "send", Head(hand[q].steps).c.id = d.id
        PROVE  \E p \in Replicas : /\ hand'[p].steps # <<>> /\ hand'[p].e.src = d.id[2][1]
                                   /\ Head(hand'[p].steps).op = "send" /\ Head(hand'[p].steps).c.id = d.id
    <2>1. q # r
      BY <1>3
    <2>2. hand'[q] = hand[q]
      BY <2>1 DEF HandsOK
    <2> QED
      BY <1>3, <2>2 DEF Occupied
  <1> QED
    BY <1>1, <1>2, <1>3 DEF MarksTell

LEMMA PastTell ==
    ASSUME PastOK, PastTold, Later, emitted \subseteq emitted',
           NEW p \in past, p.kind = "know"
    PROVE  /\ Of(p, "know", p.key[1]) /\ p.mark \in Nat /\ p.mark <= Cardinality(past)'
           /\ Due(p.key[1], p.fp, p.at, p.mark, p.no)' => Told(p.key[1], p.fp)'
  <1>1. PICK src, fp, at, mark, no : src = p.key[1] /\ fp = p.fp /\ at = p.at /\ mark = p.mark /\ no = p.no
    OBVIOUS
  <1>2. Of(p, "know", p.key[1]) /\ mark \in Nat /\ mark <= Cardinality(past)
    BY <1>1 DEF PastTold
  <1>3. mark <= Cardinality(past)'
    <2>1. Cardinality(past) \in Nat /\ Cardinality(past)' \in Nat /\ Cardinality(past) <= Cardinality(past)'
      BY PastGrows DEF Later, PastOK
    <2> QED
      BY <1>2, <2>1
  <1>4. ASSUME Due(src, fp, at, mark, no)' PROVE Told(src, fp)'
    <2>1. no \in Nat /\ no <= no
      BY <1>1 DEF PastOK
    <2>2. Due(src, fp, at, mark, no)
      BY <1>2, <1>4, <2>1, DueBefore DEF Later
    <2>3. Told(src, fp)
      BY <1>1, <2>2 DEF PastTold
    <2> QED
      BY <2>3, ToldKept
  <1> QED
    BY <1>1, <1>2, <1>3, <1>4

LEMMA PastKept ==
    ASSUME PastOK, PastTold, Later, emitted \subseteq emitted', \A p \in past' : p \in past \/ p.kind # "know"
    PROVE  PastTold'
  <1> SUFFICES ASSUME NEW p \in past', p.kind = "know"
               PROVE  /\ Of(p, "know", p.key[1]) /\ p.mark \in Nat /\ p.mark <= Cardinality(past)'
                      /\ Due(p.key[1], p.fp, p.at, p.mark, p.no)' => Told(p.key[1], p.fp)'
    BY DEF PastTold, Of
  <1> QED
    BY PastTell

LEMMA KvKept ==
    ASSUME PastOK, KvTells, Later, \A p \in past' : p \in past \/ \A src : ~Of(p, "baseline", src), kv' = kv
    PROVE  KvTells'
  <1>1. past \subseteq past' /\ now' = now
    BY DEF Later
  <1>2. \A src : \A p : p \in past' /\ Of(p, "baseline", src) <=> p \in past /\ Of(p, "baseline", src)
    BY <1>1
  <1>3. \A src, first : Writes(src, first)' = Writes(src, first)
    BY <1>2 DEF Writes, Of
  <1>4. \A src, a, b : Gapless(src, a, b)' <=> Gapless(src, a, b)
    BY <1>2 DEF Gapless, Of
  <1>5. \A src : \A f \in past' : Of(f, "baseline", src) => \E b \in kv' : b.src = src /\ b.exp >= f.at + BaselineTTL
    BY <1>2 DEF KvTells
  <1>6. ASSUME NEW b \in kv' PROVE b.exp <= now' + BaselineTTL
    BY <1>1 DEF KvTells
  <1>7. ASSUME NEW b \in kv', NEW f \in past', Of(f, "baseline", b.src), Gapless(b.src, f.at, b.exp - BaselineTTL)'
        PROVE  b.first <= f.at /\ Cardinality(Writes(b.src, f.at)') <= b.n
    <2>1. b \in kv /\ f \in past
      BY <1>2, <1>7
    <2>2. Gapless(b.src, f.at, b.exp - BaselineTTL)
      BY <1>4, <1>7
    <2>3. b.first <= f.at /\ Cardinality(Writes(b.src, f.at)) <= b.n
      BY <1>7, <2>1, <2>2 DEF KvTells
    <2> QED
      BY <1>3, <2>3
  <1> QED
    BY <1>5, <1>6, <1>7 DEF KvTells, Of

LEMMA OnlyKept ==
    ASSUME OnlyLearned(sets'), past \subseteq past'
    PROVE  OnlyLearned(sets)'
  BY DEF OnlyLearned, Of, Proto!Known

LEMMA OnlyWith ==
    ASSUME NEW S, OnlyLearned(S), NEW key, NEW member, NEW ttl, key[1] # "seen"
    PROVE  /\ OnlyLearned(Proto!With(S, key, member, ttl))
           /\ \A src, x : x.key = Proto!Known(src) => (x \in S <=> x \in Proto!With(S, key, member, ttl))
  <1>1. PICK T, new : /\ new = [key |-> key, member |-> member, exp |-> now + ttl]
                      /\ T = {x \in S : ~(x.key = key /\ x.member = member)} \cup {new}
    OBVIOUS
  <1>2. T = Proto!With(S, key, member, ttl)
    BY <1>1 DEF Proto!With
  <1>3. new.key = key /\ \A src : Proto!Known(src) # key
    BY <1>1 DEF Proto!Known
  <1>4. \A src, x : x.key = Proto!Known(src) => (x \in S <=> x \in T)
    BY <1>1, <1>3
  <1>5. IsFiniteSet(T)
    <2>1. IsFiniteSet({x \in S : ~(x.key = key /\ x.member = member)})
      BY FS_Subset DEF OnlyLearned
    <2> QED
      BY <1>1, <2>1, FS_AddElement
  <1>6. OnlyLearned(T)
    BY <1>4, <1>5 DEF OnlyLearned
  <1> QED
    BY <1>2, <1>4, <1>6

\* A step of one handler, as the others see it.
LEMMA ReportDone ==
    ASSUME NoveltyInv, Reporting, Later, NEW r \in Replicas, Occupied(r), NEW k, hand' = [hand EXCEPT ![r] = k],
           k.e = hand[r].e, k.steps # <<>> => ReportHand(k)', \A src : src # k.e.src => SameOf(src),
           KvTells', OnlyLearned(sets)', MarksTell', PastTold'
    PROVE  Reporting'
  <1>1. PastOK /\ HandsOK /\ DOMAIN hand = Replicas
    BY DEF NoveltyInv, HandsOK
  <1>2. hand'[r] = k /\ \A q \in Replicas : q # r => hand'[q] = hand[q]
    BY <1>1
  <1>3. Alone'
    <2> SUFFICES ASSUME NEW q \in Replicas, NEW p \in Replicas, hand'[q].steps # <<>>, hand'[p].steps # <<>>,
                        hand'[q].e.src = hand'[p].e.src
                 PROVE  q = p
      BY DEF Alone, Occupied
    <2>1. /\ Occupied(q) /\ Occupied(p) /\ hand'[q].e = hand[q].e /\ hand'[p].e = hand[p].e
      BY <1>2 DEF Occupied
    <2> QED
      BY <2>1 DEF Reporting, Alone
  <1>4. ASSUME NEW q \in Replicas, hand'[q].steps # <<>> PROVE ReportHand(hand[q])'
    <2>1. CASE q = r
      <3>1. ReportHand(k)'
        BY <1>2, <1>4, <2>1
      <3> QED
        BY <1>2, <2>1, <3>1 DEF ReportHand, Sends, Has, Ordered
    <2>2. CASE q # r
      <3>1. PICK h : h = hand[q]
        OBVIOUS
      <3>2. hand'[q] = h /\ h.steps # <<>> /\ Occupied(q)
        BY <1>2, <1>4, <2>2, <3>1 DEF Occupied
      <3>3. ReportHand(h)
        BY <3>1, <3>2 DEF Reporting
      <3>4. Handler(h)
        BY <1>1, <3>1, <3>2 DEF HandsOK
      <3>5. h.e.src # k.e.src
        BY <2>2, <3>1, <3>2 DEF Reporting, Alone
      <3>6. SameOf(h.e.src)
        BY <3>5
      <3>7. Told(h.e.src, h.e.ja4) => Told(h.e.src, h.e.ja4)'
        BY <3>6, ToldKept DEF SameOf
      <3>8. ReportHand(h)'
        BY <1>1, <3>3, <3>4, <3>6, <3>7, HandSame DEF Handler, ReportHand
      <3> QED
        BY <3>2, <3>8 DEF ReportHand, Sends, Has, Ordered
    <2> QED
      BY <2>1, <2>2
  <1>5. \A q \in Replicas : Occupied(q)' => ReportHand(hand[q])'
    BY <1>4 DEF Occupied
  <1> QED
    BY <1>3, <1>5 DEF Reporting

\* The handler after its first step, and with something to send first.
Follows(g, h) == h.e = g.e /\ h.mark = g.mark /\ h.seen = g.seen /\ h.base = g.base /\ h.steps = Tail(g.steps)
Onward(h, k) ==
    /\ k.e = h.e /\ k.mark = h.mark /\ k.seen = h.seen /\ k.base = h.base
    /\ k.steps = h.steps \/ \E x : x.op = "send" /\ k.steps = <<x>> \o h.steps

LEMMA OnwardHas ==
    ASSUME NEW g, Handler(g), g.steps # <<>>, ReportHand(g), NEW h, Follows(g, h), NEW k, Onward(h, k)
    PROVE  /\ Ordered(k.steps) /\ \A op : op # "send" => (Has(k.steps, op) <=> Has(h.steps, op))
           /\ \A op : Has(g.steps, op) <=> Head(g.steps).op = op \/ Has(h.steps, op)
           /\ \A op : Has(h.steps, op) => ~Wrong(Head(g.steps).op, op)
           /\ k.mark \in Nat /\ k.mark <= Cardinality(past)
  <1>1. Tasks(g.steps) /\ Ordered(g.steps) /\ h.steps = Tail(g.steps)
    BY DEF Handler, ReportHand, Follows
  <1>2. /\ Ordered(h.steps)
        /\ \A op : Has(g.steps, op) <=> Head(g.steps).op = op \/ Has(h.steps, op)
        /\ \A op : Has(h.steps, op) => ~Wrong(Head(g.steps).op, op)
    BY <1>1, OrderedLeft
  <1>3. Tasks(h.steps)
    BY <1>1, TasksLeft
  <1>4. Ordered(k.steps) /\ \A op : op # "send" => (Has(k.steps, op) <=> Has(h.steps, op))
    <2>1. CASE k.steps = h.steps
      BY <1>2, <2>1
    <2>2. ASSUME NEW x, x.op = "send", k.steps = <<x>> \o h.steps
          PROVE  Ordered(k.steps) /\ \A op : op # "send" => (Has(k.steps, op) <=> Has(h.steps, op))
      BY <1>2, <1>3, <2>2, OrderedMore
    <2> QED
      BY <2>1, <2>2 DEF Onward
  <1>5. k.mark \in Nat /\ k.mark <= Cardinality(past)
    BY DEF Handler, Follows, Onward
  <1> QED
    BY <1>2, <1>4, <1>5

\* A step that neither reads nor writes what its source is known by.
LEMMA QuietStep ==
    ASSUME NoveltyInv, Reporting, Later, NEW r \in Replicas, NEW g, g = hand[r], g.steps # <<>>,
           Head(g.steps).op \notin {"send", "seen", "score", "baseline", "know"},
           NEW h, Follows(g, h), NEW k, Onward(h, k), hand' = [hand EXCEPT ![r] = k],
           emitted' = emitted, kv' = kv, OnlyLearned(sets'),
           \A src, x : x.key = Proto!Known(src) => (x \in sets <=> x \in sets'),
           \A d \in dedup' : d \in dedup \/ d.id[1] # "ja4_novelty",
           \A p \in past' : p \in past \/ (p.kind # "know" /\ p.kind # "baseline")
    PROVE  Reporting'
  <1>1. PastOK /\ HandsOK /\ Occupied(r) /\ Handler(g) /\ ReportHand(g)
    BY DEF NoveltyInv, HandsOK, Reporting, Occupied
  <1>2. \A src : SameOf(src)
    BY DEF SameOf, Later
  <1>3. /\ Ordered(k.steps) /\ \A op : op # "send" => (Has(k.steps, op) <=> Has(h.steps, op))
        /\ \A op : Has(g.steps, op) <=> Head(g.steps).op = op \/ Has(h.steps, op)
        /\ k.mark \in Nat /\ k.mark <= Cardinality(past)
    BY <1>1, OnwardHas
  <1>4. \A op \in {"seen", "score", "baseline", "know"} : Has(k.steps, op) <=> Has(g.steps, op)
    BY <1>3
  <1>5. k.e = g.e /\ k.mark = g.mark /\ k.seen = g.seen /\ k.base = g.base
    BY DEF Follows, Onward
  <1>6. Has(k.steps, "score") /\ ~Has(k.steps, "seen") => k.seen = Proto!Members(Proto!Known(k.e.src))
    BY <1>1, <1>4, <1>5 DEF ReportHand
  <1>7. Has(k.steps, "baseline") /\ ~Has(k.steps, "score") => BaseIs(k.e.src, k.base)
    BY <1>1, <1>4, <1>5 DEF ReportHand
  <1>8. Has(k.steps, "know") /\ ~Has(k.steps, "score") =>
            (Due(k.e.src, k.e.ja4, now, k.mark, Cardinality(past) + 1) => Told(k.e.src, k.e.ja4)' \/ Sends(k))
    <2>1. ~Sends(g)
      BY DEF Sends
    <2>2. Told(k.e.src, k.e.ja4) => Told(k.e.src, k.e.ja4)'
      BY ToldKept
    <2> QED
      BY <1>1, <1>4, <1>5, <2>1, <2>2 DEF ReportHand
  <1>9. ReportHand(k)'
    BY <1>1, <1>2, <1>3, <1>6, <1>7, <1>8, HandSame
  <1>10. KvTells'
    BY <1>1, KvKept DEF Reporting, Of
  <1>11. OnlyLearned(sets)'
    BY OnlyKept DEF Later
  <1>12. MarksTell'
    BY <1>1, MarksKept DEF Reporting
  <1>13. PastTold'
    BY <1>1, PastKept DEF Reporting
  <1> QED
    BY <1>1, <1>2, <1>5, <1>9, <1>10, <1>11, <1>12, <1>13, ReportDone

\* The handler reads what its source is known by.
LEMMA ReadsStep ==
    ASSUME NoveltyInv, Reporting, UNCHANGED <<now, kv, sets, dedup, emitted, past>>, NEW r \in Replicas, NEW g, g = hand[r],
           g.steps # <<>>, Head(g.steps).op = "seen", NEW h, Follows(g, h), NEW k, hand' = [hand EXCEPT ![r] = k],
           k.e = h.e, k.mark = h.mark, k.base = h.base, k.steps = h.steps, k.seen = Proto!Members(Proto!Known(h.e.src))
    PROVE  Reporting'
  <1>1. PastOK /\ HandsOK /\ Occupied(r) /\ Handler(g) /\ ReportHand(g)
    BY DEF NoveltyInv, HandsOK, Reporting, Occupied
  <1>2. Later /\ \A src : SameOf(src)
    BY <1>1, LaterSame DEF SameOf
  <1>3. /\ Ordered(h.steps) /\ \A op : Has(g.steps, op) <=> Head(g.steps).op = op \/ Has(h.steps, op)
        /\ h.mark \in Nat /\ h.mark <= Cardinality(past)
    <2>1. Onward(h, h)
      BY DEF Onward
    <2> QED
      BY <1>1, <2>1, OnwardHas
  <1>4. \A op \in {"score", "baseline", "know"} : Has(k.steps, op) <=> Has(g.steps, op)
    BY <1>3
  <1>5. k.e = g.e /\ k.mark = g.mark /\ k.base = g.base
    BY DEF Follows
  <1>6. Has(k.steps, "baseline") /\ ~Has(k.steps, "score") => BaseIs(k.e.src, k.base)
    BY <1>1, <1>4, <1>5 DEF ReportHand
  <1>7. Has(k.steps, "know") /\ ~Has(k.steps, "score") =>
            (Due(k.e.src, k.e.ja4, now, k.mark, Cardinality(past) + 1) => Told(k.e.src, k.e.ja4)' \/ Sends(k))
    <2>1. ~Sends(g)
      BY DEF Sends
    <2>2. Told(k.e.src, k.e.ja4) => Told(k.e.src, k.e.ja4)'
      BY ToldKept
    <2> QED
      BY <1>1, <1>4, <1>5, <2>1, <2>2 DEF ReportHand
  <1>8. ReportHand(k)'
    BY <1>1, <1>2, <1>3, <1>5, <1>6, <1>7, HandSame
  <1>9. KvTells'
    BY <1>1, <1>2, KvKept DEF Reporting
  <1>10. OnlyLearned(sets)'
    <2>1. OnlyLearned(sets')
      BY DEF Reporting
    <2> QED
      BY <2>1, OnlyKept
  <1>11. MarksTell'
    BY <1>1, MarksKept DEF Reporting
  <1>12. PastTold'
    BY <1>1, <1>2, PastKept DEF Reporting
  <1> QED
    BY <1>1, <1>2, <1>5, <1>8, <1>9, <1>10, <1>11, <1>12, ReportDone

LEMMA SendsStep ==
    ASSUME NoveltyInv, Reporting, UNCHANGED <<now, kv, sets, dedup, past>>, NEW r \in Replicas, NEW g, g = hand[r],
           g.steps # <<>>, Head(g.steps).op = "send", emitted' = emitted \cup {Head(g.steps).c},
           NEW h, Follows(g, h), hand' = [hand EXCEPT ![r] = h]
    PROVE  Reporting'
  <1>1. PastOK /\ HandsOK /\ Occupied(r) /\ Handler(g) /\ ReportHand(g)
    BY DEF NoveltyInv, HandsOK, Reporting, Occupied
  <1>2. Later /\ \A src : SameOf(src)
    BY <1>1, LaterSame DEF SameOf
  <1>3. /\ Ordered(h.steps) /\ \A op : Has(g.steps, op) <=> Head(g.steps).op = op \/ Has(h.steps, op)
        /\ h.mark \in Nat /\ h.mark <= Cardinality(past)
    <2>1. Onward(h, h)
      BY DEF Onward
    <2> QED
      BY <1>1, <2>1, OnwardHas
  <1>4. \A op \in {"seen", "score", "baseline", "know"} : Has(h.steps, op) <=> Has(g.steps, op)
    BY <1>3
  <1>5. h.e = g.e /\ h.mark = g.mark /\ h.base = g.base /\ h.seen = g.seen
    BY DEF Follows
  <1>6. Has(h.steps, "score") /\ ~Has(h.steps, "seen") => h.seen = Proto!Members(Proto!Known(h.e.src))
    BY <1>1, <1>4, <1>5 DEF ReportHand
  <1>7. Has(h.steps, "baseline") /\ ~Has(h.steps, "score") => BaseIs(h.e.src, h.base)
    BY <1>1, <1>4, <1>5 DEF ReportHand
  <1>8. Has(h.steps, "know") /\ ~Has(h.steps, "score") =>
            (Due(h.e.src, h.e.ja4, now, h.mark, Cardinality(past) + 1) => Told(h.e.src, h.e.ja4)' \/ Sends(h))
    <2>1. Told(h.e.src, h.e.ja4) \/ Sends(g) => Told(h.e.src, h.e.ja4)'
      BY <1>5 DEF Told, Sends
    <2> QED
      BY <1>1, <1>4, <1>5, <2>1 DEF ReportHand
  <1>9. ReportHand(h)'
    BY <1>1, <1>2, <1>3, <1>6, <1>7, <1>8, HandSame
  <1>10. KvTells'
    BY <1>1, <1>2, KvKept DEF Reporting
  <1>11. OnlyLearned(sets)'
    <2>1. OnlyLearned(sets')
      BY DEF Reporting
    <2> QED
      BY <2>1, OnlyKept
  <1>12. MarksTell'
    <2> SUFFICES ASSUME NEW d \in dedup, d.id[1] = "ja4_novelty"
                 PROVE  \/ \E c \in emitted' : c.id = d.id
                        \/ \E q \in Replicas : /\ hand'[q].steps # <<>> /\ hand'[q].e.src = d.id[2][1]
                                               /\ Head(hand'[q].steps).op = "send" /\ Head(hand'[q].steps).c.id = d.id
      BY DEF MarksTell, Occupied
    <2>1. CASE \E c \in emitted : c.id = d.id
      BY <2>1
    <2>2. ASSUME NEW q \in Replicas, Occupied(q), hand[q].e.src = d.id[2][1],
                 Head(hand[q].steps).op = "send", Head(hand[q].steps).c.id = d.id
          PROVE  \/ \E c \in emitted' : c.id = d.id
                 \/ \E p \in Replicas : /\ hand'[p].steps # <<>> /\ hand'[p].e.src = d.id[2][1]
                                        /\ Head(hand'[p].steps).op = "send" /\ Head(hand'[p].steps).c.id = d.id
      <3>1. CASE q = r
        BY <2>2, <3>1
      <3>2. CASE q # r
        <4>1. hand'[q] = hand[q]
          BY <1>1, <3>2 DEF HandsOK
        <4> QED
          BY <2>2, <4>1 DEF Occupied
      <3> QED
        BY <3>1, <3>2
    <2> QED
      BY <2>1, <2>2 DEF Reporting, MarksTell
  <1>13. PastTold'
    BY <1>1, <1>2, PastKept DEF Reporting
  <1> QED
    BY <1>1, <1>2, <1>5, <1>9, <1>10, <1>11, <1>12, <1>13, ReportDone

\* What is due is found: it is sent next, or the mark says that it has been sent.
LEMMA ScoresStep ==
    ASSUME Proto!ProtocolAssumption, NoveltyInv, Reporting, UNCHANGED <<now, kv, sets, emitted, past>>, NEW r \in Replicas,
           NEW g, g = hand[r], g.steps # <<>>, Head(g.steps).op = "score", NEW h, Follows(g, h), Handler(h),
           NEW base, base = Proto!Baseline(h.e.src), NEW ac, NEW fleet, NEW hit,
           hit = Proto!Novelty(h.e.ja4, h.seen, ac, fleet, Proto!Maturity(base.n, Proto!Cardinality(h.seen), base.first))[1],
           NEW who, who[1] = h.e.src, who[2] = h.e.ja4, NEW b, b = [h EXCEPT !.base = base],
           Proto!Emit(r, b, hit, "ja4_novelty", who)
    PROVE  Reporting'
  <1>1. PastOK /\ KvOK /\ Learned(sets) /\ HandsOK /\ Occupied(r) /\ Handler(g) /\ ReportHand(g)
    BY DEF NoveltyInv, HandsOK, Reporting, Occupied
  <1>2. Later /\ \A src : SameOf(src)
    BY <1>1, LaterSame DEF SameOf
  <1>3. PICK src, fp, id : src = h.e.src /\ fp = h.e.ja4 /\ id = <<"ja4_novelty", who, now \div Bucket>>
    OBVIOUS
  <1>4. id[1] = "ja4_novelty" /\ id[2] = who /\ id[2][1] = src /\ id[2][2] = fp
    BY <1>3
  <1>5. PICK send, c : send = [op |-> "send", c |-> c] /\ c = [id |-> id, at |-> now, mark |-> b.mark]
    OBVIOUS
  <1>6. send.op = "send" /\ send.c = c /\ c.id = id
    BY <1>5
  <1>7. b.e = h.e /\ b.mark = h.mark /\ b.seen = h.seen /\ b.base = base /\ b.steps = h.steps
    <2>1. b = [e |-> h.e, steps |-> h.steps, seen |-> h.seen, ac |-> h.ac, base |-> base, rare |-> h.rare, mark |-> h.mark]
      BY DEF Handler
    <2> QED
      BY <2>1
  <1>8. PICK k : /\ hand' = [hand EXCEPT ![r] = k]
                 /\ \/ /\ k = [b EXCEPT !.steps = <<send>> \o @]
                       /\ dedup' = {d \in dedup : d.id # id} \cup {[id |-> id, exp |-> now + Bucket]}
                    \/ k = b /\ dedup' = dedup /\ (hit => \E d \in dedup : d.id = id)
    <2>1. CASE hit /\ ~\E d \in Proto!Live(dedup) : d.id = id
      BY <1>3, <1>5, <2>1 DEF Proto!Emit
    <2>2. CASE ~(hit /\ ~\E d \in Proto!Live(dedup) : d.id = id)
      <3>1. hand' = [hand EXCEPT ![r] = b] /\ dedup' = dedup
        BY <1>3, <2>2 DEF Proto!Emit
      <3>2. hit => \E d \in dedup : d.id = id
        BY <2>2 DEF Proto!Live
      <3> QED
        BY <3>1, <3>2
    <2> QED
      BY <2>1, <2>2
  <1>9. /\ k.e = h.e /\ k.mark = h.mark /\ k.seen = h.seen /\ k.base = base
        /\ k.steps = h.steps \/ k.steps = <<send>> \o h.steps
    <2>1. CASE k = b
      BY <1>7, <2>1
    <2>2. CASE k = [b EXCEPT !.steps = <<send>> \o @]
      <3>1. b = [e |-> h.e, steps |-> h.steps, seen |-> h.seen, ac |-> h.ac, base |-> base, rare |-> h.rare, mark |-> h.mark]
        BY DEF Handler
      <3>2. k = [e |-> h.e, steps |-> <<send>> \o h.steps, seen |-> h.seen, ac |-> h.ac, base |-> base, rare |-> h.rare,
                 mark |-> h.mark]
        BY <2>2, <3>1
      <3> QED
        BY <3>2
    <2> QED
      BY <1>8, <2>1, <2>2
  <1>10. /\ Ordered(k.steps) /\ \A op : op # "send" => (Has(k.steps, op) <=> Has(h.steps, op))
         /\ \A op : Has(g.steps, op) <=> Head(g.steps).op = op \/ Has(h.steps, op)
         /\ \A op : Has(h.steps, op) => ~Wrong(Head(g.steps).op, op)
         /\ h.mark \in Nat /\ h.mark <= Cardinality(past)
    <2>1. PICK l : l = [e |-> h.e, steps |-> k.steps, seen |-> h.seen, base |-> h.base, mark |-> h.mark]
      OBVIOUS
    <2>2. l.e = h.e /\ l.steps = k.steps /\ l.seen = h.seen /\ l.base = h.base /\ l.mark = h.mark
      BY <2>1
    <2>3. Onward(h, l)
      BY <1>6, <1>9, <2>2 DEF Onward
    <2>4. /\ Ordered(l.steps) /\ \A op : op # "send" => (Has(l.steps, op) <=> Has(h.steps, op))
          /\ \A op : Has(g.steps, op) <=> Head(g.steps).op = op \/ Has(h.steps, op)
          /\ \A op : Has(h.steps, op) => ~Wrong(Head(g.steps).op, op)
          /\ l.mark \in Nat /\ l.mark <= Cardinality(past)
      BY <1>1, <2>3, OnwardHas
    <2> QED
      BY <2>2, <2>4
  <1>11. h.seen = Proto!Members(Proto!Known(src)) /\ h.e = g.e
    <2>1. ~Has(g.steps, "seen") /\ Has(g.steps, "score")
      BY <1>10 DEF Wrong
    <2> QED
      BY <1>1, <1>3, <2>1 DEF ReportHand, Follows
  <1>12. BaseIs(src, base)
    BY <1>3, BaselineIs
  <1>13. ASSUME Due(src, fp, now, h.mark, Cardinality(past) + 1) PROVE hit
    <2>1. PICK no : no = Cardinality(past) + 1
      OBVIOUS
    <2>2. \A p \in past : p.no < no
      BY <1>1, <2>1, FS_CardinalityType DEF PastOK
    <2>3. PICK seen : seen = h.seen
      OBVIOUS
    <2>4. Proto!Novelty(fp, seen, ac, fleet, Proto!Maturity(base.n, Proto!Cardinality(seen), base.first))[1]
      BY <1>1, <1>3, <1>11, <1>12, <1>13, <2>1, <2>2, <2>3, DueIsNovel DEF Reporting
    <2> QED
      BY <1>3, <2>3, <2>4
  <1>14. ASSUME NEW d \in dedup, d.id = id PROVE Told(src, fp)
    <2>1. CASE \E x \in emitted : x.id = d.id
      BY <1>4, <1>14, <2>1 DEF Told
    <2>2. ASSUME NEW q \in Replicas, Occupied(q), hand[q].e.src = d.id[2][1], Head(hand[q].steps).op = "send"
          PROVE  FALSE
      <3>1. hand[q].e.src = hand[r].e.src
        BY <1>3, <1>4, <1>11, <1>14, <2>2
      <3>2. q = r
        BY <1>1, <2>2, <3>1 DEF Reporting, Alone
      <3> QED
        BY <2>2, <3>2
    <2> QED
      BY <1>4, <1>14, <2>1, <2>2 DEF Reporting, MarksTell
  <1>15. k.steps = <<send>> \o h.steps => Head(k.steps) = send /\ k.steps # <<>>
    <2>1. PICK t, S : t = h.steps /\ S = {send} \cup {t[i] : i \in DOMAIN t}
      OBVIOUS
    <2>2. t \in Seq({t[i] : i \in DOMAIN t})
      BY <2>1 DEF Handler, Tasks
    <2>3. t \in Seq(S) /\ <<send>> \in Seq(S)
      BY <2>1, <2>2
    <2>4. PICK u, l : u = <<send>> \o t /\ l = Len(t)
      OBVIOUS
    <2>5. l \in Nat /\ u \in Seq(S) /\ Len(u) = l + 1 /\ u[1] = send
      BY <2>3, <2>4
    <2>6. u # <<>> /\ Head(u) = u[1]
      BY <2>5
    <2> QED
      BY <2>1, <2>4, <2>5, <2>6
  <1>16. Due(src, fp, now, h.mark, Cardinality(past) + 1) => Told(src, fp)' \/ Sends(k)
    <2>1. Told(src, fp) => Told(src, fp)'
      BY ToldKept
    <2>2. CASE hit => \E d \in dedup : d.id = id
      BY <1>13, <1>14, <2>1, <2>2
    <2>3. CASE k.steps = <<send>> \o h.steps
      BY <1>3, <1>4, <1>6, <1>9, <1>15, <2>3 DEF Sends
    <2>4. k = [b EXCEPT !.steps = <<send>> \o @] => k.steps = <<send>> \o h.steps
      <3>1. b = [e |-> h.e, steps |-> h.steps, seen |-> h.seen, ac |-> h.ac, base |-> base, rare |-> h.rare, mark |-> h.mark]
        BY DEF Handler
      <3> QED
        BY <3>1
    <2> QED
      BY <1>8, <2>2, <2>3, <2>4
  <1>17. ReportHand(k)'
    BY <1>1, <1>2, <1>3, <1>9, <1>10, <1>11, <1>12, <1>16, HandSame
  <1>18. KvTells'
    BY <1>1, <1>2, KvKept DEF Reporting
  <1>19. OnlyLearned(sets)'
    <2>1. OnlyLearned(sets')
      BY DEF Reporting
    <2> QED
      BY <2>1, OnlyKept
  <1>20. PastTold'
    BY <1>1, <1>2, PastKept DEF Reporting
  <1>21. MarksTell'
    <2>1. CASE dedup' = dedup
      BY <1>1, <1>8, <2>1, MarksKept DEF Reporting
    <2>2. CASE /\ k = [b EXCEPT !.steps = <<send>> \o @]
               /\ dedup' = {d \in dedup : d.id # id} \cup {[id |-> id, exp |-> now + Bucket]}
      <3>1. k.steps = <<send>> \o h.steps
        <4>1. b = [e |-> h.e, steps |-> h.steps, seen |-> h.seen, ac |-> h.ac, base |-> base, rare |-> h.rare, mark |-> h.mark]
          BY DEF Handler
        <4> QED
          BY <2>2, <4>1
      <3>2. hand'[r] = k /\ hand'[r].steps # <<>> /\ hand'[r].e.src = src /\ Head(hand'[r].steps) = send
        BY <1>1, <1>3, <1>8, <1>9, <1>15, <3>1 DEF HandsOK
      <3> SUFFICES ASSUME NEW d \in dedup', d.id[1] = "ja4_novelty"
                   PROVE  \/ \E x \in emitted' : x.id = d.id
                          \/ \E q \in Replicas : /\ hand'[q].steps # <<>> /\ hand'[q].e.src = d.id[2][1]
                                                 /\ Head(hand'[q].steps).op = "send" /\ Head(hand'[q].steps).c.id = d.id
        BY DEF MarksTell, Occupied
      <3>3. CASE d.id = id
        BY <1>4, <1>6, <3>2, <3>3
      <3>4. CASE d.id # id
        <4>1. d \in dedup
          BY <2>2, <3>4
        <4>2. CASE \E x \in emitted : x.id = d.id
          BY <4>2
        <4>3. ASSUME NEW q \in Replicas, Occupied(q), hand[q].e.src = d.id[2][1],
                     Head(hand[q].steps).op = "send", Head(hand[q].steps).c.id = d.id
              PROVE  \E p \in Replicas : /\ hand'[p].steps # <<>> /\ hand'[p].e.src = d.id[2][1]
                                         /\ Head(hand'[p].steps).op = "send" /\ Head(hand'[p].steps).c.id = d.id
          <5>1. q # r
            BY <4>3
          <5>2. hand'[q] = hand[q]
            BY <1>1, <1>8, <5>1 DEF HandsOK
          <5> QED
            BY <4>3, <5>2 DEF Occupied
        <4> QED
          BY <4>1, <4>2, <4>3 DEF Reporting, MarksTell
      <3> QED
        BY <3>3, <3>4
    <2> QED
      BY <1>8, <2>1, <2>2
  <1> QED
    BY <1>1, <1>2, <1>8, <1>9, <1>11, <1>17, <1>18, <1>19, <1>20, <1>21, ReportDone

\* A handler that learns had the novelty sent before.
LEMMA LearnsTold ==
    ASSUME NoveltyInv, Reporting, Later, NEW g, Handler(g), ReportHand(g), g.steps # <<>>, emitted' = emitted,
           Head(g.steps).op \in {"baseline", "know"}, NEW h, Follows(g, h)
    PROVE  /\ ~Has(h.steps, "score") /\ (Head(g.steps).op = "baseline" => ~Has(h.steps, "baseline") /\ BaseIs(g.e.src, g.base))
           /\ Ordered(h.steps) /\ g.mark \in Nat /\ g.mark <= Cardinality(past)
           /\ Has(h.steps, "baseline") => BaseIs(g.e.src, g.base)
           /\ Has(g.steps, "know") /\ Due(g.e.src, g.e.ja4, now, g.mark, Cardinality(past) + 1) => Told(g.e.src, g.e.ja4)
           /\ Has(h.steps, "know") => Has(g.steps, "know")
  <1>1. Onward(h, h) /\ ~Sends(g) /\ h.mark = g.mark
    BY DEF Onward, Sends, Follows
  <1>2. /\ Ordered(h.steps) /\ \A op : Has(g.steps, op) <=> Head(g.steps).op = op \/ Has(h.steps, op)
        /\ \A op : Has(h.steps, op) => ~Wrong(Head(g.steps).op, op)
        /\ g.mark \in Nat /\ g.mark <= Cardinality(past)
    BY <1>1, OnwardHas
  <1>3. ~Has(h.steps, "score") /\ ~Has(g.steps, "score") /\ (Head(g.steps).op = "baseline" => ~Has(h.steps, "baseline"))
    BY <1>2 DEF Wrong
  <1>4. Has(g.steps, "baseline") => BaseIs(g.e.src, g.base)
    BY <1>3 DEF ReportHand
  <1> QED
    BY <1>1, <1>2, <1>3, <1>4 DEF ReportHand

\* An observation is counted from every write after which there was no gap.
LEMMA CountsOn ==
    ASSUME Proto!ProtocolAssumption, PastOK, KvOK, KvTells, Later, NEW src, NEW base, BaseIs(src, base), NEW q,
           past' = past \cup {q}, q \notin past, Of(q, "baseline", src), q.at = now,
           NEW n, n = base.n + 1, NEW first, first = IF base.first = -1 THEN now ELSE base.first,
           kv' = {b \in kv : b.src # src} \cup {[src |-> src, n |-> n, first |-> first, exp |-> now + BaselineTTL]}
    PROVE  KvTells'
  <1>1. /\ now \in Nat /\ BaselineTTL \in Nat /\ now' = now /\ IsFiniteSet(past)
        /\ \A p \in past : p.at \in Nat /\ p.at <= now
    BY DEF PastOK, Later, Proto!ProtocolAssumption
  <1>2. PICK new : new = [src |-> src, n |-> n, first |-> first, exp |-> now + BaselineTTL]
    OBVIOUS
  <1>3. new.src = src /\ new.n = n /\ new.first = first /\ new.exp = now + BaselineTTL /\ kv' = {b \in kv : b.src # src} \cup {new}
    BY <1>2
  <1>4. base.n \in Nat /\ (base.first = -1 \/ (base.first \in Nat /\ base.first <= now))
    <2>1. CASE base.n = 0 /\ base.first = -1
      BY <2>1
    <2>2. ASSUME NEW b \in kv, base.n = b.n, base.first = b.first
          PROVE  base.n \in Nat /\ base.first \in Nat /\ base.first <= now
      BY <1>1, <2>2 DEF KvOK, Since
    <2> QED
      BY <2>1, <2>2 DEF BaseIs
  <1>5. n \in Nat /\ n >= 1 /\ first \in Nat /\ first <= now
    BY <1>1, <1>4
  <1>6. \A s : \A f \in past' : Of(f, "baseline", s) => \E b \in kv' : b.src = s /\ b.exp >= f.at + BaselineTTL
    <2> SUFFICES ASSUME NEW s, NEW f \in past', Of(f, "baseline", s)
                 PROVE  \E b \in kv' : b.src = s /\ b.exp >= f.at + BaselineTTL
      OBVIOUS
    <2>1. f.at \in Nat /\ f.at <= now
      BY <1>1
    <2>2. CASE s = src
      <3>1. new.exp >= f.at + BaselineTTL
        BY <1>1, <1>3, <2>1
      <3> QED
        BY <1>3, <2>2, <3>1
    <2>3. CASE s # src
      <3>1. f # q
        BY <2>3 DEF Of
      <3> QED
        BY <1>3, <2>3, <3>1 DEF KvTells
    <2> QED
      BY <2>2, <2>3
  <1>7. ASSUME NEW b \in kv PROVE b.exp <= now' + BaselineTTL
    BY <1>1, <1>7 DEF KvTells
  <1>8. ASSUME NEW b \in kv, b.src # src, NEW f \in past', Of(f, "baseline", b.src), Gapless(b.src, f.at, b.exp - BaselineTTL)'
        PROVE  b.first <= f.at /\ Cardinality(Writes(b.src, f.at)') <= b.n
    <2>1. PICK s : s = b.src
      OBVIOUS
    <2>2. ~Of(q, "baseline", s)
      BY <1>8, <2>1 DEF Of
    <2>3. Writes(s, f.at)' = Writes(s, f.at)
      BY <2>2 DEF Writes, Of
    <2>4. Gapless(s, f.at, b.exp - BaselineTTL)
      BY <1>8, <2>1, <2>2 DEF Gapless, Of
    <2>5. f \in past
      BY <1>8, <2>1, <2>2
    <2>6. b.first <= f.at /\ Cardinality(Writes(b.src, f.at)) <= b.n
      BY <1>8, <2>1, <2>4, <2>5 DEF KvTells
    <2> QED
      BY <2>1, <2>3, <2>6
  <1>9. ASSUME NEW f \in past', Of(f, "baseline", src), Gapless(src, f.at, now)'
        PROVE  first <= f.at /\ Cardinality(Writes(src, f.at)') <= n
    <2>1. PICK at : at = f.at
      OBVIOUS
    <2>2. at \in Nat /\ at <= now
      BY <1>1, <2>1
    <2>3. Writes(src, at)' = Writes(src, at) \cup {q} /\ q \notin Writes(src, at) /\ Writes(src, at) \subseteq past
      BY <2>2 DEF Writes, Of
    <2>4. IsFiniteSet(Writes(src, at))
      BY <1>1, <2>3, FS_Subset
    <2>5. Cardinality(Writes(src, at)') = Cardinality(Writes(src, at)) + 1 /\ Cardinality(Writes(src, at)) \in Nat
      BY <2>3, <2>4, FS_AddElement, FS_CardinalityType
    <2>6. CASE \E p \in past : Of(p, "baseline", src) /\ p.at = at
      <3>1. PICK p \in past : Of(p, "baseline", src) /\ p.at = at
        BY <2>6
      <3>2. Gapless(src, at, now)
        <4> SUFFICES ASSUME NEW t \in at + 1 .. now
                     PROVE  \E w \in past : Of(w, "baseline", src) /\ w.at < t /\ t <= w.at + BaselineTTL
          BY DEF Gapless
        <4>1. PICK w \in past' : Of(w, "baseline", src) /\ w.at < t /\ t <= w.at + BaselineTTL
          BY <1>1, <1>9, <2>1 DEF Gapless, Of
        <4>2. w # q
          BY <1>1, <2>2, <4>1
        <4> QED
          BY <4>1, <4>2
      <3>3. base.n \in Nat /\ base.first \in Nat /\ base.first <= at /\ Cardinality(Writes(src, at)) <= base.n
        BY <3>1, <3>2, BaselineCounts
      <3>4. first = base.first
        BY <3>3
      <3> QED
        BY <2>1, <2>5, <3>3, <3>4
    <2>7. CASE ~\E p \in past : Of(p, "baseline", src) /\ p.at = at
      <3>1. f = q /\ at = now
        BY <1>9, <2>1, <2>7
      <3>2. Writes(src, at) = {}
        <4> SUFFICES ASSUME NEW p \in Writes(src, at) PROVE FALSE
          OBVIOUS
        <4>1. p \in past /\ Of(p, "baseline", src) /\ p.at >= now /\ p.at \in Nat /\ p.at <= now
          BY <1>1, <3>1 DEF Writes
        <4>2. p.at = at
          BY <1>1, <3>1, <4>1
        <4> QED
          BY <2>7, <4>1, <4>2
      <3>3. Cardinality(Writes(src, at)) = 0
        BY <3>2, FS_EmptySet
      <3> QED
        BY <1>5, <2>1, <2>5, <3>1, <3>3
    <2> QED
      BY <2>6, <2>7
  <1>10. new.exp - BaselineTTL = now /\ new.exp <= now' + BaselineTTL
    BY <1>1, <1>3
  <1>11. ASSUME NEW b \in kv', NEW f \in past', Of(f, "baseline", b.src), Gapless(b.src, f.at, b.exp - BaselineTTL)'
         PROVE  b.first <= f.at /\ Cardinality(Writes(b.src, f.at)') <= b.n
    <2>1. CASE b \in kv /\ b.src # src
      BY <1>8, <1>11, <2>1
    <2>2. CASE b = new
      <3>1. b.src = src /\ b.n = n /\ b.first = first /\ b.exp - BaselineTTL = now
        BY <1>3, <1>10, <2>2
      <3>2. PICK s, x, t : s = b.src /\ x = b.exp - BaselineTTL /\ t = now
        OBVIOUS
      <3>3. Gapless(s, f.at, x)' /\ s = src /\ x = t
        BY <1>11, <3>1, <3>2
      <3>4. Gapless(src, f.at, t)'
        BY <3>3
      <3>5. Gapless(src, f.at, now)'
        BY <1>1, <3>2, <3>4
      <3>6. first <= f.at /\ Cardinality(Writes(src, f.at)') <= n
        BY <1>9, <1>11, <3>1, <3>5
      <3>7. Writes(s, f.at)' = Writes(src, f.at)'
        BY <3>3
      <3> QED
        BY <3>1, <3>2, <3>6, <3>7
    <2> QED
      BY <1>3, <2>1, <2>2
  <1>12. \A b \in kv' : b.exp <= now' + BaselineTTL
    BY <1>3, <1>7, <1>10
  <1> QED
    BY <1>6, <1>11, <1>12 DEF KvTells, Of

LEMMA ObservesStep ==
    ASSUME Proto!ProtocolAssumption, NoveltyInv, Reporting, UNCHANGED <<now, sets, dedup, emitted>>, NEW r \in Replicas,
           NEW g, g = hand[r], g.steps # <<>>, Head(g.steps).op = "baseline", NEW h, Follows(g, h), NEW src, src = h.e.src,
           NEW first, first = IF h.base.first = -1 THEN now ELSE h.base.first,
           kv' = {b \in kv : b.src # src} \cup {[src |-> src, n |-> h.base.n + 1, first |-> first, exp |-> now + BaselineTTL]},
           hand' = [hand EXCEPT ![r] = h], past' = Proto!Wrote(r, "baseline", <<src>>, <<>>, 1)
    PROVE  Reporting'
  <1>1. PastOK /\ KvOK /\ HandsOK /\ Occupied(r) /\ Handler(g) /\ ReportHand(g)
    BY DEF NoveltyInv, HandsOK, Reporting, Occupied
  <1>2. Later
    BY <1>1, WroteFacts DEF Later
  <1>3. PICK q : past' = past \cup {q} /\ q \notin past /\ q.kind = "baseline" /\ q.key = <<src>> /\ q.at = now
    BY <1>1, WroteFacts
  <1>4. h.e = g.e /\ h.mark = g.mark /\ h.base = g.base
    BY DEF Follows
  <1>5. /\ ~Has(h.steps, "score") /\ ~Has(h.steps, "baseline") /\ BaseIs(g.e.src, g.base)
        /\ Ordered(h.steps) /\ g.mark \in Nat /\ g.mark <= Cardinality(past)
        /\ Has(h.steps, "know") /\ Due(g.e.src, g.e.ja4, now, g.mark, Cardinality(past) + 1) => Told(g.e.src, g.e.ja4)
    BY <1>1, <1>2, LearnsTold
  <1>6. KvTells'
    <2>1. PICK base, n : base = h.base /\ n = base.n + 1
      OBVIOUS
    <2>2. BaseIs(src, base) /\ KvTells /\ Of(q, "baseline", src) /\ first = IF base.first = -1 THEN now ELSE base.first
      BY <1>3, <1>4, <1>5, <2>1 DEF Reporting, Of
    <2>3. kv' = {b \in kv : b.src # src} \cup {[src |-> src, n |-> n, first |-> first, exp |-> now + BaselineTTL]}
      BY <2>1
    <2> QED
      BY <1>1, <1>2, <1>3, <2>1, <2>2, <2>3, CountsOn
  <1>7. ASSUME NEW s, s # src PROVE SameOf(s)
    <2>1. PICK new : new = [src |-> src, n |-> h.base.n + 1, first |-> first, exp |-> now + BaselineTTL]
      OBVIOUS
    <2>2. new.src = src /\ kv' = {b \in kv : b.src # src} \cup {new}
      BY <2>1
    <2> QED
      BY <1>7, <2>2 DEF SameOf
  <1>8. ReportHand(h)'
    <2>1. PICK fp, mark : fp = h.e.ja4 /\ mark = h.mark
      OBVIOUS
    <2>2. ASSUME Has(h.steps, "know"), Due(src, fp, now, mark, Cardinality(past) + 1)' PROVE Told(src, fp)'
      <3>1. Due(src, fp, now, mark, Cardinality(past) + 1)
        BY <1>1, <1>2, <1>4, <1>5, <2>1, <2>2, DueStill
      <3>2. Told(src, fp)
        BY <1>4, <1>5, <2>1, <2>2, <3>1
      <3> QED
        BY <3>2, ToldKept
    <2> QED
      BY <1>5, <2>1, <2>2 DEF ReportHand
  <1>9. OnlyLearned(sets)'
    <2>1. OnlyLearned(sets')
      BY DEF Reporting
    <2> QED
      BY <1>2, <2>1, OnlyKept DEF Later
  <1>10. MarksTell'
    BY <1>1, MarksKept DEF Reporting
  <1>11. PastTold'
    BY <1>1, <1>2, <1>3, PastKept DEF Reporting
  <1> QED
    BY <1>1, <1>2, <1>4, <1>6, <1>7, <1>8, <1>9, <1>10, <1>11, ReportDone

LEMMA LearnsStep ==
    ASSUME Proto!ProtocolAssumption, NoveltyInv, Reporting, UNCHANGED <<now, kv, dedup, emitted>>, NEW r \in Replicas,
           NEW g, g = hand[r], g.steps # <<>>, Head(g.steps).op = "know", NEW h, Follows(g, h), NEW src, src = h.e.src,
           NEW fp, fp = h.e.ja4, sets' = Proto!Put(Proto!Known(src), fp, BaselineTTL),
           hand' = [hand EXCEPT ![r] = h], past' = Proto!Wrote(r, "know", <<src>>, fp, 1)
    PROVE  Reporting'
  <1>1. PastOK /\ HandsOK /\ Occupied(r) /\ Handler(g) /\ ReportHand(g)
    BY DEF NoveltyInv, HandsOK, Reporting, Occupied
  <1>2. Later
    BY <1>1, WroteFacts DEF Later
  <1>3. PICK q : /\ past' = past \cup {q} /\ q.kind = "know" /\ q.key = <<src>> /\ q.fp = fp /\ q.at = now
                 /\ q.no = Cardinality(past) + 1 /\ q.mark = g.mark
    BY <1>1, WroteFacts
  <1>4. h.e = g.e /\ h.mark = g.mark /\ h.base = g.base
    BY DEF Follows
  <1>5. /\ ~Has(h.steps, "score") /\ (Has(h.steps, "baseline") => BaseIs(g.e.src, g.base))
        /\ Ordered(h.steps) /\ g.mark \in Nat /\ g.mark <= Cardinality(past)
        /\ Due(g.e.src, g.e.ja4, now, g.mark, Cardinality(past) + 1) => Told(g.e.src, g.e.ja4)
    <2>1. Has(g.steps, "know")
      <3>1. Onward(h, h)
        BY DEF Onward
      <3> QED
        BY <1>1, <3>1, OnwardHas
    <2> QED
      BY <1>1, <1>2, <2>1, LearnsTold
  <1>6. ASSUME Due(src, fp, now, g.mark, Cardinality(past) + 1)' PROVE Told(src, fp)'
    <2>1. Due(src, fp, now, g.mark, Cardinality(past) + 1)
      BY <1>1, <1>2, <1>5, <1>6, DueStill
    <2>2. Told(src, fp)
      BY <1>4, <1>5, <2>1
    <2> QED
      BY <2>2, ToldKept
  <1>7. ReportHand(h)'
    <2>1. Has(h.steps, "baseline") => BaseIs(src, h.base)'
      BY <1>4, <1>5 DEF BaseIs
    <2> QED
      BY <1>4, <1>5, <1>6, <2>1 DEF ReportHand
  <1>8. PICK key, new : key = Proto!Known(src) /\ new = [key |-> key, member |-> fp, exp |-> now + BaselineTTL]
    OBVIOUS
  <1>9. /\ new.key = key /\ new.member = fp /\ new.exp = now + BaselineTTL
        /\ sets' = {x \in sets : ~(x.key = key /\ x.member = fp)} \cup {new}
    BY <1>8 DEF Proto!Put, Proto!With
  <1>10. \A s : Proto!Known(s) = key => s = src
    BY <1>8 DEF Proto!Known
  <1>11. ASSUME NEW s, s # src PROVE SameOf(s)
    BY <1>9, <1>10, <1>11 DEF SameOf
  <1>12. OnlyLearned(sets)'
    <2>1. IsFiniteSet(sets')
      <3>1. IsFiniteSet({x \in sets : ~(x.key = key /\ x.member = fp)})
        BY FS_Subset DEF Reporting, OnlyLearned
      <3> QED
        BY <1>9, <3>1, FS_AddElement
    <2>2. ASSUME NEW s, NEW x \in sets', x.key = Proto!Known(s)
          PROVE  \E p \in past' : Of(p, "know", s) /\ p.fp = x.member /\ p.at + BaselineTTL >= x.exp
      <3>1. CASE x \in sets
        BY <1>3, <2>2, <3>1 DEF Reporting, OnlyLearned
      <3>2. CASE x = new
        <4>1. s = src /\ q \in past' /\ Of(q, "know", s) /\ q.fp = x.member
          BY <1>3, <1>9, <1>10, <2>2, <3>2 DEF Of
        <4>2. q.at + BaselineTTL >= x.exp
          <5>1. now \in Nat /\ BaselineTTL \in Nat
            BY <1>1 DEF PastOK, Proto!ProtocolAssumption
          <5> QED
            BY <1>3, <1>9, <3>2, <5>1
        <4> QED
          BY <4>1, <4>2
      <3> QED
        BY <1>9, <2>2, <3>1, <3>2
    <2> QED
      BY <2>1, <2>2 DEF OnlyLearned, Of, Proto!Known
  <1>13. MarksTell'
    BY <1>1, MarksKept DEF Reporting
  <1>14. KvTells'
    BY <1>1, <1>2, <1>3, KvKept DEF Reporting, Of
  <1>15. PastTold'
    <2> SUFFICES ASSUME NEW p \in past', p.kind = "know"
                 PROVE  /\ Of(p, "know", p.key[1]) /\ p.mark \in Nat /\ p.mark <= Cardinality(past)'
                        /\ Due(p.key[1], p.fp, p.at, p.mark, p.no)' => Told(p.key[1], p.fp)'
      BY DEF PastTold, Of
    <2>1. CASE p \in past
      BY <1>1, <1>2, <2>1, PastTell DEF Reporting
    <2>2. CASE p = q
      <3>1. PICK s, f, at, mark, no : s = p.key[1] /\ f = p.fp /\ at = p.at /\ mark = p.mark /\ no = p.no
        OBVIOUS
      <3>2. s = src /\ f = fp /\ at = now /\ mark = g.mark /\ no = Cardinality(past) + 1 /\ Of(p, "know", s)
        BY <1>3, <2>2, <3>1 DEF Of
      <3>3. mark \in Nat /\ mark <= Cardinality(past)'
        <4>1. Cardinality(past) \in Nat /\ Cardinality(past)' \in Nat /\ Cardinality(past) <= Cardinality(past)'
          BY <1>1, <1>2, PastGrows DEF Later, PastOK
        <4> QED
          BY <1>5, <3>2, <4>1
      <3>4. ASSUME Due(s, f, at, mark, no)' PROVE Told(s, f)'
        <4>1. no \in Nat /\ no <= no
          BY <1>1, <3>2, FS_CardinalityType DEF PastOK
        <4>2. Due(s, f, at, mark, no)
          BY <1>1, <1>2, <1>5, <3>2, <3>4, <4>1, DueBefore DEF Later
        <4>3. Due(g.e.src, g.e.ja4, now, g.mark, Cardinality(past) + 1)
          BY <1>4, <3>2, <4>2
        <4>4. Told(s, f)
          BY <1>4, <1>5, <3>2, <4>3
        <4> QED
          BY <4>4, ToldKept
      <3> QED
        BY <3>1, <3>2, <3>3, <3>4
    <2> QED
      BY <1>3, <2>1, <2>2
  <1> QED
    BY <1>1, <1>2, <1>4, <1>7, <1>11, <1>12, <1>13, <1>14, <1>15, ReportDone

LEMMA EmitOnward ==
    ASSUME NEW r, NEW h, Handler(h), NEW hit, NEW detector, NEW who, detector # "ja4_novelty",
           Proto!Emit(r, h, hit, detector, who)
    PROVE  /\ \E k : hand' = [hand EXCEPT ![r] = k] /\ Onward(h, k)
           /\ \A d \in dedup' : d \in dedup \/ d.id[1] # "ja4_novelty"
  <1>1. PICK id : id = <<detector, who, now \div Bucket>>
    OBVIOUS
  <1>2. PICK send, mark : send = [op |-> "send", c |-> [id |-> id, at |-> now, mark |-> h.mark]] /\ mark = [id |-> id, exp |-> now + Bucket]
    OBVIOUS
  <1>3. send.op = "send" /\ mark.id[1] # "ja4_novelty"
    BY <1>1, <1>2
  <1>4. CASE hit /\ ~\E d \in Proto!Live(dedup) : d.id = id
    <2>1. PICK k : k = [h EXCEPT !.steps = <<send>> \o @]
      OBVIOUS
    <2>2. k = [e |-> h.e, steps |-> <<send>> \o h.steps, seen |-> h.seen, ac |-> h.ac, base |-> h.base, rare |-> h.rare,
               mark |-> h.mark]
      BY <2>1 DEF Handler
    <2>3. /\ k.e = h.e /\ k.mark = h.mark /\ k.seen = h.seen /\ k.base = h.base /\ k.steps = <<send>> \o h.steps
      BY <2>2
    <2>4. Onward(h, k)
      BY <1>3, <2>3 DEF Onward
    <2>5. hand' = [hand EXCEPT ![r] = k] /\ dedup' = {d \in dedup : d.id # id} \cup {mark}
      BY <1>1, <1>2, <1>4, <2>1 DEF Proto!Emit
    <2> QED
      BY <1>3, <2>4, <2>5
  <1>5. CASE ~(hit /\ ~\E d \in Proto!Live(dedup) : d.id = id)
    <2>1. hand' = [hand EXCEPT ![r] = h] /\ dedup' = dedup
      BY <1>1, <1>5 DEF Proto!Emit
    <2>2. Onward(h, h)
      BY DEF Onward
    <2> QED
      BY <2>1, <2>2
  <1> QED
    BY <1>4, <1>5

\* A quiet step that writes no set and nothing that is remembered.
LEMMA PlainStep ==
    ASSUME NoveltyInv, Reporting, UNCHANGED <<now, kv, sets, emitted, past>>, NEW r \in Replicas, NEW g, g = hand[r],
           g.steps # <<>>, Head(g.steps).op \notin {"send", "seen", "score", "baseline", "know"}, NEW h, Follows(g, h),
           \E k : hand' = [hand EXCEPT ![r] = k] /\ Onward(h, k), \A d \in dedup' : d \in dedup \/ d.id[1] # "ja4_novelty"
    PROVE  Reporting'
  <1>1. PICK k : hand' = [hand EXCEPT ![r] = k] /\ Onward(h, k)
    OBVIOUS
  <1>2. Later
    BY LaterSame DEF NoveltyInv
  <1>3. OnlyLearned(sets')
    BY DEF Reporting
  <1> QED
    BY <1>1, <1>2, <1>3, QuietStep

\* One that counts.
LEMMA CountsStep ==
    ASSUME NoveltyInv, Reporting, UNCHANGED <<now, kv, sets, emitted>>, NEW r \in Replicas, NEW g, g = hand[r],
           g.steps # <<>>, Head(g.steps).op \notin {"send", "seen", "score", "baseline", "know"}, NEW h, Follows(g, h),
           \E k : hand' = [hand EXCEPT ![r] = k] /\ Onward(h, k), \A d \in dedup' : d \in dedup \/ d.id[1] # "ja4_novelty",
           NEW kind \in {"ssh", "bytes"}, NEW key, NEW n, past' = Proto!Wrote(r, kind, key, <<>>, n)
    PROVE  Reporting'
  <1>1. PICK k : hand' = [hand EXCEPT ![r] = k] /\ Onward(h, k)
    OBVIOUS
  <1>2. PastOK
    BY DEF NoveltyInv
  <1>3. Later
    BY <1>2, WroteFacts DEF Later
  <1>4. \A p \in past' : p \in past \/ (p.kind # "know" /\ p.kind # "baseline")
    BY <1>2, WroteFacts
  <1>5. OnlyLearned(sets')
    BY DEF Reporting
  <1> QED
    BY <1>1, <1>3, <1>4, <1>5, QuietStep

\* One that writes a set of another kind.
LEMMA KeepsStep ==
    ASSUME NoveltyInv, Reporting, UNCHANGED <<now, kv, emitted, past>>, NEW r \in Replicas, NEW g, g = hand[r],
           g.steps # <<>>, Head(g.steps).op \notin {"send", "seen", "score", "baseline", "know"}, NEW h, Follows(g, h),
           \E k : hand' = [hand EXCEPT ![r] = k] /\ Onward(h, k), \A d \in dedup' : d \in dedup \/ d.id[1] # "ja4_novelty",
           OnlyLearned(sets'), \A src, x : x.key = Proto!Known(src) => (x \in sets <=> x \in sets')
    PROVE  Reporting'
  <1>1. PICK k : hand' = [hand EXCEPT ![r] = k] /\ Onward(h, k)
    OBVIOUS
  <1>2. Later
    BY LaterSame DEF NoveltyInv
  <1> QED
    BY <1>1, <1>2, QuietStep

\* One store call of a handler.
LEMMA DoReport ==
    ASSUME Proto!ProtocolAssumption, NoveltyInv, Reporting, now' = now, NEW r \in Replicas, NEW g, g = hand[r],
           g.steps # <<>>, NEW s, s = Head(g.steps), NEW e, e = g.e, NEW h, Follows(g, h), Handler(h), StepOK(s), Proto!Do(r, s, e, h)
    PROVE  Reporting'
  <1>0. h.e = e /\ Onward(h, h) /\ OnlyLearned(sets)
    BY DEF Follows, Onward, Reporting
  <1>1. CASE /\ s.op = "report" /\ Proto!Emit(r, h, TRUE, s.detector, s.who)
             /\ UNCHANGED <<kv, sets, moves, counters, emitted, past>>
    <2>1. PICK d, who : d = s.detector /\ who = s.who
      OBVIOUS
    <2>2. d # "ja4_novelty"
      BY <1>1, <2>1 DEF StepOK
    <2>3. Proto!Emit(r, h, TRUE, d, who)
      BY <1>1, <2>1
    <2>4. /\ \E k : hand' = [hand EXCEPT ![r] = k] /\ Onward(h, k)
          /\ \A x \in dedup' : x \in dedup \/ x.id[1] # "ja4_novelty"
      BY <2>2, <2>3, EmitOnward
    <2> QED
      BY <1>1, <2>4, PlainStep
  <1>2. CASE /\ s.op = "send" /\ emitted' = emitted \cup {s.c} /\ hand' = [hand EXCEPT ![r] = h]
             /\ UNCHANGED <<kv, sets, moves, counters, dedup, past>>
    BY <1>2, SendsStep
  <1>3. CASE /\ s.op = "seen"
             /\ hand' = [hand EXCEPT ![r] = [h EXCEPT !.seen = Proto!Members(Proto!Known(e.src)),
                                                      !.ac = Proto!Members(Proto!Similar(e.src))]]
             /\ UNCHANGED <<kv, sets, moves, counters, dedup, emitted, past>>
    <2>0. PICK seen, ac : seen = Proto!Members(Proto!Known(e.src)) /\ ac = Proto!Members(Proto!Similar(e.src))
      BY Zenon
    <2>1. PICK k : k = [h EXCEPT !.seen = seen, !.ac = ac]
      BY Zenon
    <2>2. hand' = [hand EXCEPT ![r] = k]
      BY <1>3, <2>0, <2>1, Zenon
    <2>3. k = [e |-> h.e, steps |-> h.steps, seen |-> seen, ac |-> ac, base |-> h.base, rare |-> h.rare, mark |-> h.mark]
      BY <2>1 DEF Handler
    <2>4. k.e = h.e /\ k.steps = h.steps /\ k.seen = seen /\ k.base = h.base /\ k.mark = h.mark
      BY <2>3
    <2>5. k.seen = Proto!Members(Proto!Known(h.e.src)) /\ UNCHANGED <<now, kv, sets, dedup, emitted, past>>
      BY <1>0, <1>3, <2>0, <2>4, Zenon
    <2>6. Head(g.steps).op = "seen"
      BY <1>3
    <2> QED
      BY <2>2, <2>4, <2>5, <2>6, ReadsStep
  <1>4. CASE /\ s.op = "look"
             /\ hand' = [hand EXCEPT ![r] = [h EXCEPT !.rare = /\ Proto!Cardinality(Proto!Members(s.key)) >= Warmup
                                                              /\ <<s.fp>> \notin Proto!Members(s.key)]]
             /\ UNCHANGED <<kv, sets, moves, counters, dedup, emitted, past>>
    <2>1. PICK rare : rare = (/\ Proto!Cardinality(Proto!Members(s.key)) >= Warmup
                              /\ <<s.fp>> \notin Proto!Members(s.key))
      BY Zenon
    <2>2. PICK k : k = [h EXCEPT !.rare = rare]
      OBVIOUS
    <2>3. hand' = [hand EXCEPT ![r] = k]
      BY <1>4, <2>1, <2>2, Zenon
    <2>4. k = [e |-> h.e, steps |-> h.steps, seen |-> h.seen, ac |-> h.ac, base |-> h.base, rare |-> rare, mark |-> h.mark]
      BY <2>2 DEF Handler
    <2>5. Onward(h, k)
      BY <2>4 DEF Onward
    <2> QED
      BY <1>4, <2>3, <2>5, PlainStep
  <1>5. CASE /\ s.op = "score"
             /\ LET base == Proto!Baseline(e.src)
                    fleet == Proto!Cardinality(Proto!Members(Proto!Fleet(e.ja4)))
                    maturity == Proto!Maturity(base.n, Proto!Cardinality(h.seen), base.first)
                    novelty == Proto!Novelty(e.ja4, h.seen, h.ac, fleet, maturity)
                IN  Proto!Emit(r, [h EXCEPT !.base = base], novelty[1], "ja4_novelty",
                               <<e.src, e.ja4, e.type, fleet, novelty[2], e.cid>>)
             /\ UNCHANGED <<kv, sets, moves, counters, emitted, past>>
    <2>1. PICK base, fleet, ac : /\ base = Proto!Baseline(e.src) /\ ac = h.ac
                                 /\ fleet = Proto!Cardinality(Proto!Members(Proto!Fleet(e.ja4)))
      OBVIOUS
    <2>2. PICK novelty : novelty = Proto!Novelty(e.ja4, h.seen, ac, fleet,
                                                 Proto!Maturity(base.n, Proto!Cardinality(h.seen), base.first))
      OBVIOUS
    <2>3. PICK who, b, hit : /\ who = <<e.src, e.ja4, e.type, fleet, novelty[2], e.cid>> /\ b = [h EXCEPT !.base = base]
                             /\ hit = novelty[1]
      OBVIOUS
    <2>4. who[1] = h.e.src /\ who[2] = h.e.ja4 /\ base = Proto!Baseline(h.e.src)
      BY <1>0, <2>1, <2>3
    <2>5. hit = Proto!Novelty(h.e.ja4, h.seen, ac, fleet, Proto!Maturity(base.n, Proto!Cardinality(h.seen), base.first))[1]
      BY <1>0, <2>2, <2>3
    <2>6. Proto!Emit(r, b, hit, "ja4_novelty", who)
      BY <1>5, <2>1, <2>2, <2>3, Zenon
    <2>7. UNCHANGED <<now, kv, sets, emitted, past>> /\ Head(g.steps).op = "score"
      BY <1>5
    <2> QED
      BY <2>3, <2>4, <2>5, <2>6, <2>7, ScoresStep
  <1>6. CASE /\ s.op = "burst"
             /\ LET fps == {e.ja4} \cup {m.fp : m \in {x \in moves : x.src = e.src /\ x.at >= now - Transition}}
                IN  Proto!Emit(r, h, /\ Proto!Maturity(h.base.n, Proto!Cardinality(h.seen), h.base.first) = "ready"
                                     /\ Proto!Cardinality(fps) >= MinDistinct,
                               "ja4_transition_burst",
                               <<e.src, e.ja4, e.type, Proto!Cardinality(Proto!Members(Proto!Fleet(e.ja4))),
                                 Proto!Cardinality(fps), e.cid>>)
             /\ UNCHANGED <<kv, sets, moves, counters, emitted, past>>
    <2>1. PICK fps : fps = {e.ja4} \cup {m.fp : m \in {x \in moves : x.src = e.src /\ x.at >= now - Transition}}
      OBVIOUS
    <2>2. PICK hit : hit = (/\ Proto!Maturity(h.base.n, Proto!Cardinality(h.seen), h.base.first) = "ready"
                            /\ Proto!Cardinality(fps) >= MinDistinct)
      BY Zenon
    <2>3. PICK who : who = <<e.src, e.ja4, e.type, Proto!Cardinality(Proto!Members(Proto!Fleet(e.ja4))),
                             Proto!Cardinality(fps), e.cid>>
      OBVIOUS
    <2>4. Proto!Emit(r, h, hit, "ja4_transition_burst", who)
      BY <1>6, <2>1, <2>2, <2>3, Zenon
    <2>5. /\ \E k : hand' = [hand EXCEPT ![r] = k] /\ Onward(h, k)
          /\ \A x \in dedup' : x \in dedup \/ x.id[1] # "ja4_novelty"
      BY <2>4, EmitOnward
    <2> QED
      BY <1>6, <2>5, PlainStep
  <1>7. CASE /\ s.op = "baseline"
             /\ kv' = {b \in kv : b.src # e.src}
                      \cup {[src |-> e.src, n |-> h.base.n + 1,
                             first |-> IF h.base.first = -1 THEN now ELSE h.base.first, exp |-> now + BaselineTTL]}
             /\ hand' = [hand EXCEPT ![r] = h] /\ past' = Proto!Wrote(r, "baseline", <<e.src>>, <<>>, 1)
             /\ UNCHANGED <<sets, moves, counters, dedup, emitted>>
    <2>1. PICK src, first : src = h.e.src /\ first = IF h.base.first = -1 THEN now ELSE h.base.first
      OBVIOUS
    <2>2. kv' = {b \in kv : b.src # src}
                \cup {[src |-> src, n |-> h.base.n + 1, first |-> first, exp |-> now + BaselineTTL]}
      BY <1>0, <1>7, <2>1, Zenon
    <2>3. past' = Proto!Wrote(r, "baseline", <<src>>, <<>>, 1) /\ hand' = [hand EXCEPT ![r] = h]
      BY <1>0, <1>7, <2>1
    <2>4. UNCHANGED <<now, sets, dedup, emitted>> /\ Head(g.steps).op = "baseline"
      BY <1>7
    <2> QED
      BY <2>1, <2>2, <2>3, <2>4, ObservesStep
  <1>8. CASE /\ s.op = "know" /\ sets' = Proto!Put(Proto!Known(e.src), e.ja4, BaselineTTL)
             /\ past' = Proto!Wrote(r, "know", <<e.src>>, e.ja4, 1)
             /\ hand' = [hand EXCEPT ![r] = h] /\ UNCHANGED <<kv, moves, counters, dedup, emitted>>
    BY <1>0, <1>8, LearnsStep
  <1>9. CASE /\ s.op = "sni" /\ sets' = Proto!Put(<<"sni", e.cid>>, <<e.sni>>, SniTTL) /\ UNCHANGED past
             /\ hand' = [hand EXCEPT ![r] = h] /\ UNCHANGED <<kv, moves, counters, dedup, emitted>>
    <2>1. PICK key, member : key = <<"sni", e.cid>> /\ member = <<e.sni>>
      OBVIOUS
    <2>2. key[1] # "seen" /\ sets' = Proto!With(sets, key, member, SniTTL)
      BY <1>9, <2>1 DEF Proto!Put
    <2>3. OnlyLearned(sets') /\ \A src, x : x.key = Proto!Known(src) => (x \in sets <=> x \in sets')
      BY <1>0, <2>2, OnlyWith
    <2> QED
      BY <1>0, <1>9, <2>3, KeepsStep
  <1>10. CASE /\ s.op = "context" /\ moves' = moves \cup {[src |-> e.src, at |-> now, fp |-> e.ja4]}
              /\ sets' = Proto!With(Proto!Put(Proto!Similar(e.src), <<Proto!ja4_ac(e.ja4)>>, BaselineTTL),
                                    Proto!Fleet(e.ja4), <<e.src>>, BaselineTTL)
              /\ hand' = [hand EXCEPT ![r] = h] /\ UNCHANGED <<kv, counters, dedup, emitted, past>>
    <2>1. PICK a, b, m, k : /\ a = Proto!Similar(e.src) /\ b = Proto!Fleet(e.ja4)
                            /\ m = <<Proto!ja4_ac(e.ja4)>> /\ k = <<e.src>>
      OBVIOUS
    <2>2. a[1] # "seen" /\ b[1] # "seen"
      BY <2>1 DEF Proto!Similar, Proto!Fleet
    <2>3. PICK T : T = Proto!With(sets, a, m, BaselineTTL)
      OBVIOUS
    <2>4. sets' = Proto!With(T, b, k, BaselineTTL)
      BY <1>10, <2>1, <2>3 DEF Proto!Put
    <2>5. OnlyLearned(T) /\ \A src, x : x.key = Proto!Known(src) => (x \in sets <=> x \in T)
      BY <1>0, <2>2, <2>3, OnlyWith
    <2>6. OnlyLearned(sets') /\ \A src, x : x.key = Proto!Known(src) => (x \in T <=> x \in sets')
      BY <2>2, <2>4, <2>5, OnlyWith
    <2>7. \A src, x : x.key = Proto!Known(src) => (x \in sets <=> x \in sets')
      BY <2>5, <2>6
    <2> QED
      BY <1>0, <1>10, <2>6, <2>7, KeepsStep
  <1>11. CASE /\ s.op = "keep" /\ sets' = Proto!Put(s.key, <<s.fp>>, SeenTTL)
              /\ Proto!Emit(r, h, h.rare, s.detector, s.who) /\ UNCHANGED <<kv, moves, counters, emitted, past>>
    <2>1. PICK key, member, d, who, hit : /\ key = s.key /\ member = <<s.fp>> /\ d = s.detector /\ who = s.who
                                          /\ hit = h.rare
      OBVIOUS
    <2>2. key[1] = "fpseen" /\ d # "ja4_novelty"
      BY <1>11, <2>1 DEF StepOK
    <2>3. sets' = Proto!With(sets, key, member, SeenTTL) /\ key[1] # "seen"
      BY <1>11, <2>1, <2>2 DEF Proto!Put
    <2>4. OnlyLearned(sets') /\ \A src, x : x.key = Proto!Known(src) => (x \in sets <=> x \in sets')
      BY <1>0, <2>3, OnlyWith
    <2>5. Proto!Emit(r, h, hit, d, who)
      BY <1>11, <2>1
    <2>6. /\ \E k : hand' = [hand EXCEPT ![r] = k] /\ Onward(h, k)
          /\ \A x \in dedup' : x \in dedup \/ x.id[1] # "ja4_novelty"
      BY <2>2, <2>5, EmitOnward
    <2> QED
      BY <1>11, <2>4, <2>6, KeepsStep
  <1>12. CASE /\ s.op = "host"
              /\ LET others == {m \in Proto!Members(<<"sni", e.cid>>) : Proto!host_sni_mismatch(m[1], e.host)}
                 IN  \E m \in IF others = {} THEN {<<Proto!Missing>>} ELSE others :
                        Proto!Emit(r, h, others # {}, "ech_sni_mismatch", <<e.src, e.dst, e.host, m[1], e.cid>>)
              /\ UNCHANGED <<kv, sets, moves, counters, emitted, past>>
    <2>1. PICK others : others = {m \in Proto!Members(<<"sni", e.cid>>) : Proto!host_sni_mismatch(m[1], e.host)}
      OBVIOUS
    <2>2. PICK hit : hit = (others # {})
      BY Zenon
    <2>3. PICK m : Proto!Emit(r, h, others # {}, "ech_sni_mismatch", <<e.src, e.dst, e.host, m[1], e.cid>>)
      BY <1>12, <2>1, Zenon
    <2>4. PICK who : who = <<e.src, e.dst, e.host, m[1], e.cid>>
      OBVIOUS
    <2>5. Proto!Emit(r, h, hit, "ech_sni_mismatch", who)
      BY <2>2, <2>3, <2>4, Zenon
    <2>6. /\ \E k : hand' = [hand EXCEPT ![r] = k] /\ Onward(h, k)
          /\ \A x \in dedup' : x \in dedup \/ x.id[1] # "ja4_novelty"
      BY <2>5, EmitOnward
    <2> QED
      BY <1>12, <2>6, PlainStep
  <1>13. CASE /\ s.op = "ssh"
              /\ Proto!Emit(r, h, Proto!Count(<<"ssh", Proto!Pair(e)>>) + 1 >= Sessions, "ssh_bruteforce",
                            <<Proto!Pair(e), Proto!Count(<<"ssh", Proto!Pair(e)>>) + 1>>)
              /\ past' = Proto!Wrote(r, "ssh", Proto!Pair(e), <<>>, 1) /\ UNCHANGED <<kv, sets, moves, emitted>>
    <2>1. PICK hit : hit = (Proto!Count(<<"ssh", Proto!Pair(e)>>) + 1 >= Sessions)
      BY Zenon
    <2>2. PICK who, key : who = <<Proto!Pair(e), Proto!Count(<<"ssh", Proto!Pair(e)>>) + 1>> /\ key = Proto!Pair(e)
      OBVIOUS
    <2>3. Proto!Emit(r, h, hit, "ssh_bruteforce", who)
      BY <1>13, <2>1, <2>2, Zenon
    <2>4. past' = Proto!Wrote(r, "ssh", key, <<>>, 1)
      BY <1>13, <2>2
    <2>5. /\ \E k : hand' = [hand EXCEPT ![r] = k] /\ Onward(h, k)
          /\ \A x \in dedup' : x \in dedup \/ x.id[1] # "ja4_novelty"
      BY <2>3, EmitOnward
    <2> QED
      BY <1>13, <2>4, <2>5, CountsStep
  <1>14. CASE /\ s.op = "bytes"
              /\ LET total == Proto!Count(<<"icmp", Proto!Pair(e)>>) + e.bytes
                 IN  Proto!Emit(r, h, e.proto = "ICMP" /\ e.external /\ total >= Bytes, "icmp_exfil",
                                <<Proto!Pair(e), total>>)
              /\ past' = Proto!Wrote(r, "bytes", Proto!Pair(e), <<>>, e.bytes) /\ UNCHANGED <<kv, sets, moves, emitted>>
    <2>1. PICK total : total = Proto!Count(<<"icmp", Proto!Pair(e)>>) + e.bytes
      OBVIOUS
    <2>2. PICK hit : hit = (e.proto = "ICMP" /\ e.external /\ total >= Bytes)
      BY Zenon
    <2>3. PICK who, key, n : who = <<Proto!Pair(e), total>> /\ key = Proto!Pair(e) /\ n = e.bytes
      OBVIOUS
    <2>4. Proto!Emit(r, h, hit, "icmp_exfil", who)
      BY <1>14, <2>1, <2>2, <2>3, Zenon
    <2>5. past' = Proto!Wrote(r, "bytes", key, <<>>, n)
      BY <1>14, <2>3
    <2>6. /\ \E k : hand' = [hand EXCEPT ![r] = k] /\ Onward(h, k)
          /\ \A x \in dedup' : x \in dedup \/ x.id[1] # "ja4_novelty"
      BY <2>4, EmitOnward
    <2> QED
      BY <1>14, <2>5, <2>6, CountsStep
  <1> QED
    BY <1>1, <1>2, <1>3, <1>4, <1>5, <1>6, <1>7, <1>8, <1>9, <1>10, <1>11, <1>12, <1>13, <1>14, Zenon
       DEF Proto!Do, Proto!store

\* The store, the writes and the clock as they were.
LEMMA StoreSame ==
    ASSUME NoveltyInv, Reporting, UNCHANGED <<now, kv, sets, emitted, past>>
    PROVE  /\ KvTells' /\ OnlyLearned(sets)' /\ PastTold'
           /\ \A r \in Replicas : \A h : h = hand[r] /\ Occupied(r) => ReportHand(h)'
  <1>1. PastOK /\ HandsOK
    BY DEF NoveltyInv
  <1>2. Later /\ \A src : SameOf(src)
    BY <1>1, LaterSame DEF SameOf
  <1>3. KvTells'
    BY <1>1, <1>2, KvKept DEF Reporting
  <1>4. OnlyLearned(sets)'
    <2>1. OnlyLearned(sets')
      BY DEF Reporting
    <2> QED
      BY <2>1, OnlyKept
  <1>5. PastTold'
    BY <1>1, <1>2, PastKept DEF Reporting
  <1>6. ASSUME NEW r \in Replicas, NEW h, h = hand[r], Occupied(r) PROVE ReportHand(h)'
    <2>1. Handler(h) /\ ReportHand(h)
      BY <1>1, <1>6 DEF HandsOK, Reporting, Occupied
    <2>2. Told(h.e.src, h.e.ja4) => Told(h.e.src, h.e.ja4)'
      BY ToldKept
    <2> QED
      BY <1>1, <1>2, <2>1, <2>2, HandSame DEF Handler, ReportHand
  <1> QED
    BY <1>3, <1>4, <1>5, <1>6

\* A handler begins, ends or is gone: those of other replicas go on.
LEMMA OthersGoOn ==
    ASSUME NoveltyInv, Reporting, UNCHANGED <<now, kv, sets, dedup, emitted, past>>, NEW r \in Replicas, NEW k,
           hand' = [hand EXCEPT ![r] = k], Occupied(r) => Head(hand[r].steps).op # "send",
           k.steps # <<>> => ReportHand(k)' /\ \A q \in Replicas : q # r /\ Occupied(q) => hand[q].e.src # k.e.src
    PROVE  Reporting'
  <1>1. HandsOK /\ DOMAIN hand = Replicas
    BY DEF NoveltyInv, HandsOK
  <1>2. hand'[r] = k /\ \A q \in Replicas : q # r => hand'[q] = hand[q]
    BY <1>1
  <1>3. Alone'
    <2> SUFFICES ASSUME NEW q \in Replicas, NEW p \in Replicas, hand'[q].steps # <<>>, hand'[p].steps # <<>>,
                        hand'[q].e.src = hand'[p].e.src
                 PROVE  q = p
      BY DEF Alone, Occupied
    <2>1. CASE q = r \/ p = r
      BY <1>2, <2>1 DEF Occupied
    <2>2. CASE q # r /\ p # r
      BY <1>2, <2>2 DEF Occupied, Reporting, Alone
    <2> QED
      BY <2>1, <2>2
  <1>4. MarksTell'
    <2> SUFFICES ASSUME NEW d \in dedup, d.id[1] = "ja4_novelty"
                 PROVE  \/ \E c \in emitted : c.id = d.id
                        \/ \E q \in Replicas : /\ hand'[q].steps # <<>> /\ hand'[q].e.src = d.id[2][1]
                                               /\ Head(hand'[q].steps).op = "send" /\ Head(hand'[q].steps).c.id = d.id
      BY DEF MarksTell, Occupied
    <2>1. ASSUME NEW q \in Replicas, Occupied(q), hand[q].e.src = d.id[2][1],
                 Head(hand[q].steps).op = "send", Head(hand[q].steps).c.id = d.id
          PROVE  \E p \in Replicas : /\ hand'[p].steps # <<>> /\ hand'[p].e.src = d.id[2][1]
                                     /\ Head(hand'[p].steps).op = "send" /\ Head(hand'[p].steps).c.id = d.id
      <3>1. q # r
        BY <2>1
      <3>2. hand'[q] = hand[q]
        BY <1>2, <3>1
      <3> QED
        BY <2>1, <3>2 DEF Occupied
    <2> QED
      BY <2>1 DEF Reporting, MarksTell
  <1>5. ASSUME NEW q \in Replicas, hand'[q].steps # <<>> PROVE ReportHand(hand[q])'
    <2>1. PICK h : h = hand'[q]
      OBVIOUS
    <2>2. ReportHand(h)'
      <3>1. CASE q = r
        BY <1>2, <1>5, <2>1, <3>1
      <3>2. CASE q # r
        <4>1. h = hand[q] /\ Occupied(q)
          BY <1>2, <1>5, <2>1, <3>2 DEF Occupied
        <4> QED
          BY <4>1, StoreSame
      <3> QED
        BY <3>1, <3>2
    <2> QED
      BY <2>1, <2>2 DEF ReportHand, Sends, Has, Ordered
  <1>6. \A q \in Replicas : Occupied(q)' => ReportHand(hand[q])'
    BY <1>5 DEF Occupied
  <1>7. KvTells' /\ OnlyLearned(sets)' /\ PastTold'
    BY StoreSame
  <1> QED
    BY <1>3, <1>4, <1>6, <1>7 DEF Reporting

LEMMA HandleReport ==
    ASSUME NoveltyInv, Reporting, NEW r \in Replicas, Proto!Handle(r), ~overlap'
    PROVE  Reporting'
  <1>1. PICK e, steps, k : e = input[r][read[r] + 1] /\ steps = Proto!Steps(e) /\ k = Proto!Cardinality(past)
    OBVIOUS
  <1>2. PICK g : g = [e |-> e, steps |-> steps, seen |-> {}, ac |-> {}, base |-> [n |-> 0, first |-> -1],
                      rare |-> FALSE, mark |-> k]
    OBVIOUS
  <1>3. hand' = [hand EXCEPT ![r] = g] /\ ~Occupied(r)
    BY <1>1, <1>2 DEF Proto!Handle, Proto!Busy, Occupied
  <1>4. UNCHANGED <<now, kv, sets, dedup, emitted, past>>
    BY DEF Proto!Handle, Proto!store
  <1>5. g.e = e /\ g.steps = steps
    BY <1>2
  <1>6. \A q \in Replicas : Occupied(q) => hand[q].e.src # g.e.src
    BY <1>1, <1>5 DEF Proto!Handle, Proto!Busy, Occupied
  <1>7. Observing(g.steps)
    BY <1>1, <1>5, StepsObserving
  <1>8. ReportHand(g)'
    BY <1>7 DEF ReportHand, Observing
  <1> QED
    BY <1>3, <1>4, <1>6, <1>8, OthersGoOn

LEMMA StepReport ==
    ASSUME Proto!ProtocolAssumption, NoveltyInv, Reporting, NEW r \in Replicas, Proto!Step(r)
    PROVE  Reporting'
  <1>1. PICK g, h, s, e : g = hand[r] /\ h = [g EXCEPT !.steps = Tail(@)] /\ s = Head(g.steps) /\ e = g.e
    OBVIOUS
  <1>2. g.steps # <<>> /\ Proto!Do(r, s, e, h) /\ now' = now
    BY <1>1 DEF Proto!Step, Proto!Busy
  <1>3. Handler(g)
    BY <1>1, <1>2 DEF NoveltyInv, HandsOK
  <1>4. StepOK(s) /\ Tasks(Tail(g.steps))
    BY <1>1, <1>2, <1>3, TasksLeft DEF Handler
  <1>5. h = [e |-> e, steps |-> Tail(g.steps), seen |-> g.seen, ac |-> g.ac, base |-> g.base, rare |-> g.rare,
             mark |-> g.mark]
    BY <1>1, <1>3 DEF Handler
  <1>6. /\ h.e = e /\ h.steps = Tail(g.steps) /\ h.seen = g.seen /\ h.ac = g.ac /\ h.base = g.base
        /\ h.rare = g.rare /\ h.mark = g.mark
    BY <1>5
  <1>7. h = [e |-> h.e, steps |-> h.steps, seen |-> h.seen, ac |-> h.ac, base |-> h.base, rare |-> h.rare,
             mark |-> h.mark]
    BY <1>5, <1>6, Zenon
  <1>8. Handler(h)
    BY <1>1, <1>3, <1>4, <1>6, <1>7 DEF Handler
  <1>9. Follows(g, h)
    BY <1>1, <1>6 DEF Follows
  <1> QED
    BY <1>1, <1>2, <1>4, <1>8, <1>9, DoReport

LEMMA TickReport ==
    ASSUME Proto!ProtocolAssumption, NoveltyInv, Reporting, Proto!Tick
    PROVE  Reporting'
  <1>1. /\ now' = now + 1 /\ sets' \subseteq sets /\ dedup' \subseteq dedup
        /\ hand' = hand /\ kv' = kv /\ emitted' = emitted /\ past' = past
        /\ \A r \in Replicas : hand[r].steps = <<>>
    BY DEF Proto!Tick, Proto!Busy
  <1>2. now \in Nat /\ BaselineTTL \in Nat /\ KvOK
    BY DEF NoveltyInv, PastOK, Proto!ProtocolAssumption
  <1>3. Alone' /\ \A r \in Replicas : Occupied(r)' => ReportHand(hand[r])'
    BY <1>1 DEF Alone, Occupied
  <1>4. KvTells'
    <2>1. \A b \in kv : b.exp <= now' + BaselineTTL
      BY <1>1, <1>2 DEF KvTells, Reporting, KvOK
    <2>2. \A src, first : Writes(src, first)' = Writes(src, first)
      BY <1>1 DEF Writes, Of
    <2>3. \A src, x, y : Gapless(src, x, y)' <=> Gapless(src, x, y)
      BY <1>1 DEF Gapless, Of
    <2>4. \A src : \A f \in past' : Of(f, "baseline", src) => \E b \in kv' : b.src = src /\ b.exp >= f.at + BaselineTTL
      BY <1>1 DEF KvTells, Reporting
    <2>5. ASSUME NEW b \in kv', NEW f \in past', Of(f, "baseline", b.src), Gapless(b.src, f.at, b.exp - BaselineTTL)'
          PROVE  b.first <= f.at /\ Cardinality(Writes(b.src, f.at)') <= b.n
      <3>1. Gapless(b.src, f.at, b.exp - BaselineTTL)
        BY <2>3, <2>5
      <3>2. b.first <= f.at /\ Cardinality(Writes(b.src, f.at)) <= b.n
        BY <1>1, <2>5, <3>1 DEF KvTells, Reporting
      <3> QED
        BY <2>2, <3>2
    <2> QED
      BY <1>1, <2>1, <2>4, <2>5 DEF KvTells, Of
  <1>5. OnlyLearned(sets)'
    <2>1. IsFiniteSet(sets) /\ IsFiniteSet(sets')
      BY <1>1, FS_Subset DEF Reporting, OnlyLearned
    <2>2. \A src : \A x \in sets' : x.key = Proto!Known(src) =>
             \E p \in past' : Of(p, "know", src) /\ p.fp = x.member /\ p.at + BaselineTTL >= x.exp
      BY <1>1 DEF Reporting, OnlyLearned
    <2> QED
      BY <2>1, <2>2 DEF OnlyLearned, Of, Proto!Known
  <1>6. MarksTell'
    <2> SUFFICES ASSUME NEW d \in dedup', d.id[1] = "ja4_novelty" PROVE \E c \in emitted' : c.id = d.id
      BY DEF MarksTell
    <2>1. \A q \in Replicas : ~Occupied(q)
      BY <1>1 DEF Occupied
    <2> QED
      BY <1>1, <2>1 DEF Reporting, MarksTell
  <1>7. PastTold'
    <2>1. \A src, x, y, m : Proto!Unbroken(src, x, y, m)' <=> Proto!Unbroken(src, x, y, m)
      BY <1>1 DEF Proto!Unbroken
    <2>2. \A src, at, m : Proto!Covered(src, at, m)' <=> Proto!Covered(src, at, m)
      BY <1>1, <2>1 DEF Proto!Covered
    <2>3. \A src, fp, at, m, no : Due(src, fp, at, m, no)' <=> Due(src, fp, at, m, no)
      BY <1>1, <2>2 DEF Due, Of
    <2>4. \A src, fp : Told(src, fp)' <=> Told(src, fp)
      BY <1>1 DEF Told
    <2> QED
      BY <1>1, <2>3, <2>4 DEF Reporting, PastTold, Of
  <1> QED
    BY <1>3, <1>4, <1>5, <1>6, <1>7 DEF Reporting

LEMMA ReportStarts ==
    ASSUME Proto!Init
    PROVE  ReportInv
  <1>1. /\ now = 0 /\ past = {} /\ kv = {} /\ sets = {} /\ dedup = {} /\ hand = [r \in Replicas |-> Proto!Idle] /\ crashes = 0
    BY DEF Proto!Init
  <1>2. \A r \in Replicas : ~Occupied(r)
    BY <1>1 DEF Occupied, Proto!Idle
  <1>3. KvTells /\ OnlyLearned(sets) /\ MarksTell /\ PastTold
    BY <1>1, FS_EmptySet DEF KvTells, OnlyLearned, MarksTell, PastTold
  <1> QED
    BY <1>1, <1>2, <1>3 DEF ReportInv, Reporting, Alone

LEMMA SameReport ==
    ASSUME NoveltyInv, Reporting, UNCHANGED <<now, hand, kv, sets, dedup, emitted, past>>
    PROVE  Reporting'
  <1>1. Alone' /\ MarksTell'
    BY DEF Reporting, Alone, MarksTell, Occupied
  <1>2. ASSUME NEW r \in Replicas, hand'[r].steps # <<>> PROVE ReportHand(hand[r])'
    <2>1. PICK h : h = hand[r]
      OBVIOUS
    <2>2. ReportHand(h)'
      BY <1>2, <2>1, StoreSame DEF Occupied
    <2> QED
      BY <2>1, <2>2 DEF ReportHand, Sends, Has, Ordered
  <1>3. \A r \in Replicas : Occupied(r)' => ReportHand(hand[r])'
    BY <1>2 DEF Occupied
  <1> QED
    BY <1>1, <1>3, StoreSame DEF Reporting

LEMMA ReportKept ==
    ASSUME Proto!ProtocolAssumption, NoveltyInv, ReportInv, [Proto!Next]_Proto!vars
    PROVE  ReportInv'
  <1>1. ASSUME NEW r \in Replicas, Proto!Handle(r) PROVE ReportInv'
    <2>1. crashes' = crashes /\ (~overlap' => ~overlap)
      BY <1>1 DEF Proto!Handle
    <2>2. ~overlap' /\ crashes' = 0 => Reporting'
      BY <1>1, <2>1, HandleReport DEF ReportInv
    <2> QED
      BY <2>1, <2>2 DEF ReportInv
  <1>2. ASSUME NEW r \in Replicas, Proto!Step(r) PROVE ReportInv'
    <2>1. crashes' = crashes /\ overlap' = overlap
      BY <1>2 DEF Proto!Step
    <2>2. ~overlap' /\ crashes' = 0 => Reporting'
      BY <1>2, <2>1, StepReport DEF ReportInv
    <2> QED
      BY <2>1, <2>2 DEF ReportInv
  <1>3. ASSUME NEW r \in Replicas, Proto!HandlerFails(r) PROVE ReportInv'
    <2>1. /\ crashes' = crashes /\ overlap' = overlap /\ UNCHANGED <<now, kv, sets, dedup, emitted, past>>
          /\ hand' = [hand EXCEPT ![r] = Proto!Idle] /\ Head(hand[r].steps).op # "send"
      BY <1>3 DEF Proto!HandlerFails, Proto!store
    <2>2. Proto!Idle.steps = <<>>
      BY DEF Proto!Idle
    <2>3. ~overlap' /\ crashes' = 0 => Reporting'
      BY <2>1, <2>2, OthersGoOn DEF ReportInv
    <2> QED
      BY <2>1, <2>3 DEF ReportInv
  <1>4. ASSUME NEW r \in Replicas, Proto!AutoCommit(r) PROVE ReportInv'
    <2>1. crashes' = crashes /\ overlap' = overlap /\ UNCHANGED <<now, hand, kv, sets, dedup, emitted, past>>
      BY <1>4 DEF Proto!AutoCommit, Proto!store
    <2> QED
      BY <2>1, SameReport DEF ReportInv
  <1>5. ASSUME NEW r \in Replicas, Proto!Crash(r) PROVE ReportInv'
    <2>1. crashes' = crashes + 1
      BY <1>5 DEF Proto!Crash
    <2> QED
      BY <2>1 DEF ReportInv
  <1>6. CASE Proto!Tick
    <2>1. crashes' = crashes /\ overlap' = overlap
      BY <1>6 DEF Proto!Tick
    <2> QED
      BY <1>6, <2>1, TickReport DEF ReportInv
  <1>7. CASE UNCHANGED Proto!vars
    <2>1. crashes' = crashes /\ overlap' = overlap /\ UNCHANGED <<now, hand, kv, sets, dedup, emitted, past>>
      BY <1>7 DEF Proto!vars, Proto!store
    <2> QED
      BY <2>1, SameReport DEF ReportInv
  <1> QED
    BY <1>1, <1>2, <1>3, <1>4, <1>5, <1>6, <1>7 DEF Proto!Next

LEMMA ReportMeant ==
    ASSUME ReportInv
    PROVE  Proto!NoveltyReported
  <1> SUFFICES ASSUME ~overlap, crashes = 0, NEW p \in past, p.kind = "know", Proto!Covered(p.key[1], p.at, p.mark),
                      \E q \in past : q.kind = "know" /\ q.key = p.key /\ q.no <= p.mark /\ q.at + BaselineTTL >= p.at,
                      ~\E q \in past : /\ q.kind = "know" /\ q.key = p.key /\ q.fp = p.fp /\ q.no < p.no
                                       /\ q.at + BaselineTTL >= p.at
               PROVE  \E c \in Proto!Novelties : <<c.id[2][1]>> = p.key /\ c.id[2][2] = p.fp
    BY DEF Proto!NoveltyReported
  <1>1. PastTold
    BY DEF ReportInv, Reporting
  <1>2. p.key = <<p.key[1]>>
    BY <1>1 DEF PastTold, Of
  <1>3. Due(p.key[1], p.fp, p.at, p.mark, p.no)
    BY <1>2 DEF Due, Of
  <1>4. Told(p.key[1], p.fp)
    BY <1>1, <1>3 DEF PastTold
  <1> QED
    BY <1>2, <1>4 DEF Told, Proto!Novelties

\* "the current event must not erase its own novelty", for every choice of records, replicas and
\* thresholds: whatever exceptions cut handlers short, a fingerprint that is learned of a source
\* whose baseline was ready, and that was not known of it, has been reported before, unless
\* handlers of the source ran together or a process died (_ja4_observe).
THEOREM NoveltiesAreReported ==
    ASSUME Proto!ProtocolAssumption
    PROVE  Proto!Spec => []Proto!NoveltyReported
  <1>1. Proto!Init => NoveltyInv /\ ReportInv
    BY NoveltyStarts, ReportStarts
  <1>2. NoveltyInv /\ ReportInv /\ [Proto!Next]_Proto!vars => NoveltyInv' /\ ReportInv'
    BY NoveltyKept, ReportKept
  <1>3. ReportInv => Proto!NoveltyReported
    BY ReportMeant
  <1> QED
    BY <1>1, <1>2, <1>3, PTL DEF Proto!Spec

-----------------------------------------------------------------------------
(* behavioral-detectors: flow aggregates.                                  *)

CONSTANTS Log, FlowCap, Threshold, LowFloor, MinConns, Material, MinMaterial, MaxPoll, Absent
VARIABLES assigned, position, pc, pending, seen, outbox, hash, lost, unsettled
Flow == INSTANCE FlowAggregates

\* A set of numbers that has 0 and with each its successor has all of them.
LEMMA Inductive ==
    ASSUME NEW Q, 0 \in Q, \A n \in Nat : n \in Q => n + 1 \in Q
    PROVE  Nat \subseteq Q
  <1>1. PICK U : U = Nat \ Q
    OBVIOUS
  <1>2. PICK R : R = {ss \in Nat \X Nat : ss[1] < ss[2]}
    OBVIOUS
  <1>3. IsWellFoundedOn(R, Nat)
    BY <1>2, NatLessThanWellFounded, Zenon DEF OpToRel
  <1>4. SUFFICES ASSUME U # {} PROVE FALSE
    BY <1>1
  <1>5. U \subseteq Nat
    BY <1>1
  <1>6. PICK u \in U : \A w \in U : ~(<<w, u>> \in R)
    BY <1>3, <1>4, <1>5, WFMin, Zenon
  <1>7. u \in Nat /\ u # 0 /\ u \notin Q
    BY <1>1, <1>6
  <1>8. u - 1 \in Nat /\ u - 1 + 1 = u
    BY <1>7
  <1>9. u - 1 \notin Q
    BY <1>7, <1>8
  <1>10. u - 1 \in U
    BY <1>1, <1>8, <1>9
  <1>11. <<u - 1, u>> \in R
    BY <1>2, <1>7, <1>8
  <1> QED
    BY <1>6, <1>10, <1>11

\* One application of what MapThenFoldSet iterates, its operators as functions.
Unfolded(g, S, base, pick, op) == [s \in SUBSET S |-> IF s = {} THEN base ELSE op[pick[s]][g[s \ {pick[s]}]]]

FoldOf(g, S, V, base, pick, op) == g \in [SUBSET S -> V] /\ g = Unfolded(g, S, base, pick, op)
Foldable(S, V, base, pick, op) ==
    /\ IsFiniteSet(S) /\ base \in V
    /\ \A s \in SUBSET S : s # {} => pick[s] \in s
    /\ \A x \in S, v \in V : op[x][v] \in V

\* What MapThenFoldSet iterates exists: applying its equation n times makes it right for
\* the sets of less than n elements.
LEMMA Recursion ==
    ASSUME NEW S, NEW V, NEW base, NEW pick, NEW op, Foldable(S, V, base, pick, op)
    PROVE  \E g : FoldOf(g, S, V, base, pick, op)
  <1> DEFINE F(g) == [s \in SUBSET S |-> IF s = {} THEN base ELSE op[pick[s]][g[s \ {pick[s]}]]]
             Right(g, n) == \A s \in SUBSET S : Cardinality(s) < n => g[s] = F(g)[s]
             Q == {n \in Nat : \E g \in [SUBSET S -> V] : Right(g, n)}
  <1>0. /\ IsFiniteSet(S) /\ base \in V
        /\ \A s \in SUBSET S : s # {} => pick[s] \in s
        /\ \A x \in S, v \in V : op[x][v] \in V
    BY DEF Foldable
  <1>1. \A s \in SUBSET S : IsFiniteSet(s) /\ Cardinality(s) \in Nat
    BY <1>0, FS_Subset, FS_CardinalityType
  <1>10. \A g : \A s \in SUBSET S : F(g)[s] = IF s = {} THEN base ELSE op[pick[s]][g[s \ {pick[s]}]]
    OBVIOUS
  <1> HIDE DEF F, Q
  <1>2. 0 \in Q
    <2>1. PICK g : g = [s \in SUBSET S |-> base]
      OBVIOUS
    <2>2. g \in [SUBSET S -> V]
      BY <1>0, <2>1
    <2>3. Right(g, 0)
      BY <1>1
    <2> QED
      BY <2>2, <2>3 DEF Q
  <1>3. ASSUME NEW n \in Nat, n \in Q PROVE n + 1 \in Q
    <2>1. PICK g \in [SUBSET S -> V] : Right(g, n)
      BY <1>3 DEF Q
    <2>2. PICK h : h = F(g)
      OBVIOUS
    <2>3. h \in [SUBSET S -> V]
      BY <1>0, <2>1, <2>2 DEF F
    <2>4. ASSUME NEW s \in SUBSET S, Cardinality(s) < n + 1
          PROVE  h[s] = F(h)[s]
      <3>1. CASE s = {}
        BY <1>10, <2>2, <3>1
      <3>2. CASE s # {}
        <4>1. PICK t : t = s \ {pick[s]}
          OBVIOUS
        <4>2. pick[s] \in s
          BY <1>0, <3>2
        <4>3. t \in SUBSET S /\ Cardinality(t) = Cardinality(s) - 1
          BY <1>1, <4>1, <4>2, FS_RemoveElement
        <4>4. Cardinality(t) < n
          BY <1>1, <2>4, <4>3
        <4>5. g[t] = F(g)[t]
          BY <2>1, <4>3, <4>4
        <4>6. h[t] = g[t]
          BY <2>2, <4>5
        <4>7. F(g)[s] = op[pick[s]][g[t]]
          BY <1>10, <3>2, <4>1
        <4>8. F(h)[s] = op[pick[s]][h[t]]
          BY <1>10, <3>2, <4>1
        <4> QED
          BY <2>2, <4>6, <4>7, <4>8
      <3> QED
        BY <3>1, <3>2
    <2>5. Right(h, n + 1)
      BY <2>4
    <2> QED
      BY <2>3, <2>5 DEF Q
  <1>4. Nat \subseteq Q
    BY <1>2, <1>3, Inductive
  <1>5. PICK m \in Nat : m = Cardinality(S) + 1
    <2>1. Cardinality(S) \in Nat
      BY <1>0, FS_CardinalityType
    <2> QED
      BY <2>1
  <1>6. PICK g \in [SUBSET S -> V] : Right(g, m)
    BY <1>4, <1>5 DEF Q
  <1>7. \A s \in SUBSET S : Cardinality(s) < m
    <2>1. \A s \in SUBSET S : Cardinality(s) <= Cardinality(S)
      BY <1>0, FS_Subset
    <2>2. Cardinality(S) \in Nat
      BY <1>0, FS_CardinalityType
    <2> QED
      BY <1>1, <1>5, <2>1, <2>2
  <1>8. \A s \in SUBSET S : g[s] = F(g)[s]
    BY <1>6, <1>7
  <1>9. g = F(g)
    BY <1>6, <1>8 DEF F
  <1> QED
    BY <1>6, <1>9 DEF F, Unfolded, FoldOf

-----------------------------------------------------------------------------
\* Sums over finite sets, as FoldFunctionOnSet makes them.

Sum(f, S) == Flow!FoldFunctionOnSet(+, 0, f, S)
\* The sums over the subsets of S.
Adds(g, f, S) ==
    [s \in SUBSET S |-> IF s = {} THEN 0 ELSE f[CHOOSE x \in s : TRUE] + g[s \ {CHOOSE x \in s : TRUE}]]
Sums(f, S) == CHOOSE g : g = Adds(g, f, S)

\* FoldFunctionOnSet takes the sum over all of S.
LEMMA SumIsLast == ASSUME NEW f, NEW S PROVE Sum(f, S) = Sums(f, S)[S]
  BY DEF Sum, Sums, Adds, Flow!FoldFunctionOnSet, Flow!MapThenFoldSet

Summable(f, S) == IsFiniteSet(S) /\ \A x \in S : f[x] \in Nat

\* There are such sums: the CHOOSE of MapThenFoldSet finds a function.
LEMMA SumsExist ==
    ASSUME NEW S, NEW f, Summable(f, S)
    PROVE  Sums(f, S) = Adds(Sums(f, S), f, S)
  <1>0. IsFiniteSet(S) /\ \A x \in S : f[x] \in Nat
    BY DEF Summable
  <1>1. PICK pick : pick = [s \in SUBSET S |-> CHOOSE x \in s : TRUE]
    OBVIOUS
  <1>2. PICK op : op = [x \in S |-> [v \in Nat |-> f[x] + v]]
    OBVIOUS
  <1>3. \A s \in SUBSET S : pick[s] = (CHOOSE x \in s : TRUE) /\ (s # {} => pick[s] \in s)
    BY <1>1
  <1>4. \A x \in S, v \in Nat : op[x][v] = f[x] + v /\ op[x][v] \in Nat
    BY <1>0, <1>2
  <1>5. PICK g \in [SUBSET S -> Nat] : g = Unfolded(g, S, 0, pick, op)
    <2>1. \A s \in SUBSET S : s # {} => pick[s] \in s
      BY <1>3
    <2>2. \A x \in S, v \in Nat : op[x][v] \in Nat
      BY <1>4
    <2>3. 0 \in Nat
      OBVIOUS
    <2>4. Foldable(S, Nat, 0, pick, op)
      BY <1>0, <2>1, <2>2, <2>3 DEF Foldable
    <2>5. PICK g : FoldOf(g, S, Nat, 0, pick, op)
      BY <2>4, Recursion
    <2> QED
      BY <2>5 DEF FoldOf
  <1>6. ASSUME NEW s \in SUBSET S
        PROVE  g[s] = IF s = {} THEN 0 ELSE f[CHOOSE x \in s : TRUE] + g[s \ {CHOOSE x \in s : TRUE}]
    <2>1. CASE s = {}
      BY <1>5, <2>1 DEF Unfolded
    <2>2. CASE s # {}
      <3>1. PICK x : x = pick[s]
        OBVIOUS
      <3>2. x \in S /\ x = (CHOOSE y \in s : TRUE)
        BY <1>3, <2>2, <3>1
      <3>3. g[s] = op[x][g[s \ {x}]]
        BY <1>5, <2>2, <3>1 DEF Unfolded
      <3>4. g[s \ {x}] \in Nat
        BY <1>5
      <3>5. g[s] = f[x] + g[s \ {x}]
        BY <1>4, <3>2, <3>3, <3>4
      <3> QED
        BY <2>2, <3>2, <3>5
    <2> QED
      BY <2>1, <2>2
  <1>7. g = Adds(g, f, S)
    BY <1>5, <1>6 DEF Adds
  <1> QED
    BY <1>7, Zenon DEF Sums

\* The type of the sums, and the order of summation does not matter.
Additive(g, f, S) ==
    /\ g[{}] = 0
    /\ \A s \in SUBSET S : g[s] \in Nat
    /\ \A s \in SUBSET S : \A x \in s : g[s] = f[x] + g[s \ {x}]

\* Sums add one element at a time, in whatever order.
LEMMA SumsFacts ==
    ASSUME NEW S, NEW f, Summable(f, S)
    PROVE  Additive(Sums(f, S), f, S)
  <1>0. IsFiniteSet(S) /\ \A x \in S : f[x] \in Nat
    BY DEF Summable
  <1>1. PICK g : g = Sums(f, S)
    OBVIOUS
  <1>2. g = Adds(g, f, S)
    BY <1>1, SumsExist
  <1>3. g[{}] = 0
    BY <1>2 DEF Adds
  <1>4. ASSUME NEW s \in SUBSET S, s # {}
        PROVE  \E x \in s : g[s] = f[x] + g[s \ {x}]
    <2>1. PICK x : x = CHOOSE y \in s : TRUE
      OBVIOUS
    <2>2. x \in s
      BY <1>4, <2>1
    <2>3. g[s] = f[x] + g[s \ {x}]
      BY <1>2, <1>4, <2>1 DEF Adds
    <2> QED
      BY <2>2, <2>3
  <1>5. \A s \in SUBSET S : IsFiniteSet(s) /\ Cardinality(s) \in Nat
    BY <1>0, FS_Subset, FS_CardinalityType
  <1>6. ASSUME NEW s \in SUBSET S, NEW x \in s
        PROVE  s \ {x} \in SUBSET S /\ Cardinality(s \ {x}) = Cardinality(s) - 1
    BY <1>5, FS_RemoveElement
  <1>7. \A s \in SUBSET S : g[s] \in Nat
    <2> DEFINE Q == {n \in Nat : \A s \in SUBSET S : Cardinality(s) = n => g[s] \in Nat}
    <2>1. 0 \in Q
      BY <1>3, <1>5, FS_EmptySet
    <2>2. ASSUME NEW n \in Nat, n \in Q PROVE n + 1 \in Q
      <3>1. ASSUME NEW s \in SUBSET S, Cardinality(s) = n + 1 PROVE g[s] \in Nat
        <4>1. s # {}
          BY <3>1, FS_EmptySet
        <4>2. PICK x \in s : g[s] = f[x] + g[s \ {x}]
          BY <1>4, <4>1
        <4>3. g[s \ {x}] \in Nat
          BY <1>6, <2>2, <3>1
        <4> QED
          BY <1>0, <4>2, <4>3
      <3> QED
        BY <3>1
    <2> HIDE DEF Q
    <2>3. Nat \subseteq Q
      BY <2>1, <2>2, Inductive
    <2> QED
      BY <1>5, <2>3 DEF Q
  <1>8. \A s \in SUBSET S : \A x \in s : g[s] = f[x] + g[s \ {x}]
    <2> DEFINE Q == {n \in Nat : \A s \in SUBSET S : Cardinality(s) = n => \A x \in s : g[s] = f[x] + g[s \ {x}]}
    <2>1. 0 \in Q
      BY <1>5, FS_EmptySet
    <2>2. ASSUME NEW n \in Nat, n \in Q PROVE n + 1 \in Q
      <3>1. ASSUME NEW s \in SUBSET S, Cardinality(s) = n + 1, NEW x \in s PROVE g[s] = f[x] + g[s \ {x}]
        <4>1. PICK y \in s : g[s] = f[y] + g[s \ {y}]
          BY <1>4
        <4>2. CASE x = y
          BY <4>1, <4>2
        <4>3. CASE x # y
          <5>1. PICK u, v, w : u = s \ {y} /\ v = s \ {x} /\ w = s \ {x, y}
            OBVIOUS
          <5>2. /\ u \in SUBSET S /\ v \in SUBSET S /\ Cardinality(u) = n /\ Cardinality(v) = n
                /\ x \in u /\ y \in v /\ u \ {x} = w /\ v \ {y} = w
            BY <1>6, <3>1, <4>1, <4>3, <5>1
          <5>3. g[u] = f[x] + g[w] /\ g[v] = f[y] + g[w]
            BY <2>2, <5>2
          <5>4. g[w] \in Nat /\ f[x] \in Nat /\ f[y] \in Nat
            BY <1>0, <1>7, <5>2
          <5> QED
            BY <4>1, <5>1, <5>3, <5>4
        <4> QED
          BY <4>2, <4>3
      <3> QED
        BY <3>1
    <2> HIDE DEF Q
    <2>3. Nat \subseteq Q
      BY <2>1, <2>2, Inductive
    <2> QED
      BY <1>5, <2>3 DEF Q
  <1> QED
    BY <1>1, <1>3, <1>7, <1>8 DEF Additive

\* A sum over less of less is no more.
LEMMA SumGrows ==
    ASSUME NEW A, NEW B, A \subseteq B, IsFiniteSet(B), NEW f, NEW h,
           \A x \in A : f[x] \in Nat /\ f[x] <= h[x], \A x \in B : h[x] \in Nat
    PROVE  Sum(f, A) \in Nat /\ Sum(h, B) \in Nat /\ Sum(f, A) <= Sum(h, B)
  <1>0. IsFiniteSet(A)
    BY FS_Subset
  <1>1. PICK a, b : a = Sums(f, A) /\ b = Sums(h, B)
    OBVIOUS
  <1>2. /\ a[{}] = 0
        /\ \A s \in SUBSET A : a[s] \in Nat
        /\ \A s \in SUBSET A : \A x \in s : a[s] = f[x] + a[s \ {x}]
    <2>1. Summable(f, A)
      BY <1>0 DEF Summable
    <2>2. Additive(Sums(f, A), f, A)
      BY <2>1, SumsFacts
    <2> QED
      BY <1>1, <2>2 DEF Additive
  <1>3. /\ b[{}] = 0
        /\ \A s \in SUBSET B : b[s] \in Nat
        /\ \A s \in SUBSET B : \A x \in s : b[s] = h[x] + b[s \ {x}]
    <2>1. Summable(h, B)
      BY DEF Summable
    <2>2. Additive(Sums(h, B), h, B)
      BY <2>1, SumsFacts
    <2> QED
      BY <1>1, <2>2 DEF Additive
  <1>4. \A t \in SUBSET B : IsFiniteSet(t) /\ Cardinality(t) \in Nat
    BY FS_Subset, FS_CardinalityType
  <1> DEFINE Q == {n \in Nat : \A t \in SUBSET B : Cardinality(t) = n => \A s \in SUBSET A : s \subseteq t => a[s] <= b[t]}
  <1>5. 0 \in Q
    <2>1. ASSUME NEW t \in SUBSET B, Cardinality(t) = 0, NEW s \in SUBSET A, s \subseteq t PROVE a[s] <= b[t]
      <3>1. t = {} /\ s = {}
        BY <1>4, <2>1, FS_EmptySet
      <3> QED
        BY <1>2, <1>3, <3>1
    <2> QED
      BY <2>1
  <1>6. ASSUME NEW n \in Nat, n \in Q PROVE n + 1 \in Q
    <2>1. ASSUME NEW t \in SUBSET B, Cardinality(t) = n + 1, NEW s \in SUBSET A, s \subseteq t PROVE a[s] <= b[t]
      <3>1. PICK x \in t : TRUE
        <4>1. t # {}
          BY <1>4, <2>1, FS_EmptySet
        <4> QED
          BY <4>1
      <3>2. PICK v : v = t \ {x}
        OBVIOUS
      <3>3. v \in SUBSET B /\ Cardinality(v) = n
        <4>1. Cardinality(t \ {x}) = Cardinality(t) - 1
          BY <1>4, <3>1, FS_RemoveElement
        <4> QED
          BY <2>1, <3>2, <4>1
      <3>4. b[t] = h[x] + b[v] /\ h[x] \in Nat /\ b[v] \in Nat
        BY <1>3, <3>1, <3>2, <3>3
      <3>5. CASE x \notin s
        <4>1. a[s] <= b[v]
          BY <1>6, <2>1, <3>2, <3>3, <3>5
        <4> QED
          BY <1>2, <3>4, <4>1
      <3>6. CASE x \in s
        <4>1. PICK u : u = s \ {x}
          OBVIOUS
        <4>2. u \in SUBSET A /\ u \subseteq v
          BY <2>1, <3>2, <4>1
        <4>3. a[u] <= b[v]
          BY <1>6, <3>3, <4>2
        <4>4. a[s] = f[x] + a[u] /\ f[x] \in Nat /\ f[x] <= h[x] /\ a[u] \in Nat
          BY <1>2, <3>6, <4>1, <4>2
        <4> QED
          BY <3>4, <4>3, <4>4
      <3> QED
        BY <3>5, <3>6
    <2> QED
      BY <2>1
  <1> HIDE DEF Q
  <1>7. Nat \subseteq Q
    BY <1>5, <1>6, Inductive
  <1>8. a[A] <= b[B]
    BY <1>4, <1>7 DEF Q
  <1> QED
    BY <1>1, <1>2, <1>3, <1>8, SumIsLast

-----------------------------------------------------------------------------
\* What a flow sent.

\* A finite set of numbers has a greatest.
LEMMA HasGreatest ==
    ASSUME NEW T \in SUBSET Nat, T # {}, IsFiniteSet(T)
    PROVE  \E m \in T : \A t \in T : t <= m
  <1> DEFINE Q == {n \in Nat : \A U \in SUBSET T : Cardinality(U) = n /\ U # {} => \E m \in U : \A t \in U : t <= m}
  <1>1. \A U \in SUBSET T : IsFiniteSet(U) /\ Cardinality(U) \in Nat
    BY FS_Subset, FS_CardinalityType
  <1>2. 0 \in Q
    BY <1>1, FS_EmptySet
  <1>3. ASSUME NEW n \in Nat, n \in Q PROVE n + 1 \in Q
    <2>1. ASSUME NEW U \in SUBSET T, Cardinality(U) = n + 1, U # {} PROVE \E m \in U : \A t \in U : t <= m
      <3>1. PICK x \in U : TRUE
        BY <2>1
      <3>2. PICK W : W = U \ {x}
        OBVIOUS
      <3>3. W \in SUBSET T /\ Cardinality(W) = n
        <4>1. Cardinality(U \ {x}) = Cardinality(U) - 1
          BY <1>1, <3>1, FS_RemoveElement
        <4> QED
          BY <2>1, <3>2, <4>1
      <3>4. x \in Nat /\ \A t \in U : t = x \/ t \in W
        BY <3>1, <3>2
      <3>5. CASE W = {}
        BY <3>1, <3>4, <3>5
      <3>6. CASE W # {}
        <4>1. PICK m \in W : \A t \in W : t <= m
          BY <1>3, <3>3, <3>6
        <4>2. m \in Nat /\ m \in U
          BY <3>2, <3>3, <4>1
        <4>3. CASE m <= x
          <5>1. \A t \in U : t <= x
            <6>1. ASSUME NEW t \in U PROVE t <= x
              <7>1. t \in Nat
                OBVIOUS
              <7> QED
                BY <3>4, <4>1, <4>2, <4>3, <7>1
            <6> QED
              BY <6>1
          <5> QED
            BY <3>1, <5>1
        <4>4. CASE ~(m <= x)
          BY <3>4, <4>1, <4>2, <4>4
        <4> QED
          BY <4>3, <4>4
      <3> QED
        BY <3>5, <3>6
    <2> QED
      BY <2>1
  <1> HIDE DEF Q
  <1>4. Nat \subseteq Q
    BY <1>2, <1>3, Inductive
  <1>5. Cardinality(T) \in Nat
    BY <1>1
  <1> QED
    BY <1>4, <1>5 DEF Q

\* The image of a finite set under a function is finite.
LEMMA FiniteImage ==
    ASSUME NEW S, IsFiniteSet(S), NEW f, NEW T, T = {f[x] : x \in S}
    PROVE  IsFiniteSet(T)
  <1>1. PICK g : g = [x \in S |-> f[x]]
    OBVIOUS
  <1>2. g \in Surjection(S, T)
    BY <1>1 DEF Surjection
  <1> QED
    BY <1>2, FS_Surjection

\* The log has finitely many records, so finitely many flows.
LEMMA FiniteLog ==
    ASSUME Flow!FlowAssumption
    PROVE  IsFiniteSet(Flow!Records) /\ IsFiniteSet(Flow!Flows)
  <1>1. IsFiniteSet(Flow!Partitions)
    BY DEF Flow!FlowAssumption, Flow!IsFiniteSet, IsFiniteSet
  <1>2. ASSUME NEW p \in Flow!Partitions PROVE IsFiniteSet(Flow!Range(Log[p]))
    <2>1. Log[p] \in Seq(Flow!Range(Log[p]))
      BY DEF Flow!FlowAssumption
    <2>2. Len(Log[p]) \in Nat /\ DOMAIN Log[p] = 1..Len(Log[p])
      BY <2>1
    <2>3. IsFiniteSet(1..Len(Log[p]))
      BY <2>2, FS_Interval
    <2>4. Flow!Range(Log[p]) = {Log[p][i] : i \in 1..Len(Log[p])}
      BY <2>2 DEF Flow!Range
    <2> QED
      BY <2>3, <2>4, FiniteImage
  <1>3. PICK parts : parts = {Flow!Range(Log[p]) : p \in Flow!Partitions}
    OBVIOUS
  <1>4. IsFiniteSet(parts)
    <2>1. PICK f : f = [p \in Flow!Partitions |-> Flow!Range(Log[p])]
      OBVIOUS
    <2>2. parts = {f[p] : p \in Flow!Partitions}
      BY <1>3, <2>1
    <2> QED
      BY <1>1, <2>2, FiniteImage
  <1>5. \A T \in parts : IsFiniteSet(T)
    BY <1>2, <1>3
  <1>6. IsFiniteSet(Flow!Records)
    <2>1. IsFiniteSet(UNION parts)
      BY <1>4, <1>5, FS_UNION
    <2> QED
      BY <1>3, <2>1 DEF Flow!Records
  <1>7. IsFiniteSet(Flow!Flows)
    <2>1. PICK f : f = [r \in Flow!Records |-> r.flow]
      OBVIOUS
    <2>2. Flow!Flows = {f[r] : r \in Flow!Records}
      BY <2>1 DEF Flow!Flows
    <2> QED
      BY <1>6, <2>2, FiniteImage
  <1> QED
    BY <1>6, <1>7

\* Sent is a number no record of the flow exceeds.
LEMMA SentFacts ==
    ASSUME Flow!FlowAssumption, NEW f \in Flow!Flows
    PROVE  Flow!Sent(f) \in Nat /\ \A rec \in Flow!Records : rec.flow = f => rec.bytes <= Flow!Sent(f)
  <1>1. PICK recs : recs = {x \in Flow!Records : x.flow = f}
    OBVIOUS
  <1>2. PICK T : T = {rec.bytes : rec \in recs}
    OBVIOUS
  <1>3. T \in SUBSET Nat
    BY <1>1, <1>2 DEF Flow!FlowAssumption, Flow!Bytes
  <1>4. T # {}
    BY <1>1, <1>2 DEF Flow!Flows
  <1>5. IsFiniteSet(T)
    <2>1. IsFiniteSet(recs)
      BY <1>1, FiniteLog, FS_Subset
    <2>2. PICK g : g = [r \in recs |-> r.bytes]
      OBVIOUS
    <2>3. T = {g[r] : r \in recs}
      BY <1>2, <2>2
    <2> QED
      BY <2>1, <2>3, FiniteImage
  <1>6. PICK m \in T : \A t \in T : t <= m
    BY <1>3, <1>4, <1>5, HasGreatest
  <1>7. \A rec \in Flow!Records : rec.flow = f => rec.bytes <= m
    BY <1>1, <1>2, <1>6
  <1>8. PICK b : b = Flow!Sent(f)
    OBVIOUS
  <1>9. b \in T /\ \A rec \in Flow!Records : rec.flow = f => rec.bytes <= b
    BY <1>1, <1>2, <1>6, <1>7, <1>8 DEF Flow!Sent
  <1> QED
    BY <1>3, <1>8, <1>9

-----------------------------------------------------------------------------
\* Hashes that hold no more than what was sent.

HashType == [fields : [Flow!Flows -> Nat \cup {Absent}], refused : Nat, expires : Int \cup {Absent},
             index : Int \cup {Absent}]
Bounded(h, k) == \A f \in Flow!Held(h) : f \in Flow!FlowsOf(k) /\ h.fields[f] <= Flow!Sent(f)
Stores == {st \in [Flow!Pairs -> HashType] : \A k \in Flow!Pairs : Bounded(st[k], k)}

\* fields_get of fields that are bounded reports no more than the pair sent.
LEMMA TotalBound ==
    ASSUME Flow!FlowAssumption, NEW h \in HashType, NEW k, Bounded(h, k)
    PROVE  Flow!Total(h) <= Flow!TrueTotal(k)
  <1>1. PICK sent : sent = [f \in Flow!Flows |-> Flow!Sent(f)]
    OBVIOUS
  <1>2. PICK A, B : A = Flow!Held(h) /\ B = Flow!FlowsOf(k)
    OBVIOUS
  <1>3. A \subseteq B /\ A \subseteq Flow!Flows /\ B \subseteq Flow!Flows
    BY <1>2 DEF Bounded, Flow!Held, Flow!FlowsOf
  <1>4. IsFiniteSet(B)
    BY <1>3, FiniteLog, FS_Subset
  <1>5. \A x \in B : sent[x] \in Nat
    BY <1>1, <1>3, SentFacts
  <1>6. \A x \in A : h.fields[x] \in Nat /\ h.fields[x] <= sent[x]
    BY <1>1, <1>2, <1>3 DEF HashType, Bounded, Flow!Held
  <1>7. Sum(h.fields, A) <= Sum(sent, B)
    BY <1>3, <1>4, <1>5, <1>6, SumGrows
  <1> QED
    BY <1>1, <1>2, <1>7 DEF Flow!Total, Flow!TrueTotal, Sum

\* The capped field write keeps the bound: a record says no more than its flow sent.
LEMMA FieldSetBound ==
    ASSUME Flow!FlowAssumption, NEW k, NEW h \in HashType, Bounded(h, k), NEW rec \in Flow!Records, rec.pair = k
    PROVE  Flow!FieldSet(h, rec) \in HashType /\ Bounded(Flow!FieldSet(h, rec), k)
  <1>1. rec.flow \in Flow!Flows /\ rec.flow \in Flow!FlowsOf(k) /\ rec.bytes \in Nat
    BY DEF Flow!Flows, Flow!FlowsOf, Flow!FlowAssumption, Flow!Bytes
  <1>2. rec.bytes <= Flow!Sent(rec.flow)
    BY <1>1, SentFacts
  <1>3. PICK g : g = Flow!FieldSet(h, rec)
    OBVIOUS
  <1>4. g = [h EXCEPT !.refused = h.refused + 1] \/ g = [h EXCEPT !.fields[rec.flow] = rec.bytes]
    BY <1>3 DEF Flow!FieldSet
  <1>5. g \in HashType
    BY <1>1, <1>4 DEF HashType
  <1>6. \A f \in Flow!Flows : g.fields[f] = h.fields[f] \/ (f = rec.flow /\ g.fields[f] = rec.bytes)
    BY <1>1, <1>4 DEF HashType
  <1>7. Bounded(g, k)
    BY <1>1, <1>2, <1>6 DEF Bounded, Flow!Held
  <1> QED
    BY <1>3, <1>5, <1>7

\* So do the other commands of an fset operation, however many of them are done.
LEMMA CommandsBound ==
    ASSUME Flow!FlowAssumption, now \in Nat, NEW k, NEW h \in HashType, Bounded(h, k),
           NEW rec \in Flow!Records, rec.pair = k, NEW n \in 0 .. 3
    PROVE  Flow!Commands(h, rec, n) \in HashType /\ Bounded(Flow!Commands(h, rec, n), k)
  <1>1. PICK g : g = Flow!FieldSet(h, rec)
    OBVIOUS
  <1>2. g \in HashType /\ Bounded(g, k)
    BY <1>1, FieldSetBound
  <1>3. Window \in Nat
    BY DEF Flow!FlowAssumption
  <1>4. PICK e : e = Flow!ExpireNX(g)
    OBVIOUS
  <1>5. e \in HashType /\ e.fields = g.fields
    BY <1>2, <1>3, <1>4 DEF Flow!ExpireNX, HashType
  <1>6. PICK i : i = Flow!IndexAdd(e)
    OBVIOUS
  <1>7. i \in HashType /\ i.fields = g.fields
    BY <1>3, <1>5, <1>6 DEF Flow!IndexAdd, HashType
  <1>8. Bounded(e, k) /\ Bounded(i, k)
    BY <1>2, <1>5, <1>7 DEF Bounded, Flow!Held
  <1>9. Flow!Commands(h, rec, n) \in {h, g, e, i}
    BY <1>1, <1>4, <1>6 DEF Flow!Commands
  <1> QED
    BY <1>2, <1>5, <1>7, <1>8, <1>9

\* The store after one operation of a pipeline.
Applied(st, rec) == [st EXCEPT ![rec.pair] = Flow!Commands(st[rec.pair], rec, 3)]

\* One operation keeps the bounds of a store.
LEMMA AppliedBound ==
    ASSUME Flow!FlowAssumption, now \in Nat, NEW st \in Stores, NEW rec \in Flow!Records
    PROVE  Applied(st, rec) \in Stores
  <1>1. rec.pair \in Flow!Pairs
    BY DEF Flow!Pairs
  <1>2. st[rec.pair] \in HashType /\ Bounded(st[rec.pair], rec.pair)
    BY <1>1 DEF Stores
  <1>3. PICK c : c = Flow!Commands(st[rec.pair], rec, 3)
    OBVIOUS
  <1>4. c \in HashType /\ Bounded(c, rec.pair)
    BY <1>2, <1>3, CommandsBound
  <1>5. Applied(st, rec) = [st EXCEPT ![rec.pair] = c]
    BY <1>3 DEF Applied
  <1> QED
    BY <1>1, <1>4, <1>5 DEF Stores

\* What the fold of a pipeline iterates over the operations it is given.
Stepped(g, store, ops) ==
    [s \in SUBSET DOMAIN ops |-> IF s = {} THEN store ELSE Applied(g[s \ {Flow!Max(s)}], ops[Flow!Max(s)])]
Iterated(store, ops) == CHOOSE g : g = Stepped(g, store, ops)

\* The fold of Pipeline, as the function it iterates.
LEMMA PipelineIsLast ==
    ASSUME NEW store, NEW ops
    PROVE  Flow!Pipeline(store, ops) = Iterated(store, ops)[DOMAIN ops]
  BY DEF Flow!Pipeline, Flow!FoldLeft, Flow!MapThenFoldSet, Iterated, Stepped, Applied

\* The stores a pipeline goes through.
Runs(st, store, ops) ==
    /\ st \in [0..Len(ops) -> Stores]
    /\ st[0] = store /\ st[Len(ops)] = Flow!Pipeline(store, ops)
    /\ \A n \in 1..Len(ops) : st[n] = Applied(st[n - 1], ops[n])

\* A pipeline applies its operations one after the other.
LEMMA PipelineRuns ==
    ASSUME Flow!FlowAssumption, now \in Nat, NEW store \in Stores, NEW ops \in Seq(Flow!Records)
    PROVE  \E st : Runs(st, store, ops)
  <1>1. PICK D : D = DOMAIN ops
    OBVIOUS
  <1>2. D = 1..Len(ops) /\ Len(ops) \in Nat /\ IsFiniteSet(D) /\ \A i \in D : ops[i] \in Flow!Records
    BY <1>1, FS_Interval
  <1>3. PICK pick : pick = [s \in SUBSET D |-> Flow!Max(s)]
    OBVIOUS
  <1>4. ASSUME NEW s \in SUBSET D, s # {} PROVE Flow!Max(s) \in s /\ pick[s] = Flow!Max(s)
    <2>1. s \in SUBSET Nat /\ IsFiniteSet(s)
      <3>1. D \subseteq Nat
        BY <1>2
      <3>2. IsFiniteSet(s)
        BY <1>2, FS_Subset
      <3> QED
        BY <3>1, <3>2
    <2>2. PICK m \in s : \A t \in s : t <= m
      BY <1>4, <2>1, HasGreatest
    <2>3. \A t \in s : m >= t
      BY <2>1, <2>2
    <2>4. Flow!Max(s) \in s
      BY <2>3 DEF Flow!Max
    <2> QED
      BY <1>3, <2>4
  <1>5. PICK op : op = [i \in D |-> [st \in Stores |-> Applied(st, ops[i])]]
    OBVIOUS
  <1>6. \A i \in D, st \in Stores : op[i][st] = Applied(st, ops[i]) /\ op[i][st] \in Stores
    BY <1>2, <1>5, AppliedBound
  <1>7. Foldable(D, Stores, store, pick, op)
    BY <1>2, <1>4, <1>6 DEF Foldable
  <1>8. PICK g : FoldOf(g, D, Stores, store, pick, op)
    BY <1>7, Recursion
  <1>9. g \in [SUBSET D -> Stores]
    BY <1>8 DEF FoldOf
  <1>10. ASSUME NEW s \in SUBSET D
         PROVE  g[s] = IF s = {} THEN store ELSE Applied(g[s \ {Flow!Max(s)}], ops[Flow!Max(s)])
    <2>1. g[s] = IF s = {} THEN store ELSE op[pick[s]][g[s \ {pick[s]}]]
      BY <1>8 DEF FoldOf, Unfolded
    <2>2. CASE s = {}
      BY <2>1, <2>2
    <2>3. CASE s # {}
      <3>1. PICK x : x = Flow!Max(s)
        OBVIOUS
      <3>2. x \in D /\ pick[s] = x
        BY <1>4, <2>3, <3>1
      <3>3. g[s \ {x}] \in Stores
        BY <1>9
      <3>4. op[x][g[s \ {x}]] = Applied(g[s \ {x}], ops[x])
        BY <1>6, <3>2, <3>3
      <3> QED
        BY <2>1, <2>3, <3>1, <3>2, <3>4
    <2> QED
      BY <2>2, <2>3
  <1>11. g = Stepped(g, store, ops)
    BY <1>1, <1>9, <1>10 DEF Stepped
  <1>12. PICK h : h = Iterated(store, ops)
    OBVIOUS
  <1>13. h = Stepped(h, store, ops)
    BY <1>11, <1>12, Zenon DEF Iterated
  <1> DEFINE Q == {n \in Nat : \A s \in SUBSET D : Cardinality(s) = n => h[s] \in Stores}
  <1>14. \A s \in SUBSET D : IsFiniteSet(s) /\ Cardinality(s) \in Nat
    BY <1>2, FS_Subset, FS_CardinalityType
  <1>15. 0 \in Q
    <2>1. h[{}] = store
      BY <1>13 DEF Stepped
    <2> QED
      BY <1>14, <2>1, FS_EmptySet
  <1>16. ASSUME NEW n \in Nat, n \in Q PROVE n + 1 \in Q
    <2>1. ASSUME NEW s \in SUBSET D, Cardinality(s) = n + 1 PROVE h[s] \in Stores
      <3>1. s # {}
        BY <1>14, <2>1, FS_EmptySet
      <3>2. PICK x : x = Flow!Max(s)
        OBVIOUS
      <3>3. x \in s
        BY <1>4, <3>1, <3>2
      <3>4. Cardinality(s \ {x}) = Cardinality(s) - 1
        BY <1>14, <3>3, FS_RemoveElement
      <3>5. h[s \ {x}] \in Stores
        BY <1>16, <2>1, <3>4
      <3>6. h[s] = Applied(h[s \ {x}], ops[x])
        BY <1>1, <1>13, <3>1, <3>2 DEF Stepped
      <3> QED
        BY <1>2, <3>3, <3>5, <3>6, AppliedBound
    <2> QED
      BY <2>1
  <1> HIDE DEF Q
  <1>17. Nat \subseteq Q
    BY <1>15, <1>16, Inductive
  <1>18. \A s \in SUBSET D : h[s] \in Stores
    BY <1>14, <1>17 DEF Q
  <1>19. PICK L \in Nat : L = Len(ops) /\ D = 1..L
    BY <1>2
  <1>20. PICK st : st = [n \in 0..L |-> h[1..n]]
    OBVIOUS
  <1>21. \A n \in 0..L : 1..n \in SUBSET D
    BY <1>19
  <1>22. st \in [0..L -> Stores]
    BY <1>18, <1>20, <1>21
  <1>23. st[0] = store
    <2>1. 1..0 = {} /\ 0 \in 0..L
      BY <1>19
    <2>2. h[{}] = store
      BY <1>13 DEF Stepped
    <2> QED
      BY <1>20, <2>1, <2>2
  <1>24. st[L] = Flow!Pipeline(store, ops)
    BY <1>1, <1>12, <1>19, <1>20, PipelineIsLast
  <1>25. ASSUME NEW n \in 1..L PROVE st[n] = Applied(st[n - 1], ops[n])
    <2>1. PICK s : s = 1..n
      OBVIOUS
    <2>2. s \in SUBSET D /\ s # {} /\ n \in s
      <3>1. n \in 1..n /\ n \in 0..L
        BY <1>19
      <3> QED
        BY <1>21, <2>1, <3>1
    <2>3. PICK x : x = Flow!Max(s)
      OBVIOUS
    <2>4. x \in s /\ \A t \in s : x >= t
      <3>1. n \in s /\ \A t \in s : n >= t
        BY <1>19, <2>1
      <3> QED
        BY <2>3, <3>1 DEF Flow!Max
    <2>5. x = n
      BY <1>19, <2>1, <2>4
    <2>6. s \ {x} = 1..(n - 1)
      BY <1>19, <2>1, <2>5
    <2>7. h[s] = Applied(h[s \ {x}], ops[x])
      BY <1>1, <1>13, <2>2, <2>3 DEF Stepped
    <2>8. n \in 0..L /\ n - 1 \in 0..L
      BY <1>19
    <2>9. st[n] = h[s] /\ st[n - 1] = h[s \ {x}]
      BY <1>20, <2>1, <2>6, <2>8
    <2> QED
      BY <2>5, <2>7, <2>9
  <1> QED
    BY <1>19, <1>22, <1>23, <1>24, <1>25 DEF Runs

\* A pipeline keeps the bounds of a store.
LEMMA PipelineBound ==
    ASSUME Flow!FlowAssumption, now \in Nat, NEW store \in Stores, NEW ops \in Seq(Flow!Records)
    PROVE  Flow!Pipeline(store, ops) \in Stores
  <1>1. PICK st : Runs(st, store, ops)
    BY PipelineRuns
  <1>2. Len(ops) \in Nat
    OBVIOUS
  <1> QED
    BY <1>1, <1>2 DEF Runs

-----------------------------------------------------------------------------
\* What a poll returns.

Flat(g, seqs) == [i \in 1..Len(seqs) |-> IF i = 1 THEN seqs[i] ELSE g[i-1] \o seqs[i]]
Flattened(seqs) == CHOOSE g : g = Flat(g, seqs)

\* The recursion of FlattenSeq, as the function it iterates.
LEMMA FlattenIsLast ==
    ASSUME NEW seqs, Len(seqs) # 0
    PROVE  Flow!FlattenSeq(seqs) = Flattened(seqs)[Len(seqs)]
  BY DEF Flow!FlattenSeq, Flattened, Flat

\* The sequences a concatenation goes through.
Grows(g, seqs, R) ==
    /\ g \in [0..Len(seqs) -> Seq(R)]
    /\ g[0] = <<>> /\ g[Len(seqs)] = Flow!FlattenSeq(seqs)
    /\ \A i \in 1..Len(seqs) : g[i] = g[i - 1] \o seqs[i]

\* FlattenSeq appends its sequences one after the other.
LEMMA FlattenGrows ==
    ASSUME NEW R, NEW seqs \in Seq(Seq(R))
    PROVE  \E g : Grows(g, seqs, R)
  <1>1. PICK L \in Nat : L = Len(seqs)
    OBVIOUS
  <1>2. \A i \in 1..L : seqs[i] \in Seq(R)
    BY <1>1
  <1>3. CASE L = 0
    <2>1. seqs = <<>>
      BY <1>1, <1>3, EmptySeq
    <2>2. Flow!FlattenSeq(seqs) = seqs
      BY <1>1, <1>3 DEF Flow!FlattenSeq
    <2>3. <<>> \in Seq(R)
      BY EmptySeq
    <2>4. PICK g : g = [i \in 0..0 |-> <<>>]
      OBVIOUS
    <2>5. g \in [0..0 -> Seq(R)] /\ g[0] = <<>>
      BY <2>3, <2>4
    <2>6. Len(seqs) = 0 /\ 1..0 = {}
      BY <1>1, <1>3
    <2> QED
      BY <2>1, <2>2, <2>5, <2>6 DEF Grows
  <1>4. CASE L # 0
    <2> DEFINE Right(g, n) == \A i \in 1..L : i <= n => g[i] = Flat(g, seqs)[i]
               Q == {n \in Nat : \E g \in [1..L -> Seq(R)] : Right(g, n)}
    <2>1. \A g : \A i \in 1..L : Flat(g, seqs)[i] = IF i = 1 THEN seqs[i] ELSE g[i-1] \o seqs[i]
      BY <1>1 DEF Flat
    <2>2. 0 \in Q
      <3>1. PICK g : g = [i \in 1..L |-> <<>>]
        OBVIOUS
      <3>2. g \in [1..L -> Seq(R)]
        BY <3>1
      <3> QED
        BY <3>2
    <2>3. ASSUME NEW n \in Nat, n \in Q PROVE n + 1 \in Q
      <3>1. PICK g \in [1..L -> Seq(R)] : Right(g, n)
        BY <2>3
      <3>2. PICK h : h = Flat(g, seqs)
        OBVIOUS
      <3>3. h \in [1..L -> Seq(R)]
        <4>1. \A i \in 1..L : Flat(g, seqs)[i] \in Seq(R)
          <5>1. ASSUME NEW i \in 1..L PROVE Flat(g, seqs)[i] \in Seq(R)
            <6>1. CASE i = 1
              BY <1>2, <2>1, <6>1
            <6>2. CASE i # 1
              <7>1. i - 1 \in 1..L
                BY <6>2
              <7>2. g[i-1] \in Seq(R) /\ seqs[i] \in Seq(R)
                BY <1>2, <3>1, <7>1
              <7>3. g[i-1] \o seqs[i] \in Seq(R)
                BY <7>2
              <7> QED
                BY <2>1, <6>2, <7>3
            <6> QED
              BY <6>1, <6>2
          <5> QED
            BY <5>1
        <4> QED
          BY <1>1, <3>2, <4>1 DEF Flat
      <3>4. ASSUME NEW i \in 1..L, i <= n + 1 PROVE h[i] = Flat(h, seqs)[i]
        <4>1. CASE i = 1
          BY <2>1, <3>2, <4>1
        <4>2. CASE i # 1
          <5>1. i - 1 \in 1..L /\ i - 1 <= n
            BY <3>4, <4>2
          <5>2. g[i-1] = Flat(g, seqs)[i-1]
            BY <3>1, <5>1
          <5>3. h[i-1] = g[i-1]
            BY <3>2, <5>2
          <5>4. Flat(g, seqs)[i] = g[i-1] \o seqs[i]
            BY <2>1, <4>2
          <5>5. Flat(h, seqs)[i] = h[i-1] \o seqs[i]
            BY <2>1, <4>2
          <5> QED
            BY <3>2, <5>3, <5>4, <5>5
        <4> QED
          BY <4>1, <4>2
      <3>5. Right(h, n + 1)
        BY <3>4
      <3> HIDE DEF Right
      <3> QED
        BY <3>3, <3>5
    <2> HIDE DEF Q
    <2>4. Nat \subseteq Q
      BY <2>2, <2>3, Inductive
    <2>5. PICK g \in [1..L -> Seq(R)] : Right(g, L)
      BY <2>4 DEF Q
    <2>6. g = Flat(g, seqs)
      <3>1. \A i \in 1..L : g[i] = Flat(g, seqs)[i]
        BY <2>5
      <3> QED
        BY <1>1, <2>5, <3>1 DEF Flat
    <2>7. PICK h : h = Flattened(seqs)
      OBVIOUS
    <2>8. h = Flat(h, seqs)
      BY <2>6, <2>7, Zenon DEF Flattened
    <2> DEFINE P == {n \in Nat : n + 1 \in 1..L => h[n + 1] \in Seq(R)}
    <2>9. 0 \in P
      <3>1. h[1] = seqs[1] /\ 1 \in 1..L
        BY <1>4, <2>1, <2>8
      <3> QED
        BY <1>2, <3>1
    <2>10. ASSUME NEW n \in Nat, n \in P PROVE n + 1 \in P
      <3>1. ASSUME n + 2 \in 1..L PROVE h[n + 2] \in Seq(R)
        <4>1. n + 1 \in 1..L /\ n + 2 - 1 = n + 1 /\ n + 2 # 1
          BY <3>1
        <4>2. h[n + 1] \in Seq(R) /\ seqs[n + 2] \in Seq(R)
          BY <1>2, <2>10, <3>1, <4>1
        <4>3. h[n + 2] = h[n + 1] \o seqs[n + 2]
          <5>1. PICK j \in 1..L : j = n + 2 /\ j - 1 = n + 1 /\ j # 1
            BY <3>1, <4>1
          <5>2. Flat(h, seqs)[j] = h[j-1] \o seqs[j]
            BY <2>1, <5>1
          <5> QED
            BY <2>8, <5>1, <5>2
        <4> QED
          BY <4>2, <4>3
      <3>2. n + 1 + 1 = n + 2
        OBVIOUS
      <3> QED
        BY <3>1, <3>2
    <2> HIDE DEF P
    <2>11. Nat \subseteq P
      BY <2>9, <2>10, Inductive
    <2>12. ASSUME NEW i \in 1..L PROVE h[i] \in Seq(R)
      <3>1. i - 1 \in Nat /\ i - 1 + 1 = i
        OBVIOUS
      <3>2. i - 1 \in P
        BY <2>11, <3>1
      <3> QED
        BY <3>1, <3>2 DEF P
    <2>13. PICK k : k = [i \in 0..L |-> IF i = 0 THEN <<>> ELSE h[i]]
      OBVIOUS
    <2>14. \A i \in 1..L : i \in 0..L /\ i - 1 \in 0..L /\ i # 0 /\ (i # 1 => i - 1 # 0)
      OBVIOUS
    <2>15. k[0] = <<>> /\ \A i \in 1..L : k[i] = h[i]
      BY <2>13, <2>14
    <2>16. k \in [0..L -> Seq(R)]
      <3>1. <<>> \in Seq(R)
        BY EmptySeq
      <3>2. \A i \in 0..L : i = 0 \/ i \in 1..L
        OBVIOUS
      <3>3. \A i \in 0..L : k[i] \in Seq(R)
        BY <2>12, <2>15, <3>1, <3>2
      <3> QED
        BY <2>13, <3>3
    <2>17. ASSUME NEW i \in 1..L PROVE k[i] = k[i - 1] \o seqs[i]
      <3>1. CASE i = 1
        <4>0. k[i] = h[i] /\ h[i] = seqs[i] /\ seqs[i] \in Seq(R)
          BY <1>2, <2>1, <2>8, <2>15, <3>1
        <4>1. k[i] = seqs[i] /\ k[i - 1] = <<>> /\ seqs[i] \in Seq(R)
          <5>1. i - 1 = 0
            BY <3>1
          <5> QED
            BY <2>15, <4>0, <5>1
        <4>2. <<>> \o seqs[i] = seqs[i]
          BY <4>1, ConcatEmptySeq
        <4> QED
          BY <4>1, <4>2
      <3>2. CASE i # 1
        <4>1. i - 1 \in 1..L
          BY <3>2
        <4>2. h[i] = h[i - 1] \o seqs[i]
          BY <2>1, <2>8, <3>2
        <4> QED
          BY <2>15, <4>1, <4>2
      <3> QED
        BY <3>1, <3>2
    <2>18. k[L] = Flow!FlattenSeq(seqs)
      BY <1>1, <1>4, <2>7, <2>15, FlattenIsLast
    <2> QED
      BY <1>1, <2>15, <2>16, <2>17, <2>18 DEF Grows
  <1> QED
    BY <1>3, <1>4

\* Sequences of records put end to end are a sequence of records.
LEMMA FlattenType ==
    ASSUME NEW R, NEW seqs \in Seq(Seq(R))
    PROVE  Flow!FlattenSeq(seqs) \in Seq(R)
  <1>1. PICK g : Grows(g, seqs, R)
    BY FlattenGrows
  <1>2. Len(seqs) \in Nat
    OBVIOUS
  <1> QED
    BY <1>1, <1>2 DEF Grows

\* SetToSeq gives a sequence of the elements of a finite set.
LEMMA OrderType ==
    ASSUME NEW S, IsFiniteSet(S)
    PROVE  Flow!SetToSeq(S) \in Seq(S)
  <1>1. Cardinality(S) \in Nat /\ ExistsBijection(1..Cardinality(S), S)
    BY FS_CardinalityType
  <1>2. Flow!Cardinality(S) = Cardinality(S)
    BY DEF Flow!Cardinality, Cardinality
  <1>3. PICK n \in Nat : n = Cardinality(S)
    BY <1>1
  <1>4. PICK b : b \in Bijection(1..n, S)
    BY <1>1, <1>3 DEF ExistsBijection
  <1>5. b \in [1..n -> S] /\ Flow!IsInjective(b)
    BY <1>4 DEF Bijection, Injection, IsInjective, Flow!IsInjective
  <1>6. Flow!SetToSeq(S) \in [1..n -> S]
    <2>1. PICK q : q = Flow!SetToSeq(S)
      OBVIOUS
    <2>2. q = CHOOSE f \in [1..n -> S] : Flow!IsInjective(f)
      BY <1>2, <1>3, <2>1 DEF Flow!SetToSeq
    <2>3. q \in [1..n -> S]
      BY <1>5, <2>2, Zenon
    <2> QED
      BY <2>1, <2>3
  <1> QED
    BY <1>3, <1>6

-----------------------------------------------------------------------------
(* behavioral-detectors: no finding is manufactured.                       *)

Honest(id) == id.total <= Flow!TrueTotal(id.pair)
Spots == {"poll", "flush", "eval", "judge", "down"}

\* Buffers hold records of the log, fields no more than their flow sent, and what
\* evaluate() has read of a pair is no more than the pair sent.
FlowInv ==
    /\ now \in Nat
    /\ position \in [Flow!Partitions -> Nat] /\ committed \in [Flow!Partitions -> Nat]
    /\ pc \in [Replicas -> Spots]
    /\ pending \in [Replicas -> Seq(Flow!Records)]
    /\ todo \in [Replicas -> SUBSET Flow!Pairs]
    /\ DOMAIN seen = Replicas /\ DOMAIN outbox = Replicas
    /\ hash \in Stores
    /\ \A r \in Replicas : pc[r] = "judge" => seen[r].pair \in Flow!Pairs /\ Honest(seen[r])
    /\ \A id \in emitted \cup lost : Honest(id)
    /\ \A r \in Replicas : \A id \in outbox[r] : Honest(id)

\* A hash that is gone bounds nothing, whatever its index entry says.
LEMMA NoHashBound ==
    ASSUME Flow!FlowAssumption, NEW i \in Int \cup {Absent}, NEW k
    PROVE  /\ [Flow!NoHash EXCEPT !.index = i] \in HashType /\ Bounded([Flow!NoHash EXCEPT !.index = i], k)
           /\ Flow!NoHash \in HashType /\ Bounded(Flow!NoHash, k)
  <1>1. PICK h : h = [Flow!NoHash EXCEPT !.index = i]
    OBVIOUS
  <1>2. h.fields = [f \in Flow!Flows |-> Absent] /\ h \in HashType
    BY <1>1 DEF Flow!NoHash, HashType
  <1>3. Flow!NoHash.fields = [f \in Flow!Flows |-> Absent] /\ Flow!NoHash \in HashType
    BY DEF Flow!NoHash, HashType
  <1> QED
    BY <1>1, <1>2, <1>3 DEF Bounded, Flow!Held

\* What expires takes its fields with it.
LEMMA TickHash ==
    ASSUME Flow!FlowAssumption, FlowInv, Flow!Tick
    PROVE  hash' \in Stores
  <1>1. ASSUME NEW k \in Flow!Pairs PROVE hash'[k] \in HashType /\ Bounded(hash'[k], k)
    <2>1. hash[k] \in HashType /\ Bounded(hash[k], k)
      BY <1>1 DEF FlowInv, Stores
    <2>2. PICK i : i = hash[k].index
      OBVIOUS
    <2>3. i \in Int \cup {Absent}
      BY <2>1, <2>2 DEF HashType
    <2>4. PICK h : /\ h = [Flow!NoHash EXCEPT !.index = i] \/ h = hash[k]
                   /\ hash'[k] = h \/ hash'[k] = [h EXCEPT !.index = Absent]
      BY <1>1, <2>2 DEF Flow!Tick
    <2>5. h \in HashType /\ Bounded(h, k)
      BY <2>1, <2>3, <2>4, NoHashBound
    <2>6. [h EXCEPT !.index = Absent] \in HashType /\ [h EXCEPT !.index = Absent].fields = h.fields
      BY <2>5 DEF HashType
    <2> QED
      BY <2>4, <2>5, <2>6 DEF Bounded, Flow!Held
  <1>2. hash' = [k \in Flow!Pairs |-> hash'[k]]
    BY DEF Flow!Tick
  <1> QED
    BY <1>1, <1>2 DEF Stores

\* A pipeline cut anywhere, and an operation cut after any of its commands.
LEMMA FlushFailsHash ==
    ASSUME Flow!FlowAssumption, FlowInv, NEW r \in Replicas, Flow!FlushFails(r)
    PROVE  hash' \in Stores
  <1>1. PICK ops : ops = pending[r]
    OBVIOUS
  <1>2. ops \in Seq(Flow!Records) /\ now \in Nat /\ hash \in Stores
    BY <1>1 DEF FlowInv
  <1>3. PICK n \in 0..Len(ops), c \in 0..2 :
           /\ n = Len(ops) => c = 0
           /\ hash' = [k \in Flow!Pairs |->
                 IF k \in (IF n = Len(ops) \/ c = 0 THEN {} ELSE {ops[n + 1].pair})
                 THEN Flow!Commands(Flow!Pipeline(hash, SubSeq(ops, 1, n))[k], ops[n + 1], c)
                 ELSE Flow!Pipeline(hash, SubSeq(ops, 1, n))[k]]
    BY <1>1 DEF Flow!FlushFails
  <1>4. SubSeq(ops, 1, n) \in Seq(Flow!Records)
    BY <1>2, <1>3
  <1>5. PICK done : done = Flow!Pipeline(hash, SubSeq(ops, 1, n))
    OBVIOUS
  <1>6. done \in Stores
    BY <1>2, <1>4, <1>5, PipelineBound
  <1>7. ASSUME NEW k \in Flow!Pairs PROVE hash'[k] \in HashType /\ Bounded(hash'[k], k)
    <2>1. done[k] \in HashType /\ Bounded(done[k], k)
      BY <1>6, <1>7 DEF Stores
    <2>2. CASE n # Len(ops) /\ c # 0 /\ k = ops[n + 1].pair
      <3>1. n + 1 \in 1..Len(ops)
        BY <1>2, <1>3, <2>2
      <3>2. ops[n + 1] \in Flow!Records
        BY <1>2, <3>1
      <3>3. hash'[k] = Flow!Commands(done[k], ops[n + 1], c)
        BY <1>3, <1>5, <1>7, <2>2
      <3>4. c \in 0..3
        BY <1>3
      <3> QED
        BY <1>2, <2>1, <2>2, <3>2, <3>3, <3>4, CommandsBound
    <2>3. CASE ~(n # Len(ops) /\ c # 0 /\ k = ops[n + 1].pair)
      BY <1>3, <1>5, <1>7, <2>1, <2>3
    <2> QED
      BY <2>2, <2>3
  <1>8. hash' = [k \in Flow!Pairs |-> hash'[k]]
    BY <1>3
  <1> QED
    BY <1>7, <1>8 DEF Stores

\* evaluate() changes index entries only.
LEMMA JudgeHash ==
    ASSUME Flow!FlowAssumption, FlowInv, NEW r \in Replicas, Flow!Judge(r)
    PROVE  hash' \in Stores
  <1>1. PICK k : k = seen[r].pair
    OBVIOUS
  <1>2. k \in Flow!Pairs /\ hash \in Stores
    BY <1>1 DEF Flow!Judge, FlowInv
  <1>3. hash' = hash \/ hash' = [hash EXCEPT ![k] = [hash[k] EXCEPT !.index = Absent]]
    BY <1>1 DEF Flow!Judge
  <1>4. PICK h : h = [hash[k] EXCEPT !.index = Absent]
    OBVIOUS
  <1>5. hash[k] \in HashType /\ Bounded(hash[k], k)
    BY <1>2 DEF Stores
  <1>6. h \in HashType /\ h.fields = hash[k].fields
    BY <1>4, <1>5 DEF HashType
  <1>7. Bounded(h, k)
    BY <1>5, <1>6 DEF Bounded, Flow!Held
  <1>8. hash' = hash \/ hash' = [hash EXCEPT ![k] = h]
    BY <1>3, <1>4
  <1> QED
    BY <1>2, <1>6, <1>7, <1>8 DEF Stores

\* No step writes a field that says more than its flow sent.
LEMMA HashNext ==
    ASSUME Flow!FlowAssumption, FlowInv, Flow!Next
    PROVE  hash' \in Stores
  <1>1. CASE Flow!Tick
    BY <1>1, TickHash
  <1>2. CASE \E r \in Replicas : Flow!Flush(r)
    <2>1. PICK r \in Replicas : hash' = Flow!Pipeline(hash, pending[r])
      BY <1>2 DEF Flow!Flush
    <2>2. hash \in Stores /\ now \in Nat /\ pending[r] \in Seq(Flow!Records)
      BY <2>1 DEF FlowInv
    <2> QED
      BY <2>1, <2>2, PipelineBound
  <1>3. CASE \E r \in Replicas : Flow!FlushFails(r)
    BY <1>3, FlushFailsHash
  <1>4. CASE \E r \in Replicas : Flow!Judge(r)
    BY <1>4, JudgeHash
  <1>5. CASE \E r \in Replicas : Flow!Poll(r) \/ Flow!EvalBegin(r) \/ Flow!ReadKey(r) \/ Flow!EvalEnd(r)
                \/ Flow!EvalFails(r) \/ Flow!Deliver(r) \/ Flow!Crash(r) \/ Flow!Restart(r)
    <2>1. hash' = hash
      BY <1>5 DEF Flow!Poll, Flow!EvalBegin, Flow!ReadKey, Flow!EvalEnd, Flow!EvalFails, Flow!Deliver, Flow!Crash,
                  Flow!Restart, Flow!redisVars
    <2> QED
      BY <2>1 DEF FlowInv
  <1>6. CASE \E p \in Flow!Partitions, r \in Replicas : Flow!Rebalance(p, r) \/ Flow!Evict(p, r) \/ Flow!Takeover(p, r)
    <2>1. hash' = hash
      BY <1>6 DEF Flow!Rebalance, Flow!Evict, Flow!Takeover, Flow!redisVars
    <2> QED
      BY <2>1 DEF FlowInv
  <1> QED
    BY <1>1, <1>2, <1>3, <1>4, <1>5, <1>6 DEF Flow!Next, Flow!Loop

\* A poll buffers records of the log.
LEMMA PollPending ==
    ASSUME Flow!FlowAssumption, FlowInv, NEW r \in Replicas, Flow!Poll(r)
    PROVE  /\ pending' \in [Replicas -> Seq(Flow!Records)]
           /\ position' \in [Flow!Partitions -> Nat] /\ committed' \in [Flow!Partitions -> Nat]
  <1>1. PICK n \in [Flow!Partitions -> 0..MaxPoll], elapsed \in BOOLEAN :
          LET owned == {p \in Flow!Partitions : owner[p] = r}
              got(p) == SubSeq(Log[p], position[p] + 1, position[p] + n[p])
              order == Flow!SetToSeq(owned)
          IN /\ \A p \in Flow!Partitions : position[p] + n[p] <= Len(Log[p])
             /\ pending' = [pending EXCEPT ![r] = Flow!FlattenSeq([i \in DOMAIN order |-> got(order[i])])]
             /\ position' = [p \in Flow!Partitions |-> position[p] + n[p]]
             /\ committed' = [p \in Flow!Partitions |->
                   IF p \in owned THEN Flow!AutoCommit(p, n[p], elapsed) ELSE committed[p]]
    BY DEF Flow!Poll
  <1>2. PICK owned : owned = {p \in Flow!Partitions : owner[p] = r}
    OBVIOUS
  <1>3. PICK order : order = Flow!SetToSeq(owned)
    OBVIOUS
  <1>4. PICK seqs : seqs = [i \in DOMAIN order |-> SubSeq(Log[order[i]], position[order[i]] + 1, position[order[i]] + n[order[i]])]
    OBVIOUS
  <1>5. order \in Seq(Flow!Partitions)
    <2>1. IsFiniteSet(Flow!Partitions)
      BY DEF Flow!FlowAssumption, Flow!IsFiniteSet, IsFiniteSet
    <2>2. IsFiniteSet(owned) /\ owned \subseteq Flow!Partitions
      BY <1>2, <2>1, FS_Subset
    <2>3. order \in Seq(owned)
      BY <1>3, <2>2, OrderType
    <2> QED
      BY <2>2, <2>3
  <1>6. MaxPoll \in Nat
    BY DEF Flow!FlowAssumption
  <1>7. ASSUME NEW p \in Flow!Partitions
        PROVE  SubSeq(Log[p], position[p] + 1, position[p] + n[p]) \in Seq(Flow!Records)
    <2>1. PICK log, a, b : log = Log[p] /\ a = position[p] + 1 /\ b = position[p] + n[p]
      OBVIOUS
    <2>2. log \in Seq(Flow!Range(log)) /\ Flow!Range(log) \subseteq Flow!Records
      BY <1>7, <2>1 DEF Flow!FlowAssumption, Flow!Records
    <2>3. log \in Seq(Flow!Records)
      BY <2>2
    <2>4. a \in Nat /\ b \in Nat /\ a >= 1 /\ b <= Len(log)
      BY <1>1, <1>6, <1>7, <2>1 DEF FlowInv
    <2>5. SubSeq(log, a, b) \in Seq(Flow!Records)
      BY <2>3, <2>4
    <2> QED
      BY <2>1, <2>5
  <1>8. seqs \in Seq(Seq(Flow!Records))
    <2>1. \A i \in DOMAIN order : order[i] \in Flow!Partitions
      BY <1>5
    <2>2. \A i \in DOMAIN order : seqs[i] \in Seq(Flow!Records)
      BY <1>4, <1>7, <2>1
    <2>3. DOMAIN order = 1..Len(order) /\ Len(order) \in Nat
      BY <1>5
    <2> QED
      BY <1>4, <2>2, <2>3
  <1>9. Flow!FlattenSeq(seqs) \in Seq(Flow!Records)
    BY <1>8, FlattenType
  <1>10. pending' = [pending EXCEPT ![r] = Flow!FlattenSeq(seqs)]
    BY <1>1, <1>2, <1>3, <1>4
  <1>11. \A p \in Flow!Partitions : position[p] \in Nat /\ committed[p] \in Nat /\ n[p] \in Nat
    BY <1>1, <1>6 DEF FlowInv
  <1>12. position' = [p \in Flow!Partitions |-> position[p] + n[p]] /\ \A p \in Flow!Partitions : committed'[p] \in {position[p], committed[p]}
    BY <1>1 DEF Flow!AutoCommit
  <1>13. committed' = [p \in Flow!Partitions |-> committed'[p]]
    BY <1>1
  <1>14. pending' \in [Replicas -> Seq(Flow!Records)]
    <2>1. pending \in [Replicas -> Seq(Flow!Records)]
      BY DEF FlowInv
    <2>2. PICK flat : flat = Flow!FlattenSeq(seqs)
      OBVIOUS
    <2>3. flat \in Seq(Flow!Records) /\ pending' = [pending EXCEPT ![r] = flat]
      BY <1>9, <1>10, <2>2
    <2> QED
      BY <2>1, <2>3
  <1>15. position' \in [Flow!Partitions -> Nat]
    BY <1>11, <1>12
  <1>16. \A p \in Flow!Partitions : committed'[p] \in Nat
    BY <1>11, <1>12
  <1>17. committed' \in [Flow!Partitions -> Nat]
    BY <1>13, <1>16
  <1> QED
    BY <1>14, <1>15, <1>17

\* Positions and buffers keep their types.
LEMMA BuffersNext ==
    ASSUME Flow!FlowAssumption, FlowInv, Flow!Next
    PROVE  /\ now' \in Nat
           /\ position' \in [Flow!Partitions -> Nat] /\ committed' \in [Flow!Partitions -> Nat]
           /\ pending' \in [Replicas -> Seq(Flow!Records)]
           /\ todo' \in [Replicas -> SUBSET Flow!Pairs]
  <1>0. <<>> \in Seq(Flow!Records)
    BY EmptySeq
  <1>1. CASE Flow!Tick
    BY <1>1 DEF Flow!Tick, Flow!groupVars, Flow!loopVars, FlowInv
  <1>2. ASSUME NEW r \in Replicas, Flow!Poll(r)
        PROVE  now' = now /\ todo' = todo
    BY <1>2 DEF Flow!Poll, Flow!redisVars
  <1>3. CASE \E r \in Replicas : Flow!Poll(r)
    BY <1>2, <1>3, PollPending DEF FlowInv
  <1>4. CASE \E r \in Replicas : Flow!Flush(r) \/ Flow!FlushFails(r) \/ Flow!Crash(r)
    <2>1. PICK r \in Replicas : Flow!Flush(r) \/ Flow!FlushFails(r) \/ Flow!Crash(r)
      BY <1>4
    <2>2. pending' = [pending EXCEPT ![r] = <<>>]
      BY <2>1 DEF Flow!Flush, Flow!FlushFails, Flow!Crash
    <2>3. todo' = todo \/ todo' = [todo EXCEPT ![r] = {}]
      BY <2>1 DEF Flow!Flush, Flow!FlushFails, Flow!Crash
    <2>4. now' = now /\ position' = position /\ committed' = committed
      BY <2>1 DEF Flow!Flush, Flow!FlushFails, Flow!Crash, Flow!groupVars, Flow!redisVars
    <2>5. /\ now \in Nat
          /\ position \in [Flow!Partitions -> Nat] /\ committed \in [Flow!Partitions -> Nat]
          /\ pending \in [Replicas -> Seq(Flow!Records)]
          /\ todo \in [Replicas -> SUBSET Flow!Pairs]
      BY DEF FlowInv
    <2>6. pending' \in [Replicas -> Seq(Flow!Records)]
      BY <1>0, <2>2, <2>5
    <2>7. todo' \in [Replicas -> SUBSET Flow!Pairs]
      BY <2>3, <2>5
    <2> QED
      BY <2>4, <2>5, <2>6, <2>7
  <1>5. CASE \E r \in Replicas : Flow!EvalBegin(r) \/ Flow!ReadKey(r) \/ Flow!EvalFails(r)
    BY <1>5 DEF Flow!EvalBegin, Flow!ReadKey, Flow!EvalFails, Flow!groupVars, Flow!redisVars, Flow!ScopedKeys, FlowInv
  <1>6. CASE \E r \in Replicas : Flow!Judge(r) \/ Flow!EvalEnd(r) \/ Flow!Deliver(r)
    BY <1>6 DEF Flow!Judge, Flow!EvalEnd, Flow!Deliver, Flow!groupVars, Flow!redisVars, FlowInv
  <1>7. CASE \E r \in Replicas : Flow!Restart(r)
    BY <1>7 DEF Flow!Restart, Flow!redisVars, FlowInv
  <1>8. CASE \E p \in Flow!Partitions, r \in Replicas : Flow!Rebalance(p, r) \/ Flow!Evict(p, r) \/ Flow!Takeover(p, r)
    <2>1. PICK p \in Flow!Partitions, r \in Replicas : Flow!Rebalance(p, r) \/ Flow!Evict(p, r) \/ Flow!Takeover(p, r)
      BY <1>8
    <2>2. now' = now /\ pending' = pending /\ todo' = todo
      BY <2>1 DEF Flow!Rebalance, Flow!Evict, Flow!Takeover, Flow!redisVars, Flow!loopVars
    <2>3. position' = position \/ position' = [position EXCEPT ![p] = committed[p]]
      BY <2>1 DEF Flow!Rebalance, Flow!Evict, Flow!Takeover
    <2>4. committed' = committed \/ committed' = [committed EXCEPT ![p] = position[p]]
      BY <2>1 DEF Flow!Rebalance, Flow!Evict, Flow!Takeover
    <2>5. position \in [Flow!Partitions -> Nat] /\ committed \in [Flow!Partitions -> Nat]
      BY DEF FlowInv
    <2>6. position' \in [Flow!Partitions -> Nat] /\ committed' \in [Flow!Partitions -> Nat]
      BY <2>3, <2>4, <2>5
    <2> QED
      BY <2>2, <2>6 DEF FlowInv
  <1> QED
    BY <1>1, <1>3, <1>4, <1>5, <1>6, <1>7, <1>8 DEF Flow!Next, Flow!Loop

\* What a finding says is what was read.
LEMMA FindingIsHonest ==
    ASSUME FlowInv, NEW r \in Replicas, pc[r] = "judge"
    PROVE  Honest(Flow!FindingId(seen[r]))
  <1>1. Flow!FindingId(seen[r]).total = seen[r].total /\ Flow!FindingId(seen[r]).pair = seen[r].pair
    BY DEF Flow!FindingId
  <1> QED
    BY <1>1 DEF FlowInv, Honest

\* Only ReadKey goes to "judge", and it reads a hash of the store.
LEMMA JudgedNext ==
    ASSUME Flow!FlowAssumption, FlowInv, Flow!Next
    PROVE  /\ pc' \in [Replicas -> Spots] /\ DOMAIN seen' = Replicas
           /\ \A r \in Replicas : pc'[r] = "judge" => seen'[r].pair \in Flow!Pairs /\ Honest(seen'[r])
  <1>1. ASSUME NEW r \in Replicas, Flow!ReadKey(r)
        PROVE  /\ pc' \in [Replicas -> Spots] /\ DOMAIN seen' = Replicas
               /\ \A q \in Replicas : pc'[q] = "judge" => seen'[q].pair \in Flow!Pairs /\ Honest(seen'[q])
    <2>1. PICK k \in todo[r] : seen' = [seen EXCEPT ![r] = Flow!FieldsGet(k)]
      BY <1>1 DEF Flow!ReadKey
    <2>2. pc' = [pc EXCEPT ![r] = "judge"]
      BY <1>1 DEF Flow!ReadKey, Flow!Goto
    <2>3. k \in Flow!Pairs
      BY <2>1 DEF FlowInv
    <2>4. hash[k] \in HashType /\ Bounded(hash[k], k)
      BY <2>3 DEF FlowInv, Stores
    <2>5. PICK g : g = Flow!FieldsGet(k)
      OBVIOUS
    <2>6. g.pair = k /\ g.total = Flow!Total(hash[k])
      BY <2>5 DEF Flow!FieldsGet
    <2>7. Honest(g)
      BY <2>4, <2>6, TotalBound DEF Honest
    <2> QED
      BY <2>1, <2>2, <2>3, <2>5, <2>6, <2>7 DEF FlowInv, Spots
  <1>2. ASSUME NEW r \in Replicas,
               Flow!Poll(r) \/ Flow!Flush(r) \/ Flow!FlushFails(r) \/ Flow!EvalBegin(r) \/ Flow!EvalEnd(r) \/ Flow!Restart(r)
        PROVE  /\ pc' \in [Replicas -> Spots] /\ seen' = seen
               /\ \A q \in Replicas : pc'[q] = "judge" => pc[q] = "judge"
    <2>1. seen' = seen /\ \E l \in {"poll", "flush", "eval"} : pc' = [pc EXCEPT ![r] = l]
      BY <1>2 DEF Flow!Poll, Flow!Flush, Flow!FlushFails, Flow!EvalBegin, Flow!EvalEnd, Flow!Restart, Flow!Goto
    <2> QED
      BY <2>1 DEF FlowInv, Spots
  <1>3. ASSUME NEW r \in Replicas, Flow!Judge(r) \/ Flow!EvalFails(r) \/ Flow!Crash(r)
        PROVE  /\ pc' \in [Replicas -> Spots] /\ DOMAIN seen' = Replicas
               /\ \A q \in Replicas : pc'[q] = "judge" => pc[q] = "judge" /\ seen'[q] = seen[q]
    <2>1. /\ seen' = [seen EXCEPT ![r] = Absent]
          /\ \E l \in {"poll", "eval", "down"} : pc' = [pc EXCEPT ![r] = l]
      BY <1>3 DEF Flow!Judge, Flow!EvalFails, Flow!Crash, Flow!Goto
    <2> QED
      BY <2>1 DEF FlowInv, Spots
  <1>4. CASE Flow!Tick \/ (\E r \in Replicas : Flow!Deliver(r))
             \/ (\E p \in Flow!Partitions, r \in Replicas : Flow!Rebalance(p, r) \/ Flow!Evict(p, r) \/ Flow!Takeover(p, r))
    <2>1. pc' = pc /\ seen' = seen
      BY <1>4 DEF Flow!Tick, Flow!Deliver, Flow!Rebalance, Flow!Evict, Flow!Takeover, Flow!loopVars
    <2> QED
      BY <2>1 DEF FlowInv
  <1>5. CASE \E r \in Replicas : Flow!ReadKey(r)
    BY <1>1, <1>5
  <1>6. CASE \E r \in Replicas : Flow!Poll(r) \/ Flow!Flush(r) \/ Flow!FlushFails(r) \/ Flow!EvalBegin(r) \/ Flow!EvalEnd(r)
                \/ Flow!Restart(r)
    BY <1>2, <1>6 DEF FlowInv
  <1>7. CASE \E r \in Replicas : Flow!Judge(r) \/ Flow!EvalFails(r) \/ Flow!Crash(r)
    BY <1>3, <1>7 DEF FlowInv
  <1> QED
    BY <1>4, <1>5, <1>6, <1>7 DEF Flow!Next, Flow!Loop

\* What is sent, lost or waiting to be sent was read from a pair.
LEMMA SaidNext ==
    ASSUME Flow!FlowAssumption, FlowInv, Flow!Next
    PROVE  /\ DOMAIN outbox' = Replicas
           /\ \A id \in emitted' \cup lost' : Honest(id)
           /\ \A r \in Replicas : \A id \in outbox'[r] : Honest(id)
  <1>1. ASSUME NEW r \in Replicas, Flow!Judge(r)
        PROVE  /\ emitted' = emitted /\ lost' = lost /\ DOMAIN outbox' = Replicas
               /\ \A q \in Replicas : \A id \in outbox'[q] : Honest(id)
    <2>1. PICK id : id = Flow!FindingId(seen[r])
      OBVIOUS
    <2>2. Honest(id)
      BY <1>1, <2>1, FindingIsHonest DEF Flow!Judge
    <2>3. /\ outbox' = outbox \/ outbox' = [outbox EXCEPT ![r] = outbox[r] \cup {id}]
          /\ emitted' = emitted /\ lost' = lost
      BY <1>1, <2>1 DEF Flow!Judge, Flow!ghosts
    <2>4. DOMAIN outbox = Replicas /\ \A q \in Replicas : \A x \in outbox[q] : Honest(x)
      BY DEF FlowInv
    <2>5. DOMAIN outbox' = Replicas
      BY <2>3, <2>4
    <2>6. \A q \in Replicas : outbox'[q] = outbox[q] \/ outbox'[q] = outbox[q] \cup {id}
      BY <2>3, <2>4
    <2>7. ASSUME NEW q \in Replicas, NEW x \in outbox'[q] PROVE Honest(x)
      <3>1. x \in outbox[q] \/ x = id
        BY <2>6, <2>7
      <3> QED
        BY <2>2, <2>4, <3>1
    <2> QED
      BY <2>3, <2>5, <2>7
  <1>2. ASSUME NEW r \in Replicas, Flow!EvalFails(r)
        PROVE  /\ emitted' = emitted /\ outbox' = outbox
               /\ \A id \in lost' : Honest(id)
    <2>1. PICK id : id = Flow!FindingId(seen[r])
      OBVIOUS
    <2>2. /\ emitted' = emitted /\ outbox' = outbox
          /\ lost' = lost \/ (pc[r] = "judge" /\ lost' = lost \cup {id})
      BY <1>2, <2>1 DEF Flow!EvalFails
    <2>3. pc[r] = "judge" => Honest(id)
      BY <2>1, FindingIsHonest
    <2> QED
      BY <2>2, <2>3 DEF FlowInv
  <1>3. CASE \E r \in Replicas : Flow!Judge(r)
    BY <1>1, <1>3 DEF FlowInv
  <1>4. CASE \E r \in Replicas : Flow!EvalFails(r)
    BY <1>2, <1>4 DEF FlowInv
  <1>5. CASE \E r \in Replicas : Flow!Deliver(r)
    BY <1>5 DEF Flow!Deliver, Flow!ghosts, FlowInv
  <1>6. CASE \E r \in Replicas : Flow!Crash(r)
    BY <1>6 DEF Flow!Crash, FlowInv
  <1>7. CASE \E r \in Replicas : Flow!Poll(r) \/ Flow!Flush(r) \/ Flow!FlushFails(r) \/ Flow!EvalBegin(r) \/ Flow!EvalEnd(r)
                \/ Flow!ReadKey(r) \/ Flow!Restart(r)
    <2>1. emitted' = emitted /\ lost' = lost /\ outbox' = outbox
      BY <1>7 DEF Flow!Poll, Flow!Flush, Flow!FlushFails, Flow!EvalBegin, Flow!EvalEnd, Flow!ReadKey, Flow!Restart, Flow!ghosts
    <2> QED
      BY <2>1 DEF FlowInv
  <1>8. CASE Flow!Tick
             \/ (\E p \in Flow!Partitions, r \in Replicas : Flow!Rebalance(p, r) \/ Flow!Evict(p, r) \/ Flow!Takeover(p, r))
    <2>1. emitted' = emitted /\ lost' = lost /\ outbox' = outbox
      BY <1>8 DEF Flow!Tick, Flow!Rebalance, Flow!Evict, Flow!Takeover, Flow!ghosts, Flow!loopVars
    <2> QED
      BY <2>1 DEF FlowInv
  <1> QED
    BY <1>3, <1>4, <1>5, <1>6, <1>7, <1>8 DEF Flow!Next, Flow!Loop

\* Nothing is in the store at first.
LEMMA FlowInit ==
    ASSUME Flow!FlowAssumption, Flow!Init
    PROVE  FlowInv
  <1>1. hash \in Stores
    <2>1. hash = [k \in Flow!Pairs |-> Flow!NoHash]
      BY DEF Flow!Init
    <2>2. \A k \in Flow!Pairs : Flow!NoHash \in HashType /\ Bounded(Flow!NoHash, k)
      BY NoHashBound
    <2> QED
      BY <2>1, <2>2 DEF Stores
  <1>2. <<>> \in Seq(Flow!Records)
    BY EmptySeq
  <1> QED
    BY <1>1, <1>2 DEF Flow!Init, FlowInv, Spots

\* Every step keeps the invariant.
LEMMA FlowNext ==
    ASSUME Flow!FlowAssumption, FlowInv, [Flow!Next]_(Flow!vars)
    PROVE  FlowInv'
  <1>1. CASE UNCHANGED Flow!vars
    BY <1>1 DEF FlowInv, Flow!vars, Flow!redisVars, Flow!groupVars, Flow!loopVars, Flow!ghosts
  <1>2. CASE Flow!Next
    BY <1>2, HashNext, BuffersNext, JudgedNext, SaidNext DEF FlowInv
  <1> QED
    BY <1>1, <1>2

\* However records are redelivered, polled by two replicas, or cut off in a pipeline: no
\* exfil finding that was made claims more bytes than the flows of its pair sent
\* (NoFalseExfil).
THEOREM NothingIsManufactured ==
    ASSUME Flow!FlowAssumption
    PROVE  Flow!Spec => []Flow!NoFalseExfil
  <1>1. Flow!Init => FlowInv
    BY FlowInit
  <1>2. FlowInv /\ [Flow!Next]_(Flow!vars) => FlowInv'
    BY FlowNext
  <1>3. FlowInv => Flow!NoFalseExfil
    BY DEF FlowInv, Honest, Flow!NoFalseExfil, Flow!Range
  <1> QED
    BY <1>1, <1>2, <1>3, PTL DEF Flow!Spec

-----------------------------------------------------------------------------
(* behavioral-detectors: settled fields are current.                       *)

\* The last record of flow f in s says v.
Ends(s, f, v) ==
    \E i \in DOMAIN s : s[i].flow = f /\ s[i].bytes = v /\ \A j \in DOMAIN s : j > i => s[j].flow # f
Says(s, f) == \E i \in DOMAIN s : s[i].flow = f

\* Of what a pipeline leaves in the hash of k, a flow that it has records of says what
\* the last of them says, and any other what it said before.
Overwritten(old, ops, h) ==
    \A f \in Flow!Held(h) :
        \/ Says(ops, f) /\ Ends(ops, f, h.fields[f])
        \/ ~Says(ops, f) /\ f \in Flow!Held(old) /\ h.fields[f] = old.fields[f]

\* The same of the first n operations.
Upto(old, ops, h, n) ==
    \A f \in Flow!Held(h) :
        \/ \E i \in 1..n : /\ ops[i].flow = f /\ ops[i].bytes = h.fields[f]
                           /\ \A j \in (i + 1)..n : ops[j].flow # f
        \/ /\ \A i \in 1..n : ops[i].flow # f
           /\ f \in Flow!Held(old) /\ h.fields[f] = old.fields[f]

\* A flow that a pair's hash holds is of no other pair.
LEMMA FlowOfPair ==
    ASSUME Flow!FlowAssumption, NEW k, NEW f \in Flow!FlowsOf(k), NEW rec \in Flow!Records, rec.flow = f
    PROVE  rec.pair = k
  <1>1. PICK x \in Flow!Records : x.flow = f /\ x.pair = k
    BY DEF Flow!FlowsOf
  <1> QED
    BY <1>1 DEF Flow!FlowAssumption

\* What the commands of an operation make of the fields.
LEMMA CommandsFields ==
    ASSUME NEW h \in HashType, NEW rec \in Flow!Records
    PROVE  \/ Flow!Commands(h, rec, 3).fields = h.fields /\ rec.flow \notin Flow!Held(h)
           \/ Flow!Commands(h, rec, 3).fields = [h.fields EXCEPT ![rec.flow] = rec.bytes]
  <1>1. PICK s : s = Flow!FieldSet(h, rec)
    OBVIOUS
  <1>2. \/ s = [h EXCEPT !.refused = @ + 1] /\ rec.flow \notin Flow!Held(h)
        \/ s = [h EXCEPT !.fields[rec.flow] = rec.bytes]
    BY <1>1 DEF Flow!FieldSet
  <1>3. \/ s.fields = h.fields /\ rec.flow \notin Flow!Held(h)
        \/ s.fields = [h.fields EXCEPT ![rec.flow] = rec.bytes]
    BY <1>2 DEF HashType
  <1>4. DOMAIN s = {"fields", "refused", "expires", "index"}
    BY <1>2 DEF HashType
  <1>5. PICK e : e = Flow!ExpireNX(s)
    OBVIOUS
  <1>6. e.fields = s.fields /\ DOMAIN e = DOMAIN s
    BY <1>4, <1>5 DEF Flow!ExpireNX
  <1>7. Flow!Commands(h, rec, 3) = Flow!IndexAdd(e)
    BY <1>1, <1>5 DEF Flow!Commands
  <1>8. Flow!IndexAdd(e).fields = e.fields
    BY <1>4, <1>6 DEF Flow!IndexAdd
  <1> QED
    BY <1>3, <1>6, <1>7, <1>8

\* Last write wins, per flow, in the order of the operations.
LEMMA PipelineOverwrites ==
    ASSUME Flow!FlowAssumption, now \in Nat, NEW store \in Stores, NEW ops \in Seq(Flow!Records), NEW k \in Flow!Pairs
    PROVE  Overwritten(store[k], ops, Flow!Pipeline(store, ops)[k])
  <1>1. PICK st : Runs(st, store, ops)
    BY PipelineRuns
  <1>2. PICK L \in Nat : L = Len(ops) /\ DOMAIN ops = 1..L
    OBVIOUS
  <1>3. \A n \in 0..L : st[n] \in Stores
    BY <1>1, <1>2 DEF Runs
  <1> DEFINE Q == {n \in Nat : n \in 0..L => Upto(store[k], ops, st[n][k], n)}
  <1>4. 0 \in Q
    <2>1. st[0] = store /\ 1..0 = {}
      BY <1>1 DEF Runs
    <2> QED
      BY <2>1 DEF Upto
  <1>5. ASSUME NEW n \in Nat, n \in Q PROVE n + 1 \in Q
    <2>1. SUFFICES ASSUME n + 1 \in 0..L PROVE Upto(store[k], ops, st[n + 1][k], n + 1)
      OBVIOUS
    <2>2. n \in 0..L /\ n + 1 \in 1..L /\ n + 1 - 1 = n
      BY <2>1
    <2>3. PICK rec \in Flow!Records : rec = ops[n + 1]
      BY <1>2, <2>2
    <2>4. PICK old, new : old = st[n][k] /\ new = st[n + 1][k]
      OBVIOUS
    <2>5. Upto(store[k], ops, old, n)
      BY <1>5, <2>2, <2>4
    <2>6. old \in HashType /\ Bounded(old, k) /\ new \in HashType /\ Bounded(new, k)
      BY <1>3, <2>1, <2>2, <2>4 DEF Stores
    <2>7. st[n + 1] = Applied(st[n], rec)
      BY <1>1, <1>2, <2>2, <2>3 DEF Runs
    <2>8. st[n] \in Stores /\ rec.pair \in Flow!Pairs
      BY <1>3, <2>2 DEF Flow!Pairs
    <2>9. ASSUME NEW f \in Flow!Held(new)
          PROVE  \/ rec.flow = f /\ rec.bytes = new.fields[f]
                 \/ rec.flow # f /\ f \in Flow!Held(old) /\ new.fields[f] = old.fields[f]
      <3>1. f \in Flow!FlowsOf(k)
        BY <2>6 DEF Bounded
      <3>2. CASE rec.pair # k
        <4>1. new = old
          BY <2>4, <2>7, <2>8, <3>2 DEF Applied, Stores
        <4>2. rec.flow # f
          BY <3>1, <3>2, FlowOfPair
        <4> QED
          BY <4>1, <4>2
      <3>3. CASE rec.pair = k
        <4>1. new = Flow!Commands(old, rec, 3)
          BY <2>4, <2>7, <2>8, <3>3 DEF Applied, Stores
        <4>2. \/ new.fields = old.fields /\ rec.flow \notin Flow!Held(old)
              \/ new.fields = [old.fields EXCEPT ![rec.flow] = rec.bytes]
          BY <2>6, <4>1, CommandsFields
        <4>3. old.fields \in [Flow!Flows -> Nat \cup {Absent}] /\ f \in Flow!Flows /\ new.fields[f] # Absent
          BY <2>6 DEF HashType, Flow!Held
        <4> QED
          BY <4>2, <4>3 DEF Flow!Held
      <3> QED
        BY <3>2, <3>3
    <2>10. ASSUME NEW f \in Flow!Held(new), rec.flow = f, rec.bytes = new.fields[f]
           PROVE  \E i \in 1..(n + 1) : /\ ops[i].flow = f /\ ops[i].bytes = new.fields[f]
                                        /\ \A j \in (i + 1)..(n + 1) : ops[j].flow # f
      <3>1. n + 1 \in 1..(n + 1) /\ (n + 1 + 1)..(n + 1) = {}
        OBVIOUS
      <3> QED
        BY <2>3, <2>10, <3>1
    <2>11. ASSUME NEW f \in Flow!Held(new), rec.flow # f, f \in Flow!Held(old), new.fields[f] = old.fields[f]
           PROVE  \/ \E i \in 1..(n + 1) : /\ ops[i].flow = f /\ ops[i].bytes = new.fields[f]
                                           /\ \A j \in (i + 1)..(n + 1) : ops[j].flow # f
                  \/ /\ \A i \in 1..(n + 1) : ops[i].flow # f
                     /\ f \in Flow!Held(store[k]) /\ new.fields[f] = store[k].fields[f]
      <3>1. CASE \E i \in 1..n : /\ ops[i].flow = f /\ ops[i].bytes = old.fields[f]
                                 /\ \A j \in (i + 1)..n : ops[j].flow # f
        <4>1. PICK i \in 1..n : /\ ops[i].flow = f /\ ops[i].bytes = old.fields[f]
                                /\ \A j \in (i + 1)..n : ops[j].flow # f
          BY <3>1
        <4>2. i \in 1..(n + 1) /\ \A j \in (i + 1)..(n + 1) : j \in (i + 1)..n \/ j = n + 1
          OBVIOUS
        <4>3. \A j \in (i + 1)..(n + 1) : ops[j].flow # f
          BY <2>3, <2>11, <4>1, <4>2
        <4> QED
          BY <2>11, <4>1, <4>2, <4>3
      <3>2. CASE /\ \A i \in 1..n : ops[i].flow # f
                 /\ f \in Flow!Held(store[k]) /\ old.fields[f] = store[k].fields[f]
        <4>1. \A i \in 1..(n + 1) : i \in 1..n \/ i = n + 1
          OBVIOUS
        <4> QED
          BY <2>3, <2>11, <3>2, <4>1
      <3> QED
        BY <2>5, <2>11, <3>1, <3>2 DEF Upto
    <2> QED
      BY <2>4, <2>9, <2>10, <2>11 DEF Upto
  <1> HIDE DEF Q
  <1>6. Nat \subseteq Q
    BY <1>4, <1>5, Inductive
  <1>7. L \in 0..L
    OBVIOUS
  <1>8. Upto(store[k], ops, st[L][k], L)
    BY <1>6, <1>7 DEF Q
  <1>9. st[L] = Flow!Pipeline(store, ops)
    BY <1>1, <1>2 DEF Runs
  <1>10. PICK h : h = Flow!Pipeline(store, ops)[k]
    OBVIOUS
  <1>11. ASSUME NEW f \in Flow!Held(h)
         PROVE  \/ Says(ops, f) /\ Ends(ops, f, h.fields[f])
                \/ ~Says(ops, f) /\ f \in Flow!Held(store[k]) /\ h.fields[f] = store[k].fields[f]
    <2>1. CASE \E i \in 1..L : /\ ops[i].flow = f /\ ops[i].bytes = h.fields[f]
                               /\ \A j \in (i + 1)..L : ops[j].flow # f
      <3>1. PICK i \in 1..L : /\ ops[i].flow = f /\ ops[i].bytes = h.fields[f]
                              /\ \A j \in (i + 1)..L : ops[j].flow # f
        BY <2>1
      <3>2. \A j \in 1..L : j > i => j \in (i + 1)..L
        OBVIOUS
      <3> QED
        BY <1>2, <3>1, <3>2 DEF Says, Ends
    <2>2. CASE /\ \A i \in 1..L : ops[i].flow # f
               /\ f \in Flow!Held(store[k]) /\ h.fields[f] = store[k].fields[f]
      BY <1>2, <2>2 DEF Says
    <2> QED
      BY <1>8, <1>9, <1>10, <1>11, <2>1, <2>2 DEF Upto
  <1> QED
    BY <1>10, <1>11 DEF Overwritten

\* Putting a sequence without f after or before another.
LEMMA ConcatEnds ==
    ASSUME NEW R, NEW s \in Seq(R), NEW t \in Seq(R), NEW f, NEW v
    PROVE  /\ Says(s, f) \/ Says(t, f) <=> Says(s \o t, f)
           /\ ~Says(t, f) /\ Ends(s \o t, f, v) => Ends(s, f, v)
           /\ ~Says(s, f) /\ Ends(s \o t, f, v) => Ends(t, f, v)
  <1>1. PICK m \in Nat, n \in Nat : m = Len(s) /\ n = Len(t) /\ DOMAIN s = 1..m /\ DOMAIN t = 1..n
    OBVIOUS
  <1>2. PICK c : c = s \o t
    OBVIOUS
  <1>3. /\ DOMAIN c = 1..(m + n)
        /\ \A i \in 1..m : c[i] = s[i]
        /\ \A i \in 1..n : c[m + i] = t[i]
    <2>1. c \in Seq(R) /\ Len(c) = m + n
      BY <1>1, <1>2
    <2>2. DOMAIN c = 1..(m + n)
      BY <1>1, <2>1
    <2>3. ASSUME NEW i \in 1..m PROVE c[i] = s[i]
      BY <1>1, <1>2
    <2>4. ASSUME NEW i \in 1..n PROVE c[m + i] = t[i]
      BY <1>1, <1>2
    <2> QED
      BY <2>2, <2>3, <2>4
  <1>4. /\ \A i \in 1..m : i \in 1..(m + n)
        /\ \A i \in 1..n : m + i \in 1..(m + n)
        /\ \A i \in 1..(m + n) : i \in 1..m \/ (i - m \in 1..n /\ m + (i - m) = i)
    BY <1>1
  <1>5. Says(s, f) \/ Says(t, f) <=> Says(c, f)
    <2>1. Says(s, f) => Says(c, f)
      BY <1>1, <1>3, <1>4 DEF Says
    <2>2. Says(t, f) => Says(c, f)
      BY <1>1, <1>3, <1>4 DEF Says
    <2>3. Says(c, f) => Says(s, f) \/ Says(t, f)
      <3>1. SUFFICES ASSUME NEW i \in 1..(m + n), c[i].flow = f PROVE Says(s, f) \/ Says(t, f)
        BY <1>3 DEF Says
      <3>2. CASE i \in 1..m
        BY <1>1, <1>3, <3>1, <3>2 DEF Says
      <3>3. CASE i - m \in 1..n /\ m + (i - m) = i
        <4>1. c[m + (i - m)] = t[i - m]
          BY <1>3, <3>3
        <4> QED
          BY <1>1, <3>1, <3>3, <4>1 DEF Says
      <3> QED
        BY <1>4, <3>2, <3>3
    <2> QED
      BY <2>1, <2>2, <2>3
  <1>6. ASSUME ~Says(t, f), Ends(c, f, v) PROVE Ends(s, f, v)
    <2>1. PICK i \in 1..(m + n) : c[i].flow = f /\ c[i].bytes = v /\ \A j \in 1..(m + n) : j > i => c[j].flow # f
      BY <1>3, <1>6 DEF Ends
    <2>2. i \in 1..m
      <3>1. ASSUME i - m \in 1..n, m + (i - m) = i PROVE FALSE
        <4>1. c[m + (i - m)] = t[i - m]
          BY <1>3, <3>1
        <4> QED
          BY <1>1, <1>6, <2>1, <3>1, <4>1 DEF Says
      <3> QED
        BY <1>4, <3>1
    <2>3. \A j \in 1..m : j > i => s[j].flow # f
      BY <1>3, <1>4, <2>1
    <2>4. s[i].flow = f /\ s[i].bytes = v
      BY <1>3, <2>1, <2>2
    <2> QED
      BY <1>1, <2>2, <2>3, <2>4 DEF Ends
  <1>7. ASSUME ~Says(s, f), Ends(c, f, v) PROVE Ends(t, f, v)
    <2>1. PICK i \in 1..(m + n) : c[i].flow = f /\ c[i].bytes = v /\ \A j \in 1..(m + n) : j > i => c[j].flow # f
      BY <1>3, <1>7 DEF Ends
    <2>2. i \notin 1..m
      BY <1>1, <1>3, <1>7, <2>1 DEF Says
    <2>3. PICK x \in 1..n : m + x = i
      BY <1>4, <2>2
    <2>4. t[x].flow = f /\ t[x].bytes = v
      BY <1>3, <2>1, <2>3
    <2>5. ASSUME NEW j \in 1..n, j > x PROVE t[j].flow # f
      <3>1. m + j \in 1..(m + n) /\ m + j > i
        BY <1>1, <2>3, <2>5
      <3> QED
        BY <1>3, <2>1, <3>1
    <2> QED
      BY <1>1, <2>3, <2>4, <2>5 DEF Ends
  <1> QED
    BY <1>2, <1>5, <1>6, <1>7

\* Of sequences put end to end of which only the p-th may have f.
LEMMA FlattenEnds ==
    ASSUME NEW R, NEW seqs \in Seq(Seq(R)), NEW f, NEW p \in 1..Len(seqs),
           \A i \in 1..Len(seqs) : i # p => ~Says(seqs[i], f)
    PROVE  /\ Says(seqs[p], f) => Says(Flow!FlattenSeq(seqs), f)
           /\ \A v : Ends(Flow!FlattenSeq(seqs), f, v) => Ends(seqs[p], f, v)
  <1>1. PICK g : Grows(g, seqs, R)
    BY FlattenGrows
  <1>2. PICK L \in Nat : L = Len(seqs)
    OBVIOUS
  <1>3. \A n \in 1..L : g[n] = g[n - 1] \o seqs[n] /\ g[n - 1] \in Seq(R) /\ seqs[n] \in Seq(R)
    <2>1. \A n \in 1..L : n - 1 \in 0..L
      OBVIOUS
    <2>2. /\ g \in [0..L -> Seq(R)]
          /\ \A n \in 1..L : g[n] = g[n - 1] \o seqs[n]
      BY <1>1, <1>2 DEF Grows
    <2>3. \A n \in 1..L : seqs[n] \in Seq(R)
      BY <1>2
    <2>4. \A n \in 1..L : g[n - 1] \in Seq(R)
      BY <2>1, <2>2
    <2> QED
      BY <2>2, <2>3, <2>4
  <1> DEFINE Now(n) == \/ n < p /\ ~Says(g[n], f)
                       \/ /\ n >= p /\ (Says(seqs[p], f) => Says(g[n], f))
                          /\ \A v : Ends(g[n], f, v) => Ends(seqs[p], f, v)
             Q == {n \in Nat : n \in 0..L => Now(n)}
  <1>4. 0 \in Q
    <2>1. g[0] = <<>> /\ 0 < p
      BY <1>1, <1>2 DEF Grows
    <2>2. ~Says(<<>>, f)
      BY DEF Says
    <2> QED
      BY <2>1, <2>2
  <1>5. ASSUME NEW n \in Nat, n \in Q PROVE n + 1 \in Q
    <2>1. SUFFICES ASSUME n + 1 \in 0..L PROVE Now(n + 1)
      OBVIOUS
    <2>2. n \in 0..L /\ n + 1 \in 1..L /\ n + 1 - 1 = n
      BY <2>1
    <2>3. Now(n)
      BY <1>5, <2>2
    <2>4. PICK s, t : s = g[n] /\ t = seqs[n + 1]
      OBVIOUS
    <2>5. s \in Seq(R) /\ t \in Seq(R) /\ g[n + 1] = s \o t
      <3>1. PICK x \in 1..L : x = n + 1 /\ x - 1 = n
        BY <2>2
      <3>2. g[x] = g[x - 1] \o seqs[x] /\ g[x - 1] \in Seq(R) /\ seqs[x] \in Seq(R)
        BY <1>3
      <3> QED
        BY <2>4, <3>1, <3>2
    <2>6. /\ Says(s, f) \/ Says(t, f) <=> Says(s \o t, f)
          /\ \A v : ~Says(t, f) /\ Ends(s \o t, f, v) => Ends(s, f, v)
          /\ \A v : ~Says(s, f) /\ Ends(s \o t, f, v) => Ends(t, f, v)
      BY <2>5, ConcatEnds
    <2> HIDE DEF Q
    <2>7. CASE n + 1 < p
      <3>1. ~Says(t, f) /\ n < p
        BY <1>2, <2>2, <2>4, <2>7
      <3>2. ~Says(s, f)
        BY <1>2, <2>3, <2>4, <3>1
      <3> QED
        BY <2>5, <2>6, <2>7, <3>1, <3>2
    <2>8. CASE n + 1 = p
      <3>1. n < p /\ n + 1 >= p
        BY <2>8
      <3>2. ~Says(s, f) /\ t = seqs[p]
        BY <1>2, <2>3, <2>4, <2>8, <3>1
      <3> QED
        BY <2>5, <2>6, <3>1, <3>2
    <2>9. CASE n + 1 > p
      <3>1. n >= p /\ n + 1 >= p /\ n + 1 # p
        BY <1>2, <2>9
      <3>2. ~Says(t, f)
        BY <1>2, <2>2, <2>4, <3>1
      <3>3. (Says(seqs[p], f) => Says(s, f)) /\ \A v : Ends(s, f, v) => Ends(seqs[p], f, v)
        BY <1>2, <2>3, <2>4, <3>1
      <3> QED
        BY <2>5, <2>6, <3>1, <3>2, <3>3
    <2> QED
      BY <1>2, <2>7, <2>8, <2>9
  <1> HIDE DEF Q
  <1>6. Nat \subseteq Q
    BY <1>4, <1>5, Inductive
  <1>7. Now(L)
    <2>1. L \in Nat /\ L \in 0..L
      OBVIOUS
    <2> QED
      BY <1>6, <2>1 DEF Q
  <1>8. L >= p /\ ~(L < p)
    BY <1>2
  <1>9. g[L] = Flow!FlattenSeq(seqs)
    BY <1>1, <1>2 DEF Grows
  <1> QED
    BY <1>7, <1>8, <1>9

\* A value a flow of partition p had, and has not changed since up to b: the record
\* that says it is the last one of the flow up to b, or is itself after b.
Latest(p, b, f, v) ==
    \E j \in DOMAIN Log[p] : /\ Log[p][j].flow = f /\ Log[p][j].bytes = v
                             /\ \A m \in (j + 1)..b : Log[p][m].flow # f

\* Of the flows of partition p, s has what the records after a up to b say last.
Carries(s, p, a, b) ==
    \A f : Says(Log[p], f) =>
        /\ ~Says(s, f) => \A m \in (a + 1)..b : Log[p][m].flow # f
        /\ \A v : Ends(s, f, v) => \E m \in (a + 1)..b : /\ Log[p][m].flow = f /\ Log[p][m].bytes = v
                                                        /\ \A j \in (m + 1)..b : Log[p][j].flow # f

\* Up to base, the records of the partitions are in the store; what was polled after it
\* is in the owner's buffer.  It is the committed offset at least: that is where
\* whoever gets the partition begins.
Handled(base) ==
    /\ base \in [Flow!Partitions -> Nat]
    /\ \A p \in Flow!Partitions :
          /\ committed[p] <= base[p] /\ base[p] <= position[p] /\ position[p] <= Len(Log[p])
          /\ pc[owner[p]] \in {"poll", "eval", "judge"} => base[p] = position[p]
          /\ pc[owner[p]] = "flush" => Carries(pending[owner[p]], p, base[p], position[p])

Fresh(base) ==
    \A p \in Flow!Partitions, k \in Flow!Pairs \ unsettled : \A f \in Flow!Held(hash[k]) :
        Says(Log[p], f) => Latest(p, base[p], f, hash[k].fields[f])

Buffered ==
    /\ owner \in [Flow!Partitions -> Replicas]
    /\ \A r \in Replicas : pc[r] = "flush" => pending[r] # <<>>

CurrentInv == Buffered /\ \E base : Handled(base) /\ Fresh(base)

-----------------------------------------------------------------------------

\* Records of other flows do not age a value.
LEMMA LatestOn ==
    ASSUME NEW p, NEW a \in Nat, NEW b \in Nat, a <= b, NEW f, NEW v, Latest(p, a, f, v),
           Log[p] \in Seq(Flow!Records), \A m \in (a + 1)..b : Log[p][m].flow # f
    PROVE  Latest(p, b, f, v)
  <1>1. PICK j \in DOMAIN Log[p] : /\ Log[p][j].flow = f /\ Log[p][j].bytes = v
                                   /\ \A m \in (j + 1)..a : Log[p][m].flow # f
    BY DEF Latest
  <1>2. j \in Nat
    <2>1. DOMAIN Log[p] = 1..Len(Log[p]) /\ Len(Log[p]) \in Nat
      OBVIOUS
    <2> QED
      BY <1>1, <2>1
  <1>3. \A m \in (j + 1)..b : m \in (j + 1)..a \/ m \in (a + 1)..b
    BY <1>2
  <1> QED
    BY <1>1, <1>3 DEF Latest

\* A value is as late at an earlier position.
LEMMA LatestBack ==
    ASSUME NEW p, NEW a \in Nat, NEW b \in Nat, a <= b, NEW f, NEW v, Latest(p, b, f, v),
           Log[p] \in Seq(Flow!Records)
    PROVE  Latest(p, a, f, v)
  <1>1. PICK j \in DOMAIN Log[p] : /\ Log[p][j].flow = f /\ Log[p][j].bytes = v
                                   /\ \A m \in (j + 1)..b : Log[p][m].flow # f
    BY DEF Latest
  <1>2. j \in Nat
    <2>1. DOMAIN Log[p] = 1..Len(Log[p]) /\ Len(Log[p]) \in Nat
      OBVIOUS
    <2> QED
      BY <1>1, <2>1
  <1>3. \A m \in (j + 1)..a : m \in (j + 1)..b
    BY <1>2
  <1> QED
    BY <1>1, <1>3 DEF Latest

\* A partition's log is a sequence of records.
LEMMA LogType ==
    ASSUME Flow!FlowAssumption, NEW p \in Flow!Partitions
    PROVE  /\ Log[p] \in Seq(Flow!Records) /\ Len(Log[p]) \in Nat /\ DOMAIN Log[p] = 1..Len(Log[p])
           /\ \A i \in DOMAIN Log[p] : Log[p][i] \in Flow!Range(Log[p]) /\ Log[p][i] \in Flow!Records
  <1>1. PICK log : log = Log[p]
    OBVIOUS
  <1>2. log \in Seq(Flow!Range(log)) /\ Flow!Range(log) \subseteq Flow!Records
    BY <1>1 DEF Flow!FlowAssumption, Flow!Records
  <1>3. log \in Seq(Flow!Records) /\ Len(log) \in Nat /\ DOMAIN log = 1..Len(log)
    BY <1>2
  <1>4. \A i \in DOMAIN log : log[i] \in Flow!Range(log)
    BY DEF Flow!Range
  <1> QED
    BY <1>1, <1>2, <1>3, <1>4

\* A flow is on one partition.
LEMMA OnePartition ==
    ASSUME Flow!FlowAssumption, NEW p \in Flow!Partitions, NEW q \in Flow!Partitions, NEW f,
           Says(Log[p], f), Says(Log[q], f)
    PROVE  p = q
  <1>1. PICK i \in DOMAIN Log[p] : Log[p][i].flow = f
    BY DEF Says
  <1>2. PICK j \in DOMAIN Log[q] : Log[q][j].flow = f
    BY DEF Says
  <1>3. PICK a, b : a = Log[p][i] /\ b = Log[q][j]
    OBVIOUS
  <1>4. a \in Flow!Range(Log[p]) /\ a \in Flow!Records /\ b \in Flow!Range(Log[q]) /\ b \in Flow!Records
    BY <1>1, <1>2, <1>3, LogType
  <1>5. a.pair = b.pair
    BY <1>1, <1>2, <1>3, <1>4 DEF Flow!FlowAssumption
  <1> QED
    BY <1>4, <1>5 DEF Flow!FlowAssumption

\* The partition of a pair is the one that has its flows.
LEMMA PartOfFlow ==
    ASSUME Flow!FlowAssumption, NEW k \in Flow!Pairs, NEW f \in Flow!FlowsOf(k), NEW p \in Flow!Partitions, Says(Log[p], f)
    PROVE  Flow!PartOf(k) = p
  <1>1. PICK i \in DOMAIN Log[p] : Log[p][i].flow = f
    BY DEF Says
  <1>2. PICK a : a = Log[p][i]
    OBVIOUS
  <1>3. a \in Flow!Range(Log[p]) /\ a.pair = k
    BY <1>1, <1>2, LogType, FlowOfPair
  <1>4. PICK q : q = Flow!PartOf(k)
    OBVIOUS
  <1>5. q \in Flow!Partitions /\ k \in {rec.pair : rec \in Flow!Range(Log[q])}
    <2>1. k \in {rec.pair : rec \in Flow!Range(Log[p])}
      BY <1>3
    <2> QED
      BY <1>4, <2>1, Zenon DEF Flow!PartOf
  <1>6. PICK b \in Flow!Range(Log[q]) : b.pair = k
    BY <1>5
  <1>7. q = p
    BY <1>3, <1>5, <1>6 DEF Flow!FlowAssumption
  <1> QED
    BY <1>4, <1>7

\* A replica that has records of a flow buffered has its pair among the pending ones.
LEMMA PendingPair ==
    ASSUME Flow!FlowAssumption, NEW r, pending[r] \in Seq(Flow!Records), NEW k, NEW f \in Flow!FlowsOf(k),
           Says(pending[r], f)
    PROVE  k \in Flow!PendingPairs(r)
  <1>1. PICK s : s = pending[r]
    OBVIOUS
  <1>2. PICK i \in DOMAIN s : s[i].flow = f
    BY <1>1 DEF Says
  <1>3. s[i] \in Flow!Records
    BY <1>1, <1>2
  <1>4. s[i].pair = k
    BY <1>2, <1>3, FlowOfPair
  <1>5. s[i] \in Flow!Range(s)
    BY DEF Flow!Range
  <1> QED
    BY <1>1, <1>4, <1>5 DEF Flow!PendingPairs

\* What a flush, done or failed, does to a pair that is settled after it: it writes what
\* the buffer of the partition's owner says last of a flow, and leaves the others alone.
Written(r) ==
    \A k \in Flow!Pairs \ unsettled' : \A f \in Flow!Held(hash'[k]) :
        /\ k \notin unsettled
        /\ \/ /\ Ends(pending[r], f, hash'[k].fields[f])
              /\ \A p \in Flow!Partitions : Says(Log[p], f) => owner[p] = r
           \/ /\ ~Says(pending[r], f)
              /\ f \in Flow!Held(hash[k]) /\ hash'[k].fields[f] = hash[k].fields[f]

\* A flush writes a settled pair only if the partition is the replica's own.
LEMMA FlushWrites ==
    ASSUME Flow!FlowAssumption, FlowInv, FlowInv', NEW r \in Replicas, Flow!Flush(r)
    PROVE  Written(r)
  <1>1. hash' = Flow!Pipeline(hash, pending[r])
    BY DEF Flow!Flush
  <1>2. now \in Nat /\ hash \in Stores /\ hash' \in Stores /\ pending[r] \in Seq(Flow!Records)
    BY DEF FlowInv
  <1>3. SUFFICES ASSUME NEW k \in Flow!Pairs, k \notin unsettled', NEW f \in Flow!Held(hash'[k])
                 PROVE  /\ k \notin unsettled
                        /\ \/ /\ Ends(pending[r], f, hash'[k].fields[f])
                              /\ \A p \in Flow!Partitions : Says(Log[p], f) => owner[p] = r
                           \/ /\ ~Says(pending[r], f)
                              /\ f \in Flow!Held(hash[k]) /\ hash'[k].fields[f] = hash[k].fields[f]
    BY DEF Written
  <1>4. unsettled' = IF Flow!Zombie(r) THEN unsettled \cup Flow!PendingPairs(r) ELSE unsettled
    BY DEF Flow!Flush
  <1>5. k \notin unsettled
    BY <1>3, <1>4
  <1>6. f \in Flow!FlowsOf(k)
    BY <1>2 DEF Stores, Bounded
  <1>7. \/ Says(pending[r], f) /\ Ends(pending[r], f, hash'[k].fields[f])
        \/ ~Says(pending[r], f) /\ f \in Flow!Held(hash[k]) /\ hash'[k].fields[f] = hash[k].fields[f]
    <2>1. Overwritten(hash[k], pending[r], Flow!Pipeline(hash, pending[r])[k])
      BY <1>2, PipelineOverwrites
    <2>2. PICK h : h = hash'[k]
      OBVIOUS
    <2>3. Overwritten(hash[k], pending[r], h) /\ f \in Flow!Held(h)
      BY <1>1, <2>1, <2>2
    <2> QED
      BY <2>2, <2>3 DEF Overwritten
  <1>8. ASSUME Says(pending[r], f), NEW p \in Flow!Partitions, Says(Log[p], f) PROVE owner[p] = r
    <2>1. k \in Flow!PendingPairs(r)
      BY <1>2, <1>6, <1>8, PendingPair
    <2>2. ~Flow!Zombie(r)
      BY <1>3, <1>4, <2>1
    <2>3. Flow!PartOf(k) = p
      BY <1>6, <1>8, PartOfFlow
    <2> QED
      BY <2>1, <2>2, <2>3 DEF Flow!Zombie
  <1> QED
    BY <1>5, <1>7, <1>8

\* The pairs of a flush that fails are not settled, and no other is written.
LEMMA FlushFailsWrites ==
    ASSUME Flow!FlowAssumption, FlowInv, FlowInv', NEW r \in Replicas, Flow!FlushFails(r)
    PROVE  Written(r)
  <1>1. PICK ops : ops = pending[r]
    OBVIOUS
  <1>2. now \in Nat /\ hash \in Stores /\ hash' \in Stores /\ ops \in Seq(Flow!Records)
    BY <1>1 DEF FlowInv
  <1>3. PICK n \in 0..Len(ops), c \in 0..2 :
          LET done == Flow!Pipeline(hash, SubSeq(ops, 1, n))
              cut == IF n = Len(ops) \/ c = 0 THEN {} ELSE {ops[n + 1].pair}
          IN hash' = [k \in Flow!Pairs |-> IF k \in cut THEN Flow!Commands(done[k], ops[n + 1], c) ELSE done[k]]
    BY <1>1 DEF Flow!FlushFails
  <1>4. SUFFICES ASSUME NEW k \in Flow!Pairs, k \notin unsettled', NEW f \in Flow!Held(hash'[k])
                 PROVE  /\ k \notin unsettled /\ ~Says(pending[r], f)
                        /\ f \in Flow!Held(hash[k]) /\ hash'[k].fields[f] = hash[k].fields[f]
    BY DEF Written
  <1>5. unsettled' = unsettled \cup Flow!PendingPairs(r)
    BY DEF Flow!FlushFails
  <1>6. k \notin unsettled /\ k \notin Flow!PendingPairs(r)
    BY <1>4, <1>5
  <1>7. f \in Flow!FlowsOf(k)
    BY <1>2 DEF Stores, Bounded
  <1>8. ~Says(pending[r], f)
    BY <1>1, <1>2, <1>6, <1>7, PendingPair
  <1>9. PICK first : first = SubSeq(ops, 1, n)
    OBVIOUS
  <1>10. PICK done : done = Flow!Pipeline(hash, first)
    OBVIOUS
  <1>11. hash'[k] = done[k]
    <2>1. CASE n = Len(ops) \/ c = 0
      BY <1>3, <1>9, <1>10, <2>1
    <2>2. CASE n # Len(ops) /\ c # 0
      <3>1. n + 1 \in DOMAIN ops
        BY <1>2, <1>3, <2>2
      <3>2. ops[n + 1].pair \in Flow!PendingPairs(r)
        BY <1>1, <3>1 DEF Flow!PendingPairs, Flow!Range
      <3>3. k # ops[n + 1].pair
        BY <1>6, <3>2
      <3> QED
        BY <1>3, <1>9, <1>10, <2>2, <3>3
    <2> QED
      BY <2>1, <2>2
  <1>12. first \in Seq(Flow!Records) /\ Len(first) = n /\ \A i \in 1..n : first[i] = ops[i]
    BY <1>2, <1>3, <1>9
  <1>13. ~Says(first, f)
    <2>1. DOMAIN first = 1..n /\ \A i \in 1..n : i \in DOMAIN ops
      BY <1>2, <1>3, <1>12
    <2> QED
      BY <1>1, <1>8, <1>12, <2>1 DEF Says
  <1>14. Overwritten(hash[k], first, done[k])
    BY <1>2, <1>10, <1>12, PipelineOverwrites
  <1> QED
    BY <1>6, <1>8, <1>11, <1>13, <1>14 DEF Overwritten

\* A value that the buffer does not renew is as late after its records as before.
LEMMA LatestCarried ==
    ASSUME Flow!FlowAssumption, NEW p \in Flow!Partitions, NEW a \in Nat, NEW b \in Nat, a <= b, NEW s, NEW f, NEW v,
           Carries(s, p, a, b), Says(Log[p], f), ~Says(s, f), Latest(p, a, f, v)
    PROVE  Latest(p, b, f, v)
  <1>1. \A m \in (a + 1)..b : Log[p][m].flow # f
    BY DEF Carries
  <1> QED
    BY <1>1, LogType, LatestOn

\* One that it renews is the last of the records it carries.
LEMMA LatestWritten ==
    ASSUME Flow!FlowAssumption, NEW p \in Flow!Partitions, NEW a \in Nat, NEW b \in Nat, b <= Len(Log[p]), NEW s, NEW f, NEW v,
           Carries(s, p, a, b), Says(Log[p], f), Ends(s, f, v)
    PROVE  Latest(p, b, f, v)
  <1>1. PICK m \in (a + 1)..b : /\ Log[p][m].flow = f /\ Log[p][m].bytes = v
                                /\ \A j \in (m + 1)..b : Log[p][j].flow # f
    BY DEF Carries
  <1>2. m \in DOMAIN Log[p]
    <2>1. DOMAIN Log[p] = 1..Len(Log[p]) /\ Len(Log[p]) \in Nat
      BY LogType
    <2> QED
      BY <2>1
  <1> QED
    BY <1>1, <1>2 DEF Latest

\* A flush, done or failed: what the replica had of its partitions is handled.
LEMMA FlushCurrent ==
    ASSUME Flow!FlowAssumption, FlowInv, CurrentInv, NEW r \in Replicas, pc[r] = "flush", Written(r),
           pc' = [pc EXCEPT ![r] = "poll"], pending' = [pending EXCEPT ![r] = <<>>],
           UNCHANGED <<owner, position, committed>>
    PROVE  CurrentInv'
  <1>1. PICK base : Handled(base) /\ Fresh(base)
    BY DEF CurrentInv
  <1>2. /\ position \in [Flow!Partitions -> Nat] /\ committed \in [Flow!Partitions -> Nat]
        /\ owner \in [Flow!Partitions -> Replicas] /\ base \in [Flow!Partitions -> Nat]
        /\ pc \in [Replicas -> Spots] /\ pending \in [Replicas -> Seq(Flow!Records)]
    BY <1>1 DEF FlowInv, CurrentInv, Buffered, Handled
  <1>3. PICK new : new = [p \in Flow!Partitions |-> IF owner[p] = r THEN position[p] ELSE base[p]]
    OBVIOUS
  <1>4. new \in [Flow!Partitions -> Nat]
    BY <1>2, <1>3
  <1>5. \A q \in Replicas : pc'[q] = IF q = r THEN "poll" ELSE pc[q]
    BY <1>2
  <1>6. \A q \in Replicas : pending'[q] = IF q = r THEN <<>> ELSE pending[q]
    BY <1>2
  <1>7. Buffered'
    <2>1. owner' \in [Flow!Partitions -> Replicas]
      BY <1>2
    <2>2. \A q \in Replicas : pc'[q] = "flush" => pending'[q] # <<>>
      BY <1>5, <1>6 DEF CurrentInv, Buffered
    <2> QED
      BY <2>1, <2>2 DEF Buffered
  <1>8. ASSUME NEW p \in Flow!Partitions
        PROVE  /\ committed[p] <= base[p] /\ base[p] <= position[p] /\ position[p] <= Len(Log[p])
               /\ pc[owner[p]] \in {"poll", "eval", "judge"} => base[p] = position[p]
               /\ pc[owner[p]] = "flush" => Carries(pending[owner[p]], p, base[p], position[p])
               /\ committed[p] \in Nat /\ base[p] \in Nat /\ position[p] \in Nat /\ owner[p] \in Replicas
    BY <1>1, <1>2 DEF Handled
  <1>9. ASSUME NEW p \in Flow!Partitions
        PROVE  /\ committed'[p] <= new[p] /\ new[p] <= position'[p] /\ position'[p] <= Len(Log[p])
               /\ pc'[owner'[p]] \in {"poll", "eval", "judge"} => new[p] = position'[p]
               /\ pc'[owner'[p]] = "flush" => Carries(pending'[owner'[p]], p, new[p], position'[p])
    <2>1. CASE owner[p] = r
      <3>1. new[p] = position[p] /\ pc'[owner'[p]] = "poll"
        BY <1>3, <1>5, <2>1
      <3>2. committed[p] <= position[p]
        BY <1>8
      <3> QED
        BY <1>8, <3>1, <3>2
    <2>2. CASE owner[p] # r
      <3>1. new[p] = base[p] /\ pc'[owner'[p]] = pc[owner[p]] /\ pending'[owner'[p]] = pending[owner[p]]
        BY <1>3, <1>5, <1>6, <1>8, <2>2
      <3> QED
        BY <1>8, <3>1
    <2> QED
      BY <2>1, <2>2
  <1>10. Handled(new)'
    BY <1>4, <1>9 DEF Handled
  <1>11. ASSUME NEW p \in Flow!Partitions, NEW k \in Flow!Pairs, k \notin unsettled', NEW f \in Flow!Held(hash'[k]),
                Says(Log[p], f)
         PROVE  Latest(p, new[p], f, hash'[k].fields[f])
    <2>1. PICK v : v = hash'[k].fields[f]
      OBVIOUS
    <2>2. /\ k \notin unsettled
          /\ \/ Ends(pending[r], f, v) /\ owner[p] = r
             \/ ~Says(pending[r], f) /\ f \in Flow!Held(hash[k]) /\ v = hash[k].fields[f]
      BY <1>11, <2>1 DEF Written
    <2>3. f \in Flow!Held(hash[k]) /\ v = hash[k].fields[f] => Latest(p, base[p], f, v)
      BY <1>1, <1>11, <2>2 DEF Fresh
    <2>4. CASE owner[p] = r
      <3>1. new[p] = position[p] /\ Carries(pending[r], p, base[p], position[p])
        BY <1>3, <1>8, <2>4
      <3>2. CASE Ends(pending[r], f, v)
        BY <1>8, <1>11, <2>1, <3>1, <3>2, LatestWritten
      <3>3. CASE ~Says(pending[r], f) /\ f \in Flow!Held(hash[k]) /\ v = hash[k].fields[f]
        BY <1>8, <1>11, <2>1, <2>3, <3>1, <3>3, LatestCarried
      <3> QED
        BY <2>2, <3>2, <3>3
    <2>5. CASE owner[p] # r
      <3>1. new[p] = base[p]
        BY <1>3, <2>5
      <3> QED
        BY <2>1, <2>2, <2>3, <2>5, <3>1
    <2> QED
      BY <2>4, <2>5
  <1>12. Fresh(new)'
    BY <1>11 DEF Fresh
  <1> QED
    BY <1>7, <1>10, <1>12 DEF CurrentInv

\* Steps that change no field of a settled pair and leave the group alone.
KeepsFields ==
    \A k \in Flow!Pairs \ unsettled' : \A f \in Flow!Held(hash'[k]) :
        k \notin unsettled /\ f \in Flow!Held(hash[k]) /\ hash'[k].fields[f] = hash[k].fields[f]

\* The places a loop is at when it has nothing buffered.
Idle == {"poll", "eval", "judge"}

\* Such a step keeps the fields as late as they were.
LEMMA QuietCurrent ==
    ASSUME FlowInv, CurrentInv, KeepsFields, UNCHANGED <<owner, position, committed, pending>>,
           \A r \in Replicas : pc'[r] = pc[r] \/ (pc[r] \in Idle /\ pc'[r] \in Idle)
    PROVE  CurrentInv'
  <1>1. PICK base : Handled(base) /\ Fresh(base)
    BY DEF CurrentInv
  <1>2. owner \in [Flow!Partitions -> Replicas]
    BY DEF CurrentInv, Buffered
  <1>3. Buffered'
    BY DEF CurrentInv, Buffered, Idle
  <1>4. ASSUME NEW p \in Flow!Partitions
        PROVE  /\ pc'[owner[p]] \in {"poll", "eval", "judge"} => base[p] = position[p]
               /\ pc'[owner[p]] = "flush" => Carries(pending[owner[p]], p, base[p], position[p])
    BY <1>1, <1>2 DEF Handled, Idle
  <1>5. Handled(base)'
    <2>1. base \in [Flow!Partitions -> Nat] /\ \A p \in Flow!Partitions :
              committed[p] <= base[p] /\ base[p] <= position[p] /\ position[p] <= Len(Log[p])
      BY <1>1 DEF Handled
    <2> QED
      BY <1>4, <2>1 DEF Handled
  <1>6. Fresh(base)'
    <2>1. ASSUME NEW p \in Flow!Partitions, NEW k \in Flow!Pairs, k \notin unsettled', NEW f \in Flow!Held(hash'[k]),
                 Says(Log[p], f)
          PROVE  Latest(p, base[p], f, hash'[k].fields[f])
      <3>1. k \notin unsettled /\ f \in Flow!Held(hash[k]) /\ hash'[k].fields[f] = hash[k].fields[f]
        BY <2>1 DEF KeepsFields
      <3> QED
        BY <1>1, <2>1, <3>1 DEF Fresh
    <2> QED
      BY <2>1 DEF Fresh
  <1> QED
    BY <1>3, <1>5, <1>6 DEF CurrentInv

\* A hash that expires has no fields, one that does not keeps them.
LEMMA TickKeeps ==
    ASSUME Flow!FlowAssumption, FlowInv, Flow!Tick
    PROVE  KeepsFields
  <1>1. PICK gone : gone = {k \in Flow!Pairs : hash[k].expires # Absent /\ hash[k].expires <= now + 1}
    OBVIOUS
  <1>2. SUFFICES ASSUME NEW k \in Flow!Pairs, k \notin unsettled', NEW f \in Flow!Held(hash'[k])
                 PROVE  k \notin unsettled /\ f \in Flow!Held(hash[k]) /\ hash'[k].fields[f] = hash[k].fields[f]
    BY DEF KeepsFields
  <1>3. hash[k] \in HashType
    BY DEF FlowInv, Stores
  <1>4. PICK h : h = IF k \in gone THEN [Flow!NoHash EXCEPT !.index = hash[k].index] ELSE hash[k]
    OBVIOUS
  <1>5. hash'[k] = IF h.index # Absent /\ h.index < now + 1 THEN [h EXCEPT !.index = Absent] ELSE h
    BY <1>1, <1>4 DEF Flow!Tick
  <1>6. "fields" \in DOMAIN h
    BY <1>3, <1>4 DEF HashType, Flow!NoHash
  <1>7. hash'[k].fields = h.fields
    BY <1>5, <1>6
  <1>8. f \in Flow!Flows /\ h.fields[f] # Absent
    BY <1>2, <1>7 DEF Flow!Held
  <1>9. k \notin gone
    <2>1. ASSUME k \in gone PROVE FALSE
      <3>1. h = [Flow!NoHash EXCEPT !.index = hash[k].index]
        BY <1>4, <2>1
      <3>2. h.fields = [x \in Flow!Flows |-> Absent]
        BY <3>1 DEF Flow!NoHash
      <3> QED
        BY <1>8, <3>2
    <2> QED
      BY <2>1
  <1>10. h = hash[k]
    BY <1>4, <1>9
  <1>11. unsettled' = unsettled \ gone
    BY <1>1 DEF Flow!Tick
  <1> QED
    BY <1>2, <1>7, <1>8, <1>9, <1>10, <1>11 DEF Flow!Held

\* evaluate() writes no field.
LEMMA JudgeKeeps ==
    ASSUME Flow!FlowAssumption, FlowInv, NEW r \in Replicas, Flow!Judge(r)
    PROVE  KeepsFields
  <1>1. hash' = hash \/ hash' = [hash EXCEPT ![seen[r].pair].index = Absent]
    BY DEF Flow!Judge
  <1>2. unsettled' = unsettled
    BY DEF Flow!Judge, Flow!ghosts
  <1>3. \A k \in Flow!Pairs : hash[k] \in HashType
    BY DEF FlowInv, Stores
  <1>4. hash \in [Flow!Pairs -> HashType]
    BY DEF FlowInv, Stores
  <1>5. ASSUME NEW k \in Flow!Pairs PROVE hash'[k].fields = hash[k].fields
    <2>1. hash'[k] = hash[k] \/ hash'[k] = [hash[k] EXCEPT !.index = Absent]
      BY <1>1, <1>4
    <2> QED
      BY <1>3, <2>1 DEF HashType
  <1> QED
    BY <1>2, <1>5 DEF KeepsFields, Flow!Held

\* A partition begins again at its commit: what was written after it is read again.
LEMMA ResetCurrent ==
    ASSUME Flow!FlowAssumption, FlowInv, CurrentInv, NEW S \in SUBSET Flow!Partitions, NEW r \in Replicas,
           owner' = [p \in Flow!Partitions |-> IF p \in S THEN r ELSE owner[p]],
           position' = [p \in Flow!Partitions |-> IF p \in S THEN committed[p] ELSE position[p]],
           pc'[r] = "poll",
           \A p \in Flow!Partitions \ S : pc'[owner[p]] = pc[owner[p]],
           \A q \in Replicas : pc'[q] = "flush" => pc[q] = "flush",
           UNCHANGED <<committed, pending, hash, unsettled>>
    PROVE  CurrentInv'
  <1>1. PICK base : Handled(base) /\ Fresh(base)
    BY DEF CurrentInv
  <1>2. /\ position \in [Flow!Partitions -> Nat] /\ committed \in [Flow!Partitions -> Nat]
        /\ owner \in [Flow!Partitions -> Replicas] /\ base \in [Flow!Partitions -> Nat]
    BY <1>1 DEF FlowInv, CurrentInv, Buffered, Handled
  <1>3. PICK new : new = [p \in Flow!Partitions |-> IF p \in S THEN committed[p] ELSE base[p]]
    OBVIOUS
  <1>4. new \in [Flow!Partitions -> Nat]
    BY <1>2, <1>3
  <1>5. Buffered'
    <2>1. owner' \in [Flow!Partitions -> Replicas]
      BY <1>2
    <2>2. \A q \in Replicas : pc'[q] = "flush" => pending'[q] # <<>>
      BY DEF CurrentInv, Buffered
    <2> QED
      BY <2>1, <2>2 DEF Buffered
  <1>6. ASSUME NEW p \in Flow!Partitions
        PROVE  /\ committed[p] <= base[p] /\ base[p] <= position[p] /\ position[p] <= Len(Log[p])
               /\ pc[owner[p]] \in {"poll", "eval", "judge"} => base[p] = position[p]
               /\ pc[owner[p]] = "flush" => Carries(pending[owner[p]], p, base[p], position[p])
               /\ committed[p] \in Nat /\ base[p] \in Nat /\ position[p] \in Nat /\ Len(Log[p]) \in Nat
    BY <1>1, <1>2, LogType DEF Handled
  <1>7. ASSUME NEW p \in Flow!Partitions
        PROVE  /\ committed'[p] <= new[p] /\ new[p] <= position'[p] /\ position'[p] <= Len(Log[p])
               /\ pc'[owner'[p]] \in {"poll", "eval", "judge"} => new[p] = position'[p]
               /\ pc'[owner'[p]] = "flush" => Carries(pending'[owner'[p]], p, new[p], position'[p])
    <2>1. CASE p \in S
      <3>1. new[p] = committed[p] /\ position'[p] = committed[p] /\ pc'[owner'[p]] = "poll"
        BY <1>3, <2>1
      <3>2. committed[p] <= Len(Log[p])
        BY <1>6
      <3> QED
        BY <1>6, <3>1, <3>2
    <2>2. CASE p \notin S
      <3>1. new[p] = base[p] /\ position'[p] = position[p] /\ owner'[p] = owner[p] /\ pc'[owner'[p]] = pc[owner[p]]
        BY <1>3, <2>2
      <3> QED
        BY <1>6, <3>1
    <2> QED
      BY <2>1, <2>2
  <1>8. Handled(new)'
    BY <1>4, <1>7 DEF Handled
  <1>9. ASSUME NEW p \in Flow!Partitions, NEW k \in Flow!Pairs, k \notin unsettled, NEW f \in Flow!Held(hash[k]),
               Says(Log[p], f)
        PROVE  Latest(p, new[p], f, hash[k].fields[f])
    <2>1. Latest(p, base[p], f, hash[k].fields[f])
      BY <1>1, <1>9 DEF Fresh
    <2>2. new[p] \in Nat /\ new[p] <= base[p]
      BY <1>3, <1>6
    <2> QED
      BY <1>6, <2>1, <2>2, LogType, LatestBack
  <1>10. Fresh(new)'
    BY <1>9 DEF Fresh
  <1> QED
    BY <1>5, <1>8, <1>10 DEF CurrentInv

\* Whoever gets the partition of an evicted or dead replica begins at the commit.
LEMMA GroupCurrent ==
    ASSUME Flow!FlowAssumption, FlowInv, CurrentInv, NEW p \in Flow!Partitions, NEW r \in Replicas,
           Flow!Evict(p, r) \/ Flow!Takeover(p, r)
    PROVE  CurrentInv'
  <1>1. /\ owner \in [Flow!Partitions -> Replicas] /\ position \in [Flow!Partitions -> Nat]
        /\ pc \in [Replicas -> Spots]
    BY DEF FlowInv, CurrentInv, Buffered
  <1>2. /\ owner' = [owner EXCEPT ![p] = r] /\ position' = [position EXCEPT ![p] = committed[p]]
        /\ pc[r] = "poll" /\ UNCHANGED <<pc, committed, pending, hash, unsettled>>
    <2>1. CASE Flow!Evict(p, r)
      BY <2>1 DEF Flow!Evict, Flow!redisVars, Flow!loopVars, Flow!ghosts
    <2>2. CASE Flow!Takeover(p, r)
      BY <2>2 DEF Flow!Takeover, Flow!redisVars, Flow!loopVars, Flow!ghosts
    <2> QED
      BY <2>1, <2>2
  <1>3. PICK S : S = {p}
    OBVIOUS
  <1>4. S \in SUBSET Flow!Partitions
    BY <1>3
  <1>5. owner' = [q \in Flow!Partitions |-> IF q \in S THEN r ELSE owner[q]]
    BY <1>1, <1>2, <1>3
  <1>6. position' = [q \in Flow!Partitions |-> IF q \in S THEN committed[q] ELSE position[q]]
    BY <1>1, <1>2, <1>3
  <1>7. /\ pc'[r] = "poll" /\ \A q \in Flow!Partitions \ S : pc'[owner[q]] = pc[owner[q]]
        /\ \A q \in Replicas : pc'[q] = "flush" => pc[q] = "flush"
    BY <1>2
  <1>8. UNCHANGED <<committed, pending, hash, unsettled>>
    BY <1>2
  <1> QED
    BY <1>4, <1>5, <1>6, <1>7, <1>8, ResetCurrent

\* So does a replica that restarts, with its own partitions.
LEMMA RestartCurrent ==
    ASSUME Flow!FlowAssumption, FlowInv, CurrentInv, NEW r \in Replicas, Flow!Restart(r)
    PROVE  CurrentInv'
  <1>1. /\ owner \in [Flow!Partitions -> Replicas] /\ position \in [Flow!Partitions -> Nat]
        /\ pc \in [Replicas -> Spots]
    BY DEF FlowInv, CurrentInv, Buffered
  <1>2. /\ owner' = owner /\ pc' = [pc EXCEPT ![r] = "poll"]
        /\ position' = [p \in Flow!Partitions |-> IF owner[p] = r THEN committed[p] ELSE position[p]]
        /\ UNCHANGED <<committed, pending, hash, unsettled>>
    BY DEF Flow!Restart, Flow!Goto, Flow!redisVars, Flow!ghosts
  <1>3. PICK S : S = {p \in Flow!Partitions : owner[p] = r}
    OBVIOUS
  <1>4. S \in SUBSET Flow!Partitions
    BY <1>3
  <1>5. owner' = [q \in Flow!Partitions |-> IF q \in S THEN r ELSE owner[q]]
    BY <1>1, <1>2, <1>3
  <1>6. position' = [q \in Flow!Partitions |-> IF q \in S THEN committed[q] ELSE position[q]]
    BY <1>1, <1>2, <1>3
  <1>7. /\ pc'[r] = "poll" /\ \A p \in Flow!Partitions \ S : pc'[owner[p]] = pc[owner[p]]
        /\ \A q \in Replicas : pc'[q] = "flush" => pc[q] = "flush"
    BY <1>1, <1>2, <1>3
  <1> QED
    BY <1>2, <1>4, <1>5, <1>6, <1>7, ResetCurrent

\* An orderly rebalance hands on a partition of which nothing is buffered.
LEMMA RebalanceCurrent ==
    ASSUME Flow!FlowAssumption, FlowInv, CurrentInv, NEW p \in Flow!Partitions, NEW r \in Replicas, Flow!Rebalance(p, r)
    PROVE  CurrentInv'
  <1>1. PICK base : Handled(base) /\ Fresh(base)
    BY DEF CurrentInv
  <1>2. /\ owner \in [Flow!Partitions -> Replicas] /\ committed \in [Flow!Partitions -> Nat]
        /\ position \in [Flow!Partitions -> Nat] /\ base \in [Flow!Partitions -> Nat]
    BY <1>1 DEF FlowInv, CurrentInv, Buffered, Handled
  <1>3. /\ owner' = [owner EXCEPT ![p] = r] /\ committed' = [committed EXCEPT ![p] = position[p]]
        /\ pc[r] = "poll" /\ pc[owner[p]] = "poll" /\ UNCHANGED <<pc, position, pending, hash, unsettled>>
    BY DEF Flow!Rebalance, Flow!redisVars, Flow!loopVars, Flow!ghosts
  <1>4. base[p] = position[p]
    BY <1>1, <1>3 DEF Handled
  <1>5. Buffered'
    BY <1>2, <1>3 DEF CurrentInv, Buffered
  <1>6. ASSUME NEW q \in Flow!Partitions
        PROVE  /\ committed'[q] <= base[q] /\ base[q] <= position'[q] /\ position'[q] <= Len(Log[q])
               /\ pc'[owner'[q]] \in {"poll", "eval", "judge"} => base[q] = position'[q]
               /\ pc'[owner'[q]] = "flush" => Carries(pending'[owner'[q]], q, base[q], position'[q])
    <2>1. /\ committed[q] <= base[q] /\ base[q] <= position[q] /\ position[q] <= Len(Log[q])
          /\ pc[owner[q]] \in {"poll", "eval", "judge"} => base[q] = position[q]
          /\ pc[owner[q]] = "flush" => Carries(pending[owner[q]], q, base[q], position[q])
          /\ position[q] \in Nat
      BY <1>1, <1>2 DEF Handled
    <2>2. CASE q = p
      <3>1. committed'[q] = position[q] /\ owner'[q] = r
        BY <1>2, <1>3, <2>2
      <3> QED
        BY <1>3, <1>4, <2>1, <2>2, <3>1
    <2>3. CASE q # p
      <3>1. committed'[q] = committed[q] /\ owner'[q] = owner[q]
        BY <1>2, <1>3, <2>3
      <3> QED
        BY <1>3, <2>1, <3>1
    <2> QED
      BY <2>2, <2>3
  <1>7. Handled(base)'
    BY <1>2, <1>6 DEF Handled
  <1>8. Fresh(base)'
    BY <1>1, <1>3 DEF Fresh
  <1> QED
    BY <1>5, <1>7, <1>8 DEF CurrentInv

\* A crash loses the buffer, and what was read is past the commit.
LEMMA CrashCurrent ==
    ASSUME Flow!FlowAssumption, FlowInv, CurrentInv, NEW r \in Replicas, Flow!Crash(r)
    PROVE  CurrentInv'
  <1>1. PICK base : Handled(base) /\ Fresh(base)
    BY DEF CurrentInv
  <1>2. /\ owner \in [Flow!Partitions -> Replicas] /\ pc \in [Replicas -> Spots]
        /\ pending \in [Replicas -> Seq(Flow!Records)]
    BY DEF FlowInv, CurrentInv, Buffered
  <1>3. /\ pc' = [pc EXCEPT ![r] = "down"] /\ pending' = [pending EXCEPT ![r] = <<>>]
        /\ UNCHANGED <<owner, position, committed, hash, unsettled>>
    BY DEF Flow!Crash, Flow!Goto, Flow!redisVars
  <1>4. \A q \in Replicas : /\ pc'[q] = IF q = r THEN "down" ELSE pc[q]
                            /\ pending'[q] = IF q = r THEN <<>> ELSE pending[q]
    BY <1>2, <1>3
  <1>5. Buffered'
    BY <1>3, <1>4 DEF CurrentInv, Buffered
  <1>6. Handled(base)'
    <2>1. ASSUME NEW q \in Flow!Partitions
          PROVE  /\ pc'[owner[q]] \in {"poll", "eval", "judge"} => base[q] = position[q]
                 /\ pc'[owner[q]] = "flush" => Carries(pending'[owner[q]], q, base[q], position[q])
      <3>1. owner[q] \in Replicas
        BY <1>2
      <3>2. CASE owner[q] = r
        BY <1>4, <3>1, <3>2
      <3>3. CASE owner[q] # r
        BY <1>1, <1>4, <3>1, <3>3 DEF Handled
      <3> QED
        BY <3>2, <3>3
    <2>2. base \in [Flow!Partitions -> Nat] /\ \A q \in Flow!Partitions :
              committed[q] <= base[q] /\ base[q] <= position[q] /\ position[q] <= Len(Log[q])
      BY <1>1 DEF Handled
    <2> QED
      BY <1>3, <2>1, <2>2 DEF Handled
  <1>7. Fresh(base)'
    BY <1>1, <1>3 DEF Fresh
  <1> QED
    BY <1>5, <1>6, <1>7 DEF CurrentInv

\* SetToSeq gives every element of a finite set one place.
LEMMA OrderPlaces ==
    ASSUME NEW S, IsFiniteSet(S), NEW p \in S
    PROVE  LET order == Flow!SetToSeq(S)
           IN \E i \in 1..Len(order) : order[i] = p /\ \A j \in 1..Len(order) : j # i => order[j] # p
  <1>1. Cardinality(S) \in Nat /\ ExistsBijection(1..Cardinality(S), S)
    BY FS_CardinalityType
  <1>2. Flow!Cardinality(S) = Cardinality(S)
    BY DEF Flow!Cardinality, Cardinality
  <1>3. PICK n \in Nat : n = Cardinality(S)
    BY <1>1
  <1>4. PICK b : b \in Bijection(1..n, S)
    BY <1>1, <1>3 DEF ExistsBijection
  <1>5. b \in [1..n -> S] /\ Flow!IsInjective(b)
    BY <1>4 DEF Bijection, Injection, IsInjective, Flow!IsInjective
  <1>6. PICK q : q = Flow!SetToSeq(S)
    OBVIOUS
  <1>7. q = CHOOSE f \in [1..n -> S] : Flow!IsInjective(f)
    BY <1>2, <1>3, <1>6 DEF Flow!SetToSeq
  <1>8. q \in [1..n -> S] /\ Flow!IsInjective(q)
    BY <1>5, <1>7, Zenon
  <1>9. q \in Injection(1..n, S)
    BY <1>8 DEF Injection, IsInjective, Flow!IsInjective
  <1>10. Cardinality(1..n) = Cardinality(S)
    BY <1>3, FS_Interval
  <1>11. q \in Surjection(1..n, S)
    BY <1>9, <1>10, FS_Injection
  <1>12. PICK i \in 1..n : q[i] = p
    BY <1>11 DEF Surjection
  <1>13. \A j \in 1..n : j # i => q[j] # p
    BY <1>8, <1>12 DEF Flow!IsInjective
  <1>14. Len(q) = n
    BY <1>8
  <1> QED
    BY <1>6, <1>12, <1>13, <1>14

\* A slice of a partition's log carries its records.
LEMMA SliceEnds ==
    ASSUME Flow!FlowAssumption, NEW p \in Flow!Partitions, NEW a \in Nat, NEW b \in Nat, a <= b, b <= Len(Log[p]),
           NEW s, s = SubSeq(Log[p], a + 1, b)
    PROVE  Carries(s, p, a, b) /\ \A f : Says(s, f) => Says(Log[p], f)
  <1>1. PICK log : log = Log[p]
    OBVIOUS
  <1>2. log \in Seq(Flow!Records) /\ DOMAIN log = 1..Len(log) /\ Len(log) \in Nat /\ b <= Len(log)
    BY <1>1, LogType
  <1>3. s = SubSeq(log, a + 1, b)
    BY <1>1
  <1>4. s \in Seq(Flow!Records) /\ Len(s) = b - a
    BY <1>2, <1>3
  <1>5. DOMAIN s = 1..(b - a)
    BY <1>4
  <1>6. \A i \in 1..(b - a) : s[i] = log[a + i] /\ a + i \in (a + 1)..b
    <2>1. PICK x \in Nat : x = a + 1 /\ x >= 1
      OBVIOUS
    <2>2. ASSUME NEW i \in 1..(b - a) PROVE s[i] = log[a + i] /\ a + i \in (a + 1)..b
      <3>1. i \in 1..(b - x + 1) /\ x + i - 1 = a + i /\ a + i \in (a + 1)..b
        BY <2>1
      <3>2. SubSeq(log, x, b)[i] = log[x + i - 1]
        BY <1>2, <2>1, <3>1
      <3> QED
        BY <1>3, <2>1, <3>1, <3>2
    <2> QED
      BY <2>2
  <1>7. \A m \in (a + 1)..b : m - a \in 1..(b - a) /\ a + (m - a) = m /\ m \in 1..Len(log)
    BY <1>2
  <1>8. \A m \in (a + 1)..b : log[m] = s[m - a] /\ m - a \in DOMAIN s
    BY <1>5, <1>6, <1>7
  <1>9. ASSUME NEW f, ~Says(s, f) PROVE \A m \in (a + 1)..b : log[m].flow # f
    BY <1>8, <1>9 DEF Says
  <1>10. ASSUME NEW f, NEW v, Ends(s, f, v)
         PROVE  \E m \in (a + 1)..b : /\ log[m].flow = f /\ log[m].bytes = v
                                      /\ \A j \in (m + 1)..b : log[j].flow # f
    <2>1. PICK i \in 1..(b - a) : s[i].flow = f /\ s[i].bytes = v /\ \A j \in 1..(b - a) : j > i => s[j].flow # f
      BY <1>5, <1>10 DEF Ends
    <2>2. PICK m \in (a + 1)..b : m = a + i /\ log[m] = s[i]
      BY <1>6, <2>1
    <2>3. ASSUME NEW j \in (m + 1)..b PROVE log[j].flow # f
      <3>0. i \in Nat /\ m = a + i /\ i >= 1 /\ j \in Nat /\ j >= m + 1 /\ j <= b
        BY <2>2
      <3>1. j \in (a + 1)..b /\ j - a \in 1..(b - a) /\ j - a > i
        BY <3>0
      <3> QED
        BY <1>8, <2>1, <3>1
    <2> QED
      BY <2>1, <2>2, <2>3
  <1>11. ASSUME NEW f, Says(s, f) PROVE Says(log, f)
    <2>1. PICK i \in 1..(b - a) : s[i].flow = f
      BY <1>5, <1>11 DEF Says
    <2>2. PICK m \in (a + 1)..b : log[m] = s[i]
      BY <1>6, <2>1
    <2>3. m \in DOMAIN log
      BY <1>2, <1>7
    <2> QED
      BY <2>1, <2>2, <2>3 DEF Says
  <1>12. Carries(s, p, a, b)
    BY <1>1, <1>9, <1>10 DEF Carries
  <1> QED
    BY <1>1, <1>11, <1>12

\* What a poll buffers carries what it read of each partition.
LEMMA PollCarries ==
    ASSUME Flow!FlowAssumption, FlowInv, NEW r \in Replicas, Flow!Poll(r), NEW p \in Flow!Partitions, owner[p] = r
    PROVE  Carries(pending'[r], p, position[p], position'[p])
  <1>1. PICK n \in [Flow!Partitions -> 0..MaxPoll], elapsed \in BOOLEAN :
          LET owned == {q \in Flow!Partitions : owner[q] = r}
              got(q) == SubSeq(Log[q], position[q] + 1, position[q] + n[q])
              order == Flow!SetToSeq(owned)
          IN /\ \A q \in Flow!Partitions : position[q] + n[q] <= Len(Log[q])
             /\ pending' = [pending EXCEPT ![r] = Flow!FlattenSeq([i \in DOMAIN order |-> got(order[i])])]
             /\ position' = [q \in Flow!Partitions |-> position[q] + n[q]]
    BY DEF Flow!Poll
  <1>2. PICK owned : owned = {q \in Flow!Partitions : owner[q] = r}
    OBVIOUS
  <1>3. PICK order : order = Flow!SetToSeq(owned)
    OBVIOUS
  <1>4. PICK seqs : seqs = [i \in DOMAIN order |-> SubSeq(Log[order[i]], position[order[i]] + 1, position[order[i]] + n[order[i]])]
    OBVIOUS
  <1>5. IsFiniteSet(owned) /\ p \in owned
    <2>1. IsFiniteSet(Flow!Partitions)
      BY DEF Flow!FlowAssumption, Flow!IsFiniteSet, IsFiniteSet
    <2> QED
      BY <1>2, <2>1, FS_Subset
  <1>6. order \in Seq(owned)
    BY <1>3, <1>5, OrderType
  <1>7. PICK L \in Nat : L = Len(order) /\ DOMAIN order = 1..L
    BY <1>6
  <1>8. PICK i \in 1..L : order[i] = p /\ \A j \in 1..L : j # i => order[j] # p
    BY <1>3, <1>5, <1>7, OrderPlaces
  <1>9. \A j \in 1..L : order[j] \in Flow!Partitions
    BY <1>2, <1>6, <1>7
  <1>10. MaxPoll \in Nat
    BY DEF Flow!FlowAssumption
  <1>11. \A q \in Flow!Partitions : /\ position[q] \in Nat /\ position[q] + n[q] \in Nat
                                    /\ position[q] <= position[q] + n[q] /\ position[q] + n[q] <= Len(Log[q])
    BY <1>1, <1>10 DEF FlowInv
  <1>12. \A j \in 1..L : seqs[j] = SubSeq(Log[order[j]], position[order[j]] + 1, position[order[j]] + n[order[j]])
    BY <1>4, <1>7
  <1>13. ASSUME NEW q \in Flow!Partitions
         PROVE  SubSeq(Log[q], position[q] + 1, position[q] + n[q]) \in Seq(Flow!Records)
    <2>1. PICK log, a, b : log = Log[q] /\ a = position[q] + 1 /\ b = position[q] + n[q]
      OBVIOUS
    <2>2. log \in Seq(Flow!Records)
      BY <2>1, LogType
    <2>3. a \in Nat /\ b \in Nat /\ a >= 1 /\ b <= Len(log)
      BY <1>11, <2>1
    <2>4. SubSeq(log, a, b) \in Seq(Flow!Records)
      BY <2>2, <2>3
    <2> QED
      BY <2>1, <2>4
  <1>14. seqs \in Seq(Seq(Flow!Records)) /\ Len(seqs) = L
    <2>1. \A j \in 1..L : seqs[j] \in Seq(Flow!Records)
      BY <1>9, <1>12, <1>13
    <2>2. seqs \in [1..L -> Seq(Flow!Records)]
      BY <1>4, <1>7, <2>1
    <2> QED
      BY <2>2
  <1>15. pending'[r] = Flow!FlattenSeq(seqs)
    <2>1. pending' = [pending EXCEPT ![r] = Flow!FlattenSeq(seqs)]
      BY <1>1, <1>2, <1>3, <1>4
    <2>2. pending \in [Replicas -> Seq(Flow!Records)]
      BY DEF FlowInv
    <2> QED
      BY <2>1, <2>2
  <1>16. PICK a, b : a = position[p] /\ b = position'[p]
    OBVIOUS
  <1>17. a \in Nat /\ b \in Nat /\ a <= b /\ b <= Len(Log[p]) /\ seqs[i] = SubSeq(Log[p], a + 1, b)
    <2>1. b = position[p] + n[p]
      BY <1>1, <1>16
    <2> QED
      BY <1>8, <1>11, <1>12, <1>16, <2>1
  <1>18. ASSUME NEW f, Says(Log[p], f)
         PROVE  /\ Says(seqs[i], f) => Says(Flow!FlattenSeq(seqs), f)
                /\ \A v : Ends(Flow!FlattenSeq(seqs), f, v) => Ends(seqs[i], f, v)
    <2>1. ASSUME NEW j \in 1..L, j # i PROVE ~Says(seqs[j], f)
      <3>1. PICK q \in Flow!Partitions : q = order[j] /\ q # p
        BY <1>8, <1>9, <2>1
      <3>2. ~Says(Log[q], f)
        BY <1>18, <3>1, OnePartition
      <3>3. PICK x \in Nat, y \in Nat : x = position[q] /\ y = position[q] + n[q] /\ x <= y /\ y <= Len(Log[q])
        BY <1>11
      <3>4. seqs[j] = SubSeq(Log[q], x + 1, y)
        BY <1>12, <3>1, <3>3
      <3>5. Says(seqs[j], f) => Says(Log[q], f)
        BY <3>3, <3>4, SliceEnds
      <3> QED
        BY <3>2, <3>5
    <2> QED
      BY <1>14, <2>1, FlattenEnds
  <1>19. Carries(Flow!FlattenSeq(seqs), p, a, b)
    <2>1. SUFFICES ASSUME NEW f, Says(Log[p], f)
                   PROVE  /\ ~Says(Flow!FlattenSeq(seqs), f) => \A m \in (a + 1)..b : Log[p][m].flow # f
                          /\ \A v : Ends(Flow!FlattenSeq(seqs), f, v) =>
                                \E m \in (a + 1)..b : /\ Log[p][m].flow = f /\ Log[p][m].bytes = v
                                                      /\ \A j \in (m + 1)..b : Log[p][j].flow # f
      BY DEF Carries
    <2>0. Carries(seqs[i], p, a, b)
      BY <1>17, SliceEnds
    <2>2. /\ ~Says(seqs[i], f) => \A m \in (a + 1)..b : Log[p][m].flow # f
          /\ \A v : Ends(seqs[i], f, v) =>
                \E m \in (a + 1)..b : /\ Log[p][m].flow = f /\ Log[p][m].bytes = v
                                      /\ \A j \in (m + 1)..b : Log[p][j].flow # f
      BY <2>0, <2>1 DEF Carries
    <2> QED
      BY <1>18, <2>1, <2>2
  <1> QED
    BY <1>15, <1>16, <1>19

\* A poll moves the position and leaves what is handled where it was.
LEMMA PollCurrent ==
    ASSUME Flow!FlowAssumption, FlowInv, CurrentInv, NEW r \in Replicas, Flow!Poll(r)
    PROVE  CurrentInv'
  <1>1. PICK base : Handled(base) /\ Fresh(base)
    BY DEF CurrentInv
  <1>2. /\ owner \in [Flow!Partitions -> Replicas] /\ pc \in [Replicas -> Spots]
        /\ pending \in [Replicas -> Seq(Flow!Records)] /\ base \in [Flow!Partitions -> Nat]
        /\ position \in [Flow!Partitions -> Nat] /\ committed \in [Flow!Partitions -> Nat]
    BY <1>1 DEF FlowInv, CurrentInv, Buffered, Handled
  <1>3. PICK s : s = pending'[r]
    OBVIOUS
  <1>4. /\ pc[r] = "poll" /\ pc' = [pc EXCEPT ![r] = IF s = <<>> THEN "poll" ELSE "flush"]
        /\ UNCHANGED <<owner, hash, unsettled>>
    BY <1>3 DEF Flow!Poll, Flow!Goto, Flow!redisVars, Flow!ghosts
  <1>5. \A q \in Replicas : q # r => pc'[q] = pc[q] /\ pending'[q] = pending[q]
    <2>1. \E t : pending' = [pending EXCEPT ![r] = t]
      BY DEF Flow!Poll
    <2> QED
      BY <1>2, <1>4, <2>1
  <1>6. pc'[r] = IF s = <<>> THEN "poll" ELSE "flush"
    BY <1>2, <1>4
  <1>7. Buffered'
    <2>1. ASSUME NEW q \in Replicas, pc'[q] = "flush" PROVE pending'[q] # <<>>
      <3>1. CASE q = r
        BY <1>3, <1>6, <2>1, <3>1
      <3>2. CASE q # r
        BY <1>5, <2>1, <3>2 DEF CurrentInv, Buffered
      <3> QED
        BY <3>1, <3>2
    <2> QED
      BY <1>2, <1>4, <2>1 DEF Buffered
  <1>8. ASSUME NEW p \in Flow!Partitions
        PROVE  /\ position'[p] \in Nat /\ position[p] <= position'[p] /\ position'[p] <= Len(Log[p])
               /\ owner[p] # r => position'[p] = position[p] /\ committed'[p] = committed[p]
               /\ owner[p] = r => committed'[p] \in {position[p], committed[p]}
    <2>1. PICK n \in [Flow!Partitions -> 0..MaxPoll], elapsed \in BOOLEAN :
            LET owned == {q \in Flow!Partitions : owner[q] = r}
            IN /\ \A q \in Flow!Partitions : position[q] + n[q] <= Len(Log[q])
               /\ \A q \in Flow!Partitions \ owned : n[q] = 0
               /\ position' = [q \in Flow!Partitions |-> position[q] + n[q]]
               /\ committed' = [q \in Flow!Partitions |->
                     IF q \in owned THEN Flow!AutoCommit(q, n[q], elapsed) ELSE committed[q]]
      BY DEF Flow!Poll
    <2>2. MaxPoll \in Nat
      BY DEF Flow!FlowAssumption
    <2>3. n[p] \in Nat /\ position[p] \in Nat
      BY <1>2, <2>1, <2>2
    <2>4. position'[p] = position[p] + n[p] /\ position[p] + n[p] <= Len(Log[p]) /\ (owner[p] # r => n[p] = 0)
      BY <2>1
    <2>5. committed'[p] = IF owner[p] = r THEN Flow!AutoCommit(p, n[p], elapsed) ELSE committed[p]
      BY <2>1
    <2>6. Flow!AutoCommit(p, n[p], elapsed) \in {position[p], committed[p]}
      BY DEF Flow!AutoCommit
    <2> QED
      BY <2>3, <2>4, <2>5, <2>6
  <1>9. PICK new : new = [p \in Flow!Partitions |-> IF owner[p] = r /\ s = <<>> THEN position'[p] ELSE base[p]]
    OBVIOUS
  <1>10. new \in [Flow!Partitions -> Nat]
    BY <1>2, <1>8, <1>9
  <1>11. ASSUME NEW p \in Flow!Partitions
         PROVE  /\ committed[p] <= base[p] /\ base[p] <= position[p] /\ position[p] <= Len(Log[p])
                /\ pc[owner[p]] \in {"poll", "eval", "judge"} => base[p] = position[p]
                /\ pc[owner[p]] = "flush" => Carries(pending[owner[p]], p, base[p], position[p])
                /\ committed[p] \in Nat /\ base[p] \in Nat /\ position[p] \in Nat /\ owner[p] \in Replicas
    BY <1>1, <1>2 DEF Handled
  <1>12. ASSUME NEW p \in Flow!Partitions, owner[p] = r
         PROVE  base[p] = position[p] /\ Carries(s, p, base[p], position'[p])
    BY <1>3, <1>4, <1>11, <1>12, PollCarries
  <1>13. ASSUME NEW p \in Flow!Partitions
         PROVE  /\ committed'[p] <= new[p] /\ new[p] <= position'[p] /\ position'[p] <= Len(Log[p])
                /\ pc'[owner'[p]] \in {"poll", "eval", "judge"} => new[p] = position'[p]
                /\ pc'[owner'[p]] = "flush" => Carries(pending'[owner'[p]], p, new[p], position'[p])
    <2>1. CASE owner[p] = r /\ s = <<>>
      <3>1. new[p] = position'[p] /\ pc'[owner'[p]] = "poll"
        BY <1>4, <1>6, <1>9, <2>1
      <3>2. committed'[p] <= position[p]
        BY <1>8, <1>11, <2>1
      <3>3. committed'[p] <= position'[p]
        <4>1. committed'[p] \in Nat
          BY <1>8, <1>11, <2>1
        <4> QED
          BY <1>8, <1>11, <3>2, <4>1
      <3> QED
        BY <1>8, <3>1, <3>3
    <2>2. CASE owner[p] = r /\ s # <<>>
      <3>1. new[p] = base[p] /\ pc'[owner'[p]] = "flush" /\ pending'[owner'[p]] = s
        BY <1>3, <1>4, <1>6, <1>9, <2>2
      <3>2. base[p] = position[p] /\ Carries(s, p, base[p], position'[p])
        BY <1>12, <2>2
      <3>3. committed'[p] <= base[p]
        BY <1>8, <1>11, <2>2, <3>2
      <3>4. base[p] <= position'[p] /\ position'[p] <= Len(Log[p])
        BY <1>8, <3>2
      <3> QED
        BY <3>1, <3>2, <3>3, <3>4
    <2>3. CASE owner[p] # r
      <3>1. /\ new[p] = base[p] /\ pc'[owner'[p]] = pc[owner[p]] /\ pending'[owner'[p]] = pending[owner[p]]
            /\ position'[p] = position[p] /\ committed'[p] = committed[p]
        BY <1>4, <1>5, <1>8, <1>9, <1>11, <2>3
      <3> QED
        BY <1>11, <3>1
    <2> QED
      BY <2>1, <2>2, <2>3
  <1>14. Handled(new)'
    BY <1>10, <1>13 DEF Handled
  <1>15. ASSUME NEW p \in Flow!Partitions, NEW k \in Flow!Pairs, k \notin unsettled, NEW f \in Flow!Held(hash[k]),
                Says(Log[p], f)
         PROVE  Latest(p, new[p], f, hash[k].fields[f])
    <2>1. PICK v : v = hash[k].fields[f]
      OBVIOUS
    <2>2. Latest(p, base[p], f, v)
      BY <1>1, <1>15, <2>1 DEF Fresh
    <2>3. CASE owner[p] = r /\ s = <<>>
      <3>1. new[p] = position'[p] /\ ~Says(s, f)
        BY <1>9, <2>3 DEF Says
      <3>2. base[p] = position[p] /\ Carries(s, p, base[p], position'[p])
        BY <1>12, <2>3
      <3>3. base[p] \in Nat /\ position'[p] \in Nat /\ base[p] <= position'[p]
        BY <1>8, <1>11, <3>2
      <3> QED
        BY <1>15, <2>1, <2>2, <3>1, <3>2, <3>3, LatestCarried
    <2>4. CASE ~(owner[p] = r /\ s = <<>>)
      BY <1>9, <2>1, <2>2, <2>4
    <2> QED
      BY <2>3, <2>4
  <1>16. Fresh(new)'
    BY <1>4, <1>15 DEF Fresh
  <1> QED
    BY <1>7, <1>14, <1>16 DEF CurrentInv

\* No step leaves a settled field behind its flow.
LEMMA CurrentNext ==
    ASSUME Flow!FlowAssumption, FlowInv, FlowInv', CurrentInv, Flow!Next
    PROVE  CurrentInv'
  <1>0. pc \in [Replicas -> Spots]
    BY DEF FlowInv
  <1>1. CASE Flow!Tick
    <2>1. UNCHANGED <<owner, position, committed, pending, pc>>
      BY <1>1 DEF Flow!Tick, Flow!groupVars, Flow!loopVars
    <2> QED
      BY <1>1, <2>1, TickKeeps, QuietCurrent
  <1>2. ASSUME NEW r \in Replicas, Flow!Judge(r) PROVE CurrentInv'
    <2>1. /\ UNCHANGED <<owner, position, committed, pending>>
          /\ pc[r] = "judge" /\ pc' = [pc EXCEPT ![r] = "eval"]
      BY <1>2 DEF Flow!Judge, Flow!Goto, Flow!groupVars
    <2>2. \A q \in Replicas : pc'[q] = pc[q] \/ (pc[q] \in Idle /\ pc'[q] \in Idle)
      BY <1>0, <2>1 DEF Idle
    <2> QED
      BY <1>2, <2>1, <2>2, JudgeKeeps, QuietCurrent
  <1>3. ASSUME NEW r \in Replicas,
               Flow!EvalBegin(r) \/ Flow!ReadKey(r) \/ Flow!EvalEnd(r) \/ Flow!EvalFails(r) \/ Flow!Deliver(r)
        PROVE  CurrentInv'
    <2>1. UNCHANGED <<owner, position, committed, pending, hash, unsettled>>
      BY <1>3 DEF Flow!EvalBegin, Flow!ReadKey, Flow!EvalEnd, Flow!EvalFails, Flow!Deliver, Flow!groupVars, Flow!redisVars,
                  Flow!ghosts
    <2>2. pc' = pc \/ (pc[r] \in Idle /\ \E l \in Idle : pc' = [pc EXCEPT ![r] = l])
      BY <1>3 DEF Flow!EvalBegin, Flow!ReadKey, Flow!EvalEnd, Flow!EvalFails, Flow!Deliver, Flow!Goto, Idle
    <2>3. \A q \in Replicas : pc'[q] = pc[q] \/ (pc[q] \in Idle /\ pc'[q] \in Idle)
      BY <1>0, <2>2
    <2>4. KeepsFields
      BY <2>1 DEF KeepsFields
    <2> QED
      BY <2>1, <2>3, <2>4, QuietCurrent
  <1>4. ASSUME NEW r \in Replicas, Flow!Flush(r) \/ Flow!FlushFails(r) PROVE CurrentInv'
    <2>1. /\ pc[r] = "flush" /\ pc' = [pc EXCEPT ![r] = "poll"] /\ pending' = [pending EXCEPT ![r] = <<>>]
          /\ UNCHANGED <<owner, position, committed>>
      BY <1>4 DEF Flow!Flush, Flow!FlushFails, Flow!Goto, Flow!groupVars
    <2>2. Written(r)
      BY <1>4, FlushWrites, FlushFailsWrites
    <2> QED
      BY <2>1, <2>2, FlushCurrent
  <1>5. CASE \E r \in Replicas : Flow!Loop(r) \/ Flow!FlushFails(r) \/ Flow!EvalFails(r) \/ Flow!Deliver(r)
                                 \/ Flow!Crash(r) \/ Flow!Restart(r)
    BY <1>2, <1>3, <1>4, <1>5, PollCurrent, CrashCurrent, RestartCurrent DEF Flow!Loop
  <1>6. CASE \E p \in Flow!Partitions, r \in Replicas : Flow!Rebalance(p, r) \/ Flow!Evict(p, r) \/ Flow!Takeover(p, r)
    BY <1>6, RebalanceCurrent, GroupCurrent
  <1> QED
    BY <1>1, <1>5, <1>6 DEF Flow!Next

\* Nothing is handled at first, and no field is held.
LEMMA CurrentInit ==
    ASSUME Flow!FlowAssumption, Flow!Init
    PROVE  CurrentInv
  <1>1. PICK base : base = [p \in Flow!Partitions |-> 0]
    OBVIOUS
  <1>2. Buffered
    BY DEF Flow!Init, Buffered
  <1>3. \A p \in Flow!Partitions : Len(Log[p]) \in Nat
    BY LogType
  <1>4. owner \in [Flow!Partitions -> Replicas]
    BY DEF Flow!Init
  <1>5. \A p \in Flow!Partitions : committed[p] = 0 /\ position[p] = 0 /\ pc[owner[p]] = "poll"
    BY <1>4 DEF Flow!Init
  <1>6. Handled(base)
    BY <1>1, <1>3, <1>5 DEF Handled
  <1>7. \A k \in Flow!Pairs : Flow!Held(hash[k]) = {}
    BY DEF Flow!Init, Flow!NoHash, Flow!Held
  <1>8. Fresh(base)
    BY <1>7 DEF Fresh
  <1> QED
    BY <1>2, <1>6, <1>8 DEF CurrentInv

\* What is latest at the end of the log is what LastOf says.
LEMMA LatestIsLast ==
    ASSUME Flow!FlowAssumption, NEW p \in Flow!Partitions, NEW f, NEW v, Says(Log[p], f), Latest(p, Len(Log[p]), f, v)
    PROVE  v = Flow!LastOf(f)
  <1>1. PICK log : log = Log[p]
    OBVIOUS
  <1>2. log \in Seq(Flow!Records) /\ Len(log) \in Nat /\ DOMAIN log = 1..Len(log)
    BY <1>1, LogType
  <1>3. PICK j \in DOMAIN log : log[j].flow = f /\ log[j].bytes = v /\ \A m \in (j + 1)..Len(log) : log[m].flow # f
    BY <1>1 DEF Latest
  <1>4. PICK q : q = CHOOSE x \in Flow!Partitions : \E rec \in Flow!Range(Log[x]) : rec.flow = f
    OBVIOUS
  <1>5. q \in Flow!Partitions /\ \E rec \in Flow!Range(Log[q]) : rec.flow = f
    <2>1. log[j] \in Flow!Range(Log[p]) /\ log[j].flow = f
      BY <1>1, <1>3, LogType
    <2> QED
      BY <1>4, <2>1, Zenon
  <1>6. q = p
    <2>1. Says(Log[q], f)
      BY <1>5 DEF Says, Flow!Range
    <2> QED
      BY <1>5, <2>1, OnePartition
  <1>7. PICK l : l = CHOOSE i \in DOMAIN log : log[i].flow = f /\ \A m \in (i + 1)..Len(log) : log[m].flow # f
    OBVIOUS
  <1>8. l \in DOMAIN log /\ log[l].flow = f /\ \A m \in (l + 1)..Len(log) : log[m].flow # f
    BY <1>3, <1>7, Zenon
  <1>9. l = j
    <2>1. l \in Nat /\ j \in Nat /\ l <= Len(log) /\ j <= Len(log)
      BY <1>2, <1>3, <1>8
    <2>2. ~(l < j)
      <3>1. l < j => j \in (l + 1)..Len(log)
        BY <1>2, <2>1
      <3> QED
        BY <1>3, <1>8, <3>1
    <2>3. ~(j < l)
      <3>1. j < l => l \in (j + 1)..Len(log)
        BY <1>2, <2>1
      <3> QED
        BY <1>3, <1>8, <3>1
    <2> QED
      BY <2>1, <2>2, <2>3
  <1>10. Flow!LastOf(f) = log[l].bytes
    <2>1. Flow!LastOf(f) = Log[q][CHOOSE i \in DOMAIN Log[q] : Log[q][i].flow = f
                                      /\ \A m \in (i + 1)..Len(Log[q]) : Log[q][m].flow # f].bytes
      BY <1>4, Zenon DEF Flow!LastOf
    <2>2. Log[q] = log
      BY <1>1, <1>6
    <2> QED
      BY <1>7, <2>1, <2>2, Zenon
  <1> QED
    BY <1>3, <1>9, <1>10

\* Once a log is polled to its end and nothing is buffered, the fields of every pair whose
\* writes were neither dropped nor made by an evicted replica are the last cumulative
\* values of their flows, wherever processes died and partitions moved
\* (FieldsCurrent).
THEOREM SettledFieldsAreCurrent ==
    ASSUME Flow!FlowAssumption
    PROVE  Flow!Spec => []Flow!FieldsCurrent
  <1>1. Flow!Init => FlowInv /\ CurrentInv
    BY FlowInit, CurrentInit
  <1>2. FlowInv /\ CurrentInv /\ [Flow!Next]_(Flow!vars) => FlowInv' /\ CurrentInv'
    <2>1. SUFFICES ASSUME FlowInv, CurrentInv, [Flow!Next]_(Flow!vars) PROVE FlowInv' /\ CurrentInv'
      OBVIOUS
    <2>2. FlowInv'
      BY <2>1, FlowNext
    <2>3. CASE UNCHANGED Flow!vars
      <3>1. UNCHANGED <<owner, position, committed, pending, pc, hash, unsettled>>
        BY <2>3 DEF Flow!vars, Flow!redisVars, Flow!groupVars, Flow!loopVars, Flow!ghosts
      <3>2. KeepsFields
        BY <3>1 DEF KeepsFields
      <3> QED
        BY <2>1, <2>2, <3>1, <3>2, QuietCurrent
    <2>4. CASE Flow!Next
      BY <2>1, <2>2, <2>4, CurrentNext
    <2> QED
      BY <2>1, <2>3, <2>4
  <1>3. FlowInv /\ CurrentInv => Flow!FieldsCurrent
    <2>1. SUFFICES ASSUME FlowInv, CurrentInv,
                          \A p \in Flow!Partitions : position[p] = Len(Log[p]) /\ pc[owner[p]] # "down",
                          \A r \in Replicas : pending[r] = <<>>,
                          NEW k \in Flow!Pairs, k \notin unsettled, NEW f \in Flow!Held(hash[k])
                   PROVE  hash[k].fields[f] = Flow!LastOf(f)
      BY DEF Flow!FieldsCurrent
    <2>2. PICK base : Handled(base) /\ Fresh(base)
      BY <2>1 DEF CurrentInv
    <2>3. f \in Flow!FlowsOf(k)
      BY <2>1 DEF FlowInv, Stores, Bounded
    <2>4. PICK p \in Flow!Partitions : Says(Log[p], f)
      <3>1. PICK rec \in Flow!Records : rec.flow = f
        BY <2>3 DEF Flow!FlowsOf
      <3>2. PICK p \in Flow!Partitions : rec \in Flow!Range(Log[p])
        BY <3>1 DEF Flow!Records
      <3> QED
        BY <3>1, <3>2 DEF Says, Flow!Range
    <2>5. owner[p] \in Replicas /\ pc[owner[p]] \in {"poll", "eval", "judge"}
      BY <2>1 DEF FlowInv, CurrentInv, Buffered, Spots
    <2>6. base[p] = Len(Log[p])
      BY <2>1, <2>2, <2>5 DEF Handled
    <2>7. Latest(p, base[p], f, hash[k].fields[f])
      BY <2>1, <2>2, <2>4 DEF Fresh
    <2> QED
      BY <2>4, <2>6, <2>7, LatestIsLast
  <1> QED
    BY <1>1, <1>2, <1>3, PTL DEF Flow!Spec
=============================================================================
