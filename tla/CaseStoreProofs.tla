-------------------------- MODULE CaseStoreProofs --------------------------
(***************************************************************************)
(* The disposition outbox delivers once whatever drains overlap, and no    *)
(* mutation of a case is silent: proofs for all cases, sessions, drains    *)
(* and bounds.                                                             *)
(***************************************************************************)
EXTENDS CaseStore, TLAPS, FiniteSetTheorems, WellFoundedInduction

-----------------------------------------------------------------------------
(* drain_dispositions.                                                     *)

Threads == [pc : {"idle", "loop", "deliver", "mark", "release"},
            todo : SUBSET outbox, cur : SUBSET outbox, tries : Nat]
Copies(r) == {x \in receipts : x.id = r}

\* The row a thread has claimed, for as long as it works on it.
Holds(d) == IF drain[d].pc \in {"deliver", "mark", "release"}
            THEN (\E r \in claimed : drain[d].cur = {r})
            ELSE drain[d].cur = {}

\* A row that somebody has got and not yet marked, or that is marked.
Settled(r) == r \in delivered \/ \E d \in Drains : drain[d].pc = "mark" /\ r \in drain[d].cur

\* A claimed row is in the hands of one thread; a row that is settled has been received,
\* once more than there were faults at most, one that is not, no more often than that.
DrainInv ==
    /\ drain \in [Drains -> Threads]
    /\ faults \in Nat
    /\ \A d \in Drains : Holds(d)
    /\ \A d, e \in Drains : d # e => drain[d].cur \cap drain[e].cur = {}
    /\ \A d \in Drains : drain[d].pc = "deliver" => drain[d].cur \cap delivered = {}
    /\ IsFiniteSet(receipts)
    /\ \A x \in receipts : x.copy \in Nat /\ x.copy <= Cardinality(Copies(x.id))
    /\ \A r : Settled(r) => Copies(r) # {}
    /\ \A r : Cardinality(Copies(r)) <= faults + (IF Settled(r) THEN 1 ELSE 0)

LEMMA DrainInit == Init => DrainInv
  <1> SUFFICES ASSUME Init PROVE DrainInv
    OBVIOUS
  <1>1. \A r : Copies(r) = {} /\ ~Settled(r)
    BY DEF Init, Copies, Settled
  <1>2. drain \in [Drains -> Threads]
    BY DEF Init, Threads
  <1>3. \A d \in Drains : Holds(d) /\ drain[d].cur = {} /\ drain[d].pc = "idle"
    BY DEF Init, Holds
  <1>4. IsFiniteSet({}) /\ Cardinality({}) = 0
    BY FS_EmptySet
  <1>5. receipts = {} /\ faults = 0
    BY DEF Init
  <1>6. \A r : Cardinality(Copies(r)) <= faults + (IF Settled(r) THEN 1 ELSE 0)
    BY <1>1, <1>4, <1>5
  <1> QED
    BY <1>1, <1>2, <1>3, <1>4, <1>5, <1>6 DEF DrainInv

\* Copies of a row are finitely many.
LEMMA CopiesCount ==
    ASSUME DrainInv, NEW r
    PROVE  IsFiniteSet(Copies(r)) /\ Cardinality(Copies(r)) \in Nat
  BY FS_Subset, FS_CardinalityType DEF DrainInv, Copies

\* The Router's fresh row is a copy more.
LEMMA ConsumedFacts ==
    ASSUME DrainInv, NEW r, Consumed(r)
    PROVE  /\ IsFiniteSet(receipts')
           /\ Cardinality(Copies(r)') = Cardinality(Copies(r)) + 1
           /\ \A q : q # r => Copies(q)' = Copies(q)
           /\ \A x \in receipts' : x.copy \in Nat /\ x.copy <= Cardinality(Copies(x.id)')
           /\ Copies(r)' # {}
  <1> DEFINE n == Cardinality(Copies(r)) + 1
             y == [id |-> r, copy |-> n]
  <1>1. IsFiniteSet(Copies(r)) /\ Cardinality(Copies(r)) \in Nat
    BY CopiesCount
  <1>2. receipts' = receipts \cup {y} /\ y.id = r /\ y.copy = n
    BY DEF Consumed, Copies
  <1> HIDE DEF y
  <1>3. y \notin receipts
    BY <1>1, <1>2 DEF DrainInv
  <1>4. Copies(r)' = Copies(r) \cup {y} /\ y \notin Copies(r)
    BY <1>2, <1>3 DEF Copies
  <1>5. Cardinality(Copies(r)') = n /\ IsFiniteSet(receipts')
    <2>1. IsFiniteSet(receipts') /\ Cardinality(Copies(r) \cup {y}) = Cardinality(Copies(r)) + 1
      BY <1>1, <1>2, <1>4, FS_AddElement, Zenon DEF DrainInv
    <2> QED
      BY <1>1, <1>4, <2>1
  <1>6. \A q : q # r => Copies(q)' = Copies(q)
    BY <1>2 DEF Copies
  <1>7. \A x \in receipts' : x.copy \in Nat /\ x.copy <= Cardinality(Copies(x.id)')
    BY <1>1, <1>2, <1>5, <1>6 DEF DrainInv
  <1> QED
    BY <1>4, <1>5, <1>6, <1>7

\* One thread moves on: what that says of the threads.
LEMMA OneThread ==
    ASSUME DrainInv, NEW d \in Drains, NEW t \in Threads,
           drain' = [drain EXCEPT ![d] = t], UNCHANGED outbox
    PROVE  /\ drain' \in [Drains -> Threads]' /\ drain'[d] = t
           /\ \A e \in Drains : e # d => drain'[e] = drain[e]
  BY DEF DrainInv, Threads

\* Who has got the row of a thread that is about to deliver it: nobody.
LEMMA AboutToDeliver ==
    ASSUME DrainInv, NEW d \in Drains, At(d, "deliver")
    PROVE  \E r \in claimed : drain[d].cur = {r} /\ r \notin delivered /\ ~Settled(r)
  <1>1. PICK r \in claimed : drain[d].cur = {r}
    BY DEF DrainInv, Holds, At
  <1>2. r \notin delivered
    BY <1>1 DEF DrainInv, At
  <1>3. ~Settled(r)
    BY <1>1, <1>2 DEF DrainInv, At, Settled
  <1> QED
    BY <1>1, <1>2, <1>3

\* A step that receives nothing new: the counts stand if nothing is settled or unsettled.
LEMMA CountsStand ==
    ASSUME DrainInv, UNCHANGED <<receipts, faults>>, \A r : Settled(r)' <=> Settled(r)
    PROVE  /\ faults' \in Nat /\ IsFiniteSet(receipts')
           /\ \A x \in receipts' : x.copy \in Nat /\ x.copy <= Cardinality(Copies(x.id)')
           /\ \A r : Settled(r)' => Copies(r)' # {}
           /\ \A r : Cardinality(Copies(r)') <= faults' + (IF Settled(r)' THEN 1 ELSE 0)
  <1>1. \A r : Copies(r)' = Copies(r)
    BY DEF Copies
  <1> QED
    BY <1>1 DEF DrainInv

\* A case mutation only enqueues.
LEMMA EnqueueStep ==
    ASSUME DrainInv, UNCHANGED drainVars, outbox \subseteq outbox'
    PROVE  DrainInv'
  <1>1. drain' \in [Drains -> Threads]'
    BY DEF DrainInv, Threads, drainVars
  <1>2. \A d \in Drains : Holds(d)' /\ drain'[d] = drain[d]
    BY DEF DrainInv, Holds, drainVars
  <1>3. \A r : Settled(r)' <=> Settled(r)
    BY DEF Settled, drainVars
  <1>4. delivered' = delivered /\ UNCHANGED <<receipts, faults>>
    BY DEF drainVars
  <1> QED
    BY <1>1, <1>2, <1>3, <1>4, CountsStand DEF DrainInv

LEMMA SnapshotStep ==
    ASSUME DrainInv, NEW d \in Drains, NEW t \in Tenants, DrainSnapshot(d, t)
    PROVE  DrainInv'
  <1>1. PICK rows \in SUBSET outbox :
           drain' = [drain EXCEPT ![d] = [pc |-> "loop", todo |-> rows, cur |-> {}, tries |-> 0]]
    BY DEF DrainSnapshot
  <1> DEFINE n == [pc |-> "loop", todo |-> rows, cur |-> {}, tries |-> 0]
  <1>2. n \in Threads /\ drain' = [drain EXCEPT ![d] = n]
    BY <1>1 DEF Threads
  <1>3. n.pc = "loop" /\ n.cur = {} /\ drain[d].cur = {}
    BY DEF DrainInv, DrainSnapshot, At, Holds
  <1> HIDE DEF n
  <1>7. UNCHANGED <<outbox, receipts, faults, delivered>>
    BY DEF DrainSnapshot
  <1>4. /\ drain' \in [Drains -> Threads]' /\ drain'[d] = n
        /\ \A e \in Drains : e # d => drain'[e] = drain[e]
    BY <1>2, <1>7, OneThread
  <1>5. \A e \in Drains : Holds(e)'
    BY <1>3, <1>4 DEF DrainInv, Holds, DrainSnapshot
  <1>6. \A r : Settled(r)' <=> Settled(r)
    BY <1>3, <1>4 DEF DrainInv, Settled, DrainSnapshot, At
  <1> QED
    BY <1>3, <1>4, <1>5, <1>6, <1>7, CountsStand DEF DrainInv

LEMMA ClaimStep ==
    ASSUME DrainInv, NEW d \in Drains, DrainClaim(d)
    PROVE  DrainInv'
  <1>1. PICK r \in drain[d].todo :
         IF Claimable(r)
         THEN /\ claimed' = claimed \cup {r}
              /\ drain' = [drain EXCEPT ![d] = [pc |-> "deliver", todo |-> @.todo \ {r},
                                                cur |-> {r}, tries |-> 0]]
         ELSE /\ drain' = [drain EXCEPT ![d].todo = @ \ {r}]
              /\ UNCHANGED claimed
    BY DEF DrainClaim
  <1>2. drain[d] \in Threads /\ r \in outbox /\ drain[d].pc = "loop" /\ drain[d].cur = {}
    BY <1>1 DEF DrainInv, Threads, DrainClaim, At, Holds
  <1>3. UNCHANGED <<outbox, receipts, faults, delivered>>
    BY DEF DrainClaim
  <1>4. CASE Claimable(r)
    <2> DEFINE n == [pc |-> "deliver", todo |-> drain[d].todo \ {r}, cur |-> {r}, tries |-> 0]
    <2>1. n \in Threads /\ n.pc = "deliver" /\ n.cur = {r}
      BY <1>2 DEF Threads
    <2>2. drain' = [drain EXCEPT ![d] = n] /\ claimed' = claimed \cup {r}
      BY <1>1, <1>4
    <2> HIDE DEF n
    <2>3. /\ drain' \in [Drains -> Threads]' /\ drain'[d] = n
          /\ \A e \in Drains : e # d => drain'[e] = drain[e]
      BY <1>3, <2>1, <2>2, OneThread
    <2>4. r \notin claimed /\ r \notin delivered
      BY <1>4 DEF Claimable
    <2>5. \A e \in Drains : Holds(e)' /\ (e # d => r \notin drain[e].cur)
      BY <2>1, <2>2, <2>3, <2>4 DEF DrainInv, Holds
    <2>6. \A q : Settled(q)' <=> Settled(q)
      BY <1>2, <1>3, <2>1, <2>3 DEF DrainInv, Settled
    <2> QED
      BY <1>3, <2>1, <2>3, <2>4, <2>5, <2>6, CountsStand DEF DrainInv
  <1>5. CASE ~Claimable(r)
    <2> DEFINE n == [drain[d] EXCEPT !.todo = @ \ {r}]
    <2>1. n \in Threads /\ n.pc = "loop" /\ n.cur = {}
      BY <1>2 DEF Threads
    <2>2. drain' = [drain EXCEPT ![d] = n] /\ claimed' = claimed
      BY <1>1, <1>5 DEF DrainInv
    <2> HIDE DEF n
    <2>3. /\ drain' \in [Drains -> Threads]' /\ drain'[d] = n
          /\ \A e \in Drains : e # d => drain'[e] = drain[e]
      BY <1>3, <2>1, <2>2, OneThread
    <2>4. \A e \in Drains : Holds(e)'
      BY <2>1, <2>2, <2>3 DEF DrainInv, Holds
    <2>5. \A q : Settled(q)' <=> Settled(q)
      BY <1>2, <1>3, <2>1, <2>3 DEF DrainInv, Settled
    <2> QED
      BY <1>3, <2>1, <2>3, <2>4, <2>5, CountsStand DEF DrainInv
  <1> QED
    BY <1>4, <1>5

LEMMA AcceptedStep ==
    ASSUME DrainInv, NEW d \in Drains, DrainAccepted(d)
    PROVE  DrainInv'
  <1>1. PICK r \in claimed : drain[d].cur = {r} /\ r \notin delivered /\ ~Settled(r)
    BY AboutToDeliver DEF DrainAccepted
  <1>2. Consumed(r) /\ UNCHANGED <<outbox, delivered, claimed, faults>>
    BY <1>1 DEF DrainAccepted
  <1>3. /\ IsFiniteSet(receipts')
        /\ Cardinality(Copies(r)') = Cardinality(Copies(r)) + 1
        /\ \A q : q # r => Copies(q)' = Copies(q)
        /\ \A x \in receipts' : x.copy \in Nat /\ x.copy <= Cardinality(Copies(x.id)')
        /\ Copies(r)' # {}
    BY <1>2, ConsumedFacts
  <1> DEFINE n == [drain[d] EXCEPT !.pc = "mark"]
  <1>4. n \in Threads /\ n.pc = "mark" /\ n.cur = {r} /\ drain' = [drain EXCEPT ![d] = n]
    BY <1>1 DEF DrainInv, Threads, DrainAccepted, Goto
  <1> HIDE DEF n
  <1>5. /\ drain' \in [Drains -> Threads]' /\ drain'[d] = n
        /\ \A e \in Drains : e # d => drain'[e] = drain[e]
    BY <1>2, <1>4, OneThread
  <1>6. \A e \in Drains : Holds(e)'
    BY <1>1, <1>2, <1>4, <1>5 DEF DrainInv, Holds
  <1>7. Settled(r)' /\ \A q : q # r => (Settled(q)' <=> Settled(q))
    BY <1>1, <1>2, <1>4, <1>5 DEF DrainInv, Settled
  <1>8. Cardinality(Copies(r)) \in Nat /\ Cardinality(Copies(r)) <= faults
    BY <1>1, CopiesCount DEF DrainInv
  <1>9. \A q : Cardinality(Copies(q)') <= faults' + (IF Settled(q)' THEN 1 ELSE 0)
    <2> TAKE q
    <2>1. CASE q = r
      BY <2>1, <1>2, <1>3, <1>7, <1>8 DEF DrainInv
    <2>2. CASE q # r
      BY <2>2, <1>2, <1>3, <1>7 DEF DrainInv
    <2> QED
      BY <2>1, <2>2
  <1>10. \A q : Settled(q)' => Copies(q)' # {}
    BY <1>3, <1>7 DEF DrainInv
  <1> QED
    BY <1>1, <1>2, <1>3, <1>4, <1>5, <1>6, <1>9, <1>10 DEF DrainInv

\* A failed attempt is tried again or given up; the row stays claimed.
LEMMA FailedThread ==
    ASSUME DrainInv, CaseAssumption, NEW d \in Drains, At(d, "deliver"), Failed(d), UNCHANGED outbox
    PROVE  \E n \in Threads : n.pc \in {"deliver", "release"} /\ n.cur = drain[d].cur
                              /\ drain' = [drain EXCEPT ![d] = n]
  <1> DEFINE p == IF drain[d].tries + 1 = MaxAttempts THEN "release" ELSE "deliver"
             t == drain[d].tries + 1
             n == [drain[d] EXCEPT !.tries = t, !.pc = p]
  <1>1. drain[d] \in Threads /\ drain \in [Drains -> Threads]
    BY DEF DrainInv
  <1>2. t \in Nat /\ p \in {"deliver", "release"}
    BY <1>1 DEF Threads
  <1>3. drain' = [drain EXCEPT ![d].tries = t, ![d].pc = p]
    BY <1>1 DEF Failed
  <1> HIDE DEF t, p
  <1>4. n \in Threads /\ n.pc = p /\ n.cur = drain[d].cur
    BY <1>1, <1>2 DEF Threads
  <1>5. drain' = [drain EXCEPT ![d] = n]
    BY <1>1, <1>3
  <1> QED
    BY <1>2, <1>4, <1>5

LEMMA RejectedStep ==
    ASSUME DrainInv, CaseAssumption, NEW d \in Drains, DrainRejected(d)
    PROVE  DrainInv'
  <1>1. PICK r \in claimed : drain[d].cur = {r} /\ r \notin delivered /\ ~Settled(r)
    BY AboutToDeliver DEF DrainRejected
  <1>2. UNCHANGED <<outbox, delivered, claimed, receipts, faults>>
    BY DEF DrainRejected
  <1>3. PICK n \in Threads : n.pc \in {"deliver", "release"} /\ n.cur = drain[d].cur
                            /\ drain' = [drain EXCEPT ![d] = n]
    BY <1>2, FailedThread DEF DrainRejected
  <1>4. /\ drain' \in [Drains -> Threads]' /\ drain'[d] = n
        /\ \A e \in Drains : e # d => drain'[e] = drain[e]
    BY <1>2, <1>3, OneThread
  <1>5. \A e \in Drains : Holds(e)'
    BY <1>1, <1>2, <1>3, <1>4 DEF DrainInv, Holds
  <1>6. \A q : Settled(q)' <=> Settled(q)
    BY <1>1, <1>2, <1>3, <1>4 DEF DrainInv, Settled, DrainRejected, At
  <1> QED
    BY <1>1, <1>2, <1>3, <1>4, <1>5, <1>6, CountsStand DEF DrainInv

LEMMA AckLostStep ==
    ASSUME DrainInv, CaseAssumption, NEW d \in Drains, DrainAckLost(d)
    PROVE  DrainInv'
  <1>1. PICK r \in claimed : drain[d].cur = {r} /\ r \notin delivered /\ ~Settled(r)
    BY AboutToDeliver DEF DrainAckLost
  <1>2. Consumed(r) /\ faults' = faults + 1 /\ UNCHANGED <<outbox, delivered, claimed>>
    BY <1>1 DEF DrainAckLost
  <1>3. /\ IsFiniteSet(receipts')
        /\ Cardinality(Copies(r)') = Cardinality(Copies(r)) + 1
        /\ \A q : q # r => Copies(q)' = Copies(q)
        /\ \A x \in receipts' : x.copy \in Nat /\ x.copy <= Cardinality(Copies(x.id)')
        /\ Copies(r)' # {}
    BY <1>2, ConsumedFacts
  <1>4. PICK n \in Threads : n.pc \in {"deliver", "release"} /\ n.cur = drain[d].cur
                            /\ drain' = [drain EXCEPT ![d] = n]
    BY <1>2, FailedThread DEF DrainAckLost
  <1>5. /\ drain' \in [Drains -> Threads]' /\ drain'[d] = n
        /\ \A e \in Drains : e # d => drain'[e] = drain[e]
    BY <1>2, <1>4, OneThread
  <1>6. \A e \in Drains : Holds(e)'
    BY <1>1, <1>2, <1>4, <1>5 DEF DrainInv, Holds
  <1>7. \A q : Settled(q)' <=> Settled(q)
    BY <1>1, <1>2, <1>4, <1>5 DEF DrainInv, Settled, DrainAckLost, At
  <1>8. \A q : Cardinality(Copies(q)) \in Nat
    BY CopiesCount
  <1>9. \A q : Cardinality(Copies(q)') <= faults' + (IF Settled(q)' THEN 1 ELSE 0)
    <2> TAKE q
    <2>1. CASE q = r
      BY <2>1, <1>1, <1>2, <1>3, <1>7, <1>8 DEF DrainInv
    <2>2. CASE q # r
      <3>1. Copies(q)' = Copies(q) /\ faults \in Nat
            /\ Cardinality(Copies(q)) <= faults + (IF Settled(q) THEN 1 ELSE 0)
        BY <2>2, <1>3 DEF DrainInv
      <3> QED
        BY <3>1, <1>2, <1>7, <1>8
    <2> QED
      BY <2>1, <2>2
  <1>10. \A q : Settled(q)' => Copies(q)' # {}
    BY <1>3, <1>7 DEF DrainInv
  <1>11. faults' \in Nat
    BY <1>2 DEF DrainInv
  <1> QED
    BY <1>1, <1>2, <1>3, <1>4, <1>5, <1>6, <1>9, <1>10, <1>11 DEF DrainInv

LEMMA InterruptedStep ==
    ASSUME DrainInv, NEW d \in Drains, DrainInterrupted(d)
    PROVE  DrainInv'
  <1>1. Idle \in Threads /\ Idle.pc = "idle" /\ Idle.cur = {}
    BY DEF Idle, Threads
  <1>2. /\ drain' = [drain EXCEPT ![d] = Idle] /\ claimed' = claimed \ drain[d].cur
        /\ UNCHANGED <<outbox, delivered, receipts, faults>>
    BY DEF DrainInterrupted
  <1>3. /\ drain' \in [Drains -> Threads]' /\ drain'[d] = Idle
        /\ \A e \in Drains : e # d => drain'[e] = drain[e]
    BY <1>1, <1>2, OneThread
  <1>4. \A e \in Drains : Holds(e)'
    BY <1>1, <1>2, <1>3 DEF DrainInv, Holds
  <1>5. \A q : Settled(q)' <=> Settled(q)
    BY <1>1, <1>2, <1>3 DEF DrainInv, Settled, DrainInterrupted, At
  <1> QED
    BY <1>1, <1>2, <1>3, <1>4, <1>5, CountsStand DEF DrainInv

LEMMA MarkStep ==
    ASSUME DrainInv, NEW d \in Drains, DrainMark(d)
    PROVE  DrainInv'
  <1> DEFINE n == [drain[d] EXCEPT !.pc = "release"]
  <1>1. /\ n \in Threads /\ n.pc = "release" /\ n.cur = drain[d].cur
        /\ drain' = [drain EXCEPT ![d] = n]
    BY DEF DrainInv, Threads, DrainMark, Goto
  <1> HIDE DEF n
  <1>2. delivered' = delivered \cup drain[d].cur /\ UNCHANGED <<outbox, claimed, receipts, faults>>
    BY DEF DrainMark
  <1>3. /\ drain' \in [Drains -> Threads]' /\ drain'[d] = n
        /\ \A e \in Drains : e # d => drain'[e] = drain[e]
    BY <1>1, <1>2, OneThread
  <1>4. drain[d].pc = "mark"
    BY DEF DrainMark, At
  <1>5. \A e \in Drains : Holds(e)'
    BY <1>1, <1>2, <1>3, <1>4 DEF DrainInv, Holds
  <1>6. \A q : Settled(q)' <=> Settled(q)
    BY <1>1, <1>2, <1>3, <1>4 DEF Settled
  <1>7. \A e \in Drains : drain'[e].pc = "deliver" => drain'[e].cur \cap delivered' = {}
    BY <1>1, <1>2, <1>3 DEF DrainInv
  <1> QED
    BY <1>1, <1>2, <1>3, <1>5, <1>6, <1>7, CountsStand DEF DrainInv

LEMMA ReleaseStep ==
    ASSUME DrainInv, NEW d \in Drains, DrainRelease(d)
    PROVE  DrainInv'
  <1> DEFINE n == [drain[d] EXCEPT !.pc = "loop", !.cur = {}]
  <1>1. /\ n \in Threads /\ n.pc = "loop" /\ n.cur = {} /\ drain' = [drain EXCEPT ![d] = n]
    BY DEF DrainInv, Threads, DrainRelease
  <1> HIDE DEF n
  <1>2. /\ claimed' = claimed \ drain[d].cur /\ drain[d].pc = "release"
        /\ UNCHANGED <<outbox, delivered, receipts, faults>>
    BY DEF DrainRelease, At
  <1>3. /\ drain' \in [Drains -> Threads]' /\ drain'[d] = n
        /\ \A e \in Drains : e # d => drain'[e] = drain[e]
    BY <1>1, <1>2, OneThread
  <1>4. \A e \in Drains : Holds(e)'
    BY <1>1, <1>2, <1>3 DEF DrainInv, Holds
  <1>5. \A q : Settled(q)' <=> Settled(q)
    BY <1>1, <1>2, <1>3 DEF Settled
  <1> QED
    BY <1>1, <1>2, <1>3, <1>4, <1>5, CountsStand DEF DrainInv

LEMMA EndStep ==
    ASSUME DrainInv, NEW d \in Drains, DrainEnd(d)
    PROVE  DrainInv'
  <1>1. Idle \in Threads /\ Idle.pc = "idle" /\ Idle.cur = {}
    BY DEF Idle, Threads
  <1>2. /\ drain' = [drain EXCEPT ![d] = Idle] /\ drain[d].pc = "loop"
        /\ UNCHANGED <<outbox, delivered, claimed, receipts, faults>>
    BY DEF DrainEnd, At
  <1>3. /\ drain' \in [Drains -> Threads]' /\ drain'[d] = Idle
        /\ \A e \in Drains : e # d => drain'[e] = drain[e]
    BY <1>1, <1>2, OneThread
  <1>4. \A e \in Drains : Holds(e)'
    BY <1>1, <1>2, <1>3 DEF DrainInv, Holds
  <1>5. \A q : Settled(q)' <=> Settled(q)
    BY <1>1, <1>2, <1>3 DEF Settled
  <1> QED
    BY <1>1, <1>2, <1>3, <1>4, <1>5, CountsStand DEF DrainInv

\* A mark that fails leaves a row received and not marked: the next copy is the fault's.
LEMMA MarkFailsStep ==
    ASSUME DrainInv, NEW d \in Drains, DrainMarkFails(d)
    PROVE  DrainInv'
  <1>1. Idle \in Threads /\ Idle.pc = "idle" /\ Idle.cur = {}
    BY DEF Idle, Threads
  <1>2. /\ drain' = [drain EXCEPT ![d] = Idle] /\ claimed' = claimed \ drain[d].cur
        /\ faults' = faults + 1 /\ UNCHANGED <<outbox, delivered, receipts>>
    BY DEF DrainMarkFails
  <1>3. /\ drain' \in [Drains -> Threads]' /\ drain'[d] = Idle
        /\ \A e \in Drains : e # d => drain'[e] = drain[e]
    BY <1>1, <1>2, OneThread
  <1>4. \A e \in Drains : Holds(e)'
    BY <1>1, <1>2, <1>3 DEF DrainInv, Holds
  <1>5. \A q : (Settled(q)' => Settled(q)) /\ Copies(q)' = Copies(q)
    BY <1>1, <1>2, <1>3 DEF Settled, Copies
  <1>6. \A q : Cardinality(Copies(q)') <= faults' + (IF Settled(q)' THEN 1 ELSE 0)
    <2> TAKE q
    <2>1. /\ Cardinality(Copies(q)) \in Nat /\ faults \in Nat
          /\ Cardinality(Copies(q)) <= faults + (IF Settled(q) THEN 1 ELSE 0)
      BY CopiesCount DEF DrainInv
    <2> QED
      BY <2>1, <1>2, <1>5
  <1>7. faults' \in Nat
    BY <1>2 DEF DrainInv
  <1>8. /\ \A q : Settled(q)' => Copies(q)' # {}
        /\ \A x \in receipts' : x.copy \in Nat /\ x.copy <= Cardinality(Copies(x.id)')
    BY <1>2, <1>5 DEF DrainInv
  <1> QED
    BY <1>1, <1>2, <1>3, <1>4, <1>6, <1>7, <1>8 DEF DrainInv

\* A crash forgets who was about to mark a row: the next copy is the fault's.
LEMMA CrashStep ==
    ASSUME DrainInv, Crash
    PROVE  DrainInv'
  <1>1. Idle \in Threads' /\ Idle.pc = "idle" /\ Idle.cur = {}
    BY DEF Idle, Threads
  <1>2. /\ drain' = [d \in Drains |-> Idle] /\ faults' = faults + 1
        /\ UNCHANGED <<outbox, delivered, receipts>>
    BY DEF Crash
  <1>3. drain' \in [Drains -> Threads]' /\ \A d \in Drains : drain'[d] = Idle
    BY <1>1, <1>2
  <1>4. \A d \in Drains : Holds(d)'
    BY <1>1, <1>3 DEF Holds
  <1>5. \A q : (Settled(q)' => Settled(q)) /\ Copies(q)' = Copies(q)
    BY <1>1, <1>2, <1>3 DEF Settled, Copies
  <1>6. \A q : Cardinality(Copies(q)') <= faults' + (IF Settled(q)' THEN 1 ELSE 0)
    <2> TAKE q
    <2>1. /\ Cardinality(Copies(q)) \in Nat /\ faults \in Nat
          /\ Cardinality(Copies(q)) <= faults + (IF Settled(q) THEN 1 ELSE 0)
      BY CopiesCount DEF DrainInv
    <2> QED
      BY <2>1, <1>2, <1>5
  <1>7. faults' \in Nat
    BY <1>2 DEF DrainInv
  <1>8. /\ \A q : Settled(q)' => Copies(q)' # {}
        /\ \A x \in receipts' : x.copy \in Nat /\ x.copy <= Cardinality(Copies(x.id)')
    BY <1>2, <1>5 DEF DrainInv
  <1> QED
    BY <1>1, <1>2, <1>3, <1>4, <1>6, <1>7, <1>8 DEF DrainInv

-----------------------------------------------------------------------------
(* cases.py: the audit trail.                                              *)

Owners == Analysts \cup {"nobody"}
Names == {"created", "owner_changed", "assignee_added", "assignee_removed", "note_added",
          "status_changed", "finding_linked", "finding_unlinked", "entity_linked",
          "entity_unlinked", "noop"}
Args == Owners \cup Statuses \cup Findings \cup Entities \cup AllRoutes \cup {"text"}
Events == [event : Names, actor : Analysts, arg : Args]
Documents ==
    [tenant : Tenants, owner : Owners, assignees : SUBSET Analysts, status : Statuses, notes : Nat,
     findings : SUBSET Findings, entities : SUBSET Entities, audit : Seq(Events)]

\* A document that one audit event makes of another.
Explained(doc, new) ==
    /\ new \in Documents /\ new.tenant = doc.tenant
    /\ \E ev \in Events : new = Applied(doc, ev) /\ new.audit = Append(doc.audit, ev)

LEMMA TouchFacts ==
    ASSUME NEW doc \in Documents, NEW ev \in Events
    PROVE  /\ touch(doc, ev) \in Documents
           /\ touch(doc, ev) = [doc EXCEPT !.audit = Append(@, ev)]
           /\ touch(doc, ev).audit = Append(doc.audit, ev)
           /\ touch(doc, ev).tenant = doc.tenant
  <1> DEFINE al == Append(doc.audit, ev)
  <1>1. al \in Seq(Events)
    BY DEF Documents
  <1>2. touch(doc, ev) = [doc EXCEPT !.audit = al]
    BY DEF touch, Documents
  <1> HIDE DEF al
  <1>3. /\ [doc EXCEPT !.audit = al] \in Documents /\ [doc EXCEPT !.audit = al].audit = al
        /\ [doc EXCEPT !.audit = al].tenant = doc.tenant
    BY <1>1 DEF Documents
  <1> QED
    BY <1>2, <1>3 DEF al, touch

LEMMA EventFacts ==
    ASSUME NEW e \in Names, NEW a \in Analysts, NEW x \in Args
    PROVE  /\ Event(e, a, x) \in Events
           /\ Event(e, a, x).event = e /\ Event(e, a, x).arg = x
  <1>1. Event(e, a, x) = [event |-> e, actor |-> a, arg |-> x]
    BY DEF Event
  <1>2. [event |-> e, actor |-> a, arg |-> x] \in Events
    BY DEF Events
  <1>3. [event |-> e, actor |-> a, arg |-> x].event = e /\ [event |-> e, actor |-> a, arg |-> x].arg = x
    OBVIOUS
  <1> QED
    BY <1>1, <1>2, <1>3, Zenon

LEMMA OwnerExplained ==
    ASSUME NEW doc \in Documents, NEW a \in Analysts, NEW o \in Owners
    PROVE  Explained(doc, change_owner(doc, o, a))
  <1> DEFINE ev == Event("owner_changed", a, o)
             new == change_owner(doc, o, a)
             val == o
  <1>1. "owner_changed" \in Names /\ o \in Args
    BY DEF Names, Args
  <1>2. ev \in Events /\ ev.event = "owner_changed" /\ ev.arg = o
    BY <1>1, EventFacts
  <1>3. val \in Owners
    BY DEF Documents, Owners
  <1>4. new = [touch(doc, ev) EXCEPT !.owner = val]
    BY DEF change_owner, touch, Documents
  <1>5. Applied(doc, ev) = [[doc EXCEPT !.owner = val] EXCEPT !.audit = Append(@, ev)]
    BY <1>2 DEF Applied
  <1>6. touch(doc, ev) \in Documents /\ touch(doc, ev).tenant = doc.tenant
        /\ touch(doc, ev).audit = Append(doc.audit, ev)
        /\ touch(doc, ev) = [doc EXCEPT !.audit = Append(@, ev)]
    BY <1>2, TouchFacts
  <1> HIDE DEF ev, new, val
  <1>7. new \in Documents /\ new.tenant = doc.tenant /\ new.audit = Append(doc.audit, ev)
    BY <1>3, <1>4, <1>6 DEF Documents
  <1>8. new = Applied(doc, ev)
    BY <1>4, <1>5, <1>6 DEF Documents
  <1> QED
    BY <1>2, <1>7, <1>8 DEF Explained, new

LEMMA AssignExplained ==
    ASSUME NEW doc \in Documents, NEW a \in Analysts, NEW w \in Analysts, w \notin doc.assignees
    PROVE  Explained(doc, assign(doc, w, a))
  <1> DEFINE ev == Event("assignee_added", a, w)
             new == assign(doc, w, a)
             val == doc.assignees \cup {w}
  <1>1. "assignee_added" \in Names /\ w \in Args
    BY DEF Names, Args, Owners
  <1>2. ev \in Events /\ ev.event = "assignee_added" /\ ev.arg = w
    BY <1>1, EventFacts
  <1>3. val \in SUBSET Analysts
    BY DEF Documents, Owners
  <1>4. new = [touch(doc, ev) EXCEPT !.assignees = val]
    BY DEF assign, touch, Documents
  <1>5. Applied(doc, ev) = [[doc EXCEPT !.assignees = val] EXCEPT !.audit = Append(@, ev)]
    BY <1>2 DEF Applied
  <1>6. touch(doc, ev) \in Documents /\ touch(doc, ev).tenant = doc.tenant
        /\ touch(doc, ev).audit = Append(doc.audit, ev)
        /\ touch(doc, ev) = [doc EXCEPT !.audit = Append(@, ev)]
    BY <1>2, TouchFacts
  <1> HIDE DEF ev, new, val
  <1>7. new \in Documents /\ new.tenant = doc.tenant /\ new.audit = Append(doc.audit, ev)
    BY <1>3, <1>4, <1>6 DEF Documents
  <1>8. new = Applied(doc, ev)
    BY <1>4, <1>5, <1>6 DEF Documents
  <1> QED
    BY <1>2, <1>7, <1>8 DEF Explained, new

LEMMA UnassignExplained ==
    ASSUME NEW doc \in Documents, NEW a \in Analysts, NEW w \in Analysts, w \in doc.assignees
    PROVE  Explained(doc, unassign(doc, w, a))
  <1> DEFINE ev == Event("assignee_removed", a, w)
             new == unassign(doc, w, a)
             val == doc.assignees \ {w}
  <1>1. "assignee_removed" \in Names /\ w \in Args
    BY DEF Names, Args, Owners
  <1>2. ev \in Events /\ ev.event = "assignee_removed" /\ ev.arg = w
    BY <1>1, EventFacts
  <1>3. val \in SUBSET Analysts
    BY DEF Documents, Owners
  <1>4. new = [touch(doc, ev) EXCEPT !.assignees = val]
    BY DEF unassign, touch, Documents
  <1>5. Applied(doc, ev) = [[doc EXCEPT !.assignees = val] EXCEPT !.audit = Append(@, ev)]
    BY <1>2 DEF Applied
  <1>6. touch(doc, ev) \in Documents /\ touch(doc, ev).tenant = doc.tenant
        /\ touch(doc, ev).audit = Append(doc.audit, ev)
        /\ touch(doc, ev) = [doc EXCEPT !.audit = Append(@, ev)]
    BY <1>2, TouchFacts
  <1> HIDE DEF ev, new, val
  <1>7. new \in Documents /\ new.tenant = doc.tenant /\ new.audit = Append(doc.audit, ev)
    BY <1>3, <1>4, <1>6 DEF Documents
  <1>8. new = Applied(doc, ev)
    BY <1>4, <1>5, <1>6 DEF Documents
  <1> QED
    BY <1>2, <1>7, <1>8 DEF Explained, new

LEMMA NoteExplained ==
    ASSUME NEW doc \in Documents, NEW a \in Analysts
    PROVE  Explained(doc, add_note(doc, a))
  <1> DEFINE ev == Event("note_added", a, "text")
             new == add_note(doc, a)
             val == doc.notes + 1
  <1>1. "note_added" \in Names /\ "text" \in Args
    BY DEF Names, Args
  <1>2. ev \in Events /\ ev.event = "note_added"
    BY <1>1, EventFacts
  <1>3. val \in Nat
    BY DEF Documents, Owners
  <1>4. new = [touch(doc, ev) EXCEPT !.notes = val]
    <2>1. touch(doc, ev).notes = doc.notes
      BY DEF touch, Documents
    <2> QED
      BY <2>1 DEF add_note
  <1>5. Applied(doc, ev) = [[doc EXCEPT !.notes = val] EXCEPT !.audit = Append(@, ev)]
    BY <1>2 DEF Applied
  <1>6. touch(doc, ev) \in Documents /\ touch(doc, ev).tenant = doc.tenant
        /\ touch(doc, ev).audit = Append(doc.audit, ev)
        /\ touch(doc, ev) = [doc EXCEPT !.audit = Append(@, ev)]
    BY <1>2, TouchFacts
  <1> HIDE DEF ev, new, val
  <1>7. new \in Documents /\ new.tenant = doc.tenant /\ new.audit = Append(doc.audit, ev)
    BY <1>3, <1>4, <1>6 DEF Documents
  <1>8. new = Applied(doc, ev)
    BY <1>4, <1>5, <1>6 DEF Documents
  <1> QED
    BY <1>2, <1>7, <1>8 DEF Explained, new

LEMMA StatusExplained ==
    ASSUME NEW doc \in Documents, NEW a \in Analysts, NEW st \in Statuses
    PROVE  Explained(doc, transition(doc, st, a))
  <1> DEFINE ev == Event("status_changed", a, st)
             new == transition(doc, st, a)
             val == st
  <1>1. "status_changed" \in Names /\ st \in Args
    BY DEF Names, Args
  <1>2. ev \in Events /\ ev.event = "status_changed" /\ ev.arg = st
    BY <1>1, EventFacts
  <1>3. val \in Statuses
    BY DEF Documents, Owners
  <1>4. new = [touch(doc, ev) EXCEPT !.status = val]
    BY DEF transition, touch, Documents
  <1>5. Applied(doc, ev) = [[doc EXCEPT !.status = val] EXCEPT !.audit = Append(@, ev)]
    BY <1>2 DEF Applied
  <1>6. touch(doc, ev) \in Documents /\ touch(doc, ev).tenant = doc.tenant
        /\ touch(doc, ev).audit = Append(doc.audit, ev)
        /\ touch(doc, ev) = [doc EXCEPT !.audit = Append(@, ev)]
    BY <1>2, TouchFacts
  <1> HIDE DEF ev, new, val
  <1>7. new \in Documents /\ new.tenant = doc.tenant /\ new.audit = Append(doc.audit, ev)
    BY <1>3, <1>4, <1>6 DEF Documents
  <1>8. new = Applied(doc, ev)
    BY <1>4, <1>5, <1>6 DEF Documents
  <1> QED
    BY <1>2, <1>7, <1>8 DEF Explained, new

LEMMA FindingLinked ==
    ASSUME NEW doc \in Documents, NEW a \in Analysts, NEW f \in Findings, f \notin doc.findings
    PROVE  Explained(doc, link_finding(doc, f, a))
  <1> DEFINE ev == Event("finding_linked", a, f)
             new == link_finding(doc, f, a)
             val == doc.findings \cup {f}
  <1>1. "finding_linked" \in Names /\ f \in Args
    BY DEF Names, Args
  <1>2. ev \in Events /\ ev.event = "finding_linked" /\ ev.arg = f
    BY <1>1, EventFacts
  <1>3. val \in SUBSET Findings
    BY DEF Documents, Owners
  <1>4. new = [touch(doc, ev) EXCEPT !.findings = val]
    BY DEF link_finding, touch, Documents
  <1>5. Applied(doc, ev) = [[doc EXCEPT !.findings = val] EXCEPT !.audit = Append(@, ev)]
    BY <1>2 DEF Applied
  <1>6. touch(doc, ev) \in Documents /\ touch(doc, ev).tenant = doc.tenant
        /\ touch(doc, ev).audit = Append(doc.audit, ev)
        /\ touch(doc, ev) = [doc EXCEPT !.audit = Append(@, ev)]
    BY <1>2, TouchFacts
  <1> HIDE DEF ev, new, val
  <1>7. new \in Documents /\ new.tenant = doc.tenant /\ new.audit = Append(doc.audit, ev)
    BY <1>3, <1>4, <1>6 DEF Documents
  <1>8. new = Applied(doc, ev)
    BY <1>4, <1>5, <1>6 DEF Documents
  <1> QED
    BY <1>2, <1>7, <1>8 DEF Explained, new

LEMMA FindingUnlinked ==
    ASSUME NEW doc \in Documents, NEW a \in Analysts, NEW f \in Findings, f \in doc.findings
    PROVE  Explained(doc, unlink_finding(doc, f, a))
  <1> DEFINE ev == Event("finding_unlinked", a, f)
             new == unlink_finding(doc, f, a)
             val == doc.findings \ {f}
  <1>1. "finding_unlinked" \in Names /\ f \in Args
    BY DEF Names, Args
  <1>2. ev \in Events /\ ev.event = "finding_unlinked" /\ ev.arg = f
    BY <1>1, EventFacts
  <1>3. val \in SUBSET Findings
    BY DEF Documents, Owners
  <1>4. new = [touch(doc, ev) EXCEPT !.findings = val]
    BY DEF unlink_finding, touch, Documents
  <1>5. Applied(doc, ev) = [[doc EXCEPT !.findings = val] EXCEPT !.audit = Append(@, ev)]
    BY <1>2 DEF Applied
  <1>6. touch(doc, ev) \in Documents /\ touch(doc, ev).tenant = doc.tenant
        /\ touch(doc, ev).audit = Append(doc.audit, ev)
        /\ touch(doc, ev) = [doc EXCEPT !.audit = Append(@, ev)]
    BY <1>2, TouchFacts
  <1> HIDE DEF ev, new, val
  <1>7. new \in Documents /\ new.tenant = doc.tenant /\ new.audit = Append(doc.audit, ev)
    BY <1>3, <1>4, <1>6 DEF Documents
  <1>8. new = Applied(doc, ev)
    BY <1>4, <1>5, <1>6 DEF Documents
  <1> QED
    BY <1>2, <1>7, <1>8 DEF Explained, new

LEMMA EntityLinked ==
    ASSUME NEW doc \in Documents, NEW a \in Analysts, NEW e \in Entities, e \notin doc.entities
    PROVE  Explained(doc, link_entity(doc, e, a))
  <1> DEFINE ev == Event("entity_linked", a, e)
             new == link_entity(doc, e, a)
             val == doc.entities \cup {e}
  <1>1. "entity_linked" \in Names /\ e \in Args
    BY DEF Names, Args
  <1>2. ev \in Events /\ ev.event = "entity_linked" /\ ev.arg = e
    BY <1>1, EventFacts
  <1>3. val \in SUBSET Entities
    BY DEF Documents, Owners
  <1>4. new = [touch(doc, ev) EXCEPT !.entities = val]
    BY DEF link_entity, touch, Documents
  <1>5. Applied(doc, ev) = [[doc EXCEPT !.entities = val] EXCEPT !.audit = Append(@, ev)]
    BY <1>2 DEF Applied
  <1>6. touch(doc, ev) \in Documents /\ touch(doc, ev).tenant = doc.tenant
        /\ touch(doc, ev).audit = Append(doc.audit, ev)
        /\ touch(doc, ev) = [doc EXCEPT !.audit = Append(@, ev)]
    BY <1>2, TouchFacts
  <1> HIDE DEF ev, new, val
  <1>7. new \in Documents /\ new.tenant = doc.tenant /\ new.audit = Append(doc.audit, ev)
    BY <1>3, <1>4, <1>6 DEF Documents
  <1>8. new = Applied(doc, ev)
    BY <1>4, <1>5, <1>6 DEF Documents
  <1> QED
    BY <1>2, <1>7, <1>8 DEF Explained, new

LEMMA EntityUnlinked ==
    ASSUME NEW doc \in Documents, NEW a \in Analysts, NEW e \in Entities, e \in doc.entities
    PROVE  Explained(doc, unlink_entity(doc, e, a))
  <1> DEFINE ev == Event("entity_unlinked", a, e)
             new == unlink_entity(doc, e, a)
             val == doc.entities \ {e}
  <1>1. "entity_unlinked" \in Names /\ e \in Args
    BY DEF Names, Args
  <1>2. ev \in Events /\ ev.event = "entity_unlinked" /\ ev.arg = e
    BY <1>1, EventFacts
  <1>3. val \in SUBSET Entities
    BY DEF Documents, Owners
  <1>4. new = [touch(doc, ev) EXCEPT !.entities = val]
    BY DEF unlink_entity, touch, Documents
  <1>5. Applied(doc, ev) = [[doc EXCEPT !.entities = val] EXCEPT !.audit = Append(@, ev)]
    BY <1>2 DEF Applied
  <1>6. touch(doc, ev) \in Documents /\ touch(doc, ev).tenant = doc.tenant
        /\ touch(doc, ev).audit = Append(doc.audit, ev)
        /\ touch(doc, ev) = [doc EXCEPT !.audit = Append(@, ev)]
    BY <1>2, TouchFacts
  <1> HIDE DEF ev, new, val
  <1>7. new \in Documents /\ new.tenant = doc.tenant /\ new.audit = Append(doc.audit, ev)
    BY <1>3, <1>4, <1>6 DEF Documents
  <1>8. new = Applied(doc, ev)
    BY <1>4, <1>5, <1>6 DEF Documents
  <1> QED
    BY <1>2, <1>7, <1>8 DEF Explained, new

\* A request that changed nothing is explained by the event it leaves.
LEMMA AuditedExplained ==
    ASSUME NEW doc \in Documents, NEW new, new = doc \/ Explained(doc, new),
           NEW ev \in Events, ev.event = "noop"
    PROVE  Explained(doc, audited(doc, new, ev))
  <1>1. CASE new = doc
    <2>1. audited(doc, new, ev) = touch(doc, ev)
      BY <1>1 DEF audited
    <2>2. Applied(doc, ev) = touch(doc, ev)
      BY DEF Applied, touch
    <2> QED
      BY <2>1, <2>2, TouchFacts, ZenonT(40) DEF Explained
  <1>2. CASE Explained(doc, new)
    <2>1. Len(new.audit) = Len(doc.audit) + 1 /\ Len(doc.audit) \in Nat
      BY <1>2 DEF Explained, Documents
    <2>2. audited(doc, new, ev) = new
      BY <2>1 DEF audited
    <2> QED
      BY <1>2, <2>2
  <1> QED
    BY <1>1, <1>2

\* What a step may do to the cases: none is dropped, each is left alone or changed as
\* one audit event says, and a new one starts with its creation event.
AuditedChange ==
    /\ DOMAIN docs \subseteq DOMAIN docs'
    /\ \A c \in DOMAIN docs : docs'[c] = docs[c] \/ Explained(docs[c], docs'[c])
    /\ \A c \in DOMAIN docs' \ DOMAIN docs :
         \E t \in Tenants, o \in Owners, a \in Analysts : docs'[c] = new_case(t, o, a)

DocsInv == \A c \in DOMAIN docs : docs[c] \in Documents /\ Len(docs[c].audit) >= 1

LEMMA MutateFacts ==
    ASSUME DocsInv, NEW c \in DOMAIN docs, NEW s, NEW new, NEW vs,
           Mutate(c, s, new, vs), new = docs[c] \/ Explained(docs[c], new)
    PROVE  AuditedChange
  <1>1. docs' = [docs EXCEPT ![c] = new]
    BY DEF Mutate
  <1> QED
    BY <1>1 DEF AuditedChange

LEMMA NoopEvent ==
    ASSUME NEW a \in Analysts, NEW r \in AllRoutes
    PROVE  Event("noop", a, r) \in Events /\ Event("noop", a, r).event = "noop"
  <1>1. "noop" \in Names /\ r \in Args
    BY DEF Names, Args
  <1> QED
    BY <1>1, EventFacts

LEMMA NoopFacts ==
    ASSUME CaseAssumption, NEW s \in Sessions, NEW r \in AllRoutes
    PROVE  /\ Noop(r, s) \in Events /\ Noop(r, s).event = "noop"
           /\ s.analyst \in Analysts /\ s.tenant \in Tenants
  <1>1. s.analyst \in Analysts /\ s.tenant \in Tenants
    BY DEF Analysts, CaseAssumption
  <1> QED
    BY <1>1, NoopEvent DEF Noop

LEMMA CaseStepAudited ==
    ASSUME CaseAssumption, DocsInv, NEW c \in Cases, NEW s \in Sessions, CaseStep(c, s)
    PROVE  AuditedChange /\ UNCHANGED drainVars /\ outbox \subseteq outbox'
  <1>1. s.analyst \in Analysts /\ s.tenant \in Tenants
    BY NoopFacts DEF AllRoutes
  <1>2. \A r \in AllRoutes : Noop(r, s) \in Events /\ Noop(r, s).event = "noop"
    BY NoopFacts
  <1>3. c \in DOMAIN docs => docs[c] \in Documents
    BY DEF DocsInv
  <1>4. ASSUME NEW o \in Analysts \cup {"nobody"}, Create(c, s, o)
        PROVE  AuditedChange /\ UNCHANGED drainVars /\ outbox \subseteq outbox'
    <2>1. docs' = [x \in DOMAIN docs \cup {c} |->
                     IF x = c THEN new_case(s.tenant, o, s.analyst) ELSE docs[x]]
          /\ UNCHANGED <<outbox, drainVars>> /\ c \notin DOMAIN docs
      BY <1>4 DEF Create
    <2>2. o \in Owners
      BY DEF Owners
    <2> QED
      BY <1>1, <2>1, <2>2 DEF AuditedChange
  <1>5. ASSUME NEW o \in Analysts \cup {"nobody"}, PostOwner(c, s, o) PROVE AuditedChange
    BY <1>1, <1>3, <1>5, OwnerExplained, MutateFacts DEF PostOwner, Owners
  <1>6. ASSUME NEW w \in Analysts, PostAssign(c, s, w) PROVE AuditedChange
    <2>1. c \in DOMAIN docs /\ docs[c] \in Documents
      BY <1>3, <1>6 DEF PostAssign
    <2>2. \/ assign(docs[c], w, s.analyst) = docs[c]
          \/ Explained(docs[c], assign(docs[c], w, s.analyst))
      BY <1>1, <2>1, AssignExplained DEF assign
    <2>3. Explained(docs[c], audited(docs[c], assign(docs[c], w, s.analyst), Noop("assign", s)))
      BY <1>2, <2>1, <2>2, AuditedExplained DEF AllRoutes
    <2> QED
      BY <1>6, <2>1, <2>3, MutateFacts DEF PostAssign
  <1>7. ASSUME NEW w \in Analysts, DeleteAssign(c, s, w) PROVE AuditedChange
    <2>1. c \in DOMAIN docs /\ docs[c] \in Documents
      BY <1>3, <1>7 DEF DeleteAssign
    <2>2. \/ unassign(docs[c], w, s.analyst) = docs[c]
          \/ Explained(docs[c], unassign(docs[c], w, s.analyst))
      BY <1>1, <2>1, UnassignExplained DEF unassign
    <2>3. Explained(docs[c], audited(docs[c], unassign(docs[c], w, s.analyst), Noop("unassign", s)))
      BY <1>2, <2>1, <2>2, AuditedExplained DEF AllRoutes
    <2> QED
      BY <1>7, <2>1, <2>3, MutateFacts DEF DeleteAssign
  <1>8. ASSUME NEW st \in Statuses, PostStatus(c, s, st) PROVE AuditedChange
    <2>1. c \in DOMAIN docs /\ docs[c] \in Documents
      BY <1>3, <1>8 DEF PostStatus
    <2>2. \/ transition(docs[c], st, s.analyst) = docs[c]
          \/ Explained(docs[c], transition(docs[c], st, s.analyst))
      BY <1>1, <2>1, StatusExplained
    <2>3. Explained(docs[c], audited(docs[c], transition(docs[c], st, s.analyst), Noop("status", s)))
      BY <1>2, <2>1, <2>2, AuditedExplained DEF AllRoutes
    <2> QED
      BY <1>8, <2>1, <2>3, MutateFacts DEF PostStatus
  <1>9. ASSUME NEW f \in Findings, PostFindings(c, s, f) PROVE AuditedChange
    <2>1. c \in DOMAIN docs /\ docs[c] \in Documents
      BY <1>3, <1>9 DEF PostFindings
    <2>2. \/ link_finding(docs[c], f, s.analyst) = docs[c]
          \/ Explained(docs[c], link_finding(docs[c], f, s.analyst))
      BY <1>1, <2>1, FindingLinked DEF link_finding
    <2>3. Explained(docs[c], audited(docs[c], link_finding(docs[c], f, s.analyst), Noop("findings", s)))
      BY <1>2, <2>1, <2>2, AuditedExplained DEF AllRoutes
    <2> QED
      BY <1>9, <2>1, <2>3, MutateFacts DEF PostFindings
  <1>10. ASSUME NEW f \in Findings, DeleteFindings(c, s, f) PROVE AuditedChange
    <2>1. c \in DOMAIN docs /\ docs[c] \in Documents
      BY <1>3, <1>10 DEF DeleteFindings
    <2>2. \/ unlink_finding(docs[c], f, s.analyst) = docs[c]
          \/ Explained(docs[c], unlink_finding(docs[c], f, s.analyst))
      BY <1>1, <2>1, FindingUnlinked DEF unlink_finding
    <2>3. Explained(docs[c], audited(docs[c], unlink_finding(docs[c], f, s.analyst), Noop("unfindings", s)))
      BY <1>2, <2>1, <2>2, AuditedExplained DEF AllRoutes
    <2> QED
      BY <1>10, <2>1, <2>3, MutateFacts DEF DeleteFindings
  <1>11. ASSUME NEW e \in Entities, PostEntities(c, s, e) PROVE AuditedChange
    <2>1. c \in DOMAIN docs /\ docs[c] \in Documents
      BY <1>3, <1>11 DEF PostEntities
    <2>2. \/ link_entity(docs[c], e, s.analyst) = docs[c]
          \/ Explained(docs[c], link_entity(docs[c], e, s.analyst))
      BY <1>1, <2>1, EntityLinked DEF link_entity
    <2>3. Explained(docs[c], audited(docs[c], link_entity(docs[c], e, s.analyst), Noop("entities", s)))
      BY <1>2, <2>1, <2>2, AuditedExplained DEF AllRoutes
    <2> QED
      BY <1>11, <2>1, <2>3, MutateFacts DEF PostEntities
  <1>12. ASSUME NEW e \in Entities, DeleteEntities(c, s, e) PROVE AuditedChange
    <2>1. c \in DOMAIN docs /\ docs[c] \in Documents
      BY <1>3, <1>12 DEF DeleteEntities
    <2>2. \/ unlink_entity(docs[c], e, s.analyst) = docs[c]
          \/ Explained(docs[c], unlink_entity(docs[c], e, s.analyst))
      BY <1>1, <2>1, EntityUnlinked DEF unlink_entity
    <2>3. Explained(docs[c], audited(docs[c], unlink_entity(docs[c], e, s.analyst), Noop("unentities", s)))
      BY <1>2, <2>1, <2>2, AuditedExplained DEF AllRoutes
    <2> QED
      BY <1>12, <2>1, <2>3, MutateFacts DEF DeleteEntities
  <1>13. ASSUME PostNotes(c, s) PROVE AuditedChange
    BY <1>1, <1>3, <1>13, NoteExplained, MutateFacts DEF PostNotes
  <1>14. ASSUME NEW st \in Statuses, NEW vs, Resolve(c, s, st, vs) PROVE AuditedChange
    <2>1. c \in DOMAIN docs /\ docs[c] \in Documents
      BY <1>3, <1>14 DEF Resolve
    <2>2. Explained(docs[c], transition(docs[c], st, s.analyst))
      BY <1>1, <2>1, StatusExplained
    <2> QED
      BY <1>14, <2>1, <2>2, MutateFacts DEF Resolve
  <1>15. ASSUME NEW vs, Replay(c, s, vs) PROVE AuditedChange
    BY <1>15, MutateFacts DEF Replay
  <1>16. CASE \E o \in Analysts \cup {"nobody"} : Create(c, s, o)
    BY <1>4, <1>16
  <1>17. CASE ~\E o \in Analysts \cup {"nobody"} : Create(c, s, o)
    <2>1. \E new, vs : Mutate(c, s, new, vs)
      BY <1>17 DEF CaseStep, PostOwner, PostAssign, DeleteAssign, PostStatus, PostFindings, DeleteFindings, PostEntities,
            DeleteEntities, PostNotes, Resolve, Replay
    <2>2. UNCHANGED drainVars /\ outbox \subseteq outbox'
      BY <2>1 DEF Mutate
    <2>3. AuditedChange
      BY <1>17, <1>5, <1>6, <1>7, <1>8, <1>9, <1>10, <1>11, <1>12, <1>13, <1>14, <1>15
         DEF CaseStep
    <2> QED
      BY <2>2, <2>3
  <1> QED
    BY <1>16, <1>17

\* Only a case step touches the cases.
LEMMA NextAudited ==
    ASSUME CaseAssumption, DocsInv, [Next]_vars
    PROVE  AuditedChange
  <1>1. CASE \E c \in Cases, s \in Sessions : CaseStep(c, s)
    BY <1>1, CaseStepAudited
  <1>2. CASE ~\E c \in Cases, s \in Sessions : CaseStep(c, s)
    <2>1. docs' = docs
      BY <1>2 DEF Next, DrainStep, DrainSnapshot, DrainClaim, DrainAccepted, DrainRejected, DrainAckLost,
                  DrainInterrupted, DrainMark, DrainMarkFails, DrainRelease, DrainEnd, Crash, vars
    <2> QED
      BY <2>1 DEF AuditedChange
  <1> QED
    BY <1>1, <1>2

LEMMA DrainNext ==
    ASSUME CaseAssumption, DocsInv, DrainInv, [Next]_vars
    PROVE  DrainInv'
  <1>1. CASE \E c \in Cases, s \in Sessions : CaseStep(c, s)
    BY <1>1, CaseStepAudited, EnqueueStep
  <1>2. CASE \E d \in Drains : DrainStep(d)
    BY <1>2, SnapshotStep, ClaimStep, AcceptedStep, RejectedStep, AckLostStep, InterruptedStep,
       MarkStep, MarkFailsStep, ReleaseStep, EndStep DEF DrainStep
  <1>3. CASE Crash
    BY <1>3, CrashStep
  <1>4. CASE UNCHANGED vars
    BY <1>4, EnqueueStep DEF vars, drainVars
  <1> QED
    BY <1>1, <1>2, <1>3, <1>4 DEF Next

\* The document a case is created with.
LEMMA NewCaseFacts ==
    ASSUME NEW t \in Tenants, NEW o \in Owners, NEW a \in Analysts
    PROVE  /\ new_case(t, o, a) \in Documents /\ Len(new_case(t, o, a).audit) = 1
           /\ new_case(t, o, a).tenant = t
           /\ new_case(t, o, a).audit[1].arg = o /\ new_case(t, o, a).audit[1].actor = a
  <1> DEFINE ev == Event("created", a, o)
  <1>1. "created" \in Names /\ o \in Args /\ "new" \in Statuses
    BY DEF Names, Args, Statuses
  <1>2. ev \in Events /\ ev.arg = o
    BY <1>1, EventFacts
  <1>3. ev.actor = a
    BY DEF Event
  <1> DEFINE new == [tenant |-> t, owner |-> o, assignees |-> {}, status |-> "new", notes |-> 0,
                     findings |-> {}, entities |-> {}, audit |-> <<ev>>]
  <1>4. new_case(t, o, a) = new
    BY DEF new_case
  <1> HIDE DEF ev
  <1>5. <<ev>> \in Seq(Events) /\ Len(<<ev>>) = 1 /\ <<ev>>[1] = ev
    BY <1>2
  <1>6. new \in Documents /\ new.audit = <<ev>> /\ new.tenant = t
    BY <1>1, <1>5 DEF Documents
  <1> QED
    BY <1>2, <1>3, <1>4, <1>5, <1>6

LEMMA DocsNext ==
    ASSUME DocsInv, AuditedChange
    PROVE  DocsInv'
  <1> SUFFICES ASSUME NEW c \in DOMAIN docs'
               PROVE  docs'[c] \in Documents /\ Len(docs'[c].audit) >= 1
    BY DEF DocsInv
  <1>1. CASE c \in DOMAIN docs
    <2>1. docs[c] \in Documents /\ Len(docs[c].audit) >= 1
      BY <1>1 DEF DocsInv
    <2>2. CASE Explained(docs[c], docs'[c])
      BY <2>1, <2>2 DEF Explained, Documents
    <2> QED
      BY <1>1, <2>1, <2>2 DEF AuditedChange
  <1>2. CASE c \notin DOMAIN docs
    BY <1>2, NewCaseFacts DEF AuditedChange
  <1> QED
    BY <1>1, <1>2

-----------------------------------------------------------------------------
(* A case is what its trail says.  The invariant keeps the documents the   *)
(* case went through; that replaying the trail computes the same documents *)
(* is an induction on the trail, by the least event where the two differ.  *)

\* One round of the definition of Replayed, on the documents h.
Round(h, tenant, audit, n) ==
    [i \in 1..n |-> IF i = 1 THEN new_case(tenant, audit[1].arg, audit[1].actor)
                    ELSE Applied(h[i - 1], audit[i])]

\* The documents a case went through.
Trail(h, doc) ==
    /\ h = Round(h, doc.tenant, doc.audit, Len(doc.audit))
    /\ h[Len(doc.audit)] = doc

TrailInv == DocsInv /\ \A c \in DOMAIN docs : \E h : Trail(h, docs[c])

LEMMA LeastNumber ==
    ASSUME NEW T \in SUBSET Nat, T # {}
    PROVE  \E m \in T : \A k \in T : m <= k
  <1> DEFINE R == {ss \in Nat \X Nat : ss[1] < ss[2]}
  <1>1. IsWellFoundedOn(R, Nat)
    BY NatLessThanWellFounded, Zenon DEF OpToRel
  <1>2. \A x, y \in Nat : x < y => <<x, y>> \in R
    OBVIOUS
  <1> HIDE DEF R
  <1>3. PICK x \in T : \A y \in T : ~(<<y, x>> \in R)
    BY <1>1, WFMin, Zenon
  <1>4. \A y \in T : ~(y < x)
    BY <1>2, <1>3
  <1>5. \A y \in T : x <= y
    BY <1>4
  <1> QED
    BY <1>5

\* The definition has one solution.
LEMMA RoundUnique ==
    ASSUME NEW t, NEW audit, NEW n \in Nat \ {0}, NEW g, NEW h,
           g = Round(g, t, audit, n), h = Round(h, t, audit, n)
    PROVE  g[n] = h[n]
  <1> DEFINE T == {i \in 1..n : g[i] # h[i]}
  <1>1. SUFFICES ASSUME T # {} PROVE FALSE
    OBVIOUS
  <1>2. T \in SUBSET Nat
    OBVIOUS
  <1>3. PICK m \in T : \A k \in T : m <= k
    BY <1>1, <1>2, LeastNumber
  <1>4. m \in 1..n /\ g[m] # h[m]
    BY <1>3
  <1>5. m # 1 => g[m - 1] = h[m - 1]
    <2>1. ASSUME m # 1, g[m - 1] # h[m - 1] PROVE FALSE
      <3>1. m - 1 \in 1..n
        BY <1>4, <2>1
      <3>2. m - 1 \in T
        BY <2>1, <3>1
      <3> QED
        BY <1>3, <1>4, <3>2
    <2> QED
      BY <2>1
  <1> DEFINE Val(f) == IF m = 1 THEN new_case(t, audit[1].arg, audit[1].actor)
                       ELSE Applied(f[m - 1], audit[m])
  <1>6. g[m] = Val(g) /\ h[m] = Val(h)
    BY <1>4 DEF Round
  <1>7. Val(g) = Val(h)
    BY <1>5
  <1> QED
    BY <1>4, <1>6, <1>7

\* So replaying a trail gives the document at its end.
LEMMA ReplayedIsTrail ==
    ASSUME NEW doc, NEW h, Trail(h, doc), Len(doc.audit) \in Nat \ {0}
    PROVE  Replayed(doc.tenant, doc.audit, Len(doc.audit)) = doc
  <1> DEFINE n == Len(doc.audit)
             f == CHOOSE g : g = Round(g, doc.tenant, doc.audit, n)
  <1>1. Replayed(doc.tenant, doc.audit, n) = f[n]
    BY DEF Replayed, Round
  <1>2. h = Round(h, doc.tenant, doc.audit, n) /\ h[n] = doc
    BY DEF Trail
  <1>3. f = Round(f, doc.tenant, doc.audit, n)
    BY <1>2
  <1> HIDE DEF f
  <1>4. f[n] = h[n]
    BY <1>2, <1>3, RoundUnique
  <1> QED
    BY <1>1, <1>2, <1>4

LEMMA TrailGrows ==
    ASSUME NEW doc \in Documents, Len(doc.audit) >= 1, NEW h, Trail(h, doc),
           NEW new, Explained(doc, new)
    PROVE  \E g : Trail(g, new)
  <1> DEFINE n == Len(doc.audit)
             g == [i \in 1..n + 1 |-> IF i <= n THEN h[i] ELSE new]
  <1>1. PICK ev \in Events : new = Applied(doc, ev) /\ new.audit = Append(doc.audit, ev)
    BY DEF Explained
  <1>2. doc.audit \in Seq(Events) /\ n \in Nat \ {0} /\ new.tenant = doc.tenant
    BY DEF Explained, Documents
  <1>3. /\ Len(new.audit) = n + 1 /\ new.audit[n + 1] = ev
        /\ \A i \in 1..n : new.audit[i] = doc.audit[i]
    BY <1>1, <1>2
  <1>4. h = Round(h, doc.tenant, doc.audit, n) /\ h[n] = doc
    BY DEF Trail
  <1> HIDE DEF n
  <1>5. g[n] = doc /\ g[n + 1] = new /\ \A i \in 1..n : g[i] = h[i]
    BY <1>2, <1>4
  <1>6. ASSUME NEW i \in 1..n + 1
        PROVE  g[i] = IF i = 1 THEN new_case(new.tenant, new.audit[1].arg, new.audit[1].actor)
                      ELSE Applied(g[i - 1], new.audit[i])
    <2>1. CASE i = n + 1
      <3>1. i # 1 /\ i - 1 = n
        BY <1>2, <2>1
      <3> QED
        BY <1>1, <1>3, <1>5, <2>1, <3>1
    <2>2. CASE i # n + 1 /\ i = 1
      <3>1. 1 \in 1..n
        BY <1>2
      <3>2. h[1] = new_case(doc.tenant, doc.audit[1].arg, doc.audit[1].actor)
        BY <1>4, <3>1 DEF Round
      <3> QED
        BY <1>2, <1>3, <1>5, <2>2, <3>1, <3>2
    <2>3. CASE i # n + 1 /\ i # 1
      <3>1. i \in 1..n /\ i - 1 \in 1..n
        BY <1>2, <2>3
      <3>2. h[i] = Applied(h[i - 1], doc.audit[i])
        BY <1>4, <2>3, <3>1 DEF Round
      <3> QED
        BY <1>3, <1>5, <2>3, <3>1, <3>2
    <2> QED
      BY <2>1, <2>2, <2>3
  <1>7. g = Round(g, new.tenant, new.audit, n + 1)
    BY <1>2, <1>6 DEF Round
  <1> QED
    BY <1>3, <1>5, <1>7 DEF Trail

LEMMA TrailStarts ==
    ASSUME NEW t \in Tenants, NEW o \in Owners, NEW a \in Analysts
    PROVE  \E g : Trail(g, new_case(t, o, a))
  <1> DEFINE new == new_case(t, o, a)
             g == [i \in 1..1 |-> new]
  <1>1. /\ Len(new.audit) = 1 /\ new.tenant = t
        /\ new.audit[1].arg = o /\ new.audit[1].actor = a
    BY NewCaseFacts
  <1>2. new = new_case(new.tenant, new.audit[1].arg, new.audit[1].actor)
    BY <1>1
  <1> HIDE DEF new
  <1>3. g = Round(g, new.tenant, new.audit, 1) /\ g[1] = new
    BY <1>2 DEF Round
  <1> QED
    BY <1>1, <1>3 DEF Trail, new

LEMMA TrailNext ==
    ASSUME TrailInv, AuditedChange
    PROVE  TrailInv'
  <1>1. DocsInv'
    BY DocsNext DEF TrailInv
  <1>2. ASSUME NEW c \in DOMAIN docs' PROVE \E h : Trail(h, docs'[c])
    <2>1. CASE c \in DOMAIN docs /\ docs'[c] = docs[c]
      BY <2>1 DEF TrailInv
    <2>2. CASE c \in DOMAIN docs /\ Explained(docs[c], docs'[c])
      <3>1. docs[c] \in Documents /\ Len(docs[c].audit) >= 1
        BY <2>2 DEF TrailInv, DocsInv
      <3>2. PICK h : Trail(h, docs[c])
        BY <2>2 DEF TrailInv
      <3> QED
        BY <2>2, <3>1, <3>2, TrailGrows
    <2>3. CASE c \notin DOMAIN docs
      BY <2>3, TrailStarts DEF AuditedChange
    <2> QED
      BY <2>1, <2>2, <2>3 DEF AuditedChange
  <1>3. \A c \in DOMAIN docs' : \E h : Trail(h, docs'[c])
    BY <1>2
  <1> QED
    BY <1>1, <1>3 DEF TrailInv, Trail, Round

LEMMA TrailInit == Init => TrailInv
  <1> SUFFICES ASSUME Init PROVE \A c \in DOMAIN docs : FALSE
    BY DEF TrailInv, DocsInv
  <1> QED
    BY DEF Init

LEMMA TrailExplains == TrailInv => AuditExplainsCase
  <1> SUFFICES ASSUME TrailInv, NEW c \in DOMAIN docs
               PROVE  docs[c] = Replayed(docs[c].tenant, docs[c].audit, Len(docs[c].audit))
    BY DEF AuditExplainsCase
  <1>1. PICK h : Trail(h, docs[c])
    BY DEF TrailInv
  <1>2. Len(docs[c].audit) \in Nat \ {0}
    BY DEF TrailInv, DocsInv, Documents
  <1> QED
    BY <1>1, <1>2, ReplayedIsTrail

\* "No mutation is silent", as a rule for every step: a case is never dropped, and what
\* a step makes of it is what one new audit event, appended to its trail, says.
NoSilentMutation == [][AuditedChange]_vars

-----------------------------------------------------------------------------
\* Every case is at all times what its audit trail says happened to it, whatever
\* sequence of routes and library calls changed it.
THEOREM AuditAlwaysExplains == Spec => []AuditExplainsCase
  <1>1. TrailInv /\ [Next]_vars => TrailInv'
    BY NextAudited, TrailNext, CaseAssumption DEF TrailInv
  <1> QED
    BY <1>1, TrailInit, TrailExplains, PTL DEF Spec

\* No step of the store changes a case without the event that explains the change.
THEOREM MutationsAudited == Spec => NoSilentMutation
  <1>1. DocsInv /\ [Next]_vars => AuditedChange /\ DocsInv'
    BY NextAudited, DocsNext, CaseAssumption
  <1>2. Init => DocsInv
    BY TrailInit DEF TrailInv
  <1>3. DocsInv /\ [Next]_vars => [AuditedChange]_vars
    BY <1>1
  <1> QED
    BY <1>1, <1>2, <1>3, PTL DEF Spec, NoSilentMutation

\* However drains overlap, are interrupted, retry, fail to mark or die, a row marked
\* delivered was received, and no row is received more often than once plus once per fault:
\* a crash, a lost answer, or a mark that fails after the acceptance.
THEOREM DispositionsDeliveredOnce == Spec => []DeliveredOnce
  <1> DEFINE Inv == DocsInv /\ DrainInv
  <1>1. Init => Inv
    BY TrailInit, DrainInit DEF TrailInv
  <1>2. Inv /\ [Next]_vars => Inv'
    BY NextAudited, DocsNext, DrainNext, CaseAssumption
  <1>3. Inv => DeliveredOnce
    <2> SUFFICES ASSUME DrainInv PROVE DeliveredOnce
      OBVIOUS
    <2>1. \A r \in delivered : \E x \in receipts : x.id = r
      BY DEF DrainInv, Settled, Copies
    <2>2. ASSUME NEW x \in receipts PROVE x.copy <= 1 + faults
      <3>1. /\ Cardinality(Copies(x.id)) \in Nat /\ faults \in Nat /\ x.copy \in Nat
            /\ x.copy <= Cardinality(Copies(x.id))
            /\ Cardinality(Copies(x.id)) <= faults + (IF Settled(x.id) THEN 1 ELSE 0)
        BY CopiesCount DEF DrainInv
      <3> QED
        BY <3>1
    <2> QED
      BY <2>1, <2>2 DEF DeliveredOnce
  <1> QED
    BY <1>1, <1>2, <1>3, PTL DEF Spec
=============================================================================
