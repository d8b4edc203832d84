--------------------------- MODULE ForwarderProofs ---------------------------
(***************************************************************************)
(* Nothing committed is lost, and nothing terminal is sent again: proofs   *)
(* for all topics, sinks, numbers of retries and bounds.                   *)
(***************************************************************************)
EXTENDS Forwarder, TLAPS, FiniteSetTheorems, WellFoundedInduction

-----------------------------------------------------------------------------
(* The inductive invariant.                                                *)

\* A receiver has a record of this obligation of s.
Received(s, k) == \E q \in LiveRecords : obl_key(q, s) = k /\ got[s][q] > 0

\* A record of the obligation was received, is a dead letter or was torn off.
Accounted(s, k) ==
    \E q \in LiveRecords : /\ obl_key(q, s) = k
                           /\ got[s][q] > 0 \/ q \in DeadLetters(s) \/ <<s, q>> \in torn

\* What a ledger line says has happened.
Backed(s, e) ==
    \/ e.outcome = "suppressed" /\ \E r \in Records : e.key = obl_key(r, "(withheld)")
    \/ e.outcome = "delivered" /\ Received(s, e.key)
    \/ e.outcome = "dead_lettered" /\ Accounted(s, e.key)

EmitStages == {"withheld", "dedup", "send", "record", "dlq", "mark"}

\* What is in hand agrees with the phase; between batches no record is in hand.
Control ==
    /\ phase \in {"poll", "down"} => work = Idle
    /\ phase = "replay" => work.stage \in {"scan", "transition", "rewrite"}
    /\ phase = "batch" => work = Idle \/ (work.stage \in EmitStages /\ work.part \in Partitions)
    /\ work.stage # "idle" => work.sinks # <<>>
    /\ work.stage = "transition" => work.pending # <<>>
    /\ phase # "batch" => \A p \in Partitions : batch[p] = <<>>

\* The index of a running process knows every obligation of the file, and what
\* the file calls delivered in the last line of an obligation the index does too.
IndexOf(s) ==
    \A i \in DOMAIN ledger[s] :
        /\ \E e \in outcome[s] : e.key = ledger[s][i].key
        /\ /\ ledger[s][i].outcome = "delivered"
           /\ \A j \in i + 1 .. Len(ledger[s]) : ledger[s][j].key # ledger[s][i].key
           => ledger[s][i] \in outcome[s]

Filed == phase # "down" => \A s \in Sinks : IndexOf(s)

\* Every line of an index or a file is true.
Justified ==
    \A s \in Sinks : \A e \in outcome[s] \cup Range(ledger[s]) : Backed(s, e)

\* The items of an attempt are different obligations that the file does not know;
\* those that did not fail were received; those to be marked are in the
\* dead-letter file; the entry whose transition is due was received; the file
\* that is to be rewritten is empty.
Attempted ==
    LET s == Head(work.sinks) items == Range(work.pending)
    IN /\ work.stage \in {"send", "record"} =>
            /\ \A q, r \in items : obl_key(q, s) = obl_key(r, s) => q = r
            /\ \A r \in items : \A i \in DOMAIN ledger[s] : ledger[s][i].key # obl_key(r, s)
       /\ work.stage = "record" => /\ Range(work.failed) \subseteq items
                                   /\ \A r \in items \ Range(work.failed) : got[s][r] > 0
       /\ work.stage = "mark" => items \subseteq Range(dlq[s])
       /\ work.stage = "rewrite" => dlq[s] = <<>>
       /\ work.stage = "transition" => got[s][Head(work.pending)] > 0

\* What the sink in hand has not accounted for of the batch is pending.
Owed ==
    work.stage \in {"send", "record", "dlq", "mark"} =>
        \A r \in LiveBatch :
            \/ Accounted(Head(work.sinks), obl_key(r, Head(work.sinks)))
            \/ \E q \in Range(work.pending) :
                  obl_key(q, Head(work.sinks)) = obl_key(r, Head(work.sinks))

\* The sinks that are done have accounted for the batch, unless a write failed.
Passed ==
    phase = "batch" /\ work # Idle /\ ~work.broken =>
        \A s \in Sinks \ Range(work.sinks) : \A r \in LiveBatch : Accounted(s, obl_key(r, s))

\* Every sink has accounted for r.
Settled(r) == \A s \in Sinks : Accounted(s, obl_key(r, s))

\* Every live record read is settled, in hand, or of a batch that was given up.
ReadSettled ==
    phase # "down" =>
        \A p \in Partitions : \A i \in 1 .. position[p] :
            Live(Topic[p][i]) /\ Topic[p][i] \notin skipped /\ Topic[p][i] \notin Range(batch[p])
                => Settled(Topic[p][i])

CommittedSettled ==
    \A p \in Partitions : \A i \in 1 .. committed[p] :
        Live(Topic[p][i]) /\ Topic[p][i] \notin skipped => Settled(Topic[p][i])

IndInv ==
    /\ TypeOK /\ Control
    /\ Filed /\ Justified /\ Attempted
    /\ Owed /\ Passed /\ ReadSettled /\ CommittedSettled

-----------------------------------------------------------------------------
(* Sequences.                                                              *)

LEMMA RangeOf ==
    ASSUME NEW S, NEW rs \in Seq(S)
    PROVE  /\ Range(rs) \subseteq S
           /\ rs = <<>> <=> Range(rs) = {}
           /\ rs # <<>> => Head(rs) \in Range(rs) /\ Tail(rs) \in Seq(S)
           /\ rs # <<>> => Range(rs) = {Head(rs)} \cup Range(Tail(rs))
           /\ Len(rs) = 1 => Range(rs) = {Head(rs)}
  <1>1. Range(rs) = {rs[i] : i \in 1 .. Len(rs)} /\ Len(rs) \in Nat /\ \A i \in 1 .. Len(rs) : rs[i] \in S
    BY DEF Range
  <1>2. rs = <<>> <=> Range(rs) = {}
    BY <1>1
  <1>3. ASSUME rs # <<>>
        PROVE  /\ Head(rs) \in Range(rs) /\ Tail(rs) \in Seq(S)
               /\ Range(rs) = {Head(rs)} \cup Range(Tail(rs))
    <2>1. Head(rs) = rs[1] /\ 1 \in 1 .. Len(rs) /\ Tail(rs) \in Seq(S) /\ Len(Tail(rs)) = Len(rs) - 1
      BY <1>3
    <2>2. \A i \in 1 .. Len(rs) - 1 : Tail(rs)[i] = rs[i + 1]
      BY <1>3
    <2>3. Range(Tail(rs)) = {Tail(rs)[i] : i \in 1 .. Len(rs) - 1}
      <3>1. DOMAIN Tail(rs) = 1 .. Len(rs) - 1
        BY <2>1
      <3> QED
        BY <3>1, Zenon DEF Range
    <2>4. Range(Tail(rs)) \subseteq Range(rs)
      BY <1>1, <2>1, <2>2, <2>3
    <2>5. ASSUME NEW i \in 1 .. Len(rs), i # 1 PROVE rs[i] \in Range(Tail(rs))
      <3>1. i - 1 \in 1 .. Len(rs) - 1 /\ (i - 1) + 1 = i
        BY <2>5, <1>1
      <3>2. Tail(rs)[i - 1] = rs[i]
        BY <3>1, <2>2
      <3> QED
        BY <3>1, <3>2, <2>3
    <2>6. Range(rs) \subseteq {Head(rs)} \cup Range(Tail(rs))
      BY <1>1, <2>1, <2>5
    <2> QED
      BY <1>1, <2>1, <2>4, <2>6
  <1>4. Len(rs) = 1 => Range(rs) = {Head(rs)}
    BY <1>1
  <1> QED
    BY <1>1, <1>2, <1>3, <1>4

LEMMA TailLeft ==
    ASSUME NEW S, NEW rs \in Seq(S), rs # <<>>, Len(rs) # 1
    PROVE  Tail(rs) \in Seq(S) /\ Tail(rs) # <<>>
  <1>1. Len(rs) \in Nat /\ Len(rs) # 0
    OBVIOUS
  <1>2. Len(Tail(rs)) = Len(rs) - 1 /\ Tail(rs) \in Seq(S)
    OBVIOUS
  <1>3. Len(rs) - 1 # 0
    BY <1>1
  <1> QED
    BY <1>2, <1>3

LEMMA RangeConcat ==
    ASSUME NEW S, NEW rs \in Seq(S), NEW qs \in Seq(S)
    PROVE  rs \o qs \in Seq(S) /\ Range(rs \o qs) = Range(rs) \cup Range(qs)
  <1>1. /\ rs \o qs \in Seq(S) /\ Len(rs \o qs) = Len(rs) + Len(qs)
        /\ \A i \in 1 .. Len(rs) : (rs \o qs)[i] = rs[i]
        /\ \A i \in Len(rs) + 1 .. Len(rs) + Len(qs) : (rs \o qs)[i] = qs[i - Len(rs)]
    OBVIOUS
  <1>2. Range(rs \o qs) \subseteq Range(rs) \cup Range(qs)
    <2>1. SUFFICES ASSUME NEW i \in 1 .. Len(rs) + Len(qs)
                   PROVE  (rs \o qs)[i] \in Range(rs) \cup Range(qs)
      BY <1>1 DEF Range
    <2>2. CASE i <= Len(rs)
      BY <1>1, <2>2 DEF Range
    <2>3. CASE i > Len(rs)
      BY <1>1, <2>3 DEF Range
    <2> QED
      BY <2>2, <2>3
  <1>3. Range(rs) \subseteq Range(rs \o qs)
    BY <1>1 DEF Range
  <1>4. ASSUME NEW i \in 1 .. Len(qs) PROVE qs[i] \in Range(rs \o qs)
    <2>1. Len(rs) + i \in Len(rs) + 1 .. Len(rs) + Len(qs) /\ (Len(rs) + i) - Len(rs) = i
      OBVIOUS
    <2>2. (rs \o qs)[Len(rs) + i] = qs[i]
      BY <1>1, <2>1
    <2>3. Len(rs) + i \in DOMAIN (rs \o qs)
      BY <1>1, <2>1
    <2> QED
      BY <2>2, <2>3 DEF Range
  <1>5. Range(qs) \subseteq Range(rs \o qs)
    BY <1>4 DEF Range
  <1> QED
    BY <1>1, <1>2, <1>3, <1>5

LEMMA RangeSubSeq ==
    ASSUME NEW S, NEW rs \in Seq(S), NEW m \in Nat, NEW n \in 0 .. Len(rs)
    PROVE  /\ SubSeq(rs, m + 1, n) \in Seq(S)
           /\ Range(SubSeq(rs, m + 1, n)) = {rs[i] : i \in m + 1 .. n}
  <1> DEFINE qs == SubSeq(rs, m + 1, n)
  <1>1. CASE m >= n
    <2>1. qs = <<>> /\ m + 1 .. n = {}
      BY <1>1
    <2> QED
      BY <2>1 DEF Range
  <1>2. CASE m < n
    <2>1. qs \in Seq(S) /\ Len(qs) = n - m /\ \A i \in 1 .. n - m : qs[i] = rs[m + i]
      BY <1>2
    <2>2. Range(qs) = {qs[i] : i \in 1 .. n - m}
      <3>1. DOMAIN qs = 1 .. n - m
        BY <2>1
      <3> QED
        BY <3>1, Zenon DEF Range
    <2>3. ASSUME NEW i \in m + 1 .. n PROVE rs[i] \in Range(qs)
      <3>1. i - m \in 1 .. n - m /\ m + (i - m) = i
        BY <1>2
      <3> QED
        BY <2>1, <2>2, <3>1
    <2>4. ASSUME NEW i \in 1 .. n - m PROVE qs[i] \in {rs[j] : j \in m + 1 .. n}
      <3>1. m + i \in m + 1 .. n
        BY <1>2
      <3> QED
        BY <2>1, <3>1
    <2> QED
      BY <2>1, <2>2, <2>3, <2>4
  <1> QED
    BY <1>1, <1>2

LEMMA SubSeqHas ==
    ASSUME NEW S, NEW rs \in Seq(S), NEW m \in Nat, NEW n \in 0 .. Len(rs), NEW i \in m + 1 .. n
    PROVE  rs[i] \in Range(SubSeq(rs, m + 1, n))
  <1>1. Range(SubSeq(rs, m + 1, n)) = {rs[j] : j \in m + 1 .. n}
    BY RangeSubSeq
  <1> QED
    BY <1>1

LEMMA RangePrefix ==
    ASSUME NEW S, NEW rs \in Seq(S), NEW n \in 0 .. Len(rs)
    PROVE  /\ SubSeq(rs, 1, n) \in Seq(S) /\ Range(SubSeq(rs, 1, n)) \subseteq Range(rs)
           /\ Range(SubSeq(rs, 1, n)) = {rs[i] : i \in 1 .. n}
  <1>1. PICK m \in Nat : m = 0
    OBVIOUS
  <1>2. SubSeq(rs, 1, n) \in Seq(S) /\ Range(SubSeq(rs, 1, n)) = {rs[i] : i \in 1 .. n}
    <2>1. SubSeq(rs, m + 1, n) \in Seq(S) /\ Range(SubSeq(rs, m + 1, n)) = {rs[i] : i \in m + 1 .. n}
      BY RangeSubSeq
    <2>2. m + 1 = 1
      BY <1>1
    <2> QED
      BY <2>1, <2>2
  <1>3. {rs[i] : i \in 1 .. n} \subseteq Range(rs)
    BY DEF Range
  <1> QED
    BY <1>2, <1>3

-----------------------------------------------------------------------------
(* Picking positions.                                                      *)

\* Every position picked has its place in the result.
LEMMA PickedRange ==
    ASSUME NEW S, NEW rs \in Seq(S), NEW I \in SUBSET DOMAIN rs
    PROVE  Picked(rs, I) \in Seq(S) /\ Range(Picked(rs, I)) = {rs[i] : i \in I}
  <1> DEFINE Upto(i) == {j \in I : j <= i}
             rank == [i \in I |-> Cardinality(Upto(i))]
             at(n) == CHOOSE i \in I : Cardinality(Upto(i)) = n
             N == Cardinality(I)
  <1>1. I \subseteq Nat /\ Len(rs) \in Nat /\ DOMAIN rs = 1 .. Len(rs)
    OBVIOUS
  <1>2. IsFiniteSet(1 .. Len(rs))
    BY <1>1, FS_Interval
  <1>3. IsFiniteSet(I)
    BY <1>1, <1>2, FS_Subset
  <1>4. N \in Nat
    BY <1>3, FS_CardinalityType
  <1>5. \A i \in I : IsFiniteSet(Upto(i)) /\ Cardinality(Upto(i)) <= N
    <2>1. \A i \in I : Upto(i) \in SUBSET I
      OBVIOUS
    <2> QED
      BY <2>1, <1>3, FS_Subset
  <1>6. \A i \in I : Cardinality(Upto(i)) \in 1 .. N
    <2>1. TAKE i \in I
    <2>2. i \in Upto(i)
      BY <1>1
    <2>3. Cardinality(Upto(i)) \in Nat /\ Cardinality(Upto(i)) # 0
      BY <2>2, <1>5, FS_EmptySet, FS_CardinalityType
    <2>4. Cardinality(Upto(i)) <= N
      BY <1>5
    <2> HIDE DEF Upto, N
    <2> QED
      BY <2>3, <2>4, <1>4
  <1>7. \A i, k \in I : i < k => Cardinality(Upto(i)) # Cardinality(Upto(k))
    <2>1. SUFFICES ASSUME NEW i \in I, NEW k \in I, i < k
                   PROVE  Cardinality(Upto(k)) # Cardinality(Upto(i))
      OBVIOUS
    <2>2. Upto(i) \in SUBSET Upto(k)
      BY <1>1, <2>1
    <2>3. Upto(k) # Upto(i)
      <3>1. k \in Upto(k) /\ k \notin Upto(i)
        BY <1>1, <2>1
      <3> QED
        BY <3>1
    <2>4. IsFiniteSet(Upto(k))
      BY <1>5
    <2> HIDE DEF Upto
    <2> QED
      BY <2>2, <2>3, <2>4, FS_Subset
  <1>8. \A i, k \in I : Cardinality(Upto(i)) = Cardinality(Upto(k)) => i = k
    <2>1. \A i, k \in I : i < k \/ k < i \/ i = k
      BY <1>1
    <2> QED
      BY <2>1, <1>7
  <1> HIDE DEF Upto
  <1>9. rank \in Injection(I, 1 .. N)
    BY <1>6, <1>8 DEF Injection, IsInjective
  <1>10. IsFiniteSet(1 .. N) /\ Cardinality(1 .. N) = N
    BY <1>4, FS_Interval
  <1>11. rank \in Surjection(I, 1 .. N)
    BY <1>9, <1>10, FS_Injection
  <1>12. \A n \in 1 .. N : \E i \in I : Cardinality(Upto(i)) = n
    BY <1>11 DEF Surjection
  <1>13. \A n \in 1 .. N : at(n) \in I
    BY <1>12
  <1>14. \A i \in I : at(Cardinality(Upto(i))) = i
    BY <1>8
  <1>15. Picked(rs, I) = [n \in 1 .. N |-> rs[at(n)]]
    BY Zenon DEF Picked, Upto
  <1> HIDE DEF at, N
  <1>16. \A n \in 1 .. N : rs[at(n)] \in S
    BY <1>1, <1>13
  <1>17. Picked(rs, I) \in Seq(S)
    BY <1>4, <1>15, <1>16
  <1>18. Range(Picked(rs, I)) = {rs[at(n)] : n \in 1 .. N}
    BY <1>15 DEF Range
  <1>19. \A i \in I : \E n \in 1 .. N : at(n) = i
    BY <1>6, <1>14
  <1> QED
    BY <1>13, <1>17, <1>18, <1>19

LEMMA SelectedRange ==
    ASSUME NEW S, NEW rs \in Seq(S), NEW T
    PROVE  Selected(rs, T) \in Seq(S) /\ Range(Selected(rs, T)) = Range(rs) \cap T
  <1> DEFINE I == {i \in DOMAIN rs : rs[i] \in T}
  <1>1. Picked(rs, I) \in Seq(S) /\ Range(Picked(rs, I)) = {rs[i] : i \in I}
    BY PickedRange
  <1>2. {rs[i] : i \in I} = Range(rs) \cap T
    BY DEF Range
  <1> QED
    BY <1>1, <1>2 DEF Selected

-----------------------------------------------------------------------------
(* The ledger.                                                             *)

LEMMA KeyDest ==
    ASSUME NEW q, NEW r, NEW d, NEW e, obl_key(q, d) = obl_key(r, e)
    PROVE  d = e
  BY DEF obl_key

LEMMA LineFields ==
    ASSUME NEW r, NEW d, NEW o
    PROVE  Line(r, d, o).key = obl_key(r, d) /\ Line(r, d, o).outcome = o
  BY DEF Line

LEMMA LineIs ==
    ASSUME NEW e \in Lines, NEW r, NEW d, e.key = obl_key(r, d)
    PROVE  e = Line(r, d, e.outcome)
  BY DEF Lines, Line

\* A non-empty set of numbers has a least one.
LEMMA LeastNumber ==
    ASSUME NEW T \in SUBSET Nat, T # {}
    PROVE  \E m \in T : \A k \in T : m <= k
  <1> DEFINE R == {ss \in Nat \X Nat : ss[1] < ss[2]}
  <1>1. IsWellFoundedOn(R, Nat)
    BY NatLessThanWellFounded, Zenon DEF OpToRel
  <1>2. \A x, y \in Nat : x < y => <<x, y>> \in R
    OBVIOUS
  <1> HIDE DEF R
  <1>3. PICK x \in T : \A y \in T : ~(<<y, x>> \in R)
    BY <1>1, WFMin, Zenon
  <1>4. \A y \in T : ~(y < x)
    BY <1>2, <1>3
  <1>5. \A y \in T : x <= y
    BY <1>4
  <1> QED
    BY <1>5

\* A non-empty set of positions has a last one.
LEMMA LastPosition ==
    ASSUME NEW n \in Nat, NEW T \in SUBSET (1 .. n), T # {}
    PROVE  \E m \in T : \A k \in T : k <= m
  <1> DEFINE U == {n - k : k \in T}
  <1>1. U \in SUBSET Nat /\ U # {}
    <2>1. \A k \in T : n - k \in Nat
      OBVIOUS
    <2> QED
      BY <2>1
  <1>2. PICK u \in U : \A v \in U : u <= v
    BY <1>1, LeastNumber
  <1>3. PICK m \in T : u = n - m
    BY <1>2
  <1>4. \A k \in T : n - m <= n - k
    BY <1>2, <1>3
  <1>5. \A k \in T : k <= m
    BY <1>4
  <1> QED
    BY <1>5

\* What compact keeps: lines of the file, one at least for every obligation of it.
LEMMA LatestKeeps ==
    ASSUME NEW S, NEW file \in Seq(S)
    PROVE  /\ Latest(file) \subseteq Range(file)
           /\ IsFiniteSet(Latest(file))
           /\ \A i \in DOMAIN file : \E e \in Latest(file) : e.key = file[i].key
           /\ \A i \in DOMAIN file : (\A j \in i + 1 .. Len(file) : file[j].key # file[i].key)
                                        => file[i] \in Latest(file)
  <1> DEFINE I == {j \in DOMAIN file : \A l \in j + 1 .. Len(file) : file[l].key # file[j].key}
  <1>1. Latest(file) = {file[i] : i \in I}
    BY DEF Latest
  <1>2. DOMAIN file = 1 .. Len(file) /\ Len(file) \in Nat
    OBVIOUS
  <1>3. IsFiniteSet(I)
    <2>1. IsFiniteSet(1 .. Len(file)) /\ I \in SUBSET (1 .. Len(file))
      BY <1>2, FS_Interval
    <2> QED
      BY <2>1, FS_Subset
  <1>4. IsFiniteSet(Latest(file))
    <2> HIDE DEF I
    <2> DEFINE f == [i \in I |-> file[i]]
    <2>1. f \in Surjection(I, {file[i] : i \in I})
      BY DEF Surjection
    <2> QED
      BY <1>1, <1>3, <2>1, FS_Surjection
  <1>5. ASSUME NEW i \in DOMAIN file PROVE \E e \in Latest(file) : e.key = file[i].key
    <2> DEFINE T == {j \in 1 .. Len(file) : file[j].key = file[i].key}
    <2>1. i \in T
      BY <1>2
    <2>2. PICK m \in T : \A k \in T : k <= m
      BY <1>2, <2>1, LastPosition
    <2>3. ASSUME NEW l \in m + 1 .. Len(file) PROVE file[l].key # file[m].key
      <3>1. l \in 1 .. Len(file) /\ ~(l <= m) /\ file[m].key = file[i].key
        BY <1>2, <2>2, <2>3
      <3> QED
        BY <2>2, <3>1
    <2>4. m \in I
      BY <1>2, <2>2, <2>3
    <2> QED
      BY <1>1, <2>2, <2>4
  <1>6. Latest(file) \subseteq Range(file)
    BY <1>1 DEF Range
  <1>7. \A i \in DOMAIN file : (\A j \in i + 1 .. Len(file) : file[j].key # file[i].key)
                                  => file[i] \in Latest(file)
    BY <1>1
  <1> QED
    BY <1>4, <1>5, <1>6, <1>7

\* The order that compact gives its lines loses none.
LEMMA SetToSeqRange ==
    ASSUME NEW S, IsFiniteSet(S)
    PROVE  SetToSeq(S) \in Seq(S) /\ Range(SetToSeq(S)) = S
  <1> DEFINE N == Cardinality(S)
             f == SetToSeq(S)
  <1>1. N \in Nat /\ ExistsBijection(1 .. N, S)
    BY FS_CardinalityType
  <1>2. \E g \in [1 .. N -> S] : IsInjective(g)
    BY <1>1 DEF ExistsBijection, Bijection, Injection
  <1>3. f \in [1 .. N -> S] /\ IsInjective(f)
    BY <1>2, Zenon DEF SetToSeq
  <1>4. f \in Injection(1 .. N, S)
    BY <1>3 DEF Injection
  <1>5. Cardinality(1 .. N) = N
    BY <1>1, FS_Interval
  <1>6. f \in Surjection(1 .. N, S)
    BY <1>4, <1>5, FS_Injection
  <1> HIDE DEF N, f
  <1>7. f \in Seq(S)
    BY <1>1, <1>3
  <1>8. Range(f) = S
    BY <1>3, <1>6 DEF Range, Surjection
  <1> QED
    BY <1>7, <1>8 DEF f

\* What record and transition may do to a ledger: every line of the file and of
\* the index afterwards was there or is one of the new lines.
LedgerStep(s, lines) == Written(s, lines) \/ NotWritten(s, lines)

\* The files and the index have their types.
Ledgers == ledger \in [Sinks -> Seq(Lines)] /\ outcome \in [Sinks -> SUBSET Lines]

LEMMA LedgerStepLines ==
    ASSUME NEW s \in Sinks, NEW lines \in Seq(Lines), Ledgers, LedgerStep(s, lines)
    PROVE  /\ Ledgers'
           /\ \A t \in Sinks \ {s} : ledger'[t] = ledger[t] /\ outcome'[t] = outcome[t]
           /\ \E pre \in Seq(Lines) :
                 /\ Range(pre) \subseteq Range(lines)
                 /\ ledger'[s] = ledger[s] \o pre
                 /\ \/ outcome'[s] = Indexed(s, lines)
                    \/ pre = <<>> /\ outcome'[s] = outcome[s]
  <1> USE DEF Ledgers
  <1>1. Range(lines) \subseteq Lines
    BY RangeOf
  <1>2. Indexed(s, lines) \subseteq Lines
    BY <1>1 DEF Indexed
  <1>3. ASSUME NEW pre \in Seq(Lines), Range(pre) \subseteq Range(lines),
               ledger' = [ledger EXCEPT ![s] = @ \o pre],
               outcome' = [outcome EXCEPT ![s] = Indexed(s, lines)]
        PROVE  /\ Ledgers'
               /\ \A t \in Sinks \ {s} : ledger'[t] = ledger[t] /\ outcome'[t] = outcome[t]
               /\ ledger'[s] = ledger[s] \o pre /\ outcome'[s] = Indexed(s, lines)
    <2>1. ledger[s] \o pre \in Seq(Lines)
      BY RangeConcat
    <2> HIDE DEF Indexed
    <2> QED
      BY <2>1, <1>2, <1>3
  <1>4. CASE Written(s, lines)
    <2>1. /\ ledger' = [ledger EXCEPT ![s] = @ \o lines]
          /\ outcome' = [outcome EXCEPT ![s] = Indexed(s, lines)]
      BY <1>4 DEF Written
    <2> QED
      BY <1>3, <2>1
  <1>5. CASE NotWritten(s, lines)
    <2>1. CASE UNCHANGED <<ledger, outcome>>
      <3>1. /\ <<>> \in Seq(Lines) /\ Range(<<>>) \subseteq Range(lines)
            /\ ledger[s] \o <<>> = ledger[s]
        BY DEF Range
      <3> QED
        BY <2>1, <3>1
    <2>2. ASSUME NEW n \in 0 .. Len(lines),
                 ledger' = [ledger EXCEPT ![s] = @ \o SubSeq(lines, 1, n)],
                 outcome' = [outcome EXCEPT ![s] = Indexed(s, lines)]
          PROVE  \E pre \in Seq(Lines) :
                   /\ Range(pre) \subseteq Range(lines)
                   /\ ledger' = [ledger EXCEPT ![s] = @ \o pre]
                   /\ outcome' = [outcome EXCEPT ![s] = Indexed(s, lines)]
      <3>1. SubSeq(lines, 1, n) \in Seq(Lines) /\ Range(SubSeq(lines, 1, n)) \subseteq Range(lines)
        BY RangePrefix
      <3> QED
        BY <2>2, <3>1, Zenon
    <2>3. \/ UNCHANGED <<ledger, outcome>>
          \/ \E n \in 0 .. Len(lines) :
                /\ ledger' = [ledger EXCEPT ![s] = @ \o SubSeq(lines, 1, n)]
                /\ outcome' = [outcome EXCEPT ![s] = Indexed(s, lines)]
      BY <1>5 DEF NotWritten
    <2>4. CASE \E pre \in Seq(Lines) :
                   /\ Range(pre) \subseteq Range(lines)
                   /\ ledger' = [ledger EXCEPT ![s] = @ \o pre]
                   /\ outcome' = [outcome EXCEPT ![s] = Indexed(s, lines)]
      BY <1>3, <2>4
    <2> QED
      BY <2>1, <2>2, <2>3, <2>4
  <1> QED
    BY <1>4, <1>5 DEF LedgerStep

LEMMA SameLine ==
    ASSUME NEW e \in Lines, NEW f \in Lines, e.key = f.key, e.outcome = f.outcome
    PROVE  e = f
  BY DEF Lines, Line

\* A step that writes lines of obligations the index does not know, or
\* deliveries, leaves an index of the file, whatever the write comes to.
LEMMA LedgerStepIndex ==
    ASSUME NEW s \in Sinks, NEW lines \in Seq(Lines), Ledgers, LedgerStep(s, lines),
           \A t \in Sinks : IndexOf(t),
           \A l \in Range(lines) : l.outcome = "delivered" \/ ~\E e \in outcome[s] : e.key = l.key
    PROVE  \A t \in Sinks : IndexOf(t)'
  <1>1. PICK pre \in Seq(Lines) :
            /\ Range(pre) \subseteq Range(lines)
            /\ ledger'[s] = ledger[s] \o pre
            /\ \/ outcome'[s] = Indexed(s, lines)
               \/ pre = <<>> /\ outcome'[s] = outcome[s]
    BY LedgerStepLines
  <1>2. ASSUME NEW t \in Sinks \ {s} PROVE IndexOf(t)'
    <2>1. ledger'[t] = ledger[t] /\ outcome'[t] = outcome[t] /\ IndexOf(t)
      BY LedgerStepLines
    <2> QED
      BY <2>1 DEF IndexOf
  <1>3. IndexOf(s)'
    <2> DEFINE file == ledger[s]
               new == ledger'[s]
    <2>1. file \in Seq(Lines) /\ outcome[s] \in SUBSET Lines /\ Range(lines) \subseteq Lines
      BY RangeOf DEF Ledgers
    <2>2. CASE pre = <<>> /\ outcome'[s] = outcome[s]
      <3>1. ledger'[s] = ledger[s]
        BY <1>1, <2>1, <2>2
      <3> QED
        BY <2>2, <3>1 DEF IndexOf
    <2>3. CASE outcome'[s] = Indexed(s, lines)
      <3>1. /\ new = file \o pre /\ Len(new) = Len(file) + Len(pre) /\ DOMAIN new = 1 .. Len(file) + Len(pre)
            /\ \A i \in 1 .. Len(file) : new[i] = file[i]
            /\ \A i \in Len(file) + 1 .. Len(file) + Len(pre) : new[i] = pre[i - Len(file)]
        BY <1>1, <2>1
      <3>2. outcome'[s] = {e \in outcome[s] : ~\E l \in Range(lines) : l.key = e.key} \cup Range(lines)
        BY <2>3 DEF Indexed
      <3>3. SUFFICES ASSUME NEW i \in 1 .. Len(file) + Len(pre)
                     PROVE  /\ \E e \in outcome'[s] : e.key = new[i].key
                            /\ /\ new[i].outcome = "delivered"
                               /\ \A j \in i + 1 .. Len(new) : new[j].key # new[i].key
                               => new[i] \in outcome'[s]
        BY <3>1 DEF IndexOf
      <3>4. CASE i > Len(file)
        <4>1. i - Len(file) \in 1 .. Len(pre) /\ new[i] = pre[i - Len(file)]
          BY <2>1, <3>1, <3>4
        <4>a. \A k \in 1 .. Len(pre) : pre[k] \in Range(pre)
          BY DEF Range
        <4>2. new[i] \in Range(lines)
          BY <1>1, <4>1, <4>a
        <4> QED
          BY <3>2, <4>2
      <3>5. CASE i <= Len(file)
        <4>1. i \in DOMAIN file /\ new[i] = file[i] /\ file[i] \in Lines
          BY <2>1, <3>1, <3>5
        <4>2. PICK e \in outcome[s] : e.key = file[i].key
          BY <4>1 DEF IndexOf
        <4>3. \E f \in outcome'[s] : f.key = file[i].key
          BY <3>2, <4>2
        <4>4. ASSUME file[i].outcome = "delivered",
                     \A j \in i + 1 .. Len(new) : new[j].key # new[i].key
              PROVE  file[i] \in outcome'[s]
          <5>1. \A j \in i + 1 .. Len(file) : file[j].key # file[i].key
            <6>1. TAKE j \in i + 1 .. Len(file)
            <6>2. j \in i + 1 .. Len(new) /\ j \in 1 .. Len(file)
              BY <2>1, <3>1, <3>5
            <6>3. new[j].key # new[i].key /\ new[j] = file[j]
              BY <3>1, <4>4, <6>2
            <6> QED
              BY <4>1, <6>3
          <5>2. file[i] \in outcome[s]
            BY <4>1, <4>4, <5>1 DEF IndexOf
          <5>3. CASE \E l \in Range(lines) : l.key = file[i].key
            <6>1. PICK l \in Range(lines) : l.key = file[i].key
              BY <5>3
            <6>2. l.outcome = "delivered"
              BY <5>2, <6>1
            <6>3. l = file[i]
              BY <2>1, <4>1, <4>4, <6>1, <6>2, SameLine
            <6> QED
              BY <3>2, <6>1, <6>3
          <5> QED
            BY <3>2, <5>2, <5>3
        <4> QED
          BY <4>1, <4>3, <4>4
      <3> QED
        BY <2>1, <3>4, <3>5
    <2> QED
      BY <1>1, <2>2, <2>3
  <1> QED
    BY <1>2, <1>3

LEMMA SeqWithin ==
    ASSUME NEW S, NEW rs \in Seq(S), NEW U, Range(rs) \subseteq U
    PROVE  rs \in Seq(U)
  <1>1. Len(rs) \in Nat
    OBVIOUS
  <1>2. DOMAIN rs = 1 .. Len(rs)
    OBVIOUS
  <1>3. \A i \in 1 .. Len(rs) : rs[i] \in U
    BY <1>2 DEF Range
  <1>4. rs = [i \in 1 .. Len(rs) |-> rs[i]]
    BY <1>2
  <1>5. rs \in Seq(U)
    BY <1>1, <1>3, <1>4
  <1> QED
    BY <1>5

\* The items a sink takes on: not terminal, one for each obligation, none left out.
ItemsOf(items, s, dest, rs) ==
    /\ items \in Seq(Records)
    /\ Range(items) \subseteq rs
    /\ \A r \in Range(items) : ~Terminal(s, r, dest)
    /\ \A q, r \in Range(items) : obl_key(q, dest) = obl_key(r, dest) => q = r
    /\ \A r \in rs : Terminal(s, r, dest) \/ \E q \in Range(items) : obl_key(q, dest) = obl_key(r, dest)

LEMMA FreshItems ==
    ASSUME NEW s, NEW dest, NEW rs \in Seq(Records), NEW S
    PROVE  ItemsOf(Picked(rs, Fresh(s, rs, S, dest)), s, dest, Range(rs) \cap S)
  <1> DEFINE I == Fresh(s, rs, S, dest)
  <1>0. PICK items : items = Picked(rs, I)
    OBVIOUS
  <1>1. DOMAIN rs = 1 .. Len(rs) /\ Len(rs) \in Nat /\ \A i \in DOMAIN rs : rs[i] \in Range(rs)
    BY DEF Range
  <1>2. \A i : i \in I <=> /\ i \in DOMAIN rs
                           /\ rs[i] \in S /\ ~Terminal(s, rs[i], dest)
                           /\ \A j \in 1 .. i - 1 : rs[j] \in S => obl_key(rs[j], dest) # obl_key(rs[i], dest)
    BY DEF Fresh
  <1>a. SUFFICES ItemsOf(items, s, dest, Range(rs) \cap S)
    BY <1>0
  <1> HIDE DEF I
  <1>3. I \in SUBSET DOMAIN rs
    BY <1>2
  <1>4. items \in Seq(Records) /\ Range(items) = {rs[i] : i \in I}
    BY <1>0, <1>3, PickedRange
  <1>5. Range(items) \subseteq Range(rs) \cap S
    BY <1>1, <1>2, <1>4
  <1>6. \A r \in Range(items) : ~Terminal(s, r, dest)
    BY <1>2, <1>4
  <1>7. ASSUME NEW q \in Range(items), NEW r \in Range(items), obl_key(q, dest) = obl_key(r, dest)
        PROVE  q = r
    <2>1. PICK i \in I, j \in I : q = rs[i] /\ r = rs[j]
      BY <1>4
    <2>2. i \in 1 .. Len(rs) /\ j \in 1 .. Len(rs)
      BY <1>1, <1>3
    <2>3. ~(i < j)
      <3>1. ASSUME i < j PROVE FALSE
        <4>1. i \in 1 .. j - 1 /\ rs[i] \in S
          BY <1>2, <2>2, <3>1
        <4> QED
          BY <1>2, <1>7, <2>1, <4>1
      <3> QED
        BY <3>1
    <2>4. ~(j < i)
      <3>1. ASSUME j < i PROVE FALSE
        <4>1. j \in 1 .. i - 1 /\ rs[j] \in S
          BY <1>2, <2>2, <3>1
        <4> QED
          BY <1>2, <1>7, <2>1, <4>1
      <3> QED
        BY <3>1
    <2>5. i = j
      BY <2>2, <2>3, <2>4
    <2> QED
      BY <2>1, <2>5
  <1>8. ASSUME NEW r \in Range(rs) \cap S, ~Terminal(s, r, dest)
        PROVE  \E q \in Range(items) : obl_key(q, dest) = obl_key(r, dest)
    <2> DEFINE T == {j \in 1 .. Len(rs) : rs[j] \in S /\ obl_key(rs[j], dest) = obl_key(r, dest)}
    <2>1. T \in SUBSET Nat /\ T # {}
      BY <1>1, <1>8 DEF Range
    <2>2. PICK m \in T : \A k \in T : m <= k
      BY <2>1, LeastNumber
    <2>3. m \in 1 .. Len(rs) /\ rs[m] \in S /\ obl_key(rs[m], dest) = obl_key(r, dest)
      BY <2>2
    <2>4. ASSUME NEW j \in 1 .. m - 1, rs[j] \in S PROVE obl_key(rs[j], dest) # obl_key(rs[m], dest)
      <3>1. j \in 1 .. Len(rs) /\ ~(m <= j)
        BY <1>1, <2>3, <2>4
      <3> QED
        BY <2>2, <2>3, <2>4, <3>1
    <2>5. ~Terminal(s, rs[m], dest)
      BY <1>8, <2>3 DEF Terminal
    <2>6. m \in I
      BY <1>1, <1>2, <2>3, <2>4, <2>5
    <2> QED
      BY <1>4, <2>3, <2>6
  <1> QED
    BY <1>4, <1>5, <1>6, <1>7, <1>8 DEF ItemsOf

Outcomes == {"delivered", "dead_lettered", "suppressed"}

\* The lines of a step of record: of records of rs that the index of s does not know.
LinesOf(lines, s, dest, rs, oc) ==
    /\ lines \in Seq(Lines)
    /\ \A l \in Range(lines) : \E r \in rs :
          l.key = obl_key(r, dest) /\ l.outcome = oc /\ ~\E e \in outcome[s] : e.key = l.key

\* The lines record writes: of records that are not terminal.
LEMMA FreshLines ==
    ASSUME NEW s, NEW dest \in Sinks \cup {"(withheld)"}, NEW rs \in Seq(Records), NEW S,
           NEW oc \in Outcomes
    PROVE  LinesOf(NewLines(s, rs, S, dest, oc), s, dest, Range(rs) \cap S, oc)
  <1>0. PICK lines : lines = NewLines(s, rs, S, dest, oc)
    OBVIOUS
  <1>a. SUFFICES LinesOf(lines, s, dest, Range(rs) \cap S, oc)
    BY <1>0
  <1> DEFINE I == Fresh(s, rs, S, dest)
             all == [i \in DOMAIN rs |-> Line(rs[i], dest, oc)]
  <1>1. DOMAIN rs = 1 .. Len(rs) /\ Len(rs) \in Nat /\ \A i \in DOMAIN rs : rs[i] \in Range(rs) /\ rs[i] \in Records
    BY DEF Range
  <1>2. \A r \in Records : Line(r, dest, oc) \in Lines
    BY DEF Lines, Outcomes
  <1>3. all \in Seq(Lines) /\ DOMAIN all = DOMAIN rs
    <2>1. \A i \in 1 .. Len(rs) : Line(rs[i], dest, oc) \in Lines
      BY <1>1, <1>2
    <2> QED
      BY <1>1, <2>1
  <1>4. I \in SUBSET DOMAIN all /\ \A i \in I : rs[i] \in S /\ ~Terminal(s, rs[i], dest)
    <2>1. \A i \in I : i \in DOMAIN rs /\ rs[i] \in S /\ ~Terminal(s, rs[i], dest)
      BY Zenon DEF Fresh
    <2> HIDE DEF I
    <2> QED
      BY <1>3, <2>1
  <1>5. lines = Picked(all, I)
    BY <1>0 DEF NewLines
  <1> HIDE DEF I, all
  <1>6. lines \in Seq(Lines) /\ Range(lines) = {all[i] : i \in I}
    BY <1>3, <1>4, <1>5, PickedRange
  <1>7. ASSUME NEW l \in Range(lines)
        PROVE  \E r \in Range(rs) \cap S :
                     /\ l.key = obl_key(r, dest) /\ l.outcome = oc
                     /\ ~\E e \in outcome[s] : e.key = l.key
    <2>1. PICK i \in I : l = all[i]
      BY <1>6
    <2>2. l = Line(rs[i], dest, oc) /\ rs[i] \in Range(rs) \cap S
      BY <1>1, <1>3, <1>4, <2>1 DEF all
    <2>3. l.key = obl_key(rs[i], dest) /\ l.outcome = oc
      BY <2>2, LineFields
    <2>4. ~\E e \in outcome[s] : e.key = l.key
      BY <1>4, <2>3 DEF Terminal
    <2> QED
      BY <2>2, <2>3, <2>4
  <1> QED
    BY <1>6, <1>7 DEF LinesOf

-----------------------------------------------------------------------------
(* Types and control.                                                      *)

LEMMA Constant ==
    /\ \A p \in Partitions : Topic[p] \in Seq(Records) /\ Len(Topic[p]) \in Nat
    /\ SinkNames \in Seq(Sinks) /\ SinkNames # <<>> /\ Range(SinkNames) = Sinks /\ SinkNames[1] \in Sinks
    /\ Retries \in Nat /\ MaxFaults \in Nat /\ MaxReplays \in Nat
    /\ "(withheld)" \notin Sinks
    /\ LiveRecords \subseteq Records
  <1>1. ASSUME NEW p \in Partitions PROVE Topic[p] \in Seq(Records) /\ Len(Topic[p]) \in Nat
    <2>1. Topic[p] \in Seq(Range(Topic[p]))
      BY ForwarderAssumption
    <2>2. Range(Topic[p]) \subseteq Records
      BY DEF Records
    <2> QED
      BY <2>1, <2>2, SeqWithin
  <1>2. SinkNames \in Seq(Sinks) /\ SinkNames # <<>>
    BY ForwarderAssumption
  <1>3. SinkNames[1] \in Sinks
    BY <1>2
  <1>4. Range(SinkNames) = Sinks /\ LiveRecords \subseteq Records
    BY DEF Sinks, LiveRecords
  <1> QED
    BY <1>1, <1>2, <1>3, <1>4, ForwarderAssumption

LEMMA IdleWork ==
    /\ Idle \in Work
    /\ Idle.stage = "idle" /\ Idle.sinks = <<>> /\ Idle.pending = <<>>
    /\ Idle.part = None /\ Idle.broken = FALSE
  BY Constant DEF Idle, Work, Stages

\* The fields of work.
LEMMA WorkFields ==
    ASSUME NEW w \in Work
    PROVE  /\ w.part \in Partitions \cup {None} /\ w.sinks \in Seq(Sinks) /\ w.stage \in Stages
           /\ w.pending \in Seq(LiveRecords) /\ w.failed \in Seq(LiveRecords)
           /\ w.attempt \in 0 .. Retries /\ w.broken \in BOOLEAN
           /\ w.sinks # <<>> => Head(w.sinks) \in Sinks
           /\ Range(w.pending) \subseteq LiveRecords /\ Range(w.failed) \subseteq LiveRecords
  <1>1. /\ w.part \in Partitions \cup {None} /\ w.sinks \in Seq(Sinks) /\ w.stage \in Stages
        /\ w.pending \in Seq(LiveRecords) /\ w.failed \in Seq(LiveRecords)
        /\ w.attempt \in 0 .. Retries /\ w.broken \in BOOLEAN
    BY DEF Work
  <1>2. w.sinks # <<>> => Head(w.sinks) \in Sinks
    BY <1>1
  <1>3. Range(w.pending) \subseteq LiveRecords /\ Range(w.failed) \subseteq LiveRecords
    BY <1>1, RangeOf
  <1> QED
    BY <1>1, <1>2, <1>3

\* What LeavePartition leaves.
LEMMA Leaving ==
    ASSUME NEW ok \in BOOLEAN, LeavePartition(ok), TypeOK, work.part \in Partitions
    PROVE  /\ work' = Idle
           /\ batch' \in [Partitions -> Seq(Records)] /\ durable' \in BOOLEAN /\ skipped' \subseteq Records
           /\ batch'[work.part] = <<>> /\ \A p \in Partitions \ {work.part} : batch'[p] = batch[p]
           /\ skipped \subseteq skipped'
           /\ ~ok => Range(batch[work.part]) \subseteq skipped'
  <1>1. batch \in [Partitions -> Seq(Records)] /\ durable \in BOOLEAN /\ skipped \subseteq Records
    BY DEF TypeOK
  <1>2. Range(batch[work.part]) \subseteq Records
    BY <1>1, RangeOf
  <1>3. work' = Idle /\ batch' = [batch EXCEPT ![work.part] = <<>>]
    BY DEF LeavePartition
  <1>4. durable' \in BOOLEAN
    BY DEF LeavePartition
  <1>5. CASE ok
    <2>1. skipped' = skipped
      BY <1>5 DEF LeavePartition
    <2> QED
      BY <1>1, <1>3, <1>4, <1>5, <2>1
  <1>6. CASE ~ok
    <2>1. skipped' = skipped \cup Range(batch[work.part])
      BY <1>6 DEF LeavePartition
    <2> QED
      BY <1>1, <1>2, <1>3, <1>4, <2>1
  <1> QED
    BY <1>5, <1>6

\* The next sink is in hand.
NextSink(ok) ==
    /\ work'.part = work.part /\ work'.sinks = Tail(work.sinks) /\ work'.stage = "dedup"
    /\ Tail(work.sinks) # <<>>
    /\ work'.pending = <<>>
    /\ ~work'.broken => ok /\ ~work.broken
    /\ UNCHANGED <<batch, durable, skipped>>

\* SinkDone leaves the partition with the last sink and goes on with any other.
LEMMA DoneCases ==
    ASSUME NEW ok \in BOOLEAN, SinkDone(ok), TypeOK, work.sinks # <<>>
    PROVE  /\ \/ Len(work.sinks) = 1 /\ \E b \in BOOLEAN : LeavePartition(b) /\ (b => ok /\ ~work.broken)
              \/ NextSink(ok) /\ work' \in Work
  <1>1. work \in Work
    BY DEF TypeOK
  <1>2. work.broken \in BOOLEAN /\ work.sinks \in Seq(Sinks) /\ work.part \in Partitions \cup {None}
    BY <1>1, WorkFields
  <1>3. CASE Len(work.sinks) = 1
    <2>1. LeavePartition(~(work.broken \/ ~ok))
      BY <1>3 DEF SinkDone
    <2>2. PICK b : b = ~(work.broken \/ ~ok)
      OBVIOUS
    <2>3. b \in BOOLEAN /\ (b => ok /\ ~work.broken)
      BY <1>2, <2>2, Zenon
    <2>4. LeavePartition(b)
      BY <2>1, <2>2, Zenon
    <2> QED
      BY <1>3, <2>3, <2>4, Zenon
  <1>4. CASE Len(work.sinks) # 1
    <2>1. /\ work' = [Idle EXCEPT !.part = work.part, !.sinks = Tail(work.sinks),
                                  !.stage = "dedup", !.broken = work.broken \/ ~ok]
          /\ UNCHANGED <<batch, durable, skipped>>
      BY <1>4, Zenon DEF SinkDone
    <2>2. PICK b : b = (work.broken \/ ~ok)
      OBVIOUS
    <2>3. b \in BOOLEAN /\ (~b => ok /\ ~work.broken)
      BY <1>2, <2>2, Zenon
    <2>4. work' = [Idle EXCEPT !.part = work.part, !.sinks = Tail(work.sinks),
                               !.stage = "dedup", !.broken = b]
      BY <2>1, <2>2, Zenon
    <2>5. Tail(work.sinks) \in Seq(Sinks) /\ Tail(work.sinks) # <<>>
      BY <1>2, <1>4, TailLeft
    <2>6. work' = [part |-> work.part, sinks |-> Tail(work.sinks), stage |-> "dedup", pending |-> <<>>,
                   failed |-> <<>>, attempt |-> 0, broken |-> b]
      BY <2>4 DEF Idle
    <2>7. work' \in Work
      BY <1>2, <2>3, <2>5, <2>6, Constant DEF Work, Stages
    <2>8. /\ work'.part = work.part /\ work'.sinks = Tail(work.sinks) /\ work'.stage = "dedup"
          /\ work'.pending = <<>>
      BY <2>6
    <2>9. work'.broken = b
      BY <2>6
    <2>10. ~work'.broken => ok /\ ~work.broken
      BY <2>3, <2>9, Zenon
    <2> QED
      BY <2>1, <2>5, <2>7, <2>8, <2>10, Zenon DEF NextSink
  <1> QED
    BY <1>3, <1>4

\* What a step leaves typed: the parts of TypeOK.
Offsets == \A p \in Partitions : /\ position[p] \in 0 .. Len(Topic[p])
                                 /\ committed[p] \in 0 .. position[p]
Hands == /\ batch \in [Partitions -> Seq(Records)] /\ durable \in BOOLEAN
         /\ phase \in {"poll", "batch", "replay", "down"} /\ work \in Work /\ skipped \subseteq Records
Outside == /\ dlq \in [Sinks -> Seq(LiveRecords)] /\ got \in [Sinks -> [LiveRecords -> Nat]]
           /\ torn \subseteq Sinks \X LiveRecords
Bounds == faults \in 0 .. MaxFaults /\ replays \in 0 .. MaxReplays

LEMMA TypeParts == TypeOK <=> Offsets /\ Hands /\ Ledgers /\ Outside /\ Bounds
  BY DEF TypeOK, Offsets, Hands, Ledgers, Outside, Bounds

LEMMA TypeNext ==
    ASSUME Offsets', Hands', Ledgers', Outside', Bounds'
    PROVE  TypeOK'
  BY DEF TypeOK, Offsets, Hands, Ledgers, Outside, Bounds

LEMMA FaultBound ==
    ASSUME Bounds, faults < MaxFaults, faults' = faults + 1, UNCHANGED replays
    PROVE  Bounds'
  <1>1. MaxFaults \in Nat
    BY Constant
  <1> QED
    BY <1>1 DEF Bounds

LEMMA LedgerStepBounds ==
    ASSUME NEW s, NEW lines, LedgerStep(s, lines), Bounds, UNCHANGED replays
    PROVE  Bounds'
  <1>1. CASE Written(s, lines)
    BY <1>1 DEF Written, Bounds
  <1>2. CASE NotWritten(s, lines)
    BY <1>2, FaultBound DEF NotWritten
  <1> QED
    BY <1>1, <1>2 DEF LedgerStep

LEMMA ReceivesType ==
    ASSUME Outside, NEW s \in Sinks, NEW rs, Receives(s, rs)
    PROVE  /\ got' \in [Sinks -> [LiveRecords -> Nat]]
           /\ \A t \in Sinks : \A r \in LiveRecords :
                 got'[t][r] = IF t = s /\ r \in rs THEN got[t][r] + 1 ELSE got[t][r]
  <1>1. got \in [Sinks -> [LiveRecords -> Nat]]
    BY DEF Outside
  <1> DEFINE f == [r \in LiveRecords |-> got[s][r] + IF r \in rs THEN 1 ELSE 0]
  <1>2. got' = [got EXCEPT ![s] = f]
    BY DEF Receives
  <1>3. f \in [LiveRecords -> Nat] /\ \A r \in LiveRecords : f[r] = IF r \in rs THEN got[s][r] + 1 ELSE got[s][r]
    BY <1>1
  <1> HIDE DEF f
  <1>4. got' \in [Sinks -> [LiveRecords -> Nat]] /\ got'[s] = f /\ \A t \in Sinks \ {s} : got'[t] = got[t]
    BY <1>1, <1>2, <1>3
  <1> QED
    BY <1>3, <1>4

\* A partition left behind in good order.
LEMMA LeavingControl ==
    ASSUME NEW ok \in BOOLEAN, LeavePartition(ok), TypeOK, work.part \in Partitions, phase = "batch",
           UNCHANGED phase
    PROVE  Hands' /\ Control'
  <1>1. /\ work' = Idle
        /\ batch' \in [Partitions -> Seq(Records)] /\ durable' \in BOOLEAN /\ skipped' \subseteq Records
    BY Leaving
  <1>2. Hands'
    BY <1>1, IdleWork DEF Hands
  <1>3. Control'
    BY <1>1, IdleWork DEF Control
  <1> QED
    BY <1>2, <1>3

LEMMA DoneControl ==
    ASSUME NEW ok \in BOOLEAN, SinkDone(ok), TypeOK, work.sinks # <<>>, work.part \in Partitions,
           phase = "batch", UNCHANGED phase
    PROVE  Hands' /\ Control'
  <1>1. CASE \E b \in BOOLEAN : LeavePartition(b) /\ (b => ok /\ ~work.broken)
    BY <1>1, LeavingControl
  <1>2. CASE NextSink(ok) /\ work' \in Work
    <2>1. Hands'
      BY <1>2 DEF NextSink, TypeOK, Hands
    <2>2. /\ work'.part = work.part /\ work'.sinks = Tail(work.sinks) /\ work'.stage = "dedup"
          /\ Tail(work.sinks) # <<>> /\ phase' = "batch"
      BY <1>2 DEF NextSink
    <2>3. Control'
      BY <2>2 DEF Control, EmitStages
    <2> QED
      BY <2>1, <2>3
  <1> QED
    BY <1>1, <1>2, DoneCases

\* What an action of emit_batch starts from.
LEMMA Emitting ==
    ASSUME TypeOK, Control, work.stage \in EmitStages
    PROVE  /\ phase = "batch" /\ work.part \in Partitions /\ work.sinks # <<>>
           /\ Head(work.sinks) \in Sinks
           /\ batch[work.part] \in Seq(Records) /\ work.pending \in Seq(LiveRecords)
           /\ work.pending \in Seq(Records) /\ work.failed \in Seq(LiveRecords)
           /\ work \in Work /\ Hands /\ Ledgers /\ Outside /\ Bounds /\ Offsets
  <1>1. Hands /\ Ledgers /\ Outside /\ Bounds /\ Offsets
    BY TypeParts
  <1>2. work \in Work /\ batch \in [Partitions -> Seq(Records)] /\ phase \in {"poll", "batch", "replay", "down"}
    BY <1>1 DEF Hands
  <1>3. work.stage # "idle" /\ work.stage \notin {"scan", "transition", "rewrite"}
    BY DEF EmitStages
  <1>4. phase = "batch" /\ work.part \in Partitions /\ work.sinks # <<>>
    BY <1>2, <1>3, IdleWork DEF Control
  <1>5. work.pending \in Seq(LiveRecords) /\ work.failed \in Seq(LiveRecords) /\ Head(work.sinks) \in Sinks
    BY <1>2, <1>4, WorkFields
  <1>6. work.pending \in Seq(Records)
    BY <1>5, RangeOf, SeqWithin, Constant
  <1> QED
    BY <1>1, <1>2, <1>4, <1>5, <1>6

\* What an action of replay starts from.
LEMMA Replaying ==
    ASSUME TypeOK, Control, work.stage \in {"scan", "transition", "rewrite"}
    PROVE  /\ phase = "replay" /\ work.sinks # <<>> /\ Head(work.sinks) \in Sinks
           /\ work.pending \in Seq(LiveRecords) /\ work \in Work
           /\ Hands /\ Ledgers /\ Outside /\ Bounds /\ Offsets
           /\ \A p \in Partitions : batch[p] = <<>>
  <1>1. Hands /\ Ledgers /\ Outside /\ Bounds /\ Offsets
    BY TypeParts
  <1>2. work \in Work /\ phase \in {"poll", "batch", "replay", "down"}
    BY <1>1 DEF Hands
  <1>3. work.stage # "idle" /\ work.stage \notin EmitStages
    BY DEF EmitStages
  <1>4. phase = "replay" /\ work.sinks # <<>> /\ \A p \in Partitions : batch[p] = <<>>
    BY <1>2, <1>3, IdleWork DEF Control
  <1> QED
    BY <1>1, <1>2, <1>4, WorkFields

LEMMA WithheldLines ==
    ASSUME TypeOK, Control, RecordWithheld
    PROVE  /\ \E lines : /\ LedgerStep(SinkNames[1], lines)
                         /\ LinesOf(lines, SinkNames[1], "(withheld)", Records, "suppressed")
           /\ \/ work' = [work EXCEPT !.stage = "dedup"] /\ UNCHANGED <<batch, durable, skipped>>
              \/ LeavePartition(TRUE) /\ LiveBatch = {}
              \/ LeavePartition(FALSE)
           /\ work.stage = "withheld"
           /\ UNCHANGED <<committed, position, phase, dlq, got, torn, replays>>
  <1> DEFINE s == SinkNames[1]
             rs == batch[work.part]
  <1>0. PICK lines : lines = NewLines(s, rs, Records \ LiveRecords, "(withheld)", "suppressed")
    OBVIOUS
  <1>1. work.stage = "withheld" /\ work.stage \in EmitStages
    BY DEF RecordWithheld, EmitStages
  <1>2. rs \in Seq(Records) /\ Range(rs) \subseteq Records
    BY <1>1, Emitting, RangeOf
  <1>3. LinesOf(lines, s, "(withheld)", Records, "suppressed")
    <2>1. "(withheld)" \in Sinks \cup {"(withheld)"} /\ "suppressed" \in Outcomes
      BY DEF Outcomes
    <2>2. LinesOf(lines, s, "(withheld)", Range(rs) \cap (Records \ LiveRecords), "suppressed")
      BY <1>0, <1>2, <2>1, FreshLines
    <2> QED
      BY <1>2, <2>2 DEF LinesOf
  <1>4. \/ Written(s, lines) /\ LiveBatch = {} /\ LeavePartition(TRUE)
        \/ Written(s, lines) /\ work' = [work EXCEPT !.stage = "dedup"] /\ UNCHANGED <<batch, durable, skipped>>
        \/ NotWritten(s, lines) /\ LeavePartition(FALSE)
    BY <1>0, Zenon DEF RecordWithheld
  <1>5. UNCHANGED <<committed, position, phase, dlq, got, torn, replays>>
    BY DEF RecordWithheld
  <1> QED
    BY <1>1, <1>3, <1>4, <1>5, Zenon DEF LedgerStep

LEMMA AcceptedLines ==
    ASSUME TypeOK, Control, RecordAccepted
    PROVE  LET s == Head(work.sinks) accepted == Range(work.pending) \ Range(work.failed)
           IN  /\ \E lines : LedgerStep(s, lines) /\ LinesOf(lines, s, s, accepted, "delivered")
               /\ \/ work.failed = <<>> /\ SinkDone(TRUE)
                  \/ Retry /\ UNCHANGED <<batch, durable, skipped>>
                  \/ SinkDone(FALSE)
               /\ work.stage = "record"
               /\ UNCHANGED <<committed, position, phase, dlq, got, torn, replays>>
  <1> DEFINE s == Head(work.sinks)
  <1>0. PICK lines : lines = NewLines(s, work.pending, LiveRecords \ Range(work.failed), s, "delivered")
    OBVIOUS
  <1>1. work.stage = "record" /\ work.stage \in EmitStages
    BY DEF RecordAccepted, EmitStages
  <1>2. work.pending \in Seq(Records) /\ s \in Sinks
    BY <1>1, Emitting
  <1>3. LinesOf(lines, s, s, Range(work.pending) \ Range(work.failed), "delivered")
    <2>1. s \in Sinks \cup {"(withheld)"} /\ "delivered" \in Outcomes
      BY <1>2 DEF Outcomes
    <2>2. LinesOf(lines, s, s, Range(work.pending) \cap (LiveRecords \ Range(work.failed)), "delivered")
      BY <1>0, <1>2, <2>1, FreshLines
    <2> QED
      BY <1>2, <2>2 DEF LinesOf
  <1>4. \/ Written(s, lines) /\ work.failed = <<>> /\ SinkDone(TRUE)
        \/ Written(s, lines) /\ Retry /\ UNCHANGED <<batch, durable, skipped>>
        \/ NotWritten(s, lines) /\ SinkDone(FALSE)
    BY <1>0, Zenon DEF RecordAccepted
  <1>5. UNCHANGED <<committed, position, phase, dlq, got, torn, replays>>
    BY DEF RecordAccepted
  <1> QED
    BY <1>1, <1>3, <1>4, <1>5, Zenon DEF LedgerStep

LEMMA MarkedLines ==
    ASSUME TypeOK, Control, MarkDead
    PROVE  LET s == Head(work.sinks)
           IN  /\ \E lines : LedgerStep(s, lines) /\ LinesOf(lines, s, s, Range(work.pending), "dead_lettered")
               /\ SinkDone(TRUE) \/ SinkDone(FALSE)
               /\ work.stage = "mark"
               /\ UNCHANGED <<committed, position, phase, dlq, got, torn, replays>>
  <1> DEFINE s == Head(work.sinks)
  <1>0. PICK lines : lines = NewLines(s, work.pending, LiveRecords, s, "dead_lettered")
    OBVIOUS
  <1>1. work.stage = "mark" /\ work.stage \in EmitStages
    BY DEF MarkDead, EmitStages
  <1>2. work.pending \in Seq(Records) /\ s \in Sinks
    BY <1>1, Emitting
  <1>3. LinesOf(lines, s, s, Range(work.pending), "dead_lettered")
    <2>1. s \in Sinks \cup {"(withheld)"} /\ "dead_lettered" \in Outcomes
      BY <1>2 DEF Outcomes
    <2>2. LinesOf(lines, s, s, Range(work.pending) \cap LiveRecords, "dead_lettered")
      BY <1>0, <1>2, <2>1, FreshLines
    <2> QED
      BY <1>2, <2>2 DEF LinesOf
  <1>4. (Written(s, lines) /\ SinkDone(TRUE)) \/ (NotWritten(s, lines) /\ SinkDone(FALSE))
    BY <1>0, Zenon DEF MarkDead
  <1>5. UNCHANGED <<committed, position, phase, dlq, got, torn, replays>>
    BY DEF MarkDead
  <1> QED
    BY <1>1, <1>3, <1>4, <1>5, Zenon DEF LedgerStep

LEMMA TransitionLines ==
    ASSUME TypeOK, Control, ReplayTransition
    PROVE  LET s == Head(work.sinks) r == Head(work.pending)
           IN  /\ r \in LiveRecords
               /\ \E lines \in Seq(Lines) :
                    /\ LedgerStep(s, lines)
                    /\ \A l \in Range(lines) : l.key = obl_key(r, s) /\ l.outcome = "delivered"
               /\ \/ /\ work' = [work EXCEPT !.stage = "scan", !.pending = Tail(@), !.broken = TRUE]
                     /\ UNCHANGED phase
                  \/ EndReplay
               /\ work.stage = "transition"
               /\ UNCHANGED <<committed, position, batch, durable, dlq, got, skipped, torn, replays>>
  <1> DEFINE s == Head(work.sinks)
             r == Head(work.pending)
             lines == <<Line(r, s, "delivered")>>
  <1>1. work.stage = "transition" /\ work.stage \in {"scan", "transition", "rewrite"}
    BY DEF ReplayTransition
  <1>2. s \in Sinks /\ work.pending \in Seq(LiveRecords) /\ work.pending # <<>>
    BY <1>1, Replaying DEF Control
  <1>3. r \in LiveRecords
    BY <1>2
  <1>4. Line(r, s, "delivered") \in Lines
    BY <1>2, <1>3, Constant DEF Lines
  <1>5. lines \in Seq(Lines) /\ Range(lines) = {Line(r, s, "delivered")}
    BY <1>4 DEF Range
  <1>6. \A l \in Range(lines) : l.key = obl_key(r, s) /\ l.outcome = "delivered"
    BY <1>5, LineFields
  <1>7. \/ /\ Written(s, lines)
           /\ work' = [work EXCEPT !.stage = "scan", !.pending = Tail(@), !.broken = TRUE]
           /\ UNCHANGED phase
        \/ NotWritten(s, lines) /\ EndReplay
    BY Zenon DEF ReplayTransition
  <1>8. UNCHANGED <<committed, position, batch, durable, dlq, got, skipped, torn, replays>>
    BY DEF ReplayTransition
  <1> HIDE DEF lines
  <1> QED
    BY <1>1, <1>3, <1>5, <1>6, <1>7, <1>8, Zenon DEF LedgerStep

LEMMA TypeInit == Init => TypeOK /\ Control
  <1>1. SUFFICES ASSUME Init PROVE TypeOK /\ Control
    OBVIOUS
  <1>2. Offsets
    BY <1>1, Constant DEF Init, Offsets
  <1>3. Hands
    BY <1>1, IdleWork DEF Init, Hands
  <1>4. Ledgers /\ Outside /\ Bounds
    BY <1>1, Constant DEF Init, Ledgers, Outside, Bounds
  <1>5. Control
    BY <1>1, IdleWork DEF Init, Control
  <1> QED
    BY <1>2, <1>3, <1>4, <1>5, TypeParts

LEMMA PollType ==
    ASSUME TypeOK, Control, Poll
    PROVE  TypeOK' /\ Control'
  <1>1. Offsets /\ Hands /\ Ledgers /\ Outside /\ Bounds
    BY TypeParts
  <1>2. PICK n \in [Partitions -> 0 .. MaxPoll] :
            /\ \A p \in Partitions : position[p] + n[p] <= Len(Topic[p])
            /\ batch' = [p \in Partitions |-> SubSeq(Topic[p], position[p] + 1, position[p] + n[p])]
            /\ position' = [p \in Partitions |-> position[p] + n[p]]
    BY DEF Poll
  <1>3. ASSUME NEW p \in Partitions
        PROVE  /\ position[p] \in Nat /\ position[p] + n[p] \in 0 .. Len(Topic[p])
               /\ committed[p] \in 0 .. position[p] + n[p]
               /\ SubSeq(Topic[p], position[p] + 1, position[p] + n[p]) \in Seq(Records)
    <2>1. position[p] \in 0 .. Len(Topic[p]) /\ committed[p] \in 0 .. position[p] /\ n[p] \in Nat
      BY <1>1, <1>2, ForwarderAssumption DEF Offsets
    <2>2. Topic[p] \in Seq(Records) /\ Len(Topic[p]) \in Nat
      BY Constant
    <2>3. position[p] \in Nat /\ position[p] + n[p] \in 0 .. Len(Topic[p]) /\ committed[p] \in 0 .. position[p] + n[p]
      BY <1>2, <2>1, <2>2
    <2> QED
      BY <2>2, <2>3, RangeSubSeq
  <1>4. Offsets'
    BY <1>2, <1>3 DEF Offsets, Poll
  <1>5. Hands'
    <2>1. batch' \in [Partitions -> Seq(Records)]
      BY <1>2, <1>3
    <2> QED
      BY <1>1, <2>1 DEF Hands, Poll
  <1>6. Ledgers' /\ Outside' /\ Bounds'
    BY <1>1 DEF Ledgers, Outside, Bounds, Poll
  <1>7. Control'
    BY IdleWork DEF Control, Poll
  <1> QED
    BY <1>4, <1>5, <1>6, <1>7, TypeNext

LEMMA BeginPartitionType ==
    ASSUME TypeOK, Control, NEW p \in Partitions, BeginPartition(p)
    PROVE  TypeOK' /\ Control'
  <1>1. Offsets /\ Hands /\ Ledgers /\ Outside /\ Bounds
    BY TypeParts
  <1>2. work' = [part |-> p, sinks |-> SinkNames, stage |-> "withheld", pending |-> <<>>,
                 failed |-> <<>>, attempt |-> 0, broken |-> FALSE]
    BY DEF BeginPartition, Idle
  <1>3. work' \in Work
    BY <1>2, Constant DEF Work, Stages
  <1>4. Hands'
    BY <1>1, <1>3 DEF Hands, BeginPartition
  <1>5. Offsets' /\ Ledgers' /\ Outside' /\ Bounds'
    BY <1>1 DEF Offsets, Ledgers, Outside, Bounds, BeginPartition
  <1>6. work'.stage = "withheld" /\ work'.part = p /\ work'.sinks = SinkNames /\ phase' = "batch"
    BY <1>2 DEF BeginPartition
  <1>7. Control'
    BY <1>6, Constant DEF Control, EmitStages
  <1> QED
    BY <1>4, <1>5, <1>7, TypeNext

LEMMA WithheldType ==
    ASSUME TypeOK, Control, RecordWithheld
    PROVE  TypeOK' /\ Control'
  <1>1. work.stage \in EmitStages /\ UNCHANGED <<committed, position, phase, dlq, got, torn, replays>>
    BY WithheldLines DEF EmitStages
  <1>2. /\ Hands /\ Ledgers /\ Outside /\ Bounds /\ Offsets
        /\ phase = "batch" /\ work \in Work /\ work.part \in Partitions /\ work.sinks # <<>>
    BY <1>1, Emitting
  <1>3. PICK lines : LedgerStep(SinkNames[1], lines) /\ lines \in Seq(Lines)
    BY WithheldLines DEF LinesOf
  <1>4. Ledgers'
    BY <1>2, <1>3, LedgerStepLines, Constant
  <1>5. Bounds'
    BY <1>1, <1>2, <1>3, LedgerStepBounds
  <1>6. Offsets' /\ Outside'
    BY <1>1, <1>2 DEF Offsets, Outside
  <1>7. Hands' /\ Control'
    <2>1. CASE work' = [work EXCEPT !.stage = "dedup"] /\ UNCHANGED <<batch, durable, skipped>>
      <3>1. work' \in Work
        BY <1>2, <2>1 DEF Work, Stages
      <3>2. work'.stage = "dedup" /\ work'.part = work.part /\ work'.sinks = work.sinks
        BY <1>2, <2>1 DEF Work
      <3>3. Hands'
        BY <1>1, <1>2, <2>1, <3>1 DEF Hands
      <3>4. Control'
        BY <1>1, <1>2, <3>2 DEF Control, EmitStages
      <3> QED
        BY <3>3, <3>4
    <2>2. CASE LeavePartition(TRUE) \/ LeavePartition(FALSE)
      BY <1>1, <1>2, <2>2, LeavingControl
    <2> QED
      BY <2>1, <2>2, WithheldLines
  <1> QED
    BY <1>4, <1>5, <1>6, <1>7, TypeNext

LEMMA DedupType ==
    ASSUME TypeOK, Control, Dedup
    PROVE  TypeOK' /\ Control'
  <1>1. /\ work.stage \in EmitStages
        /\ UNCHANGED <<committed, position, phase, ledger, outcome, dlq, got, torn, faults, replays>>
    BY DEF Dedup, EmitStages
  <1>2. /\ Hands /\ Ledgers /\ Outside /\ Bounds /\ Offsets /\ batch[work.part] \in Seq(Records)
        /\ phase = "batch" /\ work \in Work /\ work.part \in Partitions /\ work.sinks # <<>>
    BY <1>1, Emitting
  <1>3. PICK fresh : fresh = Picked(batch[work.part], Fresh(Head(work.sinks), batch[work.part], LiveRecords, Head(work.sinks)))
    OBVIOUS
  <1>4. fresh \in Seq(Records) /\ Range(fresh) \subseteq LiveRecords
    BY <1>2, <1>3, FreshItems DEF ItemsOf
  <1>5. fresh \in Seq(LiveRecords)
    BY <1>4, SeqWithin
  <1>6. SinkDone(TRUE) \/ (work' = [work EXCEPT !.stage = "send", !.pending = fresh] /\ UNCHANGED <<batch, durable, skipped>>)
    BY <1>3 DEF Dedup
  <1>7. Offsets' /\ Ledgers' /\ Outside' /\ Bounds'
    BY <1>1, <1>2 DEF Offsets, Ledgers, Outside, Bounds
  <1>8. Hands' /\ Control'
    <2>1. CASE SinkDone(TRUE)
      BY <1>1, <1>2, <2>1, DoneControl
    <2>2. CASE work' = [work EXCEPT !.stage = "send", !.pending = fresh] /\ UNCHANGED <<batch, durable, skipped>>
      <3>1. work' \in Work
        BY <1>2, <1>5, <2>2 DEF Work, Stages
      <3>2. work'.stage = "send" /\ work'.part = work.part /\ work'.sinks = work.sinks
        BY <1>2, <2>2 DEF Work
      <3>3. Hands'
        BY <1>1, <1>2, <2>2, <3>1 DEF Hands
      <3>4. Control'
        BY <1>1, <1>2, <3>2 DEF Control, EmitStages
      <3> QED
        BY <3>3, <3>4
    <2> QED
      BY <1>6, <2>1, <2>2
  <1> QED
    BY <1>7, <1>8, TypeNext

LEMMA SendType ==
    ASSUME TypeOK, Control, Send
    PROVE  TypeOK' /\ Control'
  <1>1. /\ work.stage \in EmitStages
        /\ UNCHANGED <<committed, position, batch, durable, phase, ledger, outcome, dlq, skipped, torn, replays>>
    BY DEF Send, EmitStages
  <1>2. /\ Hands /\ Ledgers /\ Outside /\ Bounds /\ Offsets
        /\ work.pending \in Seq(LiveRecords) /\ Head(work.sinks) \in Sinks
        /\ phase = "batch" /\ work \in Work /\ work.part \in Partitions /\ work.sinks # <<>>
    BY <1>1, Emitting
  <1>3. PICK taken \in SUBSET Range(work.pending) :
           /\ Receives(Head(work.sinks), taken)
           /\ \/ /\ work' = [work EXCEPT !.stage = "record",
                                !.failed = Selected(work.pending, Range(work.pending) \ taken)]
                 /\ UNCHANGED faults
              \/ /\ work' = [work EXCEPT !.stage = "record", !.failed = work.pending]
                 /\ faults < MaxFaults /\ faults' = faults + 1
    BY DEF Send
  <1>4. Selected(work.pending, Range(work.pending) \ taken) \in Seq(LiveRecords)
    BY <1>2, SelectedRange
  <1>5. PICK failed \in Seq(LiveRecords) : work' = [work EXCEPT !.stage = "record", !.failed = failed]
    BY <1>2, <1>3, <1>4
  <1>6. work' \in Work
    BY <1>2, <1>5 DEF Work, Stages
  <1>7. work'.stage = "record" /\ work'.part = work.part /\ work'.sinks = work.sinks
    BY <1>2, <1>5 DEF Work
  <1>8. Outside'
    BY <1>1, <1>2, <1>3, ReceivesType DEF Outside
  <1>9. Bounds'
    <2>1. CASE UNCHANGED faults
      BY <1>1, <1>2, <2>1 DEF Bounds
    <2>2. CASE faults < MaxFaults /\ faults' = faults + 1
      BY <1>1, <1>2, <2>2, FaultBound
    <2> QED
      BY <1>3, <2>1, <2>2
  <1>10. Offsets' /\ Ledgers'
    BY <1>1, <1>2 DEF Offsets, Ledgers
  <1>11. Hands'
    BY <1>1, <1>2, <1>6 DEF Hands
  <1>12. Control'
    BY <1>1, <1>2, <1>7 DEF Control, EmitStages
  <1> QED
    BY <1>8, <1>9, <1>10, <1>11, <1>12, TypeNext

\* The next attempt, or the dead-letter file.
LEMMA RetryWork ==
    ASSUME work \in Work, Retry
    PROVE  /\ work' \in Work
           /\ work'.stage \in {"dlq", "send"} /\ work'.part = work.part /\ work'.sinks = work.sinks
           /\ work'.pending = work.failed /\ work'.broken = work.broken
  <1>1. work.attempt \in 0 .. Retries /\ work.failed \in Seq(LiveRecords) /\ Retries \in Nat
    BY WorkFields, Constant
  <1>2. PICK stage \in {"dlq", "send"}, attempt \in 0 .. Retries :
            work' = [work EXCEPT !.stage = stage, !.pending = work.failed, !.failed = <<>>, !.attempt = attempt]
    <2>1. CASE work.attempt >= Retries
      BY <1>1, <2>1 DEF Retry
    <2>2. CASE ~(work.attempt >= Retries)
      <3>1. work.attempt + 1 \in 0 .. Retries
        BY <1>1, <2>2
      <3> QED
        BY <2>2, <3>1 DEF Retry
    <2> QED
      BY <2>1, <2>2
  <1>3. work' = [part |-> work.part, sinks |-> work.sinks, stage |-> stage, pending |-> work.failed,
                 failed |-> <<>>, attempt |-> attempt, broken |-> work.broken]
    BY <1>2 DEF Work
  <1>4. /\ work.part \in Partitions \cup {None} /\ work.sinks \in Seq(Sinks) /\ work.broken \in BOOLEAN
        /\ stage \in Stages /\ <<>> \in Seq(LiveRecords)
    BY WorkFields DEF Stages
  <1>5. work' \in Work
    BY <1>1, <1>3, <1>4 DEF Work
  <1> QED
    BY <1>3, <1>5

LEMMA AcceptedType ==
    ASSUME TypeOK, Control, RecordAccepted
    PROVE  TypeOK' /\ Control'
  <1>1. work.stage \in EmitStages /\ UNCHANGED <<committed, position, phase, dlq, got, torn, replays>>
    BY AcceptedLines DEF EmitStages
  <1>2. /\ Hands /\ Ledgers /\ Outside /\ Bounds /\ Offsets /\ Head(work.sinks) \in Sinks
        /\ phase = "batch" /\ work \in Work /\ work.part \in Partitions /\ work.sinks # <<>>
    BY <1>1, Emitting
  <1>3. PICK lines : LedgerStep(Head(work.sinks), lines) /\ lines \in Seq(Lines)
    BY AcceptedLines DEF LinesOf
  <1>4. Ledgers'
    BY <1>2, <1>3, LedgerStepLines
  <1>5. Bounds'
    BY <1>1, <1>2, <1>3, LedgerStepBounds
  <1>6. Offsets' /\ Outside'
    BY <1>1, <1>2 DEF Offsets, Outside
  <1>7. Hands' /\ Control'
    <2>1. CASE SinkDone(TRUE) \/ SinkDone(FALSE)
      BY <1>1, <1>2, <2>1, DoneControl
    <2>2. CASE Retry /\ UNCHANGED <<batch, durable, skipped>>
      <3>1. /\ work' \in Work
            /\ work'.stage \in {"dlq", "send"} /\ work'.part = work.part /\ work'.sinks = work.sinks
        BY <1>2, <2>2, RetryWork
      <3>2. Hands'
        BY <1>1, <1>2, <2>2, <3>1 DEF Hands
      <3>3. Control'
        BY <1>1, <1>2, <3>1 DEF Control, EmitStages
      <3> QED
        BY <3>2, <3>3
    <2> QED
      BY <2>1, <2>2, AcceptedLines
  <1> QED
    BY <1>4, <1>5, <1>6, <1>7, TypeNext

\* The dead-letter file gets a prefix of the pending records.
LEMMA DlqCases ==
    ASSUME TypeOK, Control, WriteDlq
    PROVE  LET s == Head(work.sinks)
           IN  /\ work.stage = "dlq"
               /\ \E pre \in Seq(LiveRecords) :
                    /\ Range(pre) \subseteq Range(work.pending)
                    /\ dlq' = [dlq EXCEPT ![s] = @ \o pre]
                    /\ \/ /\ pre = work.pending /\ work' = [work EXCEPT !.stage = "mark"]
                          /\ UNCHANGED <<faults, batch, durable, skipped>>
                       \/ faults < MaxFaults /\ faults' = faults + 1 /\ SinkDone(FALSE)
               /\ UNCHANGED <<committed, position, phase, ledger, outcome, got, torn, replays>>
  <1> DEFINE s == Head(work.sinks)
  <1>1. work.stage = "dlq" /\ work.stage \in EmitStages
    BY DEF WriteDlq, EmitStages
  <1>2. work.pending \in Seq(LiveRecords)
    BY <1>1, Emitting
  <1>3. UNCHANGED <<committed, position, phase, ledger, outcome, got, torn, replays>>
    BY DEF WriteDlq
  <1>4. CASE /\ dlq' = [dlq EXCEPT ![s] = @ \o work.pending] /\ work' = [work EXCEPT !.stage = "mark"]
             /\ UNCHANGED <<faults, batch, durable, skipped>>
    BY <1>1, <1>2, <1>3, <1>4
  <1>5. CASE /\ faults < MaxFaults /\ faults' = faults + 1 /\ SinkDone(FALSE)
             /\ \E n \in 0 .. Len(work.pending) : dlq' = [dlq EXCEPT ![s] = @ \o SubSeq(work.pending, 1, n)]
    <2>1. PICK n \in 0 .. Len(work.pending) : dlq' = [dlq EXCEPT ![s] = @ \o SubSeq(work.pending, 1, n)]
      BY <1>5
    <2>2. SubSeq(work.pending, 1, n) \in Seq(LiveRecords) /\ Range(SubSeq(work.pending, 1, n)) \subseteq Range(work.pending)
      BY <1>2, RangePrefix
    <2> QED
      BY <1>1, <1>3, <1>5, <2>1, <2>2, Zenon
  <1> QED
    BY <1>4, <1>5, Zenon DEF WriteDlq

LEMMA WriteDlqType ==
    ASSUME TypeOK, Control, WriteDlq
    PROVE  TypeOK' /\ Control'
  <1>1. work.stage \in EmitStages /\ UNCHANGED <<committed, position, phase, ledger, outcome, got, torn, replays>>
    BY DlqCases DEF EmitStages
  <1>2. /\ Hands /\ Ledgers /\ Outside /\ Bounds /\ Offsets /\ Head(work.sinks) \in Sinks
        /\ phase = "batch" /\ work \in Work /\ work.part \in Partitions /\ work.sinks # <<>>
    BY <1>1, Emitting
  <1>3. PICK pre \in Seq(LiveRecords) :
            /\ dlq' = [dlq EXCEPT ![Head(work.sinks)] = @ \o pre]
            /\ \/ /\ work' = [work EXCEPT !.stage = "mark"]
                  /\ UNCHANGED <<faults, batch, durable, skipped>>
               \/ faults < MaxFaults /\ faults' = faults + 1 /\ SinkDone(FALSE)
    BY DlqCases, Zenon
  <1>4. Outside'
    <2>1. dlq[Head(work.sinks)] \o pre \in Seq(LiveRecords)
      BY <1>2, RangeConcat DEF Outside
    <2> QED
      BY <1>1, <1>2, <1>3, <2>1 DEF Outside
  <1>5. Offsets' /\ Ledgers'
    BY <1>1, <1>2 DEF Offsets, Ledgers
  <1>6. CASE work' = [work EXCEPT !.stage = "mark"] /\ UNCHANGED <<faults, batch, durable, skipped>>
    <2>1. work' \in Work
      BY <1>2, <1>6 DEF Work, Stages
    <2>2. work'.stage = "mark" /\ work'.part = work.part /\ work'.sinks = work.sinks
      BY <1>2, <1>6 DEF Work
    <2>3. Hands' /\ Bounds'
      BY <1>1, <1>2, <1>6, <2>1 DEF Hands, Bounds
    <2>4. Control'
      BY <1>1, <1>2, <2>2 DEF Control, EmitStages
    <2> QED
      BY <1>4, <1>5, <2>3, <2>4, TypeNext
  <1>7. CASE faults < MaxFaults /\ faults' = faults + 1 /\ SinkDone(FALSE)
    <2>1. Bounds'
      BY <1>1, <1>2, <1>7, FaultBound
    <2>2. Hands' /\ Control'
      BY <1>1, <1>2, <1>7, DoneControl
    <2> QED
      BY <1>4, <1>5, <2>1, <2>2, TypeNext
  <1> QED
    BY <1>3, <1>6, <1>7

LEMMA MarkDeadType ==
    ASSUME TypeOK, Control, MarkDead
    PROVE  TypeOK' /\ Control'
  <1>1. work.stage \in EmitStages /\ UNCHANGED <<committed, position, phase, dlq, got, torn, replays>>
    BY MarkedLines DEF EmitStages
  <1>2. /\ Hands /\ Ledgers /\ Outside /\ Bounds /\ Offsets /\ Head(work.sinks) \in Sinks
        /\ phase = "batch" /\ work \in Work /\ work.part \in Partitions /\ work.sinks # <<>>
    BY <1>1, Emitting
  <1>3. PICK lines : LedgerStep(Head(work.sinks), lines) /\ lines \in Seq(Lines)
    BY MarkedLines DEF LinesOf
  <1>4. Ledgers'
    BY <1>2, <1>3, LedgerStepLines
  <1>5. Bounds'
    BY <1>1, <1>2, <1>3, LedgerStepBounds
  <1>6. Offsets' /\ Outside'
    BY <1>1, <1>2 DEF Offsets, Outside
  <1>7. Hands' /\ Control'
    BY <1>1, <1>2, DoneControl, MarkedLines
  <1> QED
    BY <1>4, <1>5, <1>6, <1>7, TypeNext

LEMMA EndBatchType ==
    ASSUME TypeOK, Control, EndBatch
    PROVE  TypeOK' /\ Control'
  <1>1. Offsets /\ Hands /\ Ledgers /\ Outside /\ Bounds
    BY TypeParts
  <1>2. Hands' /\ Ledgers' /\ Outside' /\ Bounds'
    BY <1>1 DEF Hands, Ledgers, Outside, Bounds, EndBatch
  <1>3. Offsets'
    <2>1. CASE durable
      <3>1. committed' = position /\ position' = position
        BY <2>1 DEF EndBatch
      <3> QED
        BY <1>1, <3>1, Constant DEF Offsets
    <2>2. CASE ~durable
      <3>1. committed' = committed /\ position' = position
        BY <2>2 DEF EndBatch
      <3> QED
        BY <1>1, <3>1 DEF Offsets
    <2> QED
      BY <2>1, <2>2
  <1>4. Control'
    BY IdleWork DEF Control, EndBatch
  <1> QED
    BY <1>2, <1>3, <1>4, TypeNext

LEMMA CompactType ==
    ASSUME TypeOK, Control, Compact
    PROVE  TypeOK' /\ Control'
  <1>1. Offsets /\ Hands /\ Ledgers /\ Outside /\ Bounds
    BY TypeParts
  <1>2. Hands' /\ Offsets' /\ Outside' /\ Bounds' /\ Control'
    BY <1>1 DEF Hands, Offsets, Outside, Bounds, Control, Compact
  <1>3. ASSUME NEW s \in Sinks PROVE SetToSeq(Latest(ledger[s])) \in Seq(Lines) /\ Latest(ledger[s]) \subseteq Lines
    <2>1. ledger[s] \in Seq(Lines)
      BY <1>1 DEF Ledgers
    <2>2. IsFiniteSet(Latest(ledger[s])) /\ Latest(ledger[s]) \subseteq Lines
      BY <2>1, LatestKeeps, RangeOf
    <2>3. SetToSeq(Latest(ledger[s])) \in Seq(Latest(ledger[s])) /\ Range(SetToSeq(Latest(ledger[s]))) = Latest(ledger[s])
      BY <2>2, SetToSeqRange
    <2> QED
      BY <2>2, <2>3, SeqWithin
  <1>4. Ledgers'
    BY <1>3 DEF Ledgers, Compact
  <1> QED
    BY <1>2, <1>4, TypeNext

LEMMA RestartType ==
    ASSUME TypeOK, Control, Restart
    PROVE  TypeOK' /\ Control'
  <1>1. Offsets /\ Hands /\ Ledgers /\ Outside /\ Bounds
    BY TypeParts
  <1>2. Hands' /\ Outside' /\ Bounds' /\ Control'
    BY <1>1 DEF Hands, Outside, Bounds, Control, Restart
  <1>3. Offsets'
    <2>1. ASSUME NEW p \in Partitions PROVE committed[p] \in 0 .. Len(Topic[p]) /\ committed[p] \in 0 .. committed[p]
      <3>1. position[p] \in 0 .. Len(Topic[p]) /\ committed[p] \in 0 .. position[p] /\ Len(Topic[p]) \in Nat
        BY <1>1, Constant DEF Offsets
      <3> QED
        BY <3>1
    <2>2. position' = committed /\ committed' = committed
      BY DEF Restart
    <2> QED
      BY <2>1, <2>2 DEF Offsets
  <1>4. ASSUME NEW s \in Sinks PROVE Latest(ledger[s]) \subseteq Lines
    <2>1. ledger[s] \in Seq(Lines)
      BY <1>1 DEF Ledgers
    <2> QED
      BY <2>1, LatestKeeps, RangeOf
  <1>5. Ledgers'
    BY <1>1, <1>4 DEF Ledgers, Restart, LoadLedger
  <1> QED
    BY <1>2, <1>3, <1>5, TypeNext

LEMMA CrashType ==
    ASSUME TypeOK, Control, Crash
    PROVE  TypeOK' /\ Control'
  <1>1. Offsets /\ Hands /\ Ledgers /\ Outside /\ Bounds
    BY TypeParts
  <1>2. Bounds'
    BY <1>1, FaultBound DEF Crash
  <1>3. Hands' /\ Offsets' /\ Ledgers' /\ Control'
    BY <1>1, IdleWork DEF Hands, Offsets, Ledgers, Control, Crash
  <1>4. Outside'
    <2>1. CASE work.stage = "rewrite"
      <3>1. Head(work.sinks) \in Sinks /\ Range(work.pending) \subseteq LiveRecords
        BY <1>1, <2>1, Replaying, RangeOf
      <3>2. torn' = torn \cup {<<Head(work.sinks), r>> : r \in Range(work.pending)}
        BY <2>1 DEF Crash
      <3> QED
        BY <1>1, <3>1, <3>2 DEF Outside, Crash
    <2>2. CASE work.stage # "rewrite"
      BY <1>1, <2>2 DEF Outside, Crash
    <2> QED
      BY <2>1, <2>2
  <1> QED
    BY <1>2, <1>3, <1>4, TypeNext

LEMMA BeginReplayType ==
    ASSUME TypeOK, Control, NEW s \in Sinks, BeginReplay(s)
    PROVE  TypeOK' /\ Control'
  <1>1. Offsets /\ Hands /\ Ledgers /\ Outside /\ Bounds
    BY TypeParts
  <1>2. work' = [part |-> None, sinks |-> <<s>>, stage |-> "scan", pending |-> dlq[s],
                 failed |-> <<>>, attempt |-> 0, broken |-> FALSE]
    BY DEF BeginReplay, Idle
  <1>3. work' \in Work
    <2>1. dlq[s] \in Seq(LiveRecords) /\ <<s>> \in Seq(Sinks) /\ Retries \in Nat
      BY <1>1, Constant DEF Outside
    <2> QED
      BY <1>2, <2>1 DEF Work, Stages
  <1>4. Hands'
    BY <1>1, <1>3 DEF Hands, BeginReplay
  <1>5. Offsets' /\ Ledgers' /\ Outside'
    BY <1>1 DEF Offsets, Ledgers, Outside, BeginReplay
  <1>6. Bounds'
    BY <1>1, Constant DEF Bounds, BeginReplay
  <1>7. work'.stage = "scan" /\ work'.sinks = <<s>> /\ phase' = "replay" /\ phase = "poll" /\ batch' = batch
    BY <1>2 DEF BeginReplay
  <1>8. Control'
    BY <1>7 DEF Control
  <1> QED
    BY <1>4, <1>5, <1>6, <1>8, TypeNext

\* One dead letter is tried: its receiver may get it, and then it is either
\* the next one's turn or its transition is due.
LEMMA ReplayOneCases ==
    ASSUME TypeOK, Control, ReplayOne
    PROVE  LET s == Head(work.sinks) r == Head(work.pending)
           IN  /\ work.stage = "scan" /\ work.pending # <<>>
               /\ \/ work' = [work EXCEPT !.pending = Tail(@)] /\ UNCHANGED <<got, faults>>
                  \/ /\ ~DeliveredTo(s, r) /\ Receives(s, {r})
                     /\ faults < MaxFaults /\ faults' = faults + 1
                     /\ work' = [work EXCEPT !.pending = Tail(@)]
                  \/ /\ ~DeliveredTo(s, r) /\ Receives(s, {r})
                     /\ UNCHANGED faults
                     /\ work' = [work EXCEPT !.stage = "transition"]
               /\ UNCHANGED <<committed, position, batch, durable, phase, ledger, outcome, dlq,
                              skipped, torn, replays>>
  BY Zenon DEF ReplayOne

LEMMA ReplayOneType ==
    ASSUME TypeOK, Control, ReplayOne
    PROVE  TypeOK' /\ Control'
  <1>1. /\ work.stage \in {"scan", "transition", "rewrite"} /\ work.stage = "scan" /\ work.pending # <<>>
        /\ UNCHANGED <<committed, position, batch, durable, phase, ledger, outcome, dlq, skipped, torn, replays>>
    BY DEF ReplayOne
  <1>2. /\ phase = "replay" /\ work.sinks # <<>> /\ Head(work.sinks) \in Sinks
        /\ work.pending \in Seq(LiveRecords) /\ work \in Work
        /\ Hands /\ Ledgers /\ Outside /\ Bounds /\ Offsets
        /\ \A p \in Partitions : batch[p] = <<>>
    BY <1>1, Replaying
  <1>3. Offsets' /\ Ledgers'
    BY <1>1, <1>2 DEF Offsets, Ledgers
  <1>4. Outside'
    <2>1. CASE UNCHANGED got
      BY <1>1, <1>2, <2>1 DEF Outside
    <2>2. CASE Receives(Head(work.sinks), {Head(work.pending)})
      BY <1>1, <1>2, <2>2, ReceivesType DEF Outside
    <2> QED
      BY <2>1, <2>2, ReplayOneCases
  <1>5. Bounds'
    <2>1. CASE UNCHANGED faults
      BY <1>1, <1>2, <2>1 DEF Bounds
    <2>2. CASE faults < MaxFaults /\ faults' = faults + 1
      BY <1>1, <1>2, <2>2, FaultBound
    <2> QED
      BY <2>1, <2>2, ReplayOneCases
  <1>6. /\ work' \in Work /\ work'.sinks = work.sinks
        /\ work'.stage = "scan" \/ (work'.stage = "transition" /\ work'.pending = work.pending)
    <2>1. CASE work' = [work EXCEPT !.pending = Tail(@)]
      <3>1. Tail(work.pending) \in Seq(LiveRecords)
        BY <1>1, <1>2, RangeOf
      <3> QED
        BY <1>1, <1>2, <2>1, <3>1 DEF Work
    <2>2. CASE work' = [work EXCEPT !.stage = "transition"]
      BY <1>2, <2>2 DEF Work, Stages
    <2> QED
      BY <2>1, <2>2, ReplayOneCases
  <1>7. Hands'
    BY <1>1, <1>2, <1>6 DEF Hands
  <1>8. Control'
    BY <1>1, <1>2, <1>6 DEF Control
  <1> QED
    BY <1>3, <1>4, <1>5, <1>7, <1>8, TypeNext

LEMMA EndReplayControl ==
    ASSUME EndReplay, Hands, UNCHANGED <<batch, durable, skipped>>,
           \A p \in Partitions : batch[p] = <<>>
    PROVE  Hands' /\ Control'
  <1>1. work' = Idle /\ phase' = "poll"
    BY DEF EndReplay
  <1>2. Hands'
    BY <1>1, IdleWork DEF Hands
  <1>3. Control'
    BY <1>1, IdleWork DEF Control
  <1> QED
    BY <1>2, <1>3

LEMMA TransitionType ==
    ASSUME TypeOK, Control, ReplayTransition
    PROVE  TypeOK' /\ Control'
  <1>1. /\ work.stage \in {"scan", "transition", "rewrite"} /\ work.pending # <<>>
        /\ UNCHANGED <<committed, position, batch, durable, dlq, got, skipped, torn, replays>>
    BY TransitionLines DEF Control
  <1>2. /\ phase = "replay" /\ work.sinks # <<>> /\ Head(work.sinks) \in Sinks
        /\ work.pending \in Seq(LiveRecords) /\ work \in Work
        /\ Hands /\ Ledgers /\ Outside /\ Bounds /\ Offsets
        /\ \A p \in Partitions : batch[p] = <<>>
    BY <1>1, Replaying
  <1>3. PICK lines \in Seq(Lines) : LedgerStep(Head(work.sinks), lines)
    BY TransitionLines
  <1>4. Ledgers'
    BY <1>2, <1>3, LedgerStepLines
  <1>5. Bounds'
    BY <1>1, <1>2, <1>3, LedgerStepBounds
  <1>6. Offsets' /\ Outside'
    BY <1>1, <1>2 DEF Offsets, Outside
  <1>7. Hands' /\ Control'
    <2>1. CASE /\ work' = [work EXCEPT !.stage = "scan", !.pending = Tail(@), !.broken = TRUE]
               /\ UNCHANGED phase
      <3>1. Tail(work.pending) \in Seq(LiveRecords)
        BY <1>1, <1>2, RangeOf
      <3>2. work' \in Work
        BY <1>2, <2>1, <3>1 DEF Work, Stages
      <3>3. work'.stage = "scan" /\ work'.sinks = work.sinks
        BY <1>2, <2>1 DEF Work
      <3>4. Hands'
        BY <1>1, <1>2, <2>1, <3>2 DEF Hands
      <3>5. Control'
        BY <1>1, <1>2, <2>1, <3>3 DEF Control
      <3> QED
        BY <3>4, <3>5
    <2>2. CASE EndReplay
      BY <1>1, <1>2, <2>2, EndReplayControl
    <2> QED
      BY <2>1, <2>2, TransitionLines
  <1> QED
    BY <1>4, <1>5, <1>6, <1>7, TypeNext

LEMMA TruncateType ==
    ASSUME TypeOK, Control, TruncateDlq
    PROVE  TypeOK' /\ Control'
  <1>1. /\ work.stage \in {"scan", "transition", "rewrite"}
        /\ UNCHANGED <<committed, position, batch, durable, ledger, outcome, got, skipped, torn, faults, replays>>
    BY DEF TruncateDlq
  <1>2. /\ phase = "replay" /\ work.sinks # <<>> /\ Head(work.sinks) \in Sinks
        /\ work.pending \in Seq(LiveRecords) /\ work \in Work
        /\ Hands /\ Ledgers /\ Outside /\ Bounds /\ Offsets
        /\ \A p \in Partitions : batch[p] = <<>>
    BY <1>1, Replaying
  <1>3. Offsets' /\ Ledgers' /\ Bounds'
    BY <1>1, <1>2 DEF Offsets, Ledgers, Bounds
  <1>4. \/ /\ dlq' = [dlq EXCEPT ![Head(work.sinks)] = <<>>]
           /\ work' = [work EXCEPT !.stage = "rewrite", !.pending = Kept(Head(work.sinks))]
           /\ UNCHANGED phase
        \/ EndReplay /\ UNCHANGED dlq
    BY Zenon DEF TruncateDlq
  <1>5. Outside'
    <2>1. dlq' \in [Sinks -> Seq(LiveRecords)]
      <3>1. dlq \in [Sinks -> Seq(LiveRecords)] /\ <<>> \in Seq(LiveRecords)
        BY <1>2 DEF Outside
      <3> QED
        BY <1>2, <1>4, <3>1
    <2> QED
      BY <1>1, <1>2, <2>1 DEF Outside
  <1>6. Hands' /\ Control'
    <2>1. CASE /\ work' = [work EXCEPT !.stage = "rewrite", !.pending = Kept(Head(work.sinks))]
               /\ UNCHANGED phase
      <3>1. Kept(Head(work.sinks)) \in Seq(LiveRecords)
        BY <1>2, SelectedRange DEF Kept, Outside
      <3>2. work' \in Work
        BY <1>2, <2>1, <3>1 DEF Work, Stages
      <3>3. work'.stage = "rewrite" /\ work'.sinks = work.sinks
        BY <1>2, <2>1 DEF Work
      <3>4. Hands'
        BY <1>1, <1>2, <2>1, <3>2 DEF Hands
      <3>5. Control'
        BY <1>1, <1>2, <2>1, <3>3 DEF Control
      <3> QED
        BY <3>4, <3>5
    <2>2. CASE EndReplay
      BY <1>1, <1>2, <2>2, EndReplayControl
    <2> QED
      BY <1>4, <2>1, <2>2
  <1> QED
    BY <1>3, <1>5, <1>6, TypeNext

\* The rewrite puts a prefix of what it has in hand into the file; the rest is torn off.
LEMMA RewriteCases ==
    ASSUME TypeOK, Control, RewriteDlq
    PROVE  LET s == Head(work.sinks)
           IN  /\ work.stage = "rewrite" /\ EndReplay
               /\ \E pre \in Seq(LiveRecords) : \E lost \in SUBSET LiveRecords :
                    /\ dlq' = [dlq EXCEPT ![s] = pre] /\ torn' = torn \cup ({s} \X lost)
                    /\ Range(work.pending) \subseteq Range(pre) \cup lost
               /\ UNCHANGED faults \/ (faults < MaxFaults /\ faults' = faults + 1)
               /\ UNCHANGED <<committed, position, batch, durable, ledger, outcome, got, skipped, replays>>
  <1> DEFINE s == Head(work.sinks)
  <1>1. work.stage = "rewrite" /\ work.stage \in {"scan", "transition", "rewrite"} /\ EndReplay
    BY DEF RewriteDlq
  <1>2. work.pending \in Seq(LiveRecords)
    BY <1>1, Replaying
  <1>3. UNCHANGED <<committed, position, batch, durable, ledger, outcome, got, skipped, replays>>
    BY DEF RewriteDlq
  <1>4. CASE dlq' = [dlq EXCEPT ![s] = work.pending] /\ UNCHANGED <<faults, torn>>
    <2>1. torn' = torn \cup ({s} \X {}) /\ {} \in SUBSET LiveRecords
      BY <1>4
    <2> QED
      BY <1>1, <1>2, <1>3, <1>4, <2>1
  <1>5. CASE /\ faults < MaxFaults /\ faults' = faults + 1
             /\ \E n \in 0 .. Len(work.pending) - 1 :
                  /\ dlq' = [dlq EXCEPT ![s] = SubSeq(work.pending, 1, n)]
                  /\ torn' = torn \cup {<<s, work.pending[i]>> : i \in n + 1 .. Len(work.pending)}
    <2>1. PICK n \in 0 .. Len(work.pending) - 1 :
             /\ dlq' = [dlq EXCEPT ![s] = SubSeq(work.pending, 1, n)]
             /\ torn' = torn \cup {<<s, work.pending[i]>> : i \in n + 1 .. Len(work.pending)}
      BY <1>5
    <2>2. PICK lost : lost = {work.pending[i] : i \in n + 1 .. Len(work.pending)}
      OBVIOUS
    <2>3. PICK pre : pre = SubSeq(work.pending, 1, n)
      OBVIOUS
    <2>4. Len(work.pending) \in Nat /\ n \in 0 .. Len(work.pending) /\ n \in Nat
      BY <1>2
    <2>5. pre \in Seq(LiveRecords) /\ Range(pre) = {work.pending[i] : i \in 1 .. n}
      BY <1>2, <2>3, <2>4, RangePrefix
    <2>6. lost \subseteq LiveRecords
      BY <1>2, <2>2, <2>4
    <2>7. torn' = torn \cup ({s} \X lost)
      BY <2>1, <2>2
    <2>8. Range(work.pending) \subseteq Range(pre) \cup lost
      <3>1. SUFFICES ASSUME NEW i \in 1 .. Len(work.pending) PROVE work.pending[i] \in Range(pre) \cup lost
        BY <1>2 DEF Range
      <3>2. i \in 1 .. n \/ i \in n + 1 .. Len(work.pending)
        BY <2>4
      <3> QED
        BY <2>2, <2>5, <3>2
    <2>9. dlq' = [dlq EXCEPT ![s] = pre]
      BY <2>1, <2>3
    <2> QED
      BY <1>1, <1>3, <1>5, <2>5, <2>6, <2>7, <2>8, <2>9, Zenon
  <1> QED
    <2>1. \/ dlq' = [dlq EXCEPT ![s] = work.pending] /\ UNCHANGED <<faults, torn>>
          \/ /\ faults < MaxFaults /\ faults' = faults + 1
             /\ \E n \in 0 .. Len(work.pending) - 1 :
                  /\ dlq' = [dlq EXCEPT ![s] = SubSeq(work.pending, 1, n)]
                  /\ torn' = torn \cup {<<s, work.pending[i]>> : i \in n + 1 .. Len(work.pending)}
      BY DEF RewriteDlq
    <2> QED
      BY <1>4, <1>5, <2>1

LEMMA RewriteType ==
    ASSUME TypeOK, Control, RewriteDlq
    PROVE  TypeOK' /\ Control'
  <1>1. /\ work.stage \in {"scan", "transition", "rewrite"} /\ EndReplay
        /\ UNCHANGED <<committed, position, batch, durable, ledger, outcome, got, skipped, replays>>
        /\ UNCHANGED faults \/ (faults < MaxFaults /\ faults' = faults + 1)
    BY RewriteCases
  <1>2. /\ phase = "replay" /\ work.sinks # <<>> /\ Head(work.sinks) \in Sinks
        /\ Hands /\ Ledgers /\ Outside /\ Bounds /\ Offsets
        /\ \A p \in Partitions : batch[p] = <<>>
    BY <1>1, Replaying
  <1>3. Offsets' /\ Ledgers'
    BY <1>1, <1>2 DEF Offsets, Ledgers
  <1>4. Bounds'
    <2>1. CASE UNCHANGED faults
      BY <1>1, <1>2, <2>1 DEF Bounds
    <2>2. CASE faults < MaxFaults /\ faults' = faults + 1
      BY <1>1, <1>2, <2>2, FaultBound
    <2> QED
      BY <1>1, <2>1, <2>2
  <1>5. PICK pre \in Seq(LiveRecords), lost \in SUBSET LiveRecords :
            dlq' = [dlq EXCEPT ![Head(work.sinks)] = pre] /\ torn' = torn \cup ({Head(work.sinks)} \X lost)
    BY RewriteCases
  <1>6. Outside'
    BY <1>1, <1>2, <1>5 DEF Outside
  <1>7. Hands' /\ Control'
    BY <1>1, <1>2, EndReplayControl
  <1> QED
    BY <1>3, <1>4, <1>6, <1>7, TypeNext

\* Every step keeps the types and the control.
LEMMA TypeStep ==
    ASSUME TypeOK, Control, [Next]_vars
    PROVE  TypeOK' /\ Control'
  <1>1. CASE UNCHANGED vars
    <2>1. Offsets' /\ Hands' /\ Ledgers' /\ Outside' /\ Bounds' /\ Control'
      BY <1>1, TypeParts DEF vars, Offsets, Hands, Ledgers, Outside, Bounds, Control
    <2> QED
      BY <2>1, TypeNext
  <1>2. CASE EmitStep
    BY <1>2, WithheldType, DedupType, SendType, AcceptedType, WriteDlqType, MarkDeadType DEF EmitStep
  <1>3. CASE ReplayStep
    BY <1>3, ReplayOneType, TransitionType, TruncateType, RewriteType DEF ReplayStep
  <1>4. CASE Poll \/ EndBatch \/ Compact \/ Crash \/ Restart
    BY <1>4, PollType, EndBatchType, CompactType, CrashType, RestartType
  <1>5. CASE \E p \in Partitions : BeginPartition(p)
    BY <1>5, BeginPartitionType
  <1>6. CASE \E s \in Sinks : BeginReplay(s)
    BY <1>6, BeginReplayType
  <1> QED
    BY <1>1, <1>2, <1>3, <1>4, <1>5, <1>6 DEF Next

-----------------------------------------------------------------------------
(* What is accounted for stays accounted for.                              *)

\* Nothing a receiver got or a rewrite tore off is taken back.
Grown == /\ \A s \in Sinks : \A r \in LiveRecords : got[s][r] > 0 => got'[s][r] > 0
         /\ torn \subseteq torn'

LEMMA ReceivesGrows ==
    ASSUME Outside, NEW s \in Sinks, NEW rs, Receives(s, rs)
    PROVE  /\ \A t \in Sinks : \A r \in LiveRecords : got[t][r] > 0 => got'[t][r] > 0
           /\ \A r \in LiveRecords : r \in rs => got'[s][r] > 0
           /\ \A t \in Sinks : \A r \in LiveRecords : got'[t][r] > got[t][r] => t = s /\ r \in rs
  <1>1. \A t \in Sinks : \A r \in LiveRecords : got[t][r] \in Nat
    BY DEF Outside
  <1>2. \A t \in Sinks : \A r \in LiveRecords :
           got'[t][r] = IF t = s /\ r \in rs THEN got[t][r] + 1 ELSE got[t][r]
    BY ReceivesType
  <1> QED
    BY <1>1, <1>2

LEMMA GrownStep ==
    ASSUME TypeOK, Control, [Next]_vars
    PROVE  Grown
  <1>1. CASE Send
    <2>1. work.stage \in EmitStages /\ UNCHANGED torn
      BY <1>1 DEF Send, EmitStages
    <2>2. Outside /\ Head(work.sinks) \in Sinks
      BY <2>1, Emitting
    <2>3. PICK taken : Receives(Head(work.sinks), taken)
      BY <1>1 DEF Send
    <2> QED
      BY <2>1, <2>2, <2>3, ReceivesGrows DEF Grown
  <1>2. CASE ReplayOne
    <2>1. work.stage \in {"scan", "transition", "rewrite"} /\ UNCHANGED torn
      BY <1>2 DEF ReplayOne
    <2>2. Outside /\ Head(work.sinks) \in Sinks
      BY <2>1, Replaying
    <2>3. CASE UNCHANGED got
      BY <2>1, <2>3 DEF Grown
    <2>4. CASE Receives(Head(work.sinks), {Head(work.pending)})
      BY <2>1, <2>2, <2>4, ReceivesGrows DEF Grown
    <2> QED
      BY <1>2, <2>3, <2>4, ReplayOneCases
  <1>3. CASE RewriteDlq
    <2>1. UNCHANGED got
      BY <1>3 DEF RewriteDlq
    <2>2. torn \subseteq torn'
      BY <1>3, RewriteCases
    <2> QED
      BY <2>1, <2>2 DEF Grown
  <1>4. CASE Crash
    BY <1>4 DEF Crash, Grown
  <1>5. CASE UNCHANGED <<got, torn>>
    BY <1>5 DEF Grown
  <1>6. (RecordWithheld \/ Dedup \/ RecordAccepted \/ WriteDlq \/ MarkDead) => UNCHANGED <<got, torn>>
    BY DEF RecordWithheld, Dedup, RecordAccepted, WriteDlq, MarkDead
  <1>7. (ReplayTransition \/ TruncateDlq) => UNCHANGED <<got, torn>>
    BY DEF ReplayTransition, TruncateDlq
  <1>8. (Poll \/ EndBatch \/ Compact \/ Restart) => UNCHANGED <<got, torn>>
    BY DEF Poll, EndBatch, Compact, Restart
  <1>9. /\ \A p \in Partitions : BeginPartition(p) => UNCHANGED <<got, torn>>
        /\ \A s \in Sinks : BeginReplay(s) => UNCHANGED <<got, torn>>
    BY DEF BeginPartition, BeginReplay
  <1>10. UNCHANGED vars => UNCHANGED <<got, torn>>
    BY DEF vars
  <1> QED
    BY <1>1, <1>2, <1>3, <1>4, <1>5, <1>6, <1>7, <1>8, <1>9, <1>10 DEF Next, EmitStep, ReplayStep

LEMMA ReceivedStays ==
    ASSUME Grown, NEW s \in Sinks, NEW k, Received(s, k)
    PROVE  Received(s, k)'
  BY DEF Received, Grown

\* A step that takes nothing out of the dead-letter files.
LEMMA DeadLettersStay ==
    ASSUME Grown, work.stage # "rewrite", \A t \in Sinks : Range(dlq[t]) \subseteq Range(dlq'[t]),
           NEW s \in Sinks, NEW k, Accounted(s, k)
    PROVE  Accounted(s, k)'
  <1>1. PICK q \in LiveRecords : /\ obl_key(q, s) = k
                                 /\ got[s][q] > 0 \/ q \in DeadLetters(s) \/ <<s, q>> \in torn
    BY DEF Accounted
  <1>2. DeadLetters(s) = Range(dlq[s])
    BY DEF DeadLetters
  <1>3. Range(dlq'[s]) \subseteq DeadLetters(s)'
    BY DEF DeadLetters
  <1>4. got'[s][q] > 0 \/ q \in DeadLetters(s)' \/ <<s, q>> \in torn'
    BY <1>1, <1>2, <1>3 DEF Grown
  <1> QED
    BY <1>1, <1>4 DEF Accounted

\* The entries a rewrite drops are delivered.
LEMMA TruncateAccounts ==
    ASSUME TypeOK, Control, Justified, Grown, TruncateDlq,
           NEW s \in Sinks, NEW k, Accounted(s, k)
    PROVE  Accounted(s, k)'
  <1> DEFINE h == Head(work.sinks)
  <1>1. work.stage = "scan" /\ work.stage \in {"scan", "transition", "rewrite"}
    BY DEF TruncateDlq
  <1>2. h \in Sinks /\ Outside /\ work \in Work
    BY <1>1, Replaying
  <1>3. CASE EndReplay /\ UNCHANGED dlq
    BY <1>1, <1>3, DeadLettersStay
  <1>4. CASE /\ dlq' = [dlq EXCEPT ![h] = <<>>]
             /\ work' = [work EXCEPT !.stage = "rewrite", !.pending = Kept(h)]
    <2>1. PICK q \in LiveRecords : /\ obl_key(q, s) = k
                                   /\ got[s][q] > 0 \/ q \in DeadLetters(s) \/ <<s, q>> \in torn
      BY DEF Accounted
    <2>2. DeadLetters(s) = Range(dlq[s])
      BY <1>1 DEF DeadLetters
    <2>3. work'.stage = "rewrite" /\ work'.pending = Kept(h) /\ work'.sinks = work.sinks
      BY <1>2, <1>4 DEF Work
    <2>4. CASE q \in Range(dlq[s]) /\ s # h
      <3>1. dlq'[s] = dlq[s]
        BY <1>2, <1>4, <2>4 DEF Outside
      <3>2. q \in DeadLetters(s)'
        BY <2>4, <3>1 DEF DeadLetters
      <3> QED
        BY <2>1, <3>2 DEF Accounted
    <2>5. CASE q \in Range(dlq[s]) /\ s = h /\ ~DeliveredTo(s, q)
      <3>1. dlq[s] \in Seq(LiveRecords)
        BY <1>2 DEF Outside
      <3>2. q \in Range(Kept(s))
        BY <2>5, <3>1, SelectedRange DEF Kept
      <3>3. q \in DeadLetters(s)'
        BY <2>3, <2>5, <3>2 DEF DeadLetters
      <3> QED
        BY <2>1, <3>3 DEF Accounted
    <2>6. CASE DeliveredTo(s, q)
      <3>1. Line(q, s, "delivered") \in outcome[s]
        BY <2>6 DEF DeliveredTo
      <3>2. Backed(s, Line(q, s, "delivered"))
        BY <3>1 DEF Justified
      <3>3. Received(s, obl_key(q, s))
        BY <3>2, LineFields DEF Backed
      <3>4. Received(s, k)'
        BY <2>1, <3>3, ReceivedStays
      <3> QED
        BY <3>4 DEF Received, Accounted
    <2>7. CASE got[s][q] > 0 \/ <<s, q>> \in torn
      BY <2>1, <2>7 DEF Accounted, Grown
    <2> QED
      BY <2>1, <2>2, <2>4, <2>5, <2>6, <2>7
  <1> QED
    BY <1>3, <1>4 DEF TruncateDlq

\* What a rewrite does not put back is torn off.
LEMMA RewriteAccounts ==
    ASSUME TypeOK, Control, Attempted, Grown, RewriteDlq,
           NEW s \in Sinks, NEW k, Accounted(s, k)
    PROVE  Accounted(s, k)'
  <1> DEFINE h == Head(work.sinks)
  <1>1. work.stage = "rewrite" /\ work.stage \in {"scan", "transition", "rewrite"}
    BY DEF RewriteDlq
  <1>2. h \in Sinks /\ Outside /\ work \in Work
    BY <1>1, Replaying
  <1>3. dlq[h] = <<>>
    BY <1>1 DEF Attempted
  <1>4. PICK pre \in Seq(LiveRecords), lost \in SUBSET LiveRecords :
            /\ dlq' = [dlq EXCEPT ![h] = pre] /\ torn' = torn \cup ({h} \X lost)
            /\ Range(work.pending) \subseteq Range(pre) \cup lost
    BY RewriteCases
  <1>5. PICK q \in LiveRecords : /\ obl_key(q, s) = k
                                 /\ got[s][q] > 0 \/ q \in DeadLetters(s) \/ <<s, q>> \in torn
    BY DEF Accounted
  <1>6. CASE q \in DeadLetters(s) /\ s # h
    <2>1. q \in Range(dlq[s])
      BY <1>6 DEF DeadLetters
    <2>2. dlq'[s] = dlq[s]
      BY <1>2, <1>4, <1>6 DEF Outside
    <2>3. q \in DeadLetters(s)'
      BY <2>1, <2>2 DEF DeadLetters
    <2> QED
      BY <1>5, <2>3 DEF Accounted
  <1>7. CASE q \in DeadLetters(s) /\ s = h
    <2>1. q \in Range(work.pending)
      BY <1>1, <1>3, <1>7 DEF DeadLetters, Range
    <2>2. dlq'[s] = pre
      BY <1>2, <1>4, <1>7 DEF Outside
    <2>3. q \in DeadLetters(s)' \/ <<s, q>> \in torn'
      BY <1>4, <1>7, <2>1, <2>2 DEF DeadLetters
    <2> QED
      BY <1>5, <2>3 DEF Accounted
  <1>8. CASE got[s][q] > 0 \/ <<s, q>> \in torn
    BY <1>5, <1>8 DEF Accounted, Grown
  <1> QED
    BY <1>5, <1>6, <1>7, <1>8

LEMMA CrashAccounts ==
    ASSUME TypeOK, Control, Attempted, Grown, Crash,
           NEW s \in Sinks, NEW k, Accounted(s, k)
    PROVE  Accounted(s, k)'
  <1> DEFINE h == Head(work.sinks)
  <1>1. UNCHANGED dlq
    BY DEF Crash
  <1>2. CASE work.stage # "rewrite"
    BY <1>1, <1>2, DeadLettersStay
  <1>3. CASE work.stage = "rewrite"
    <2>1. torn' = torn \cup {<<h, r>> : r \in Range(work.pending)}
      BY <1>3 DEF Crash
    <2>2. PICK q \in LiveRecords : /\ obl_key(q, s) = k
                                   /\ got[s][q] > 0 \/ q \in DeadLetters(s) \/ <<s, q>> \in torn
      BY DEF Accounted
    <2>3. CASE q \in Range(dlq[s])
      <3>1. q \in DeadLetters(s)'
        BY <1>1, <2>3 DEF DeadLetters
      <3> QED
        BY <2>2, <3>1 DEF Accounted
    <2>4. CASE s = h /\ q \in Range(work.pending)
      <3>1. <<s, q>> \in torn'
        BY <2>1, <2>4
      <3> QED
        BY <2>2, <3>1 DEF Accounted
    <2>5. CASE got[s][q] > 0 \/ <<s, q>> \in torn
      BY <2>2, <2>5 DEF Accounted, Grown
    <2> QED
      BY <2>2, <2>3, <2>4, <2>5 DEF DeadLetters
  <1> QED
    BY <1>2, <1>3

LEMMA AccountedStays ==
    ASSUME IndInv, [Next]_vars, NEW s \in Sinks, NEW k, Accounted(s, k)
    PROVE  Accounted(s, k)'
  <1>0. TypeOK /\ Control /\ Justified /\ Attempted
    BY DEF IndInv
  <1>1. Grown
    BY <1>0, GrownStep
  <1>2. CASE UNCHANGED vars
    BY <1>2 DEF vars, Accounted, DeadLetters
  <1>3. CASE WriteDlq
    <2>1. work.stage = "dlq" /\ work.stage \in EmitStages
      BY <1>3 DEF WriteDlq, EmitStages
    <2>2. Outside /\ Head(work.sinks) \in Sinks
      BY <1>0, <2>1, Emitting
    <2>3. PICK pre \in Seq(LiveRecords) : dlq' = [dlq EXCEPT ![Head(work.sinks)] = @ \o pre]
      BY <1>0, <1>3, DlqCases
    <2>4. ASSUME NEW t \in Sinks PROVE Range(dlq[t]) \subseteq Range(dlq'[t])
      <3>1. dlq[t] \in Seq(LiveRecords)
        BY <2>2 DEF Outside
      <3>2. dlq'[t] = IF t = Head(work.sinks) THEN dlq[t] \o pre ELSE dlq[t]
        BY <2>2, <2>3 DEF Outside
      <3> QED
        BY <3>1, <3>2, RangeConcat
    <2> QED
      BY <1>1, <2>1, <2>4, DeadLettersStay
  <1>4. CASE TruncateDlq
    BY <1>0, <1>1, <1>4, TruncateAccounts
  <1>5. CASE RewriteDlq
    BY <1>0, <1>1, <1>5, RewriteAccounts
  <1>6. CASE Crash
    BY <1>0, <1>1, <1>6, CrashAccounts
  <1>7. CASE work.stage # "rewrite" /\ UNCHANGED dlq
    BY <1>1, <1>7, DeadLettersStay
  <1>8. (RecordWithheld \/ Dedup \/ Send \/ RecordAccepted \/ MarkDead) => work.stage # "rewrite" /\ UNCHANGED dlq
    BY DEF RecordWithheld, Dedup, Send, RecordAccepted, MarkDead
  <1>9. (ReplayOne \/ ReplayTransition) => work.stage # "rewrite" /\ UNCHANGED dlq
    BY DEF ReplayOne, ReplayTransition
  <1>10. phase \in {"poll", "down"} \/ work = Idle => work.stage # "rewrite"
    BY <1>0, IdleWork DEF Control
  <1>11. (Poll \/ EndBatch \/ Compact \/ Restart) => work.stage # "rewrite" /\ UNCHANGED dlq
    BY <1>10 DEF Poll, EndBatch, Compact, Restart
  <1>12. /\ \A p \in Partitions : BeginPartition(p) => work.stage # "rewrite" /\ UNCHANGED dlq
         /\ \A t \in Sinks : BeginReplay(t) => work.stage # "rewrite" /\ UNCHANGED dlq
    BY <1>10 DEF BeginPartition, BeginReplay
  <1> QED
    BY <1>2, <1>3, <1>4, <1>5, <1>6, <1>7, <1>8, <1>9, <1>11, <1>12 DEF Next, EmitStep, ReplayStep

\* A true line stays true.
LEMMA BackedStays ==
    ASSUME IndInv, [Next]_vars, NEW s \in Sinks, NEW e, Backed(s, e)
    PROVE  Backed(s, e)'
  <1>1. Grown
    BY GrownStep DEF IndInv
  <1>2. \A k : Received(s, k) => Received(s, k)'
    BY <1>1, ReceivedStays
  <1>3. \A k : Accounted(s, k) => Accounted(s, k)'
    BY AccountedStays
  <1> QED
    BY <1>2, <1>3 DEF Backed

\* All of r's obligations stay accounted for.
LEMMA SettledStays ==
    ASSUME IndInv, [Next]_vars, NEW r, Settled(r)
    PROVE  Settled(r)'
  BY AccountedStays DEF Settled

-----------------------------------------------------------------------------
(* The ledgers.                                                            *)

\* A step that writes true lines leaves true lines.
LEMMA JustifiedLines ==
    ASSUME IndInv, [Next]_vars, NEW s \in Sinks, NEW lines \in Seq(Lines), LedgerStep(s, lines),
           \A l \in Range(lines) : Backed(s, l)'
    PROVE  Justified'
  <1>0. Ledgers /\ Justified
    BY TypeParts DEF IndInv
  <1>1. PICK pre \in Seq(Lines) :
            /\ Range(pre) \subseteq Range(lines)
            /\ ledger'[s] = ledger[s] \o pre
            /\ \/ outcome'[s] = Indexed(s, lines)
               \/ pre = <<>> /\ outcome'[s] = outcome[s]
    BY <1>0, LedgerStepLines
  <1>2. \A t \in Sinks \ {s} : ledger'[t] = ledger[t] /\ outcome'[t] = outcome[t]
    BY <1>0, LedgerStepLines
  <1>3. outcome'[s] \subseteq outcome[s] \cup Range(lines)
    BY <1>1 DEF Indexed
  <1>4. ASSUME NEW t \in Sinks, NEW e \in outcome'[t] PROVE Backed(t, e)'
    <2>1. CASE e \in outcome[t]
      BY <1>0, <2>1, BackedStays DEF Justified
    <2>2. CASE e \in Range(lines) /\ t = s
      BY <2>2
    <2> QED
      BY <1>2, <1>3, <2>1, <2>2
  <1>5. ASSUME NEW t \in Sinks, NEW e \in Range(ledger'[t]) PROVE Backed(t, e)'
    <2>1. ledger[t] \in Seq(Lines)
      BY <1>0 DEF Ledgers
    <2>2. CASE e \in Range(ledger[t])
      BY <1>0, <2>2, BackedStays DEF Justified
    <2>3. CASE e \in Range(lines) /\ t = s
      BY <2>3
    <2>4. e \in Range(ledger[t]) \/ (t = s /\ e \in Range(lines))
      <3>1. CASE t = s
        <4>0. Range(ledger[t] \o pre) = Range(ledger[t]) \cup Range(pre)
          BY <2>1, RangeConcat
        <4>1. Range(ledger'[t]) = Range(ledger[t]) \cup Range(pre)
          BY <1>1, <3>1, <4>0
        <4> QED
          BY <1>1, <3>1, <4>1
      <3>2. CASE t # s
        BY <1>2, <3>2
      <3> QED
        BY <3>1, <3>2
    <2> QED
      BY <2>2, <2>3, <2>4
  <1> QED
    BY <1>4, <1>5 DEF Justified

\* Steps that leave the ledgers alone.
Quiet ==
    \/ Poll \/ EndBatch \/ Dedup \/ Send \/ WriteDlq \/ ReplayOne \/ TruncateDlq \/ RewriteDlq
    \/ (\E p \in Partitions : BeginPartition(p)) \/ (\E s \in Sinks : BeginReplay(s))
    \/ UNCHANGED vars

Scribes == RecordWithheld \/ RecordAccepted \/ MarkDead \/ ReplayTransition

LEMMA QuietLedgers ==
    ASSUME TypeOK, Control, Quiet
    PROVE  UNCHANGED <<ledger, outcome>> /\ (phase' # "down" => phase # "down")
  <1>1. UNCHANGED <<ledger, outcome>>
    BY DEF Quiet, Poll, EndBatch, Dedup, Send, WriteDlq, ReplayOne, TruncateDlq, RewriteDlq,
           BeginPartition, BeginReplay, vars
  <1>2. (Dedup \/ Send \/ WriteDlq) => phase # "down"
    BY Emitting DEF Dedup, Send, WriteDlq, EmitStages
  <1>3. (ReplayOne \/ TruncateDlq \/ RewriteDlq) => phase # "down"
    BY Replaying DEF ReplayOne, TruncateDlq, RewriteDlq
  <1>4. (Poll \/ EndBatch) => phase # "down"
    BY DEF Poll, EndBatch
  <1>5. /\ \A p \in Partitions : BeginPartition(p) => phase # "down"
        /\ \A s \in Sinks : BeginReplay(s) => phase # "down"
    BY DEF BeginPartition, BeginReplay
  <1>6. UNCHANGED vars => UNCHANGED phase
    BY DEF vars
  <1> QED
    BY <1>1, <1>2, <1>3, <1>4, <1>5, <1>6 DEF Quiet

LEMMA StepCases ==
    ASSUME [Next]_vars
    PROVE  Quiet \/ Scribes \/ Compact \/ Restart \/ Crash
  BY DEF Next, EmitStep, ReplayStep, Quiet, Scribes

\* What is written is new to the index or a delivery, and true.
LEMMA ScribeLines ==
    ASSUME IndInv, [Next]_vars, Scribes
    PROVE  \E s \in Sinks : \E lines \in Seq(Lines) :
              /\ LedgerStep(s, lines)
              /\ \A l \in Range(lines) : l.outcome = "delivered" \/ ~\E e \in outcome[s] : e.key = l.key
              /\ \A l \in Range(lines) : Backed(s, l)'
              /\ phase # "down"
  <1>0. TypeOK /\ Control /\ Attempted /\ Grown
    BY GrownStep DEF IndInv
  <1>1. CASE RecordWithheld
    <2>1. PICK lines : /\ LedgerStep(SinkNames[1], lines)
                       /\ LinesOf(lines, SinkNames[1], "(withheld)", Records, "suppressed")
      BY <1>0, <1>1, WithheldLines
    <2>2. phase # "down"
      BY <1>0, <1>1, Emitting DEF RecordWithheld, EmitStages
    <2>3. \A l \in Range(lines) : Backed(SinkNames[1], l)'
      BY <2>1 DEF LinesOf, Backed
    <2> QED
      BY <2>1, <2>2, <2>3, Constant DEF LinesOf
  <1>2. CASE RecordAccepted
    <2>0. PICK s : s = Head(work.sinks)
      OBVIOUS
    <2>1. PICK lines : /\ LedgerStep(s, lines)
                       /\ LinesOf(lines, s, s, Range(work.pending) \ Range(work.failed), "delivered")
      BY <1>0, <1>2, <2>0, AcceptedLines
    <2>2. work.stage = "record" /\ work.stage \in EmitStages
      BY <1>2 DEF RecordAccepted, EmitStages
    <2>3. phase = "batch" /\ s \in Sinks /\ Range(work.pending) \subseteq LiveRecords
      BY <1>0, <2>0, <2>2, Emitting, RangeOf
    <2>4. ASSUME NEW l \in Range(lines) PROVE Backed(s, l)'
      <3>1. PICK r \in Range(work.pending) \ Range(work.failed) : l.key = obl_key(r, s) /\ l.outcome = "delivered"
        BY <2>1 DEF LinesOf
      <3>2. got[s][r] > 0
        BY <1>0, <2>0, <2>2, <3>1 DEF Attempted
      <3>4. Received(s, l.key)
        BY <2>3, <3>1, <3>2 DEF Received
      <3>5. Received(s, l.key)'
        BY <1>0, <2>3, <3>4, ReceivedStays
      <3> QED
        BY <3>1, <3>5 DEF Backed
    <2> QED
      BY <2>1, <2>3, <2>4 DEF LinesOf
  <1>3. CASE MarkDead
    <2>0. PICK s : s = Head(work.sinks)
      OBVIOUS
    <2>1. PICK lines : /\ LedgerStep(s, lines)
                       /\ LinesOf(lines, s, s, Range(work.pending), "dead_lettered")
      BY <1>0, <1>3, <2>0, MarkedLines
    <2>2. work.stage = "mark" /\ work.stage \in EmitStages
      BY <1>3 DEF MarkDead, EmitStages
    <2>3. phase = "batch" /\ s \in Sinks /\ Range(work.pending) \subseteq LiveRecords
      BY <1>0, <2>0, <2>2, Emitting, RangeOf
    <2>4. ASSUME NEW l \in Range(lines) PROVE Backed(s, l)'
      <3>1. PICK r \in Range(work.pending) : l.key = obl_key(r, s) /\ l.outcome = "dead_lettered"
        BY <2>1 DEF LinesOf
      <3>2. r \in DeadLetters(s)
        BY <1>0, <2>0, <2>2, <3>1 DEF Attempted, DeadLetters
      <3>4. Accounted(s, l.key)
        BY <2>3, <3>1, <3>2 DEF Accounted
      <3>5. Accounted(s, l.key)'
        BY <2>3, <3>4, AccountedStays
      <3> QED
        BY <3>1, <3>5 DEF Backed
    <2> QED
      BY <2>1, <2>3, <2>4 DEF LinesOf
  <1>4. CASE ReplayTransition
    <2>0. PICK s : s = Head(work.sinks)
      OBVIOUS
    <2>5. PICK r : r = Head(work.pending)
      OBVIOUS
    <2>1. PICK lines \in Seq(Lines) :
            /\ LedgerStep(s, lines)
            /\ \A l \in Range(lines) : l.key = obl_key(r, s) /\ l.outcome = "delivered"
      BY <1>0, <1>4, <2>0, <2>5, TransitionLines
    <2>2. work.stage = "transition" /\ work.stage \in {"scan", "transition", "rewrite"} /\ r \in LiveRecords
      BY <1>0, <1>4, <2>0, <2>5, TransitionLines
    <2>3. phase = "replay" /\ s \in Sinks
      BY <1>0, <2>0, <2>2, Replaying
    <2>4. ASSUME NEW l \in Range(lines) PROVE Backed(s, l)'
      <3>1. l.key = obl_key(r, s) /\ l.outcome = "delivered"
        BY <2>1
      <3>2. got[s][r] > 0
        BY <1>0, <2>0, <2>2, <2>5 DEF Attempted
      <3>4. Received(s, l.key)
        BY <2>2, <2>3, <3>1, <3>2 DEF Received
      <3>5. Received(s, l.key)'
        BY <1>0, <2>3, <3>4, ReceivedStays
      <3> QED
        BY <3>1, <3>5 DEF Backed
    <2> QED
      BY <2>1, <2>3, <2>4
  <1> QED
    BY <1>1, <1>2, <1>3, <1>4 DEF Scribes

LEMMA FiledStep ==
    ASSUME IndInv, [Next]_vars
    PROVE  Filed'
  <1>0. TypeOK /\ Control /\ Filed /\ Ledgers
    BY TypeParts DEF IndInv
  <1>1. CASE Scribes
    <2>1. PICK s \in Sinks : \E lines \in Seq(Lines) :
              /\ LedgerStep(s, lines)
              /\ \A l \in Range(lines) : l.outcome = "delivered" \/ ~\E e \in outcome[s] : e.key = l.key
              /\ phase # "down"
      BY <1>1, ScribeLines
    <2>2. PICK lines \in Seq(Lines) :
              /\ LedgerStep(s, lines)
              /\ \A l \in Range(lines) : l.outcome = "delivered" \/ ~\E e \in outcome[s] : e.key = l.key
              /\ phase # "down"
      BY <2>1
    <2>3. \A t \in Sinks : IndexOf(t)
      BY <1>0, <2>2 DEF Filed
    <2>4. \A t \in Sinks : IndexOf(t)'
      BY <1>0, <2>2, <2>3, LedgerStepIndex
    <2> QED
      BY <2>4 DEF Filed
  <1>2. CASE Compact
    <2> SUFFICES ASSUME NEW s \in Sinks
                 PROVE  IndexOf(s)'
      BY DEF Filed
    <2>1. ledger[s] \in Seq(Lines) /\ ledger'[s] = SetToSeq(Latest(ledger[s])) /\ outcome'[s] = Latest(ledger[s])
      BY <1>0, <1>2 DEF Compact, Ledgers
    <2>2. IsFiniteSet(Latest(ledger[s]))
      BY <2>1, LatestKeeps
    <2>3. Range(ledger'[s]) = outcome'[s]
      BY <2>1, <2>2, SetToSeqRange
    <2>4. \A i \in DOMAIN ledger'[s] : ledger'[s][i] \in outcome'[s]
      BY <2>3 DEF Range
    <2> QED
      BY <2>4 DEF IndexOf
  <1>3. CASE Restart
    <2> SUFFICES ASSUME NEW s \in Sinks
                 PROVE  IndexOf(s)'
      BY DEF Filed
    <2>1. ledger[s] \in Seq(Lines) /\ ledger'[s] = ledger[s] /\ outcome'[s] = Latest(ledger[s])
      BY <1>0, <1>3 DEF Restart, Ledgers, LoadLedger
    <2>2. /\ \A i \in DOMAIN ledger[s] : \E e \in Latest(ledger[s]) : e.key = ledger[s][i].key
          /\ \A i \in DOMAIN ledger[s] :
                (\A j \in i + 1 .. Len(ledger[s]) : ledger[s][j].key # ledger[s][i].key)
                    => ledger[s][i] \in Latest(ledger[s])
      BY <2>1, LatestKeeps
    <2> QED
      BY <2>1, <2>2 DEF IndexOf
  <1>4. CASE Crash
    BY <1>4 DEF Crash, Filed
  <1>5. CASE Quiet
    <2>1. UNCHANGED <<ledger, outcome>> /\ (phase' # "down" => phase # "down")
      BY <1>0, <1>5, QuietLedgers
    <2> QED
      BY <1>0, <2>1 DEF Filed, IndexOf
  <1> QED
    BY <1>1, <1>2, <1>3, <1>4, <1>5, StepCases

LEMMA JustifiedStep ==
    ASSUME IndInv, [Next]_vars
    PROVE  Justified'
  <1>0. TypeOK /\ Control /\ Justified /\ Ledgers
    BY TypeParts DEF IndInv
  <1>1. CASE Scribes
    <2>1. PICK s \in Sinks : \E lines \in Seq(Lines) :
              LedgerStep(s, lines) /\ \A l \in Range(lines) : Backed(s, l)'
      BY <1>1, ScribeLines
    <2>2. PICK lines \in Seq(Lines) : LedgerStep(s, lines) /\ \A l \in Range(lines) : Backed(s, l)'
      BY <2>1
    <2> QED
      BY <2>2, JustifiedLines
  <1>2. ASSUME \A s \in Sinks : outcome'[s] \cup Range(ledger'[s]) \subseteq outcome[s] \cup Range(ledger[s])
        PROVE  Justified'
    <2> SUFFICES ASSUME NEW s \in Sinks, NEW e \in outcome'[s] \cup Range(ledger'[s])
                 PROVE  Backed(s, e)'
      BY DEF Justified, Range
    <2>1. Backed(s, e)
      BY <1>0, <1>2 DEF Justified
    <2> QED
      BY <2>1, BackedStays
  <1>3. CASE Compact
    <2> SUFFICES ASSUME NEW s \in Sinks
                 PROVE  outcome'[s] \cup Range(ledger'[s]) \subseteq outcome[s] \cup Range(ledger[s])
      BY <1>2
    <2>1. ledger[s] \in Seq(Lines) /\ ledger'[s] = SetToSeq(Latest(ledger[s])) /\ outcome'[s] = Latest(ledger[s])
      BY <1>0, <1>3 DEF Compact, Ledgers
    <2>2. IsFiniteSet(Latest(ledger[s])) /\ Latest(ledger[s]) \subseteq Range(ledger[s])
      BY <2>1, LatestKeeps
    <2>3. Range(ledger'[s]) = outcome'[s]
      BY <2>1, <2>2, SetToSeqRange
    <2> QED
      BY <2>1, <2>2, <2>3
  <1>4. CASE Restart
    <2> SUFFICES ASSUME NEW s \in Sinks
                 PROVE  outcome'[s] \cup Range(ledger'[s]) \subseteq outcome[s] \cup Range(ledger[s])
      BY <1>2
    <2>1. ledger[s] \in Seq(Lines) /\ ledger'[s] = ledger[s] /\ outcome'[s] = Latest(ledger[s])
      BY <1>0, <1>4 DEF Restart, Ledgers, LoadLedger
    <2>2. Latest(ledger[s]) \subseteq Range(ledger[s])
      BY <2>1, LatestKeeps
    <2> QED
      BY <2>1, <2>2
  <1>5. CASE Crash
    <2>1. \A s \in Sinks : outcome'[s] = {} /\ ledger'[s] = ledger[s]
      BY <1>5 DEF Crash
    <2> QED
      BY <1>2, <2>1
  <1>6. CASE Quiet
    <2>1. UNCHANGED <<ledger, outcome>>
      BY <1>0, <1>6, QuietLedgers
    <2> QED
      BY <1>2, <2>1
  <1> QED
    BY <1>1, <1>3, <1>4, <1>5, <1>6, StepCases

\* What Dedup finds of the batch in hand.
LEMMA DedupCases ==
    ASSUME TypeOK, Control, Dedup
    PROVE  LET s == Head(work.sinks)
           IN  /\ work.stage = "dedup"
               /\ \/ SinkDone(TRUE) /\ \A r \in LiveBatch : Terminal(s, r, s)
                  \/ \E items \in Seq(LiveRecords) :
                        /\ ItemsOf(items, s, s, LiveBatch)
                        /\ work' = [work EXCEPT !.stage = "send", !.pending = items]
                        /\ UNCHANGED <<batch, durable, skipped>>
               /\ UNCHANGED <<committed, position, phase, ledger, outcome, dlq, got, torn, faults, replays>>
  <1>1. /\ work.stage \in EmitStages /\ work.stage = "dedup"
        /\ UNCHANGED <<committed, position, phase, ledger, outcome, dlq, got, torn, faults, replays>>
    BY DEF Dedup, EmitStages
  <1>2. batch[work.part] \in Seq(Records)
    BY <1>1, Emitting
  <1>3. PICK items : items = Picked(batch[work.part], Fresh(Head(work.sinks), batch[work.part], LiveRecords, Head(work.sinks)))
    OBVIOUS
  <1>4. LiveBatch = Range(batch[work.part]) \cap LiveRecords
    <2>1. Range(batch[work.part]) \subseteq Records
      BY <1>2, RangeOf
    <2> QED
      BY <2>1 DEF LiveBatch, LiveRecords
  <1>5. ItemsOf(items, Head(work.sinks), Head(work.sinks), LiveBatch)
    BY <1>2, <1>3, <1>4, FreshItems
  <1>6. items \in Seq(LiveRecords)
    <2>1. items \in Seq(Records) /\ Range(items) \subseteq LiveRecords
      BY <1>4, <1>5 DEF ItemsOf
    <2> QED
      BY <2>1, SeqWithin
  <1>7. CASE items = <<>>
    <2>1. SinkDone(TRUE)
      BY <1>3, <1>7 DEF Dedup
    <2>2. Range(items) = {}
      BY <1>6, <1>7, RangeOf
    <2>3. \A r \in LiveBatch : Terminal(Head(work.sinks), r, Head(work.sinks))
      BY <1>5, <2>2 DEF ItemsOf
    <2> QED
      BY <1>1, <2>1, <2>3
  <1>8. CASE items # <<>>
    <2>1. work' = [work EXCEPT !.stage = "send", !.pending = items] /\ UNCHANGED <<batch, durable, skipped>>
      BY <1>3, <1>8 DEF Dedup
    <2> QED
      BY <1>1, <1>5, <1>6, <2>1
  <1> QED
    BY <1>7, <1>8

\* What an attempt leaves unresolved.
LEMMA SendCases ==
    ASSUME TypeOK, Control, Send
    PROVE  LET s == Head(work.sinks)
           IN  /\ work.stage = "send"
               /\ \E taken \in SUBSET Range(work.pending) : \E failed \in Seq(LiveRecords) :
                     /\ Receives(s, taken)
                     /\ Range(failed) \subseteq Range(work.pending)
                     /\ Range(work.pending) \ Range(failed) \subseteq taken
                     /\ work' = [work EXCEPT !.stage = "record", !.failed = failed]
               /\ UNCHANGED <<committed, position, batch, durable, phase, ledger, outcome, dlq,
                              skipped, torn, replays>>
  <1>1. /\ work.stage \in EmitStages /\ work.stage = "send"
        /\ UNCHANGED <<committed, position, batch, durable, phase, ledger, outcome, dlq, skipped, torn, replays>>
    BY DEF Send, EmitStages
  <1>2. work.pending \in Seq(LiveRecords)
    BY <1>1, Emitting
  <1>3. PICK taken \in SUBSET Range(work.pending) :
           /\ Receives(Head(work.sinks), taken)
           /\ \/ work' = [work EXCEPT !.stage = "record",
                             !.failed = Selected(work.pending, Range(work.pending) \ taken)]
              \/ work' = [work EXCEPT !.stage = "record", !.failed = work.pending]
    BY DEF Send
  <1>4. PICK rest : rest = Selected(work.pending, Range(work.pending) \ taken)
    OBVIOUS
  <1>5. rest \in Seq(LiveRecords) /\ Range(rest) = Range(work.pending) \cap (Range(work.pending) \ taken)
    BY <1>2, <1>4, SelectedRange
  <1>6. \E failed \in Seq(LiveRecords) :
            /\ Range(failed) \subseteq Range(work.pending)
            /\ Range(work.pending) \ Range(failed) \subseteq taken
            /\ work' = [work EXCEPT !.stage = "record", !.failed = failed]
    <2>1. CASE work' = [work EXCEPT !.stage = "record", !.failed = rest]
      BY <1>5, <2>1
    <2>2. CASE work' = [work EXCEPT !.stage = "record", !.failed = work.pending]
      BY <1>2, <2>2
    <2> QED
      BY <1>3, <1>4, <2>1, <2>2
  <1> QED
    BY <1>1, <1>3, <1>6

\* Nothing is attempted in these stages.
LEMMA NoAttempt ==
    ASSUME work'.stage \in {"idle", "withheld", "dedup", "dlq", "scan"}
    PROVE  Attempted'
  BY DEF Attempted

LEMMA DoneStage ==
    ASSUME NEW ok \in BOOLEAN, SinkDone(ok), TypeOK, work.sinks # <<>>
    PROVE  work'.stage \in {"idle", "dedup"} /\ Attempted'
  <1>1. work'.stage \in {"idle", "dedup"}
    BY DoneCases, IdleWork DEF NextSink, LeavePartition
  <1> QED
    BY <1>1, NoAttempt

LEMMA DedupAttempted ==
    ASSUME IndInv, Dedup
    PROVE  Attempted'
  <1>0. TypeOK /\ Control /\ Filed /\ work \in Work
    BY TypeParts DEF IndInv, Hands
  <1>1. work.stage \in EmitStages /\ work.stage = "dedup" /\ UNCHANGED ledger
    BY DEF Dedup, EmitStages
  <1>2. work.sinks # <<>> /\ Head(work.sinks) \in Sinks /\ phase # "down"
    BY <1>0, <1>1, Emitting
  <1>3. CASE SinkDone(TRUE)
    BY <1>0, <1>2, <1>3, DoneStage
  <1>4. ASSUME NEW items \in Seq(LiveRecords),
               ItemsOf(items, Head(work.sinks), Head(work.sinks), LiveBatch),
               work' = [work EXCEPT !.stage = "send", !.pending = items]
        PROVE  Attempted'
    <2>0. PICK s : s = Head(work.sinks)
      OBVIOUS
    <2>1. work'.stage = "send" /\ work'.pending = items /\ Head(work'.sinks) = s
      BY <1>0, <1>4, <2>0 DEF Work
    <2>2. \A q, r \in Range(items) : obl_key(q, s) = obl_key(r, s) => q = r
      BY <1>4, <2>0 DEF ItemsOf
    <2>3. ASSUME NEW r \in Range(items), NEW i \in DOMAIN ledger[s] PROVE ledger[s][i].key # obl_key(r, s)
      <3>1. ~\E e \in outcome[s] : e.key = obl_key(r, s)
        BY <1>4, <2>0 DEF ItemsOf, Terminal
      <3>2. \E e \in outcome[s] : e.key = ledger[s][i].key
        BY <1>0, <1>2, <2>0 DEF Filed, IndexOf
      <3> QED
        BY <3>1, <3>2
    <2> QED
      BY <1>1, <2>1, <2>2, <2>3 DEF Attempted
  <1> QED
    BY <1>0, <1>3, <1>4, DedupCases

LEMMA SendAttempted ==
    ASSUME IndInv, Send
    PROVE  Attempted'
  <1>0. TypeOK /\ Control /\ Attempted /\ work \in Work
    BY TypeParts DEF IndInv, Hands
  <1>1. work.stage \in EmitStages /\ work.stage = "send" /\ UNCHANGED ledger
    BY DEF Send, EmitStages
  <1>2. Head(work.sinks) \in Sinks /\ Outside /\ work.pending \in Seq(LiveRecords)
    BY <1>0, <1>1, Emitting
  <1>3. PICK s : s = Head(work.sinks)
    OBVIOUS
  <1>4. PICK taken \in SUBSET Range(work.pending) : \E failed \in Seq(LiveRecords) :
                     /\ Receives(s, taken)
                     /\ Range(failed) \subseteq Range(work.pending)
                     /\ Range(work.pending) \ Range(failed) \subseteq taken
                     /\ work' = [work EXCEPT !.stage = "record", !.failed = failed]
    BY <1>0, <1>3, SendCases
  <1>5. PICK failed \in Seq(LiveRecords) :
                     /\ Receives(s, taken)
                     /\ Range(failed) \subseteq Range(work.pending)
                     /\ Range(work.pending) \ Range(failed) \subseteq taken
                     /\ work' = [work EXCEPT !.stage = "record", !.failed = failed]
    BY <1>4
  <1>6. /\ work'.stage = "record" /\ work'.pending = work.pending /\ work'.failed = failed
        /\ Head(work'.sinks) = s
    BY <1>0, <1>3, <1>5 DEF Work
  <1>7. \A r \in LiveRecords : r \in taken => got'[s][r] > 0
    BY <1>2, <1>3, <1>5, ReceivesGrows
  <1>8. Range(work.pending) \subseteq LiveRecords
    BY <1>2, RangeOf
  <1>9. \A r \in Range(work.pending) \ Range(failed) : got'[s][r] > 0
    BY <1>5, <1>7, <1>8
  <1>10. /\ \A q, r \in Range(work.pending) : obl_key(q, s) = obl_key(r, s) => q = r
         /\ \A r \in Range(work.pending) : \A i \in DOMAIN ledger[s] : ledger[s][i].key # obl_key(r, s)
    BY <1>0, <1>1, <1>3 DEF Attempted
  <1> QED
    BY <1>1, <1>5, <1>6, <1>9, <1>10 DEF Attempted

LEMMA RetryAttempted ==
    ASSUME IndInv, RecordAccepted
    PROVE  Attempted'
  <1>0. TypeOK /\ Control /\ Attempted /\ work \in Work /\ Ledgers
    BY TypeParts DEF IndInv, Hands
  <1>1. PICK s : s = Head(work.sinks)
    OBVIOUS
  <1>2. /\ \E lines : LedgerStep(s, lines) /\ LinesOf(lines, s, s, Range(work.pending) \ Range(work.failed), "delivered")
        /\ SinkDone(TRUE) \/ SinkDone(FALSE) \/ Retry
        /\ work.stage = "record" /\ work.stage \in EmitStages
    BY <1>0, <1>1, AcceptedLines DEF EmitStages
  <1>3. work.sinks # <<>> /\ s \in Sinks
    BY <1>0, <1>1, <1>2, Emitting
  <1>4. CASE SinkDone(TRUE) \/ SinkDone(FALSE)
    BY <1>0, <1>3, <1>4, DoneStage
  <1>5. CASE Retry
    <2>1. work'.stage \in {"dlq", "send"} /\ work'.sinks = work.sinks /\ work'.pending = work.failed
      BY <1>0, <1>5, RetryWork
    <2>2. CASE work'.stage = "dlq"
      BY <2>2, NoAttempt
    <2>3. CASE work'.stage = "send"
      <3>1. PICK lines : LedgerStep(s, lines) /\ LinesOf(lines, s, s, Range(work.pending) \ Range(work.failed), "delivered")
        BY <1>2
      <3>2. lines \in Seq(Lines) /\ \A l \in Range(lines) : \E r \in Range(work.pending) \ Range(work.failed) : l.key = obl_key(r, s)
        BY <3>1 DEF LinesOf
      <3>3. PICK pre \in Seq(Lines) :
                 /\ Range(pre) \subseteq Range(lines)
                 /\ ledger'[s] = ledger[s] \o pre
                 /\ \/ outcome'[s] = Indexed(s, lines)
                    \/ pre = <<>> /\ outcome'[s] = outcome[s]
        <4>1. lines \in Seq(Lines) /\ LedgerStep(s, lines) /\ s \in Sinks /\ Ledgers
          BY <1>0, <1>3, <3>1, <3>2
        <4> QED
          BY <4>1, LedgerStepLines
      <3>4. ledger[s] \in Seq(Lines)
        BY <1>0, <1>3 DEF Ledgers
      <3>5. Range(ledger'[s]) = Range(ledger[s]) \cup Range(pre)
        BY <3>3, <3>4, RangeConcat
      <3>6. /\ \A q, r \in Range(work.pending) : obl_key(q, s) = obl_key(r, s) => q = r
            /\ \A r \in Range(work.pending) : \A i \in DOMAIN ledger[s] : ledger[s][i].key # obl_key(r, s)
            /\ Range(work.failed) \subseteq Range(work.pending)
        BY <1>0, <1>1, <1>2 DEF Attempted
      <3>7. \A r \in Range(work.failed) : \A e \in Range(ledger[s]) : e.key # obl_key(r, s)
        BY <3>6 DEF Range
      <3>8. \A r \in Range(work.failed) : \A e \in Range(pre) : e.key # obl_key(r, s)
        BY <3>2, <3>3, <3>6
      <3>9. \A r \in Range(work.failed) : \A e \in Range(ledger'[s]) : e.key # obl_key(r, s)
        BY <3>5, <3>7, <3>8
      <3>10. \A r \in Range(work.failed) : \A i \in DOMAIN ledger'[s] : ledger'[s][i].key # obl_key(r, s)
        BY <3>9 DEF Range
      <3>11. \A q, r \in Range(work.failed) : obl_key(q, s) = obl_key(r, s) => q = r
        BY <3>6
      <3> QED
        BY <1>1, <2>1, <2>3, <3>10, <3>11 DEF Attempted
    <2> QED
      BY <2>1, <2>2, <2>3
  <1> QED
    BY <1>2, <1>4, <1>5

LEMMA DlqAttempted ==
    ASSUME IndInv, WriteDlq
    PROVE  Attempted'
  <1>0. TypeOK /\ Control /\ work \in Work /\ Outside
    BY TypeParts DEF IndInv, Hands
  <1>1. PICK s : s = Head(work.sinks)
    OBVIOUS
  <1>2. work.stage = "dlq" /\ work.stage \in EmitStages
    BY DEF WriteDlq, EmitStages
  <1>3. work.sinks # <<>> /\ s \in Sinks /\ work.pending \in Seq(LiveRecords) /\ dlq[s] \in Seq(LiveRecords)
    BY <1>0, <1>1, <1>2, Emitting DEF Outside
  <1>4. CASE SinkDone(FALSE)
    BY <1>0, <1>3, <1>4, DoneStage
  <1>5. CASE dlq' = [dlq EXCEPT ![s] = @ \o work.pending] /\ work' = [work EXCEPT !.stage = "mark"]
    <2>1. work'.stage = "mark" /\ Head(work'.sinks) = s /\ work'.pending = work.pending
      BY <1>0, <1>1, <1>5 DEF Work
    <2>2. dlq'[s] = dlq[s] \o work.pending
      BY <1>0, <1>3, <1>5 DEF Outside
    <2>3. Range(work.pending) \subseteq Range(dlq'[s])
      BY <1>3, <2>2, RangeConcat
    <2> QED
      BY <2>1, <2>3 DEF Attempted
  <1> QED
    BY <1>1, <1>4, <1>5 DEF WriteDlq

LEMMA ReplayAttempted ==
    ASSUME IndInv, ReplayOne
    PROVE  Attempted'
  <1>0. TypeOK /\ Control /\ work \in Work /\ Outside
    BY TypeParts DEF IndInv, Hands
  <1>1. PICK s : s = Head(work.sinks)
    OBVIOUS
  <1>2. PICK r : r = Head(work.pending)
    OBVIOUS
  <1>3. work.stage = "scan" /\ work.stage \in {"scan", "transition", "rewrite"} /\ work.pending # <<>>
    BY DEF ReplayOne
  <1>4. s \in Sinks /\ work.pending \in Seq(LiveRecords) /\ r \in LiveRecords
    BY <1>0, <1>1, <1>2, <1>3, Replaying
  <1>5. CASE work' = [work EXCEPT !.pending = Tail(@)]
    <2>1. work'.stage = "scan"
      BY <1>0, <1>3, <1>5 DEF Work
    <2> QED
      BY <2>1, NoAttempt
  <1>6. CASE Receives(s, {r}) /\ work' = [work EXCEPT !.stage = "transition"]
    <2>1. work'.stage = "transition" /\ Head(work'.sinks) = s /\ Head(work'.pending) = r
      BY <1>0, <1>1, <1>2, <1>6 DEF Work
    <2>2. got'[s][r] > 0
      BY <1>0, <1>4, <1>6, ReceivesGrows
    <2> QED
      BY <2>1, <2>2 DEF Attempted
  <1> QED
    BY <1>0, <1>1, <1>2, <1>5, <1>6, ReplayOneCases

LEMMA TruncateAttempted ==
    ASSUME IndInv, TruncateDlq
    PROVE  Attempted'
  <1>0. TypeOK /\ Control /\ work \in Work /\ Outside
    BY TypeParts DEF IndInv, Hands
  <1>1. PICK s : s = Head(work.sinks)
    OBVIOUS
  <1>2. work.stage \in {"scan", "transition", "rewrite"}
    BY DEF TruncateDlq
  <1>3. s \in Sinks
    BY <1>0, <1>1, <1>2, Replaying
  <1>4. CASE EndReplay
    BY <1>4, IdleWork, NoAttempt DEF EndReplay
  <1>5. CASE dlq' = [dlq EXCEPT ![s] = <<>>] /\ work' = [work EXCEPT !.stage = "rewrite", !.pending = Kept(s)]
    <2>1. work'.stage = "rewrite" /\ Head(work'.sinks) = s
      BY <1>0, <1>1, <1>5 DEF Work
    <2>2. dlq'[s] = <<>>
      BY <1>0, <1>3, <1>5 DEF Outside
    <2> QED
      BY <2>1, <2>2 DEF Attempted
  <1> QED
    BY <1>1, <1>4, <1>5 DEF TruncateDlq

LEMMA AttemptedStep ==
    ASSUME IndInv, [Next]_vars
    PROVE  Attempted'
  <1>0. TypeOK /\ Control /\ Attempted /\ work \in Work
    BY TypeParts DEF IndInv, Hands
  <1>1. ASSUME work = Idle, UNCHANGED work PROVE Attempted'
    BY <1>1, IdleWork, NoAttempt
  <1>2. CASE Poll \/ Compact \/ Restart
    BY <1>0, <1>1, <1>2 DEF Poll, Compact, Restart, Control
  <1>3. CASE EndBatch
    BY <1>1, <1>3 DEF EndBatch
  <1>4. CASE Crash
    BY <1>4, IdleWork, NoAttempt DEF Crash
  <1>5. ASSUME NEW p \in Partitions, BeginPartition(p) PROVE Attempted'
    <2>1. work'.stage = "withheld"
      BY <1>5 DEF BeginPartition, Idle
    <2> QED
      BY <2>1, NoAttempt
  <1>6. ASSUME NEW s \in Sinks, BeginReplay(s) PROVE Attempted'
    <2>1. work'.stage = "scan"
      BY <1>6 DEF BeginReplay, Idle
    <2> QED
      BY <2>1, NoAttempt
  <1>7. CASE RecordWithheld
    <2>1. \/ work' = [work EXCEPT !.stage = "dedup"]
          \/ work' = Idle
      BY <1>0, <1>7, WithheldLines DEF LeavePartition
    <2>2. work'.stage \in {"dedup", "idle"}
      BY <1>0, <2>1, IdleWork DEF Work
    <2> QED
      BY <2>2, NoAttempt
  <1>8. CASE MarkDead
    <2>1. (SinkDone(TRUE) \/ SinkDone(FALSE)) /\ work.stage \in EmitStages
      BY <1>0, <1>8, MarkedLines DEF EmitStages
    <2>2. work.sinks # <<>>
      BY <1>0, <2>1, Emitting
    <2> QED
      BY <1>0, <2>1, <2>2, DoneStage
  <1>9. CASE ReplayTransition
    <2>1. \/ work' = [work EXCEPT !.stage = "scan", !.pending = Tail(@), !.broken = TRUE]
          \/ work' = Idle
      BY <1>0, <1>9, TransitionLines DEF EndReplay
    <2>2. work'.stage \in {"scan", "idle"}
      BY <1>0, <2>1, IdleWork DEF Work
    <2> QED
      BY <2>2, NoAttempt
  <1>10. CASE RewriteDlq
    BY <1>10, IdleWork, NoAttempt DEF RewriteDlq, EndReplay
  <1>11. CASE UNCHANGED vars
    BY <1>0, <1>11 DEF vars, Attempted
  <1> QED
    BY <1>2, <1>3, <1>4, <1>5, <1>6, <1>7, <1>8, <1>9, <1>10, <1>11, DedupAttempted, SendAttempted,
       RetryAttempted, DlqAttempted, ReplayAttempted, TruncateAttempted DEF Next, EmitStep, ReplayStep

-----------------------------------------------------------------------------
(* What the sinks owe.                                                     *)

\* A sink accounts for what its ledger calls terminal.
LEMMA TerminalAccounted ==
    ASSUME Justified, NEW s \in Sinks, NEW r, Terminal(s, r, s)
    PROVE  Accounted(s, obl_key(r, s))
  <1>1. PICK e \in outcome[s] : e.key = obl_key(r, s)
    BY DEF Terminal
  <1>2. Backed(s, e)
    BY <1>1 DEF Justified
  <1>3. ~\E q \in Records : e.key = obl_key(q, "(withheld)")
    BY <1>1, KeyDest, Constant
  <1>4. CASE Received(s, e.key)
    BY <1>1, <1>4 DEF Received, Accounted
  <1>5. CASE Accounted(s, e.key)
    BY <1>1, <1>5
  <1> QED
    BY <1>2, <1>3, <1>4, <1>5 DEF Backed

\* Each of rs is accounted for at s, or items has a record of its obligation.
Owing(s, rs, items) ==
    \A r \in rs : \/ Accounted(s, obl_key(r, s))
                  \/ \E q \in items : obl_key(q, s) = obl_key(r, s)

\* The sink in hand has accounted for the batch.
HeadDone == \A r \in LiveBatch : Accounted(Head(work.sinks), obl_key(r, Head(work.sinks)))

LEMMA LiveBatchStays ==
    ASSUME UNCHANGED batch, work'.part = work.part
    PROVE  LiveBatch' = LiveBatch
  BY DEF LiveBatch

LEMMA OwedNext ==
    ASSUME IndInv, [Next]_vars, NEW s \in Sinks, NEW rs, NEW items, Owing(s, rs, items),
           Head(work'.sinks) = s, LiveBatch' = rs, Range(work'.pending) = items
    PROVE  Owed'
  <1>1. ASSUME NEW r \in rs
        PROVE  \/ Accounted(s, obl_key(r, s))'
               \/ \E q \in items : obl_key(q, s) = obl_key(r, s)
    <2>1. CASE Accounted(s, obl_key(r, s))
      <3>1. PICK k : k = obl_key(r, s)
        OBVIOUS
      <3>2. Accounted(s, k)'
        BY <2>1, <3>1, AccountedStays
      <3> QED
        BY <3>1, <3>2
    <2>2. CASE \E q \in items : obl_key(q, s) = obl_key(r, s)
      BY <2>2
    <2> QED
      BY <2>1, <2>2 DEF Owing
  <1>2. SUFFICES ASSUME NEW r \in LiveBatch'
                 PROVE  \/ Accounted(Head(work.sinks), obl_key(r, Head(work.sinks)))'
                        \/ \E q \in Range(work'.pending) :
                              obl_key(q, Head(work'.sinks)) = obl_key(r, Head(work'.sinks))
    BY DEF Owed, obl_key, record_identity, Range
  <1>3. Accounted(Head(work.sinks), obl_key(r, Head(work.sinks)))' <=> Accounted(s, obl_key(r, s))'
    BY ZenonT(60) DEF Accounted, DeadLetters, obl_key, record_identity
  <1> QED
    BY <1>1, <1>3

LEMMA NothingOwed ==
    ASSUME work'.stage \notin {"send", "record", "dlq", "mark"}
    PROVE  Owed'
  BY DEF Owed

\* What the sink in hand owes, in terms of Owing.
LEMMA OwedNow ==
    ASSUME Owed, NEW s, s = Head(work.sinks), work.stage \in {"send", "record", "dlq", "mark"}
    PROVE  Owing(s, LiveBatch, Range(work.pending))
  BY DEF Owed, Owing

LEMMA DedupOwes ==
    ASSUME IndInv, [Next]_vars, Dedup
    PROVE  Owed' /\ ((SinkDone(TRUE) /\ HeadDone) \/ work'.stage = "send")
  <1>0. TypeOK /\ Control /\ Justified /\ work \in Work
    BY TypeParts DEF IndInv, Hands
  <1>1. PICK s : s = Head(work.sinks)
    OBVIOUS
  <1>2. work.stage \in EmitStages
    BY DEF Dedup, EmitStages
  <1>3. work.sinks # <<>> /\ s \in Sinks
    BY <1>0, <1>1, <1>2, Emitting
  <1>4. CASE SinkDone(TRUE) /\ \A r \in LiveBatch : Terminal(s, r, s)
    <2>1. Owed'
      BY <1>0, <1>3, <1>4, DoneStage, NothingOwed
    <2>2. HeadDone
      BY <1>0, <1>1, <1>3, <1>4, TerminalAccounted DEF HeadDone
    <2> QED
      BY <1>4, <2>1, <2>2
  <1>5. ASSUME NEW items \in Seq(LiveRecords), ItemsOf(items, s, s, LiveBatch),
               work' = [work EXCEPT !.stage = "send", !.pending = items], UNCHANGED batch
        PROVE  Owed' /\ work'.stage = "send"
    <2>1. work'.stage = "send" /\ work'.part = work.part /\ Head(work'.sinks) = s /\ work'.pending = items
      BY <1>0, <1>1, <1>5 DEF Work
    <2>2. LiveBatch' = LiveBatch
      BY <1>5, <2>1, LiveBatchStays
    <2>3. Owing(s, LiveBatch, Range(items))
      BY <1>0, <1>3, <1>5, TerminalAccounted DEF ItemsOf, Owing
    <2> QED
      BY <1>3, <2>1, <2>2, <2>3, OwedNext
  <1> QED
    BY <1>0, <1>1, <1>4, <1>5, DedupCases

LEMMA SendOwes ==
    ASSUME IndInv, [Next]_vars, Send
    PROVE  Owed'
  <1>0. TypeOK /\ Control /\ Owed /\ work \in Work
    BY TypeParts DEF IndInv, Hands
  <1>1. PICK s : s = Head(work.sinks)
    OBVIOUS
  <1>2. work.stage \in EmitStages /\ work.stage = "send" /\ UNCHANGED batch
    BY DEF Send, EmitStages
  <1>3. s \in Sinks
    BY <1>0, <1>1, <1>2, Emitting
  <1>4. PICK failed : work' = [work EXCEPT !.stage = "record", !.failed = failed]
    BY DEF Send
  <1>5. work'.part = work.part /\ Head(work'.sinks) = s /\ work'.pending = work.pending
    BY <1>0, <1>1, <1>4 DEF Work
  <1>6. LiveBatch' = LiveBatch
    BY <1>2, <1>5, LiveBatchStays
  <1>7. Owing(s, LiveBatch, Range(work.pending))
    BY <1>0, <1>1, <1>2, OwedNow
  <1> QED
    BY <1>3, <1>5, <1>6, <1>7, OwedNext

LEMMA AcceptedOwes ==
    ASSUME IndInv, [Next]_vars, RecordAccepted
    PROVE  Owed' /\ (work.failed = <<>> => HeadDone)
  <1>0. TypeOK /\ Control /\ Owed /\ Attempted /\ work \in Work
    BY TypeParts DEF IndInv, Hands
  <1>1. PICK s : s = Head(work.sinks)
    OBVIOUS
  <1>2. work.stage \in EmitStages /\ work.stage = "record"
    BY DEF RecordAccepted, EmitStages
  <1>3. /\ work.sinks # <<>> /\ s \in Sinks /\ Range(work.pending) \subseteq LiveRecords
        /\ work.failed \in Seq(LiveRecords)
    BY <1>0, <1>1, <1>2, Emitting, RangeOf
  <1>4. Owing(s, LiveBatch, Range(work.pending))
    BY <1>0, <1>1, <1>2, OwedNow
  <1>5. \A q \in Range(work.pending) \ Range(work.failed) : got[s][q] > 0
    BY <1>0, <1>1, <1>2 DEF Attempted
  <1>6. \A q \in Range(work.pending) \ Range(work.failed) : Accounted(s, obl_key(q, s))
    BY <1>3, <1>5 DEF Accounted
  <1>7. Owing(s, LiveBatch, Range(work.failed))
    BY <1>4, <1>6, Zenon DEF Owing
  <1>8. work.failed = <<>> => HeadDone
    <2>1. work.failed = <<>> => Range(work.failed) = {}
      BY <1>3, RangeOf
    <2> QED
      BY <1>1, <1>7, <2>1 DEF Owing, HeadDone
  <1>9. CASE SinkDone(TRUE) \/ SinkDone(FALSE)
    BY <1>0, <1>3, <1>8, <1>9, DoneStage, NothingOwed
  <1>10. CASE Retry /\ UNCHANGED batch
    <2>1. work'.part = work.part /\ Head(work'.sinks) = s /\ work'.pending = work.failed
      BY <1>0, <1>1, <1>10, RetryWork
    <2>2. LiveBatch' = LiveBatch
      BY <1>10, <2>1, LiveBatchStays
    <2> QED
      BY <1>3, <1>7, <1>8, <2>1, <2>2, OwedNext
  <1> QED
    BY <1>9, <1>10 DEF RecordAccepted

LEMMA DlqOwes ==
    ASSUME IndInv, [Next]_vars, WriteDlq
    PROVE  Owed'
  <1>0. TypeOK /\ Control /\ Owed /\ work \in Work
    BY TypeParts DEF IndInv, Hands
  <1>1. PICK s : s = Head(work.sinks)
    OBVIOUS
  <1>2. work.stage \in EmitStages /\ work.stage = "dlq"
    BY DEF WriteDlq, EmitStages
  <1>3. work.sinks # <<>> /\ s \in Sinks
    BY <1>0, <1>1, <1>2, Emitting
  <1>4. CASE SinkDone(FALSE)
    BY <1>0, <1>3, <1>4, DoneStage, NothingOwed
  <1>5. CASE work' = [work EXCEPT !.stage = "mark"] /\ UNCHANGED batch
    <2>1. work'.part = work.part /\ Head(work'.sinks) = s /\ work'.pending = work.pending
      BY <1>0, <1>1, <1>5 DEF Work
    <2>2. LiveBatch' = LiveBatch
      BY <1>5, <2>1, LiveBatchStays
    <2>3. Owing(s, LiveBatch, Range(work.pending))
      BY <1>0, <1>1, <1>2, OwedNow
    <2> QED
      BY <1>3, <2>1, <2>2, <2>3, OwedNext
  <1> QED
    BY <1>4, <1>5 DEF WriteDlq

LEMMA MarkOwes ==
    ASSUME IndInv, [Next]_vars, MarkDead
    PROVE  Owed' /\ HeadDone
  <1>0. TypeOK /\ Control /\ Owed /\ Attempted /\ work \in Work
    BY TypeParts DEF IndInv, Hands
  <1>1. PICK s : s = Head(work.sinks)
    OBVIOUS
  <1>2. work.stage \in EmitStages /\ work.stage = "mark" /\ (SinkDone(TRUE) \/ SinkDone(FALSE))
    BY DEF MarkDead, EmitStages
  <1>3. work.sinks # <<>> /\ s \in Sinks /\ Range(work.pending) \subseteq LiveRecords
    BY <1>0, <1>1, <1>2, Emitting, RangeOf
  <1>4. Owing(s, LiveBatch, Range(work.pending))
    BY <1>0, <1>1, <1>2, OwedNow
  <1>5. \A q \in Range(work.pending) : Accounted(s, obl_key(q, s))
    <2>1. Range(work.pending) \subseteq DeadLetters(s)
      BY <1>0, <1>1, <1>2 DEF Attempted, DeadLetters
    <2> QED
      BY <1>3, <2>1 DEF Accounted
  <1>6. HeadDone
    BY <1>1, <1>4, <1>5, Zenon DEF Owing, HeadDone
  <1> QED
    BY <1>0, <1>2, <1>3, <1>6, DoneStage, NothingOwed

LEMMA OwedStep ==
    ASSUME IndInv, [Next]_vars
    PROVE  Owed'
  <1>0. TypeOK /\ Control /\ Owed /\ work \in Work
    BY TypeParts DEF IndInv, Hands
  <1>1. ASSUME work = Idle, UNCHANGED work PROVE Owed'
    BY <1>1, IdleWork, NothingOwed
  <1>2. CASE Poll \/ Compact \/ Restart
    BY <1>0, <1>1, <1>2 DEF Poll, Compact, Restart, Control
  <1>3. CASE EndBatch
    BY <1>1, <1>3 DEF EndBatch
  <1>4. CASE Crash \/ RewriteDlq
    BY <1>4, IdleWork, NothingOwed DEF Crash, RewriteDlq, EndReplay
  <1>5. ASSUME NEW p \in Partitions, BeginPartition(p) PROVE Owed'
    <2>1. work'.stage = "withheld"
      BY <1>5 DEF BeginPartition, Idle
    <2> QED
      BY <2>1, NothingOwed
  <1>6. ASSUME NEW s \in Sinks, BeginReplay(s) PROVE Owed'
    <2>1. work'.stage = "scan"
      BY <1>6 DEF BeginReplay, Idle
    <2> QED
      BY <2>1, NothingOwed
  <1>7. CASE RecordWithheld
    <2>1. work' = [work EXCEPT !.stage = "dedup"] \/ work' = Idle
      BY <1>0, <1>7, WithheldLines DEF LeavePartition
    <2>2. work'.stage \in {"dedup", "idle"}
      BY <1>0, <2>1, IdleWork DEF Work
    <2> QED
      BY <2>2, NothingOwed
  <1>8. CASE ReplayOne
    <2>1. \/ work' = [work EXCEPT !.pending = Tail(@)]
          \/ work' = [work EXCEPT !.stage = "transition"]
      BY <1>8 DEF ReplayOne
    <2>2. work'.stage \in {"scan", "transition"}
      BY <1>0, <1>8, <2>1 DEF ReplayOne, Work
    <2> QED
      BY <2>2, NothingOwed
  <1>9. CASE ReplayTransition
    <2>1. \/ work' = [work EXCEPT !.stage = "scan", !.pending = Tail(@), !.broken = TRUE]
          \/ work' = Idle
      BY <1>0, <1>9, TransitionLines DEF EndReplay
    <2>2. work'.stage \in {"scan", "idle"}
      BY <1>0, <2>1, IdleWork DEF Work
    <2> QED
      BY <2>2, NothingOwed
  <1>10. CASE TruncateDlq
    <2>1. \/ \E kept : work' = [work EXCEPT !.stage = "rewrite", !.pending = kept]
          \/ work' = Idle
      BY <1>10 DEF TruncateDlq, EndReplay
    <2>2. work'.stage \in {"rewrite", "idle"}
      BY <1>0, <2>1, IdleWork DEF Work
    <2> QED
      BY <2>2, NothingOwed
  <1>11. CASE UNCHANGED vars
    BY <1>0, <1>11 DEF vars, Owed, LiveBatch, Accounted, DeadLetters
  <1> QED
    BY <1>2, <1>3, <1>4, <1>5, <1>6, <1>7, <1>8, <1>9, <1>10, <1>11, DedupOwes, SendOwes,
       AcceptedOwes, DlqOwes, MarkOwes DEF Next, EmitStep, ReplayStep

-----------------------------------------------------------------------------
(* What becomes of a batch.                                                *)

\* The same partition, the same sinks.
Going ==
    /\ work'.part = work.part /\ work'.sinks = work.sinks /\ work'.broken = work.broken
    /\ UNCHANGED <<batch, skipped>>

\* On to the next sink; unless a write failed, the last one has accounted.
Advanced ==
    /\ work'.part = work.part /\ work'.sinks = Tail(work.sinks)
    /\ ~work'.broken => ~work.broken /\ HeadDone
    /\ UNCHANGED <<batch, skipped>>

\* The partition is left; unless a write failed, every sink has accounted.
Left ==
    \E ok \in BOOLEAN : LeavePartition(ok) /\ (ok => \A r \in LiveBatch : Settled(r))

LEMMA DoneResult ==
    ASSUME IndInv, work.stage \in EmitStages, NEW ok \in BOOLEAN, SinkDone(ok), ok => HeadDone
    PROVE  Advanced \/ Left
  <1>0. TypeOK /\ Control /\ Passed
    BY DEF IndInv
  <1>1. /\ work.sinks # <<>> /\ phase = "batch" /\ work.sinks \in Seq(Sinks) /\ work # Idle
        /\ Head(work.sinks) \in Sinks
    BY <1>0, Emitting, WorkFields, IdleWork DEF EmitStages
  <1>2. CASE NextSink(ok)
    BY <1>2 DEF NextSink, Advanced
  <1>3. ASSUME NEW b \in BOOLEAN, LeavePartition(b), b => ok /\ ~work.broken, Len(work.sinks) = 1
        PROVE  Left
    <2>1. ASSUME b, NEW r \in LiveBatch, NEW s \in Sinks PROVE Accounted(s, obl_key(r, s))
      <3>1. HeadDone /\ ~work.broken
        BY <1>3, <2>1
      <3>2. Range(work.sinks) = {Head(work.sinks)}
        BY <1>1, <1>3, RangeOf
      <3>3. CASE s = Head(work.sinks)
        BY <3>1, <3>3 DEF HeadDone
      <3>4. CASE s # Head(work.sinks)
        BY <1>0, <1>1, <3>1, <3>2, <3>4 DEF Passed
      <3> QED
        BY <3>3, <3>4
    <2> QED
      BY <1>3, <2>1 DEF Left, Settled
  <1> QED
    BY <1>0, <1>1, <1>2, <1>3, DoneCases

LEMMA EmitResult ==
    ASSUME IndInv, [Next]_vars, EmitStep
    PROVE  /\ work.stage \in EmitStages
           /\ UNCHANGED <<committed, position, phase>>
           /\ Going \/ Advanced \/ Left
  <1>0. TypeOK /\ Control /\ work \in Work
    BY TypeParts DEF IndInv, Hands
  <1>1. work.stage \in EmitStages /\ UNCHANGED <<committed, position, phase>>
    BY DEF EmitStep, EmitStages, RecordWithheld, Dedup, Send, RecordAccepted, WriteDlq, MarkDead
  <1> SUFFICES Going \/ Advanced \/ Left
    BY <1>1
  <1>2. CASE RecordWithheld
    <2>1. CASE work' = [work EXCEPT !.stage = "dedup"] /\ UNCHANGED <<batch, durable, skipped>>
      <3>1. work'.part = work.part /\ work'.sinks = work.sinks /\ work'.broken = work.broken
        BY <1>0, <2>1 DEF Work
      <3> QED
        BY <2>1, <3>1 DEF Going
    <2>2. CASE LeavePartition(TRUE) /\ LiveBatch = {}
      <3>1. \A r \in LiveBatch : Settled(r)
        BY <2>2
      <3> QED
        BY <2>2, <3>1 DEF Left
    <2>3. CASE LeavePartition(FALSE)
      BY <2>3 DEF Left
    <2> QED
      BY <1>0, <1>2, <2>1, <2>2, <2>3, WithheldLines
  <1>3. CASE Dedup
    <2>1. CASE SinkDone(TRUE) /\ HeadDone
      BY <1>1, <2>1, DoneResult
    <2>2. CASE work'.stage = "send"
      <3>1. ~SinkDone(TRUE)
        BY <1>0, <1>1, <2>2, DoneStage, Emitting
      <3>2. PICK items : work' = [work EXCEPT !.stage = "send", !.pending = items] /\ UNCHANGED <<batch, skipped>>
        BY <1>3, <3>1 DEF Dedup
      <3>3. work'.part = work.part /\ work'.sinks = work.sinks /\ work'.broken = work.broken
        BY <1>0, <3>2 DEF Work
      <3> QED
        BY <3>2, <3>3 DEF Going
    <2> QED
      BY <1>3, <2>1, <2>2, DedupOwes
  <1>4. CASE Send
    <2>1. PICK failed : work' = [work EXCEPT !.stage = "record", !.failed = failed]
      BY <1>4 DEF Send
    <2>2. work'.part = work.part /\ work'.sinks = work.sinks /\ work'.broken = work.broken
      BY <1>0, <2>1 DEF Work
    <2> QED
      BY <1>4, <2>2 DEF Going, Send
  <1>5. CASE RecordAccepted
    <2>1. CASE work.failed = <<>> /\ SinkDone(TRUE)
      BY <1>1, <1>5, <2>1, AcceptedOwes, DoneResult
    <2>2. CASE SinkDone(FALSE)
      BY <1>1, <2>2, DoneResult
    <2>3. CASE Retry /\ UNCHANGED <<batch, durable, skipped>>
      BY <1>0, <2>3, RetryWork DEF Going
    <2> QED
      BY <1>5, <2>1, <2>2, <2>3 DEF RecordAccepted
  <1>6. CASE WriteDlq
    <2>1. CASE SinkDone(FALSE)
      BY <1>1, <2>1, DoneResult
    <2>2. CASE work' = [work EXCEPT !.stage = "mark"] /\ UNCHANGED <<batch, skipped>>
      <3>1. work'.part = work.part /\ work'.sinks = work.sinks /\ work'.broken = work.broken
        BY <1>0, <2>2 DEF Work
      <3> QED
        BY <2>2, <3>1 DEF Going
    <2> QED
      BY <1>6, <2>1, <2>2 DEF WriteDlq
  <1>7. CASE MarkDead
    <2>1. HeadDone
      BY <1>7, MarkOwes
    <2>2. SinkDone(TRUE) \/ SinkDone(FALSE)
      BY <1>7 DEF MarkDead
    <2> QED
      BY <1>1, <2>1, <2>2, DoneResult
  <1> QED
    BY <1>1, <1>2, <1>3, <1>4, <1>5, <1>6, <1>7 DEF EmitStep

\* Outside the emission of a batch, no partition is in hand or nothing changes.
LEMMA OtherSteps ==
    ASSUME TypeOK, Control, [Next]_vars, ~EmitStep
    PROVE  \/ phase' # "batch" \/ work' = Idle
           \/ \E p \in Partitions : BeginPartition(p)
           \/ UNCHANGED vars
  <1>1. CASE Poll
    BY <1>1 DEF Poll, Control
  <1>2. CASE EndBatch \/ Compact \/ Crash \/ Restart \/ \E s \in Sinks : BeginReplay(s)
    BY <1>2 DEF EndBatch, Compact, Crash, Restart, BeginReplay
  <1>3. CASE ReplayStep
    <2>1. work.stage \in {"scan", "transition", "rewrite"}
      BY <1>3 DEF ReplayStep, ReplayOne, ReplayTransition, TruncateDlq, RewriteDlq
    <2>2. phase = "replay"
      BY <2>1, Replaying
    <2>3. phase' \in {phase, "poll"}
      BY <1>3 DEF ReplayStep, ReplayOne, ReplayTransition, TruncateDlq, RewriteDlq, EndReplay
    <2> QED
      BY <2>2, <2>3
  <1> QED
    BY <1>1, <1>2, <1>3 DEF Next

LEMMA PassedStep ==
    ASSUME IndInv, [Next]_vars
    PROVE  Passed'
  <1>0. TypeOK /\ Control /\ Passed /\ work \in Work
    BY TypeParts DEF IndInv, Hands
  <1>1. SUFFICES ASSUME phase' = "batch", work' # Idle, ~work'.broken, NEW s \in Sinks,
                        s \notin Range(work'.sinks), NEW r \in LiveBatch'
                 PROVE  Accounted(s, obl_key(r, s))'
    BY DEF Passed, Range
  <1>2. PICK k : k = obl_key(r, s)
    OBVIOUS
  <1>3. SUFFICES Accounted(s, k)
    <2>1. Accounted(s, k)'
      BY <1>3, AccountedStays
    <2> QED
      BY <1>2, <2>1
  <1>4. ASSUME NEW p \in Partitions, BeginPartition(p) PROVE FALSE
    <2>1. work'.sinks = SinkNames
      BY <1>4 DEF BeginPartition, Idle
    <2> QED
      BY <1>1, <2>1, Constant
  <1>5. CASE UNCHANGED vars
    <2>1. LiveBatch' = LiveBatch /\ work' = work /\ phase' = phase
      BY <1>5 DEF vars, LiveBatch
    <2> QED
      BY <1>0, <1>1, <1>2, <2>1 DEF Passed
  <1>6. CASE EmitStep
    <2>1. work.stage \in EmitStages /\ (Going \/ Advanced \/ Left)
      BY <1>6, EmitResult
    <2>2. phase = "batch" /\ work # Idle /\ work.sinks # <<>> /\ work.sinks \in Seq(Sinks)
      BY <1>0, <2>1, Emitting, WorkFields, IdleWork DEF EmitStages
    <2>3. CASE Going
      <3>1. LiveBatch' = LiveBatch
        BY <2>3, LiveBatchStays DEF Going
      <3> QED
        BY <1>0, <1>1, <1>2, <2>2, <2>3, <3>1 DEF Going, Passed
    <2>4. CASE Advanced
      <3>1. LiveBatch' = LiveBatch /\ work'.sinks = Tail(work.sinks) /\ ~work.broken /\ HeadDone
        BY <1>1, <2>4, LiveBatchStays DEF Advanced
      <3>2. Range(work.sinks) = {Head(work.sinks)} \cup Range(Tail(work.sinks))
        BY <2>2, RangeOf
      <3>3. CASE s = Head(work.sinks)
        BY <1>1, <1>2, <3>1, <3>3 DEF HeadDone
      <3>4. CASE s # Head(work.sinks)
        <4>1. s \in Sinks \ Range(work.sinks)
          BY <1>1, <3>1, <3>2, <3>4
        <4> QED
          BY <1>0, <1>1, <1>2, <2>2, <3>1, <4>1 DEF Passed
      <3> QED
        BY <3>3, <3>4
    <2>5. CASE Left
      BY <1>1, <2>5 DEF Left, LeavePartition
    <2> QED
      BY <2>1, <2>3, <2>4, <2>5
  <1> QED
    BY <1>0, <1>1, <1>4, <1>5, <1>6, OtherSteps

\* Steps that read nothing and take nothing out of hand.
LEMMA HandsKept ==
    ASSUME TypeOK, Control, [Next]_vars, ~Poll, ~Restart, ~EmitStep, ~Crash
    PROVE  UNCHANGED <<position, batch, skipped>> /\ (phase' # "down" => phase # "down")
  <1>1. CASE EndBatch \/ Compact \/ (\E p \in Partitions : BeginPartition(p)) \/ (\E s \in Sinks : BeginReplay(s))
    BY <1>1 DEF EndBatch, Compact, BeginPartition, BeginReplay
  <1>2. CASE ReplayStep
    <2>1. /\ work.stage \in {"scan", "transition", "rewrite"}
          /\ UNCHANGED <<position, batch, skipped>>
      BY <1>2 DEF ReplayStep, ReplayOne, ReplayTransition, TruncateDlq, RewriteDlq
    <2>2. phase = "replay"
      BY <2>1, Replaying
    <2> QED
      BY <2>1, <2>2
  <1>3. CASE UNCHANGED vars
    BY <1>3 DEF vars
  <1> QED
    BY <1>1, <1>2, <1>3 DEF Next

\* A partition's records are settled, in hand or given up when it is left.
LEMMA LeftSettles ==
    ASSUME IndInv, work.stage \in EmitStages, Left, UNCHANGED position,
           NEW p \in Partitions, NEW i \in 1 .. position[p], Live(Topic[p][i]),
           Topic[p][i] \notin skipped', Topic[p][i] \notin Range(batch'[p])
    PROVE  Settled(Topic[p][i])
  <1>0. TypeOK /\ Control /\ ReadSettled
    BY DEF IndInv
  <1>1. phase = "batch" /\ work.part \in Partitions
    BY <1>0, Emitting
  <1>2. PICK ok \in BOOLEAN : LeavePartition(ok) /\ (ok => \A r \in LiveBatch : Settled(r))
    BY DEF Left
  <1>3. /\ \A t \in Partitions \ {work.part} : batch'[t] = batch[t]
        /\ skipped \subseteq skipped'
        /\ ~ok => Range(batch[work.part]) \subseteq skipped'
    BY <1>0, <1>1, <1>2, Leaving
  <1>4. CASE Topic[p][i] \notin Range(batch[p])
    BY <1>0, <1>1, <1>3, <1>4 DEF ReadSettled
  <1>5. CASE Topic[p][i] \in Range(batch[p])
    <2>1. p = work.part
      BY <1>3, <1>5
    <2>2. ok
      BY <1>3, <1>5, <2>1
    <2>3. Topic[p][i] \in LiveBatch
      BY <1>5, <2>1 DEF LiveBatch
    <2> QED
      BY <1>2, <2>2, <2>3
  <1> QED
    BY <1>4, <1>5

\* What a poll reads is in hand.
LEMMA PollSettles ==
    ASSUME IndInv, Poll, NEW p \in Partitions, NEW i \in 1 .. position'[p], Live(Topic[p][i]),
           Topic[p][i] \notin skipped', Topic[p][i] \notin Range(batch'[p])
    PROVE  Settled(Topic[p][i])
  <1>0. TypeOK /\ Control /\ ReadSettled /\ Offsets
    BY TypeParts DEF IndInv
  <1>1. /\ phase = "poll" /\ batch[p] = <<>> /\ skipped' = skipped
    BY <1>0 DEF Poll, Control
  <1>2. PICK n \in [Partitions -> 0 .. MaxPoll] :
         /\ \A q \in Partitions : position[q] + n[q] <= Len(Topic[q])
         /\ batch' = [q \in Partitions |-> SubSeq(Topic[q], position[q] + 1, position[q] + n[q])]
         /\ position' = [q \in Partitions |-> position[q] + n[q]]
    BY DEF Poll
  <1>3. PICK m : m = position[p]
    OBVIOUS
  <1>4. PICK k : k = n[p]
    OBVIOUS
  <1>5. /\ m \in Nat /\ k \in Nat /\ m + k <= Len(Topic[p])
        /\ Topic[p] \in Seq(Records) /\ Len(Topic[p]) \in Nat /\ position'[p] = m + k
        /\ batch'[p] = SubSeq(Topic[p], m + 1, m + k)
    <2>1. n[p] \in 0 .. MaxPoll /\ MaxPoll \in Nat
      BY <1>2, ForwarderAssumption
    <2>2. position[p] \in 0 .. Len(Topic[p])
      BY <1>0 DEF Offsets
    <2>3. Topic[p] \in Seq(Records) /\ Len(Topic[p]) \in Nat
      BY Constant
    <2>4. position'[p] = m + k /\ batch'[p] = SubSeq(Topic[p], m + 1, m + k)
      BY <1>2, <1>3, <1>4
    <2>5. m \in Nat /\ k \in Nat
      BY <1>3, <1>4, <2>1, <2>2, <2>3
    <2>6. m + k <= Len(Topic[p])
      BY <1>2, <1>3, <1>4
    <2> QED
      BY <2>3, <2>4, <2>5, <2>6
  <1>6. CASE i <= m
    <2>1. i \in 1 .. position[p]
      BY <1>3, <1>5, <1>6
    <2>2. Range(batch[p]) = {}
      BY <1>1 DEF Range
    <2> QED
      BY <1>0, <1>1, <2>1, <2>2 DEF ReadSettled
  <1>7. CASE i > m
    <2>1. i \in m + 1 .. m + k /\ m + k \in 0 .. Len(Topic[p])
      BY <1>5, <1>7
    <2>2. PICK rs \in Seq(Records) : rs = Topic[p]
      BY <1>5
    <2>3. Topic[p][i] \in Range(batch'[p])
      <3>1. rs[i] \in Range(SubSeq(rs, m + 1, m + k))
        BY <1>5, <2>1, <2>2, SubSeqHas
      <3> QED
        BY <1>5, <2>2, <3>1
    <2> QED
      BY <2>3
  <1> QED
    BY <1>5, <1>6, <1>7

LEMMA ReadSettledStep ==
    ASSUME IndInv, [Next]_vars
    PROVE  ReadSettled'
  <1>0. TypeOK /\ Control /\ ReadSettled /\ CommittedSettled
    BY DEF IndInv
  <1>1. SUFFICES ASSUME phase' # "down", NEW p \in Partitions, NEW i \in 1 .. position'[p],
                        Live(Topic[p][i]), Topic[p][i] \notin skipped', Topic[p][i] \notin Range(batch'[p])
                 PROVE  Settled(Topic[p][i])'
    BY DEF ReadSettled, Range
  <1>2. PICK r : r = Topic[p][i]
    OBVIOUS
  <1>3. SUFFICES Settled(Topic[p][i])
    <2>1. Settled(r)'
      BY <1>2, <1>3, SettledStays
    <2> QED
      BY <1>2, <2>1
  <1>4. CASE Poll
    BY <1>1, <1>4, PollSettles
  <1>5. CASE Restart
    <2>1. position' = committed /\ skipped' = skipped
      BY <1>5 DEF Restart
    <2> QED
      BY <1>0, <1>1, <2>1 DEF CommittedSettled
  <1>6. CASE EmitStep
    <2>1. /\ work.stage \in EmitStages /\ UNCHANGED <<position, phase>>
          /\ Going \/ Advanced \/ Left
      BY <1>6, EmitResult
    <2>2. CASE Going \/ Advanced
      <3>1. UNCHANGED <<batch, skipped>>
        BY <2>2 DEF Going, Advanced
      <3> QED
        BY <1>0, <1>1, <2>1, <3>1 DEF ReadSettled
    <2>3. CASE Left
      BY <1>1, <2>1, <2>3, LeftSettles
    <2> QED
      BY <2>1, <2>2, <2>3
  <1>7. CASE ~Poll /\ ~Restart /\ ~EmitStep /\ ~Crash
    <2>1. UNCHANGED <<position, batch, skipped>> /\ phase # "down"
      BY <1>0, <1>1, <1>7, HandsKept
    <2> QED
      BY <1>0, <1>1, <2>1 DEF ReadSettled
  <1>8. ~Crash
    BY <1>1 DEF Crash
  <1> QED
    BY <1>4, <1>5, <1>6, <1>7, <1>8

LEMMA SkippedGrows ==
    ASSUME IndInv, [Next]_vars
    PROVE  skipped \subseteq skipped'
  <1>0. TypeOK /\ Control
    BY DEF IndInv
  <1>1. CASE EmitStep
    <2>1. work.stage \in EmitStages /\ (Going \/ Advanced \/ Left)
      BY <1>1, EmitResult
    <2>2. CASE Going \/ Advanced
      BY <2>2 DEF Going, Advanced
    <2>3. CASE Left
      BY <2>3 DEF Left, LeavePartition
    <2> QED
      BY <2>1, <2>2, <2>3
  <1>2. CASE Poll \/ Restart \/ Crash
    BY <1>2 DEF Poll, Restart, Crash
  <1> QED
    BY <1>0, <1>1, <1>2, HandsKept

LEMMA CommittedStays ==
    ASSUME [Next]_vars, ~EndBatch
    PROVE  UNCHANGED committed
  BY DEF Next, Poll, BeginPartition, EmitStep, RecordWithheld, Dedup, Send, RecordAccepted, WriteDlq,
         MarkDead, Compact, BeginReplay, ReplayStep, ReplayOne, ReplayTransition, TruncateDlq,
         RewriteDlq, Crash, Restart, vars

LEMMA CommittedSettledStep ==
    ASSUME IndInv, [Next]_vars
    PROVE  CommittedSettled'
  <1>0. TypeOK /\ Control /\ ReadSettled /\ CommittedSettled
    BY DEF IndInv
  <1>1. SUFFICES ASSUME NEW p \in Partitions, NEW i \in 1 .. committed'[p],
                        Live(Topic[p][i]), Topic[p][i] \notin skipped'
                 PROVE  Settled(Topic[p][i])'
    BY DEF CommittedSettled
  <1>2. PICK r : r = Topic[p][i]
    OBVIOUS
  <1>3. SUFFICES Settled(Topic[p][i])
    <2>1. Settled(r)'
      BY <1>2, <1>3, SettledStays
    <2> QED
      BY <1>2, <2>1
  <1>4. Topic[p][i] \notin skipped
    BY <1>1, SkippedGrows
  <1>5. CASE EndBatch /\ durable
    <2>1. committed' = position /\ phase # "down" /\ batch[p] = <<>>
      BY <1>5 DEF EndBatch
    <2>2. Range(batch[p]) = {}
      BY <2>1 DEF Range
    <2> QED
      BY <1>0, <1>1, <1>4, <2>1, <2>2 DEF ReadSettled
  <1>6. CASE UNCHANGED committed
    BY <1>0, <1>1, <1>4, <1>6 DEF CommittedSettled
  <1>7. CASE EndBatch /\ ~durable
    <2>1. UNCHANGED committed
      BY <1>7 DEF EndBatch
    <2> QED
      BY <1>6, <2>1
  <1> QED
    BY <1>5, <1>6, <1>7, CommittedStays

-----------------------------------------------------------------------------
(* The theorems.                                                           *)

LEMMA InitInv == Init => IndInv
  <1> SUFFICES ASSUME Init PROVE IndInv
    OBVIOUS
  <1>1. TypeOK /\ Control
    BY TypeInit
  <1>2. /\ \A s \in Sinks : ledger[s] = <<>> /\ outcome[s] = {}
        /\ work.stage = "idle" /\ work = Idle /\ position = committed
        /\ \A p \in Partitions : committed[p] = 0
    BY IdleWork DEF Init
  <1>3. Filed
    BY <1>2 DEF Filed, IndexOf
  <1>4. Justified
    <2>1. \A s \in Sinks : Range(ledger[s]) = {}
      BY <1>2 DEF Range
    <2> QED
      BY <1>2, <2>1 DEF Justified
  <1>5. Attempted /\ Owed /\ Passed
    BY <1>2 DEF Attempted, Owed, Passed
  <1>6. \A p \in Partitions : 1 .. committed[p] = {} /\ 1 .. position[p] = {}
    BY <1>2
  <1>7. ReadSettled /\ CommittedSettled
    BY <1>6 DEF ReadSettled, CommittedSettled
  <1> QED
    BY <1>1, <1>3, <1>4, <1>5, <1>7 DEF IndInv

LEMMA IndInvStep ==
    ASSUME IndInv, [Next]_vars
    PROVE  IndInv'
  <1>1. TypeOK' /\ Control'
    BY TypeStep DEF IndInv
  <1> QED
    BY <1>1, FiledStep, JustifiedStep, AttemptedStep, OwedStep, PassedStep, ReadSettledStep,
       CommittedSettledStep DEF IndInv

\* The inductive invariant: what is in hand agrees with the phase, index and file
\* agree, every ledger line is true, and what is read or committed is settled.
THEOREM Invariance == Spec => []IndInv
  <1>1. Init => IndInv
    BY InitInv
  <1>2. IndInv /\ [Next]_vars => IndInv'
    BY IndInvStep
  <1> QED
    BY <1>1, <1>2, PTL DEF Spec

\* Every variable keeps its type; the committed offset never passes the consumer's
\* position, nor the position the topic's end, and no sink is tried more than
\* Retries + 1 times.
THEOREM TypeCorrect == Spec => []TypeOK
  <1>1. IndInv => TypeOK
    BY DEF IndInv
  <1> QED
    BY <1>1, Invariance, PTL

\* Settled is what CommittedHandled asks of a record.
LEMMA CommittedImplied == IndInv => CommittedHandled
  <1> SUFFICES ASSUME IndInv, NEW r \in CommittedRecords, Live(r), r \notin skipped, NEW s \in Sinks
               PROVE  HandledAt(s, r) \/ TornAt(s, r)
    BY DEF CommittedHandled
  <1>1. TypeOK /\ CommittedSettled /\ Offsets
    BY TypeParts DEF IndInv
  <1>2. PICK pi \in {x \in UNION {{p} \X (1 .. Len(Topic[p])) : p \in Partitions} : x[2] <= committed[x[1]]} :
            r = Topic[pi[1]][pi[2]]
    BY DEF CommittedRecords
  <1>3. PICK p \in Partitions : pi \in {p} \X (1 .. Len(Topic[p]))
    BY <1>2
  <1>4. PICK i : i = pi[2]
    OBVIOUS
  <1>5. pi[1] = p /\ i \in 1 .. Len(Topic[p]) /\ i <= committed[p] /\ r = Topic[p][i]
    BY <1>2, <1>3, <1>4
  <1>6. i \in 1 .. committed[p]
    <2>1. committed[p] \in 0 .. position[p] /\ position[p] \in 0 .. Len(Topic[p]) /\ Len(Topic[p]) \in Nat
      BY <1>1, Constant DEF Offsets
    <2> QED
      BY <1>5, <2>1
  <1>7. Accounted(s, obl_key(r, s))
    BY <1>1, <1>5, <1>6 DEF CommittedSettled, Settled
  <1> QED
    BY <1>7 DEF Accounted, HandledAt, TornAt, SameObligation

\* F07, less the two windows the code leaves open (CommittedHandled): whatever
\* crashes, lost answers, failed writes and replays happen, a live record below the
\* committed offset, and not of a batch that was given up, was received or is a dead
\* letter at every sink, or was torn off by an interrupted rewrite.
THEOREM NothingCommittedIsLost == Spec => []CommittedHandled
  <1>1. IndInv => CommittedHandled
    BY CommittedImplied
  <1> QED
    BY <1>1, Invariance, PTL

\* Only an attempt or a replay reaches a receiver.
LEMMA SendersOnly ==
    ASSUME [Next]_vars, ~Send, ~ReplayOne
    PROVE  UNCHANGED got
  BY DEF Next, Poll, BeginPartition, EmitStep, RecordWithheld, Dedup, RecordAccepted, WriteDlq,
         MarkDead, EndBatch, Compact, BeginReplay, ReplayStep, ReplayTransition, TruncateDlq,
         RewriteDlq, Crash, Restart, vars

LEMMA SendsNew ==
    ASSUME IndInv, Send, NEW s \in Sinks, NEW r \in LiveRecords, got'[s][r] > got[s][r], NEW oc
    PROVE  ~FileSays(s, r, oc)
  <1>0. TypeOK /\ Control /\ Attempted /\ Outside
    BY TypeParts DEF IndInv
  <1>1. work.stage \in EmitStages /\ work.stage = "send"
    BY DEF Send, EmitStages
  <1>2. Head(work.sinks) \in Sinks
    BY <1>0, <1>1, Emitting
  <1>3. PICK taken \in SUBSET Range(work.pending) : Receives(Head(work.sinks), taken)
    BY DEF Send
  <1>4. s = Head(work.sinks) /\ r \in Range(work.pending)
    BY <1>0, <1>2, <1>3, ReceivesGrows
  <1>5. \A i \in DOMAIN ledger[s] : ledger[s][i].key # obl_key(r, s)
    BY <1>0, <1>1, <1>4 DEF Attempted
  <1> QED
    BY <1>5, LineFields DEF FileSays

LEMMA ReplaysDead ==
    ASSUME IndInv, ReplayOne, NEW s \in Sinks, NEW r \in LiveRecords, got'[s][r] > got[s][r]
    PROVE  ~FileSays(s, r, "delivered") /\ phase = "replay"
  <1>0. TypeOK /\ Control /\ Filed /\ Outside
    BY TypeParts DEF IndInv
  <1>1. work.stage \in {"scan", "transition", "rewrite"}
    BY DEF ReplayOne
  <1>2. Head(work.sinks) \in Sinks /\ phase = "replay"
    BY <1>0, <1>1, Replaying
  <1>3. ~UNCHANGED got
    BY <1>0 DEF Outside
  <1>4. ~DeliveredTo(Head(work.sinks), Head(work.pending)) /\ Receives(Head(work.sinks), {Head(work.pending)})
    BY <1>3 DEF ReplayOne
  <1>5. s = Head(work.sinks) /\ r = Head(work.pending)
    BY <1>0, <1>2, <1>4, ReceivesGrows
  <1>6. ASSUME FileSays(s, r, "delivered") PROVE FALSE
    <2>1. PICK i \in DOMAIN ledger[s] :
            /\ ledger[s][i] = Line(r, s, "delivered")
            /\ \A j \in i + 1 .. Len(ledger[s]) : ledger[s][j].key # obl_key(r, s)
      BY <1>6 DEF FileSays
    <2>2. ledger[s][i].outcome = "delivered" /\ ledger[s][i].key = obl_key(r, s)
      BY <2>1, LineFields
    <2>3. IndexOf(s)
      BY <1>0, <1>2 DEF Filed
    <2>4. ledger[s][i] \in outcome[s]
      BY <2>1, <2>2, <2>3 DEF IndexOf
    <2> QED
      BY <1>4, <1>5, <2>1, <2>4 DEF DeliveredTo
  <1> QED
    BY <1>2, <1>6

\* The ledger file is what decides (TerminalNotResent): across crashes, restarts and
\* compactions, nothing its last line calls delivered is sent again, and what it
\* calls dead_lettered only by an operator's replay.
THEOREM NothingTerminalIsResent == Spec => TerminalNotResent
  <1>1. ASSUME IndInv, [Next]_vars
        PROVE  [\A s \in Sinks : \A r \in LiveRecords :
                  got'[s][r] > got[s][r] =>
                      /\ ~FileSays(s, r, "delivered")
                      /\ FileSays(s, r, "dead_lettered") => phase = "replay"]_vars
    <2> SUFFICES ASSUME NEW s \in Sinks, NEW r \in LiveRecords, got'[s][r] > got[s][r]
                 PROVE  /\ ~FileSays(s, r, "delivered")
                        /\ FileSays(s, r, "dead_lettered") => phase = "replay"
      OBVIOUS
    <2>1. CASE Send
      BY <1>1, <2>1, SendsNew
    <2>2. CASE ReplayOne
      BY <1>1, <2>2, ReplaysDead
    <2>3. CASE ~Send /\ ~ReplayOne
      <3>1. UNCHANGED got /\ got[s][r] \in Nat
        BY <1>1, <2>3, SendersOnly, TypeParts DEF IndInv, Outside
      <3> QED
        BY <3>1
    <2> QED
      BY <2>1, <2>2, <2>3
  <1> QED
    BY <1>1, Invariance, PTL DEF Spec, TerminalNotResent

=============================================================================
