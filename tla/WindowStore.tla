----------------------------- MODULE WindowStore -----------------------------
(***************************************************************************)
(* What the window store promises its callers (shared/store.py), as the    *)
(* in-memory backend keeps it: counters and per-flow fields that live for  *)
(* one tumbling window, sets whose members age one by one, first-seen      *)
(* scores, event windows and single values.  Nothing is forgotten before   *)
(* its lifetime ends; all but events are forgotten within one time unit    *)
(* after, events with the rest of their key.                               *)
(*                                                                         *)
(* An entry is [key, member, val, exp].  A caller whose connection breaks  *)
(* may leave a key without an end, and so may, on Redis, one that writes a *)
(* window more than once in a batch.                                       *)
(***************************************************************************)
EXTENDS Integers, FiniteSets

CONSTANTS
    Ops,        \* operations callers ask for: [op, key, member, val]
    Ttl,        \* WINDOW
    Cap,        \* fields of a key
    Rewritten   \* windows that some batch writes more than once
CONSTANT KindOf(_)

VARIABLES now, content,
    faults      \* broken connections so far

Forever == -1
REFUSED_FIELD == <<"#refused">>

Of(k) == {e \in content : e.key = k}
Has(k, m) == \E e \in content : e.key = k /\ e.member = m
Val(k, m) == IF Has(k, m) THEN (CHOOSE e \in content : e.key = k /\ e.member = m).val ELSE 0
With(c, k, m, v, x) ==
    {e \in c : ~(e.key = k /\ e.member = m)} \cup {[key |-> k, member |-> m, val |-> v, exp |-> x]}
\* All entries of a key end together.
Together(k, x) == {IF e.key = k THEN [e EXCEPT !.exp = x] ELSE e : e \in content}

\* The end of a counter is set by its first write and by no other.
Tumbling(k) == IF \E e \in Of(k) : e.exp # Forever THEN (CHOOSE e \in Of(k) : e.exp # Forever).exp ELSE now + Ttl

counter_add(k, f, delta) == With(Together(k, Tumbling(k)), k, f, Val(k, f) + delta, Tumbling(k))
\* A field beyond the cap is refused, and the refusal counted.
field_set(k, f, v) ==
    LET kept == Together(k, Tumbling(k))
        fields == {e.member : e \in Of(k)} \ {REFUSED_FIELD}
    IN  IF f \notin fields /\ Cardinality(fields) >= Cap
        THEN With(kept, k, REFUSED_FIELD, Val(k, REFUSED_FIELD) + 1, Tumbling(k))
        ELSE With(kept, k, f, v, Tumbling(k))
counter_clear(k) == content \ Of(k)
set_add(k, m) == With(content, k, m, now + Ttl, now + Ttl)
set_remove(k, m) == {e \in content : ~(e.key = k /\ e.member = m)}
\* znx: the first score stands, and every write prolongs the key.
first_add(k, m, score) ==
    LET kept == Together(k, now + Ttl) IN IF Has(k, m) THEN kept ELSE With(kept, k, m, score, now + Ttl)
\* An event is kept for its own lifetime, val; its member is <<time, event>>.
window_add(k, m) ==
    With({IF e.key = k THEN [e EXCEPT !.exp = e.val] ELSE e : e \in content}, k, m, now + Ttl, now + Ttl)
\* The same into a window that nothing will end any more.
window_add_endless(k, m) == With(content, k, m, now + Ttl, Forever)
window_range(k, age) == {e \in content : ~(e.key = k /\ e.member[1] < now - age)}
kv_set(k, v) == With(content, k, <<>>, v, now + Ttl)
kv_set_once(k, v) == IF Of(k) = {} THEN kv_set(k, v) ELSE content

Apply(o) ==
    CASE o.op = "cnt" -> counter_add(o.key, o.member, o.val)
      [] o.op = "fset" -> field_set(o.key, o.member, o.val)
      [] o.op = "clear" -> counter_clear(o.key)
      [] o.op = "sadd" -> set_add(o.key, o.member)
      [] o.op = "srem" -> set_remove(o.key, o.member)
      [] o.op = "znx" -> first_add(o.key, o.member, o.val)
      [] o.op = "win" -> window_add(o.key, o.member)
      [] o.op = "range" -> window_range(o.key, o.val)
      [] o.op = "kv" -> kv_set(o.key, o.val)
      [] o.op = "once" -> kv_set_once(o.key, o.val)

Operate ==
    /\ \E o \in Ops :
         \/ content' = Apply(o)
         \/ /\ o.op = "win" /\ o.key \in Rewritten /\ \A e \in Of(o.key) : e.exp = Forever
            /\ content' = window_add_endless(o.key, o.member)
    /\ UNCHANGED <<now, faults>>

\* What may, and what must be forgotten when the clock reaches t.
Due(e, t) == e.exp # Forever /\ e.exp <= t
Overdue(e, t) ==
    IF KindOf(e.key) = "window" THEN \A d \in Of(e.key) : d.exp # Forever /\ d.exp < t
    ELSE e.exp # Forever /\ e.exp < t
Whole(gone) ==
    \A d \in gone : KindOf(d.key) \in {"hash", "first", "value", "once"} => Of(d.key) \subseteq gone
Tick ==
    /\ now' = now + 1
    /\ \E gone \in SUBSET {e \in content : Due(e, now')} :
          /\ {e \in content : Overdue(e, now')} \subseteq gone /\ Whole(gone)
          /\ content' = content \ gone
    /\ UNCHANGED faults

\* A connection breaks before the lifetime of a key was set: it has none, or the one
\* it had before.
Shortened(k, x) == {IF e.key = k /\ e.exp > x THEN [e EXCEPT !.exp = x] ELSE e : e \in content}
Break ==
    /\ faults' = faults + 1 /\ UNCHANGED now
    /\ \/ UNCHANGED content
       \/ \E k \in {e.key : e \in content} :
             \/ content' = Together(k, Forever)
             \/ \E x \in now .. now + Ttl : content' = Shortened(k, x)

Init == now = 0 /\ content = {} /\ faults = 0
Next == Operate \/ Tick \/ Break
Spec == Init /\ [][Next]_<<now, content, faults>>
=============================================================================
