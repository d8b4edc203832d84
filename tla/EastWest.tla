------------------------------ MODULE EastWest ------------------------------
(***************************************************************************)
(* east-west-detectors: every event adds members to sets of the shared     *)
(* store, one per kind of behaviour and source, and the set to the index   *)
(* of its partition; a replica evaluates the sets its index names, emits a *)
(* candidate when a set is large enough, and takes empty ones off the      *)
(* index.  Store calls are separate steps: replicas interleave, die, lose  *)
(* the partition, or find the store unreachable between any two of them.   *)
(*                                                                         *)
(* One tenant and one partition of each topic; one replica owns it.        *)
(***************************************************************************)
EXTENDS Integers, Sequences, FiniteSets, FiniteSetsExt

CONSTANTS
    Replicas,
    Streams,    \* sequences of events, one of which the partition brings
    Window,     \* EW_WINDOW_SECS
    Bucket,     \* the 600 seconds of an emission bucket
    AtLeast,      \* the thresholds of ew.py
    MaxTime, MaxFaults    \* bounds; faults of all kinds together

\* What the constants are; assumed where they get their values.
EastWestAssumption ==
    /\ {MaxTime, MaxFaults} \subseteq Nat
    /\ {Window, Bucket} \subseteq Nat \ {0}
    /\ \A t \in DOMAIN AtLeast : AtLeast[t] \in Nat \ {0}
    /\ \A s \in Streams : s \in Seq({s[i] : i \in DOMAIN s})

VARIABLES
    now, stream,
    owner, read, committed,  \* of the partition
    sets,       \* set members: [key, member, exp] and, for their history, rec, the record
                \* that wrote the member last, and came, when that was
    obs,        \* observed times: [key, at, exp]
    index,      \* [key, exp]
    dedup,      \* [id, exp]
    calls,      \* replica -> the store calls its handler has left
    todo,       \* replica -> keys its evaluation has left
    empty,      \* replica -> keys it found empty and is about to take off the index
    emitted,    \* candidates: [id, by, at, evidence, times]
    crashes, moves, errors

store == <<sets, obs, index, dedup>>
local == <<calls, todo, empty>>
vars == <<now, stream, owner, read, committed, store, local, emitted, crashes, moves, errors>>
-----------------------------------------------------------------------------
(* ew.py and _handle: which sets an event belongs to.                      *)

Unknown == -1   \* an event whose time does not parse
PREFIXES == {"scan", "lat", "rdp", "krb", "spray", "asrep", "rw", "lex", "llmnr"}
If(c, x) == IF c THEN <<x>> ELSE <<>>
ADMIN_PORTS == {"rdp", "smb"}

\* One <<prefix, member>> for every set.
Adds(e) ==
    CASE e.type = "flow" ->
            IF ~e.internal THEN <<>>
            ELSE <<<<"scan", <<e.dst, e.port>>>>>>
                 \o If(e.port \in ADMIN_PORTS, <<"lat", <<e.dst, e.port>>>>)
                 \o If(e.port = "rdp", <<"rdp", <<e.dst>>>>)
      [] e.type = "krb5" ->
            If(e.tgs \/ e.sname # "", <<"krb", <<e.sname, e.cipher>>>>)
            \o If(e.failed /\ e.cname # "", <<"spray", <<e.cname>>>>)
            \o If(e.preauthless /\ e.cname # "", <<"asrep", <<e.cname>>>>)
      [] e.type = "smb" ->
            If(e.failed /\ e.user # "", <<"spray", <<e.user>>>>)
            \o If(e.file # "" /\ e.op # "", <<"rw", <<e.op, e.file>>>>)
            \o If(e.signal # "", <<"lex", <<e.signal>>>>)
      [] e.type = "dns" -> If(e.answer # "", <<"llmnr", <<e.answer>>>>)
      [] OTHER -> <<>>

Count(members, field) == Cardinality({m[field] : m \in members})
\* scan_score: many hosts, or many ports of one.
Scanned(members) ==
    LET ports(d) == Cardinality({m \in members : m[1] = d})
        most == Max({ports(m[1]) : m \in members})
    IN  IF Count(members, 1) >= AtLeast.dsts THEN <<TRUE, <<"horizontal", Count(members, 1)>>>>
        ELSE <<most >= AtLeast.ports, <<"vertical", most>>>>
\* kerberoast_score: many services, or fewer with a weak cipher.
Roasted(members) ==
    LET n == Count({m \in members : m[1] # ""}, 1)
        rc4 == \E m \in members : m[2] = "rc4"
    IN  <<n >= AtLeast.spns \/ (n >= AtLeast.rc4 /\ rc4), <<n, rc4>>>>
\* ransomware_smb_score: many files, most of the operations writes.
Encrypted(members) ==
    LET writes == Cardinality({m \in members : m[1] = "w"})
        files == Count(members, 2)
    IN  <<files >= AtLeast.files /\ writes >= AtLeast.writes /\ 10 * writes >= 7 * Cardinality(members), <<files, writes>>>>
\* <<hit, what the entities of the candidate say besides the source>>; an exec pipe or
\* interface is enough by itself.
Score(prefix, members) ==
    CASE prefix = "scan" -> Scanned(members)
      [] prefix = "krb" -> Roasted(members)
      [] prefix = "rw" -> Encrypted(members)
      [] prefix = "lex" -> <<TRUE, {m[1] : m \in members}>>
      [] OTHER -> <<Count(members, 1) >= AtLeast[prefix], Count(members, 1)>>
-----------------------------------------------------------------------------
(* The store, as RedisStore keeps it.                                      *)

\* set_members: members are kept until their own expiry.
Live(key) == {x \in sets : x.key = key /\ x.exp >= now}
Indexed(key) == \E i \in index : i.key = key /\ i.exp >= now

\* window_range: event times of the last window, of a key that has not expired.
Observed(key) == {o.at : o \in {x \in obs : x.key = key /\ x.exp > now /\ x.at >= now - Window}}

\* _ew_add, for every set of an event: the member, the observed time, the index.
Calls(e, rec) ==
    [i \in 1 .. 3 * Len(Adds(e)) |->
        LET add == Adds(e)[(i + 2) \div 3]
        IN  [op |-> <<"member", "observed", "index">>[((i - 1) % 3) + 1],
             key |-> <<add[1], e.src>>, member |-> add[2], at |-> e.ts, rec |-> rec]]

Written(c) == [key |-> c.key, member |-> c.member, exp |-> now + Window, rec |-> c.rec, came |-> now]
\* Mutant: the expiry is one of the key, which every write of a member moves.
AddMemberToKey(c) ==
    /\ sets' = {Written(c)} \cup {IF x.key = c.key THEN [x EXCEPT !.exp = now + Window] ELSE x :
                                    x \in {y \in sets : ~(y.key = c.key /\ y.member = c.member)}}
    /\ UNCHANGED <<obs, index>>
AddMember(c) ==
    /\ sets' = {x \in sets : ~(x.key = c.key /\ x.member = c.member)} \cup {Written(c)}
    /\ UNCHANGED <<obs, index>>
\* window_add; nothing when the event has no usable time.
AddObserved(c) ==
    /\ obs' = IF c.at = Unknown THEN obs
              ELSE {x \in obs : x.key # c.key}
                   \cup {[key |-> c.key, at |-> at, exp |-> now + Window + 1]
                            : at \in {c.at} \cup {x.at : x \in {y \in obs : y.key = c.key}}}
    /\ UNCHANGED <<sets, index>>
\* Mutant: a key that is on the index already is not written again.
AddIndexOnce(c) ==
    /\ index' = IF \E i \in index : i.key = c.key THEN index ELSE index \cup {[key |-> c.key, exp |-> now + Window]}
    /\ UNCHANGED <<sets, obs>>
AddIndex(c) ==
    /\ index' = {i \in index : i.key # c.key} \cup {[key |-> c.key, exp |-> now + Window]}
    /\ UNCHANGED <<sets, obs>>
-----------------------------------------------------------------------------
(* Candidates.                                                             *)

\* Mutant: the mark of an emission is kept as long as an evaluation takes.
SeenBriefly(id) == \E d \in dedup : d.id = id /\ d.exp - Bucket > now
\* dedup_seen: set once, for the length of a bucket and a second.
Seen(id) == \E d \in dedup : d.id = id /\ d.exp > now
Mark(id) == {d \in dedup : d.id # id} \cup {[id |-> id, exp |-> now + Bucket + 1]}

\* _cand: a candidate is known by its detector, its entities and the bucket.  The digest
\* of the entities is the entities.
Id(prefix, src, what) == <<prefix, src, what, now \div Bucket>>
\* The mark is set first; the process may die before the candidate is sent.
Emit(r, id, evidence, times, dies) ==
    IF Seen(id) THEN UNCHANGED <<dedup, emitted>> /\ ~dies
    ELSE /\ dedup' = Mark(id)
         /\ IF dies THEN UNCHANGED emitted
            ELSE emitted' = emitted \cup {[id |-> id, by |-> r, at |-> now, evidence |-> evidence, times |-> times]}
-----------------------------------------------------------------------------
(* The consumer.                                                           *)

Idle(r) == calls[r] = <<>> /\ todo[r] = {} /\ empty[r] = {}
\* What a new process finds: nothing in hand.
Reset(r) == /\ calls' = [calls EXCEPT ![r] = <<>>] /\ todo' = [todo EXCEPT ![r] = {}]
            /\ empty' = [empty EXCEPT ![r] = {}]

\* _handle; a remote call of a known interface is a candidate by itself.
Take(r, dies) ==
    LET e == stream[read + 1]
    IN  /\ owner = r /\ Idle(r) /\ read < Len(stream)
        /\ IF e.type = "dcerpc" /\ e.lateral
           THEN Emit(r, Id("dcerpc", e.src, <<e.dst, e.op>>), {}, {e.ts} \ {Unknown}, dies)
           ELSE ~dies /\ UNCHANGED <<dedup, emitted>>
        /\ UNCHANGED <<now, stream, owner, committed, sets, obs, index, errors>>
Handle(r) ==
    /\ Take(r, FALSE)
    /\ read' = read + 1
    /\ calls' = [calls EXCEPT ![r] = Calls(stream[read + 1], read + 1)]
    /\ UNCHANGED <<todo, empty, crashes, moves>>

Call(r) ==
    /\ calls[r] # <<>>
    /\ calls' = [calls EXCEPT ![r] = Tail(@)]
    /\ LET c == Head(calls[r])
       IN  \/ c.op = "member" /\ AddMember(c)
           \/ c.op = "observed" /\ AddObserved(c)
           \/ c.op = "index" /\ AddIndex(c)
    /\ UNCHANGED <<now, stream, owner, read, committed, dedup, todo, empty, emitted, crashes, moves, errors>>
\* The store cannot be reached: the rest of the record, or of the evaluation, is skipped.
StoreFails(r) ==
    /\ crashes + moves + errors < MaxFaults /\ errors' = errors + 1
    /\ ~Idle(r) /\ Reset(r)
    /\ UNCHANGED <<now, stream, owner, read, committed, store, emitted, crashes, moves>>

\* evaluate, for one kind of set: the keys its index names ...
Evaluate(r, prefix) ==
    /\ owner = r /\ Idle(r)
    /\ todo' = [todo EXCEPT ![r] = {i.key : i \in {x \in index : x.exp >= now /\ x.key[1] = prefix}}]
    /\ todo[r] # todo'[r]
    /\ UNCHANGED <<now, stream, owner, read, committed, store, calls, empty, emitted, crashes, moves, errors>>
\* ... each read, scored and emitted; an empty one is taken off the index, one call later.
Visit(r, key, dies) ==
    LET evidence == Live(key)
        score == Score(key[1], {x.member : x \in evidence})
    IN  /\ key \in todo[r]
        /\ IF evidence # {} /\ score[1]
           THEN Emit(r, Id(key[1], key[2], score[2]), evidence, Observed(key), dies)
           ELSE ~dies /\ UNCHANGED <<dedup, emitted>>
        /\ UNCHANGED <<now, stream, owner, sets, obs, index, errors>>
VisitKey(r) ==
    \E key \in todo[r] :
        /\ Visit(r, key, FALSE)
        /\ todo' = [todo EXCEPT ![r] = @ \ {key}]
        /\ empty' = [empty EXCEPT ![r] = IF Live(key) = {} THEN {key} ELSE {}]
        /\ UNCHANGED <<calls, read, committed, crashes, moves>>
        /\ empty[r] = {}
Prune(r) ==
    /\ empty[r] # {} /\ empty' = [empty EXCEPT ![r] = {}]
    /\ index' = {i \in index : i.key \notin empty[r]}
    /\ UNCHANGED <<now, stream, owner, read, committed, sets, obs, dedup, calls, todo, emitted, crashes, moves, errors>>

\* The consumer commits what it has handled, at its next poll.
AutoCommit ==
    /\ Idle(owner) /\ committed' = read
    /\ UNCHANGED <<now, stream, owner, read, store, local, emitted, crashes, moves, errors>>

Crash(r) ==
    /\ crashes + moves + errors < MaxFaults /\ crashes' = crashes + 1
    /\ Reset(r) /\ read' = IF owner = r THEN committed ELSE read
    /\ \/ UNCHANGED <<now, stream, owner, committed, store, emitted, errors>>
       \/ Take(r, TRUE)
       \/ \E key \in todo[r] : Visit(r, key, TRUE) /\ UNCHANGED committed
    /\ UNCHANGED moves
\* A rebalance: the other replica goes on where the last commit was, while this one is
\* still busy with what it had read.
Move(r) ==
    /\ crashes + moves + errors < MaxFaults /\ moves' = moves + 1
    /\ owner # r /\ owner' = r /\ read' = committed
    /\ UNCHANGED <<now, stream, committed, store, local, emitted, crashes, errors>>

\* Redis drops a key when none of its members is left to expire.
Tick ==
    /\ now < MaxTime /\ now' = now + 1
    /\ sets' = {x \in sets : \E y \in sets : y.key = x.key /\ y.exp >= now'}
    /\ obs' = {x \in obs : x.exp > now'} /\ index' = {i \in index : i.exp >= now'}
    /\ dedup' = {d \in dedup : d.exp > now'}
    /\ UNCHANGED <<stream, owner, read, committed, local, emitted, crashes, moves, errors>>

Init ==
    /\ now = 0 /\ stream \in Streams /\ owner \in Replicas /\ read = 0 /\ committed = 0
    /\ sets = {} /\ obs = {} /\ index = {} /\ dedup = {}
    /\ calls = [r \in Replicas |-> <<>>] /\ todo = [r \in Replicas |-> {}] /\ empty = [r \in Replicas |-> {}]
    /\ emitted = {} /\ crashes = 0 /\ moves = 0 /\ errors = 0

Next ==
    \/ \E r \in Replicas : \/ Handle(r) \/ Call(r) \/ StoreFails(r) \/ VisitKey(r) \/ Prune(r) \/ Crash(r) \/ Move(r)
                          \/ \E prefix \in PREFIXES : Evaluate(r, prefix)
    \/ AutoCommit \/ Tick

Spec == Init /\ [][Next]_vars
-----------------------------------------------------------------------------
(* Properties.                                                             *)

\* Continuous activity of a source cannot keep old members alive: whatever is replayed,
\* by whichever replica, and whatever else is written to the set, a candidate counts
\* only members that a record brought within the window before it.
EvidenceFresh ==
    \A c \in emitted : \A x \in c.evidence : x.came <= c.at /\ c.at - x.came <= Window

\* "N replicas never double-emit": one candidate for a detector and its entities in a
\* bucket, though two replicas evaluate the same set, a record is handled twice, or the
\* evaluation comes at the very end of the bucket.
EmittedOnce ==
    \A c, d \in emitted : c.id = d.id => c = d

\* A set that still has members of handled records is named by the index of its
\* partition, so the owner evaluates it, also when processes died between the calls
\* of a record, as long as the partition has stayed where it was.
LiveSetsIndexed ==
    moves = 0 /\ errors = 0 =>
        \A x \in sets : x.exp >= now /\ x.rec <= committed => Indexed(x.key)

=============================================================================
