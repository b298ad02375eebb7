----------------------------- MODULE OrdinalJoin ----------------------------
(***************************************************************************)
(* cmd/join: load-gen's log and fake-upstream's log joined on connection   *)
(* key and local ordinal.  A log is a set of records; records of different *)
(* attempts differ in their "attempt", which the join does not look at.    *)
(***************************************************************************)
EXTENDS Integers, FiniteSets

HTTP1 == "HTTP/1.1"
HTTP2 == "HTTP/2.0"
Refused == "refused"

(* joinKey *)
JoinKey(r) == <<r.conn_key, r.stream_id>>

(* The first loop: only successful HTTP/1.1 records have ordinals to join. *)
IsJoinable(r) == r.protocol = HTTP1 /\ ~r.error

(* A key twice in one log, which is refused on either side. *)
HasDuplicate(records) ==
  \E r, s \in records : r # s /\ JoinKey(r) = JoinKey(s)

Accepts(expected, observed) ==
  /\ \A r \in expected \cup observed : IsJoinable(r)
  /\ ~HasDuplicate(expected)
  /\ ~HasDuplicate(observed)

Joined(expected, observed) ==
  {o \in observed : \E e \in expected : JoinKey(e) = JoinKey(o)}

Matched(expected, observed) ==
  {o \in observed : \E e \in expected : JoinKey(e) = JoinKey(o) /\ e.trace_id = o.trace_id}

(* joinResult: D_acc is matched over every request sent, joined or not. *)
Counts(expected, observed) ==
  [expected |-> Cardinality(expected),
   joined |-> Cardinality(Joined(expected, observed)),
   matched |-> Cardinality(Matched(expected, observed)),
   misses |-> Cardinality(expected) - Cardinality(Joined(expected, observed))]

join(expected, observed) ==
  IF Accepts(expected, observed) THEN Counts(expected, observed) ELSE Refused
=============================================================================
