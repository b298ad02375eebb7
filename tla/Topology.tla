------------------------------ MODULE Topology ------------------------------
(***************************************************************************)
(* correlation/topology.py: a declaration of observation points and hops   *)
(* is read, checked against the rules and given its ceilings, or refused   *)
(* with everything found wrong.  An operator edits the declaration and     *)
(* loads it again.                                                         *)
(*                                                                         *)
(* A table is a record with the fields it declares.  NotText stands for    *)
(* any value of the wrong type, in a list or a table too; -1 for an        *)
(* integer that is malformed or below its minimum.  Refusals are a set:    *)
(* TopologyError sorts them.                                               *)
(***************************************************************************)
EXTENDS Integers, FiniteSets, Sequences, SequencesExt, TLC

CONSTANTS Declarations,   \* the declarations an operator starts from
          Edits,          \* fields an operator may write, and what
          Clocks,         \* clocks a point may be given
          MaxEdits        \* bound: edits of one operator

NotText == "#"
Unset == "unset"          \* Python's None

(* Evidence, in its order. *)
UNRESOLVED == 0
DERIVED == 1
OBSERVED == 2
AUTHORED == 3
Evidence == [unresolved |-> UNRESOLVED, derived |-> DERIVED,
             observed |-> OBSERVED, authored |-> AUTHORED]

HEADERS == <<"request_id", "traceparent">>
CARRIED == {"traceparent", "baggage", "request_id", "message_id"}
IDENTIFIERS == CARRIED \cup {"tuple5", "h2_stream_id", "socket_cookie"}
VISIBILITY == {"kernel", "log", "app", "none"}
PROPAGATORS == {"agent", "app", "proxy"}
RELATIONS == {"call", "async", "fanout"}
NATS == {"none", "snat", "dnat"}
NAT_MAPPINGS == {"none", "conntrack", "logged_both_sides"}

(* PRECISION_NS in microseconds: every entry is a whole number of them. *)
PRECISION_US == [kernel_monotonic |-> 1, precise_sync |-> 10,
                 network_sync |-> 1000, log_ms |-> 1000, log_s |-> 1000000]
SECOND_US == 1000000
D_MAX == 1

POINT_FIELDS == {"host", "visibility", "clock", "timestamps", "inbound",
                 "outbound", "propagates", "sets", "trusts_incoming"}
HOP_FIELDS == {"from", "to", "relation", "nat", "nat_mapping", "pooling",
               "rate", "noise_us", "expect", "max_fanout"}

If(condition, reason) == IF condition THEN {reason} ELSE {}

Refusal(reason, where, key) ==
  [reason |-> reason, where |-> where, key |-> key, missing |-> {}]
-----------------------------------------------------------------------------
(* _Fields: what reading one field of a table refuses. *)
UnknownFields(t, where, allowed) ==
  {Refusal("UNKNOWN_FIELD", where, k) : k \in DOMAIN t \ allowed}

Get(t, key, default) == IF key \in DOMAIN t THEN t[key] ELSE default

text(t, where, key, required) ==
  If(required /\ key \notin DOMAIN t, Refusal("MISSING_FIELD", where, key))
    \cup If(Get(t, key, Unset) = NotText, Refusal("INVALID_VALUE", where, key))

choice(t, where, key, allowed, required) ==
  text(t, where, key, required)
    \cup If(key \in DOMAIN t /\ t[key] \notin allowed \cup {NotText},
            Refusal("UNKNOWN_VALUE", where, key))

(* The value choice returns: the default when it refuses. *)
Chosen(t, key, allowed, default) ==
  IF key \in DOMAIN t /\ t[key] \in allowed THEN t[key] ELSE default

flag(t, where, key) ==
  If(Get(t, key, "true") \notin {"true", "false"}, Refusal("INVALID_VALUE", where, key))

integer(t, where, key, minimum) ==
  If(Get(t, key, minimum) < minimum, Refusal("INVALID_VALUE", where, key))

identifiers(t, where, key, allowed) ==
  LET value == Get(t, key, <<>>)
  IN  IF NotText \in ToSet(value) THEN {Refusal("INVALID_VALUE", where, key)}
      ELSE If(~IsInjective(value), Refusal("INVALID_VALUE", where, key))
           \cup {Refusal("UNKNOWN_IDENTIFIER", where, key) :
                   name \in ToSet(value) \ allowed}

PropagatesRefusals(t, where) ==
  LET table == Get(t, "propagates", <<>>)
      strange == DOMAIN table \ CARRIED
  IN  IF NotText \in DOMAIN table THEN {Refusal("INVALID_VALUE", where, "propagates")}
      ELSE {Refusal("UNKNOWN_IDENTIFIER", where, "propagates") : k \in strange}
           \cup {Refusal("UNKNOWN_VALUE", where, "propagates") :
                   k \in {k \in DOMAIN table \ strange : table[k] \notin PROPAGATORS}}

(* _parse_point: the refusals of a point's table, and the point it declares. *)
PointRefusals(name, t) ==
  LET where == <<name>>
      timed == Chosen(t, "visibility", VISIBILITY, "none") # "none"
  IN  IF NotText \in DOMAIN t THEN {Refusal("INVALID_VALUE", where, "table")}
      ELSE UNION { UnknownFields(t, where, POINT_FIELDS),
                   text(t, where, "host", TRUE),
                   choice(t, where, "visibility", VISIBILITY, TRUE),
                   text(t, where, "clock", timed),
                   choice(t, where, "timestamps", DOMAIN PRECISION_US, timed),
                   identifiers(t, where, "inbound", IDENTIFIERS),
                   identifiers(t, where, "outbound", IDENTIFIERS),
                   identifiers(t, where, "sets", CARRIED),
                   flag(t, where, "trusts_incoming"),
                   PropagatesRefusals(t, where) }

Point(t) ==
  [host |-> t.host, visibility |-> t.visibility,
   clock |-> Get(t, "clock", Unset), timestamps |-> Get(t, "timestamps", Unset),
   inbound |-> ToSet(Get(t, "inbound", <<>>)), outbound |-> ToSet(Get(t, "outbound", <<>>)),
   propagates |-> Get(t, "propagates", <<>>), sets |-> ToSet(Get(t, "sets", <<>>)),
   trusts_incoming |-> Get(t, "trusts_incoming", "true") = "true"]

Where(t) == <<Get(t, "from", "?"), Get(t, "to", "?")>>

(* _parse_hop: known are the names of all points, refused ones included. *)
HopRefusals(t, known) ==
  LET where == Where(t)
      relation == Chosen(t, "relation", RELATIONS, "call")
      fanout == "max_fanout" \in DOMAIN t
  IN  IF NotText \in DOMAIN t THEN {Refusal("INVALID_VALUE", <<>>, "hops")}
      ELSE UNION { UnknownFields(t, where, HOP_FIELDS),
                   {Refusal("MISSING_FIELD", where, k) : k \in {"from", "to"} \ DOMAIN t},
                   {Refusal("UNKNOWN_POINT", where, k) :
                      k \in {k \in {"from", "to"} \cap DOMAIN t : t[k] \notin known}},
                   If("from" \in DOMAIN t /\ where[1] = where[2],
                      Refusal("INVALID_VALUE", where, "to")),
                   choice(t, where, "relation", RELATIONS, FALSE),
                   choice(t, where, "nat", NATS, FALSE),
                   choice(t, where, "nat_mapping", NAT_MAPPINGS, FALSE),
                   flag(t, where, "pooling"),
                   integer(t, where, "rate", 1),
                   integer(t, where, "noise_us", 0),
                   choice(t, where, "expect", DOMAIN Evidence, FALSE),
                   integer(t, where, "max_fanout", 1),
                   If(relation = "fanout" /\ ~fanout,
                      Refusal("FANOUT_UNBOUNDED", where, "max_fanout")),
                   If(relation # "fanout" /\ fanout,
                      Refusal("INVALID_VALUE", where, "max_fanout")) }

Hop(t) ==
  [src |-> t.from, dst |-> t.to, relation |-> Get(t, "relation", "call"),
   nat |-> Get(t, "nat", "none"), nat_mapping |-> Get(t, "nat_mapping", "none"),
   pooling |-> Get(t, "pooling", "false") = "true",
   rate |-> Get(t, "rate", 0), noise_us |-> Get(t, "noise_us", 0),
   expect |-> Evidence[Get(t, "expect", "unresolved")]]
-----------------------------------------------------------------------------
(* _wire_header: the first header both ends of the wire record as it was on it. *)
WireHeaders(src, dst) ==
  SelectSeq(HEADERS, LAMBDA h : /\ h \in src.outbound \cap dst.inbound
                                /\ ~(h \in src.sets /\ src.visibility = "kernel"))

(* What the connection lacks, besides a synchronous relation. *)
ConnectionLacksFirst(hop, both) ==
  IF "tuple5" \notin both THEN {"MISSING_TUPLE5"}
  ELSE If(hop.nat # "none" /\ hop.nat_mapping = "none", "MISSING_NAT_MAPPING")

ConnectionLacks(hop, both) ==
  If("tuple5" \notin both, "MISSING_TUPLE5")
    \cup If(hop.nat # "none" /\ hop.nat_mapping = "none", "MISSING_NAT_MAPPING")
    \cup If(hop.pooling /\ "h2_stream_id" \notin both, "MISSING_STREAM_ID")

(* _missing: for each link kind, the conditions the hop does not meet. *)
_missing(hop, src, dst) ==
  LET both == src.outbound \cap dst.inbound
      async == If(hop.relation = "async", "ASYNC_RELATION")
  IN  [shared_header   |-> If(WireHeaders(src, dst) = <<>>, "NO_SHARED_HEADER"),
       message_key     |-> If(hop.relation # "async" \/ "message_id" \notin both,
                              "NO_MESSAGE_KEY"),
       same_connection |-> async \cup ConnectionLacks(hop, both),
       same_socket     |-> async
                             \cup If("socket_cookie" \notin both, "MISSING_SOCKET_COOKIE")
                             \cup If(src.host # dst.host, "CROSS_HOST_SOCKET"),
       nested_timing   |-> async \cup
                           IF "none" \in {src.visibility, dst.visibility} THEN {"NOT_TIMESTAMPED"}
                           ELSE If(src.clock # dst.clock, "NO_SHARED_CLOCK")]

(* _HOP_LINKS: strongest first. *)
LinksConnectionFirst ==
  <<<<"same_connection", OBSERVED>>, <<"same_socket", OBSERVED>>,
    <<"shared_header", AUTHORED>>, <<"message_key", AUTHORED>>, <<"nested_timing", DERIVED>>>>

_HOP_LINKS ==
  <<<<"shared_header", AUTHORED>>, <<"message_key", AUTHORED>>,
    <<"same_connection", OBSERVED>>, <<"same_socket", OBSERVED>>, <<"nested_timing", DERIVED>>>>

Max2(m, n) == IF m > n THEN m ELSE n

(* _hop_ceiling: density is in millionths, 0 when it is not computed. *)
_hop_ceiling(hop, src, dst) ==
  LET missing == _missing(hop, src, dst)
      holding == SelectSeq(_HOP_LINKS, LAMBDA l : missing[l[1]] = {})
      best == IF holding = <<>> THEN <<"none", UNRESOLVED>> ELSE Head(holding)
      window == Max2(Max2(PRECISION_US[src.timestamps], PRECISION_US[dst.timestamps]),
                     hop.noise_us)
      dense == best[1] = "nested_timing" /\ hop.rate > 0
  IN  [link     |-> best[1],
       evidence |-> best[2],
       density  |-> IF dense THEN hop.rate * window ELSE 0,
       key      |-> CASE best[1] = "shared_header" -> Head(WireHeaders(src, dst))
                      [] best[1] = "message_key" -> "message_id"
                      [] OTHER -> Unset,
       observed |-> IF missing.same_connection # {} \/ hop.nat # "none" THEN {}
                    ELSE {"tuple5"} \cup If(hop.pooling, "h2_stream_id")]

(* _crossing_ceiling: the evidence inside a point. *)
_crossing_ceiling(point) ==
  LET carried == SelectSeq(Append(HEADERS, "message_id"),
                           LAMBDA h : /\ h \in DOMAIN point.propagates
                                      /\ h \in point.inbound \cap point.outbound
                                      /\ h \notin point.sets)
      Ceiling(evidence, link, key) == [evidence |-> evidence, link |-> link, key |-> key]
  IN  CASE carried # <<>> -> Ceiling(AUTHORED, "propagated", Head(carried))
        [] OTHER ->
           CASE point.visibility = "kernel" -> Ceiling(OBSERVED, "inside_process", Unset)
             [] point.visibility \in {"log", "app"} -> Ceiling(DERIVED, "logged_timing", Unset)
             [] OTHER -> Ceiling(UNRESOLVED, "none", Unset)
-----------------------------------------------------------------------------
(* _check_point_rules *)
_check_point_rules(name, point) ==
  LET by_agent == {k \in DOMAIN point.propagates : point.propagates[k] = "agent"}
  IN  If(by_agent # {} /\ point.visibility # "kernel",
         Refusal("AGENT_NOT_PRESENT", <<name>>, "propagates"))
      \cup If("baggage" \in by_agent, Refusal("AGENT_BAGGAGE", <<name>>, "propagates"))
      \cup {Refusal("UNTRUSTED_ENTRY_PROPAGATED", <<name>>, k) :
              k \in {k \in by_agent : ~point.trusts_incoming /\ k \notin point.sets}}

(* _check_hop_rules: a ceiling too low lists what the expected level lacks. *)
_check_hop_rules(hop, ceiling, src, dst) ==
  LET missing == _missing(hop, src, dst)
      expected == SelectSeq(_HOP_LINKS, LAMBDA l : l[2] = hop.expect)
      where == <<hop.src, hop.dst>>
  IN  If(ceiling.density > D_MAX * SECOND_US, Refusal("DENSITY_ABOVE_BOUND", where, "rate"))
      \cup If(ceiling.evidence < hop.expect,
              [Refusal("CEILING_BELOW_EXPECTED", where, "expect")
                 EXCEPT !.missing = UNION {missing[l[1]] : l \in ToSet(expected)}])

(* _parse: the points and the hops that are well formed, and what it refuses. *)
(* No points at all stands for the three ways of declaring none.              *)
_parse(declaration) ==
  LET raw == Get(declaration, "points", <<>>)
      hops == Get(declaration, "hops", <<>>)
      points == {p \in DOMAIN raw : PointRefusals(p, raw[p]) = {}}
      wellFormed == {i \in DOMAIN hops : HopRefusals(hops[i], DOMAIN raw) = {}}
      again == {i \in wellFormed : \E j \in wellFormed : j < i /\ Where(hops[j]) = Where(hops[i])}
  IN  [points |-> [p \in points |-> Point(raw[p])],
       hops |-> [i \in wellFormed \ again |-> Hop(hops[i])],
       refusals |-> UNION ( {UnknownFields(declaration, <<>>, {"points", "hops"}),
                             If(DOMAIN raw = {}, Refusal("INVALID_VALUE", <<>>, "points"))}
                      \cup {PointRefusals(p, raw[p]) : p \in DOMAIN raw}
                      \cup {HopRefusals(hops[i], DOMAIN raw) : i \in DOMAIN hops}
                      \cup {{Refusal("DUPLICATE_HOP", Where(hops[i]), "hops") : i \in again}})]

(* load: everything is read and checked, then refused as a whole or returned. *)
load(declaration) ==
  LET parsed == _parse(declaration)
      P == parsed.points
      H == parsed.hops
      judged == {i \in DOMAIN H : {H[i].src, H[i].dst} \subseteq DOMAIN P}
      ceiling == [i \in judged |-> _hop_ceiling(H[i], P[H[i].src], P[H[i].dst])]
      refusals == parsed.refusals \cup UNION (
                   {_check_point_rules(p, P[p]) : p \in DOMAIN P}
                   \cup {_check_hop_rules(H[i], ceiling[i], P[H[i].src], P[H[i].dst]) : i \in judged})
      crossed == {H[i].src : i \in DOMAIN H} \cap {H[i].dst : i \in DOMAIN H}
  IN  IF refusals # {} THEN [refusals |-> refusals, hops |-> <<>>, crossings |-> <<>>]
      ELSE [refusals |-> {}, hops |-> ceiling,
            crossings |-> [p \in crossed |-> _crossing_ceiling(P[p])]]
-----------------------------------------------------------------------------
VARIABLES declaration, topology, edits

vars == <<declaration, topology, edits>>

Init ==
  /\ declaration \in Declarations
  /\ topology = load(declaration)
  /\ edits = 0

Loaded == topology.refusals = {}

(* The operator has written a declaration and loads it. *)
Reload ==
  /\ edits' = edits + 1
  /\ topology' = load(declaration')

With(t, key, value) == (key :> value) @@ t

(* A field of a point or of a hop is written, with any value of Edits. *)
Write ==
  \E e \in Edits :
    \/ /\ e.at \in DOMAIN declaration.points
       /\ declaration' = [declaration EXCEPT !.points[e.at] = With(@, e.field, e.value)]
    \/ \E i \in DOMAIN declaration.hops :
         /\ e.at = "hop"
         /\ declaration' = [declaration EXCEPT !.hops[i] = With(@, e.field, e.value)]

(* A list of identifiers with some more, each listed once. *)
Listing(t, key, more) ==
  With(t, key, Get(t, key, <<>>) \o SetToSeq(more \ ToSet(Get(t, key, <<>>))))

(* A point records one more identifier, or a translation its mapping. *)
RecordMore ==
  \/ \E p \in DOMAIN declaration.points, key \in {"inbound", "outbound"}, id \in IDENTIFIERS :
       /\ id \notin ToSet(Get(declaration.points[p], key, <<>>))
       /\ declaration' = [declaration EXCEPT !.points[p] = Listing(@, key, {id})]
  \/ \E i \in DOMAIN declaration.hops :
       /\ Get(declaration.hops[i], "nat_mapping", "none") = "none"
       /\ declaration' = [declaration EXCEPT !.hops[i] = With(@, "nat_mapping", "conntrack")]

(* What supplying a missing reason means for the declaration. *)
Supplies ==
  [NO_SHARED_HEADER |-> {"request_id"}, NO_MESSAGE_KEY |-> {"message_id"},
   MISSING_TUPLE5 |-> {"tuple5"}, MISSING_STREAM_ID |-> {"h2_stream_id"},
   MISSING_SOCKET_COOKIE |-> {"socket_cookie"}]

ReasonsOf ==
  [shared_header   |-> {"NO_SHARED_HEADER"},
   message_key     |-> {"NO_MESSAGE_KEY"},
   same_connection |-> {"ASYNC_RELATION", "MISSING_TUPLE5", "MISSING_NAT_MAPPING",
                        "MISSING_STREAM_ID"},
   same_socket     |-> {"ASYNC_RELATION", "MISSING_SOCKET_COOKIE", "CROSS_HOST_SOCKET"},
   nested_timing   |-> {"ASYNC_RELATION", "NOT_TIMESTAMPED", "NO_SHARED_CLOCK"}]

Refused(where) ==
  {r \in topology.refusals : r.reason = "CEILING_BELOW_EXPECTED" /\ r.where = where}

(* A point that saw nothing gets timestamps, on the clock it declares or   *)
(* on a clock of its own.                                                   *)
Timestamped(t, own) ==
  IF t.visibility # "none" THEN t
  ELSE With(With(With(t, "visibility", "log"), "timestamps", Get(t, "timestamps", "log_ms")),
            "clock", Get(t, "clock", own))

(* The operator supplies, for one link kind of the expected level, all that *)
(* the refusal of a hop lists as missing, and nothing else.                 *)
Answer(i, kind, own) ==
  LET t == declaration.hops[i]
      P == declaration.points
      M == (UNION {r.missing : r \in Refused(Where(t))}) \cap ReasonsOf[kind]
      ids == UNION {Supplies[m] : m \in M \cap DOMAIN Supplies}
      Timed(p) == IF "NOT_TIMESTAMPED" \in M THEN Timestamped(p, own) ELSE p
      Clocked(p) == IF "NO_SHARED_CLOCK" \in M THEN With(p, "clock", P[t.from].clock) ELSE p
      Kept(p) == IF "NO_SHARED_HEADER" \notin M THEN p
                 ELSE With(p, "sets", Remove(Get(p, "sets", <<>>), "request_id"))
      Moved(p) == IF "CROSS_HOST_SOCKET" \in M THEN With(p, "host", P[t.from].host) ELSE p
      Related(h) ==
        CASE "NO_MESSAGE_KEY" \in M ->
               With([k \in DOMAIN h \ {"max_fanout"} |-> h[k]], "relation", "async")
          [] "ASYNC_RELATION" \in M -> With(h, "relation", "call")
          [] OTHER -> h
      Mapped(h) == IF "MISSING_NAT_MAPPING" \in M THEN With(h, "nat_mapping", "conntrack") ELSE h
  IN  /\ Refused(Where(t)) # {}
      /\ Evidence[t.expect] = OBSERVED => kind \in {"same_connection", "same_socket"}
      /\ Evidence[t.expect] = AUTHORED => kind \in {"shared_header", "message_key"}
      /\ Evidence[t.expect] = DERIVED => kind = "nested_timing"
      /\ \A j \in DOMAIN declaration.hops : Where(declaration.hops[j]) = Where(t) => j = i
      /\ declaration' = [declaration EXCEPT
           !.points[t.from] = Timed(Kept(Listing(@, "outbound", ids))),
           !.points[t.to] = Timed(Clocked(Moved(Listing(@, "inbound", ids)))),
           !.hops[i] = Mapped(Related(@))]

Edit ==
  \/ Write
  \/ RecordMore
  \/ \E i \in DOMAIN declaration.hops, kind \in DOMAIN ReasonsOf, own \in Clocks :
       Answer(i, kind, own)

Next == edits < MaxEdits /\ Edit /\ Reload

Spec == Init /\ [][Next]_vars
-----------------------------------------------------------------------------
(* A declaration that loads still loads when a point records one more       *)
(* identifier or a translation its mapping, and no ceiling of a hop or of a *)
(* crossing drops: the links are tried strongest first (_hop_ceiling,       *)
(* _crossing_ceiling) and the rules refuse nothing for being recorded.      *)
RecordingNeverHurts ==
  [][ Loaded /\ RecordMore =>
        /\ Loaded'
        /\ \A i \in DOMAIN topology.hops : topology.hops[i].evidence <= topology'.hops[i].evidence
        /\ \A p \in DOMAIN topology.crossings :
             topology.crossings[p].evidence <= topology'.crossings[p].evidence ]_vars

(* A CEILING_BELOW_EXPECTED refusal lists what to fix, not the first thing  *)
(* found: once all it lists for one link kind is supplied, that hop is      *)
(* refused for nothing but its density.  The elif of _missing makes one     *)
(* exception: while an end has no timestamps its clock is not compared, and *)
(* of a hop that lacked them a shared clock, and nothing else, may be       *)
(* missing then.  Its answer is enough: two answers settle a hop.           *)
AnswersSettle ==
  [][ \A i \in DOMAIN declaration.hops, kind \in DOMAIN ReasonsOf, own \in Clocks :
        Answer(i, kind, own) =>
          \A r \in topology'.refusals :
            r.where = Where(declaration.hops[i]) =>
              \/ r.reason = "DENSITY_ABOVE_BOUND"
              \/ /\ r.missing = {"NO_SHARED_CLOCK"}
                 /\ \E q \in Refused(r.where) : "NOT_TIMESTAMPED" \in q.missing ]_vars
=============================================================================
