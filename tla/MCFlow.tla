------------------------------- MODULE MCFlow -------------------------------
(***************************************************************************)
(* The flow on small topologies and catalogues of observations.            *)
(***************************************************************************)
EXTENDS Flow

Obs(source, seq, at, place, keys) ==
  [source |-> source, seq |-> seq, at |-> at, place |-> place, keys |-> keys]

OUT == "out"     \* ("a", "outbound")
IN_B == "in"     \* ("b", "inbound")
OUT_B == "next"  \* ("b", "outbound")

Hop(authored, observed) ==
  [where |-> "a -> b", up |-> OUT, down |-> IN_B, authored |-> authored, observed |-> observed]

Crossing(authored) ==
  [where |-> "b", up |-> IN_B, down |-> OUT_B, authored |-> authored, observed |-> {}]

Id(v) == [id |-> v]
Conn(c) == [conn |-> c]
Both(v, c) == [id |-> v, conn |-> c]

(* A hop and a crossing on one identifier, one value repeated. *)
CrowdJoins == {Hop({"id"}, {}), Crossing({"id"})}

CrowdObservations == {
  Obs("s", 0, 0, OUT, Id("v")), Obs("s", 1, 1, OUT, Id("v")),
  Obs("s", 2, 3, IN_B, Id("v")), Obs("s", 3, 3, OUT, Id("v")),
  Obs("s", 4, 5, OUT_B, Id("v")), Obs("s", 5, 6, IN_B, Id("v")),
  Obs("s", 6, 4, OUT, Id("w")), Obs("s", 7, 9, OUT, Id("v"))}

(* A connection that comes back, on the sources of its two ends, signals   *)
(* that agree, disagree or miss an end, and an identity with two contents  *)
(* (source b, 2).                                                          *)
ReturnJoins == {Hop({"id"}, {"conn"}), Crossing({"id"})}

ReturnObservations == {
  Obs("a", 0, 0, OUT, Conn("c")), Obs("b", 0, 1, IN_B, Conn("c")),
  Obs("a", 1, 3, OUT, Conn("c")), Obs("b", 1, 4, IN_B, Both("v", "c")),
  Obs("b", 2, 2, OUT_B, Id("v")), Obs("b", 2, 2, OUT_B, Id("w")),
  Obs("a", 2, 3, OUT, Both("v", "d")), Obs("b", 3, 3, IN_B, Both("v", "d"))}
=============================================================================
