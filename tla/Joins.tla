-------------------------------- MODULE Joins -------------------------------
(***************************************************************************)
(* The exact joins (correlation/exact.py): observations of the two sides   *)
(* of a hop or a crossing are linked by equal identifiers, each seen once. *)
(*                                                                         *)
(* A signal is a set of identifiers: an authored join has one identifier,  *)
(* an observed one the connection's (exact.py: observed_key).  The value   *)
(* an observation has for a signal is its keys restricted to it, so a      *)
(* value names its key, and an observation stands for its identity.        *)
(***************************************************************************)
EXTENDS Integers, FiniteSets

CONSTANTS
  Observations,  \* the deliveries of the model, see Observation
  Joins          \* the hops and crossings of the topology, see Join

None == "None"

(* An observation and its event time (flow.py: Seen); place is the pair of *)
(* a point and a side.                                                     *)
ASSUME ObservationsAssumption ==
  /\ IsFiniteSet(Observations)
  /\ \A o \in Observations : /\ o.at \in Nat
                             /\ \A k \in DOMAIN o.keys : o.keys[k] # None

(* A join pairs observations at the place up with ones at the place down,  *)
(* by an authored signal, an observed one, or both ({} for neither); a     *)
(* header is never a connection's identifier (topology.py: _hop_ceiling).  *)
ASSUME JoinsAssumption ==
  /\ \A j \in Joins : j.up # j.down
  /\ \A j, h \in Joins : j.authored \cap h.observed = {}
  /\ \A j, h \in Joins : j.where = h.where => j = h

Identity(o) == <<o.source, o.seq>>

Carries(o, signal) == signal # {} /\ signal \subseteq DOMAIN o.keys

ValueOf(o, signal) == [k \in signal |-> o.keys[k]]

AuthoredSignals == {j.authored : j \in Joins} \ {{}}
ObservedSignals == {j.observed : j \in Joins} \ {{}}

(* The values that unite observations in a group: authored and observed. *)
Values ==
  [o \in Observations |->
     {ValueOf(o, s) : s \in {s \in AuthoredSignals \cup ObservedSignals : Carries(o, s)}}]

AuthoredValues(o) == {v \in Values[o] : DOMAIN v \in AuthoredSignals}

(* The observations of O at a place that carry a value. *)
At(O, place, v) == {o \in O : o.place = place /\ v \in Values[o]}

TakesPart(o, j, signal) == o.place \in {j.up, j.down} /\ Carries(o, signal)

LINKED == "LINKED"
COLLIDED == "COLLIDED"
UNLINKED == "UNLINKED"

(* What the join j of the observations O on a signal says of o. *)
Outcome(O, j, signal, o) ==
  LET v == ValueOf(o, signal)
      ups == At(O, j.up, v)
      downs == At(O, j.down, v)
      others == IF o.place = j.up THEN downs ELSE ups
  IN  [kind |-> IF Cardinality(ups) > 1 \/ Cardinality(downs) > 1 THEN COLLIDED
                ELSE IF others # {} THEN LINKED ELSE UNLINKED,
       value |-> v,
       partners |-> others]
=============================================================================
