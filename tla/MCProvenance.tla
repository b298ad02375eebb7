---------------------------- MODULE MCProvenance ----------------------------
(***************************************************************************)
(* Two clients, two payloads of one source, and the adapter results: one   *)
(* with two records, one that shares a record with it, and one with a      *)
(* record create would refuse.                                             *)
(***************************************************************************)
EXTENDS Provenance, TLC

CONSTANTS a, b, bank, p1, p2, good, ill, v1, v2

ProvenanceClients == {a, b}
r1 == create(RawId(bank, p1), good)
r2 == create(RawId(bank, p2), good)
ProvenanceBatches == {<<r1, r2>>, <<r2>>, <<r2, create(RawId(bank, p1), ill)>>}
ProvenanceInputs == {<<{r1.id}, {r2.id}>>, <<{r2.id}, {}>>, <<{r2.id}, {r2.id}>>}
Symmetric == Permutations(ProvenanceClients)
=============================================================================
