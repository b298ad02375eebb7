----------------------------- MODULE FlowProofs -----------------------------
(***************************************************************************)
(* Proofs about Flow, for every topology, every catalogue of observations  *)
(* and every setting of the flow: what is final stays, what is open is up  *)
(* to date, every observation gets one proof, a closed group misses nobody *)
(* who is on time, and what is said of those that left is what the joins   *)
(* say of everything at once.                                              *)
(*                                                                         *)
(* An entry is processed in two parts, and so is the invariant proved: its *)
(* parts are stated for any values of the variables, since _evaluate       *)
(* leaves them true of values that _settle then starts from.               *)
(***************************************************************************)
EXTENDS Flow, FiniteSetTheorems, WellFoundedInduction, TLAPS

(* The queue, the settled and the open ones are among those seen. *)
SetsNest(S, O, Q, I) == S \subseteq Observations /\ O \subseteq S /\ Q \subseteq O /\ I \subseteq O

(* A crowd is a value of the authored signal of a join. *)
CrowdsAreAuthored(C) ==
  \A c \in C : \E j \in Joins : c = <<c[1], j.where>> /\ j.authored # {} /\ DOMAIN c[1] = j.authored

SettledAreDecided(I, C) == \A x \in I : Decided(x, C)

ToldIn(cur, o) ==
  <<Nowhere, o>> \in DOMAIN cur /\ cur[<<Nowhere, o>>].proposal.kind \in {LATE, VALUE_AFTER_FINAL}

(* The business keys are those of observations seen, all those of the open *)
(* ones among them, and only these are provisional.                        *)
KeysAreKnown(S, O, cur) ==
  /\ \A k \in DOMAIN cur : /\ k = <<k[1], k[2]>> /\ k[2] \in S
                           /\ k[2] \in O => k \in BusinessKeys({k[2]})
  /\ \A o \in O : BusinessKeys({o}) \subseteq DOMAIN cur /\ ~ ToldIn(cur, o)

OpenIsProvisional(O, cur) ==
  \A k \in DOMAIN cur : cur[k].status = PROVISIONAL <=> k[2] \in O

(* Partners are decided together; those of an open one share a value with  *)
(* it, and neither is settled.                                             *)
PartnersGoTogether(O, I, cur) ==
  \A k \in DOMAIN cur : \A x \in cur[k].proposal.partners :
    /\ <<k[1], x>> \in DOMAIN cur
    /\ cur[<<k[1], x>>].status = cur[k].status
    /\ k[2] \in O => x \in O \ I /\ k[2] \notin I /\ Shares(k[2], x)

(* One proof for every observation that is neither open nor told. *)
HasOneProof(o, cur, D) ==
  \E d \in D : /\ o \in d.observations
               /\ \A e \in D : o \in e.observations => e = d
               /\ \A k \in DOMAIN cur : k[2] = o => cur[k].status = d.finality

ProofsAreUnique(S, O, cur, D) ==
  /\ \A d \in D : \A o \in d.observations : o \in S \ O /\ ~ ToldIn(cur, o)
  /\ \A o \in S \ O : ToldIn(cur, o) \/ HasOneProof(o, cur, D)

UpToDate(O, C, cur) ==
  \A k \in BusinessKeys(O) :
    cur[k] = Decision(Proposal(O, C, JoinAt(k[1]), k[2]), PROVISIONAL)

(* The clocks: bounded, and the first event time is not after any seen. *)
ClocksAreSane(S, p, f) ==
  /\ p \in [Sources -> Nat \cup {NoTime}] /\ f \in Nat \cup {NoTime}
  /\ \A o \in S : f # NoTime /\ f <= o.at
  /\ \E n \in Nat : f <= n /\ \A s \in Sources : p[s] <= n
  /\ \A s \in Sources : p[s] # NoTime => f # NoTime

(* Every source has passed the window of those that closed unforced. *)
ClosedArePassed(O, D, p) ==
  \A d \in D : d.finality = FINAL /\ d.cites = {} =>
    \A x \in d.observations :
      /\ \A s \in Sources : p[s] # NoTime /\ x.at + Window + Lateness < p[s]
      /\ \A y \in O : Shares(x, y) => y.at > x.at + Window

Inv(S, O, Q, I, C, cur, D, p, f) ==
  /\ SetsNest(S, O, Q, I)
  /\ CrowdsAreAuthored(C)
  /\ SettledAreDecided(I, C)
  /\ KeysAreKnown(S, O, cur)
  /\ OpenIsProvisional(O, cur)
  /\ PartnersGoTogether(O, I, cur)
  /\ ProofsAreUnique(S, O, cur, D)
  /\ UpToDate(O, C, cur)
  /\ ClocksAreSane(S, p, f)
  /\ ClosedArePassed(O, D, p)

FlowInv == Inv(seen, open, pending, settled, crowded, current, dossiers, progress, first_at)
-----------------------------------------------------------------------------
(* Values and groups *)

LEMMA SharesIsSymmetric ==
  ASSUME NEW x, NEW y, Shares(x, y)
  PROVE  Shares(y, x)
BY DEF Shares

(* A value names its signal, which its holder carries. *)
LEMMA ValueFacts ==
  ASSUME NEW x \in Observations, NEW v \in Values[x]
  PROVE  v = ValueOf(x, DOMAIN v) /\ Carries(x, DOMAIN v)
<1>1. PICK s \in AuthoredSignals \cup ObservedSignals : Carries(x, s) /\ v = ValueOf(x, s)
  BY DEF Values
<1>2. DOMAIN v = s
  BY <1>1 DEF ValueOf
<1> QED
  BY <1>1, <1>2

LEMMA SignalIsValue ==
  ASSUME NEW x \in Observations, NEW j \in Joins, NEW s \in {j.authored, j.observed}, Carries(x, s)
  PROVE  ValueOf(x, s) \in Values[x] /\ DOMAIN ValueOf(x, s) = s
<1>1. s # {}
  BY DEF Carries
<1>2. s \in AuthoredSignals \cup ObservedSignals
  BY <1>1 DEF AuthoredSignals, ObservedSignals
<1> QED
  BY <1>2 DEF Values, ValueOf

ClosedSets(O) == {S \in SUBSET O : \A x \in S, y \in O : Shares(x, y) => y \in S}

LEMMA GroupDef ==
  ASSUME NEW O \in SUBSET Observations, NEW x \in O
  PROVE  Group[O][x] = {y \in O : \A S \in ClosedSets(O) : x \in S => y \in S}
BY DEF Group, ClosedSets

(* Groups partition the observations, and sharing stays inside them. *)
LEMMA GroupFacts ==
  ASSUME NEW O \in SUBSET Observations, NEW x \in O
  PROVE  /\ x \in Group[O][x] /\ Group[O][x] \subseteq O
         /\ \A y \in Group[O][x], z \in O : Shares(y, z) => z \in Group[O][x]
         /\ \A y \in Group[O][x] : Group[O][y] = Group[O][x]
<1> DEFINE G(a) == {y \in O : \A S \in ClosedSets(O) : a \in S => y \in S}
<1>0. \A a \in O : Group[O][a] = G(a)
  BY GroupDef
<1>1. x \in G(x) /\ G(x) \subseteq O
  OBVIOUS
<1>2. ASSUME NEW y \in G(x), NEW z \in O, Shares(y, z)
      PROVE  z \in G(x)
  BY <1>2 DEF ClosedSets
<1>3. ASSUME NEW y \in G(x)
      PROVE  G(y) = G(x)
  <2>1. ASSUME NEW S \in ClosedSets(O), y \in S, x \notin S
        PROVE  FALSE
    <3>1. O \ S \in ClosedSets(O)
      BY <2>1, SharesIsSymmetric DEF ClosedSets
    <3>2. y \in O \ S
      BY <1>3, <2>1, <3>1
    <3> QED
      BY <2>1, <3>2
  <2> QED
    BY <1>3, <2>1
<1> HIDE DEF G
<1> QED
  BY <1>0, <1>1, <1>2, <1>3
-----------------------------------------------------------------------------
(* Proposals *)

(* A settled observation is out of every open question of a join. *)
Undecided(C, j, v) ==
  \/ DOMAIN v = j.authored /\ j.authored # {} /\ <<v, j.where>> \notin C
  \/ DOMAIN v = j.observed /\ j.observed # {}

LEMMA CrowdedIsDecided ==
  ASSUME NEW C, CrowdsAreAuthored(C), NEW j \in Joins, NEW v, NEW w, <<v, w>> \in C,
         DOMAIN v = j.observed, j.observed # {}
  PROVE  FALSE
<1> DEFINE c == <<v, w>>
<1>1. c \in C /\ c[1] = v
  OBVIOUS
<1> HIDE DEF c
<1>2. PICK h \in Joins : h.authored # {} /\ DOMAIN c[1] = h.authored
  BY <1>1 DEF CrowdsAreAuthored
<1>3. h.authored \cap j.observed = {}
  BY JoinsAssumption
<1> QED
  BY <1>1, <1>2, <1>3

LEMMA SettledIsAside ==
  ASSUME NEW C, CrowdsAreAuthored(C), NEW y \in Observations, Decided(y, C),
         NEW j \in Joins, y.place \in {j.up, j.down}, NEW v \in Values[y], Undecided(C, j, v)
  PROVE  FALSE
<1>1. PICK u : /\ Values[y] = {u}
               /\ \E w \in {h.where : h \in Joins} : <<u, w>> \in C
               /\ \A h \in JoinsOf(y) : <<u, h.where>> \in C
  BY DEF Decided
<1>2. u = v
  BY <1>1
<1>3. Carries(y, DOMAIN v)
  BY ValueFacts
<1>4. CASE DOMAIN v = j.authored /\ <<v, j.where>> \notin C
  <2>1. j \in JoinsOf(y)
    BY <1>3, <1>4 DEF JoinsOf, TakesPart
  <2> QED
    BY <1>1, <1>2, <1>4, <2>1
<1>5. CASE DOMAIN v = j.observed /\ j.observed # {}
  BY <1>1, <1>2, <1>5, CrowdedIsDecided
<1> QED
  BY <1>4, <1>5 DEF Undecided

(* What a proposal depends on: the crowds of its observation's values at   *)
(* this join and, where there is none, the unsettled holders.              *)
LEMMA ProposalKeeps ==
  ASSUME NEW x \in Observations, NEW j \in Joins,
         NEW O1 \in SUBSET Observations, NEW O2 \in SUBSET Observations, NEW C1, NEW C2,
         CrowdsAreAuthored(C1),
         \A v \in Values[x] : <<v, j.where>> \in C1 <=> <<v, j.where>> \in C2,
         \A y \in (O1 \ O2) \cup (O2 \ O1) : \A v \in Values[x] \cap Values[y] :
           Decided(y, C1) \/ <<v, j.where>> \in C1
  PROVE  Proposal(O1, C1, j, x) = Proposal(O2, C2, j, x)
<1>1. ASSUME NEW v \in Values[x], Undecided(C1, j, v), NEW q \in {j.up, j.down}
      PROVE  At(O1, q, v) = At(O2, q, v)
  <2>0. <<v, j.where>> \notin C1
    BY <1>1, CrowdedIsDecided DEF Undecided
  <2>1. ASSUME NEW y \in (O1 \ O2) \cup (O2 \ O1), y.place = q, v \in Values[y]
        PROVE  FALSE
    <3>1. Decided(y, C1)
      BY <1>1, <2>0, <2>1
    <3>2. y \in Observations /\ y.place \in {j.up, j.down}
      BY <1>1, <2>1
    <3> QED
      BY <1>1, <2>1, <3>1, <3>2, SettledIsAside
  <2> QED
    BY <2>1 DEF At
<1>2. AuthoredOutcome(O1, C1, j, x) = AuthoredOutcome(O2, C2, j, x)
  <2>1. CASE ~ TakesPart(x, j, j.authored)
    BY <2>1 DEF AuthoredOutcome
  <2>2. CASE TakesPart(x, j, j.authored)
    <3> DEFINE v == ValueOf(x, j.authored)
    <3>1. v \in Values[x] /\ DOMAIN v = j.authored /\ j.authored # {}
      BY <2>2, SignalIsValue DEF TakesPart, Carries
    <3>2. CASE <<v, j.where>> \in C1
      BY <2>2, <3>1, <3>2 DEF AuthoredOutcome
    <3>3. CASE <<v, j.where>> \notin C1
      <4>1. Undecided(C1, j, v)
        BY <3>1, <3>3 DEF Undecided
      <4> HIDE DEF v
      <4>2. At(O1, j.up, v) = At(O2, j.up, v) /\ At(O1, j.down, v) = At(O2, j.down, v)
        BY <1>1, <3>1, <4>1
      <4>3. Outcome(O1, j, j.authored, x) = Outcome(O2, j, j.authored, x)
        BY <4>2 DEF Outcome, v
      <4>4. <<v, j.where>> \notin C2
        BY <3>1, <3>3
      <4> QED
        BY <2>2, <3>3, <4>3, <4>4 DEF AuthoredOutcome, v
    <3> QED
      BY <3>2, <3>3
  <2> QED
    BY <2>1, <2>2
<1>3. ObservedOutcome(O1, j, x) = ObservedOutcome(O2, j, x)
  <2>1. CASE ~ TakesPart(x, j, j.observed)
    BY <2>1 DEF ObservedOutcome
  <2>2. CASE TakesPart(x, j, j.observed)
    <3> DEFINE v == ValueOf(x, j.observed)
    <3>1. v \in Values[x] /\ DOMAIN v = j.observed /\ j.observed # {}
      BY <2>2, SignalIsValue DEF TakesPart, Carries
    <3> HIDE DEF v
    <3>2. Undecided(C1, j, v)
      BY <3>1 DEF Undecided
    <3>3. At(O1, j.up, v) = At(O2, j.up, v) /\ At(O1, j.down, v) = At(O2, j.down, v)
      BY <1>1, <3>1, <3>2
    <3>4. Outcome(O1, j, j.observed, x) = Outcome(O2, j, j.observed, x)
      BY <3>3 DEF Outcome, v
    <3> QED
      BY <2>2, <3>4 DEF ObservedOutcome
  <2> QED
    BY <2>1, <2>2
<1> QED
  BY <1>2, <1>3 DEF Proposal

LEMMA ToldFacts ==
  ASSUME NEW outcome, NEW evidence, NEW corroboration, NEW missing, NEW partners
  PROVE  /\ Told(outcome, evidence, corroboration, missing).partners = outcome.partners
         /\ Told(outcome, evidence, corroboration, missing).kind = outcome.kind
         /\ Plain(outcome).partners = outcome.partners
         /\ Plain(outcome).kind = outcome.kind
         /\ Conflicted(outcome, partners, corroboration).partners = partners
         /\ Conflicted(outcome, partners, corroboration).kind = CONFLICTED
BY DEF Told, Plain, Conflicted

LEMMA OneSignalFacts ==
  ASSUME NEW o, NEW outcome, NEW evidence, NEW other
  PROVE  /\ OneSignal(o, outcome, evidence, other).partners = outcome.partners
         /\ OneSignal(o, outcome, evidence, other).kind \in {outcome.kind, CONFLICTED}
<1> DEFINE missing == {x \in {o} \cup outcome.partners : ~ Carries(x, other)}
<1>1. OneSignal(o, outcome, evidence, other) =
        IF missing # {} THEN Told(outcome, evidence, SIGNAL_ABSENT, missing)
        ELSE Conflicted(outcome, outcome.partners, SIGNAL_UNMATCHED)
  BY DEF OneSignal
<1> HIDE DEF missing
<1>2. CASE missing # {}
  BY <1>1, <1>2, ToldFacts
<1>3. CASE missing = {}
  BY <1>1, <1>3, ToldFacts
<1> QED
  BY <1>2, <1>3

(* A hop with two signals names partners that one of them named. *)
LEMMA CombinedFacts ==
  ASSUME NEW j, NEW o, NEW a, NEW b
  PROVE  /\ Combined(j, o, a, b).partners \subseteq a.partners \cup b.partners
         /\ Combined(j, o, a, b).kind \in {a.kind, b.kind, CONFLICTED}
<1> DEFINE none == {UNLINKED, None}
<1> USE DEF COLLIDED, LINKED, UNLINKED, None
<1>1. CASE a.kind = COLLIDED
  <2>1. Combined(j, o, a, b) = Plain(a)
    BY <1>1 DEF Combined
  <2> QED
    BY <2>1, ToldFacts
<1>2. CASE a.kind # COLLIDED /\ b.kind = COLLIDED
  <2>1. Combined(j, o, a, b) = Plain(b)
    BY <1>2 DEF Combined
  <2> QED
    BY <2>1, ToldFacts
<1>3. CASE a.kind = LINKED /\ b.kind = LINKED
  <2>1. Combined(j, o, a, b) = IF a.partners = b.partners THEN Told(a, AUTHORED, CORROBORATED, {})
                               ELSE Conflicted(a, a.partners \cup b.partners, SIGNAL_OTHER_PARTNER)
    BY <1>3 DEF Combined
  <2>2. CASE a.partners = b.partners
    BY <2>1, <2>2, ToldFacts
  <2>3. CASE a.partners # b.partners
    BY <2>1, <2>3, ToldFacts
  <2> QED
    BY <2>2, <2>3
<1>4. CASE a.kind = LINKED /\ b.kind \in none
  <2>1. Combined(j, o, a, b) = OneSignal(o, a, AUTHORED, j.observed)
    BY <1>4 DEF Combined
  <2> QED
    BY <2>1, OneSignalFacts
<1>5. CASE b.kind = LINKED /\ a.kind \in none
  <2>1. Combined(j, o, a, b) = OneSignal(o, b, OBSERVED, j.authored)
    BY <1>5 DEF Combined
  <2> QED
    BY <2>1, OneSignalFacts
<1>6. CASE /\ a.kind # COLLIDED /\ b.kind # COLLIDED
           /\ ~ (a.kind = LINKED /\ b.kind \in none \cup {LINKED})
           /\ ~ (b.kind = LINKED /\ a.kind \in none \cup {LINKED})
  <2>1. Combined(j, o, a, b) = Plain(IF a.kind # None THEN a ELSE b)
    BY <1>6 DEF Combined
  <2>2. CASE a.kind # None
    BY <2>1, <2>2, ToldFacts
  <2>3. CASE a.kind = None
    BY <2>1, <2>3, ToldFacts
  <2> QED
    BY <2>2, <2>3
<1> QED
  BY <1>1, <1>2, <1>3, <1>4, <1>5, <1>6

(* The partners of a signal: at the other end, with a value of it that the *)
(* crowds leave open.                                                      *)
IsPartner(x, G, C, j, o) ==
  /\ x \in G /\ x.place \in {j.up, j.down}
  /\ \E v \in Values[o] \cap Values[x] : Undecided(C, j, v)

JoinKinds == {None, COLLIDED, LINKED, UNLINKED, CONFLICTED}

LEMMA OutcomeFacts ==
  ASSUME NEW G \in SUBSET Observations, NEW C, NEW j \in Joins, NEW o \in G
  PROVE  /\ \A x \in AuthoredOutcome(G, C, j, o).partners : IsPartner(x, G, C, j, o)
         /\ \A x \in ObservedOutcome(G, j, o).partners : IsPartner(x, G, C, j, o)
         /\ AuthoredOutcome(G, C, j, o).kind \in JoinKinds
         /\ ObservedOutcome(G, j, o).kind \in JoinKinds
<1>1. NoOutcome.partners = {} /\ NoOutcome.kind \in JoinKinds
  BY DEF NoOutcome, JoinKinds
<1>2. ASSUME NEW s \in {j.authored, j.observed}, Carries(o, s), Undecided(C, j, ValueOf(o, s))
      PROVE  /\ \A x \in Outcome(G, j, s, o).partners : IsPartner(x, G, C, j, o)
             /\ Outcome(G, j, s, o).kind \in JoinKinds
  <2> DEFINE v == ValueOf(o, s)
  <2>1. v \in Values[o]
    BY <1>2, SignalIsValue
  <2>2. Outcome(G, j, s, o).partners \in {At(G, j.up, v), At(G, j.down, v)}
    BY DEF Outcome
  <2>3. Outcome(G, j, s, o).kind \in {COLLIDED, LINKED, UNLINKED}
    BY DEF Outcome
  <2>4. Undecided(C, j, v)
    BY <1>2
  <2> HIDE DEF v
  <2> QED
    BY <2>1, <2>2, <2>3, <2>4 DEF At, IsPartner, JoinKinds
<1>3. /\ \A x \in AuthoredOutcome(G, C, j, o).partners : IsPartner(x, G, C, j, o)
      /\ AuthoredOutcome(G, C, j, o).kind \in JoinKinds
  <2> DEFINE v == ValueOf(o, j.authored)
             c == [kind |-> COLLIDED, value |-> v, partners |-> {}]
  <2>1. CASE ~ TakesPart(o, j, j.authored)
    BY <1>1, <2>1 DEF AuthoredOutcome
  <2>2. CASE TakesPart(o, j, j.authored) /\ <<v, j.where>> \in C
    <3>1. AuthoredOutcome(G, C, j, o) = c
      BY <2>2 DEF AuthoredOutcome
    <3>2. c.partners = {} /\ c.kind = COLLIDED
      OBVIOUS
    <3> QED
      BY <3>1, <3>2 DEF JoinKinds
  <2>3. CASE TakesPart(o, j, j.authored) /\ <<v, j.where>> \notin C
    <3>1. AuthoredOutcome(G, C, j, o) = Outcome(G, j, j.authored, o)
      BY <2>3 DEF AuthoredOutcome
    <3>2. Carries(o, j.authored) /\ Undecided(C, j, v)
      BY <2>3, SignalIsValue DEF TakesPart, Carries, Undecided
    <3> QED
      BY <1>2, <3>1, <3>2
  <2> QED
    BY <2>1, <2>2, <2>3
<1>4. /\ \A x \in ObservedOutcome(G, j, o).partners : IsPartner(x, G, C, j, o)
      /\ ObservedOutcome(G, j, o).kind \in JoinKinds
  <2>1. CASE ~ TakesPart(o, j, j.observed)
    BY <1>1, <2>1 DEF ObservedOutcome
  <2>2. CASE TakesPart(o, j, j.observed)
    <3>1. ObservedOutcome(G, j, o) = Outcome(G, j, j.observed, o)
      BY <2>2 DEF ObservedOutcome
    <3>2. Carries(o, j.observed) /\ Undecided(C, j, ValueOf(o, j.observed))
      BY <2>2, SignalIsValue DEF TakesPart, Carries, Undecided
    <3> QED
      BY <1>2, <3>1, <3>2
  <2> QED
    BY <2>1, <2>2
<1> QED
  BY <1>3, <1>4

LEMMA ProposalFacts ==
  ASSUME NEW G \in SUBSET Observations, NEW C, NEW j \in Joins, NEW o \in G
  PROVE  /\ \A x \in Proposal(G, C, j, o).partners : IsPartner(x, G, C, j, o)
         /\ Proposal(G, C, j, o).kind \in JoinKinds
<1> DEFINE a == AuthoredOutcome(G, C, j, o)
           b == ObservedOutcome(G, j, o)
<1>1. /\ \A x \in a.partners \cup b.partners : IsPartner(x, G, C, j, o)
      /\ a.kind \in JoinKinds /\ b.kind \in JoinKinds
  BY OutcomeFacts
<1>2. Proposal(G, C, j, o) = IF j.authored # {} /\ j.observed # {} THEN Combined(j, o, a, b)
                             ELSE Single(j, IF j.authored # {} THEN a ELSE b)
  BY DEF Proposal
<1> HIDE DEF a, b
<1>3. ASSUME NEW q
      PROVE  Single(j, q).partners = q.partners /\ Single(j, q).kind = q.kind
  <2>1. CASE q.kind # LINKED
    BY <2>1, ToldFacts DEF Single
  <2>2. CASE q.kind = LINKED
    <3>1. \E evidence : Single(j, q) = Told(q, evidence, None, {})
      BY <2>2 DEF Single
    <3> QED
      BY <3>1, ToldFacts
  <2> QED
    BY <2>1, <2>2
<1>4. /\ Combined(j, o, a, b).partners \subseteq a.partners \cup b.partners
      /\ Combined(j, o, a, b).kind \in {a.kind, b.kind, CONFLICTED}
  BY CombinedFacts
<1>5. CASE j.authored # {} /\ j.observed # {}
  BY <1>1, <1>2, <1>4, <1>5 DEF JoinKinds
<1>6. CASE j.authored = {}
  BY <1>1, <1>2, <1>3, <1>6
<1>7. CASE j.authored # {} /\ j.observed = {}
  BY <1>1, <1>2, <1>3, <1>7
<1> QED
  BY <1>5, <1>6, <1>7

(* A partner takes part in the join too. *)
LEMMA PartnerJoins ==
  ASSUME NEW G \in SUBSET Observations, NEW C, NEW j \in Joins, NEW o \in G, NEW x,
         IsPartner(x, G, C, j, o)
  PROVE  x \in G /\ Shares(o, x) /\ j \in JoinsOf(x)
<1>1. PICK v \in Values[o] \cap Values[x] : Undecided(C, j, v)
  BY DEF IsPartner
<1>2. Carries(x, DOMAIN v)
  BY <1>1, ValueFacts DEF IsPartner
<1>3. DOMAIN v \in {j.authored, j.observed}
  BY <1>1 DEF Undecided
<1> QED
  BY <1>1, <1>2, <1>3 DEF IsPartner, Shares, JoinsOf, TakesPart

LEMMA KeyFacts ==
  ASSUME NEW O \in SUBSET Observations
  PROVE  \A k \in BusinessKeys(O) :
           /\ k = <<k[1], k[2]>> /\ k[2] \in O /\ k \in BusinessKeys({k[2]})
           /\ JoinAt(k[1]) \in JoinsOf(k[2]) /\ JoinAt(k[1]).where = k[1]
<1> SUFFICES ASSUME NEW k \in BusinessKeys(O)
             PROVE  /\ k = <<k[1], k[2]>> /\ k[2] \in O /\ k \in BusinessKeys({k[2]})
                    /\ JoinAt(k[1]) \in JoinsOf(k[2]) /\ JoinAt(k[1]).where = k[1]
  OBVIOUS
<1>1. PICK o \in O : \E j \in JoinsOf(o) : k = <<j.where, o>>
  BY DEF BusinessKeys
<1>0. PICK j \in JoinsOf(o) : k = <<j.where, o>>
  BY <1>1
<1>2. k[1] = j.where /\ k[2] = o /\ k = <<k[1], k[2]>>
  BY <1>0
<1>3. j \in Joins
  BY <1>0 DEF JoinsOf
<1>4. JoinAt(j.where) = j
  BY <1>3, JoinsAssumption DEF JoinAt
<1>5. k \in BusinessKeys({o})
  BY <1>1 DEF BusinessKeys
<1> QED
  BY <1>1, <1>2, <1>4, <1>5

LEMMA KeyOfJoin ==
  ASSUME NEW O, NEW o \in O, NEW j \in JoinsOf(o)
  PROVE  <<j.where, o>> \in BusinessKeys(O) /\ <<j.where, o>> \in BusinessKeys({o})
BY DEF BusinessKeys

LEMMA KeysOfOne ==
  ASSUME NEW O, NEW o \in O
  PROVE  BusinessKeys({o}) \subseteq BusinessKeys(O)
BY DEF BusinessKeys
-----------------------------------------------------------------------------
(* The watermark *)

(* A non-empty set of naturals has a least element. *)
LEMMA LeastNatural ==
  ASSUME NEW T \in SUBSET Nat, T # {}
  PROVE  \E n \in T : \A m \in T : n <= m
<1>1. PICK n \in T : \A m \in T : ~ (<<m, n>> \in OpToRel(<, Nat))
  BY WFMin, NatLessThanWellFounded
<1>2. ASSUME NEW m \in T
      PROVE  n <= m
  <2> DEFINE q == <<m, n>>
  <2>1. q \in Nat \X Nat /\ q[1] = m /\ q[2] = n
    BY <1>2
  <2>2. q \notin {ss \in Nat \X Nat : ss[1] < ss[2]}
    BY <1>1, <1>2, Zenon DEF OpToRel
  <2> HIDE DEF q
  <2>3. ~ (q[1] < q[2])
    BY <2>1, <2>2
  <2> QED
    BY <1>2, <2>1, <2>3
<1> QED
  BY <1>1, <1>2

LEMMA EffectiveType ==
  ASSUME NEW S, NEW p, NEW f, ClocksAreSane(S, p, f), f # NoTime, NEW s \in Sources
  PROVE  Effective(p, f, s) \in Nat
BY DEF ClocksAreSane, Effective

(* The fastest source is never left out, so some source holds the watermark. *)
LEMMA SomeSourceHolds ==
  ASSUME NEW S, NEW p, NEW f, ClocksAreSane(S, p, f), f # NoTime
  PROVE  Holding(p, f) # {}
<1> USE WatermarksAssumption
<1>1. CASE MaxSilence = Unbounded
  BY <1>1 DEF Holding
<1>2. CASE MaxSilence # Unbounded
  <2>1. PICK n \in Nat : f <= n /\ \A s \in Sources : p[s] <= n
    BY DEF ClocksAreSane
  <2>2. ASSUME NEW s \in Sources
        PROVE  Effective(p, f, s) \in Nat /\ Effective(p, f, s) <= n
    BY <2>1, EffectiveType DEF Effective
  <2> DEFINE T == {n - Effective(p, f, s) : s \in Sources}
  <2>3. T \in SUBSET Nat /\ T # {}
    BY <2>2
  <2>4. PICK t \in T : \A m \in T : t <= m
    <3> HIDE DEF T
    <3> QED
      BY <2>3, LeastNatural
  <2>5. PICK s \in Sources : t = n - Effective(p, f, s)
    BY <2>4
  <2>6. ASSUME NEW r \in Sources
        PROVE  Effective(p, f, r) - Effective(p, f, s) <= MaxSilence
    <3>1. n - Effective(p, f, s) <= n - Effective(p, f, r)
      BY <2>4, <2>5
    <3>2. Effective(p, f, r) \in Nat /\ Effective(p, f, s) \in Nat
      BY <2>2
    <3>3. MaxSilence \in Nat
      BY <1>2
    <3> QED
      BY <2>1, <3>1, <3>2, <3>3
  <2>7. s \in Holding(p, f)
    BY <2>6 DEF Holding
  <2> QED
    BY <2>7
<1> QED
  BY <1>1, <1>2

LEMMA WatermarkFacts ==
  ASSUME NEW S, NEW p, NEW f, ClocksAreSane(S, p, f), f # NoTime
  PROVE  /\ \E s \in Holding(p, f) : Watermark(p, f) = Effective(p, f, s) - Lateness
         /\ \A s \in Holding(p, f) : Watermark(p, f) <= Effective(p, f, s) - Lateness
<1> DEFINE T == {Effective(p, f, s) : s \in Holding(p, f)}
           low == CHOOSE t \in T : \A s \in Holding(p, f) : t <= Effective(p, f, s)
<1>0. \A s \in Holding(p, f) : Effective(p, f, s) \in Nat
  BY EffectiveType DEF Holding
<1>1. T \in SUBSET Nat /\ T # {}
  BY <1>0, SomeSourceHolds
<1>2. \E t \in T : \A m \in T : t <= m
  <2> HIDE DEF T
  <2> QED
    BY <1>1, LeastNatural
<1>3. low \in T /\ \A s \in Holding(p, f) : low <= Effective(p, f, s)
  BY <1>2
<1>4. Watermark(p, f) = low - Lateness
  BY DEF Watermark
<1> HIDE DEF low
<1>5. low \in Nat /\ Lateness \in Nat
  BY <1>1, <1>3, WatermarksAssumption
<1>6. ASSUME NEW s \in Holding(p, f)
      PROVE  Watermark(p, f) <= Effective(p, f, s) - Lateness
  BY <1>0, <1>3, <1>4, <1>5, <1>6
<1> QED
  BY <1>3, <1>4, <1>6
-----------------------------------------------------------------------------
(* What settling takes away *)

Popped(Q, mark) == {x \in Q : Past(x, mark)}

Closing(O, Q, mark) ==
  UNION {Group[O][x] : x \in {x \in Popped(Q, mark) : \A y \in Group[O][x] : Past(y, mark)}}

Gone(O, Q, I, due, mark) ==
  Closing(O, Q, mark) \cup (Leaving(due, Popped(Q, mark), I) \ Closing(O, Q, mark))

(* Whole groups past the watermark, and settled members. *)
IsLeaving(O, Q, I, mark, closing, gone) ==
  /\ closing \subseteq gone /\ gone \subseteq O /\ gone \ closing \subseteq I
  /\ \A x \in closing : Past(x, mark) /\ Group[O][x] \subseteq closing
  /\ \A x \in closing, y \in O : Shares(x, y) => y \in closing
  /\ Q \ Popped(Q, mark) \subseteq O \ gone

LEMMA ClosingFacts ==
  ASSUME NEW O \in SUBSET Observations, NEW Q \in SUBSET O, NEW I \in SUBSET O,
         NEW due \in SUBSET I, NEW mark, \A x \in due : Past(x, mark),
         NEW closing, closing = Closing(O, Q, mark),
         NEW gone, gone = Gone(O, Q, I, due, mark)
  PROVE  IsLeaving(O, Q, I, mark, closing, gone)
<1>1. ASSUME NEW x \in closing
      PROVE  \E z \in O : x \in Group[O][z] /\ Group[O][z] \subseteq closing
                          /\ \A y \in Group[O][z] : Past(y, mark)
  BY <1>1 DEF Closing, Popped
<1>2. ASSUME NEW x \in closing
      PROVE  /\ x \in O /\ Past(x, mark) /\ Group[O][x] \subseteq closing
             /\ \A y \in O : Shares(x, y) => y \in closing
  <2>1. PICK z \in O : x \in Group[O][z] /\ Group[O][z] \subseteq closing
                       /\ \A y \in Group[O][z] : Past(y, mark)
    BY <1>1, <1>2
  <2>2. Group[O][x] = Group[O][z] /\ x \in O
    BY <2>1, GroupFacts
  <2>3. \A y \in O : Shares(x, y) => y \in Group[O][z]
    BY <2>1, GroupFacts
  <2> QED
    BY <2>1, <2>2, <2>3
<1>3. gone = closing \cup (Leaving(due, Popped(Q, mark), I) \ closing)
  BY DEF Gone
<1>4. Leaving(due, Popped(Q, mark), I) \subseteq I
  BY DEF Leaving
<1>5. \A x \in Leaving(due, Popped(Q, mark), I) : Past(x, mark)
  BY DEF Leaving, Popped
<1>6. \A x \in gone : Past(x, mark) /\ x \in O
  BY <1>2, <1>3, <1>4, <1>5
<1>7. Q \ Popped(Q, mark) \subseteq O \ gone
  BY <1>6 DEF Popped
<1> QED
  BY <1>2, <1>3, <1>4, <1>6, <1>7 DEF IsLeaving

NewProofs(O, closing, gone, I, finality) ==
  GroupProofs(O, closing, I, finality) \cup {Dossier({x}, finality, Values[x]) : x \in gone \cap I}

(* They share out what has gone, one proof each. *)
SharedOut(New, closing, gone, I, finality) ==
  /\ \A d \in New : d.observations \subseteq gone /\ d.finality = finality
  /\ \A d \in New : d.observations \subseteq closing \/ \E x \in gone \cap I : d.cites = Values[x]
  /\ \A o \in gone : \E d \in New :
       o \in d.observations /\ \A e \in New : o \in e.observations => e = d

LEMMA NewProofsFacts ==
  ASSUME NEW O \in SUBSET Observations, NEW closing, NEW gone \in SUBSET O, NEW I \in SUBSET O,
         closing \subseteq gone, gone \ closing \subseteq I,
         \A x \in closing : Group[O][x] \subseteq closing,
         NEW finality
  PROVE  SharedOut(NewProofs(O, closing, gone, I, finality), closing, gone, I, finality)
<1> DEFINE P(x) == Dossier(Group[O][x] \ I, finality, {})
           Q(x) == Dossier({x}, finality, Values[x])
           New == NewProofs(O, closing, gone, I, finality)
<1>1. ASSUME NEW x
      PROVE  /\ P(x).observations = Group[O][x] \ I /\ P(x).finality = finality
             /\ Q(x).observations = {x} /\ Q(x).finality = finality /\ Q(x).cites = Values[x]
  BY DEF Dossier
<1>2. New = {P(x) : x \in closing \ I} \cup {Q(x) : x \in gone \cap I}
  BY DEF NewProofs, GroupProofs
<1> HIDE DEF P, Q, New
<1>3. ASSUME NEW d \in New
      PROVE  /\ d.observations \subseteq gone /\ d.finality = finality
             /\ d.observations \subseteq closing \/ \E x \in gone \cap I : d.cites = Values[x]
  <2>1. CASE \E x \in closing \ I : d = P(x)
    BY <1>1, <2>1
  <2>2. CASE \E x \in gone \cap I : d = Q(x)
    BY <1>1, <2>2
  <2> QED
    BY <1>2, <1>3, <2>1, <2>2
<1>4. ASSUME NEW o \in gone \cap I
      PROVE  \E d \in New : o \in d.observations /\ \A e \in New : o \in e.observations => e = d
  <2>1. Q(o) \in New /\ o \in Q(o).observations
    BY <1>1, <1>2, <1>4
  <2>2. ASSUME NEW e \in New, o \in e.observations
        PROVE  e = Q(o)
    BY <1>1, <1>2, <1>4, <2>2
  <2> QED
    BY <2>1, <2>2
<1>5. ASSUME NEW o \in gone \ I
      PROVE  \E d \in New : o \in d.observations /\ \A e \in New : o \in e.observations => e = d
  <2>0. o \in closing \ I /\ o \in O
    BY <1>5
  <2>1. P(o) \in New /\ o \in P(o).observations
    BY <1>1, <1>2, <2>0, GroupFacts
  <2>2. ASSUME NEW e \in New, o \in e.observations
        PROVE  e = P(o)
    <3>1. PICK x \in closing \ I : e = P(x)
      BY <1>1, <1>2, <2>0, <2>2
    <3>2. o \in Group[O][x] /\ x \in O
      BY <1>1, <2>2, <3>1
    <3>3. Group[O][o] = Group[O][x]
      BY <3>2, GroupFacts
    <3> QED
      BY <3>1, <3>3 DEF P
  <2> QED
    BY <2>1, <2>2
<1> QED
  BY <1>3, <1>4, <1>5 DEF New, SharedOut

Finalised(cur, gone, finality) ==
  [k \in DOMAIN cur |->
     IF k[2] \in gone THEN Decision(cur[k].proposal, finality) ELSE cur[k]]

LEMMA FinalisedFacts ==
  ASSUME NEW cur, NEW gone, NEW finality
  PROVE  /\ DOMAIN Finalised(cur, gone, finality) = DOMAIN cur
         /\ \A k \in DOMAIN cur :
              /\ Finalised(cur, gone, finality)[k].proposal = cur[k].proposal
              /\ k[2] \in gone => Finalised(cur, gone, finality)[k].status = finality
              /\ k[2] \notin gone => Finalised(cur, gone, finality)[k] = cur[k]
         /\ \A o : ToldIn(Finalised(cur, gone, finality), o) <=> ToldIn(cur, o)
<1> DEFINE F == Finalised(cur, gone, finality)
<1>1. DOMAIN F = DOMAIN cur
  BY DEF Finalised
<1>2. ASSUME NEW k \in DOMAIN cur
      PROVE  /\ F[k].proposal = cur[k].proposal
             /\ k[2] \in gone => F[k].status = finality
             /\ k[2] \notin gone => F[k] = cur[k]
  <2>1. CASE k[2] \in gone
    <3>1. F[k] = Decision(cur[k].proposal, finality)
      BY <2>1 DEF Finalised
    <3> HIDE DEF F
    <3> QED
      BY <2>1, <3>1 DEF Decision
  <2>2. CASE k[2] \notin gone
    BY <2>2 DEF Finalised
  <2> QED
    BY <2>1, <2>2
<1> HIDE DEF F
<1>3. ASSUME NEW o
      PROVE  ToldIn(F, o) <=> ToldIn(cur, o)
  BY <1>1, <1>2 DEF ToldIn
<1> QED
  BY <1>1, <1>2, <1>3 DEF F

(* A source that holds the watermark has passed what closes by more than   *)
(* the lateness.                                                           *)
LEMMA HoldersHavePassed ==
  ASSUME NEW S, NEW p, NEW f, ClocksAreSane(S, p, f), NEW x \in S, x.at \in Nat,
         Past(x, Watermark(p, f)), NEW s \in Holding(p, f)
  PROVE  p[s] # NoTime /\ x.at + Window + Lateness < p[s]
<1>1. f # NoTime /\ f <= x.at /\ f \in Nat /\ s \in Sources
  BY DEF ClocksAreSane, Holding
<1>2. Watermark(p, f) <= Effective(p, f, s) - Lateness
  BY <1>1, WatermarkFacts
<1>3. \E t \in Holding(p, f) : Watermark(p, f) = Effective(p, f, t) - Lateness
  BY <1>1, WatermarkFacts
<1>4. \A t \in Sources : Effective(p, f, t) \in Nat
  BY <1>1, EffectiveType
<1>5. Watermark(p, f) \in Int
  BY <1>3, <1>4, WatermarksAssumption DEF Holding
<1>6. x.at + Window < Effective(p, f, s) - Lateness
  BY <1>1, <1>2, <1>4, <1>5, WatermarksAssumption, FlowConfigAssumption DEF Past
<1>7. x.at + Window + Lateness < Effective(p, f, s)
  BY <1>1, <1>4, <1>6, WatermarksAssumption, FlowConfigAssumption
<1>8. p[s] # NoTime
  <2>1. SUFFICES ASSUME p[s] = NoTime
                 PROVE  FALSE
    OBVIOUS
  <2>2. Effective(p, f, s) = f
    BY <2>1 DEF Effective
  <2> QED
    BY <1>1, <1>7, <2>2, WatermarksAssumption, FlowConfigAssumption
<1> QED
  BY <1>7, <1>8 DEF Effective

(* _settle: what leaves is finalised with its proof, and the rest does not *)
(* miss it.                                                                *)
LEMMA SettleKeeps ==
  ASSUME NEW S, NEW O, NEW Q, NEW I, NEW C, NEW cur, NEW D, NEW p, NEW f,
         Inv(S, O, Q, I, C, cur, D, p, f), f # NoTime,
         NEW mark, mark = Watermark(p, f), NEW finality, finality = Finality(p, f),
         NEW due \in SUBSET I, \A x \in due : Past(x, mark),
         NEW closing, closing = Closing(O, Q, mark),
         NEW gone, gone = Gone(O, Q, I, due, mark)
  PROVE  Inv(S, O \ gone, Q \ Popped(Q, mark), I \ gone, RemainingCrowds(C, closing),
             Finalised(cur, gone, finality), D \cup NewProofs(O, closing, gone, I, finality), p, f)
<1> DEFINE New == NewProofs(O, closing, gone, I, finality)
           fin == Finalised(cur, gone, finality)
           left == RemainingCrowds(C, closing)
<1>0. /\ S \subseteq Observations /\ O \subseteq S /\ Q \subseteq O /\ I \subseteq O
      /\ O \subseteq Observations
  BY DEF Inv, SetsNest
<1>1. /\ closing \subseteq gone /\ gone \subseteq O /\ gone \ closing \subseteq I
      /\ \A x \in closing : Past(x, mark) /\ Group[O][x] \subseteq closing
      /\ \A x \in closing, y \in O : Shares(x, y) => y \in closing
      /\ Q \ Popped(Q, mark) \subseteq O \ gone
  <2>1. O \in SUBSET Observations /\ Q \in SUBSET O /\ I \in SUBSET O
    BY <1>0
  <2>2. IsLeaving(O, Q, I, mark, closing, gone)
    BY <2>1, ClosingFacts
  <2> QED
    BY <2>2 DEF IsLeaving
<1>2. /\ DOMAIN fin = DOMAIN cur
      /\ \A k \in DOMAIN cur : /\ fin[k].proposal = cur[k].proposal
                               /\ k[2] \in gone => fin[k].status = finality
                               /\ k[2] \notin gone => fin[k] = cur[k]
      /\ \A o : ToldIn(fin, o) <=> ToldIn(cur, o)
  BY FinalisedFacts
<1>3. /\ \A d \in New : d.observations \subseteq gone /\ d.finality = finality
      /\ \A d \in New : d.observations \subseteq closing \/ \E x \in gone \cap I : d.cites = Values[x]
      /\ \A o \in gone : \E d \in New : o \in d.observations
                                        /\ \A e \in New : o \in e.observations => e = d
  <2>1. O \in SUBSET Observations /\ gone \in SUBSET O /\ I \in SUBSET O
    BY <1>0, <1>1
  <2>2. closing \subseteq gone /\ gone \ closing \subseteq I
    BY <1>1
  <2>3. \A x \in closing : Group[O][x] \subseteq closing
    BY <1>1
  <2>4. SharedOut(New, closing, gone, I, finality)
    BY <2>1, <2>2, <2>3, NewProofsFacts
  <2> HIDE DEF New
  <2> QED
    BY <2>4 DEF SharedOut
<1>4. finality \in {FINAL, FORCED} /\ finality # PROVISIONAL
  BY DEF Finality, FINAL, FORCED, PROVISIONAL
<1>5. ASSUME NEW x \in O \ gone, NEW v \in Values[x], NEW w
      PROVE  <<v, w>> \in C <=> <<v, w>> \in left
  <2>1. \A y \in closing : v \notin Values[y]
    <3>1. ASSUME NEW y \in closing, v \in Values[y]
          PROVE  FALSE
      BY <1>1, <1>5, <3>1 DEF Shares
    <3> QED
      BY <3>1
  <2> QED
    BY <2>1 DEF RemainingCrowds
<1> HIDE DEF New, fin
<1>6. left \subseteq C
  BY DEF RemainingCrowds
<1> HIDE DEF left
<1>11. SetsNest(S, O \ gone, Q \ Popped(Q, mark), I \ gone)
  BY <1>0, <1>1 DEF SetsNest
<1>12. CrowdsAreAuthored(left)
  BY <1>6 DEF Inv, CrowdsAreAuthored
<1>13. SettledAreDecided(I \ gone, left)
  <2>1. ASSUME NEW x \in I \ gone
        PROVE  Decided(x, left)
    <3>1. PICK v \in Values[x] :
            /\ Values[x] = {v}
            /\ \E w \in {j.where : j \in Joins} : <<v, w>> \in C
            /\ \A j \in JoinsOf(x) : <<v, j.where>> \in C
      BY <2>1 DEF Inv, SettledAreDecided, Decided
    <3>2. \A w : <<v, w>> \in C <=> <<v, w>> \in left
      BY <1>0, <1>5, <2>1, <3>1
    <3> QED
      BY <3>1, <3>2 DEF Decided
  <2> QED
    BY <2>1 DEF SettledAreDecided
<1>14. KeysAreKnown(S, O \ gone, fin)
  BY <1>2 DEF Inv, KeysAreKnown
<1>15. OpenIsProvisional(O \ gone, fin)
  <2>1. \A k \in DOMAIN cur : cur[k].status = PROVISIONAL <=> k[2] \in O
    BY DEF Inv, OpenIsProvisional
  <2>2. ASSUME NEW k \in DOMAIN cur
        PROVE  fin[k].status = PROVISIONAL <=> k[2] \in O \ gone
    BY <1>2, <1>4, <2>1, <2>2
  <2> QED
    BY <1>2, <2>2 DEF OpenIsProvisional
<1>16. PartnersGoTogether(O \ gone, I \ gone, fin)
  <2>1. ASSUME NEW k \in DOMAIN cur, NEW x \in cur[k].proposal.partners
        PROVE  /\ <<k[1], x>> \in DOMAIN cur
               /\ fin[<<k[1], x>>].status = fin[k].status
               /\ k[2] \in O \ gone => x \in (O \ gone) \ (I \ gone) /\ k[2] \notin I \ gone /\ Shares(k[2], x)
    <3>1. /\ <<k[1], x>> \in DOMAIN cur
          /\ cur[<<k[1], x>>].status = cur[k].status
          /\ k[2] \in O => x \in O \ I /\ k[2] \notin I /\ Shares(k[2], x)
      BY <2>1 DEF Inv, PartnersGoTogether
    <3>2. x \in O => k[2] \in O
      <4>1. /\ cur[k].status = PROVISIONAL <=> k[2] \in O
            /\ cur[<<k[1], x>>].status = PROVISIONAL <=> <<k[1], x>>[2] \in O
        BY <2>1, <3>1 DEF Inv, OpenIsProvisional
      <4> QED
        BY <3>1, <4>1
    <3>3. x \in gone <=> k[2] \in gone
      <4>1. CASE k[2] \in O
        <5>1. k[2] \in gone => k[2] \in closing
          BY <1>1, <3>1, <4>1
        <5>2. x \in gone => x \in closing
          BY <1>1, <3>1, <4>1
        <5>3. Shares(k[2], x) /\ Shares(x, k[2]) /\ x \in O
          BY <3>1, <4>1, SharesIsSymmetric
        <5> QED
          BY <1>1, <4>1, <5>1, <5>2, <5>3
      <4>2. CASE k[2] \notin O
        BY <1>1, <3>2, <4>2
      <4> QED
        BY <4>1, <4>2
    <3>4. <<k[1], x>>[2] = x
      OBVIOUS
    <3>5. fin[<<k[1], x>>].status = fin[k].status
      <4>1. CASE x \in gone
        BY <1>2, <2>1, <3>1, <3>3, <3>4, <4>1
      <4>2. CASE x \notin gone
        BY <1>2, <2>1, <3>1, <3>3, <3>4, <4>2
      <4> QED
        BY <4>1, <4>2
    <3> QED
      BY <1>1, <3>1, <3>3, <3>5
  <2> QED
    BY <1>2, <2>1 DEF PartnersGoTogether
<1>17. ProofsAreUnique(S, O \ gone, fin, D \cup New)
  <2>1. /\ \A d \in D : \A o \in d.observations : o \in S \ O /\ ~ ToldIn(cur, o)
        /\ \A o \in S \ O : ToldIn(cur, o) \/ HasOneProof(o, cur, D)
        /\ \A o \in O : ~ ToldIn(cur, o)
    BY DEF Inv, ProofsAreUnique, KeysAreKnown
  <2>2. ASSUME NEW d \in D \cup New, NEW o \in d.observations
        PROVE  o \in S \ (O \ gone) /\ ~ ToldIn(fin, o)
    <3>1. CASE d \in D
      BY <1>2, <2>1, <2>2, <3>1
    <3>2. CASE d \in New
      BY <1>0, <1>1, <1>2, <1>3, <2>1, <2>2, <3>2
    <3> QED
      BY <2>2, <3>1, <3>2
  <2>3. ASSUME NEW o \in S \ O, ~ ToldIn(cur, o)
        PROVE  HasOneProof(o, fin, D \cup New)
    <3>1. PICK d \in D : /\ o \in d.observations
                         /\ \A e \in D : o \in e.observations => e = d
                         /\ \A k \in DOMAIN cur : k[2] = o => cur[k].status = d.finality
      BY <2>1, <2>3 DEF HasOneProof
    <3>2. o \notin gone
      BY <1>1, <2>3
    <3>3. \A e \in New : o \notin e.observations
      BY <1>3, <3>2
    <3>4. \A k \in DOMAIN fin : k[2] = o => fin[k].status = d.finality
      BY <1>2, <3>1, <3>2
    <3> QED
      BY <3>1, <3>3, <3>4 DEF HasOneProof
  <2>4. ASSUME NEW o \in gone
        PROVE  HasOneProof(o, fin, D \cup New)
    <3>1. PICK d \in New : /\ o \in d.observations
                           /\ \A e \in New : o \in e.observations => e = d
      BY <1>3, <2>4
    <3>2. \A e \in D : o \notin e.observations
      BY <1>1, <2>1, <2>4
    <3>3. \A k \in DOMAIN fin : k[2] = o => fin[k].status = d.finality
      BY <1>2, <1>3, <2>4, <3>1
    <3> QED
      BY <3>1, <3>2, <3>3 DEF HasOneProof
  <2>5. ASSUME NEW o \in S \ (O \ gone)
        PROVE  ToldIn(fin, o) \/ HasOneProof(o, fin, D \cup New)
    BY <1>2, <2>3, <2>4, <2>5
  <2> QED
    BY <2>2, <2>5 DEF ProofsAreUnique
<1>18. UpToDate(O \ gone, left, fin)
  <2>1. ASSUME NEW k \in BusinessKeys(O \ gone)
        PROVE  fin[k] = Decision(Proposal(O \ gone, left, JoinAt(k[1]), k[2]), PROVISIONAL)
    <3> DEFINE j == JoinAt(k[1])
               x == k[2]
    <3>1. x \in O \ gone /\ k \in BusinessKeys({x}) /\ j \in JoinsOf(x)
      <4>1. O \ gone \in SUBSET Observations
        BY <1>0
      <4> QED
        BY <2>1, <4>1, KeyFacts
    <3>2. j \in Joins
      BY <3>1 DEF JoinsOf
    <3>3. k \in BusinessKeys(O) /\ k \in DOMAIN cur
      BY <3>1, KeysOfOne DEF Inv, KeysAreKnown
    <3>4. cur[k] = Decision(Proposal(O, C, j, x), PROVISIONAL)
      BY <3>3 DEF Inv, UpToDate
    <3>5. fin[k] = cur[k]
      BY <1>2, <3>1, <3>3
    <3> HIDE DEF j, x
    <3>6. Proposal(O, C, j, x) = Proposal(O \ gone, left, j, x)
      <4>1. x \in Observations /\ O \in SUBSET Observations /\ O \ gone \in SUBSET Observations
        BY <1>0, <3>1
      <4>2. CrowdsAreAuthored(C)
        BY DEF Inv
      <4>3. \A v \in Values[x] : <<v, j.where>> \in C <=> <<v, j.where>> \in left
        BY <1>5, <3>1
      <4>4. ASSUME NEW y \in (O \ (O \ gone)) \cup ((O \ gone) \ O), NEW v \in Values[x] \cap Values[y]
            PROVE  Decided(y, C)
        <5>1. y \in gone /\ y \in O /\ Shares(y, x)
          BY <4>4 DEF Shares
        <5>2. y \notin closing
          BY <1>1, <3>1, <5>1
        <5>3. y \in I
          BY <1>1, <5>1, <5>2
        <5> QED
          BY <5>3 DEF Inv, SettledAreDecided
      <4> QED
        BY <3>2, <4>1, <4>2, <4>3, <4>4, ProposalKeeps
    <3> QED
      BY <3>4, <3>5, <3>6 DEF j, x
  <2> QED
    BY <2>1 DEF UpToDate
<1>19. ClocksAreSane(S, p, f)
  BY DEF Inv
<1>20. ClosedArePassed(O \ gone, D \cup New, p)
  <2>1. ASSUME NEW d \in D, d.finality = FINAL /\ d.cites = {}, NEW x \in d.observations
        PROVE  /\ \A s \in Sources : p[s] # NoTime /\ x.at + Window + Lateness < p[s]
               /\ \A y \in O \ gone : Shares(x, y) => y.at > x.at + Window
    BY <2>1 DEF Inv, ClosedArePassed
  <2>2. ASSUME NEW d \in New, d.finality = FINAL /\ d.cites = {}, NEW x \in d.observations
        PROVE  /\ \A s \in Sources : p[s] # NoTime /\ x.at + Window + Lateness < p[s]
               /\ \A y \in O \ gone : Shares(x, y) => y.at > x.at + Window
    <3>1. \A y \in I : Values[y] # {}
      BY DEF Inv, SettledAreDecided, Decided
    <3>2. x \in closing
      BY <1>3, <2>2, <3>1
    <3>3. \A y \in O \ gone : ~ Shares(x, y)
      BY <1>1, <3>2
    <3>4. Holding(p, f) = Sources
      BY <1>3, <2>2 DEF Finality, FINAL, FORCED
    <3>5. x \in S /\ x.at \in Nat /\ Past(x, Watermark(p, f))
      BY <1>0, <1>1, <3>2, ObservationsAssumption
    <3>6. \A s \in Sources : p[s] # NoTime /\ x.at + Window + Lateness < p[s]
      BY <1>19, <3>4, <3>5, HoldersHavePassed
    <3> QED
      BY <3>3, <3>6
  <2> QED
    BY <2>1, <2>2 DEF ClosedArePassed
<1> QED
  BY <1>11, <1>12, <1>13, <1>14, <1>15, <1>16, <1>17, <1>18, <1>19, <1>20
  DEF Inv, New, fin, left
-----------------------------------------------------------------------------
(* Clocks *)

IsAdvance(p, f, s, t, P, F) == P = Advanced(p, s, t) /\ F = FirstAt(f, t)

LEMMA ClocksAdvance ==
  ASSUME NEW S, \A o \in S : o.at \in Nat, NEW p, NEW f, ClocksAreSane(S, p, f), NEW s \in Sources, NEW t \in Nat,
         NEW P, NEW F, IsAdvance(p, f, s, t, P, F)
  PROVE  /\ ClocksAreSane(S, P, F)
         /\ F # NoTime /\ F \in Nat /\ F <= t
         /\ \A r \in Sources : p[r] # NoTime => P[r] \in Nat /\ p[r] \in Nat /\ p[r] <= P[r]
<1>1. /\ p \in [Sources -> Nat \cup {NoTime}] /\ f \in Nat \cup {NoTime}
      /\ \A o \in S : f # NoTime /\ f <= o.at
      /\ \A r \in Sources : p[r] # NoTime => f # NoTime
  BY DEF ClocksAreSane
<1>2. F # NoTime /\ F \in Nat /\ F <= t
  BY <1>1 DEF FirstAt, NoTime, IsAdvance
<1>3. f # NoTime => F <= f
  BY <1>1 DEF FirstAt, NoTime, IsAdvance
<1>4. ASSUME NEW r \in Sources
      PROVE  /\ P[r] = IF r = s /\ (p[r] = NoTime \/ p[r] < t) THEN t ELSE p[r]
             /\ P[r] \in Nat \cup {NoTime}
             /\ p[r] # NoTime => P[r] \in Nat /\ p[r] \in Nat /\ p[r] <= P[r]
  <2>1. P[r] = IF r = s /\ (p[r] = NoTime \/ p[r] < t) THEN t ELSE p[r]
    BY <1>1 DEF Advanced, IsAdvance
  <2> QED
    BY <1>1, <2>1 DEF NoTime
<1>5. P \in [Sources -> Nat \cup {NoTime}]
  BY <1>1 DEF Advanced, IsAdvance
<1>6. \A o \in S : F # NoTime /\ F <= o.at
  <2>1. ASSUME NEW o \in S
        PROVE  F <= o.at
    <3>1. f # NoTime /\ f <= o.at /\ F <= f
      BY <1>1, <1>3, <2>1
    <3>2. o.at \in Nat /\ f \in Nat
      BY <1>1, <2>1, <3>1
    <3> QED
      BY <1>2, <3>1, <3>2
  <2> QED
    BY <1>2, <2>1
<1>7. \E n \in Nat : F <= n /\ \A r \in Sources : P[r] <= n
  <2>1. PICK m \in Nat : f <= m /\ \A r \in Sources : p[r] <= m
    BY DEF ClocksAreSane
  <2>2. PICK n \in Nat : m <= n /\ t <= n
    BY <2>1
  <2>3. ASSUME NEW r \in Sources
        PROVE  P[r] <= n
    BY <1>1, <1>4, <2>1, <2>2, <2>3 DEF NoTime
  <2> QED
    BY <1>2, <2>2, <2>3
<1> QED
  BY <1>2, <1>4, <1>5, <1>6, <1>7 DEF ClocksAreSane

(* An observation opened while another source may still be behind: it is   *)
(* past the window of every group that closed unforced.                    *)
LEMMA OnTimeIsAfterClosed ==
  ASSUME NEW S, NEW p, NEW f, ClocksAreSane(S, p, f), NEW at \in Nat, ~ IsUnder(p, f, at),
         NEW x \in S, x.at \in Nat,
         \A s \in Sources : p[s] # NoTime /\ x.at + Window + Lateness < p[s]
  PROVE  at > x.at + Window
<1>1. f # NoTime
  BY DEF ClocksAreSane
<1>2. PICK s \in Holding(p, f) : Watermark(p, f) = Effective(p, f, s) - Lateness
  BY <1>1, WatermarkFacts
<1>3. s \in Sources /\ Effective(p, f, s) = p[s] /\ p[s] \in Nat
  <2>1. s \in Sources
    BY <1>2 DEF Holding
  <2>2. p[s] \in Nat \cup {NoTime}
    BY <2>1 DEF ClocksAreSane
  <2> QED
    BY <2>1, <2>2 DEF Effective
<1>4. ~ (at < p[s] - Lateness)
  BY <1>1, <1>2, <1>3 DEF IsUnder
<1>5. x.at + Window + Lateness < p[s]
  BY <1>3
<1> QED
  BY <1>3, <1>4, <1>5, WatermarksAssumption, FlowConfigAssumption

(* What closed unforced stays passed, since no source goes back. *)
LEMMA PassedStayPassed ==
  ASSUME NEW O, NEW D, NEW p, NEW P, ClosedArePassed(O, D, p),
         \A d \in D : \A x \in d.observations : x.at \in Nat,
         \A r \in Sources : p[r] # NoTime => P[r] \in Nat /\ p[r] \in Nat /\ p[r] <= P[r]
  PROVE  ClosedArePassed(O, D, P)
<1>1. ASSUME NEW d \in D, d.finality = FINAL, d.cites = {}, NEW x \in d.observations
      PROVE  /\ \A r \in Sources : P[r] # NoTime /\ x.at + Window + Lateness < P[r]
             /\ \A y \in O : Shares(x, y) => y.at > x.at + Window
  <2>1. /\ \A r \in Sources : p[r] # NoTime /\ x.at + Window + Lateness < p[r]
        /\ \A y \in O : Shares(x, y) => y.at > x.at + Window
    BY <1>1 DEF ClosedArePassed
  <2>2. ASSUME NEW r \in Sources
        PROVE  P[r] # NoTime /\ x.at + Window + Lateness < P[r]
    <3>1. p[r] # NoTime /\ x.at + Window + Lateness < p[r]
      BY <2>1
    <3>2. P[r] \in Nat /\ p[r] \in Nat /\ p[r] <= P[r] /\ x.at \in Nat
      BY <1>1, <3>1
    <3> QED
      BY <3>1, <3>2, WatermarksAssumption, FlowConfigAssumption DEF NoTime
  <2> QED
    BY <2>1, <2>2
<1> QED
  BY <1>1 DEF ClosedArePassed
-----------------------------------------------------------------------------
(* Evaluating *)

LEMMA CrowdsFacts ==
  ASSUME NEW G \in SUBSET Observations
  PROVE  \A c \in Crowds(G) : \E j \in Joins, y \in G :
           /\ c = <<c[1], j.where>> /\ c[1] \in Values[y]
           /\ j.authored # {} /\ DOMAIN c[1] = j.authored
<1> SUFFICES ASSUME NEW c \in Crowds(G)
             PROVE  \E j \in Joins, y \in G :
                      /\ c = <<c[1], j.where>> /\ c[1] \in Values[y]
                      /\ j.authored # {} /\ DOMAIN c[1] = j.authored
  OBVIOUS
<1>1. PICK j \in Joins : c \in CrowdedAt(G, j) \X {j.where}
  BY DEF Crowds
<1>2. c = <<c[1], j.where>> /\ c[1] \in CrowdedAt(G, j)
  BY <1>1
<1>3. PICK y \in G : TakesPart(y, j, j.authored) /\ c[1] = ValueOf(y, j.authored)
  BY <1>2 DEF CrowdedAt
<1>4. Carries(y, j.authored)
  BY <1>3 DEF TakesPart
<1>5. c[1] \in Values[y] /\ DOMAIN c[1] = j.authored /\ j.authored # {}
  BY <1>3, <1>4, SignalIsValue DEF Carries
<1> QED
  BY <1>2, <1>5

Evaluated(G, crowd, cur) ==
  [k \in DOMAIN cur \cup BusinessKeys(G) |->
     IF k \in BusinessKeys(G)
     THEN Decision(Proposal(G, crowd, JoinAt(k[1]), k[2]), PROVISIONAL)
     ELSE cur[k]]

IsReevaluated(E, G, crowd, cur) ==
  /\ DOMAIN E = DOMAIN cur \cup BusinessKeys(G)
  /\ \A k \in BusinessKeys(G) :
       /\ E[k] = Decision(Proposal(G, crowd, JoinAt(k[1]), k[2]), PROVISIONAL)
       /\ E[k].proposal = Proposal(G, crowd, JoinAt(k[1]), k[2])
       /\ E[k].status = PROVISIONAL
  /\ \A k \in DOMAIN cur \ BusinessKeys(G) : E[k] = cur[k]

LEMMA EvaluatedFacts ==
  ASSUME NEW G, NEW crowd, NEW cur
  PROVE  IsReevaluated(Evaluated(G, crowd, cur), G, crowd, cur)
<1>1. /\ DOMAIN Evaluated(G, crowd, cur) = DOMAIN cur \cup BusinessKeys(G)
      /\ \A k \in BusinessKeys(G) :
           Evaluated(G, crowd, cur)[k] =
             Decision(Proposal(G, crowd, JoinAt(k[1]), k[2]), PROVISIONAL)
      /\ \A k \in DOMAIN cur \ BusinessKeys(G) : Evaluated(G, crowd, cur)[k] = cur[k]
  BY DEF Evaluated
<1>2. \A q : Decision(q, PROVISIONAL).proposal = q /\ Decision(q, PROVISIONAL).status = PROVISIONAL
  BY DEF Decision
<1> QED
  BY <1>1, <1>2 DEF IsReevaluated

LEMMA DecidedGrows ==
  ASSUME NEW C1, NEW C2, C1 \subseteq C2, NEW x, Decided(x, C1)
  PROVE  Decided(x, C2)
BY DEF Decided

(* The local variables of an entry, in the order they get their values. *)
IsEvaluation(O, I0, C0, cur0, o, G, crowd, decided, cur) ==
  /\ G = Group[O][o] \ I0
  /\ crowd = C0 \cup Crowds(G)
  /\ decided = {x \in G : Decided(x, crowd)}
  /\ cur = Evaluated(G, crowd, cur0)

(* _evaluate: the group of a newcomer is decided again, and nobody else's  *)
(* decision depends on it.                                                 *)
LEMMA EvaluateKeeps ==
  ASSUME NEW S, NEW O0, NEW Q, NEW I0, NEW C0, NEW cur0, NEW D, NEW p, NEW f,
         Inv(S, O0, Q, I0, C0, cur0, D, p, f),
         NEW o \in Observations, o \notin S, ~ IsUnder(p, f, o.at),
         NEW O, O = O0 \cup {o}, NEW G, NEW crowd, NEW decided, NEW cur,
         IsEvaluation(O, I0, C0, cur0, o, G, crowd, decided, cur),
         NEW P, NEW F, IsAdvance(p, f, o.source, o.at, P, F)
  PROVE  Inv(S \cup {o}, O, Q \cup {o}, I0 \cup decided, crowd, cur, D, P, F)
<1> DEFINE I == I0 \cup decided
<1>0. /\ S \subseteq Observations /\ O0 \subseteq S /\ Q \subseteq O0 /\ I0 \subseteq O0
      /\ O \subseteq Observations /\ O0 \subseteq Observations
  BY DEF Inv, SetsNest
<1>1. /\ o \in G /\ G \subseteq O /\ G \subseteq Group[O][o] /\ G \cap I0 = {}
      /\ Group[O][o] \subseteq G \cup I0 /\ Group[O][o] \subseteq O
      /\ \A y \in Group[O][o], z \in O : Shares(y, z) => z \in Group[O][o]
      /\ G \subseteq Observations
  <2>1. O \in SUBSET Observations /\ o \in O
    BY <1>0
  <2>2. /\ o \in Group[O][o] /\ Group[O][o] \subseteq O
        /\ \A y \in Group[O][o], z \in O : Shares(y, z) => z \in Group[O][o]
    BY <2>1, GroupFacts
  <2>3. G = Group[O][o] \ I0
    BY DEF IsEvaluation
  <2> QED
    BY <1>0, <2>2, <2>3
<1>00. G \in SUBSET Observations
  BY <1>1
<1>c. crowd = C0 \cup Crowds(G)
  BY DEF IsEvaluation
<1>2. /\ DOMAIN cur = DOMAIN cur0 \cup BusinessKeys(G)
      /\ \A k \in BusinessKeys(G) :
           /\ cur[k] = Decision(Proposal(G, crowd, JoinAt(k[1]), k[2]), PROVISIONAL)
           /\ cur[k].proposal = Proposal(G, crowd, JoinAt(k[1]), k[2])
           /\ cur[k].status = PROVISIONAL
      /\ \A k \in DOMAIN cur0 \ BusinessKeys(G) : cur[k] = cur0[k]
  <2>1. IsReevaluated(cur, G, crowd, cur0)
    BY EvaluatedFacts DEF IsEvaluation
  <2> QED
    BY <2>1 DEF IsReevaluated
<1>3. \A k \in BusinessKeys(G) :
        /\ k = <<k[1], k[2]>> /\ k[2] \in G /\ k \in BusinessKeys({k[2]})
        /\ JoinAt(k[1]) \in JoinsOf(k[2]) /\ JoinAt(k[1]).where = k[1]
  BY <1>1, KeyFacts
<1>4. \A k \in DOMAIN cur0 : /\ k = <<k[1], k[2]>> /\ k[2] \in S /\ k[2] # o
                             /\ k[2] \in O => k[2] \in O0 /\ k \in BusinessKeys({k[2]})
  BY DEF Inv, KeysAreKnown
<1>5. \A x \in O0 : BusinessKeys({x}) \subseteq DOMAIN cur0 /\ ~ ToldIn(cur0, x)
  BY DEF Inv, KeysAreKnown
<1>6. \A c \in Crowds(G) : \E j \in Joins, y \in G :
        /\ c = <<c[1], j.where>> /\ c[1] \in Values[y]
        /\ j.authored # {} /\ DOMAIN c[1] = j.authored
  BY <1>00, CrowdsFacts, Zenon
<1>7. CrowdsAreAuthored(crowd)
  <2>1. CrowdsAreAuthored(C0)
    BY DEF Inv
  <2> QED
    BY <1>6, <1>c, <2>1 DEF CrowdsAreAuthored
<1>8. decided \subseteq G /\ \A x \in decided : Decided(x, crowd)
  BY DEF IsEvaluation
<1>9. \A x \in I0 : Decided(x, C0) /\ Decided(x, crowd)
  <2>1. \A x \in I0 : Decided(x, C0)
    BY DEF Inv, SettledAreDecided
  <2> QED
    BY <1>c, <2>1, DecidedGrows
<1>10. ASSUME NEW x, ToldIn(cur, x)
       PROVE  x \notin G /\ ToldIn(cur0, x)
  <2> DEFINE k == <<Nowhere, x>>
  <2>1. k \in DOMAIN cur /\ cur[k].proposal.kind \in {LATE, VALUE_AFTER_FINAL} /\ k[2] = x
    BY <1>10 DEF ToldIn
  <2> HIDE DEF k
  <2>2. k \notin BusinessKeys(G)
    <3>1. SUFFICES ASSUME k \in BusinessKeys(G)
                   PROVE  FALSE
      OBVIOUS
    <3>2. JoinAt(k[1]) \in Joins /\ k[2] \in G /\ G \in SUBSET Observations
      BY <1>1, <1>3, <3>1 DEF JoinsOf
    <3>3. cur[k].proposal.kind \in JoinKinds
      <4>1. Proposal(G, crowd, JoinAt(k[1]), k[2]).kind \in JoinKinds
        BY <1>00, <3>2, ProposalFacts, Zenon
      <4> QED
        BY <1>2, <3>1, <4>1
    <3> QED
      BY <2>1, <3>3 DEF JoinKinds, LATE, VALUE_AFTER_FINAL, None, COLLIDED, LINKED, UNLINKED, CONFLICTED
  <2>3. k \in DOMAIN cur0 /\ cur[k] = cur0[k]
    BY <1>2, <2>1, <2>2
  <2>4. ToldIn(cur0, x)
    BY <2>1, <2>3 DEF ToldIn, k
  <2>5. x # o /\ (x \in O => x \in O0)
    BY <1>4, <2>1, <2>3
  <2> QED
    BY <1>1, <1>5, <2>4, <2>5
<1>11. SetsNest(S \cup {o}, O, Q \cup {o}, I)
  BY <1>0, <1>1, <1>8 DEF SetsNest
<1>13. SettledAreDecided(I, crowd)
  BY <1>8, <1>9 DEF SettledAreDecided
<1>14. KeysAreKnown(S \cup {o}, O, cur)
  <2>1. ASSUME NEW k \in DOMAIN cur
        PROVE  /\ k = <<k[1], k[2]>> /\ k[2] \in S \cup {o}
               /\ k[2] \in O => k \in BusinessKeys({k[2]})
    <3>1. CASE k \in BusinessKeys(G)
      BY <1>0, <1>1, <1>3, <3>1
    <3>2. CASE k \in DOMAIN cur0
      BY <1>4, <3>2
    <3> QED
      BY <1>2, <2>1, <3>1, <3>2
  <2>2. ASSUME NEW x \in O
        PROVE  BusinessKeys({x}) \subseteq DOMAIN cur
    <3>1. CASE x = o
      BY <1>1, <1>2, <3>1, KeysOfOne
    <3>2. CASE x \in O0
      BY <1>2, <1>5, <3>2
    <3> QED
      BY <2>2, <3>1, <3>2
  <2>3. ASSUME NEW x \in O
        PROVE  ~ ToldIn(cur, x)
    BY <1>1, <1>5, <1>10, <2>3
  <2> QED
    BY <2>1, <2>2, <2>3 DEF KeysAreKnown
<1>15. OpenIsProvisional(O, cur)
  <2>1. ASSUME NEW k \in DOMAIN cur
        PROVE  cur[k].status = PROVISIONAL <=> k[2] \in O
    <3>1. CASE k \in BusinessKeys(G)
      BY <1>1, <1>2, <1>3, <3>1
    <3>2. CASE k \in DOMAIN cur0 \ BusinessKeys(G)
      <4>1. cur0[k].status = PROVISIONAL <=> k[2] \in O0
        BY <3>2 DEF Inv, OpenIsProvisional
      <4> QED
        BY <1>2, <1>4, <3>2, <4>1
    <3> QED
      BY <1>2, <2>1, <3>1, <3>2
  <2> QED
    BY <2>1 DEF OpenIsProvisional
<1>16. PartnersGoTogether(O, I, cur)
  <2>1. ASSUME NEW k \in BusinessKeys(G), NEW x \in cur[k].proposal.partners
        PROVE  /\ <<k[1], x>> \in DOMAIN cur
               /\ cur[<<k[1], x>>].status = cur[k].status
               /\ k[2] \in O => x \in O \ I /\ k[2] \notin I /\ Shares(k[2], x)
    <3> DEFINE j == JoinAt(k[1])
               y == k[2]
    <3>1. j \in Joins /\ j \in JoinsOf(y) /\ j.where = k[1] /\ y \in G /\ G \in SUBSET Observations
      BY <1>1, <1>3, <2>1 DEF JoinsOf
    <3>2. x \in Proposal(G, crowd, j, y).partners
      BY <1>2, <2>1
    <3> HIDE DEF j, y
    <3>3. IsPartner(x, G, crowd, j, y)
      BY <3>1, <3>2, ProposalFacts
    <3>4. x \in G /\ Shares(y, x) /\ j \in JoinsOf(x)
      BY <3>1, <3>3, PartnerJoins
    <3>5. <<j.where, x>> \in BusinessKeys(G)
      BY <3>4, KeyOfJoin
    <3>6. <<k[1], x>> \in DOMAIN cur /\ cur[<<k[1], x>>].status = cur[k].status
      BY <1>2, <2>1, <3>1, <3>5
    <3>7. ASSUME NEW z \in {x, y}, z \in decided
          PROVE  FALSE
      <4>1. PICK v \in Values[y] \cap Values[x] : Undecided(crowd, j, v)
        BY <3>3 DEF IsPartner
      <4>2. z.place \in {j.up, j.down}
        BY <3>1, <3>4, <3>7 DEF JoinsOf, TakesPart
      <4>3. z \in Observations /\ v \in Values[z] /\ Decided(z, crowd)
        BY <1>1, <1>8, <3>7, <4>1
      <4> QED
        BY <1>7, <3>1, <4>1, <4>2, <4>3, SettledIsAside
    <3>8. x \in O \ I /\ y \notin I
      BY <1>1, <3>1, <3>4, <3>7
    <3> QED
      BY <3>4, <3>6, <3>8 DEF y
  <2>2. ASSUME NEW k \in DOMAIN cur0 \ BusinessKeys(G), NEW x \in cur0[k].proposal.partners
        PROVE  /\ <<k[1], x>> \in DOMAIN cur
               /\ cur[<<k[1], x>>].status = cur0[k].status
               /\ k[2] \in O => x \in O \ I /\ k[2] \notin I /\ Shares(k[2], x)
    <3> DEFINE h == <<k[1], x>>
    <3>1. /\ h \in DOMAIN cur0
          /\ cur0[h].status = cur0[k].status
          /\ k[2] \in O0 => x \in O0 \ I0 /\ k[2] \notin I0 /\ Shares(k[2], x)
      BY <2>2 DEF Inv, PartnersGoTogether
    <3>2. h[2] = x
      OBVIOUS
    <3> HIDE DEF h
    <3>3. k[2] \in O0 <=> x \in O0
      <4>1. /\ cur0[k].status = PROVISIONAL <=> k[2] \in O0
            /\ cur0[h].status = PROVISIONAL <=> h[2] \in O0
        BY <2>2, <3>1 DEF Inv, OpenIsProvisional
      <4> QED
        BY <3>1, <3>2, <4>1
    <3>4. x # o /\ k[2] # o
      BY <1>4, <2>2, <3>1, <3>2
    <3>5. x \notin G /\ k[2] \notin G
      <4>1. SUFFICES ASSUME x \in G \/ k[2] \in G
                     PROVE  FALSE
        OBVIOUS
      <4>2. k[2] \in O0 /\ x \in O0
        BY <1>1, <3>3, <3>4, <4>1
      <4>3. Shares(k[2], x) /\ Shares(x, k[2]) /\ k[2] \notin I0 /\ x \notin I0
        BY <3>1, <4>2, SharesIsSymmetric
      <4>4. k[2] \in Group[O][o]
        BY <1>1, <4>1, <4>2, <4>3
      <4>5. k[2] \in G
        BY <1>1, <4>3, <4>4
      <4>6. k \in BusinessKeys({k[2]})
        BY <1>4, <2>2, <4>2
      <4>7. k \in BusinessKeys(G)
        BY <4>5, <4>6, KeysOfOne
      <4> QED
        BY <2>2, <4>7
    <3>6. h \in DOMAIN cur0 \ BusinessKeys(G)
      BY <1>3, <3>1, <3>2, <3>5
    <3>7. h \in DOMAIN cur /\ cur[h].status = cur0[k].status
      BY <1>2, <3>1, <3>6
    <3>8. k[2] \in O => x \in O \ I /\ k[2] \notin I /\ Shares(k[2], x)
      BY <1>8, <3>1, <3>3, <3>4, <3>5
    <3> QED
      BY <3>7, <3>8 DEF h
  <2>3. ASSUME NEW k \in DOMAIN cur, NEW x \in cur[k].proposal.partners
        PROVE  /\ <<k[1], x>> \in DOMAIN cur
               /\ cur[<<k[1], x>>].status = cur[k].status
               /\ k[2] \in O => x \in O \ I /\ k[2] \notin I /\ Shares(k[2], x)
    <3>1. CASE k \in BusinessKeys(G)
      BY <2>1, <2>3, <3>1
    <3>2. CASE k \in DOMAIN cur0 \ BusinessKeys(G)
      <4>1. cur[k] = cur0[k]
        BY <1>2, <3>2
      <4> QED
        BY <2>2, <2>3, <3>2, <4>1
    <3> QED
      BY <1>2, <2>3, <3>1, <3>2
  <2> QED
    BY <2>3 DEF PartnersGoTogether
<1>17. ProofsAreUnique(S \cup {o}, O, cur, D)
  <2>1. /\ \A d \in D : \A x \in d.observations : x \in S \ O0 /\ ~ ToldIn(cur0, x)
        /\ \A x \in S \ O0 : ToldIn(cur0, x) \/ HasOneProof(x, cur0, D)
    BY DEF Inv, ProofsAreUnique
  <2>2. ASSUME NEW d \in D, NEW x \in d.observations
        PROVE  x \in (S \cup {o}) \ O /\ ~ ToldIn(cur, x)
    BY <1>10, <2>1, <2>2
  <2>3. ASSUME NEW x \in S \ O0
        PROVE  ToldIn(cur, x) \/ HasOneProof(x, cur, D)
    <3>1. x \notin G
      BY <1>1, <2>3
    <3>2. \A k \in DOMAIN cur : k[2] = x => k \in DOMAIN cur0 \ BusinessKeys(G) /\ cur[k] = cur0[k]
      BY <1>2, <1>3, <3>1
    <3>3. CASE ToldIn(cur0, x)
      <4> DEFINE k == <<Nowhere, x>>
      <4>1. k[2] = x /\ k \in DOMAIN cur0 /\ cur0[k].proposal.kind \in {LATE, VALUE_AFTER_FINAL}
        BY <3>3 DEF ToldIn
      <4> HIDE DEF k
      <4>2. k \in DOMAIN cur /\ cur[k] = cur0[k]
        BY <1>2, <3>2, <4>1
      <4> QED
        BY <4>1, <4>2 DEF ToldIn, k
    <3>4. CASE HasOneProof(x, cur0, D)
      <4>1. PICK d \in D : /\ x \in d.observations
                           /\ \A e \in D : x \in e.observations => e = d
                           /\ \A k \in DOMAIN cur0 : k[2] = x => cur0[k].status = d.finality
        BY <3>4 DEF HasOneProof
      <4>2. \A k \in DOMAIN cur : k[2] = x => cur[k].status = d.finality
        BY <3>2, <4>1
      <4> QED
        BY <4>1, <4>2 DEF HasOneProof
    <3> QED
      BY <2>1, <2>3, <3>3, <3>4
  <2> QED
    BY <2>2, <2>3 DEF ProofsAreUnique
<1>18. UpToDate(O, crowd, cur)
  <2>1. ASSUME NEW k \in BusinessKeys(O)
        PROVE  cur[k] = Decision(Proposal(O, crowd, JoinAt(k[1]), k[2]), PROVISIONAL)
    <3> DEFINE j == JoinAt(k[1])
               x == k[2]
    <3>1. x \in O /\ k \in BusinessKeys({x}) /\ j \in JoinsOf(x)
      <4>1. O \in SUBSET Observations
        BY <1>0
      <4> QED
        BY <2>1, <4>1, KeyFacts
    <3>2. j \in Joins /\ x \in Observations
      BY <1>0, <3>1 DEF JoinsOf
    <3>3. CASE x \in G
      <4>1. k \in BusinessKeys(G)
        BY <3>1, <3>3, KeysOfOne
      <4>2. cur[k] = Decision(Proposal(G, crowd, j, x), PROVISIONAL)
        BY <1>2, <4>1
      <4> HIDE DEF j, x
      <4>3. ASSUME NEW y \in (G \ O) \cup (O \ G), NEW v \in Values[x] \cap Values[y]
            PROVE  Decided(y, crowd)
        <5>1. y \in O \ G /\ Shares(x, y)
          BY <1>1, <4>3 DEF Shares
        <5>2. y \in Group[O][o]
          BY <1>1, <3>3, <5>1
        <5>3. y \in I0
          BY <1>1, <5>1, <5>2
        <5> QED
          BY <1>9, <5>3
      <4>4. G \in SUBSET Observations /\ O \in SUBSET Observations
        BY <1>0, <1>1
      <4>5. Proposal(G, crowd, j, x) = Proposal(O, crowd, j, x)
        <5>1. \A y \in (G \ O) \cup (O \ G) : \A v \in Values[x] \cap Values[y] :
                Decided(y, crowd) \/ <<v, j.where>> \in crowd
          BY <4>3
        <5> QED
          BY <1>7, <3>2, <4>4, <5>1, ProposalKeeps
      <4> QED
        BY <4>2, <4>5 DEF j, x
    <3>4. CASE x \notin G
      <4>1. x \in O0 /\ k \in BusinessKeys(O0) /\ k \in DOMAIN cur0
        <5>1. x \in O0
          BY <1>1, <3>1, <3>4
        <5> QED
          BY <1>5, <3>1, <5>1, KeysOfOne
      <4>2. cur0[k] = Decision(Proposal(O0, C0, j, x), PROVISIONAL)
        BY <4>1 DEF Inv, UpToDate
      <4>3. cur[k] = cur0[k]
        BY <1>2, <1>3, <3>4, <4>1
      <4> HIDE DEF j, x
      <4>4. /\ O0 \in SUBSET Observations /\ O \in SUBSET Observations /\ CrowdsAreAuthored(C0)
            /\ (O0 \ O) \cup (O \ O0) \subseteq {o}
        BY <1>0 DEF Inv
      <4>5. Proposal(O0, C0, j, x) = Proposal(O, crowd, j, x)
        <5>1. CASE x \in Group[O][o]
          <6>1. x \in I0
            BY <1>1, <3>4, <5>1
          <6>2. PICK u : Values[x] = {u} /\ <<u, j.where>> \in C0
            BY <1>9, <3>1, <6>1 DEF Decided
          <6>3. \A v \in Values[x] : <<v, j.where>> \in C0 /\ <<v, j.where>> \in crowd
            BY <1>c, <6>2
          <6> QED
            BY <3>2, <4>4, <6>3, ProposalKeeps
        <5>2. CASE x \notin Group[O][o]
          <6>1. \A y \in Group[O][o] : ~ Shares(y, x)
            BY <1>1, <3>1, <5>2
          <6>2. \A y \in G, v \in Values[x] : v \notin Values[y]
            BY <1>1, <6>1 DEF Shares
          <6>3. ASSUME NEW v \in Values[x]
                PROVE  <<v, j.where>> \in C0 <=> <<v, j.where>> \in crowd
            <7> DEFINE c == <<v, j.where>>
            <7>1. c[1] = v
              OBVIOUS
            <7> HIDE DEF c
            <7>2. c \notin Crowds(G)
              BY <1>6, <6>2, <6>3, <7>1
            <7> QED
              BY <1>c, <7>2 DEF c
          <6>4. \A y \in (O0 \ O) \cup (O \ O0) : Values[x] \cap Values[y] = {}
            BY <1>1, <4>4, <6>2
          <6>5. \A y \in (O0 \ O) \cup (O \ O0) : \A v \in Values[x] \cap Values[y] :
                  Decided(y, C0) \/ <<v, j.where>> \in C0
            BY <6>4
          <6> QED
            BY <3>2, <4>4, <6>3, <6>5, ProposalKeeps
        <5> QED
          BY <5>1, <5>2
      <4> QED
        BY <4>2, <4>3, <4>5 DEF j, x
    <3> QED
      BY <3>3, <3>4
  <2> QED
    BY <2>1 DEF UpToDate
<1>19. o.source \in Sources /\ o.at \in Nat /\ \A x \in S : x.at \in Nat
  BY <1>0, ObservationsAssumption, FlowConfigAssumption
<1>20. ClocksAreSane(S, p, f)
  BY DEF Inv
<1>21. /\ ClocksAreSane(S, P, F)
       /\ F # NoTime /\ F \in Nat /\ F <= o.at
       /\ \A r \in Sources : p[r] # NoTime => P[r] \in Nat /\ p[r] \in Nat /\ p[r] <= P[r]
  BY <1>19, <1>20, ClocksAdvance, Zenon
<1>22. ClocksAreSane(S \cup {o}, P, F)
  BY <1>21 DEF ClocksAreSane
<1>23. ClosedArePassed(O, D, P)
  <2>1. ASSUME NEW d \in D, d.finality = FINAL, d.cites = {}, NEW x \in d.observations
        PROVE  /\ \A s \in Sources : P[s] # NoTime /\ x.at + Window + Lateness < P[s]
               /\ \A y \in O : Shares(x, y) => y.at > x.at + Window
    <3>1. /\ \A s \in Sources : p[s] # NoTime /\ x.at + Window + Lateness < p[s]
          /\ \A y \in O0 : Shares(x, y) => y.at > x.at + Window
      BY <2>1 DEF Inv, ClosedArePassed
    <3>2. x \in S /\ x.at \in Nat
      BY <1>19, <2>1 DEF Inv, ProofsAreUnique
    <3>3. o.at > x.at + Window
      BY <1>19, <1>20, <3>1, <3>2, OnTimeIsAfterClosed
    <3>4. ASSUME NEW s \in Sources
          PROVE  P[s] # NoTime /\ x.at + Window + Lateness < P[s]
      <4>1. p[s] # NoTime /\ x.at + Window + Lateness < p[s]
        BY <3>1
      <4>2. P[s] \in Nat /\ p[s] \in Nat /\ p[s] <= P[s]
        BY <1>21, <4>1
      <4> QED
        BY <3>2, <4>1, <4>2, WatermarksAssumption, FlowConfigAssumption DEF NoTime
    <3> QED
      BY <3>1, <3>3, <3>4
  <2> QED
    BY <2>1 DEF ClosedArePassed
<1> QED
  BY <1>7, <1>11, <1>13, <1>14, <1>15, <1>16, <1>17, <1>18, <1>22, <1>23 DEF Inv
-----------------------------------------------------------------------------
(* The entries *)

LEMMA SettleEffect ==
  ASSUME NEW p, NEW f, NEW O, NEW Q, NEW I, NEW due, NEW crowd, NEW cur,
         Settle(p, f, O, Q, I, due, crowd, cur),
         NEW mark, mark = Watermark(p, f), NEW finality, finality = Finality(p, f),
         NEW closing, closing = Closing(O, Q, mark),
         NEW gone, gone = Gone(O, Q, I, due, mark)
  PROVE  /\ progress' = p /\ first_at' = f
         /\ open' = O \ gone
         /\ pending' = Q \ Popped(Q, mark)
         /\ settled' = I \ gone
         /\ crowded' = RemainingCrowds(crowd, closing)
         /\ current' = Finalised(cur, gone, finality)
         /\ dossiers' = dossiers \cup NewProofs(O, closing, gone, I, finality)
BY DEF Settle, Closing, Gone, Popped, Finalised, NewProofs

LEMMA SettleStep ==
  ASSUME NEW S, NEW p, NEW f, NEW O, NEW Q, NEW I, NEW due \in SUBSET I, NEW crowd, NEW cur,
         Inv(S, O, Q, I, crowd, cur, dossiers, p, f), f # NoTime,
         \A x \in due : Past(x, Watermark(p, f)),
         Settle(p, f, O, Q, I, due, crowd, cur), seen' = S
  PROVE  FlowInv'
<1>1. PICK mark : mark = Watermark(p, f)
  OBVIOUS
<1>2. PICK finality : finality = Finality(p, f)
  OBVIOUS
<1>3. PICK closing : closing = Closing(O, Q, mark)
  OBVIOUS
<1>4. PICK gone : gone = Gone(O, Q, I, due, mark)
  OBVIOUS
<1>5. Inv(S, O \ gone, Q \ Popped(Q, mark), I \ gone, RemainingCrowds(crowd, closing),
          Finalised(cur, gone, finality),
          dossiers \cup NewProofs(O, closing, gone, I, finality), p, f)
  BY <1>1, <1>2, <1>3, <1>4, SettleKeeps
<1>6. /\ progress' = p /\ first_at' = f
      /\ open' = O \ gone
      /\ pending' = Q \ Popped(Q, mark)
      /\ settled' = I \ gone
      /\ crowded' = RemainingCrowds(crowd, closing)
      /\ current' = Finalised(cur, gone, finality)
      /\ dossiers' = dossiers \cup NewProofs(O, closing, gone, I, finality)
  BY <1>1, <1>2, <1>3, <1>4, SettleEffect
<1> QED
  BY <1>5, <1>6 DEF FlowInv

LEMMA ClocksKeep ==
  ASSUME FlowInv, NEW s \in Sources, NEW t \in Nat,
         NEW P, NEW F, IsAdvance(progress, first_at, s, t, P, F)
  PROVE  Inv(seen, open, pending, settled, crowded, current, dossiers, P, F) /\ F # NoTime
<1>1. /\ SetsNest(seen, open, pending, settled)
      /\ \A x \in seen : x.at \in Nat
  BY ObservationsAssumption DEF FlowInv, Inv, SetsNest
<1>2. /\ ClocksAreSane(seen, P, F)
      /\ F # NoTime /\ F \in Nat /\ F <= t
      /\ \A r \in Sources : progress[r] # NoTime =>
           P[r] \in Nat /\ progress[r] \in Nat /\ progress[r] <= P[r]
  <2>1. ClocksAreSane(seen, progress, first_at)
    BY DEF FlowInv, Inv
  <2> QED
    BY <1>1, <2>1, ClocksAdvance
<1>3. ClosedArePassed(open, dossiers, P)
  <2>1. \A d \in dossiers : \A x \in d.observations : x.at \in Nat
    BY <1>1 DEF FlowInv, Inv, ProofsAreUnique
  <2>2. ClosedArePassed(open, dossiers, progress)
    BY DEF FlowInv, Inv
  <2> QED
    BY <1>2, <2>1, <2>2, PassedStayPassed
<1> QED
  BY <1>2, <1>3 DEF FlowInv, Inv

LEMMA AdvanceKeeps ==
  ASSUME FlowInv, NEW s \in Sources, NEW until \in Untils, Advance(s, until)
  PROVE  FlowInv'
<1> DEFINE P == Advanced(progress, s, until)
           F == FirstAt(first_at, until)
           none == {}
<1>1. Settle(P, F, open, pending, settled, none, crowded, current) /\ seen' = seen
  BY DEF Advance
<1>2. until \in Nat /\ IsAdvance(progress, first_at, s, until, P, F)
  BY FlowConfigAssumption DEF IsAdvance
<1>3. none \in SUBSET settled /\ \A x \in none : Past(x, Watermark(P, F))
  OBVIOUS
<1> HIDE DEF P, F
<1>4. Inv(seen, open, pending, settled, crowded, current, dossiers, P, F) /\ F # NoTime
  BY <1>2, ClocksKeep
<1> QED
  BY <1>1, <1>3, <1>4, SettleStep

LEMMA AdmitKeeps ==
  ASSUME FlowInv, NEW o \in Observations, o \notin seen, ~ IsLate(o), Admit(o), seen' = seen \cup {o}
  PROVE  FlowInv'
<1> DEFINE P == Advanced(progress, o.source, o.at)
           F == FirstAt(first_at, o.at)
           O == open \cup {o}
           G == Group[O][o] \ settled
           crowd == crowded \cup Crowds(G)
           decided == {x \in G : Decided(x, crowd)}
           cur == Evaluated(G, crowd, current)
           due == {x \in decided : Past(x, Watermark(P, F))}
<1>1. Settle(P, F, O, pending \cup {o}, settled \cup decided, due, crowd, cur)
  BY DEF Admit, Evaluated
<1>2. /\ IsEvaluation(O, settled, crowded, current, o, G, crowd, decided, cur)
      /\ IsAdvance(progress, first_at, o.source, o.at, P, F)
  BY DEF IsEvaluation, IsAdvance
<1>3. O = open \cup {o} /\ due \subseteq settled \cup decided
  OBVIOUS
<1>4. \A x \in due : Past(x, Watermark(P, F))
  OBVIOUS
<1>5. ~ IsUnder(progress, first_at, o.at)
  BY DEF IsLate
<1>6. F # NoTime
  BY ObservationsAssumption DEF FirstAt, NoTime
<1> HIDE DEF P, F, O, G, crowd, decided, cur, due
<1>7. Inv(seen \cup {o}, O, pending \cup {o}, settled \cup decided, crowd, cur, dossiers, P, F)
  BY <1>2, <1>3, <1>5, EvaluateKeeps DEF FlowInv
<1>8. due \in SUBSET (settled \cup decided)
  BY <1>3
<1> QED
  BY <1>1, <1>4, <1>6, <1>7, <1>8, SettleStep

(* A decision final on arrival concerns nobody else. *)
LEMMA TurnKeeps ==
  ASSUME FlowInv, NEW o \in Observations, o \notin seen, seen' = seen \cup {o},
         NEW kind \in {LATE, VALUE_AFTER_FINAL}, NEW value, Turn(o, kind, value)
  PROVE  FlowInv'
<1> DEFINE h == <<Nowhere, o>>
           told == Decision(Plain([kind |-> kind, value |-> value, partners |-> {}]), FINAL)
<1>0. /\ seen \subseteq Observations /\ open \subseteq seen /\ pending \subseteq open
      /\ settled \subseteq open
  BY DEF FlowInv, Inv, SetsNest
<1>1. told.status = FINAL /\ told.proposal.kind = kind /\ told.proposal.partners = {}
  <2> DEFINE r == [kind |-> kind, value |-> value, partners |-> {}]
  <2>1. r.kind = kind /\ r.partners = {}
    OBVIOUS
  <2>2. told = Decision(Plain(r), FINAL)
    OBVIOUS
  <2> HIDE DEF r, told
  <2>3. told.status = FINAL /\ told.proposal = Plain(r)
    BY <2>2 DEF Decision
  <2> QED
    BY <2>1, <2>3, ToldFacts
<1>2. h[2] = o /\ h = <<h[1], h[2]>>
  OBVIOUS
<1>3. \A k \in DOMAIN current : /\ k = <<k[1], k[2]>> /\ k[2] \in seen /\ k[2] # o
                                /\ k[2] \in open => k \in BusinessKeys({k[2]})
  BY DEF FlowInv, Inv, KeysAreKnown
<1>4. h \notin DOMAIN current
  BY <1>2, <1>3
<1>5. /\ DOMAIN current' = DOMAIN current \cup {h}
      /\ \A k \in DOMAIN current : current'[k] = current[k]
      /\ current'[h] = told
  BY <1>4 DEF Turn
<1> HIDE DEF told
<1>6. ToldIn(current', o)
  BY <1>1, <1>5 DEF ToldIn
<1> HIDE DEF h
<1>7. ASSUME NEW x \in seen
      PROVE  ToldIn(current', x) <=> ToldIn(current, x)
  <2> DEFINE k == <<Nowhere, x>>
  <2>1. k # h
    BY <1>7 DEF h
  <2>2. k \in DOMAIN current' <=> k \in DOMAIN current
    BY <1>5, <2>1
  <2> HIDE DEF k
  <2>3. k \in DOMAIN current => current'[k] = current[k]
    BY <1>5
  <2> QED
    BY <2>2, <2>3 DEF ToldIn, k
<1>8. UNCHANGED <<open, pending, settled, crowded, dossiers>>
  BY DEF Turn
<1>9. o \notin open
  BY <1>0
<1>10. SetsNest(seen', open', pending', settled')
  BY <1>0, <1>8 DEF SetsNest
<1>11. CrowdsAreAuthored(crowded') /\ SettledAreDecided(settled', crowded')
  BY <1>8 DEF FlowInv, Inv
<1>12. KeysAreKnown(seen', open', current')
  <2>1. ASSUME NEW k \in DOMAIN current'
        PROVE  /\ k = <<k[1], k[2]>> /\ k[2] \in seen'
               /\ k[2] \in open' => k \in BusinessKeys({k[2]})
    BY <1>2, <1>3, <1>5, <1>8, <1>9, <2>1
  <2>2. ASSUME NEW x \in open'
        PROVE  BusinessKeys({x}) \subseteq DOMAIN current' /\ ~ ToldIn(current', x)
    <3>1. BusinessKeys({x}) \subseteq DOMAIN current /\ ~ ToldIn(current, x) /\ x \in seen
      BY <1>0, <1>8, <2>2 DEF FlowInv, Inv, KeysAreKnown
    <3> QED
      BY <1>5, <1>7, <3>1
  <2> QED
    BY <2>1, <2>2 DEF KeysAreKnown
<1>13. OpenIsProvisional(open', current')
  <2>1. \A k \in DOMAIN current : current[k].status = PROVISIONAL <=> k[2] \in open
    BY DEF FlowInv, Inv, OpenIsProvisional
  <2>2. FINAL # PROVISIONAL
    BY DEF FINAL, PROVISIONAL
  <2>3. ASSUME NEW k \in DOMAIN current'
        PROVE  current'[k].status = PROVISIONAL <=> k[2] \in open'
    BY <1>1, <1>2, <1>5, <1>8, <1>9, <2>1, <2>2, <2>3
  <2> QED
    BY <2>3 DEF OpenIsProvisional
<1>14. PartnersGoTogether(open', settled', current')
  <2>1. ASSUME NEW k \in DOMAIN current', NEW x \in current'[k].proposal.partners
        PROVE  /\ <<k[1], x>> \in DOMAIN current'
               /\ current'[<<k[1], x>>].status = current'[k].status
               /\ k[2] \in open' => x \in open' \ settled' /\ k[2] \notin settled' /\ Shares(k[2], x)
    <3>1. k \in DOMAIN current /\ x \in current[k].proposal.partners /\ current'[k] = current[k]
      BY <1>1, <1>5, <2>1
    <3>2. /\ <<k[1], x>> \in DOMAIN current
          /\ current[<<k[1], x>>].status = current[k].status
          /\ k[2] \in open => x \in open \ settled /\ k[2] \notin settled /\ Shares(k[2], x)
      BY <3>1 DEF FlowInv, Inv, PartnersGoTogether
    <3> QED
      BY <1>5, <1>8, <3>1, <3>2
  <2> QED
    BY <2>1 DEF PartnersGoTogether
<1>15. ProofsAreUnique(seen', open', current', dossiers')
  <2>1. /\ \A d \in dossiers : \A x \in d.observations : x \in seen \ open /\ ~ ToldIn(current, x)
        /\ \A x \in seen \ open : ToldIn(current, x) \/ HasOneProof(x, current, dossiers)
    BY DEF FlowInv, Inv, ProofsAreUnique
  <2>2. ASSUME NEW d \in dossiers', NEW x \in d.observations
        PROVE  x \in seen' \ open' /\ ~ ToldIn(current', x)
    BY <1>7, <1>8, <2>1, <2>2
  <2>3. ASSUME NEW x \in seen \ open, ~ ToldIn(current, x)
        PROVE  HasOneProof(x, current', dossiers')
    <3>1. PICK d \in dossiers : /\ x \in d.observations
                                /\ \A e \in dossiers : x \in e.observations => e = d
                                /\ \A k \in DOMAIN current : k[2] = x => current[k].status = d.finality
      BY <2>1, <2>3 DEF HasOneProof
    <3>2. \A k \in DOMAIN current' : k[2] = x => current'[k].status = d.finality
      BY <1>2, <1>5, <2>3, <3>1
    <3> QED
      BY <1>8, <3>1, <3>2 DEF HasOneProof
  <2>4. ASSUME NEW x \in seen' \ open'
        PROVE  ToldIn(current', x) \/ HasOneProof(x, current', dossiers')
    <3>1. CASE x = o
      BY <1>6, <3>1
    <3>2. CASE x \in seen \ open
      BY <1>7, <2>3, <3>2
    <3> QED
      BY <1>8, <2>4, <3>1, <3>2
  <2> QED
    BY <2>2, <2>4 DEF ProofsAreUnique
<1>16. UpToDate(open', crowded', current')
  <2>1. ASSUME NEW k \in BusinessKeys(open)
        PROVE  current'[k] = Decision(Proposal(open, crowded, JoinAt(k[1]), k[2]), PROVISIONAL)
    <3>1. k[2] \in open /\ k \in BusinessKeys({k[2]})
      <4>1. open \in SUBSET Observations
        BY <1>0
      <4> QED
        BY <2>1, <4>1, KeyFacts
    <3>2. k \in DOMAIN current
      BY <3>1 DEF FlowInv, Inv, KeysAreKnown
    <3>3. current[k] = Decision(Proposal(open, crowded, JoinAt(k[1]), k[2]), PROVISIONAL)
      BY <2>1 DEF FlowInv, Inv, UpToDate
    <3> QED
      BY <1>5, <3>2, <3>3
  <2> QED
    BY <1>8, <2>1 DEF UpToDate
<1>17. /\ ClocksAreSane(seen, progress', first_at')
       /\ first_at' # NoTime /\ first_at' \in Nat /\ first_at' <= o.at
       /\ \A r \in Sources : progress[r] # NoTime =>
            progress'[r] \in Nat /\ progress[r] \in Nat /\ progress[r] <= progress'[r]
  <2>1. o.source \in Sources /\ o.at \in Nat /\ \A x \in seen : x.at \in Nat
    BY <1>0, ObservationsAssumption, FlowConfigAssumption
  <2>2. /\ ClocksAreSane(seen, progress, first_at)
        /\ IsAdvance(progress, first_at, o.source, o.at, progress', first_at')
    BY DEF FlowInv, Inv, Turn, IsAdvance
  <2> QED
    BY <2>1, <2>2, ClocksAdvance
<1>18. ClocksAreSane(seen', progress', first_at')
  BY <1>17 DEF ClocksAreSane
<1>19. ClosedArePassed(open', dossiers', progress')
  <2>1. \A d \in dossiers : \A x \in d.observations : x.at \in Nat
    BY <1>0, ObservationsAssumption DEF FlowInv, Inv, ProofsAreUnique
  <2>2. ClosedArePassed(open, dossiers, progress)
    BY DEF FlowInv, Inv
  <2> QED
    BY <1>8, <1>17, <2>1, <2>2, PassedStayPassed
<1> QED
  BY <1>10, <1>11, <1>12, <1>13, <1>14, <1>15, <1>16, <1>18, <1>19 DEF FlowInv, Inv

LEMMA FlowInvInitially ==
  ASSUME Init
  PROVE  FlowInv
<1> USE DEF Init
<1>1. /\ SetsNest(seen, open, pending, settled)
      /\ CrowdsAreAuthored(crowded)
      /\ SettledAreDecided(settled, crowded)
  BY DEF SetsNest, CrowdsAreAuthored, SettledAreDecided
<1>2. DOMAIN current = {}
  OBVIOUS
<1>3. /\ KeysAreKnown(seen, open, current)
      /\ OpenIsProvisional(open, current)
      /\ PartnersGoTogether(open, settled, current)
  BY <1>2 DEF KeysAreKnown, OpenIsProvisional, PartnersGoTogether
<1>4. /\ ProofsAreUnique(seen, open, current, dossiers)
      /\ UpToDate(open, crowded, current)
      /\ ClosedArePassed(open, dossiers, progress)
  BY DEF ProofsAreUnique, UpToDate, ClosedArePassed, BusinessKeys
<1>5. ClocksAreSane(seen, progress, first_at)
  <2>1. NoTime <= 0 /\ 0 \in Nat
    BY DEF NoTime
  <2> QED
    BY <2>1 DEF ClocksAreSane
<1> QED
  BY <1>1, <1>3, <1>4, <1>5 DEF FlowInv, Inv

LEMMA FlowInvKept ==
  ASSUME FlowInv, [Next]_vars
  PROVE  FlowInv'
<1>1. ASSUME NEW o \in Observations, Seen(o)
      PROVE  FlowInv'
  <2>1. o \notin seen /\ seen' = seen \cup {o}
    BY <1>1 DEF Seen, IsKnown
  <2>2. CASE Turn(o, LATE, NoValue)
    BY <2>1, <2>2, TurnKeeps
  <2>3. CASE Turn(o, VALUE_AFTER_FINAL, CHOOSE v \in Reused(o) : TRUE)
    BY <2>1, <2>3, TurnKeeps
  <2>4. CASE ~ IsLate(o) /\ Admit(o)
    BY <2>1, <2>4, AdmitKeeps
  <2> QED
    BY <1>1, <2>2, <2>3, <2>4 DEF Seen
<1>2. ASSUME NEW o \in Observations, Redeliver(o) \/ Refuse(o)
      PROVE  FlowInv'
  BY <1>2 DEF Redeliver, Refuse, FlowInv
<1>3. ASSUME NEW s \in Sources, NEW until \in Untils, Advance(s, until)
      PROVE  FlowInv'
  BY <1>3, AdvanceKeeps
<1>4. CASE UNCHANGED vars
  BY <1>4 DEF vars, FlowInv
<1> QED
  BY <1>1, <1>2, <1>3, <1>4 DEF Next

LEMMA FlowInvAlways == Spec => []FlowInv
<1>1. Init => FlowInv
  BY FlowInvInitially
<1>2. FlowInv /\ [Next]_vars => FlowInv'
  BY FlowInvKept
<1> QED
  BY <1>1, <1>2, PTL DEF Spec

(* Settling touches the decisions of the open ones only. *)
LEMMA SettleKeepsFinal ==
  ASSUME NEW S, NEW p, NEW f, NEW O, NEW Q, NEW I, NEW due \in SUBSET I, NEW crowd, NEW cur,
         Inv(S, O, Q, I, crowd, cur, dossiers, p, f),
         \A x \in due : Past(x, Watermark(p, f)),
         Settle(p, f, O, Q, I, due, crowd, cur),
         NEW k \in DOMAIN cur, k[2] \notin O
  PROVE  k \in DOMAIN current' /\ current'[k] = cur[k]
<1>1. PICK mark : mark = Watermark(p, f)
  OBVIOUS
<1>2. PICK finality : finality = Finality(p, f)
  OBVIOUS
<1>3. PICK closing : closing = Closing(O, Q, mark)
  OBVIOUS
<1>4. PICK gone : gone = Gone(O, Q, I, due, mark)
  OBVIOUS
<1>5. current' = Finalised(cur, gone, finality)
  BY <1>1, <1>2, <1>3, <1>4, SettleEffect
<1>6. gone \subseteq O
  <2>1. O \in SUBSET Observations /\ Q \in SUBSET O /\ I \in SUBSET O
    BY DEF Inv, SetsNest
  <2>2. Closing(O, Q, mark) \subseteq O
    BY <2>1, GroupFacts DEF Closing, Popped
  <2> QED
    BY <1>4, <2>1, <2>2 DEF Gone, Leaving
<1> QED
  BY <1>5, <1>6, FinalisedFacts

LEMMA ProofsStay ==
  ASSUME FlowInv, [Next]_vars
  PROVE  dossiers \subseteq dossiers'
<1>1. ASSUME NEW p, NEW f, NEW O, NEW Q, NEW I, NEW due, NEW crowd, NEW cur,
             Settle(p, f, O, Q, I, due, crowd, cur)
      PROVE  dossiers \subseteq dossiers'
  BY <1>1 DEF Settle
<1>2. ASSUME NEW o \in Observations, Admit(o)
      PROVE  dossiers \subseteq dossiers'
  BY <1>1, <1>2 DEF Admit
<1>3. ASSUME NEW o \in Observations, Seen(o)
      PROVE  dossiers \subseteq dossiers'
  BY <1>2, <1>3 DEF Seen, Turn
<1>4. ASSUME NEW s \in Sources, NEW until \in Untils, Advance(s, until)
      PROVE  dossiers \subseteq dossiers'
  BY <1>1, <1>4 DEF Advance
<1>5. ASSUME NEW o \in Observations, Redeliver(o) \/ Refuse(o)
      PROVE  dossiers \subseteq dossiers'
  BY <1>5 DEF Redeliver, Refuse
<1>6. CASE UNCHANGED vars
  BY <1>6 DEF vars
<1> QED
  BY <1>3, <1>4, <1>5, <1>6 DEF Next

LEMMA FinalStays ==
  ASSUME FlowInv, [Next]_vars, NEW k \in DOMAIN current, current[k].status # PROVISIONAL
  PROVE  k \in DOMAIN current' /\ current'[k] = current[k]
<1>0. /\ k[2] \in seen /\ k[2] \notin open
      /\ open \subseteq seen /\ seen \subseteq Observations
  BY DEF FlowInv, Inv, KeysAreKnown, OpenIsProvisional, SetsNest
<1>1. ASSUME NEW o \in Observations, o \notin seen, ~ IsLate(o), Admit(o)
      PROVE  k \in DOMAIN current' /\ current'[k] = current[k]
  <2> DEFINE P == Advanced(progress, o.source, o.at)
             F == FirstAt(first_at, o.at)
             O == open \cup {o}
             G == Group[O][o] \ settled
             crowd == crowded \cup Crowds(G)
             decided == {x \in G : Decided(x, crowd)}
             cur == Evaluated(G, crowd, current)
             due == {x \in decided : Past(x, Watermark(P, F))}
  <2>1. Settle(P, F, O, pending \cup {o}, settled \cup decided, due, crowd, cur)
    BY <1>1 DEF Admit, Evaluated
  <2>2. /\ IsEvaluation(O, settled, crowded, current, o, G, crowd, decided, cur)
        /\ IsAdvance(progress, first_at, o.source, o.at, P, F)
    BY DEF IsEvaluation, IsAdvance
  <2>3. O = open \cup {o} /\ due \in SUBSET (settled \cup decided)
    OBVIOUS
  <2>4. \A x \in due : Past(x, Watermark(P, F))
    OBVIOUS
  <2>5. ~ IsUnder(progress, first_at, o.at)
    BY <1>1 DEF IsLate
  <2>6. G \subseteq O
    BY <1>0, GroupFacts
  <2>7. IsReevaluated(cur, G, crowd, current)
    BY EvaluatedFacts
  <2> HIDE DEF P, F, O, G, crowd, decided, cur, due
  <2>8. Inv(seen \cup {o}, O, pending \cup {o}, settled \cup decided, crowd, cur, dossiers, P, F)
    BY <1>1, <2>2, <2>3, <2>5, EvaluateKeeps DEF FlowInv
  <2>9. k[2] \notin O
    BY <1>0, <1>1, <2>3
  <2>10. k \notin BusinessKeys(G)
    <3>1. G \in SUBSET Observations
      BY <1>0, <2>3, <2>6
    <3> QED
      BY <2>6, <2>9, <3>1, KeyFacts
  <2>11. k \in DOMAIN cur /\ cur[k] = current[k]
    BY <2>7, <2>10 DEF IsReevaluated
  <2> QED
    BY <2>1, <2>3, <2>4, <2>8, <2>9, <2>11, SettleKeepsFinal
<1>2. ASSUME NEW o, NEW kind, NEW value, Turn(o, kind, value)
      PROVE  k \in DOMAIN current' /\ current'[k] = current[k]
  BY <1>2 DEF Turn
<1>3. ASSUME NEW o \in Observations, Seen(o)
      PROVE  k \in DOMAIN current' /\ current'[k] = current[k]
  <2>1. o \notin seen
    BY <1>3 DEF Seen, IsKnown
  <2> QED
    BY <1>1, <1>2, <1>3, <2>1 DEF Seen
<1>4. ASSUME NEW s \in Sources, NEW until \in Untils, Advance(s, until)
      PROVE  k \in DOMAIN current' /\ current'[k] = current[k]
  <2> DEFINE P == Advanced(progress, s, until)
             F == FirstAt(first_at, until)
             none == {}
  <2>1. Settle(P, F, open, pending, settled, none, crowded, current)
    BY <1>4 DEF Advance
  <2>2. until \in Nat /\ IsAdvance(progress, first_at, s, until, P, F)
    BY FlowConfigAssumption DEF IsAdvance
  <2>3. none \in SUBSET settled /\ \A x \in none : Past(x, Watermark(P, F))
    OBVIOUS
  <2> HIDE DEF P, F
  <2>4. Inv(seen, open, pending, settled, crowded, current, dossiers, P, F)
    BY <2>2, ClocksKeep
  <2> QED
    BY <1>0, <2>1, <2>3, <2>4, SettleKeepsFinal
<1>5. ASSUME NEW o \in Observations, Redeliver(o) \/ Refuse(o)
      PROVE  k \in DOMAIN current' /\ current'[k] = current[k]
  BY <1>5 DEF Redeliver, Refuse
<1>6. CASE UNCHANGED vars
  BY <1>6 DEF vars
<1> QED
  BY <1>3, <1>4, <1>5, <1>6 DEF Next
-----------------------------------------------------------------------------
(* The theorems *)

(* "An observation under the watermark [...] changes nothing final": no    *)
(* entry of the journal (flow.py: feed) changes a decision once final or   *)
(* forced, or withdraws a proof.                                           *)
THEOREM FinalDecisionsStay == Spec => FinalIsForever
<1> DEFINE A == /\ \A k \in DOMAIN current : current[k].status # PROVISIONAL =>
                     k \in DOMAIN current' /\ current'[k] = current[k]
                /\ dossiers \subseteq dossiers'
<1>1. FlowInv /\ [Next]_vars => [A]_vars
  BY FinalStays, ProofsStay
<1> QED
  BY <1>1, FlowInvAlways, PTL DEF Spec, FinalIsForever

(* Evaluating the newcomer's group alone, and never a settled member again *)
(* (_evaluate), is enough: every open decision is what the joins of all    *)
(* the open observations say now.                                          *)
THEOREM OpenStaysUpToDate == Spec => []OpenIsUpToDate
<1>1. FlowInv => OpenIsUpToDate
  BY DEF FlowInv, Inv, UpToDate, OpenIsUpToDate
<1> QED
  BY <1>1, FlowInvAlways, PTL

(* "They become final together" (_settle): every observation delivered is  *)
(* open, told on arrival, or in exactly one proof, and a decision and its  *)
(* partners' have the same status.                                         *)
THEOREM EveryoneGetsOneProof == Spec => []OneProofEach
<1>1. ASSUME FlowInv
      PROVE  OneProofEach
  <2>0. /\ \A d \in dossiers : \A o \in d.observations : o \in seen \ open /\ ~ ToldIn(current, o)
        /\ \A o \in seen \ open : ToldIn(current, o) \/ HasOneProof(o, current, dossiers)
    BY <1>1 DEF FlowInv, Inv, ProofsAreUnique
  <2>1. \A o : IsTold(o) <=> ToldIn(current, o)
    BY DEF IsTold, ToldIn
  <2>2. ASSUME NEW o \in seen
        PROVE  LET proofs == {d \in dossiers : o \in d.observations}
               IN  /\ Cardinality(proofs) = IF o \in open \/ IsTold(o) THEN 0 ELSE 1
                   /\ \A d \in proofs, k \in DOMAIN current : k[2] = o => current[k].status = d.finality
    <3> DEFINE proofs == {d \in dossiers : o \in d.observations}
    <3>1. CASE o \in open \/ IsTold(o)
      <4>1. proofs = {}
        BY <2>0, <2>1, <3>1
      <4> QED
        BY <3>1, <4>1, FS_EmptySet
    <3>2. CASE ~ (o \in open \/ IsTold(o))
      <4>1. PICK d \in dossiers : /\ o \in d.observations
                                  /\ \A e \in dossiers : o \in e.observations => e = d
                                  /\ \A k \in DOMAIN current : k[2] = o => current[k].status = d.finality
        BY <2>0, <2>1, <2>2, <3>2 DEF HasOneProof
      <4>2. proofs = {d}
        BY <4>1
      <4>3. Cardinality(proofs) = 1
        BY <4>2, FS_Singleton
      <4> QED
        BY <3>2, <4>1, <4>2, <4>3
    <3> QED
      BY <3>1, <3>2
  <2>3. ASSUME NEW k \in DOMAIN current, NEW x \in current[k].proposal.partners
        PROVE  <<k[1], x>> \in DOMAIN current /\ current[<<k[1], x>>].status = current[k].status
    BY <1>1, <2>3 DEF FlowInv, Inv, PartnersGoTogether
  <2> QED
    BY <2>2, <2>3 DEF OneProofEach
<1> QED
  BY <1>1, FlowInvAlways, PTL

(* "No on-time observation can change them" (_settle): however late,       *)
(* silent or fast the sources are, an open observation that shares a value *)
(* with one whose group closed unforced came after its window.             *)
THEOREM ClosedGroupsMissNobody == Spec => []ClosedGainsNoNeighbour
<1>1. ASSUME FlowInv
      PROVE  ClosedGainsNoNeighbour
  <2>1. ASSUME NEW x \in ClosedWhole, NEW y \in open, Shares(x, y)
        PROVE  y.at > x.at + Window
    <3>1. PICK d \in dossiers : d.finality = FINAL /\ d.cites = {} /\ x \in d.observations
      BY <2>1 DEF ClosedWhole
    <3> QED
      BY <1>1, <2>1, <3>1 DEF FlowInv, Inv, ClosedArePassed
  <2> QED
    BY <2>1 DEF ClosedGainsNoNeighbour
<1> QED
  BY <1>1, FlowInvAlways, PTL
-----------------------------------------------------------------------------
(* What is ripe closes.  The queue is popped once: a member that came out  *)
(* before the rest of its group is reached again through another member,   *)
(* which is still in the queue.                                            *)

IsPassed(x, p) == \A s \in Sources : p[s] # NoTime /\ x.at + Window + Lateness < p[s]

PoppedArePassed(O, Q, p) == \A x \in O \ Q : IsPassed(x, p)

GroupsArePending(O, Q) == \A x \in O : Group[O][x] \cap Q # {}

NoneForgotten(O, Q, I, p) == I \subseteq Q /\ PoppedArePassed(O, Q, p) /\ GroupsArePending(O, Q)

NoneIsForgotten == NoneForgotten(open, pending, settled, progress)

LEMMA GroupGrows ==
  ASSUME NEW O \in SUBSET Observations, NEW U \in SUBSET Observations, O \subseteq U, NEW x \in O
  PROVE  Group[O][x] \subseteq Group[U][x]
<1>1. /\ Group[O][x] = {y \in O : \A S \in ClosedSets(O) : x \in S => y \in S}
      /\ Group[U][x] = {y \in U : \A S \in ClosedSets(U) : x \in S => y \in S}
  BY GroupDef
<1>2. \A S \in ClosedSets(U) : S \cap O \in ClosedSets(O)
  BY DEF ClosedSets
<1> QED
  BY <1>1, <1>2

(* A settled member has one value, so those it connects share that value:  *)
(* a group does not fall apart when settled members leave it.              *)
LEMMA GroupHoldsTogether ==
  ASSUME NEW O \in SUBSET Observations, NEW gone \in SUBSET O, NEW x \in O \ gone, NEW C,
         \A y \in gone, z \in O \ gone : Shares(y, z) => Decided(y, C)
  PROVE  Group[O][x] \ gone \subseteq Group[O \ gone][x]
<1> DEFINE U == O \ gone
<1>1. /\ Group[O][x] = {y \in O : \A S \in ClosedSets(O) : x \in S => y \in S}
      /\ Group[U][x] = {y \in U : \A S \in ClosedSets(U) : x \in S => y \in S}
  BY GroupDef
<1>2. ASSUME NEW S \in ClosedSets(U), x \in S, NEW w \in Group[O][x] \ gone
      PROVE  w \in S
  <2> DEFINE T == S \cup {y \in gone : \E z \in S : Shares(y, z)}
  <2>1. S \subseteq U /\ \A y \in S, z \in U : Shares(y, z) => z \in S
    BY DEF ClosedSets
  <2>2. ASSUME NEW z \in S, NEW y \in O, Shares(z, y)
        PROVE  y \in T
    BY <2>1, <2>2, SharesIsSymmetric
  <2>3. ASSUME NEW y \in gone, NEW z \in S, Shares(y, z), NEW v \in O, Shares(y, v)
        PROVE  Shares(z, v)
    <3>1. Decided(y, C)
      BY <2>1, <2>3
    <3>2. PICK u : Values[y] = {u}
      BY <3>1 DEF Decided
    <3> QED
      BY <2>3, <3>2 DEF Shares
  <2>4. T \in ClosedSets(O)
    <3>1. T \subseteq O
      BY <2>1
    <3>2. ASSUME NEW y \in T, NEW v \in O, Shares(y, v)
          PROVE  v \in T
      <4>1. CASE y \in S
        <5> HIDE DEF T
        <5> QED
          BY <2>2, <3>2, <4>1
      <4>2. CASE y \in gone /\ \E z \in S : Shares(y, z)
        <5>1. PICK z \in S : Shares(y, z)
          BY <4>2
        <5>2. Shares(z, v)
          BY <2>3, <3>2, <4>2, <5>1
        <5> HIDE DEF T
        <5> QED
          BY <2>2, <5>2
      <4> QED
        BY <3>2, <4>1, <4>2
    <3> QED
      BY <3>1, <3>2 DEF ClosedSets
  <2>5. x \in T
    BY <1>2
  <2> HIDE DEF T
  <2>6. w \in T /\ w \notin gone
    BY <1>1, <1>2, <2>4, <2>5
  <2> QED
    BY <2>6 DEF T
<1> QED
  BY <1>1, <1>2

(* What every source has passed, the watermark has. *)
LEMMA PassedIsPast ==
  ASSUME NEW S, NEW p, NEW f, ClocksAreSane(S, p, f), f # NoTime, NEW x, x.at \in Nat, IsPassed(x, p)
  PROVE  Past(x, Watermark(p, f))
<1>1. PICK s \in Holding(p, f) : Watermark(p, f) = Effective(p, f, s) - Lateness
  BY WatermarkFacts
<1>2. s \in Sources
  BY <1>1 DEF Holding
<1>3. p[s] # NoTime /\ x.at + Window + Lateness < p[s]
  BY <1>2 DEF IsPassed
<1>4. p[s] \in Nat /\ Effective(p, f, s) = p[s]
  BY <1>2, <1>3 DEF ClocksAreSane, Effective
<1> QED
  BY <1>1, <1>3, <1>4, WatermarksAssumption, FlowConfigAssumption DEF Past

LEMMA SettleForgetsNone ==
  ASSUME NEW S, NEW O, NEW Q, NEW I, NEW C, NEW cur, NEW D, NEW p, NEW f,
         Inv(S, O, Q, I, C, cur, D, p, f), f # NoTime, MaxSilence = Unbounded,
         PoppedArePassed(O, Q, p), GroupsArePending(O, Q),
         NEW mark, mark = Watermark(p, f),
         NEW due \in SUBSET I, \A x \in due : Past(x, mark), I \ Q \subseteq due,
         NEW closing, closing = Closing(O, Q, mark),
         NEW gone, gone = Gone(O, Q, I, due, mark)
  PROVE  /\ NoneForgotten(O \ gone, Q \ Popped(Q, mark), I \ gone, p)
         /\ \A x \in Q \ Popped(Q, mark) : ~ Past(x, mark)
<1>0. /\ S \subseteq Observations /\ O \subseteq S /\ Q \subseteq O /\ I \subseteq O
      /\ O \in SUBSET Observations /\ \A x \in O : x \in S /\ x.at \in Nat
  BY ObservationsAssumption DEF Inv, SetsNest
<1>1. /\ closing \subseteq gone /\ gone \subseteq O /\ gone \ closing \subseteq I
      /\ \A x \in closing, y \in O : Shares(x, y) => y \in closing
      /\ Q \ Popped(Q, mark) \subseteq O \ gone
  <2>1. O \in SUBSET Observations /\ Q \in SUBSET O /\ I \in SUBSET O
    BY <1>0
  <2>2. IsLeaving(O, Q, I, mark, closing, gone)
    BY <2>1, ClosingFacts
  <2> QED
    BY <2>2 DEF IsLeaving
<1>2. ClocksAreSane(S, p, f)
  BY DEF Inv
<1>3. \A x \in O : IsPassed(x, p) => Past(x, mark)
  BY <1>0, <1>2, PassedIsPast
<1>4. \A x \in O : Past(x, mark) => IsPassed(x, p)
  <2>1. Holding(p, f) = Sources
    BY DEF Holding
  <2> QED
    BY <1>0, <1>2, <2>1, HoldersHavePassed DEF IsPassed
<1>5. \A x \in Q : x \in Popped(Q, mark) <=> Past(x, mark)
  BY DEF Popped
<1>6. I \ gone \subseteq Q \ Popped(Q, mark)
  <2>1. due \cup (Popped(Q, mark) \cap I) \subseteq gone
    BY DEF Gone, Leaving
  <2> QED
    BY <2>1
<1>7. PoppedArePassed(O \ gone, Q \ Popped(Q, mark), p)
  BY <1>0, <1>4, <1>5 DEF PoppedArePassed
<1>8. GroupsArePending(O \ gone, Q \ Popped(Q, mark))
  <2>1. SUFFICES ASSUME NEW x \in O \ gone, Group[O \ gone][x] \cap (Q \ Popped(Q, mark)) = {}
                 PROVE  FALSE
    BY DEF GroupsArePending
  <2>2. \A y \in gone, z \in O \ gone : Shares(y, z) => Decided(y, C)
    <3>1. \A y \in I : Decided(y, C)
      BY DEF Inv, SettledAreDecided
    <3> QED
      BY <1>1, <3>1
  <2>3. Group[O][x] \ gone \subseteq Group[O \ gone][x]
    <3>1. gone \in SUBSET O
      BY <1>1
    <3> QED
      BY <1>0, <2>2, <3>1, GroupHoldsTogether
  <2>4. Group[O][x] \cap (Q \ Popped(Q, mark)) = {}
    BY <1>1, <2>1, <2>3
  <2>5. /\ x \in Group[O][x] /\ Group[O][x] \subseteq O
        /\ \A y \in Group[O][x] : Group[O][y] = Group[O][x]
    BY <1>0, <2>1, GroupFacts
  <2>6. \A y \in Group[O][x] : Past(y, mark)
    BY <1>3, <1>5, <2>4, <2>5 DEF PoppedArePassed
  <2>7. PICK y \in Group[O][x] : y \in Q
    BY <2>1 DEF GroupsArePending
  <2>8. y \in Popped(Q, mark) /\ Group[O][y] = Group[O][x]
    BY <1>5, <2>5, <2>6, <2>7
  <2>9. x \in closing
    BY <2>5, <2>6, <2>8 DEF Closing
  <2> QED
    BY <1>1, <2>1, <2>9
<1> QED
  BY <1>5, <1>6, <1>7, <1>8 DEF NoneForgotten

LEMMA StaysPassed ==
  ASSUME NEW x, x.at \in Nat, NEW p, NEW P, IsPassed(x, p),
         \A r \in Sources : p[r] # NoTime => P[r] \in Nat /\ p[r] \in Nat /\ p[r] <= P[r]
  PROVE  IsPassed(x, P)
<1>1. ASSUME NEW r \in Sources
      PROVE  P[r] # NoTime /\ x.at + Window + Lateness < P[r]
  <2>1. p[r] # NoTime /\ x.at + Window + Lateness < p[r]
    BY DEF IsPassed
  <2>2. P[r] \in Nat /\ p[r] \in Nat /\ p[r] <= P[r]
    BY <2>1
  <2> QED
    BY <2>1, <2>2, WatermarksAssumption, FlowConfigAssumption DEF NoTime
<1> QED
  BY <1>1 DEF IsPassed

LEMMA PoppedStayPassed ==
  ASSUME FlowInv, PoppedArePassed(open, pending, progress), NEW s \in Sources, NEW t \in Nat,
         NEW P, NEW F, IsAdvance(progress, first_at, s, t, P, F)
  PROVE  PoppedArePassed(open, pending, P)
<1>1. open \subseteq seen /\ \A x \in seen : x.at \in Nat
  BY ObservationsAssumption DEF FlowInv, Inv, SetsNest
<1>2. ClocksAreSane(seen, progress, first_at)
  BY DEF FlowInv, Inv
<1>3. \A r \in Sources : progress[r] # NoTime =>
        P[r] \in Nat /\ progress[r] \in Nat /\ progress[r] <= P[r]
  BY <1>1, <1>2, ClocksAdvance
<1>4. ASSUME NEW x \in open \ pending
      PROVE  IsPassed(x, P)
  <2>1. IsPassed(x, progress) /\ x.at \in Nat
    BY <1>1, <1>4 DEF PoppedArePassed
  <2> QED
    BY <1>3, <2>1, StaysPassed
<1> QED
  BY <1>4 DEF PoppedArePassed

LEMMA SettleStepForgetsNone ==
  ASSUME NEW S, NEW p, NEW f, NEW O, NEW Q, NEW I, NEW due \in SUBSET I, NEW crowd, NEW cur,
         Inv(S, O, Q, I, crowd, cur, dossiers, p, f), f # NoTime, MaxSilence = Unbounded,
         PoppedArePassed(O, Q, p), GroupsArePending(O, Q),
         \A x \in due : Past(x, Watermark(p, f)), I \ Q \subseteq due,
         Settle(p, f, O, Q, I, due, crowd, cur)
  PROVE  /\ NoneIsForgotten'
         /\ \A x \in pending' : ~ Past(x, Watermark(progress', first_at'))
<1>1. PICK mark : mark = Watermark(p, f)
  OBVIOUS
<1>2. PICK finality : finality = Finality(p, f)
  OBVIOUS
<1>3. PICK closing : closing = Closing(O, Q, mark)
  OBVIOUS
<1>4. PICK gone : gone = Gone(O, Q, I, due, mark)
  OBVIOUS
<1>5. /\ NoneForgotten(O \ gone, Q \ Popped(Q, mark), I \ gone, p)
      /\ \A x \in Q \ Popped(Q, mark) : ~ Past(x, mark)
  BY <1>1, <1>3, <1>4, SettleForgetsNone
<1>6. /\ progress' = p /\ first_at' = f
      /\ open' = O \ gone
      /\ pending' = Q \ Popped(Q, mark)
      /\ settled' = I \ gone
  BY <1>1, <1>2, <1>3, <1>4, SettleEffect
<1> QED
  BY <1>1, <1>5, <1>6 DEF NoneIsForgotten

LEMMA AdvanceForgetsNone ==
  ASSUME FlowInv, NoneIsForgotten, MaxSilence = Unbounded,
         NEW s \in Sources, NEW until \in Untils, Advance(s, until)
  PROVE  /\ NoneIsForgotten'
         /\ \A x \in pending' : ~ Past(x, Watermark(progress', first_at'))
<1> DEFINE P == Advanced(progress, s, until)
           F == FirstAt(first_at, until)
           none == {}
<1>1. Settle(P, F, open, pending, settled, none, crowded, current)
  BY DEF Advance
<1>2. until \in Nat /\ IsAdvance(progress, first_at, s, until, P, F)
  BY FlowConfigAssumption DEF IsAdvance
<1>3. none \in SUBSET settled /\ \A x \in none : Past(x, Watermark(P, F))
  OBVIOUS
<1> HIDE DEF P, F
<1>4. Inv(seen, open, pending, settled, crowded, current, dossiers, P, F) /\ F # NoTime
  BY <1>2, ClocksKeep
<1>5. /\ settled \ pending \subseteq none
      /\ PoppedArePassed(open, pending, progress) /\ GroupsArePending(open, pending)
  BY DEF NoneIsForgotten, NoneForgotten
<1>6. PoppedArePassed(open, pending, P)
  BY <1>2, <1>5, PoppedStayPassed
<1> HIDE DEF none
<1> QED
  BY <1>1, <1>3, <1>4, <1>5, <1>6, SettleStepForgetsNone

LEMMA AdmitForgetsNone ==
  ASSUME FlowInv, NoneIsForgotten, MaxSilence = Unbounded,
         NEW o \in Observations, o \notin seen, ~ IsLate(o), Admit(o)
  PROVE  NoneIsForgotten'
<1> DEFINE P == Advanced(progress, o.source, o.at)
           F == FirstAt(first_at, o.at)
           O == open \cup {o}
           Q == pending \cup {o}
           G == Group[O][o] \ settled
           crowd == crowded \cup Crowds(G)
           decided == {x \in G : Decided(x, crowd)}
           cur == Evaluated(G, crowd, current)
           due == {x \in decided : Past(x, Watermark(P, F))}
<1>1. Settle(P, F, O, Q, settled \cup decided, due, crowd, cur)
  BY DEF Admit, Evaluated
<1>2. /\ IsEvaluation(O, settled, crowded, current, o, G, crowd, decided, cur)
      /\ IsAdvance(progress, first_at, o.source, o.at, P, F)
  BY DEF IsEvaluation, IsAdvance
<1>3. O = open \cup {o} /\ Q = pending \cup {o} /\ due \in SUBSET (settled \cup decided)
  OBVIOUS
<1>4. \A x \in decided : x \in due <=> Past(x, Watermark(P, F))
  OBVIOUS
<1>5. due \subseteq decided
  OBVIOUS
<1>6. ~ IsUnder(progress, first_at, o.at)
  BY DEF IsLate
<1>7. F # NoTime /\ o.at \in Nat /\ o.source \in Sources
  BY ObservationsAssumption, FlowConfigAssumption DEF FirstAt, NoTime
<1>8. /\ open \subseteq seen /\ seen \subseteq Observations /\ O \in SUBSET Observations
      /\ open \in SUBSET Observations /\ \A x \in O : x.at \in Nat
  BY <1>7, ObservationsAssumption DEF FlowInv, Inv, SetsNest
<1>9. decided \subseteq O
  BY <1>8, GroupFacts
<1> HIDE DEF P, F, O, Q, G, crowd, decided, cur, due
<1>10. Inv(seen \cup {o}, O, Q, settled \cup decided, crowd, cur, dossiers, P, F)
  BY <1>2, <1>3, <1>6, EvaluateKeeps DEF FlowInv
<1>11. /\ settled \subseteq pending
       /\ PoppedArePassed(open, pending, progress) /\ GroupsArePending(open, pending)
  BY DEF NoneIsForgotten, NoneForgotten
<1>12. PoppedArePassed(O, Q, P)
  <2>1. PoppedArePassed(open, pending, P)
    BY <1>2, <1>7, <1>11, PoppedStayPassed
  <2> QED
    BY <1>3, <2>1 DEF PoppedArePassed
<1>13. GroupsArePending(O, Q)
  <2>1. o \in Group[O][o] /\ o \in Q
    BY <1>3, <1>8, GroupFacts
  <2>2. ASSUME NEW x \in open
        PROVE  Group[O][x] \cap Q # {}
    <3>1. Group[open][x] \cap pending # {}
      BY <1>11, <2>2 DEF GroupsArePending
    <3>2. Group[open][x] \subseteq Group[O][x]
      BY <1>3, <1>8, <2>2, GroupGrows
    <3> QED
      BY <1>3, <3>1, <3>2
  <2> QED
    BY <1>3, <2>1, <2>2 DEF GroupsArePending
<1>14. (settled \cup decided) \ Q \subseteq due
  <2>1. ASSUME NEW x \in decided, x \notin Q
        PROVE  x \in due
    <3>1. IsPassed(x, P) /\ x.at \in Nat
      BY <1>8, <1>9, <1>12, <2>1 DEF PoppedArePassed
    <3>2. ClocksAreSane(seen \cup {o}, P, F)
      BY <1>10 DEF Inv
    <3>3. Past(x, Watermark(P, F))
      BY <1>7, <3>1, <3>2, PassedIsPast
    <3> QED
      BY <1>4, <2>1, <3>3
  <2> QED
    BY <1>3, <1>11, <2>1
<1>15. \A x \in due : Past(x, Watermark(P, F))
  BY <1>4, <1>5
<1> QED
  BY <1>1, <1>3, <1>7, <1>10, <1>12, <1>13, <1>14, <1>15, SettleStepForgetsNone

LEMMA TurnForgetsNone ==
  ASSUME FlowInv, NoneIsForgotten, NEW o \in Observations, NEW kind, NEW value, Turn(o, kind, value)
  PROVE  NoneIsForgotten'
<1>1. o.source \in Sources /\ o.at \in Nat
  BY ObservationsAssumption, FlowConfigAssumption
<1>2. IsAdvance(progress, first_at, o.source, o.at, progress', first_at')
  BY DEF Turn, IsAdvance
<1>3. /\ settled \subseteq pending
      /\ PoppedArePassed(open, pending, progress) /\ GroupsArePending(open, pending)
  BY DEF NoneIsForgotten, NoneForgotten
<1>4. PoppedArePassed(open, pending, progress')
  BY <1>1, <1>2, <1>3, PoppedStayPassed
<1>5. UNCHANGED <<open, pending, settled>>
  BY DEF Turn
<1> QED
  BY <1>3, <1>4, <1>5 DEF NoneIsForgotten, NoneForgotten

LEMMA NoneForgottenKept ==
  ASSUME MaxSilence = Unbounded, FlowInv, NoneIsForgotten, [Next]_vars
  PROVE  NoneIsForgotten'
<1>1. ASSUME NEW o \in Observations, Seen(o)
      PROVE  NoneIsForgotten'
  <2>1. o \notin seen
    BY <1>1 DEF Seen, IsKnown
  <2> QED
    BY <1>1, <2>1, TurnForgetsNone, AdmitForgetsNone DEF Seen
<1>2. ASSUME NEW o \in Observations, Redeliver(o) \/ Refuse(o)
      PROVE  NoneIsForgotten'
  BY <1>2 DEF Redeliver, Refuse, NoneIsForgotten
<1>3. ASSUME NEW s \in Sources, NEW until \in Untils, Advance(s, until)
      PROVE  NoneIsForgotten'
  BY <1>3, AdvanceForgetsNone
<1>4. CASE UNCHANGED vars
  BY <1>4 DEF vars, NoneIsForgotten
<1> QED
  BY <1>1, <1>2, <1>3, <1>4 DEF Next

(* With no bound on silence, when a source advances (_settle) every group  *)
(* and every settled observation the watermark has passed is closed by     *)
(* that entry, though each leaves the queue by event time only once.       *)
THEOREM RipeGroupsClose == MaxSilence = Unbounded => (Spec => AdvanceClosesRipe)
<1> SUFFICES ASSUME MaxSilence = Unbounded
             PROVE  Spec => AdvanceClosesRipe
  OBVIOUS
<1> DEFINE A == (\E s \in Sources, until \in Untils : Advance(s, until)) =>
                  (/\ ~ \E G \in OpenGroups : Ripe(G)
                   /\ ~ \E o \in settled : Ripe({o}))'
<1>1. Init => NoneIsForgotten
  BY DEF Init, NoneIsForgotten, NoneForgotten, PoppedArePassed, GroupsArePending
<1>2. NoneIsForgotten /\ FlowInv /\ [Next]_vars => NoneIsForgotten'
  BY NoneForgottenKept
<1>3. FlowInv /\ NoneIsForgotten /\ [Next]_vars => [A]_vars
  <2>1. ASSUME FlowInv, NoneIsForgotten, NEW s \in Sources, NEW until \in Untils, Advance(s, until)
        PROVE  (/\ ~ \E G \in OpenGroups : Ripe(G)
                /\ ~ \E o \in settled : Ripe({o}))'
    <3>1. /\ NoneIsForgotten'
          /\ \A x \in pending' : ~ Past(x, Watermark(progress', first_at'))
      BY <2>1, AdvanceForgetsNone
    <3>2. /\ settled' \subseteq pending'
          /\ \A x \in open' : Group[open'][x] \cap pending' # {}
      BY <3>1 DEF NoneIsForgotten, NoneForgotten, GroupsArePending
    <3> QED
      BY <3>1, <3>2 DEF OpenGroups, Ripe
  <2> QED
    BY <2>1
<1> QED
  BY <1>1, <1>2, <1>3, FlowInvAlways, PTL DEF Spec, AdvanceClosesRipe
-----------------------------------------------------------------------------
(* What a join says of those that have left stays what it says of all:     *)
(* nobody admitted later carries an authored value of a closed group, a    *)
(* member of a collision that left alone leaves the collision behind, and, *)
(* while values come back within the window, nobody admitted later shares  *)
(* a connection with a closed group either.                                *)

Admits(S, cur) == {o \in S : ~ ToldIn(cur, o)}

Collides(A, j, v) == Cardinality(At(A, j.up, v)) > 1 \/ Cardinality(At(A, j.down, v)) > 1

KeysAreJoined(A, cur) ==
  /\ \A k \in DOMAIN cur : k \in BusinessKeys(A) \/ ToldIn(cur, k[2])
  /\ BusinessKeys(A) \subseteq DOMAIN cur

OpenAreFresh(O, V) == \A x \in O : AuthoredValues(x) \cap V = {}

(* Those that left: with their group, whose authored values are closed, or *)
(* alone, from collisions that are still remembered.                       *)
LeftAlone(x, C, cur) == Decided(x, C) /\ \A k \in BusinessKeys({x}) : cur[k].proposal.partners = {}

LeftAreSpent(A, O, C, cur, V) ==
  \A x \in A \ O : AuthoredValues(x) \subseteq V \/ LeftAlone(x, C, cur)

CrowdsCollide(A, C) == \A c \in C : \A j \in Joins : c[2] = j.where => Collides(A, j, c[1])

(* A proof that cites its values is that of a settled observation, which   *)
(* has no connection to share.                                             *)
ProofsAreSound(D) ==
  \A d \in D : /\ d.finality \in {FINAL, FORCED}
               /\ d.cites # {} => \A x \in d.observations : Values[x] \subseteq AuthoredValues(x)

Verdict(k, A, cur) ==
  JoinAt(k[1]).observed = {} =>
    cur[k].proposal.kind = Outcome(A, JoinAt(k[1]), JoinAt(k[1]).authored, k[2]).kind

VerdictsHold(A, cur) == \A k \in BusinessKeys(A) : Verdict(k, A, cur)

IsUntroubled(S, cur) ==
  /\ InAssumption(S)
  /\ \A o \in S : ~ ToldIn(cur, o)
  /\ \A k \in DOMAIN cur : cur[k].status # FORCED

Agrees(mine, batch) ==
  /\ mine.kind = batch.kind /\ mine.value = batch.value
  /\ mine = batch \/ (mine.kind = COLLIDED /\ mine.partners = {})

BatchAgreed(S, cur) ==
  IsUntroubled(S, cur) =>
    \A k \in BusinessKeys(S) : Agrees(cur[k].proposal, Proposal(S, {}, JoinAt(k[1]), k[2]))

Tells(S, O, C, cur, D, V) ==
  /\ KeysAreJoined(Admits(S, cur), cur)
  /\ OpenAreFresh(O, V)
  /\ LeftAreSpent(Admits(S, cur), O, C, cur, V)
  /\ CrowdsCollide(Admits(S, cur), C)
  /\ ProofsAreSound(D)
  /\ VerdictsHold(Admits(S, cur), cur)
  /\ BatchAgreed(S, cur)

TellInv == Tells(seen, open, crowded, current, dossiers, closed_values)

LEMMA AtIsFinite ==
  ASSUME NEW A \in SUBSET Observations, NEW B \in SUBSET A, NEW q, NEW v
  PROVE  /\ IsFiniteSet(At(A, q, v)) /\ Cardinality(At(A, q, v)) \in Nat
         /\ Cardinality(At(B, q, v)) \in Nat
         /\ Cardinality(At(B, q, v)) <= Cardinality(At(A, q, v))
<1>1. At(B, q, v) \subseteq At(A, q, v) /\ At(A, q, v) \subseteq Observations
  BY DEF At
<1>2. IsFiniteSet(At(A, q, v)) /\ IsFiniteSet(At(B, q, v))
  BY <1>1, ObservationsAssumption, FS_Subset
<1>3. Cardinality(At(B, q, v)) <= Cardinality(At(A, q, v))
  BY <1>1, <1>2, FS_Subset
<1> QED
  BY <1>2, <1>3, FS_CardinalityType

LEMMA CollidesGrows ==
  ASSUME NEW A \in SUBSET Observations, NEW B \in SUBSET A, NEW j, NEW v, Collides(B, j, v)
  PROVE  Collides(A, j, v)
<1>1. /\ Cardinality(At(A, j.up, v)) \in Nat /\ Cardinality(At(B, j.up, v)) \in Nat
      /\ Cardinality(At(B, j.up, v)) <= Cardinality(At(A, j.up, v))
  BY AtIsFinite
<1>2. /\ Cardinality(At(A, j.down, v)) \in Nat /\ Cardinality(At(B, j.down, v)) \in Nat
      /\ Cardinality(At(B, j.down, v)) <= Cardinality(At(A, j.down, v))
  BY AtIsFinite
<1> QED
  BY <1>1, <1>2 DEF Collides

(* Past the limit, of two at least, one end has more than one. *)
LEMMA CrowdsAreCollisions ==
  ASSUME NEW G \in SUBSET Observations
  PROVE  CrowdsCollide(G, Crowds(G))
<1> SUFFICES ASSUME NEW c \in Crowds(G), NEW j \in Joins, c[2] = j.where
             PROVE  Collides(G, j, c[1])
  BY DEF CrowdsCollide
<1>1. PICK h \in Joins : c \in CrowdedAt(G, h) \X {h.where}
  BY DEF Crowds
<1>2. h.where = j.where /\ c[1] \in CrowdedAt(G, h)
  BY <1>1
<1>3. h = j
  BY <1>2, JoinsAssumption
<1> DEFINE v == c[1]
           ups == At(G, j.up, v)
           downs == At(G, j.down, v)
<1>4. Cardinality(ups \cup downs) > MaxCollisionMembers
  BY <1>2, <1>3 DEF CrowdedAt
<1>5. /\ IsFiniteSet(ups) /\ Cardinality(ups) \in Nat
      /\ IsFiniteSet(downs) /\ Cardinality(downs) \in Nat
  BY AtIsFinite
<1> HIDE DEF ups, downs
<1>6. /\ Cardinality(ups \cup downs) = Cardinality(ups) + Cardinality(downs) - Cardinality(ups \cap downs)
      /\ Cardinality(ups \cap downs) \in Nat
  BY <1>5, FS_Union, FS_Intersection, FS_CardinalityType
<1>7. Cardinality(ups) > 1 \/ Cardinality(downs) > 1
  BY <1>4, <1>5, <1>6, FlowConfigAssumption
<1> QED
  BY <1>7 DEF Collides, ups, downs

LEMMA OutcomeParts ==
  ASSUME NEW A, NEW j, NEW s, NEW o
  PROVE  /\ Outcome(A, j, s, o).kind = COLLIDED <=> Collides(A, j, ValueOf(o, s))
         /\ Outcome(A, j, s, o).value = ValueOf(o, s)
<1> DEFINE v == ValueOf(o, s)
           ups == At(A, j.up, v)
           downs == At(A, j.down, v)
           others == IF o.place = j.up THEN downs ELSE ups
           kind == IF Cardinality(ups) > 1 \/ Cardinality(downs) > 1 THEN COLLIDED
                   ELSE IF others # {} THEN LINKED ELSE UNLINKED
<1>1. Outcome(A, j, s, o) = [kind |-> kind, value |-> v, partners |-> others]
  BY DEF Outcome
<1>2. kind = COLLIDED <=> Collides(A, j, v)
  BY DEF Collides, COLLIDED, LINKED, UNLINKED
<1> HIDE DEF kind, others
<1> QED
  BY <1>1, <1>2

LEMMA PlainFacts ==
  ASSUME NEW outcome
  PROVE  /\ Plain(outcome).kind = outcome.kind /\ Plain(outcome).value = outcome.value
         /\ Plain(outcome).partners = outcome.partners
BY DEF Plain, Told

(* On a value past the limit the collision stands alone. *)
LEMMA CrowdedProposal ==
  ASSUME NEW O, NEW C, NEW j, NEW x, TakesPart(x, j, j.authored),
         <<ValueOf(x, j.authored), j.where>> \in C
  PROVE  /\ Proposal(O, C, j, x).kind = COLLIDED
         /\ Proposal(O, C, j, x).value = ValueOf(x, j.authored)
         /\ Proposal(O, C, j, x).partners = {}
<1> DEFINE c == [kind |-> COLLIDED, value |-> ValueOf(x, j.authored), partners |-> {}]
           b == ObservedOutcome(O, j, x)
<1>1. AuthoredOutcome(O, C, j, x) = c
  BY DEF AuthoredOutcome
<1>2. j.authored # {}
  BY DEF TakesPart, Carries
<1>3. c.kind = COLLIDED /\ c.value = ValueOf(x, j.authored) /\ c.partners = {}
  OBVIOUS
<1> HIDE DEF c, b
<1>4. Combined(j, x, c, b) = Plain(c)
  BY <1>3 DEF Combined, COLLIDED, LINKED, UNLINKED, None
<1>5. Single(j, c) = Plain(c)
  BY <1>3 DEF Single, COLLIDED, LINKED
<1>6. Proposal(O, C, j, x) = Plain(c)
  BY <1>1, <1>2, <1>4, <1>5 DEF Proposal, b
<1> QED
  BY <1>3, <1>6, PlainFacts

(* The same without a limit: the collision with its partners. *)
LEMMA CollidedProposal ==
  ASSUME NEW O, NEW C, NEW j, NEW x, TakesPart(x, j, j.authored), Collides(O, j, ValueOf(x, j.authored))
  PROVE  /\ Proposal(O, C, j, x).kind = COLLIDED
         /\ Proposal(O, C, j, x).value = ValueOf(x, j.authored)
<1>1. CASE <<ValueOf(x, j.authored), j.where>> \in C
  BY <1>1, CrowdedProposal
<1>2. CASE <<ValueOf(x, j.authored), j.where>> \notin C
  <2> DEFINE c == Outcome(O, j, j.authored, x)
             b == ObservedOutcome(O, j, x)
  <2>1. AuthoredOutcome(O, C, j, x) = c
    BY <1>2 DEF AuthoredOutcome
  <2>2. j.authored # {}
    BY DEF TakesPart, Carries
  <2>3. c.kind = COLLIDED /\ c.value = ValueOf(x, j.authored)
    BY OutcomeParts
  <2> HIDE DEF c, b
  <2>4. Combined(j, x, c, b) = Plain(c)
    BY <2>3 DEF Combined, COLLIDED, LINKED, UNLINKED, None
  <2>5. Single(j, c) = Plain(c)
    BY <2>3 DEF Single, COLLIDED, LINKED
  <2>6. Proposal(O, C, j, x) = Plain(c)
    BY <2>1, <2>2, <2>4, <2>5 DEF Proposal, b
  <2> QED
    BY <2>3, <2>6, PlainFacts
<1> QED
  BY <1>1, <1>2

LEMMA OneSignalVerdict ==
  ASSUME NEW O, NEW C, NEW x, NEW j \in JoinsOf(x), j.observed = {}
  PROVE  /\ TakesPart(x, j, j.authored)
         /\ Proposal(O, C, j, x).kind = AuthoredOutcome(O, C, j, x).kind
<1>1. TakesPart(x, j, j.authored)
  BY DEF JoinsOf, TakesPart, Carries
<1>2. j.authored # {}
  BY <1>1 DEF TakesPart, Carries
<1> DEFINE a == AuthoredOutcome(O, C, j, x)
<1>3. Proposal(O, C, j, x) = Single(j, a)
  BY <1>2 DEF Proposal
<1> HIDE DEF a
<1>4. Single(j, a).kind = a.kind
  BY ToldFacts DEF Single
<1> QED
  BY <1>1, <1>3, <1>4 DEF a
(* The holders of a value among two sets, as far as j can tell: an         *)
(* authored one not past the limit, or an observed one.                    *)
SeesAll(x, j, O, A, C) ==
  \A v \in Values[x], q \in {j.up, j.down} : Undecided(C, j, v) => At(O, q, v) = At(A, q, v)

LEMMA ProposalAgrees ==
  ASSUME NEW x \in Observations, NEW j \in Joins, NEW O, NEW A, NEW C,
         CrowdsCollide(A, C), SeesAll(x, j, O, A, C)
  PROVE  Agrees(Proposal(O, C, j, x), Proposal(A, {}, j, x))
<1> DEFINE v == ValueOf(x, j.authored)
<1>1. CASE TakesPart(x, j, j.authored) /\ <<v, j.where>> \in C
  <2>1. /\ Proposal(O, C, j, x).kind = COLLIDED
        /\ Proposal(O, C, j, x).value = v
        /\ Proposal(O, C, j, x).partners = {}
    BY <1>1, CrowdedProposal
  <2>2. Collides(A, j, v)
    <3> DEFINE c == <<v, j.where>>
    <3>1. c \in C /\ c[1] = v /\ c[2] = j.where
      BY <1>1
    <3> HIDE DEF c, v
    <3> QED
      BY <3>1 DEF CrowdsCollide
  <2>3. Proposal(A, {}, j, x).kind = COLLIDED /\ Proposal(A, {}, j, x).value = v
    BY <1>1, <2>2, CollidedProposal
  <2> QED
    BY <2>1, <2>3 DEF Agrees
<1>2. CASE ~ (TakesPart(x, j, j.authored) /\ <<v, j.where>> \in C)
  <2>1. AuthoredOutcome(O, C, j, x) = AuthoredOutcome(A, {}, j, x)
    <3>1. CASE ~ TakesPart(x, j, j.authored)
      BY <3>1 DEF AuthoredOutcome
    <3>2. CASE TakesPart(x, j, j.authored)
      <4>1. v \in Values[x] /\ DOMAIN v = j.authored /\ j.authored # {}
        BY <3>2, SignalIsValue DEF TakesPart, Carries
      <4>2. Undecided(C, j, v)
        BY <1>2, <3>2, <4>1 DEF Undecided
      <4>3. At(O, j.up, v) = At(A, j.up, v) /\ At(O, j.down, v) = At(A, j.down, v)
        BY <4>1, <4>2 DEF SeesAll
      <4>4. Outcome(O, j, j.authored, x) = Outcome(A, j, j.authored, x)
        BY <4>3 DEF Outcome
      <4> QED
        BY <1>2, <3>2, <4>4 DEF AuthoredOutcome
    <3> QED
      BY <3>1, <3>2
  <2>2. ObservedOutcome(O, j, x) = ObservedOutcome(A, j, x)
    <3>1. CASE ~ TakesPart(x, j, j.observed)
      BY <3>1 DEF ObservedOutcome
    <3>2. CASE TakesPart(x, j, j.observed)
      <4> DEFINE u == ValueOf(x, j.observed)
      <4>1. u \in Values[x] /\ DOMAIN u = j.observed /\ j.observed # {}
        BY <3>2, SignalIsValue DEF TakesPart, Carries
      <4>2. Undecided(C, j, u)
        BY <4>1 DEF Undecided
      <4>3. At(O, j.up, u) = At(A, j.up, u) /\ At(O, j.down, u) = At(A, j.down, u)
        BY <4>1, <4>2 DEF SeesAll
      <4>4. Outcome(O, j, j.observed, x) = Outcome(A, j, j.observed, x)
        BY <4>3 DEF Outcome
      <4> QED
        BY <3>2, <4>4 DEF ObservedOutcome
    <3> QED
      BY <3>1, <3>2
  <2>3. Proposal(O, C, j, x) = Proposal(A, {}, j, x)
    BY <2>1, <2>2 DEF Proposal
  <2> QED
    BY <2>3 DEF Agrees
<1> QED
  BY <1>1, <1>2

AuthoredAreOpen(O, A, C) ==
  \A x \in O, j \in Joins : \A v \in Values[x], q \in {j.up, j.down} :
    DOMAIN v = j.authored /\ j.authored # {} /\ <<v, j.where>> \notin C => At(O, q, v) = At(A, q, v)

(* An authored value of an open observation has no holder that left, but   *)
(* for the settled ones of a collision.                                    *)
LEMMA OpenSeesAuthored ==
  ASSUME NEW A \in SUBSET Observations, NEW O \in SUBSET A, NEW C, NEW cur, NEW V,
         CrowdsAreAuthored(C), OpenAreFresh(O, V), LeftAreSpent(A, O, C, cur, V)
  PROVE  AuthoredAreOpen(O, A, C)
<1> SUFFICES ASSUME NEW x \in O, NEW j \in Joins, NEW v \in Values[x], NEW q \in {j.up, j.down},
                    DOMAIN v = j.authored, j.authored # {}, <<v, j.where>> \notin C
             PROVE  At(O, q, v) = At(A, q, v)
  BY DEF AuthoredAreOpen
<1>1. ASSUME NEW y \in A \ O, y.place = q, v \in Values[y]
      PROVE  FALSE
  <2>1. DOMAIN v \in AuthoredSignals
    BY DEF AuthoredSignals
  <2>2. v \in AuthoredValues(x) /\ v \in AuthoredValues(y)
    BY <1>1, <2>1 DEF AuthoredValues
  <2>3. v \notin V
    BY <2>2 DEF OpenAreFresh
  <2>4. Decided(y, C)
    BY <1>1, <2>2, <2>3 DEF LeftAreSpent, LeftAlone
  <2>5. Undecided(C, j, v) /\ y \in Observations /\ y.place \in {j.up, j.down}
    BY <1>1 DEF Undecided
  <2> QED
    BY <1>1, <2>4, <2>5, SettledIsAside
<1> QED
  BY <1>1 DEF At

NoConnectionLeft(S, O) ==
  \A x \in O, j \in Joins : \A v \in Values[x], y \in S \ O :
    ~ (y.place \in {j.up, j.down} /\ v \in Values[y] /\ DOMAIN v = j.observed /\ j.observed # {})

(* With values that come back within the window and nothing forced, a      *)
(* connection of an open observation has no holder that left.              *)
LEMMA OpenSeesObserved ==
  ASSUME NEW S, NEW O, NEW Q, NEW I, NEW C, NEW cur, NEW D, NEW p, NEW f,
         Inv(S, O, Q, I, C, cur, D, p, f), BusinessKeys(S) \subseteq DOMAIN cur,
         ProofsAreSound(D), IsUntroubled(S, cur)
  PROVE  NoConnectionLeft(S, O)
<1> SUFFICES ASSUME NEW x \in O, NEW j \in Joins, NEW v \in Values[x], NEW y \in S \ O,
                    y.place \in {j.up, j.down}, v \in Values[y], DOMAIN v = j.observed, j.observed # {}
             PROVE  FALSE
  BY DEF NoConnectionLeft
<1>0. /\ S \subseteq Observations /\ x \in Observations /\ y \in Observations /\ x \in S
      /\ x.at \in Nat /\ y.at \in Nat
  BY ObservationsAssumption DEF Inv, SetsNest
<1>1. Carries(y, j.observed) /\ j \in JoinsOf(y)
  BY <1>0, ValueFacts DEF JoinsOf, TakesPart
<1>2. <<j.where, y>> \in DOMAIN cur
  BY <1>1, KeyOfJoin
<1>3. ~ ToldIn(cur, y)
  BY DEF IsUntroubled
<1>4. HasOneProof(y, cur, D)
  BY <1>3 DEF Inv, ProofsAreUnique
<1>5. PICK d \in D : /\ y \in d.observations
                     /\ \A k \in DOMAIN cur : k[2] = y => cur[k].status = d.finality
  BY <1>4 DEF HasOneProof
<1>6. d.finality = FINAL
  <2> DEFINE k == <<j.where, y>>
  <2>1. k \in DOMAIN cur /\ k[2] = y
    BY <1>2
  <2> HIDE DEF k
  <2>2. cur[k].status = d.finality
    BY <1>5, <2>1
  <2>3. cur[k].status # FORCED
    BY <2>1 DEF IsUntroubled
  <2> QED
    BY <1>5, <2>2, <2>3 DEF ProofsAreSound
<1>7. d.cites = {}
  <2>1. SUFFICES ASSUME d.cites # {}
                 PROVE  FALSE
    OBVIOUS
  <2>2. v \in AuthoredValues(y)
    BY <1>5, <2>1 DEF ProofsAreSound
  <2>3. PICK h \in Joins : h.authored = DOMAIN v
    BY <2>2 DEF AuthoredValues, AuthoredSignals
  <2>4. h.authored \cap j.observed = {}
    BY JoinsAssumption
  <2> QED
    BY <2>3, <2>4
<1>8. Shares(y, x) /\ Shares(x, y)
  BY DEF Shares
<1>9. x.at > y.at + Window
  BY <1>5, <1>6, <1>7, <1>8 DEF Inv, ClosedArePassed
<1>10. x.at - y.at <= Window
  BY <1>0, <1>8 DEF IsUntroubled, InAssumption
<1> QED
  BY <1>0, <1>9, <1>10, FlowConfigAssumption
(* So the decisions of the open ones are what all those admitted say. *)
LEMMA OpenTells ==
  ASSUME NEW S, NEW O, NEW Q, NEW I, NEW C, NEW cur, NEW D, NEW p, NEW f, NEW V, NEW A,
         Inv(S, O, Q, I, C, cur, D, p, f), A = Admits(S, cur),
         BusinessKeys(A) \subseteq DOMAIN cur, OpenAreFresh(O, V), LeftAreSpent(A, O, C, cur, V),
         CrowdsCollide(A, C), ProofsAreSound(D), NEW k \in BusinessKeys(O)
  PROVE  /\ Verdict(k, A, cur)
         /\ IsUntroubled(S, cur) => Agrees(cur[k].proposal, Proposal(S, {}, JoinAt(k[1]), k[2]))
<1>0. /\ S \subseteq Observations /\ O \subseteq S /\ A \in SUBSET Observations /\ O \in SUBSET Observations
      /\ O \in SUBSET A /\ CrowdsAreAuthored(C)
  BY DEF Inv, SetsNest, KeysAreKnown, Admits
<1> DEFINE x == k[2]
           j == JoinAt(k[1])
<1>1. x \in O /\ j \in JoinsOf(x)
  BY <1>0, KeyFacts
<1>2. j \in Joins /\ x \in Observations
  BY <1>0, <1>1 DEF JoinsOf
<1>3. cur[k].proposal = Proposal(O, C, j, x)
  <2>1. cur[k] = Decision(Proposal(O, C, j, x), PROVISIONAL)
    BY DEF Inv, UpToDate
  <2> QED
    BY <2>1 DEF Decision
<1> HIDE DEF x, j
<1>4. ASSUME NEW v \in Values[x], NEW q \in {j.up, j.down},
             DOMAIN v = j.authored, j.authored # {}, <<v, j.where>> \notin C
      PROVE  At(O, q, v) = At(A, q, v)
  <2>1. AuthoredAreOpen(O, A, C)
    BY <1>0, OpenSeesAuthored
  <2> QED
    BY <1>1, <1>2, <1>4, <2>1 DEF AuthoredAreOpen
<1>5. Verdict(k, A, cur)
  <2> SUFFICES ASSUME j.observed = {}
               PROVE  cur[k].proposal.kind = Outcome(A, j, j.authored, x).kind
    BY DEF Verdict, x, j
  <2>1. SeesAll(x, j, O, A, C)
    BY <1>4 DEF SeesAll, Undecided
  <2>2. Agrees(Proposal(O, C, j, x), Proposal(A, {}, j, x))
    BY <1>2, <2>1, ProposalAgrees
  <2>3. /\ TakesPart(x, j, j.authored)
        /\ Proposal(A, {}, j, x).kind = AuthoredOutcome(A, {}, j, x).kind
    BY <1>1, OneSignalVerdict
  <2>4. AuthoredOutcome(A, {}, j, x) = Outcome(A, j, j.authored, x)
    BY <2>3 DEF AuthoredOutcome
  <2> QED
    BY <1>3, <2>2, <2>3, <2>4 DEF Agrees
<1>6. ASSUME IsUntroubled(S, cur)
      PROVE  Agrees(cur[k].proposal, Proposal(S, {}, j, x))
  <2>1. A = S
    BY <1>6 DEF IsUntroubled, Admits
  <2>2. ASSUME NEW v \in Values[x], NEW q \in {j.up, j.down}, DOMAIN v = j.observed, j.observed # {}
        PROVE  At(O, q, v) = At(S, q, v)
    <3>1. NoConnectionLeft(S, O)
      BY <1>6, <2>1, OpenSeesObserved
    <3>2. ASSUME NEW y \in S \ O, y.place = q, v \in Values[y]
          PROVE  FALSE
      BY <1>1, <1>2, <2>2, <3>1, <3>2 DEF NoConnectionLeft
    <3> QED
      BY <1>0, <3>2 DEF At
  <2>3. SeesAll(x, j, O, S, C)
    BY <1>4, <2>1, <2>2 DEF SeesAll, Undecided
  <2> QED
    BY <1>2, <1>3, <2>1, <2>3, ProposalAgrees
<1> QED
  BY <1>5, <1>6 DEF x, j

(* An observation that left keeps its verdict when another is admitted:    *)
(* they share no value, or a collision that holds both.                    *)
LEMMA ShareOnlyCollisions ==
  ASSUME NEW x \in Observations, NEW C, CrowdsAreAuthored(C), Decided(x, C), NEW j \in JoinsOf(x)
  PROVE  /\ TakesPart(x, j, j.authored) /\ ~ TakesPart(x, j, j.observed)
         /\ Values[x] = {ValueOf(x, j.authored)} /\ <<ValueOf(x, j.authored), j.where>> \in C
<1>1. PICK u : Values[x] = {u} /\ \A h \in JoinsOf(x) : <<u, h.where>> \in C
  BY DEF Decided
<1>2. j \in Joins /\ <<u, j.where>> \in C
  BY <1>1 DEF JoinsOf
<1>3. ~ TakesPart(x, j, j.observed)
  <2>1. SUFFICES ASSUME TakesPart(x, j, j.observed)
                 PROVE  FALSE
    OBVIOUS
  <2>2. /\ ValueOf(x, j.observed) = u /\ DOMAIN ValueOf(x, j.observed) = j.observed
        /\ j.observed # {}
    BY <1>1, <1>2, <2>1, SignalIsValue DEF TakesPart, Carries
  <2> QED
    BY <1>2, <2>2, CrowdedIsDecided
<1>4. TakesPart(x, j, j.authored)
  BY <1>3 DEF JoinsOf
<1>5. ValueOf(x, j.authored) \in Values[x]
  BY <1>2, <1>4, SignalIsValue DEF TakesPart
<1> QED
  BY <1>1, <1>2, <1>3, <1>4, <1>5

VerdictsOfLeftKept(A, O, B) ==
  \A x \in A \ O : \A j \in JoinsOf(x) : j.observed = {} =>
    Outcome(B, j, j.authored, x).kind = Outcome(A, j, j.authored, x).kind

LEMMA LeftKeepsVerdict ==
  ASSUME NEW A \in SUBSET Observations, NEW O \in SUBSET A, NEW C, NEW cur, NEW V,
         CrowdsAreAuthored(C), LeftAreSpent(A, O, C, cur, V), CrowdsCollide(A, C),
         NEW o \in Observations, AuthoredValues(o) \cap V = {}
  PROVE  VerdictsOfLeftKept(A, O, A \cup {o})
<1> DEFINE B == A \cup {o}
<1> SUFFICES ASSUME NEW x \in A \ O, NEW j \in JoinsOf(x), j.observed = {}
             PROVE  Outcome(B, j, j.authored, x).kind = Outcome(A, j, j.authored, x).kind
  BY DEF VerdictsOfLeftKept
<1> DEFINE v == ValueOf(x, j.authored)
<1>0. j \in Joins /\ x \in Observations /\ TakesPart(x, j, j.authored)
  BY OneSignalVerdict DEF JoinsOf
<1>1. v \in Values[x] /\ DOMAIN v = j.authored /\ j.authored # {}
  BY <1>0, SignalIsValue DEF TakesPart, Carries
<1>2. DOMAIN v \in AuthoredSignals
  BY <1>0, <1>1 DEF AuthoredSignals
<1>3. CASE v \notin Values[o]
  <2>1. At(A, j.up, v) = At(B, j.up, v) /\ At(A, j.down, v) = At(B, j.down, v)
    BY <1>3 DEF At
  <2> QED
    BY <2>1 DEF Outcome
<1>4. CASE v \in Values[o]
  <2>1. v \in AuthoredValues(o) /\ v \in AuthoredValues(x)
    BY <1>1, <1>2, <1>4 DEF AuthoredValues
  <2>2. Decided(x, C)
    BY <2>1 DEF LeftAreSpent, LeftAlone
  <2>3. <<v, j.where>> \in C
    BY <1>0, <2>2, ShareOnlyCollisions
  <2>4. Collides(A, j, v)
    <3> DEFINE c == <<v, j.where>>
    <3>1. c \in C /\ c[1] = v /\ c[2] = j.where
      BY <2>3
    <3> HIDE DEF c, v
    <3> QED
      BY <1>0, <3>1 DEF CrowdsCollide
  <2>5. Collides(B, j, v)
    BY <2>4, CollidesGrows
  <2> QED
    BY <2>4, <2>5, OutcomeParts
<1> QED
  BY <1>3, <1>4
LEMMA LeftKeepsBatch ==
  ASSUME NEW S \in SUBSET Observations, NEW C, NEW cur, NEW V, CrowdsAreAuthored(C), CrowdsCollide(S, C),
         NEW o \in Observations, AuthoredValues(o) \cap V = {}, NEW B, B = S \cup {o},
         NEW x \in S, NEW j \in JoinsOf(x), AuthoredValues(x) \subseteq V \/ LeftAlone(x, C, cur),
         \A v \in Values[x] : DOMAIN v = j.observed /\ j.observed # {} => v \notin Values[o],
         NEW k, k = <<j.where, x>>, Agrees(cur[k].proposal, Proposal(S, {}, j, x))
  PROVE  Agrees(cur[k].proposal, Proposal(B, {}, j, x))
<1>0. j \in Joins /\ x \in Observations
  BY DEF JoinsOf
<1>1. CASE AuthoredValues(x) \subseteq V
  <2>1. ASSUME NEW v \in Values[x], Undecided({}, j, v)
        PROVE  v \notin Values[o]
    <3>1. CASE DOMAIN v = j.authored /\ j.authored # {}
      <4>1. DOMAIN v \in AuthoredSignals
        BY <1>0, <3>1 DEF AuthoredSignals
      <4> QED
        BY <1>1, <2>1, <4>1 DEF AuthoredValues
    <3> QED
      BY <2>1, <3>1 DEF Undecided
  <2>2. SeesAll(x, j, S, B, {})
    BY <2>1 DEF SeesAll, At
  <2>3. CrowdsCollide(B, {})
    BY DEF CrowdsCollide
  <2>4. Agrees(Proposal(S, {}, j, x), Proposal(B, {}, j, x))
    BY <1>0, <2>2, <2>3, ProposalAgrees
  <2> QED
    BY <2>4 DEF Agrees
<1>2. CASE LeftAlone(x, C, cur)
  <2> DEFINE v == ValueOf(x, j.authored)
             c == <<v, j.where>>
  <2>1. TakesPart(x, j, j.authored) /\ c \in C /\ c[1] = v /\ c[2] = j.where
    BY <1>0, <1>2, ShareOnlyCollisions DEF LeftAlone
  <2> HIDE DEF c
  <2>2. Collides(S, j, v)
    BY <1>0, <2>1 DEF CrowdsCollide
  <2>3. Collides(B, j, v)
    BY <2>2, CollidesGrows
  <2>4. /\ Proposal(S, {}, j, x).kind = COLLIDED /\ Proposal(S, {}, j, x).value = v
        /\ Proposal(B, {}, j, x).kind = COLLIDED /\ Proposal(B, {}, j, x).value = v
    BY <2>1, <2>2, <2>3, CollidedProposal
  <2>5. cur[k].proposal.partners = {}
    <3>1. k \in BusinessKeys({x})
      BY KeyOfJoin
    <3> QED
      BY <1>2, <3>1 DEF LeftAlone
  <2> QED
    BY <2>4, <2>5 DEF Agrees
<1> QED
  BY <1>1, <1>2

(* _evaluate admits one more, and decides those it shares a group with. *)
LEMMA EvaluateTells ==
  ASSUME NEW S, NEW O0, NEW Q0, NEW I0, NEW C0, NEW cur0, NEW D, NEW p, NEW f, NEW V,
         Inv(S, O0, Q0, I0, C0, cur0, D, p, f), Tells(S, O0, C0, cur0, D, V),
         NEW o \in Observations, o \notin S, AuthoredValues(o) \cap V = {},
         NEW O, O = O0 \cup {o}, NEW G, NEW crowd, NEW decided, NEW cur,
         IsEvaluation(O, I0, C0, cur0, o, G, crowd, decided, cur),
         NEW Q, NEW I, NEW P, NEW F, Inv(S \cup {o}, O, Q, I, crowd, cur, D, P, F)
  PROVE  Tells(S \cup {o}, O, crowd, cur, D, V)
<1> DEFINE A0 == Admits(S, cur0)
           A == Admits(S \cup {o}, cur)
<1>0. /\ S \subseteq Observations /\ O0 \subseteq S /\ O0 \subseteq Observations
      /\ O \in SUBSET Observations /\ O \subseteq S \cup {o} /\ CrowdsAreAuthored(C0)
  BY DEF Inv, SetsNest
<1>1. /\ G \subseteq O /\ G \in SUBSET Observations
  <2>1. O \in SUBSET Observations /\ o \in O
    BY <1>0
  <2>2. Group[O][o] \subseteq O
    BY <2>1, GroupFacts
  <2> QED
    BY <1>0, <2>2 DEF IsEvaluation
<1>2. /\ DOMAIN cur = DOMAIN cur0 \cup BusinessKeys(G)
      /\ \A k \in DOMAIN cur0 \ BusinessKeys(G) : cur[k] = cur0[k]
      /\ \A k \in BusinessKeys(G) : cur[k].status = PROVISIONAL
  <2>1. IsReevaluated(cur, G, crowd, cur0)
    BY EvaluatedFacts DEF IsEvaluation
  <2> QED
    BY <2>1 DEF IsReevaluated
<1>3. \A k \in BusinessKeys(G) : k[2] \in O
  BY <1>1, KeyFacts
<1>4. \A k \in DOMAIN cur0 : k[2] \in S
  BY DEF Inv, KeysAreKnown
<1>5. /\ \A x \in O0 : BusinessKeys({x}) \subseteq DOMAIN cur0 /\ ~ ToldIn(cur0, x)
      /\ \A x \in O : BusinessKeys({x}) \subseteq DOMAIN cur /\ ~ ToldIn(cur, x)
  BY DEF Inv, KeysAreKnown
<1>6. ASSUME NEW x \in S
      PROVE  ToldIn(cur, x) <=> ToldIn(cur0, x)
  <2>1. CASE x \in O
    BY <1>5, <1>6, <2>1
  <2>2. CASE x \notin O
    <3> DEFINE k == <<Nowhere, x>>
    <3>1. k[2] = x
      OBVIOUS
    <3> HIDE DEF k
    <3>2. k \notin BusinessKeys(G)
      BY <1>3, <2>2, <3>1
    <3>3. k \in DOMAIN cur <=> k \in DOMAIN cur0
      BY <1>2, <3>2
    <3>4. k \in DOMAIN cur0 => cur[k] = cur0[k]
      BY <1>2, <3>2
    <3> QED
      BY <3>3, <3>4 DEF ToldIn, k
  <2> QED
    BY <2>1, <2>2
<1>7. A = A0 \cup {o}
  <2>1. ~ ToldIn(cur, o)
    BY <1>5
  <2> QED
    BY <1>6, <2>1 DEF Admits
<1>8. /\ KeysAreJoined(A0, cur0) /\ OpenAreFresh(O0, V) /\ LeftAreSpent(A0, O0, C0, cur0, V)
      /\ CrowdsCollide(A0, C0) /\ ProofsAreSound(D) /\ VerdictsHold(A0, cur0) /\ BatchAgreed(S, cur0)
  BY DEF Tells
<1>9. A0 \in SUBSET Observations /\ A \in SUBSET Observations /\ O0 \in SUBSET A0 /\ O \subseteq A
  BY <1>0, <1>5 DEF Admits
<1> HIDE DEF A, A0
<1>10. ASSUME NEW B \in SUBSET Observations, NEW k \in BusinessKeys(B)
       PROVE  /\ k = <<k[1], k[2]>> /\ k[2] \in B /\ k \in BusinessKeys({k[2]})
              /\ JoinAt(k[1]) \in JoinsOf(k[2]) /\ JoinAt(k[1]).where = k[1]
  BY <1>10, KeyFacts
<1>11. ASSUME NEW k \in BusinessKeys(A0), k[2] \notin O
       PROVE  k \in DOMAIN cur0 /\ cur[k] = cur0[k]
  BY <1>2, <1>3, <1>8, <1>11 DEF KeysAreJoined
<1>12. KeysAreJoined(A, cur)
  <2>1. ASSUME NEW k \in DOMAIN cur
        PROVE  k \in BusinessKeys(A) \/ ToldIn(cur, k[2])
    <3>1. CASE k \in BusinessKeys(G)
      BY <1>1, <1>9, <3>1 DEF BusinessKeys
    <3>2. CASE k \in BusinessKeys(A0)
      BY <1>7, <3>2 DEF BusinessKeys
    <3>3. CASE k \in DOMAIN cur0 /\ ToldIn(cur0, k[2])
      BY <1>4, <1>6, <3>3
    <3> QED
      BY <1>2, <1>8, <2>1, <3>1, <3>2, <3>3 DEF KeysAreJoined
  <2>2. ASSUME NEW k \in BusinessKeys(A)
        PROVE  k \in DOMAIN cur
    <3>1. k[2] \in A /\ k \in BusinessKeys({k[2]})
      BY <1>9, <1>10, <2>2
    <3>2. CASE k[2] = o
      BY <1>5, <3>1, <3>2
    <3>3. CASE k[2] \in A0
      <4>1. k \in BusinessKeys(A0)
        BY <3>1, <3>3, KeysOfOne
      <4> QED
        BY <1>2, <1>8, <4>1 DEF KeysAreJoined
    <3> QED
      BY <1>7, <3>1, <3>2, <3>3
  <2> QED
    BY <2>1, <2>2 DEF KeysAreJoined
<1>13. OpenAreFresh(O, V)
  BY <1>8 DEF OpenAreFresh
<1>14. ASSUME NEW x \in A \ O
       PROVE  x \in A0 \ O0 /\ (AuthoredValues(x) \subseteq V \/ LeftAlone(x, C0, cur0))
  BY <1>7, <1>8, <1>14 DEF LeftAreSpent
<1>15. LeftAreSpent(A, O, crowd, cur, V)
  <2>1. ASSUME NEW x \in A \ O, LeftAlone(x, C0, cur0)
        PROVE  LeftAlone(x, crowd, cur)
    <3>1. Decided(x, crowd)
      <4>1. C0 \subseteq crowd
        BY DEF IsEvaluation
      <4> QED
        BY <2>1, <4>1, DecidedGrows DEF LeftAlone
    <3>2. ASSUME NEW k \in BusinessKeys({x})
          PROVE  cur[k].proposal.partners = {}
      <4>1. {x} \in SUBSET Observations /\ x \in A0
        BY <1>9, <1>14, <2>1
      <4>2. k[2] = x /\ k \in BusinessKeys(A0)
        BY <1>10, <4>1, KeysOfOne
      <4>3. cur[k] = cur0[k]
        BY <1>11, <2>1, <4>2
      <4> QED
        BY <2>1, <4>3 DEF LeftAlone
    <3> QED
      BY <3>1, <3>2 DEF LeftAlone
  <2> QED
    BY <1>14, <2>1 DEF LeftAreSpent
<1>16. CrowdsCollide(A, crowd)
  <2>1. CrowdsCollide(G, Crowds(G))
    BY <1>1, CrowdsAreCollisions
  <2>2. ASSUME NEW c \in crowd, NEW j \in Joins, c[2] = j.where
        PROVE  Collides(A, j, c[1])
    <3>1. CASE c \in C0
      <4>1. Collides(A0, j, c[1]) /\ A0 \in SUBSET A
        BY <1>7, <1>8, <2>2, <3>1 DEF CrowdsCollide
      <4> QED
        BY <1>9, <4>1, CollidesGrows
    <3>2. CASE c \in Crowds(G)
      <4>1. Collides(G, j, c[1]) /\ G \in SUBSET A
        BY <1>1, <1>9, <2>1, <2>2, <3>2 DEF CrowdsCollide
      <4> QED
        BY <1>9, <4>1, CollidesGrows
    <3> QED
      BY <2>2, <3>1, <3>2 DEF IsEvaluation
  <2> QED
    BY <2>2 DEF CrowdsCollide
<1>17. ASSUME NEW k \in BusinessKeys(O)
       PROVE  /\ Verdict(k, A, cur)
              /\ IsUntroubled(S \cup {o}, cur) =>
                   Agrees(cur[k].proposal, Proposal(S \cup {o}, {}, JoinAt(k[1]), k[2]))
  <2>1. BusinessKeys(A) \subseteq DOMAIN cur /\ A = Admits(S \cup {o}, cur)
    BY <1>12 DEF KeysAreJoined, A
  <2> QED
    BY <1>8, <1>13, <1>15, <1>16, <1>17, <2>1, OpenTells
<1>18. VerdictsHold(A, cur)
  <2> SUFFICES ASSUME NEW k \in BusinessKeys(A), k[2] \notin O
               PROVE  Verdict(k, A, cur)
    BY <1>9, <1>10, <1>17, KeysOfOne DEF VerdictsHold
  <2> DEFINE x == k[2]
             j == JoinAt(k[1])
  <2>1. x \in A \ O /\ k \in BusinessKeys({x}) /\ j \in JoinsOf(x)
    BY <1>9, <1>10
  <2>2. x \in A0 \ O0
    BY <1>14, <2>1
  <2>3. k \in BusinessKeys(A0)
    BY <2>1, <2>2, KeysOfOne
  <2>4. cur[k] = cur0[k] /\ Verdict(k, A0, cur0)
    BY <1>8, <1>11, <2>3 DEF VerdictsHold
  <2>5. j.observed = {} => Outcome(A, j, j.authored, x).kind = Outcome(A0, j, j.authored, x).kind
    <3> HIDE DEF x, j
    <3>1. /\ A0 \in SUBSET Observations /\ O0 \in SUBSET A0 /\ A = A0 \cup {o}
          /\ CrowdsAreAuthored(C0) /\ LeftAreSpent(A0, O0, C0, cur0, V) /\ CrowdsCollide(A0, C0)
      BY <1>0, <1>7, <1>8, <1>9
    <3>2. VerdictsOfLeftKept(A0, O0, A0 \cup {o})
      BY <3>1, LeftKeepsVerdict
    <3> QED
      BY <2>1, <2>2, <3>1, <3>2 DEF VerdictsOfLeftKept
  <2> QED
    BY <2>4, <2>5 DEF Verdict
<1>19. BatchAgreed(S \cup {o}, cur)
  <2> SUFFICES ASSUME IsUntroubled(S \cup {o}, cur), NEW k \in BusinessKeys(S \cup {o})
               PROVE  Agrees(cur[k].proposal, Proposal(S \cup {o}, {}, JoinAt(k[1]), k[2]))
    BY DEF BatchAgreed
  <2> DEFINE x == k[2]
             j == JoinAt(k[1])
  <2>0. S \cup {o} \in SUBSET Observations /\ S \in SUBSET Observations
    BY <1>0
  <2>1. x \in S \cup {o} /\ k \in BusinessKeys({x}) /\ j \in JoinsOf(x) /\ k = <<j.where, x>>
    BY <1>10, <2>0
  <2>2. CASE x \in O
    <3>1. k \in BusinessKeys(O)
      BY <2>1, <2>2, KeysOfOne
    <3> QED
      BY <1>17, <3>1
  <2>3. CASE x \notin O
    <3>0. x \in S /\ o \in O
      BY <2>1, <2>3
    <3>1. \A y \in S : ~ ToldIn(cur0, y)
      BY <1>6 DEF IsUntroubled
    <3>2. A0 = S
      BY <3>1 DEF Admits, A0
    <3>3. IsUntroubled(S, cur0)
      <4>1. InAssumption(S)
        BY DEF IsUntroubled, InAssumption
      <4>2. ASSUME NEW h \in DOMAIN cur0, cur0[h].status = FORCED
            PROVE  FALSE
        <5>1. CASE h[2] \in O0
          <6>1. cur0[h].status = PROVISIONAL
            BY <4>2, <5>1 DEF Inv, OpenIsProvisional
          <6> QED
            BY <4>2, <6>1 DEF PROVISIONAL, FORCED
        <5>2. CASE h[2] \notin O0
          <6>1. h \notin BusinessKeys(G)
            BY <1>3, <1>4, <4>2, <5>2
          <6>2. h \in DOMAIN cur /\ cur[h] = cur0[h]
            BY <1>2, <4>2, <6>1
          <6> QED
            BY <4>2, <6>2 DEF IsUntroubled
        <5> QED
          BY <5>1, <5>2
      <4> QED
        BY <3>1, <4>1, <4>2 DEF IsUntroubled
    <3>4. k \in BusinessKeys(S)
      BY <2>1, <3>0, KeysOfOne
    <3>5. cur[k] = cur0[k] /\ Agrees(cur0[k].proposal, Proposal(S, {}, j, x))
      BY <1>8, <1>11, <2>3, <3>2, <3>3, <3>4 DEF BatchAgreed
    <3>6. AuthoredValues(x) \subseteq V \/ LeftAlone(x, C0, cur0)
      BY <1>7, <1>14, <2>3, <3>0, <3>2
    <3>7. j \in Joins /\ x.place \in {j.up, j.down}
      BY <2>1 DEF JoinsOf, TakesPart
    <3>8. BusinessKeys(S \cup {o}) \subseteq DOMAIN cur
      BY <1>7, <1>12, <3>2 DEF KeysAreJoined
    <3> HIDE DEF x, j
    <3>9. ASSUME NEW v \in Values[x], DOMAIN v = j.observed /\ j.observed # {}, v \in Values[o]
          PROVE  FALSE
      <4>1. x \in (S \cup {o}) \ O
        BY <2>3, <3>0
      <4>2. ProofsAreSound(D) /\ o \in O
        BY <1>8, <3>0
      <4>3. NoConnectionLeft(S \cup {o}, O)
        BY <3>8, <4>2, OpenSeesObserved
      <4> QED
        BY <3>7, <3>9, <4>1, <4>2, <4>3 DEF NoConnectionLeft
    <3>10. CrowdsCollide(S, C0)
      BY <1>8, <3>2
    <3>11. Agrees(cur0[k].proposal, Proposal(S \cup {o}, {}, j, x))
      BY <1>0, <2>0, <2>1, <3>0, <3>5, <3>6, <3>9, <3>10, LeftKeepsBatch
    <3> QED
      BY <3>5, <3>11 DEF x, j
  <2> QED
    BY <2>2, <2>3
<1> QED
  BY <1>8, <1>12, <1>13, <1>15, <1>16, <1>18, <1>19 DEF Tells, A
LEMMA DecidedIsAuthored ==
  ASSUME NEW x, NEW C, CrowdsAreAuthored(C), Decided(x, C)
  PROVE  Values[x] \subseteq AuthoredValues(x)
<1>1. PICK v : Values[x] = {v} /\ \E w \in {j.where : j \in Joins} : <<v, w>> \in C
  BY DEF Decided
<1>2. PICK w : <<v, w>> \in C
  BY <1>1
<1> DEFINE c == <<v, w>>
<1>3. c \in C /\ c[1] = v
  BY <1>2
<1> HIDE DEF c
<1>4. DOMAIN v \in AuthoredSignals
  BY <1>3 DEF CrowdsAreAuthored, AuthoredSignals
<1> QED
  BY <1>1, <1>4 DEF AuthoredValues

LEMMA DecidedRemains ==
  ASSUME NEW x, NEW C, Decided(x, C), NEW closing, \A y \in closing : ~ Shares(x, y)
  PROVE  Decided(x, RemainingCrowds(C, closing))
<1>1. PICK v \in Values[x] : /\ Values[x] = {v}
                             /\ \E w \in {j.where : j \in Joins} : <<v, w>> \in C
                             /\ \A j \in JoinsOf(x) : <<v, j.where>> \in C
  BY DEF Decided
<1>2. \A y \in closing : v \notin Values[y]
  BY <1>1 DEF Shares
<1>3. ASSUME NEW w, <<v, w>> \in C
      PROVE  <<v, w>> \in RemainingCrowds(C, closing)
  <2> DEFINE c == <<v, w>>
  <2>1. c \in C /\ c[1] = v
    BY <1>3
  <2> HIDE DEF c
  <2>2. c \in RemainingCrowds(C, closing)
    BY <1>2, <2>1 DEF RemainingCrowds
  <2> QED
    BY <2>2 DEF c
<1> QED
  BY <1>1, <1>3 DEF Decided

ClosedValues(V, closing) == V \cup UNION {AuthoredValues(x) : x \in closing}

(* _settle says nothing new of anybody. *)
LEMMA SettleTells ==
  ASSUME NEW S, NEW O, NEW Q, NEW I, NEW C, NEW cur, NEW D, NEW p, NEW f, NEW V,
         Inv(S, O, Q, I, C, cur, D, p, f), Tells(S, O, C, cur, D, V),
         NEW mark, NEW finality \in {FINAL, FORCED},
         NEW due \in SUBSET I, \A x \in due : Past(x, mark),
         NEW closing, closing = Closing(O, Q, mark),
         NEW gone, gone = Gone(O, Q, I, due, mark)
  PROVE  Tells(S, O \ gone, RemainingCrowds(C, closing), Finalised(cur, gone, finality),
               D \cup NewProofs(O, closing, gone, I, finality), ClosedValues(V, closing))
<1> DEFINE fin == Finalised(cur, gone, finality)
           left == RemainingCrowds(C, closing)
           A == Admits(S, cur)
           spent == ClosedValues(V, closing)
<1>0. /\ S \subseteq Observations /\ O \subseteq S /\ Q \subseteq O /\ I \subseteq O
      /\ O \subseteq Observations /\ CrowdsAreAuthored(C) /\ \A x \in I : Decided(x, C)
  BY DEF Inv, SetsNest, SettledAreDecided
<1>1. /\ closing \subseteq gone /\ gone \subseteq O /\ gone \ closing \subseteq I
      /\ \A x \in closing, y \in O : Shares(x, y) => y \in closing
  <2>1. O \in SUBSET Observations /\ Q \in SUBSET O /\ I \in SUBSET O
    BY <1>0
  <2>2. IsLeaving(O, Q, I, mark, closing, gone)
    BY <2>1, ClosingFacts
  <2> QED
    BY <2>2 DEF IsLeaving
<1>2. /\ DOMAIN fin = DOMAIN cur
      /\ \A k \in DOMAIN cur : /\ fin[k].proposal = cur[k].proposal
                               /\ k[2] \notin gone => fin[k] = cur[k]
      /\ \A x : ToldIn(fin, x) <=> ToldIn(cur, x)
  BY FinalisedFacts
<1> HIDE DEF fin
<1>3. Admits(S, fin) = A
  BY <1>2 DEF Admits
<1>4. /\ KeysAreJoined(A, cur) /\ OpenAreFresh(O, V) /\ LeftAreSpent(A, O, C, cur, V)
      /\ CrowdsCollide(A, C) /\ ProofsAreSound(D) /\ VerdictsHold(A, cur) /\ BatchAgreed(S, cur)
  BY DEF Tells
<1>5. A \subseteq S
  BY DEF Admits
<1> HIDE DEF A
<1>6. KeysAreJoined(A, fin)
  BY <1>2, <1>4 DEF KeysAreJoined
<1>7. OpenAreFresh(O \ gone, spent)
  <2>1. ASSUME NEW x \in O \ gone, NEW v \in AuthoredValues(x), v \in spent
        PROVE  FALSE
    <3>1. v \notin V
      BY <1>4, <2>1 DEF OpenAreFresh
    <3>2. PICK y \in closing : v \in AuthoredValues(y)
      BY <2>1, <3>1 DEF ClosedValues
    <3>3. Shares(y, x)
      BY <2>1, <3>2 DEF Shares, AuthoredValues
    <3> QED
      BY <1>1, <2>1, <3>2, <3>3
  <2> QED
    BY <2>1 DEF OpenAreFresh
<1>8. LeftAreSpent(A, O \ gone, left, fin, spent)
  <2> SUFFICES ASSUME NEW x \in A, x \notin O \ gone, ~ (AuthoredValues(x) \subseteq spent)
               PROVE  LeftAlone(x, left, fin)
    BY DEF LeftAreSpent
  <2>1. x \notin closing
    BY DEF ClosedValues
  <2>2. x \in Observations /\ BusinessKeys({x}) \subseteq DOMAIN cur
    BY <1>0, <1>4, <1>5, KeysOfOne DEF KeysAreJoined
  <2>3. Decided(x, C) /\ \A k \in BusinessKeys({x}) : cur[k].proposal.partners = {}
    <3>1. CASE x \in O
      <4>1. Decided(x, C)
        BY <1>0, <1>1, <2>1, <3>1
      <4>2. ASSUME NEW k \in BusinessKeys({x})
            PROVE  cur[k].proposal.partners = {}
        <5> DEFINE j == JoinAt(k[1])
        <5>1. {x} \in SUBSET Observations
          BY <2>2
        <5>2. k[2] = x /\ j \in JoinsOf(x) /\ k \in BusinessKeys(O)
          BY <3>1, <5>1, KeyFacts, KeysOfOne
        <5>3. cur[k] = Decision(Proposal(O, C, j, x), PROVISIONAL)
          BY <5>2 DEF Inv, UpToDate
        <5>4. TakesPart(x, j, j.authored) /\ <<ValueOf(x, j.authored), j.where>> \in C
          BY <1>0, <2>2, <4>1, <5>2, ShareOnlyCollisions
        <5> HIDE DEF j
        <5>5. Proposal(O, C, j, x).partners = {}
          BY <5>4, CrowdedProposal
        <5> QED
          BY <5>3, <5>5 DEF Decision
      <4> QED
        BY <4>1, <4>2
    <3>2. CASE x \notin O
      <4>1. ~ (AuthoredValues(x) \subseteq V)
        BY DEF ClosedValues
      <4> QED
        BY <1>4, <3>2, <4>1 DEF LeftAreSpent, LeftAlone
    <3> QED
      BY <3>1, <3>2
  <2>4. ASSUME NEW y \in closing, Shares(x, y)
        PROVE  FALSE
    <3>1. PICK v : v \in Values[x] /\ v \in Values[y]
      BY <2>4 DEF Shares
    <3>2. Values[x] \subseteq AuthoredValues(x)
      BY <1>0, <2>3, DecidedIsAuthored
    <3>3. v \in AuthoredValues(y)
      BY <3>1, <3>2 DEF AuthoredValues
    <3>4. Values[x] = {v}
      BY <2>3, <3>1 DEF Decided
    <3>5. AuthoredValues(x) \subseteq {v}
      BY <3>4 DEF AuthoredValues
    <3> QED
      BY <3>3, <3>5 DEF ClosedValues
  <2>5. Decided(x, left)
    BY <2>3, <2>4, DecidedRemains
  <2> QED
    BY <1>2, <2>2, <2>3, <2>5 DEF LeftAlone
<1>9. CrowdsCollide(A, left)
  BY <1>4 DEF CrowdsCollide, RemainingCrowds
<1>10. ProofsAreSound(D \cup NewProofs(O, closing, gone, I, finality))
  <2>1. ASSUME NEW d \in NewProofs(O, closing, gone, I, finality)
        PROVE  /\ d.finality \in {FINAL, FORCED}
               /\ d.cites # {} => \A x \in d.observations : Values[x] \subseteq AuthoredValues(x)
    <3>1. CASE \E x \in closing \ I : d = Dossier(Group[O][x] \ I, finality, {})
      BY <3>1 DEF Dossier
    <3>2. CASE \E x \in gone \cap I : d = Dossier({x}, finality, Values[x])
      <4>1. PICK x \in gone \cap I : d = Dossier({x}, finality, Values[x])
        BY <3>2
      <4>2. d.finality = finality /\ d.observations = {x}
        BY <4>1 DEF Dossier
      <4>3. Values[x] \subseteq AuthoredValues(x)
        BY <1>0, <4>1, DecidedIsAuthored
      <4> QED
        BY <4>2, <4>3
    <3> QED
      BY <2>1, <3>1, <3>2 DEF NewProofs, GroupProofs
  <2> QED
    BY <1>4, <2>1 DEF ProofsAreSound
<1>11. VerdictsHold(A, fin)
  BY <1>2, <1>4 DEF VerdictsHold, Verdict, KeysAreJoined
<1>12. BatchAgreed(S, fin)
  <2> SUFFICES ASSUME IsUntroubled(S, fin), NEW k \in BusinessKeys(S)
               PROVE  Agrees(fin[k].proposal, Proposal(S, {}, JoinAt(k[1]), k[2]))
    BY DEF BatchAgreed
  <2>1. ASSUME NEW h \in DOMAIN cur
        PROVE  cur[h].status # FORCED
    <3>1. CASE h[2] \in gone
      <4>1. cur[h].status = PROVISIONAL
        BY <1>1, <3>1 DEF Inv, OpenIsProvisional
      <4> QED
        BY <4>1 DEF PROVISIONAL, FORCED
    <3>2. CASE h[2] \notin gone
      BY <1>2, <3>2 DEF IsUntroubled
    <3> QED
      BY <3>1, <3>2
  <2>2. IsUntroubled(S, cur)
    BY <1>2, <2>1 DEF IsUntroubled
  <2>3. A = S
    BY <2>2 DEF IsUntroubled, Admits, A
  <2>4. k \in DOMAIN cur
    BY <1>4, <2>3 DEF KeysAreJoined
  <2>5. Agrees(cur[k].proposal, Proposal(S, {}, JoinAt(k[1]), k[2]))
    BY <1>4, <2>2 DEF BatchAgreed
  <2> QED
    BY <1>2, <2>4, <2>5
<1> QED
  BY <1>3, <1>6, <1>7, <1>8, <1>9, <1>10, <1>11, <1>12 DEF Tells, fin
LEMMA SettleStepTells ==
  ASSUME NEW S, NEW p, NEW f, NEW O, NEW Q, NEW I, NEW due \in SUBSET I, NEW crowd, NEW cur,
         Inv(S, O, Q, I, crowd, cur, dossiers, p, f), Tells(S, O, crowd, cur, dossiers, closed_values),
         \A x \in due : Past(x, Watermark(p, f)),
         Settle(p, f, O, Q, I, due, crowd, cur), seen' = S
  PROVE  TellInv'
<1>1. PICK mark : mark = Watermark(p, f)
  OBVIOUS
<1>2. PICK finality : finality = Finality(p, f)
  OBVIOUS
<1>3. PICK closing : closing = Closing(O, Q, mark)
  OBVIOUS
<1>4. PICK gone : gone = Gone(O, Q, I, due, mark)
  OBVIOUS
<1>5. finality \in {FINAL, FORCED}
  BY <1>2 DEF Finality
<1>6. Tells(S, O \ gone, RemainingCrowds(crowd, closing), Finalised(cur, gone, finality),
            dossiers \cup NewProofs(O, closing, gone, I, finality), ClosedValues(closed_values, closing))
  BY <1>1, <1>3, <1>4, <1>5, SettleTells
<1>7. /\ open' = O \ gone
      /\ crowded' = RemainingCrowds(crowd, closing)
      /\ current' = Finalised(cur, gone, finality)
      /\ dossiers' = dossiers \cup NewProofs(O, closing, gone, I, finality)
  BY <1>1, <1>2, <1>3, <1>4, SettleEffect
<1>8. closed_values' = ClosedValues(closed_values, closing)
  BY <1>1, <1>3 DEF Settle, Closing, Popped, ClosedValues
<1> QED
  BY <1>6, <1>7, <1>8 DEF TellInv

LEMMA AdvanceTells ==
  ASSUME FlowInv, TellInv, NEW s \in Sources, NEW until \in Untils, Advance(s, until)
  PROVE  TellInv'
<1> DEFINE P == Advanced(progress, s, until)
           F == FirstAt(first_at, until)
           none == {}
<1>1. Settle(P, F, open, pending, settled, none, crowded, current) /\ seen' = seen
  BY DEF Advance
<1>2. until \in Nat /\ IsAdvance(progress, first_at, s, until, P, F)
  BY FlowConfigAssumption DEF IsAdvance
<1>3. none \in SUBSET settled /\ \A x \in none : Past(x, Watermark(P, F))
  OBVIOUS
<1> HIDE DEF P, F, none
<1>4. Inv(seen, open, pending, settled, crowded, current, dossiers, P, F)
  BY <1>2, ClocksKeep
<1> QED
  BY <1>1, <1>3, <1>4, SettleStepTells DEF TellInv

LEMMA AdmitTells ==
  ASSUME FlowInv, TellInv, NEW o \in Observations, o \notin seen, ~ IsLate(o), Reused(o) = {},
         Admit(o), seen' = seen \cup {o}
  PROVE  TellInv'
<1> DEFINE P == Advanced(progress, o.source, o.at)
           F == FirstAt(first_at, o.at)
           O == open \cup {o}
           G == Group[O][o] \ settled
           crowd == crowded \cup Crowds(G)
           decided == {x \in G : Decided(x, crowd)}
           cur == Evaluated(G, crowd, current)
           due == {x \in decided : Past(x, Watermark(P, F))}
<1>1. Settle(P, F, O, pending \cup {o}, settled \cup decided, due, crowd, cur)
  BY DEF Admit, Evaluated
<1>2. /\ IsEvaluation(O, settled, crowded, current, o, G, crowd, decided, cur)
      /\ IsAdvance(progress, first_at, o.source, o.at, P, F)
  BY DEF IsEvaluation, IsAdvance
<1>3. O = open \cup {o} /\ due \in SUBSET (settled \cup decided)
  OBVIOUS
<1>4. \A x \in due : Past(x, Watermark(P, F))
  OBVIOUS
<1>5. ~ IsUnder(progress, first_at, o.at) /\ AuthoredValues(o) \cap closed_values = {}
  BY DEF IsLate, Reused
<1> HIDE DEF P, F, O, G, crowd, decided, cur, due
<1>6. Inv(seen \cup {o}, O, pending \cup {o}, settled \cup decided, crowd, cur, dossiers, P, F)
  BY <1>2, <1>3, <1>5, EvaluateKeeps DEF FlowInv
<1>7. Tells(seen \cup {o}, O, crowd, cur, dossiers, closed_values)
  BY <1>2, <1>3, <1>5, <1>6, EvaluateTells DEF FlowInv, TellInv
<1> QED
  BY <1>1, <1>3, <1>4, <1>6, <1>7, SettleStepTells

LEMMA TurnTells ==
  ASSUME FlowInv, TellInv, NEW o \in Observations, o \notin seen, seen' = seen \cup {o},
         NEW kind \in {LATE, VALUE_AFTER_FINAL}, NEW value, Turn(o, kind, value)
  PROVE  TellInv'
<1> DEFINE h == <<Nowhere, o>>
           r == [kind |-> kind, value |-> value, partners |-> {}]
           A == Admits(seen, current)
<1>1. \A k \in DOMAIN current : k[2] \in seen
  BY DEF FlowInv, Inv, KeysAreKnown
<1>2. h \notin DOMAIN current /\ h[2] = o
  BY <1>1
<1>3. /\ DOMAIN current' = DOMAIN current \cup {h}
      /\ \A k \in DOMAIN current : current'[k] = current[k]
      /\ current'[h] = Decision(Plain(r), FINAL)
      /\ UNCHANGED <<open, crowded, closed_values, dossiers>>
  BY <1>2 DEF Turn
<1>4. ToldIn(current', o)
  <2>1. r.kind = kind
    OBVIOUS
  <2> HIDE DEF r
  <2>2. current'[h].proposal = Plain(r)
    BY <1>3 DEF Decision
  <2> QED
    BY <1>3, <2>1, <2>2, ToldFacts DEF ToldIn
<1>5. ASSUME NEW x \in seen
      PROVE  ToldIn(current', x) <=> ToldIn(current, x)
  <2> DEFINE k == <<Nowhere, x>>
  <2>1. k # h
    BY <1>5
  <2> HIDE DEF k, h
  <2>2. k \in DOMAIN current' <=> k \in DOMAIN current
    BY <1>3, <2>1
  <2>3. k \in DOMAIN current => current'[k] = current[k]
    BY <1>3
  <2> QED
    BY <2>2, <2>3 DEF ToldIn, k
<1> HIDE DEF h
<1>6. Admits(seen', current') = A
  BY <1>4, <1>5 DEF Admits
<1>7. /\ KeysAreJoined(A, current) /\ OpenAreFresh(open, closed_values)
      /\ LeftAreSpent(A, open, crowded, current, closed_values)
      /\ CrowdsCollide(A, crowded) /\ ProofsAreSound(dossiers) /\ VerdictsHold(A, current)
  BY DEF TellInv, Tells
<1> HIDE DEF A
<1>8. KeysAreJoined(A, current')
  <2>1. ASSUME NEW k \in DOMAIN current'
        PROVE  k \in BusinessKeys(A) \/ ToldIn(current', k[2])
    <3>1. CASE k = h
      BY <1>2, <1>4, <3>1
    <3>2. CASE k \in DOMAIN current
      BY <1>1, <1>5, <1>7, <3>2 DEF KeysAreJoined
    <3> QED
      BY <1>3, <2>1, <3>1, <3>2
  <2> QED
    BY <1>3, <1>7, <2>1 DEF KeysAreJoined
<1>9. \A k \in BusinessKeys(A) : current'[k] = current[k]
  BY <1>3, <1>7 DEF KeysAreJoined
<1>10. LeftAreSpent(A, open, crowded, current', closed_values)
  <2>1. ASSUME NEW x \in A \ open, LeftAlone(x, crowded, current)
        PROVE  LeftAlone(x, crowded, current')
    <3>1. BusinessKeys({x}) \subseteq BusinessKeys(A)
      BY <2>1, KeysOfOne
    <3> QED
      BY <1>9, <2>1, <3>1 DEF LeftAlone
  <2> QED
    BY <1>7, <2>1 DEF LeftAreSpent
<1>11. VerdictsHold(A, current')
  BY <1>7, <1>9 DEF VerdictsHold, Verdict
<1>12. BatchAgreed(seen', current')
  BY <1>4 DEF BatchAgreed, IsUntroubled
<1> QED
  BY <1>3, <1>6, <1>7, <1>8, <1>10, <1>11, <1>12 DEF TellInv, Tells

LEMMA TellInvKept ==
  ASSUME FlowInv, TellInv, [Next]_vars
  PROVE  TellInv'
<1>1. ASSUME NEW o \in Observations, Seen(o)
      PROVE  TellInv'
  <2>1. o \notin seen /\ seen' = seen \cup {o}
    BY <1>1 DEF Seen, IsKnown
  <2>2. CASE Turn(o, LATE, NoValue)
    BY <2>1, <2>2, TurnTells
  <2>3. CASE Turn(o, VALUE_AFTER_FINAL, CHOOSE v \in Reused(o) : TRUE)
    BY <2>1, <2>3, TurnTells
  <2>4. CASE ~ IsLate(o) /\ Reused(o) = {} /\ Admit(o)
    BY <2>1, <2>4, AdmitTells
  <2> QED
    BY <1>1, <2>2, <2>3, <2>4 DEF Seen
<1>2. ASSUME NEW o \in Observations, Redeliver(o) \/ Refuse(o)
      PROVE  TellInv'
  BY <1>2 DEF Redeliver, Refuse, TellInv
<1>3. ASSUME NEW s \in Sources, NEW until \in Untils, Advance(s, until)
      PROVE  TellInv'
  BY <1>3, AdvanceTells
<1>4. CASE UNCHANGED vars
  BY <1>4 DEF vars, TellInv
<1> QED
  BY <1>1, <1>2, <1>3, <1>4 DEF Next

LEMMA TellInvAlways == Spec => []TellInv
<1>1. Init => TellInv
  BY DEF Init, TellInv, Tells, Admits, KeysAreJoined, OpenAreFresh, LeftAreSpent, CrowdsCollide,
         ProofsAreSound, VerdictsHold, BatchAgreed, BusinessKeys
<1>2. TellInv /\ FlowInv /\ [Next]_vars => TellInv'
  BY TellInvKept
<1> QED
  BY <1>1, <1>2, FlowInvAlways, PTL DEF Spec

(* The limit on collisions (max_collision_members) hides partners and      *)
(* nothing else: on a join with one authored signal every decision, open   *)
(* or final, is of the kind the join of all those admitted gives, whoever  *)
(* has left since.                                                         *)
THEOREM LimitHidesNoVerdict == Spec => []VerdictsIgnoreLimit
<1>1. ASSUME TellInv
      PROVE  VerdictsIgnoreLimit
  <2>1. Admitted = Admits(seen, current)
    BY DEF Admitted, Admits, IsTold, ToldIn
  <2>2. VerdictsHold(Admitted, current)
    BY <1>1, <2>1 DEF TellInv, Tells
  <2> QED
    BY <2>2 DEF VerdictsHold, Verdict, VerdictsIgnoreLimit
<1> QED
  BY <1>1, TellInvAlways, PTL

(* With nothing late, told or forced and values that come back within the  *)
(* window, a final decision (_settle) is the one the joins of everything   *)
(* delivered give at once, but for partners the limit hides: the order of  *)
(* the journal and where groups were closed cannot be told from it.        *)
THEOREM FinalsAreTheBatchs == Spec => []FinalsAgreeWithBatch
<1>1. ASSUME FlowInv, TellInv
      PROVE  FinalsAgreeWithBatch
  <2> SUFFICES ASSUME IsUntroubled(seen, current), NEW k \in DOMAIN current
               PROVE  Agrees(current[k].proposal, Proposal(seen, {}, JoinAt(k[1]), k[2]))
    BY DEF FinalsAgreeWithBatch, IsUntroubled, Agrees, IsTold, ToldIn
  <2>1. Admits(seen, current) = seen
    BY DEF IsUntroubled, Admits
  <2>2. k \in BusinessKeys(seen) \/ ToldIn(current, k[2])
    BY <1>1, <2>1 DEF TellInv, Tells, KeysAreJoined
  <2>3. k \in BusinessKeys(seen)
    <3>1. k[2] \in seen
      BY <1>1 DEF FlowInv, Inv, KeysAreKnown
    <3> QED
      BY <2>2, <3>1 DEF IsUntroubled
  <2> QED
    BY <1>1, <2>3 DEF TellInv, Tells, BatchAgreed
<1> QED
  BY <1>1, FlowInvAlways, TellInvAlways, PTL
=============================================================================
