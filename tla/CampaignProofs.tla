--------------------------- MODULE CampaignProofs ---------------------------
(***************************************************************************)
(* Proofs about Campaign, for every load, every pool of connections, every *)
(* capacity of the ring buffer and every number of faults: what a probe    *)
(* says is never more than what the harness did, and the keys of the two   *)
(* logs agree where the harness lets them.                                 *)
(***************************************************************************)
EXTENDS Campaign, FiniteSetTheorems, FunctionTheorems, TLAPS

(* Types of the state of the harness. *)
Messages == [attempt : Requests, conn : Conns]
Calls == [attempt : Requests, conn : Conns, ordinal : Nat]
Generations == Nat \cup {NoGeneration}
OnConn == {"waiting", "read", "cut"}

HarnessType ==
  /\ load \in Loads
  /\ pool \in BOOLEAN
  /\ phase \in [Requests -> {"todo", "started", "ended"} \cup OnConn]
  /\ conn \in [Requests -> Conns \cup {None}]
  /\ up \in [Conns -> {"new", "open", "closed"}]
  /\ generation \in [Tuples -> Nat]
  /\ key_by_conn \in [Conns -> Generations]
  /\ stream_seq \in [ConnKeys -> Nat]
  /\ accepted \in [Conns -> Generations]
  /\ seen_tuple \in [Tuples -> Nat]
  /\ server_seq \in [Conns -> Nat]

(* An attempt is sent once on a connection, and then it is one call of the *)
(* handler, running or answered.                                           *)
CallsAreOnce ==
  /\ sent \subseteq Messages /\ handling \subseteq Calls /\ answered \subseteq Calls
  /\ IsFiniteSet(handling) /\ IsFiniteSet(answered)
  /\ handling \cap answered = {}
  /\ \A g, h \in handling \cup answered : g.attempt = h.attempt /\ g.conn = h.conn => g = h
  /\ \A m \in sent, h \in handling \cup answered : ~(m.attempt = h.attempt /\ m.conn = h.conn)

(* What has a connection has one that was opened and has a generation. *)
WaitingHasConn ==
  \A r \in Requests : phase[r] \in OnConn =>
    /\ conn[r] \in Conns
    /\ up[conn[r]] # "new"
    /\ key_by_conn[conn[r]] # NoGeneration

(* What was sent was sent on an opened connection; while that is open, the *)
(* attempt has ended or is still on it.                                    *)
CallsAreOwned ==
  \A m \in sent \cup handling \cup answered :
    /\ up[m.conn] # "new"
    /\ \/ up[m.conn] = "closed"
       \/ phase[m.attempt] = "ended"
       \/ phase[m.attempt] \in OnConn /\ conn[m.attempt] = m.conn

Base == HarnessType /\ CallsAreOnce /\ WaitingHasConn /\ CallsAreOwned

(* Types of the state of a probe; the loop runs for a probe only. *)
ProbeType ==
  /\ kind \in {STRONG, HTTP_SIGNAL, NO_PROBE}
  /\ attached \in BOOLEAN
  /\ buffer \in 0 .. Capacity
  /\ drops \in Nat
  /\ loop \in {"read", "sample", "done"}
  /\ recorded \in Nat /\ decodeFailures \in Nat /\ writeFailures \in Nat
  /\ kind = NO_PROBE => ~attached /\ loop = "done"

SignalInv == Base /\ ProbeType /\ SignalsAddUp
-----------------------------------------------------------------------------
(* A step, as the harness sees it. *)
HarnessStep ==
  \/ \E r \in Requests : Launch(r) \/ Complete(r) \/ Timeout(r)
  \/ \E r \in Requests, c \in Conns : GotConn(r, c)
  \/ \E r \in Requests, whole \in BOOLEAN : ReadBody(r, whole)
  \/ \E m \in sent : Arrive(m)
  \/ \E h \in handling : Answer(h)
  \/ \E c \in Conns : Dial(c) \/ Accept(c) \/ Lose(c)
  \/ UNCHANGED harnessVars

LEMMA NextIsHarnessStep == [Next]_campaignVars => HarnessStep
BY DEF Next, HarnessStep, campaignVars

LEMMA LoadIsFixed == HarnessStep => load' = load /\ pool' = pool /\ Requests' = Requests
<1> SUFFICES ASSUME HarnessStep PROVE load' = load /\ pool' = pool
  BY DEF Requests
<1> QED
  BY DEF HarnessStep, harnessVars, Launch, GotConn, Arrive, ReadBody, Complete, Timeout, Answer,
         Dial, Accept, Lose

LEMMA TupleOfConn == \A c \in Conns : FiveTuple[c] \in Tuples
BY DEF Tuples

(* A connection that is released was in use. *)
LEMMA ReleaseCloses ==
  ASSUME Base, NEW r \in Requests, Release(r)
  PROVE  \/ up' = up
         \/ /\ conn[r] \in Conns /\ up[conn[r]] # "new" /\ key_by_conn[conn[r]] # NoGeneration
            /\ up' = [up EXCEPT ![conn[r]] = "closed"]
BY DEF Release, Base, WaitingHasConn, OnConn

LEMMA StepHarnessType == Base /\ HarnessStep => HarnessType'
<1> SUFFICES ASSUME Base, HarnessStep PROVE HarnessType'
  OBVIOUS
<1>0. load' = load /\ pool' = pool /\ Requests' = Requests
  BY LoadIsFixed
<1>10. ASSUME NEW r \in Requests, Release(r) PROVE up' \in [Conns -> {"new", "open", "closed"}]
  BY <1>10, ReleaseCloses DEF Base, HarnessType
<1> USE DEF Base, HarnessType, OnConn
<1>1. ASSUME NEW r \in Requests, Launch(r) PROVE HarnessType'
  BY <1>0, <1>1 DEF Launch, serverVars, connStateVars, trackerVars
<1>2. ASSUME NEW m \in sent, Arrive(m) PROVE HarnessType'
  <2>1. m.conn \in Conns
    BY DEF CallsAreOnce, Messages
  <2> QED
    BY <1>0, <1>2, <2>1 DEF Arrive, clientVars, connStateVars, trackerVars
<1>3. ASSUME NEW r \in Requests, Timeout(r) PROVE HarnessType'
  <2>1. up' \in [Conns -> {"new", "open", "closed"}]
    BY <1>3, <1>10 DEF Timeout
  <2> QED
    BY <1>0, <1>3, <2>1 DEF Timeout, Record, serverVars, connStateVars, trackerVars
<1>4. ASSUME NEW r \in Requests, NEW c \in Conns, GotConn(r, c) PROVE HarnessType'
  <2>1. FiveTuple[c] \in Tuples
    BY TupleOfConn
  <2>2. generation' \in [Tuples -> Nat] /\ key_by_conn' \in [Conns -> Generations]
    BY <1>4, <2>1 DEF GotConn, Generations
  <2> QED
    BY <1>0, <1>4, <2>2 DEF GotConn, serverVars, connStateVars
<1>5. ASSUME NEW r \in Requests, NEW whole \in BOOLEAN, ReadBody(r, whole) PROVE HarnessType'
  <2>1. up' \in [Conns -> {"new", "open", "closed"}]
    BY <1>5, <1>10 DEF ReadBody
  <2> QED
    BY <1>0, <1>5, <2>1 DEF ReadBody, serverVars, connStateVars, trackerVars
<1>6. ASSUME NEW r \in Requests, Complete(r) PROVE HarnessType'
  <2>1. stream_seq' \in [ConnKeys -> Nat]
    <3> DEFINE k == Key(conn[r])
    <3>1. stream_seq' = [stream_seq EXCEPT ![k] = stream_seq[k] + 1]
      BY <1>6 DEF Complete
    <3> HIDE DEF k
    <3>2. CASE k \in ConnKeys
      BY <3>1, <3>2
    <3>3. CASE k \notin ConnKeys
      BY <3>1, <3>3
    <3> QED
      BY <3>2, <3>3
  <2> QED
    BY <1>0, <1>6, <2>1 DEF Complete, Record, serverVars, connStateVars
<1>7. ASSUME NEW h \in handling, Answer(h) PROVE HarnessType'
  BY <1>0, <1>7 DEF Answer, clientVars, connStateVars, trackerVars
<1>8. ASSUME NEW c \in Conns, Dial(c) PROVE HarnessType'
  BY <1>0, <1>8 DEF Dial, serverVars, connStateVars, trackerVars
<1>9. ASSUME NEW c \in Conns, Accept(c) PROVE HarnessType'
  <2>1. FiveTuple[c] \in Tuples
    BY TupleOfConn
  <2> QED
    BY <1>0, <1>9, <2>1 DEF Accept, clientVars, trackerVars, Generations
<1>11. ASSUME NEW c \in Conns, Lose(c) PROVE HarnessType'
  BY <1>0, <1>11 DEF Lose, serverVars, connStateVars, trackerVars
<1>12. CASE UNCHANGED harnessVars
  BY <1>0, <1>12 DEF harnessVars, clientVars, serverVars, connStateVars, trackerVars
<1> QED
  BY <1>1, <1>2, <1>3, <1>4, <1>5, <1>6, <1>7, <1>8, <1>9, <1>11, <1>12 DEF HarnessStep

(* A request that is sent was not sent on that connection before. *)
LEMMA StepCalls == Base /\ HarnessStep => CallsAreOnce'
<1> SUFFICES ASSUME Base, HarnessStep PROVE CallsAreOnce'
  OBVIOUS
<1>0. Requests' = Requests /\ Calls' = Calls /\ Messages' = Messages
  BY LoadIsFixed DEF Calls, Messages
<1>1. ASSUME UNCHANGED <<sent, handling, answered>> PROVE CallsAreOnce'
  BY <1>0, <1>1 DEF Base, CallsAreOnce
<1>2. ASSUME NEW m \in sent, Arrive(m) PROVE CallsAreOnce'
  <2> DEFINE g == [attempt |-> m.attempt, conn |-> m.conn, ordinal |-> server_seq[m.conn] + 1]
  <2>1. handling' = handling \cup {g} /\ answered' = answered /\ sent' = sent \ {m}
    BY <1>2 DEF Arrive
  <2>2. m \in Messages /\ m.attempt \in Requests /\ m.conn \in Conns
    BY DEF Base, CallsAreOnce, Messages
  <2>3. g \in Calls /\ g.attempt = m.attempt /\ g.conn = m.conn
    BY <2>2 DEF Calls, Base, HarnessType
  <2> HIDE DEF g
  <2>4. IsFiniteSet(handling')
    BY <2>1, FS_AddElement DEF Base, CallsAreOnce
  <2>5. \A n \in sent' : ~(n.attempt = m.attempt /\ n.conn = m.conn)
    BY <2>1 DEF Base, CallsAreOnce, Messages
  <2>6. \A h \in handling \cup answered : ~(m.attempt = h.attempt /\ m.conn = h.conn)
    BY DEF Base, CallsAreOnce
  <2> QED
    BY <1>0, <2>1, <2>3, <2>4, <2>5, <2>6 DEF Base, CallsAreOnce
<1>3. ASSUME NEW h \in handling, Answer(h) PROVE CallsAreOnce'
  <2>1. handling' = handling \ {h} /\ answered' = answered \cup {h} /\ sent' = sent
    BY <1>3 DEF Answer
  <2>2. IsFiniteSet(handling') /\ IsFiniteSet(answered')
    BY <2>1, FS_AddElement, FS_RemoveElement DEF Base, CallsAreOnce
  <2> QED
    BY <1>0, <2>1, <2>2 DEF Base, CallsAreOnce
<1>4. ASSUME NEW r \in Requests, NEW c \in Conns, GotConn(r, c) PROVE CallsAreOnce'
  <2> DEFINE m == [attempt |-> r, conn |-> c]
  <2>1. /\ sent' = sent \cup {m} /\ UNCHANGED <<handling, answered>>
        /\ phase[r] = "started" /\ up[c] = "open"
    BY <1>4 DEF GotConn, serverVars
  <2>2. m \in Messages /\ m.attempt = r /\ m.conn = c
    BY DEF Messages
  <2> HIDE DEF m
  <2>3. \A h \in handling \cup answered : ~(h.attempt = r /\ h.conn = c)
    BY <2>1 DEF Base, CallsAreOwned, OnConn
  <2> QED
    BY <1>0, <2>1, <2>2, <2>3 DEF Base, CallsAreOnce
<1> QED
  BY <1>1, <1>2, <1>3, <1>4
     DEF HarnessStep, Launch, ReadBody, Complete, Timeout, Dial, Accept, Lose, harnessVars, serverVars

LEMMA StepWaiting == Base /\ HarnessStep => WaitingHasConn'
<1> SUFFICES ASSUME Base, HarnessStep PROVE WaitingHasConn'
  OBVIOUS
<1>0. Requests' = Requests
  BY LoadIsFixed
<1>10. ASSUME NEW r \in Requests, Release(r) PROVE \A c \in Conns : up[c] # "new" => up'[c] # "new"
  BY <1>10, ReleaseCloses DEF Base, HarnessType
<1> USE DEF Base, HarnessType, OnConn
<1>1. ASSUME NEW r \in Requests, Launch(r) PROVE WaitingHasConn'
  BY <1>0, <1>1 DEF Launch, WaitingHasConn, trackerVars
<1>2. ASSUME NEW m \in sent, Arrive(m) PROVE WaitingHasConn'
  BY <1>0, <1>2 DEF Arrive, WaitingHasConn, clientVars, trackerVars
<1>3. ASSUME NEW r \in Requests, Timeout(r) PROVE WaitingHasConn'
  BY <1>0, <1>3, <1>10 DEF Timeout, Record, WaitingHasConn, trackerVars
<1>4. ASSUME NEW r \in Requests, NEW c \in Conns, GotConn(r, c) PROVE WaitingHasConn'
  <2>1. generation[FiveTuple[c]] \in Nat
    BY TupleOfConn
  <2>2. key_by_conn'[c] # NoGeneration
    BY <1>4, <2>1 DEF GotConn, NoGeneration
  <2>3. \A d \in Conns : key_by_conn[d] # NoGeneration => key_by_conn'[d] # NoGeneration
    BY <1>4, <2>2 DEF GotConn
  <2>4. /\ up' = up /\ up[c] # "new" /\ conn' = [conn EXCEPT ![r] = c]
        /\ phase' = [phase EXCEPT ![r] = "waiting"]
    BY <1>4 DEF GotConn
  <2> QED
    BY <1>0, <2>2, <2>3, <2>4 DEF WaitingHasConn
<1>5. ASSUME NEW r \in Requests, NEW whole \in BOOLEAN, ReadBody(r, whole) PROVE WaitingHasConn'
  <2>1. \A c \in Conns : up[c] # "new" => up'[c] # "new"
    BY <1>5, <1>10 DEF ReadBody
  <2>2. /\ UNCHANGED <<conn, key_by_conn>> /\ phase[r] = "waiting"
        /\ \A s \in Requests : phase'[s] \in OnConn => phase[s] \in OnConn
    BY <1>5 DEF ReadBody, trackerVars
  <2> QED
    BY <1>0, <2>1, <2>2 DEF WaitingHasConn
<1>6. ASSUME NEW r \in Requests, Complete(r) PROVE WaitingHasConn'
  BY <1>0, <1>6 DEF Complete, Record, WaitingHasConn
<1>7. ASSUME NEW h \in handling, Answer(h) PROVE WaitingHasConn'
  BY <1>0, <1>7 DEF Answer, WaitingHasConn, clientVars, trackerVars
<1>8. ASSUME NEW c \in Conns, Dial(c) \/ Accept(c) PROVE WaitingHasConn'
  BY <1>0, <1>8 DEF Dial, Accept, WaitingHasConn, clientVars, trackerVars
<1>9. ASSUME NEW c \in Conns, Lose(c) PROVE WaitingHasConn'
  BY <1>0, <1>9 DEF Lose, WaitingHasConn, trackerVars
<1>11. CASE UNCHANGED harnessVars
  BY <1>0, <1>11 DEF harnessVars, clientVars, trackerVars, WaitingHasConn
<1> QED
  BY <1>1, <1>2, <1>3, <1>4, <1>5, <1>6, <1>7, <1>8, <1>9, <1>11 DEF HarnessStep

LEMMA StepOwned == Base /\ HarnessStep => CallsAreOwned'
<1> SUFFICES ASSUME Base, HarnessStep PROVE CallsAreOwned'
  OBVIOUS
<1>0. \A m \in sent \cup handling \cup answered : m.attempt \in Requests /\ m.conn \in Conns
  BY DEF Base, CallsAreOnce, Calls, Messages
<1>10. ASSUME NEW r \in Requests, Release(r)
       PROVE  \A c \in Conns : up'[c] = up[c] \/ (up[c] # "new" /\ up'[c] = "closed")
  BY <1>10, ReleaseCloses DEF Base, HarnessType
<1> USE DEF Base, HarnessType, CallsAreOwned, OnConn
<1>1. ASSUME NEW r \in Requests, Launch(r) PROVE CallsAreOwned'
  BY <1>0, <1>1 DEF Launch, IsNext, serverVars
<1>2. ASSUME NEW m \in sent, Arrive(m) PROVE CallsAreOwned'
  <2> DEFINE g == [attempt |-> m.attempt, conn |-> m.conn, ordinal |-> server_seq[m.conn] + 1]
  <2>1. g.attempt = m.attempt /\ g.conn = m.conn
    OBVIOUS
  <2>2. handling' = handling \cup {g} /\ sent' = sent \ {m} /\ UNCHANGED <<answered, up, phase, conn>>
    BY <1>2 DEF Arrive, clientVars
  <2> HIDE DEF g
  <2> QED
    BY <2>1, <2>2
<1>3. ASSUME NEW r \in Requests, Timeout(r) PROVE CallsAreOwned'
  <2>1. /\ \A c \in Conns : up'[c] = up[c] \/ (up[c] # "new" /\ up'[c] = "closed")
        /\ UNCHANGED <<sent, handling, answered, conn>>
        /\ phase' = [phase EXCEPT ![r] = "ended"]
    BY <1>3, <1>10 DEF Timeout, Record, serverVars
  <2> QED
    BY <1>0, <2>1
<1>4. ASSUME NEW r \in Requests, NEW c \in Conns, GotConn(r, c) PROVE CallsAreOwned'
  <2> DEFINE m == [attempt |-> r, conn |-> c]
  <2>1. /\ sent' = sent \cup {m} /\ UNCHANGED <<handling, answered, up>> /\ m.attempt = r /\ m.conn = c
        /\ phase[r] = "started" /\ up[c] = "open"
        /\ phase' = [phase EXCEPT ![r] = "waiting"] /\ conn' = [conn EXCEPT ![r] = c]
    BY <1>4 DEF GotConn, serverVars
  <2> HIDE DEF m
  <2> QED
    BY <1>0, <2>1
<1>5. ASSUME NEW r \in Requests, NEW whole \in BOOLEAN, ReadBody(r, whole) PROVE CallsAreOwned'
  <2>1. /\ \A c \in Conns : up'[c] = up[c] \/ (up[c] # "new" /\ up'[c] = "closed")
        /\ UNCHANGED <<sent, handling, answered, conn>>
        /\ phase'[r] \in OnConn /\ phase[r] = "waiting"
        /\ \A s \in Requests \ {r} : phase'[s] = phase[s]
    BY <1>5, <1>10 DEF ReadBody, serverVars
  <2> QED
    BY <1>0, <2>1
<1>6. ASSUME NEW r \in Requests, Complete(r) PROVE CallsAreOwned'
  BY <1>0, <1>6 DEF Complete, Record, serverVars
<1>7. ASSUME NEW h \in handling, Answer(h) PROVE CallsAreOwned'
  BY <1>7 DEF Answer, clientVars
<1>8. ASSUME NEW c \in Conns, Dial(c) PROVE CallsAreOwned'
  BY <1>0, <1>8 DEF Dial, serverVars
<1>9. ASSUME NEW c \in Conns, Accept(c) PROVE CallsAreOwned'
  BY <1>0, <1>9 DEF Accept, clientVars
<1>11. ASSUME NEW c \in Conns, Lose(c) PROVE CallsAreOwned'
  BY <1>0, <1>11 DEF Lose, serverVars
<1>12. CASE UNCHANGED harnessVars
  BY <1>12 DEF harnessVars, clientVars, serverVars
<1> QED
  BY <1>1, <1>2, <1>3, <1>4, <1>5, <1>6, <1>7, <1>8, <1>9, <1>11, <1>12 DEF HarnessStep

LEMMA StepBase == Base /\ HarnessStep => Base'
BY StepHarnessType, StepCalls, StepWaiting, StepOwned DEF Base

LEMMA InitBase == HarnessInit => Base
<1> SUFFICES ASSUME HarnessInit PROVE Base
  OBVIOUS
<1>1. HarnessType
  BY HarnessAssumption DEF HarnessInit, HarnessType, Generations, NoGeneration
<1>2. CallsAreOnce /\ CallsAreOwned
  BY FS_EmptySet DEF HarnessInit, CallsAreOnce, CallsAreOwned
<1>3. WaitingHasConn
  BY DEF HarnessInit, WaitingHasConn, OnConn
<1> QED
  BY <1>1, <1>2, <1>3 DEF Base
-----------------------------------------------------------------------------
(* What a probe says adds up *)

Opened == {c \in Conns : up[c] # "new"}
Accepted == {c \in Conns : accepted[c] # NoGeneration}
Handled == Cardinality(handling) + Cardinality(answered)
Said == Taken + buffer + drops

(* Only a dial opens a connection, and only an accept accepts one. *)
LEMMA OpenedSteps ==
  ASSUME Base
  PROVE  /\ \A c \in Conns : Dial(c) => Cardinality(Opened') = Cardinality(Opened) + 1
         /\ \A c \in Conns : Accept(c) => Cardinality(Accepted') = Cardinality(Accepted) + 1
         /\ \A r \in Requests : Release(r) => Opened' = Opened
         /\ \A c \in Conns : Lose(c) => Opened' = Opened
         /\ IsFiniteSet(Opened) /\ IsFiniteSet(Accepted)
<1>0. IsFiniteSet(Opened) /\ IsFiniteSet(Accepted)
  BY HarnessAssumption, FS_Subset DEF Opened, Accepted
<1>1. ASSUME NEW c \in Conns, Dial(c) PROVE Cardinality(Opened') = Cardinality(Opened) + 1
  <2>1. Opened' = Opened \cup {c} /\ c \notin Opened
    BY <1>1 DEF Dial, Opened, Base, HarnessType
  <2> QED
    BY <1>0, <2>1, FS_AddElement
<1>2. ASSUME NEW c \in Conns, Accept(c) PROVE Cardinality(Accepted') = Cardinality(Accepted) + 1
  <2>1. seen_tuple[FiveTuple[c]] # NoGeneration
    BY TupleOfConn DEF Base, HarnessType, NoGeneration
  <2>2. Accepted' = Accepted \cup {c} /\ c \notin Accepted
    BY <1>2, <2>1 DEF Accept, Accepted, Base, HarnessType
  <2> QED
    BY <1>0, <2>2, FS_AddElement
<1>3. ASSUME NEW r \in Requests, Release(r) PROVE Opened' = Opened
  BY <1>3, ReleaseCloses DEF Opened, Base, HarnessType
<1>4. ASSUME NEW c \in Conns, Lose(c) PROVE Opened' = Opened
  BY <1>4 DEF Lose, Opened, Base, HarnessType
<1> QED
  BY <1>0, <1>1, <1>2, <1>3, <1>4

LEMMA HandledSteps ==
  ASSUME Base
  PROVE  /\ \A m \in sent : Arrive(m) => Handled' = Handled + 1
         /\ \A h \in handling : Answer(h) => Handled' = Handled
         /\ Handled \in Nat
<1> USE DEF Base
<1>0. Cardinality(handling) \in Nat /\ Cardinality(answered) \in Nat
  BY FS_CardinalityType DEF CallsAreOnce
<1>1. ASSUME NEW m \in sent, Arrive(m) PROVE Handled' = Handled + 1
  <2> DEFINE g == [attempt |-> m.attempt, conn |-> m.conn, ordinal |-> server_seq[m.conn] + 1]
  <2>1. handling' = handling \cup {g} /\ g.attempt = m.attempt /\ g.conn = m.conn /\ answered' = answered
    BY <1>1 DEF Arrive
  <2> HIDE DEF g
  <2>2. g \notin handling
    BY <2>1 DEF CallsAreOnce
  <2>3. Cardinality(handling') = Cardinality(handling) + 1
    BY <2>1, <2>2, FS_AddElement DEF CallsAreOnce
  <2> QED
    BY <1>0, <2>1, <2>3 DEF Handled
<1>2. ASSUME NEW h \in handling, Answer(h) PROVE Handled' = Handled
  <2>1. handling' = handling \ {h} /\ answered' = answered \cup {h} /\ h \notin answered
    BY <1>2 DEF Answer, CallsAreOnce
  <2>2. Cardinality(handling') = Cardinality(handling) - 1
    BY <2>1, FS_RemoveElement DEF CallsAreOnce
  <2>3. Cardinality(answered') = Cardinality(answered) + 1
    BY <2>1, FS_AddElement DEF CallsAreOnce
  <2> QED
    BY <1>0, <2>2, <2>3 DEF Handled
<1> QED
  BY <1>0, <1>1, <1>2 DEF Handled

(* What the harness did shows in Fired. *)
LEMMA FiredIs == Fired = IF kind = STRONG THEN Cardinality(Opened) + Cardinality(Accepted) ELSE Handled
BY DEF Fired, Opened, Accepted, Handled

(* A burst is in the buffer or in the drops. *)
LEMMA FireCounts ==
  ASSUME ProbeType, NEW n \in Nat, Fire(n)
  PROVE  /\ ProbeType' /\ Taken' = Taken /\ kind' = kind /\ attached' = attached
         /\ attached => \E k \in 0 .. n : buffer' = buffer + k /\ drops' = drops + (n - k)
<1>1. buffer' \in 0 .. Capacity /\ drops' \in Nat
  BY CapacityAssumption DEF ProbeType, Fire, Emit
<1>2. ASSUME attached
      PROVE  \E k \in 0 .. n : buffer' = buffer + k /\ drops' = drops + (n - k)
  <2> DEFINE k == IF buffer + n > Capacity THEN Capacity - buffer ELSE n
  <2>1. buffer' = buffer + k /\ drops' = drops + (n - k)
    BY <1>2 DEF Fire, Emit
  <2>2. k \in 0 .. n
    BY CapacityAssumption DEF ProbeType
  <2> QED
    BY <2>1, <2>2
<1> QED
  BY <1>1, <1>2 DEF ProbeType, Fire, Taken, stats

(* The loop moves a sample; http-signal-probe loses none. *)
LEMMA ProbeCounts ==
  ASSUME ProbeType, ProbeNext
  PROVE  /\ ProbeType' /\ kind' = kind
         /\ attached' => attached
         /\ Said' \in Nat /\ Said' <= Said
         /\ kind = HTTP_SIGNAL => Said' = Said
<1> USE CapacityAssumption DEF ProbeType, Said, Taken, stats
<1>0. CASE Detach
  <2>1. /\ UNCHANGED <<kind, buffer, drops, loop, recorded, decodeFailures, writeFailures>>
        /\ attached' = FALSE /\ attached
    BY <1>0 DEF Detach
  <2>2. Said' = Said /\ Said' \in Nat
    BY <2>1
  <2>3. ProbeType'
    BY <2>1
  <2> QED
    BY <2>1, <2>2, <2>3
<1>1. CASE Signal \/ CloseReader
  BY <1>1 DEF Signal, CloseReader
<1>2. CASE Read
  <2>1. /\ UNCHANGED <<kind, attached, drops, recorded, decodeFailures, writeFailures>>
        /\ loop = "read" /\ loop' = "sample" /\ buffer > 0 /\ buffer' = buffer - 1
    BY <1>2 DEF Read
  <2> QED
    BY <2>1
<1>3. CASE ReadError
  <2>1. /\ UNCHANGED <<kind, attached, buffer, drops, recorded, decodeFailures, writeFailures>>
        /\ loop = "read" /\ loop' \in {"read", "done"}
    BY <1>3 DEF ReadError
  <2> QED
    BY <2>1
<1>4. ASSUME NEW outcome \in {"written", "undecodable", "unwritten"}, Handle(outcome)
      PROVE  /\ ProbeType' /\ kind' = kind
             /\ attached' => attached
             /\ Said' \in Nat /\ Said' <= Said
             /\ kind = HTTP_SIGNAL => Said' = Said
  <2>1. /\ loop = "sample" /\ loop' = "read" /\ UNCHANGED <<kind, attached, buffer, drops>>
        /\ kind \in {STRONG, HTTP_SIGNAL}
    BY <1>4 DEF Handle
  <2>2. \/ recorded' = recorded + 1 /\ UNCHANGED <<decodeFailures, writeFailures>>
        \/ kind = STRONG /\ UNCHANGED <<recorded, decodeFailures, writeFailures>>
        \/ decodeFailures' = decodeFailures + 1 /\ UNCHANGED <<recorded, writeFailures>>
        \/ writeFailures' = writeFailures + 1 /\ UNCHANGED <<recorded, decodeFailures>>
    BY <1>4, <2>1 DEF Handle, STRONG, HTTP_SIGNAL
  <2> QED
    BY <2>1, <2>2 DEF STRONG, HTTP_SIGNAL
<1> QED
  BY <1>0, <1>1, <1>2, <1>3, <1>4 DEF ProbeNext, ReadLoop

LEMMA SaidType == ProbeType => Taken \in Nat /\ buffer \in Nat /\ drops \in Nat /\ Said \in Nat
BY CapacityAssumption DEF ProbeType, Said, Taken

LEMMA AddsUpIs == SignalsAddUp <=> (attached => Said <= Fired /\ (kind = HTTP_SIGNAL => Said = Fired))
BY DEF SignalsAddUp, Said

(* A step that fires the program n times, and did n of what it watches. *)
LEMMA FireAddsUp ==
  ASSUME ProbeType, SignalsAddUp, NEW n \in Nat, Fire(n), Fired \in Nat,
         attached => Fired' = Fired + n
  PROVE  ProbeType' /\ SignalsAddUp'
<1>1. /\ ProbeType' /\ Taken' = Taken /\ kind' = kind /\ attached' = attached
      /\ attached => \E k \in 0 .. n : buffer' = buffer + k /\ drops' = drops + (n - k)
  BY FireCounts
<1>2. Taken \in Nat /\ buffer \in Nat /\ drops \in Nat /\ Said \in Nat
  BY SaidType
<1>3. ASSUME attached PROVE Said' = Said + n
  <2>1. PICK k \in 0 .. n : buffer' = buffer + k /\ drops' = drops + (n - k)
    BY <1>1, <1>3
  <2>2. (Taken + buffer + drops) + n = Taken + (buffer + k) + (drops + (n - k))
    BY <1>2
  <2> QED
    BY <1>1, <2>1, <2>2 DEF Said
<1>4. ASSUME attached PROVE Said <= Fired /\ (kind = HTTP_SIGNAL => Said = Fired)
  BY <1>4, AddsUpIs
<1>5. ASSUME attached' PROVE Said' <= Fired' /\ (kind' = HTTP_SIGNAL => Said' = Fired')
  BY <1>1, <1>2, <1>3, <1>4, <1>5
<1> QED
  BY <1>1, <1>5 DEF SignalsAddUp, Said

LEMMA QuietAddsUp ==
  ASSUME ProbeType, SignalsAddUp, UNCHANGED probeVars, Fired' = Fired
  PROVE  ProbeType' /\ SignalsAddUp'
<1>1. /\ kind' = kind /\ attached' = attached /\ buffer' = buffer /\ drops' = drops /\ loop' = loop
      /\ recorded' = recorded /\ decodeFailures' = decodeFailures /\ writeFailures' = writeFailures
  BY DEF probeVars, stats
<1>2. ProbeType'
  BY <1>1 DEF ProbeType
<1>3. Taken' = Taken
  BY <1>1 DEF Taken
<1> QED
  BY <1>1, <1>2, <1>3 DEF SignalsAddUp

LEMMA NextSignals == SignalInv /\ [Next]_campaignVars => SignalInv'
<1> SUFFICES ASSUME SignalInv, [Next]_campaignVars PROVE ProbeType' /\ SignalsAddUp'
  BY NextIsHarnessStep, StepBase DEF SignalInv
<1> DEFINE Goal == ProbeType' /\ SignalsAddUp'
<1>0. Base /\ ProbeType /\ SignalsAddUp
  BY DEF SignalInv
<1>1. Cardinality(Opened) \in Nat /\ Cardinality(Accepted) \in Nat /\ Handled \in Nat /\ Fired \in Nat
  <2>1. Cardinality(Opened) \in Nat /\ Cardinality(Accepted) \in Nat /\ Handled \in Nat
    BY <1>0, OpenedSteps, HandledSteps, FS_CardinalityType
  <2> QED
    BY <2>1, FiredIs
<1>2. Fired' = IF kind' = STRONG THEN Cardinality(Opened') + Cardinality(Accepted') ELSE Handled'
  BY DEF Fired, Opened, Accepted, Handled
<1>3. ASSUME UNCHANGED probeVars, Opened' = Opened, Accepted' = Accepted, Handled' = Handled PROVE Goal
  <2>1. Fired' = Fired
    BY <1>1, <1>2, <1>3, FiredIs DEF probeVars
  <2> QED
    BY <1>0, <1>3, <2>1, QuietAddsUp
<1>a. ASSUME UNCHANGED serverVars PROVE Accepted' = Accepted /\ Handled' = Handled
  BY <1>a DEF serverVars, connStateVars, Accepted, Handled
<1>4. ASSUME NEW r \in Requests, Launch(r) /\ Quiet PROVE Goal
  BY <1>3, <1>4, <1>a DEF Launch, Quiet, Opened
<1>5. ASSUME NEW r \in Requests, NEW c \in Conns, GotConn(r, c) /\ Quiet PROVE Goal
  BY <1>3, <1>5, <1>a DEF GotConn, Quiet, Opened
<1>6. ASSUME NEW m \in sent, Arrive(m), Fire(IF kind = HTTP_SIGNAL THEN 1 ELSE 0) PROVE Goal
  <2> DEFINE n == IF kind = HTTP_SIGNAL THEN 1 ELSE 0
  <2>1. Handled' = Handled + 1 /\ Opened' = Opened /\ Accepted' = Accepted
    BY <1>0, <1>6, HandledSteps DEF Arrive, Opened, Accepted, clientVars, connStateVars
  <2>2. kind' = kind
    BY <1>6 DEF Fire
  <2>3. attached => kind \in {STRONG, HTTP_SIGNAL}
    BY <1>0 DEF ProbeType
  <2>4. attached => Fired' = Fired + n
    BY <1>1, <1>2, <2>1, <2>2, <2>3, FiredIs DEF STRONG, HTTP_SIGNAL
  <2>5. n \in Nat /\ Fire(n)
    BY <1>6
  <2> HIDE DEF n
  <2> QED
    BY <1>0, <1>1, <2>4, <2>5, FireAddsUp
<1>7. ASSUME NEW r \in Requests, NEW whole \in BOOLEAN, ReadBody(r, whole) /\ Quiet PROVE Goal
  <2>1. Opened' = Opened
    BY <1>0, <1>7, OpenedSteps DEF ReadBody
  <2>2. UNCHANGED serverVars
    BY <1>7 DEF ReadBody
  <2> QED
    BY <1>3, <1>7, <1>a, <2>1, <2>2 DEF Quiet
<1>8. ASSUME NEW r \in Requests, Complete(r) /\ Quiet PROVE Goal
  BY <1>3, <1>8, <1>a DEF Complete, Quiet, Opened
<1>9. ASSUME NEW r \in Requests, Timeout(r) /\ Quiet PROVE Goal
  <2>1. Opened' = Opened
    BY <1>0, <1>9, OpenedSteps DEF Timeout
  <2>2. UNCHANGED serverVars
    BY <1>9 DEF Timeout
  <2> QED
    BY <1>3, <1>9, <1>a, <2>1, <2>2 DEF Quiet
<1>10. ASSUME NEW h \in handling, Answer(h) /\ Quiet PROVE Goal
  <2>1. Handled' = Handled /\ Opened' = Opened /\ Accepted' = Accepted
    BY <1>0, <1>10, HandledSteps DEF Answer, Opened, Accepted, clientVars, connStateVars
  <2> QED
    BY <1>3, <1>10, <2>1 DEF Quiet
<1>11. ASSUME NEW c \in Conns, Dial(c) \/ Accept(c), Fire(IF kind = STRONG THEN 1 ELSE 0) PROVE Goal
  <2> DEFINE n == IF kind = STRONG THEN 1 ELSE 0
  <2>1. ASSUME Dial(c) PROVE Fired' = Fired + n
    <3>1. Cardinality(Opened') = Cardinality(Opened) + 1
      BY <1>0, <2>1, OpenedSteps
    <3>2. UNCHANGED serverVars
      BY <2>1 DEF Dial
    <3> QED
      BY <1>1, <1>2, <1>11, <1>a, <3>1, <3>2, FiredIs DEF Fire
  <2>2. ASSUME Accept(c) PROVE Fired' = Fired + n
    <3>1. Cardinality(Accepted') = Cardinality(Accepted) + 1
      BY <1>0, <2>2, OpenedSteps
    <3>2. Opened' = Opened /\ Handled' = Handled
      BY <2>2 DEF Accept, clientVars, Opened, Handled
    <3> QED
      BY <1>1, <1>2, <1>11, <3>1, <3>2, FiredIs DEF Fire
  <2>3. Fired' = Fired + n
    BY <1>11, <2>1, <2>2
  <2>4. n \in Nat /\ Fire(n)
    BY <1>11
  <2> HIDE DEF n
  <2> QED
    BY <1>0, <1>1, <2>3, <2>4, FireAddsUp
<1>12. ASSUME NEW c \in Conns, Lose(c) /\ Quiet PROVE Goal
  <2>1. Opened' = Opened
    BY <1>0, <1>12, OpenedSteps
  <2>2. UNCHANGED serverVars
    BY <1>12 DEF Lose
  <2> QED
    BY <1>3, <1>12, <1>a, <2>1, <2>2 DEF Quiet
<1>13. ASSUME ProbeNext, UNCHANGED harnessVars PROVE Goal
  <2>1. /\ ProbeType' /\ kind' = kind
        /\ attached' => attached
        /\ Said' \in Nat /\ Said' <= Said
        /\ kind = HTTP_SIGNAL => Said' = Said
    BY <1>0, <1>13, ProbeCounts
  <2>2. Fired' = Fired
    BY <1>13, <2>1 DEF harnessVars, clientVars, serverVars, connStateVars, Fired
  <2>3. Said \in Nat
    BY <1>0, SaidType
  <2>4. attached => Said <= Fired /\ (kind = HTTP_SIGNAL => Said = Fired)
    BY <1>0, AddsUpIs
  <2>5. attached' => Said' <= Fired' /\ (kind' = HTTP_SIGNAL => Said' = Fired')
    BY <1>1, <2>1, <2>2, <2>3, <2>4
  <2> QED
    BY <2>1, <2>5 DEF SignalsAddUp, Said
<1>14. ASSUME UNCHANGED campaignVars PROVE Goal
  BY <1>3, <1>14, <1>a DEF campaignVars, harnessVars, clientVars, Opened
<1> HIDE DEF Goal
<1>15. Goal
  BY <1>4, <1>5, <1>6, <1>7, <1>8, <1>9, <1>10, <1>11, <1>12, <1>13, <1>14 DEF Next
<1> QED
  BY <1>15 DEF Goal

LEMMA InitSignals == Init => SignalInv
<1> SUFFICES ASSUME Init PROVE SignalInv
  OBVIOUS
<1>1. Base
  BY InitBase DEF Init
<1>2. ProbeType
  <2>1. attached \in BOOLEAN /\ (kind = NO_PROBE => ~attached)
    BY DEF Init, ProbeInit
  <2> QED
    BY <2>1, CapacityAssumption DEF Init, ProbeInit, ProbeType
<1>3. /\ {c \in Conns : up[c] # "new"} = {} /\ {c \in Conns : accepted[c] # NoGeneration} = {}
      /\ handling = {} /\ answered = {}
  BY DEF Init, HarnessInit
<1>4. Fired = 0
  BY <1>3, FS_EmptySet DEF Fired
<1>5. Taken + buffer + drops = 0
  BY DEF Init, ProbeInit, Taken
<1> QED
  BY <1>1, <1>2, <1>4, <1>5 DEF SignalInv, SignalsAddUp

(* As long as a probe is attached, its records, its counts of failures and *)
(* drops, and what is still in the ring buffer are at most the events that *)
(* fired it; they are exactly those of http-signal-probe, which loses no   *)
(* event without a count.                                                  *)
THEOREM SignalsAreCounted == Spec => []SignalsAddUp
<1>1. SignalInv => SignalsAddUp
  BY DEF SignalInv
<1> QED
  BY <1>1, InitSignals, NextSignals, PTL DEF Spec
-----------------------------------------------------------------------------
(* Generations *)

(* The connections of an address pair that have a generation. *)
HaveOne(gen, t) == {c \in Conns : FiveTuple[c] = t /\ gen[c] # NoGeneration}

(* Connections of an address pair are counted, and numbered differently. *)
IsNumbering(gen, next) ==
  /\ \A c \in Conns : gen[c] # NoGeneration => gen[c] < next[FiveTuple[c]]
  /\ \A c, d \in Conns :
       c # d /\ FiveTuple[c] = FiveTuple[d] /\ gen[c] # NoGeneration => gen[c] # gen[d]
  /\ \A t \in Tuples : next[t] = Cardinality(HaveOne(gen, t))

KeysAreDistinct == IsNumbering(key_by_conn, generation)
AcceptsAreDistinct == IsNumbering(accepted, seen_tuple)

(* Either side numbers opened connections only. *)
NumberedAreOpened ==
  \A c \in Conns : key_by_conn[c] # NoGeneration \/ accepted[c] # NoGeneration => up[c] # "new"

GenerationInv == KeysAreDistinct /\ AcceptsAreDistinct /\ NumberedAreOpened

LEMMA HaveOneIsBounded ==
  ASSUME NEW gen, NEW t
  PROVE  /\ IsFiniteSet(HaveOne(gen, t)) /\ Cardinality(HaveOne(gen, t)) \in Nat
         /\ Cardinality(HaveOne(gen, t)) <= Cardinality(Conns) /\ Cardinality(Conns) \in Nat
<1>1. HaveOne(gen, t) \subseteq Conns
  BY DEF HaveOne
<1> QED
  BY <1>1, HarnessAssumption, FS_Subset, FS_CardinalityType

(* One more connection gets the next generation. *)
LEMMA NumberingGrows ==
  ASSUME NEW gen \in [Conns -> Generations], NEW next \in [Tuples -> Nat], IsNumbering(gen, next),
         NEW c \in Conns, gen[c] = NoGeneration,
         NEW gen2, gen2 = [gen EXCEPT ![c] = next[FiveTuple[c]]],
         NEW next2, next2 = [next EXCEPT ![FiveTuple[c]] = next[FiveTuple[c]] + 1]
  PROVE  IsNumbering(gen2, next2)
<1> DEFINE t == FiveTuple[c]
<1>1. /\ t \in Tuples /\ next[t] \in Nat /\ next[t] # NoGeneration
      /\ gen2[c] = next[t] /\ next2[t] = next[t] + 1
      /\ \A d \in Conns \ {c} : gen2[d] = gen[d]
      /\ \A s \in Tuples \ {t} : next2[s] = next[s]
  BY TupleOfConn DEF NoGeneration
<1>2. \A d \in Conns : gen[d] # NoGeneration => gen[d] \in Nat /\ gen[d] < next[FiveTuple[d]]
  BY DEF Generations, IsNumbering
<1>3. \A d \in Conns : gen2[d] # NoGeneration => gen2[d] < next2[FiveTuple[d]]
  <2> SUFFICES ASSUME NEW d \in Conns, gen2[d] # NoGeneration PROVE gen2[d] < next2[FiveTuple[d]]
    OBVIOUS
  <2>1. CASE d = c
    BY <1>1, <2>1
  <2>2. CASE d # c /\ FiveTuple[d] = t
    BY <1>1, <1>2, <2>2
  <2>3. CASE d # c /\ FiveTuple[d] # t
    BY <1>1, <1>2, <2>3, TupleOfConn
  <2> QED
    BY <2>1, <2>2, <2>3
<1>4. \A d, e \in Conns :
        d # e /\ FiveTuple[d] = FiveTuple[e] /\ gen2[d] # NoGeneration => gen2[d] # gen2[e]
  <2> SUFFICES ASSUME NEW d \in Conns, NEW e \in Conns, d # e, FiveTuple[d] = FiveTuple[e],
                      gen2[d] # NoGeneration, gen2[d] = gen2[e]
               PROVE  FALSE
    OBVIOUS
  <2>1. CASE d = c
    BY <1>1, <1>2, <2>1
  <2>2. CASE e = c
    BY <1>1, <1>2, <2>2
  <2>3. CASE d # c /\ e # c
    BY <1>1, <2>3 DEF IsNumbering
  <2> QED
    BY <2>1, <2>2, <2>3
<1>5. \A s \in Tuples : next2[s] = Cardinality(HaveOne(gen2, s))
  <2> SUFFICES ASSUME NEW s \in Tuples PROVE next2[s] = Cardinality(HaveOne(gen2, s))
    OBVIOUS
  <2>1. CASE s = t
    <3>1. HaveOne(gen2, t) = HaveOne(gen, t) \cup {c} /\ c \notin HaveOne(gen, t)
      BY <1>1 DEF HaveOne
    <3>2. IsFiniteSet(HaveOne(gen, t)) /\ next[t] = Cardinality(HaveOne(gen, t))
      BY <1>1, HaveOneIsBounded DEF IsNumbering
    <3>3. Cardinality(HaveOne(gen2, t)) = Cardinality(HaveOne(gen, t)) + 1
      BY <3>1, <3>2, FS_AddElement
    <3> QED
      BY <1>1, <2>1, <3>2, <3>3
  <2>2. CASE s # t
    <3>1. HaveOne(gen2, s) = HaveOne(gen, s)
      BY <1>1, <2>2 DEF HaveOne
    <3> QED
      BY <1>1, <2>2, <3>1 DEF IsNumbering
  <2> QED
    BY <2>1, <2>2
<1> QED
  BY <1>3, <1>4, <1>5 DEF IsNumbering

(* The only connection of an address pair that has a generation has 0. *)
LEMMA AloneIsZero ==
  ASSUME NEW gen \in [Conns -> Generations], NEW next \in [Tuples -> Nat], IsNumbering(gen, next),
         NEW c \in Conns, gen[c] # NoGeneration,
         \A d \in Conns : FiveTuple[d] = FiveTuple[c] /\ gen[d] # NoGeneration => d = c
  PROVE  gen[c] = 0
<1>1. FiveTuple[c] \in Tuples
  BY TupleOfConn
<1>2. HaveOne(gen, FiveTuple[c]) = {c}
  BY DEF HaveOne
<1>3. next[FiveTuple[c]] = 1
  BY <1>1, <1>2, FS_Singleton DEF IsNumbering
<1> QED
  BY <1>3 DEF IsNumbering, Generations

(* What a step does to generations. *)
LEMMA FirstUse ==
  ASSUME Base, NEW r \in Requests, NEW c \in Conns, GotConn(r, c)
  PROVE  LET t == FiveTuple[c]
         IN  /\ t \in Tuples /\ generation[t] \in Nat /\ generation[t] # NoGeneration
             /\ up[c] = "open" /\ UNCHANGED <<up, accepted, seen_tuple, stream_seq, log>>
             /\ key_by_conn[c] # NoGeneration => UNCHANGED <<key_by_conn, generation>>
             /\ key_by_conn[c] = NoGeneration =>
                  /\ key_by_conn' = [key_by_conn EXCEPT ![c] = generation[t]]
                  /\ generation' = [generation EXCEPT ![t] = generation[t] + 1]
<1>1. FiveTuple[c] \in Tuples
  BY TupleOfConn
<1> QED
  BY <1>1 DEF GotConn, Base, HarnessType, serverVars, connStateVars, NoGeneration

LEMMA KeySteps ==
  ASSUME HarnessStep
  PROVE  UNCHANGED <<key_by_conn, generation>> \/ \E r \in Requests, c \in Conns : GotConn(r, c)
BY DEF HarnessStep, Launch, ReadBody, Complete, Timeout, Arrive, Answer, Dial, Accept, Lose,
       harnessVars, clientVars, trackerVars

LEMMA AcceptSteps ==
  ASSUME HarnessStep
  PROVE  UNCHANGED <<accepted, seen_tuple>> \/ \E c \in Conns : Accept(c)
BY DEF HarnessStep, Launch, GotConn, ReadBody, Complete, Timeout, Arrive, Answer, Dial, Lose,
       harnessVars, serverVars, connStateVars

(* A generation that was given stays, and an opened connection is not new again. *)
LEMMA GivenStays ==
  ASSUME Base, HarnessStep
  PROVE  \A c \in Conns :
           /\ key_by_conn[c] # NoGeneration => key_by_conn'[c] = key_by_conn[c]
           /\ accepted[c] # NoGeneration => accepted'[c] = accepted[c]
           /\ up[c] # "new" => up'[c] # "new"
<1>1. \A c \in Conns : key_by_conn[c] # NoGeneration => key_by_conn'[c] = key_by_conn[c]
  <2>1. ASSUME NEW r \in Requests, NEW d \in Conns, GotConn(r, d)
        PROVE  \A c \in Conns : key_by_conn[c] # NoGeneration => key_by_conn'[c] = key_by_conn[c]
    BY <2>1, FirstUse DEF Base, HarnessType
  <2> QED
    BY <2>1, KeySteps
<1>2. \A c \in Conns : accepted[c] # NoGeneration => accepted'[c] = accepted[c]
  <2>1. ASSUME NEW d \in Conns, Accept(d)
        PROVE  \A c \in Conns : accepted[c] # NoGeneration => accepted'[c] = accepted[c]
    BY <2>1 DEF Accept, Base, HarnessType
  <2> QED
    BY <2>1, AcceptSteps
<1>3. \A c \in Conns : up[c] # "new" => up'[c] # "new"
  <2>1. ASSUME NEW r \in Requests, Release(r) PROVE \A c \in Conns : up[c] # "new" => up'[c] # "new"
    BY <2>1, ReleaseCloses DEF Base, HarnessType
  <2>2. ASSUME NEW d \in Conns, Dial(d) \/ Lose(d) PROVE \A c \in Conns : up[c] # "new" => up'[c] # "new"
    BY <2>2 DEF Dial, Lose, Base, HarnessType
  <2> QED
    BY <2>1, <2>2 DEF HarnessStep, Launch, GotConn, ReadBody, Complete, Timeout, Arrive, Answer, Accept,
                      harnessVars, clientVars
<1> QED
  BY <1>1, <1>2, <1>3

LEMMA StepGenerations == Base /\ GenerationInv /\ HarnessStep => GenerationInv'
<1> SUFFICES ASSUME Base, GenerationInv, HarnessStep PROVE GenerationInv'
  OBVIOUS
<1>0. /\ key_by_conn \in [Conns -> Generations] /\ generation \in [Tuples -> Nat]
      /\ accepted \in [Conns -> Generations] /\ seen_tuple \in [Tuples -> Nat]
  BY DEF Base, HarnessType
<1>1. IsNumbering(key_by_conn', generation')
  <2>1. CASE UNCHANGED <<key_by_conn, generation>>
    BY <2>1 DEF GenerationInv, KeysAreDistinct
  <2>2. ASSUME NEW r \in Requests, NEW c \in Conns, GotConn(r, c), key_by_conn[c] = NoGeneration
        PROVE  IsNumbering(key_by_conn', generation')
    <3>1. /\ key_by_conn' = [key_by_conn EXCEPT ![c] = generation[FiveTuple[c]]]
          /\ generation' = [generation EXCEPT ![FiveTuple[c]] = generation[FiveTuple[c]] + 1]
      BY <2>2, FirstUse
    <3>2. IsNumbering(key_by_conn, generation)
      BY DEF GenerationInv, KeysAreDistinct
    <3> QED
      BY <1>0, <2>2, <3>1, <3>2, NumberingGrows
  <2>3. ASSUME NEW r \in Requests, NEW c \in Conns, GotConn(r, c), key_by_conn[c] # NoGeneration
        PROVE  UNCHANGED <<key_by_conn, generation>>
    BY <2>3, FirstUse
  <2> QED
    BY <2>1, <2>2, <2>3, KeySteps
<1>2. IsNumbering(accepted', seen_tuple')
  <2>1. CASE UNCHANGED <<accepted, seen_tuple>>
    BY <2>1 DEF GenerationInv, AcceptsAreDistinct
  <2>2. ASSUME NEW c \in Conns, Accept(c) PROVE IsNumbering(accepted', seen_tuple')
    <3>1. /\ accepted' = [accepted EXCEPT ![c] = seen_tuple[FiveTuple[c]]]
          /\ seen_tuple' = [seen_tuple EXCEPT ![FiveTuple[c]] = seen_tuple[FiveTuple[c]] + 1]
          /\ accepted[c] = NoGeneration
      BY <2>2 DEF Accept
    <3>2. IsNumbering(accepted, seen_tuple)
      BY DEF GenerationInv, AcceptsAreDistinct
    <3> QED
      BY <1>0, <3>1, <3>2, NumberingGrows
  <2> QED
    BY <2>1, <2>2, AcceptSteps
<1>3. \A c \in Conns : key_by_conn'[c] # NoGeneration => key_by_conn[c] # NoGeneration \/ up[c] # "new"
  <2>1. ASSUME NEW r \in Requests, NEW d \in Conns, GotConn(r, d)
        PROVE  \A c \in Conns : key_by_conn'[c] # NoGeneration => key_by_conn[c] # NoGeneration \/ up[c] # "new"
    BY <2>1, FirstUse DEF Base, HarnessType
  <2> QED
    BY <2>1, KeySteps
<1>4. \A c \in Conns : accepted'[c] # NoGeneration => accepted[c] # NoGeneration \/ up[c] # "new"
  <2>1. ASSUME NEW d \in Conns, Accept(d)
        PROVE  \A c \in Conns : accepted'[c] # NoGeneration => accepted[c] # NoGeneration \/ up[c] # "new"
    BY <2>1 DEF Accept, Base, HarnessType
  <2> QED
    BY <2>1, AcceptSteps
<1>5. NumberedAreOpened'
  BY <1>3, <1>4, GivenStays DEF GenerationInv, NumberedAreOpened
<1> QED
  BY <1>1, <1>2, <1>5 DEF GenerationInv, KeysAreDistinct, AcceptsAreDistinct

LEMMA InitGenerations == HarnessInit => GenerationInv
<1> SUFFICES ASSUME HarnessInit PROVE GenerationInv
  OBVIOUS
<1>1. \A c \in Conns : key_by_conn[c] = NoGeneration /\ accepted[c] = NoGeneration
  BY DEF HarnessInit
<1>2. \A t \in Tuples : generation[t] = 0 /\ seen_tuple[t] = 0
  BY DEF HarnessInit
<1>3. \A t : HaveOne(key_by_conn, t) = {} /\ HaveOne(accepted, t) = {}
  BY <1>1 DEF HaveOne
<1> QED
  BY <1>1, <1>2, <1>3, FS_EmptySet
     DEF GenerationInv, KeysAreDistinct, AcceptsAreDistinct, IsNumbering, NumberedAreOpened
-----------------------------------------------------------------------------
(* Ordinals of fake-upstream *)

(* The attempts whose request has arrived on a connection. *)
CalledOn(c) == {r \in Requests : \E h \in handling \cup answered : h.attempt = r /\ h.conn = c}

(* The calls on a connection are numbered from 1 without a gap. *)
OrdinalsAreCounted ==
  /\ \A h \in handling \cup answered :
       accepted[h.conn] # NoGeneration /\ h.ordinal \in 1 .. server_seq[h.conn]
  /\ \A g, h \in handling \cup answered : g.conn = h.conn /\ g.ordinal = h.ordinal => g = h
  /\ \A c \in Conns : \A n \in 1 .. server_seq[c] :
       \E h \in handling \cup answered : h.conn = c /\ h.ordinal = n
  /\ \A c \in Conns : server_seq[c] = Cardinality(CalledOn(c))

LEMMA RequestsAreFinite ==
  ASSUME Base
  PROVE  IsFiniteSet(Requests) /\ \A r \in Requests : r \in Nat /\ r # NoTrace
<1>1. load.warmup \in Nat /\ load.total \in Nat
  BY HarnessAssumption DEF Base, HarnessType
<1>2. load.warmup + load.total \in Int /\ 1 \in Int
  BY <1>1
<1>3. IsFiniteSet(Requests)
  BY <1>2, FS_Interval DEF Requests
<1> QED
  BY <1>1, <1>3 DEF Requests, NoTrace

LEMMA CallSteps ==
  ASSUME HarnessStep
  PROVE  \/ UNCHANGED <<handling, answered, server_seq>>
         \/ \E m \in sent : Arrive(m)
         \/ \E h \in handling : Answer(h)
BY DEF HarnessStep, Launch, GotConn, ReadBody, Complete, Timeout, Dial, Accept, Lose, harnessVars, serverVars

LEMMA StepOrdinals == Base /\ OrdinalsAreCounted /\ HarnessStep => OrdinalsAreCounted'
<1> SUFFICES ASSUME Base, OrdinalsAreCounted, HarnessStep PROVE OrdinalsAreCounted'
  OBVIOUS
<1>0. Requests' = Requests
  BY LoadIsFixed
<1>a. \A h \in handling \cup answered : h.conn \in Conns /\ h.attempt \in Requests
  BY DEF Base, CallsAreOnce, Calls
<1>b. \A c \in Conns : accepted[c] # NoGeneration => accepted'[c] # NoGeneration
  BY GivenStays
<1>1. ASSUME (handling \cup answered)' = handling \cup answered, server_seq' = server_seq
      PROVE  OrdinalsAreCounted'
  <2> DEFINE K == handling \cup answered
  <2>1. \A c : CalledOn(c)' = CalledOn(c)
    BY <1>0, <1>1 DEF CalledOn
  <2>2. \A h \in K : accepted'[h.conn] # NoGeneration /\ h.ordinal \in 1 .. server_seq[h.conn]
    BY <1>a, <1>b DEF OrdinalsAreCounted
  <2> QED
    BY <1>1, <2>1, <2>2 DEF OrdinalsAreCounted
<1>2. ASSUME NEW m \in sent, Arrive(m) PROVE OrdinalsAreCounted'
  <2> DEFINE K == handling \cup answered
             c == m.conn
             g == [attempt |-> m.attempt, conn |-> c, ordinal |-> server_seq[c] + 1]
  <2>0. m.conn \in Conns /\ m.attempt \in Requests
    BY DEF Base, CallsAreOnce, Messages
  <2>1. /\ (handling \cup answered)' = K \cup {g}
        /\ g.attempt = m.attempt /\ g.conn = c /\ g.ordinal = server_seq[c] + 1
        /\ accepted' = accepted /\ accepted[c] # NoGeneration
    BY <1>2 DEF Arrive, connStateVars
  <2>2. /\ server_seq[c] \in Nat /\ server_seq'[c] = server_seq[c] + 1
        /\ \A d \in Conns \ {c} : server_seq'[d] = server_seq[d]
        /\ \A d \in Conns : server_seq[d] \in Nat
    BY <1>2, <2>0 DEF Arrive, Base, HarnessType
  <2> HIDE DEF g
  <2>3. \A h \in K : h.ordinal \in 1 .. server_seq[h.conn] /\ accepted[h.conn] # NoGeneration
    BY DEF OrdinalsAreCounted
  <2>4. \A h \in K \cup {g} : accepted'[h.conn] # NoGeneration /\ h.ordinal \in 1 .. server_seq'[h.conn]
    BY <1>a, <2>1, <2>2, <2>3
  <2>5. \A h \in K : ~(h.conn = c /\ h.ordinal = g.ordinal)
    BY <2>1, <2>2, <2>3
  <2>6. \A f, h \in K \cup {g} : f.conn = h.conn /\ f.ordinal = h.ordinal => f = h
    BY <2>1, <2>5 DEF OrdinalsAreCounted
  <2>7. ASSUME NEW d \in Conns, NEW n \in 1 .. server_seq'[d]
        PROVE  \E h \in K \cup {g} : h.conn = d /\ h.ordinal = n
    <3>1. CASE d = c /\ n = server_seq[c] + 1
      BY <2>1, <3>1
    <3>2. CASE ~(d = c /\ n = server_seq[c] + 1)
      <4>1. n \in 1 .. server_seq[d]
        BY <2>2, <3>2
      <4> QED
        BY <4>1 DEF OrdinalsAreCounted
    <3> QED
      BY <3>1, <3>2
  <2>8. m.attempt \notin CalledOn(c)
    BY DEF CalledOn, Base, CallsAreOnce
  <2>9. CalledOn(c)' = CalledOn(c) \cup {m.attempt} /\ \A d \in Conns \ {c} : CalledOn(d)' = CalledOn(d)
    BY <1>0, <2>0, <2>1 DEF CalledOn
  <2>10. \A d : IsFiniteSet(CalledOn(d))
    BY RequestsAreFinite, FS_Subset DEF CalledOn
  <2>11. Cardinality(CalledOn(c)') = Cardinality(CalledOn(c)) + 1
    BY <2>8, <2>9, <2>10, FS_AddElement
  <2>12. \A d \in Conns : server_seq'[d] = Cardinality(CalledOn(d)')
    <3> SUFFICES ASSUME NEW d \in Conns PROVE server_seq'[d] = Cardinality(CalledOn(d)')
      OBVIOUS
    <3>0. server_seq[d] = Cardinality(CalledOn(d))
      BY DEF OrdinalsAreCounted
    <3>1. CASE d = c
      <4>1. Cardinality(CalledOn(d)') = Cardinality(CalledOn(d)) + 1
        BY <2>11, <3>1
      <4> QED
        BY <2>2, <3>0, <3>1, <4>1
    <3>2. CASE d # c
      <4>1. CalledOn(d)' = CalledOn(d)
        BY <2>9, <3>2
      <4> QED
        BY <2>2, <3>0, <3>2, <4>1
    <3> QED
      BY <3>1, <3>2
  <2> QED
    BY <2>1, <2>4, <2>6, <2>7, <2>12 DEF OrdinalsAreCounted
<1>3. ASSUME NEW h \in handling, Answer(h) PROVE OrdinalsAreCounted'
  BY <1>1, <1>3 DEF Answer
<1> QED
  BY <1>1, <1>2, <1>3, CallSteps
-----------------------------------------------------------------------------
(* The logs *)

(* The record fake-upstream writes for a call. *)
ServerRecord(h) ==
  [attempt |-> h.attempt, conn_key |-> <<FiveTuple[h.conn], accepted[h.conn]>>, stream_id |-> h.ordinal,
   trace_id |-> IF Mask THEN NoTrace ELSE h.attempt, protocol |-> HTTP2, error |-> FALSE]

ServerLogIsRight == server_log = {ServerRecord(h) : h \in answered}

LEMMA StepServerLog ==
  Base /\ OrdinalsAreCounted /\ ServerLogIsRight /\ HarnessStep => ServerLogIsRight'
<1> SUFFICES ASSUME Base, OrdinalsAreCounted, ServerLogIsRight, HarnessStep PROVE ServerLogIsRight'
  OBVIOUS
<1>0. \A h \in handling \cup answered : accepted'[h.conn] = accepted[h.conn]
  BY GivenStays DEF OrdinalsAreCounted, Base, CallsAreOnce, Calls
<1>1. \A h \in handling \cup answered : ServerRecord(h)' = ServerRecord(h)
  BY <1>0 DEF ServerRecord
<1>2. ASSUME UNCHANGED <<answered, server_log>> PROVE ServerLogIsRight'
  BY <1>1, <1>2 DEF ServerLogIsRight
<1>3. ASSUME NEW h \in handling, Answer(h) PROVE ServerLogIsRight'
  <2>1. answered' = answered \cup {h} /\ server_log' = server_log \cup {ServerRecord(h)}
    BY <1>3 DEF Answer, ServerRecord
  <2> QED
    BY <1>1, <2>1 DEF ServerLogIsRight
<1> QED
  BY <1>2, <1>3
     DEF HarnessStep, Launch, GotConn, ReadBody, Complete, Timeout, Arrive, Dial, Accept, Lose,
         harnessVars, serverVars

(* One record of every attempt that ended, and its protocol is never HTTP/1.1. *)
ClientLogIsRight ==
  /\ \A e \in log : /\ e.attempt \in Requests /\ phase[e.attempt] = "ended"
                    /\ e.trace_id = e.attempt /\ e.protocol \in {HTTP2, ""}
  /\ \A e, f \in log : e.attempt = f.attempt => e = f

LEMMA StepClientLog == Base /\ ClientLogIsRight /\ HarnessStep => ClientLogIsRight'
<1> SUFFICES ASSUME Base, ClientLogIsRight, HarnessStep PROVE ClientLogIsRight'
  OBVIOUS
<1>0. Requests' = Requests
  BY LoadIsFixed
<1>1. ASSUME log' = log, \A r \in Requests : phase[r] = "ended" => phase'[r] = "ended"
      PROVE  ClientLogIsRight'
  BY <1>0, <1>1 DEF ClientLogIsRight
<1>2. ASSUME NEW r \in Requests, NEW id, NEW protocol \in {HTTP2, ""}, NEW error,
             phase[r] # "ended", Record(r, id, protocol, error)
      PROVE  ClientLogIsRight'
  <2> DEFINE f == [attempt |-> r, conn_key |-> IF conn[r] = None THEN <<None, NoGeneration>> ELSE Key(conn[r]),
                   stream_id |-> id, trace_id |-> r, protocol |-> protocol, error |-> error]
  <2>0. f.attempt = r /\ f.trace_id = r /\ f.protocol = protocol
    OBVIOUS
  <2>1. log' = log \cup {f}
    BY <1>2 DEF Record
  <2> HIDE DEF f
  <2>2. phase'[r] = "ended" /\ \A s \in Requests \ {r} : phase'[s] = phase[s]
    BY <1>2 DEF Record, Base, HarnessType
  <2>3. \A e \in log : e.attempt # r
    <3>1. \A e \in log : phase[e.attempt] = "ended"
      BY Zenon DEF ClientLogIsRight
    <3>2. phase[r] # "ended"
      BY <1>2
    <3> QED
      BY <3>1, <3>2, Zenon
  <2>4. \A e \in log' : /\ e.attempt \in Requests /\ phase'[e.attempt] = "ended"
                        /\ e.trace_id = e.attempt /\ e.protocol \in {HTTP2, ""}
    <3>1. ASSUME NEW e \in log
          PROVE  /\ e.attempt \in Requests /\ phase'[e.attempt] = "ended"
                 /\ e.trace_id = e.attempt /\ e.protocol \in {HTTP2, ""}
      <4>1. /\ e.attempt \in Requests /\ phase[e.attempt] = "ended"
            /\ e.trace_id = e.attempt /\ e.protocol \in {HTTP2, ""}
        BY <3>1, Zenon DEF ClientLogIsRight
      <4>2. e.attempt \in Requests \ {r}
        BY <2>3, <4>1
      <4> QED
        BY <2>2, <4>1, <4>2
    <3>2. /\ f.attempt \in Requests /\ phase'[f.attempt] = "ended"
          /\ f.trace_id = f.attempt /\ f.protocol \in {HTTP2, ""}
      BY <1>2, <2>0, <2>2
    <3> QED
      BY <2>1, <3>1, <3>2
  <2>5. \A e, g \in log' : e.attempt = g.attempt => e = g
    BY <2>0, <2>1, <2>3 DEF ClientLogIsRight
  <2> QED
    BY <1>0, <2>4, <2>5 DEF ClientLogIsRight
<1> USE DEF Base, HarnessType, OnConn
<1>3. ASSUME NEW r \in Requests, Launch(r) PROVE ClientLogIsRight'
  BY <1>1, <1>3 DEF Launch, IsNext
<1>4. ASSUME NEW r \in Requests, NEW c \in Conns, GotConn(r, c) PROVE ClientLogIsRight'
  BY <1>1, <1>4 DEF GotConn
<1>5. ASSUME NEW r \in Requests, NEW whole \in BOOLEAN, ReadBody(r, whole) PROVE ClientLogIsRight'
  BY <1>1, <1>5 DEF ReadBody
<1>6. ASSUME NEW h, Answer(h) \/ Arrive(h) PROVE ClientLogIsRight'
  BY <1>1, <1>6 DEF Answer, Arrive, clientVars
<1>7. ASSUME NEW c \in Conns, Dial(c) \/ Accept(c) \/ Lose(c) PROVE ClientLogIsRight'
  BY <1>1, <1>7 DEF Dial, Accept, Lose, clientVars
<1>8. CASE UNCHANGED harnessVars
  BY <1>1, <1>8 DEF harnessVars, clientVars
<1>9. ASSUME NEW r \in Requests, Timeout(r) PROVE ClientLogIsRight'
  <2>1. phase[r] # "ended" /\ Record(r, -1, "", TRUE)
    BY <1>9 DEF Timeout
  <2> QED
    BY <1>2, <2>1
<1>10. ASSUME NEW r \in Requests, Complete(r) PROVE ClientLogIsRight'
  <2>1. phase[r] # "ended" /\ Record(r, NextStream(r), HTTP2, phase[r] = "cut")
    BY <1>10 DEF Complete
  <2> QED
    BY <1>2, <2>1
<1> QED
  BY <1>3, <1>4, <1>5, <1>6, <1>7, <1>8, <1>9, <1>10 DEF HarnessStep
-----------------------------------------------------------------------------
(* Ordinals of load-gen *)

(* A generation that was not given out has no responses. *)
FreshKeys ==
  \A t \in Tuples, g \in 0 .. Cardinality(Conns) : g >= generation[t] => stream_seq[<<t, g>>] = 0

(* Responses the client has counted on a connection. *)
Counted(c) == IF key_by_conn[c] = NoGeneration THEN 0 ELSE stream_seq[Key(c)]

(* The attempts whose response was read on a connection. *)
ReadOn(c) == {r \in Requests : conn[r] = c /\ \E e \in log : e.attempt = r /\ IsNumbered(e)}

IsAnswered(r) == \E h \in answered : h.attempt = r /\ h.conn = conn[r]

ReadWasAnswered == \A r \in Requests : phase[r] \in {"read", "cut"} => IsAnswered(r)

(* The numbered records of a connection have ordinals up to the number of  *)
(* responses, no two the same, and the request of each was answered there. *)
ReadsAreCounted ==
  /\ \A c \in Conns : Counted(c) = Cardinality(ReadOn(c))
  /\ \A e \in log : IsNumbered(e) =>
       /\ conn[e.attempt] \in Conns /\ key_by_conn[conn[e.attempt]] # NoGeneration
       /\ e.conn_key = Key(conn[e.attempt])
       /\ e.stream_id \in 1 .. Counted(conn[e.attempt])
       /\ IsAnswered(e.attempt)
  /\ \A e, f \in log : IsNumbered(e) /\ IsNumbered(f) /\ conn[e.attempt] = conn[f.attempt]
                         /\ e.stream_id = f.stream_id => e = f

(* A used connection's key is one of the counters of the client. *)
LEMMA KeyIsCounter ==
  ASSUME HarnessType, KeysAreDistinct, NEW c \in Conns, key_by_conn[c] # NoGeneration
  PROVE  Key(c) \in ConnKeys
<1>1. FiveTuple[c] \in Tuples
  BY TupleOfConn
<1>2. key_by_conn[c] \in Nat /\ key_by_conn[c] < generation[FiveTuple[c]]
  BY DEF HarnessType, KeysAreDistinct, IsNumbering, Generations
<1>3. generation[FiveTuple[c]] <= Cardinality(Conns) /\ Cardinality(Conns) \in Nat
  BY <1>1, HaveOneIsBounded DEF KeysAreDistinct, IsNumbering
<1>4. generation[FiveTuple[c]] \in Nat
  BY <1>1 DEF HarnessType
<1>5. key_by_conn[c] \in 0 .. Cardinality(Conns)
  BY <1>2, <1>3, <1>4
<1> QED
  BY <1>1, <1>5 DEF Key, ConnKeys

(* What completes has its key among the client's counters. *)
LEMMA CompletedKey ==
  ASSUME Base, KeysAreDistinct, NEW r \in Requests, Complete(r)
  PROVE  /\ conn[r] \in Conns /\ key_by_conn[conn[r]] # NoGeneration
         /\ stream_seq'[Key(conn[r])] = stream_seq[Key(conn[r])] + 1
         /\ stream_seq[Key(conn[r])] \in Nat
         /\ \A k \in ConnKeys : k # Key(conn[r]) => stream_seq'[k] = stream_seq[k]
<1>1. conn[r] \in Conns /\ key_by_conn[conn[r]] # NoGeneration
  BY DEF Complete, Base, WaitingHasConn, OnConn
<1>2. Key(conn[r]) \in ConnKeys
  BY <1>1, KeyIsCounter DEF Base
<1> DEFINE k == Key(conn[r])
<1>3. stream_seq' = [stream_seq EXCEPT ![k] = stream_seq[k] + 1]
  BY DEF Complete
<1>4. stream_seq \in [ConnKeys -> Nat]
  BY DEF Base, HarnessType
<1> HIDE DEF k
<1>5. k \in ConnKeys => /\ stream_seq'[k] = stream_seq[k] + 1 /\ stream_seq[k] \in Nat
                        /\ \A j \in ConnKeys : j # k => stream_seq'[j] = stream_seq[j]
  BY <1>3, <1>4
<1> QED
  BY <1>1, <1>2, <1>5 DEF k

LEMMA StreamSeqSteps == HarnessStep => stream_seq' = stream_seq \/ \E r \in Requests : Complete(r)
BY DEF HarnessStep, Launch, GotConn, ReadBody, Timeout, Arrive, Answer, Dial, Accept, Lose,
       harnessVars, clientVars, trackerVars

LEMMA StepFresh == Base /\ KeysAreDistinct /\ FreshKeys /\ HarnessStep => FreshKeys'
<1> SUFFICES ASSUME Base, KeysAreDistinct, FreshKeys, HarnessStep,
                    NEW t \in Tuples, NEW g \in 0 .. Cardinality(Conns), g >= generation'[t]
             PROVE  stream_seq'[<<t, g>>] = 0
  BY DEF FreshKeys
<1>0. Cardinality(Conns) \in Nat /\ generation[t] \in Nat /\ <<t, g>> \in ConnKeys
  BY HarnessAssumption, FS_CardinalityType DEF Base, HarnessType, ConnKeys
<1>1. generation'[t] = generation[t] \/ generation'[t] = generation[t] + 1
  <2>1. ASSUME NEW r \in Requests, NEW c \in Conns, GotConn(r, c)
        PROVE  generation'[t] = generation[t] \/ generation'[t] = generation[t] + 1
    BY <2>1, FirstUse DEF Base, HarnessType
  <2> QED
    BY <2>1, KeySteps
<1>2. g >= generation[t]
  BY <1>0, <1>1
<1>3. ASSUME NEW r \in Requests, Complete(r) PROVE stream_seq'[<<t, g>>] = stream_seq[<<t, g>>]
  <2> DEFINE c == conn[r]
  <2>1. c \in Conns /\ key_by_conn[c] # NoGeneration
    BY <1>3, CompletedKey
  <2>2. key_by_conn[c] \in Nat /\ key_by_conn[c] < generation[FiveTuple[c]] /\ generation[FiveTuple[c]] \in Nat
    BY <2>1, TupleOfConn DEF Base, HarnessType, KeysAreDistinct, IsNumbering, Generations
  <2>3. <<t, g>> # Key(c)
    BY <1>2, <2>2 DEF Key
  <2> QED
    BY <1>0, <1>3, <2>3, CompletedKey
<1>4. stream_seq[<<t, g>>] = 0
  BY <1>2 DEF FreshKeys
<1> QED
  BY <1>3, <1>4, StreamSeqSteps

(* Only the end of performRequest counts a response. *)
LEMMA CountedSteps ==
  ASSUME Base, KeysAreDistinct, FreshKeys, HarnessStep
  PROVE  /\ \A d \in Conns : Counted(d) \in Nat
         /\ (\A d \in Conns : Counted(d)' = Counted(d)) \/ \E r \in Requests : Complete(r)
         /\ \A r \in Requests : Complete(r) =>
              \A d \in Conns : Counted(d)' = IF d = conn[r] THEN Counted(d) + 1 ELSE Counted(d)
<1>0. \A d \in Conns : Counted(d) \in Nat
  BY KeyIsCounter DEF Counted, Base, HarnessType
<1>1. ASSUME UNCHANGED <<key_by_conn, stream_seq>> PROVE \A d \in Conns : Counted(d)' = Counted(d)
  BY <1>1 DEF Counted, Key
<1>2. ASSUME NEW r \in Requests, NEW c \in Conns, GotConn(r, c), key_by_conn[c] = NoGeneration
      PROVE  \A d \in Conns : Counted(d)' = Counted(d)
  <2> DEFINE t == FiveTuple[c]
  <2>1. /\ t \in Tuples /\ generation[t] \in Nat /\ key_by_conn'[c] = generation[t]
        /\ \A d \in Conns \ {c} : key_by_conn'[d] = key_by_conn[d]
        /\ stream_seq' = stream_seq
    BY <1>2, FirstUse DEF Base, HarnessType
  <2>2. generation[t] <= Cardinality(Conns) /\ Cardinality(Conns) \in Nat
    BY <2>1, HaveOneIsBounded DEF KeysAreDistinct, IsNumbering
  <2>3. generation[t] \in 0 .. Cardinality(Conns)
    BY <2>1, <2>2
  <2>4. stream_seq[<<t, generation[t]>>] = 0
    BY <2>1, <2>3 DEF FreshKeys
  <2>5. Counted(c)' = 0 /\ Counted(c) = 0
    BY <1>2, <2>1, <2>4 DEF Counted, Key
  <2>6. \A d \in Conns \ {c} : Counted(d)' = Counted(d)
    BY <2>1 DEF Counted, Key
  <2> QED
    BY <2>5, <2>6
<1>3. ASSUME NEW r \in Requests, NEW c \in Conns, GotConn(r, c) PROVE \A d \in Conns : Counted(d)' = Counted(d)
  BY <1>1, <1>2, <1>3, FirstUse
<1>4. ASSUME NEW r \in Requests, Complete(r), NEW d \in Conns
      PROVE  Counted(d)' = IF d = conn[r] THEN Counted(d) + 1 ELSE Counted(d)
  <2>1. /\ conn[r] \in Conns /\ key_by_conn[conn[r]] # NoGeneration
        /\ stream_seq'[Key(conn[r])] = stream_seq[Key(conn[r])] + 1
        /\ \A k \in ConnKeys : k # Key(conn[r]) => stream_seq'[k] = stream_seq[k]
    BY <1>4, CompletedKey
  <2>2. key_by_conn' = key_by_conn
    BY <1>4 DEF Complete
  <2>3. CASE d = conn[r]
    BY <2>1, <2>2, <2>3 DEF Counted, Key
  <2>4. CASE d # conn[r] /\ key_by_conn[d] # NoGeneration
    <3>1. Key(d) # Key(conn[r]) /\ Key(d) \in ConnKeys
      BY <2>1, <2>4, KeyIsCounter DEF Base, Key, KeysAreDistinct, IsNumbering
    <3>2. stream_seq'[Key(d)] = stream_seq[Key(d)]
      BY <2>1, <3>1
    <3> QED
      BY <2>2, <2>4, <3>2 DEF Counted, Key
  <2>5. CASE d # conn[r] /\ key_by_conn[d] = NoGeneration
    BY <2>2, <2>5 DEF Counted
  <2> QED
    BY <2>3, <2>4, <2>5
<1> QED
  BY <1>0, <1>1, <1>3, <1>4, KeySteps, StreamSeqSteps

(* An attempt that has ended, or whose body is over, keeps its connection. *)
LEMMA ConnStays ==
  ASSUME Base, HarnessStep
  PROVE  \A r \in Requests : phase[r] # "started" => conn'[r] = conn[r]
<1>1. ASSUME NEW s \in Requests, NEW c \in Conns, GotConn(s, c)
      PROVE  \A r \in Requests : phase[r] # "started" => conn'[r] = conn[r]
  BY <1>1 DEF GotConn, Base, HarnessType
<1> QED
  BY <1>1 DEF HarnessStep, Launch, ReadBody, Complete, Timeout, Arrive, Answer, Dial, Accept, Lose,
              harnessVars, clientVars

LEMMA AnsweredGrows == HarnessStep => answered \subseteq answered'
BY DEF HarnessStep, Launch, GotConn, ReadBody, Complete, Timeout, Arrive, Answer, Dial, Accept, Lose,
       harnessVars, serverVars

LEMMA StepReadWasAnswered == Base /\ ReadWasAnswered /\ HarnessStep => ReadWasAnswered'
<1> SUFFICES ASSUME Base, ReadWasAnswered, HarnessStep,
                    NEW r \in Requests, phase'[r] \in {"read", "cut"}
             PROVE  \E h \in answered' : h.attempt = r /\ h.conn = conn'[r]
  BY LoadIsFixed DEF ReadWasAnswered, IsAnswered
<1> USE DEF Base, HarnessType, OnConn
<1>1. \/ phase[r] \in {"read", "cut"}
      \/ phase[r] = "waiting" /\ IsAnswered(r)
  <2>1. ASSUME NEW s \in Requests, Launch(s) \/ Complete(s) \/ Timeout(s) PROVE phase'[r] = phase[r]
    BY <2>1 DEF Launch, Complete, Timeout, Record
  <2>2. ASSUME NEW s \in Requests, NEW c \in Conns, GotConn(s, c) PROVE phase'[r] = phase[r]
    BY <2>2 DEF GotConn
  <2>3. ASSUME NEW s \in Requests, NEW whole \in BOOLEAN, ReadBody(s, whole)
        PROVE  phase'[r] = phase[r] \/ (phase[r] = "waiting" /\ IsAnswered(r))
    BY <2>3 DEF ReadBody, IsAnswered
  <2>4. ASSUME NEW c \in Conns, Dial(c) \/ Accept(c) \/ Lose(c) PROVE phase'[r] = phase[r]
    BY <2>4 DEF Dial, Accept, Lose, clientVars
  <2> QED
    BY <2>1, <2>2, <2>3, <2>4 DEF HarnessStep, Arrive, Answer, harnessVars, clientVars
<1>2. IsAnswered(r) /\ conn'[r] = conn[r]
  BY <1>1, ConnStays DEF ReadWasAnswered
<1> QED
  BY <1>2, AnsweredGrows DEF IsAnswered

(* A new record is without an ordinal, or has the next one of its connection. *)
LEMMA LogSteps ==
  ASSUME Base, KeysAreDistinct, HarnessStep
  PROVE  \/ log' = log
         \/ \E f : log' = log \cup {f} /\ ~IsNumbered(f)
         \/ \E r \in Requests : Complete(r)
<1>1. ASSUME NEW r \in Requests, Timeout(r) PROVE \E f : log' = log \cup {f} /\ ~IsNumbered(f)
  <2> DEFINE f == [attempt |-> r, conn_key |-> IF conn[r] = None THEN <<None, NoGeneration>> ELSE Key(conn[r]),
                   stream_id |-> -1, trace_id |-> r, protocol |-> "", error |-> TRUE]
  <2>1. log' = log \cup {f} /\ f.stream_id = -1
    BY <1>1 DEF Timeout, Record
  <2> HIDE DEF f
  <2> QED
    BY <2>1 DEF IsNumbered
<1> QED
  BY <1>1 DEF HarnessStep, Launch, GotConn, ReadBody, Arrive, Answer, Dial, Accept, Lose,
              harnessVars, clientVars

LEMMA NewRecord ==
  ASSUME Base, KeysAreDistinct, NEW r \in Requests, Complete(r)
  PROVE  \E f : /\ log' = log \cup {f} /\ IsNumbered(f) /\ f.attempt = r
                /\ f.conn_key = Key(conn[r]) /\ f.stream_id = Counted(conn[r]) + 1
<1> DEFINE f == [attempt |-> r, conn_key |-> IF conn[r] = None THEN <<None, NoGeneration>> ELSE Key(conn[r]),
                 stream_id |-> NextStream(r), trace_id |-> r, protocol |-> HTTP2, error |-> phase[r] = "cut"]
<1>1. /\ conn[r] \in Conns /\ key_by_conn[conn[r]] # NoGeneration
      /\ stream_seq[Key(conn[r])] \in Nat
  BY CompletedKey
<1>2. conn[r] # None
  BY <1>1, HarnessAssumption
<1>3. /\ log' = log \cup {f} /\ f.attempt = r /\ f.stream_id = NextStream(r)
      /\ f.conn_key = Key(conn[r])
  BY <1>2 DEF Complete, Record
<1> HIDE DEF f
<1>4. NextStream(r) = Counted(conn[r]) + 1 /\ NextStream(r) # -1
  BY <1>1 DEF NextStream, Counted
<1> QED
  BY <1>3, <1>4 DEF IsNumbered

(* What a record says stays true of its connection. *)
LEMMA RecordStays ==
  ASSUME Base, KeysAreDistinct, FreshKeys, ClientLogIsRight, ReadsAreCounted, HarnessStep,
         NEW e \in log, IsNumbered(e)
  PROVE  /\ e.attempt \in Requests /\ conn'[e.attempt] = conn[e.attempt]
         /\ conn[e.attempt] \in Conns
         /\ key_by_conn'[conn[e.attempt]] = key_by_conn[conn[e.attempt]]
         /\ key_by_conn[conn[e.attempt]] # NoGeneration
         /\ e.conn_key = Key(conn[e.attempt])
         /\ Counted(conn[e.attempt]) \in Nat
         /\ e.stream_id \in 1 .. Counted(conn[e.attempt])
         /\ \E h \in answered' : h.attempt = e.attempt /\ h.conn = conn[e.attempt]
<1>1. /\ conn[e.attempt] \in Conns /\ key_by_conn[conn[e.attempt]] # NoGeneration
      /\ e.conn_key = Key(conn[e.attempt])
      /\ e.stream_id \in 1 .. Counted(conn[e.attempt])
      /\ IsAnswered(e.attempt)
  BY DEF ReadsAreCounted
<1>2. e.attempt \in Requests /\ phase[e.attempt] = "ended"
  BY Zenon DEF ClientLogIsRight
<1>3. conn'[e.attempt] = conn[e.attempt]
  BY <1>2, ConnStays
<1>4. key_by_conn'[conn[e.attempt]] = key_by_conn[conn[e.attempt]]
  BY <1>1, GivenStays
<1>5. Counted(conn[e.attempt]) \in Nat
  BY <1>1, CountedSteps
<1>6. \E h \in answered' : h.attempt = e.attempt /\ h.conn = conn[e.attempt]
  BY <1>1, AnsweredGrows DEF IsAnswered
<1> QED
  BY <1>1, <1>2, <1>3, <1>4, <1>5, <1>6

LEMMA StepReads ==
  ASSUME Base, KeysAreDistinct, FreshKeys, ClientLogIsRight, ReadWasAnswered, ReadsAreCounted, HarnessStep
  PROVE  ReadsAreCounted'
<1> DEFINE Right(e, C) ==
      /\ conn'[e.attempt] \in Conns /\ key_by_conn'[conn'[e.attempt]] # NoGeneration
      /\ e.conn_key = <<FiveTuple[conn'[e.attempt]], key_by_conn'[conn'[e.attempt]]>>
      /\ e.stream_id \in 1 .. C[conn'[e.attempt]]
      /\ \E h \in answered' : h.attempt = e.attempt /\ h.conn = conn'[e.attempt]
    N == [d \in Conns |-> Counted(d)']
<1>0. Requests' = Requests
  BY LoadIsFixed
<1>a. \A e : IsNumbered(e)' <=> IsNumbered(e)
  BY DEF IsNumbered
<1>b. \A d \in Conns : N[d] = Counted(d)' /\ Counted(d) \in Nat /\ Counted(d) = Cardinality(ReadOn(d))
  BY CountedSteps DEF ReadsAreCounted
<1>c. \A d : IsFiniteSet(ReadOn(d))
  BY RequestsAreFinite, FS_Subset DEF ReadOn
<1>d. \A d : ReadOn(d)' = {r \in Requests : conn'[r] = d /\ \E e \in log' : e.attempt = r /\ IsNumbered(e)}
  BY <1>0, <1>a DEF ReadOn
<1>e. \A e \in log : e.attempt \in Requests /\ conn'[e.attempt] = conn[e.attempt]
  <2>1. \A e \in log : e.attempt \in Requests /\ phase[e.attempt] = "ended"
    BY Zenon DEF ClientLogIsRight
  <2> QED
    BY <2>1, ConnStays
<1>1. SUFFICES /\ \A d \in Conns : N[d] = Cardinality(ReadOn(d)')
               /\ \A e \in log' : IsNumbered(e) => Right(e, N)
               /\ \A e, f \in log' : IsNumbered(e) /\ IsNumbered(f) /\ conn'[e.attempt] = conn'[f.attempt]
                                     /\ e.stream_id = f.stream_id => e = f
  <2>1. \A e \in log' : IsNumbered(e)' =>
          /\ (conn[e.attempt])' \in Conns /\ (key_by_conn[conn[e.attempt]])' # NoGeneration
          /\ e.conn_key = Key(conn[e.attempt])'
          /\ e.stream_id \in 1 .. Counted(conn[e.attempt])'
          /\ IsAnswered(e.attempt)'
    <3> SUFFICES ASSUME NEW e \in log', IsNumbered(e)
                 PROVE  /\ conn'[e.attempt] \in Conns /\ key_by_conn'[conn'[e.attempt]] # NoGeneration
                        /\ e.conn_key = Key(conn[e.attempt])'
                        /\ e.stream_id \in 1 .. Counted(conn[e.attempt])'
                        /\ IsAnswered(e.attempt)'
      BY <1>a
    <3>1. Right(e, N)
      BY <1>1
    <3>2. Counted(conn[e.attempt])' = N[conn'[e.attempt]]
      BY <3>1 DEF Counted, Key
    <3> QED
      BY <3>1, <3>2 DEF Key, IsAnswered
  <2> QED
    BY <1>1, <1>a, <1>b, <2>1 DEF ReadsAreCounted
<1>2. ASSUME NEW e \in log, IsNumbered(e), N[conn[e.attempt]] \in Nat,
             N[conn[e.attempt]] >= Counted(conn[e.attempt])
      PROVE  Right(e, N)
  <2>1. /\ e.attempt \in Requests /\ conn'[e.attempt] = conn[e.attempt]
        /\ conn[e.attempt] \in Conns
        /\ key_by_conn'[conn[e.attempt]] = key_by_conn[conn[e.attempt]]
        /\ key_by_conn[conn[e.attempt]] # NoGeneration
        /\ e.conn_key = Key(conn[e.attempt])
        /\ Counted(conn[e.attempt]) \in Nat
        /\ e.stream_id \in 1 .. Counted(conn[e.attempt])
        /\ \E h \in answered' : h.attempt = e.attempt /\ h.conn = conn[e.attempt]
    BY <1>2, RecordStays
  <2> HIDE DEF N
  <2>2. e.stream_id \in 1 .. N[conn[e.attempt]]
    BY <1>2, <2>1
  <2> QED
    BY <2>1, <2>2 DEF Key
<1>3. ASSUME NEW e \in log, NEW f \in log, IsNumbered(e), IsNumbered(f),
             conn'[e.attempt] = conn'[f.attempt], e.stream_id = f.stream_id
      PROVE  e = f
  BY <1>3, <1>e DEF ReadsAreCounted
<1>4. ASSUME \A d \in Conns : Counted(d)' = Counted(d),
             \A e \in log' : IsNumbered(e) => e \in log,
             log \subseteq log'
      PROVE  /\ \A d \in Conns : N[d] = Cardinality(ReadOn(d)')
             /\ \A e \in log' : IsNumbered(e) => Right(e, N)
             /\ \A e, f \in log' : IsNumbered(e) /\ IsNumbered(f) /\ conn'[e.attempt] = conn'[f.attempt]
                                   /\ e.stream_id = f.stream_id => e = f
  <2>1. \A d : ReadOn(d)' = ReadOn(d)
    <3> SUFFICES ASSUME NEW d PROVE ReadOn(d)' = ReadOn(d)
      OBVIOUS
    <3>1. \A r \in Requests : (conn'[r] = d /\ \E e \in log' : e.attempt = r /\ IsNumbered(e))
                                <=> (conn[r] = d /\ \E e \in log : e.attempt = r /\ IsNumbered(e))
      BY <1>4, <1>e
    <3> QED
      BY <1>d, <3>1 DEF ReadOn
  <2>2. \A e \in log' : IsNumbered(e) => Right(e, N)
    <3> SUFFICES ASSUME NEW e \in log', IsNumbered(e) PROVE Right(e, N)
      OBVIOUS
    <3>1. e \in log /\ conn[e.attempt] \in Conns
      BY <1>4 DEF ReadsAreCounted
    <3>2. N[conn[e.attempt]] = Counted(conn[e.attempt]) /\ Counted(conn[e.attempt]) \in Nat
      <4>1. \A d \in Conns : N[d] = Counted(d) /\ Counted(d) \in Nat
        BY <1>4, <1>b
      <4> HIDE DEF N
      <4> QED
        BY <3>1, <4>1
    <3> HIDE DEF N, Right
    <3> QED
      BY <1>2, <3>1, <3>2
  <2> HIDE DEF Right
  <2>3. \A d \in Conns : N[d] = Cardinality(ReadOn(d)')
    BY <1>4, <1>b, <2>1
  <2> QED
    BY <1>3, <1>4, <2>2, <2>3
<1>5. ASSUME NEW r \in Requests, Complete(r)
      PROVE  /\ \A d \in Conns : N[d] = Cardinality(ReadOn(d)')
             /\ \A e \in log' : IsNumbered(e) => Right(e, N)
             /\ \A e, f \in log' : IsNumbered(e) /\ IsNumbered(f) /\ conn'[e.attempt] = conn'[f.attempt]
                                   /\ e.stream_id = f.stream_id => e = f
  <2>1. PICK g : /\ log' = log \cup {g} /\ IsNumbered(g) /\ g.attempt = r
                 /\ g.conn_key = Key(conn[r]) /\ g.stream_id = Counted(conn[r]) + 1
    BY <1>5, NewRecord
  <2>2. /\ conn[r] \in Conns /\ key_by_conn[conn[r]] # NoGeneration
    BY <1>5, CompletedKey
  <2>3. conn' = conn /\ key_by_conn' = key_by_conn /\ phase[r] \in {"read", "cut"} /\ phase[r] # "ended"
    BY <1>5 DEF Complete
  <2>4. \A d \in Conns : N[d] = (IF d = conn[r] THEN Counted(d) + 1 ELSE Counted(d)) /\ Counted(d) \in Nat
    <3>1. \A d \in Conns : Counted(d)' = IF d = conn[r] THEN Counted(d) + 1 ELSE Counted(d)
      BY <1>5, CountedSteps
    <3> QED
      BY <1>b, <3>1
  <2> HIDE DEF N
  <2>5. \A e \in log : e.attempt # r
    <3>1. \A e \in log : phase[e.attempt] = "ended"
      BY Zenon DEF ClientLogIsRight
    <3> QED
      BY <2>3, <3>1, Zenon
  <2>6. ReadOn(conn[r]) \cup {r} = {s \in Requests : conn'[s] = conn[r] /\ \E e \in log' : e.attempt = s /\ IsNumbered(e)}
    BY <2>1, <2>3 DEF ReadOn
  <2>7. r \notin ReadOn(conn[r])
    BY <2>5 DEF ReadOn
  <2>8. ASSUME NEW d \in Conns PROVE N[d] = Cardinality(ReadOn(d)')
    <3>0. IsFiniteSet(ReadOn(d)) /\ Cardinality(ReadOn(d)) = Counted(d) /\ Counted(d) \in Nat
      BY <1>b, <1>c
    <3>1. CASE d = conn[r]
      <4>1. ReadOn(d)' = ReadOn(d) \cup {r} /\ r \notin ReadOn(d)
        BY <1>d, <2>6, <2>7, <3>1
      <4>2. Cardinality(ReadOn(d)') = Cardinality(ReadOn(d)) + 1
        BY <3>0, <4>1, FS_AddElement
      <4> QED
        BY <2>4, <3>0, <3>1, <4>2
    <3>2. CASE d # conn[r]
      <4>1. ReadOn(d)' = ReadOn(d)
        BY <1>d, <2>1, <2>3, <3>2 DEF ReadOn
      <4> QED
        BY <2>4, <3>0, <3>2, <4>1
    <3> QED
      BY <3>1, <3>2
  <2>9. Right(g, N)
    <3>1. g.stream_id \in 1 .. N[conn[r]]
      BY <2>1, <2>2, <2>4
    <3>2. \E h \in answered' : h.attempt = r /\ h.conn = conn[r]
      BY <2>3, AnsweredGrows DEF ReadWasAnswered, IsAnswered
    <3> QED
      BY <2>1, <2>2, <2>3, <3>1, <3>2 DEF Key
  <2>10. ASSUME NEW e \in log, IsNumbered(e) PROVE Right(e, N)
    <3>1. conn[e.attempt] \in Conns
      BY <2>10 DEF ReadsAreCounted
    <3>2. N[conn[e.attempt]] \in Nat /\ N[conn[e.attempt]] >= Counted(conn[e.attempt])
      BY <2>4, <3>1
    <3> HIDE DEF Right
    <3> QED
      BY <1>2, <2>10, <3>2
  <2>11. ASSUME NEW e \in log, IsNumbered(e), conn[e.attempt] = conn[r] PROVE e.stream_id # g.stream_id
    <3>1. e.stream_id \in 1 .. Counted(conn[r]) /\ Counted(conn[r]) \in Nat
      BY <2>2, <2>4, <2>11 DEF ReadsAreCounted
    <3> QED
      BY <2>1, <3>1
  <2> HIDE DEF Right
  <2>12. \A e \in log' : IsNumbered(e) => Right(e, N)
    BY <2>1, <2>9, <2>10
  <2>13. ASSUME NEW e \in log', NEW f \in log', IsNumbered(e), IsNumbered(f),
                conn'[e.attempt] = conn'[f.attempt], e.stream_id = f.stream_id
         PROVE  e = f
    <3>1. CASE e \in log /\ f \in log
      BY <1>3, <2>13, <3>1
    <3>2. CASE e = g /\ f \in log
      BY <2>1, <2>3, <2>11, <2>13, <3>2
    <3>3. CASE f = g /\ e \in log
      BY <2>1, <2>3, <2>11, <2>13, <3>3
    <3> QED
      BY <2>1, <3>1, <3>2, <3>3
  <2> QED
    BY <2>8, <2>12, <2>13
<1> HIDE DEF Right, N
<1>6. CASE \E r \in Requests : Complete(r)
  BY <1>5, <1>6
<1>7. CASE ~ \E r \in Requests : Complete(r)
  <2>1. \A d \in Conns : Counted(d)' = Counted(d)
    BY <1>7, CountedSteps
  <2>2. log \subseteq log' /\ \A e \in log' : IsNumbered(e) => e \in log
    BY <1>7, LogSteps
  <2> QED
    BY <1>4, <2>1, <2>2
<1> QED
  BY <1>6, <1>7
-----------------------------------------------------------------------------
(* The join of the two logs *)

JoinInv ==
  /\ Base /\ GenerationInv
  /\ OrdinalsAreCounted /\ ServerLogIsRight
  /\ ClientLogIsRight /\ FreshKeys /\ ReadWasAnswered /\ ReadsAreCounted

LEMMA StepJoin == JoinInv /\ HarnessStep => JoinInv'
BY StepBase, StepGenerations, StepOrdinals, StepServerLog, StepClientLog, StepFresh,
   StepReadWasAnswered, StepReads DEF JoinInv, GenerationInv

LEMMA InitJoin == HarnessInit => JoinInv
<1> SUFFICES ASSUME HarnessInit PROVE JoinInv
  OBVIOUS
<1>1. Base /\ GenerationInv
  BY InitBase, InitGenerations
<1>2. handling = {} /\ answered = {} /\ log = {} /\ server_log = {}
  BY DEF HarnessInit
<1>3. \A c \in Conns : server_seq[c] = 0 /\ key_by_conn[c] = NoGeneration
  BY DEF HarnessInit
<1>4. \A c \in Conns : CalledOn(c) = {} /\ ReadOn(c) = {}
  BY <1>2 DEF CalledOn, ReadOn
<1>5. OrdinalsAreCounted /\ ServerLogIsRight
  BY <1>2, <1>3, <1>4, FS_EmptySet DEF OrdinalsAreCounted, ServerLogIsRight
<1>6. ClientLogIsRight
  BY <1>2 DEF ClientLogIsRight
<1>7. FreshKeys
  BY DEF HarnessInit, FreshKeys, ConnKeys
<1>8. ReadWasAnswered
  BY DEF HarnessInit, ReadWasAnswered
<1>9. ReadsAreCounted
  BY <1>2, <1>3, <1>4, FS_EmptySet DEF ReadsAreCounted, Counted
<1> QED
  BY <1>1, <1>5, <1>6, <1>7, <1>8, <1>9 DEF JoinInv

(* Records whose keys are distinct and all found join with as many. *)
LEMMA JoinedCount ==
  ASSUME NEW E, NEW O, IsFiniteSet(E), ~HasDuplicate(E), ~HasDuplicate(O),
         \A e \in E : \E o \in O : JoinKey(o) = JoinKey(e)
  PROVE  Cardinality(Joined(E, O)) = Cardinality(E)
<1> DEFINE J == Joined(E, O)
           f == [e \in E |-> CHOOSE o \in O : JoinKey(o) = JoinKey(e)]
<1>1. \A o, p \in O : JoinKey(o) = JoinKey(p) => o = p
  BY DEF HasDuplicate
<1>2. \A d, e \in E : JoinKey(d) = JoinKey(e) => d = e
  BY DEF HasDuplicate
<1>3. \A e \in E : f[e] \in O /\ JoinKey(f[e]) = JoinKey(e)
  OBVIOUS
<1>4. f \in [E -> J]
  BY <1>3 DEF Joined
<1>5. \A o \in J : \E e \in E : f[e] = o
  BY <1>1, <1>3 DEF Joined
<1>6. \A d, e \in E : f[d] = f[e] => d = e
  BY <1>2, <1>3
<1>7. ExistsBijection(E, J)
  <2> HIDE DEF f, J
  <2> QED
    BY <1>4, <1>5, <1>6 DEF ExistsBijection, Bijection, Injection, Surjection, IsInjective
<1> QED
  BY <1>7, FS_Bijection

(* Neither side gives a key twice. *)
LEMMA KeysOnce ==
  ASSUME JoinInv
  PROVE  ~HasDuplicate({e \in log : IsNumbered(e)}) /\ ~HasDuplicate(server_log)
<1>1. ASSUME NEW e \in log, NEW f \in log, IsNumbered(e), IsNumbered(f), JoinKey(e) = JoinKey(f)
      PROVE  e = f
  <2> DEFINE c == conn[e.attempt]
             d == conn[f.attempt]
  <2>1. /\ c \in Conns /\ d \in Conns /\ key_by_conn[c] # NoGeneration
        /\ e.conn_key = Key(c) /\ f.conn_key = Key(d)
    BY <1>1 DEF JoinInv, ReadsAreCounted
  <2>2. Key(c) = Key(d) /\ e.stream_id = f.stream_id
    BY <1>1, <2>1 DEF JoinKey
  <2>3. FiveTuple[c] = FiveTuple[d] /\ key_by_conn[c] = key_by_conn[d]
    BY <2>2 DEF Key
  <2>4. c = d
    BY <2>1, <2>3 DEF JoinInv, GenerationInv, KeysAreDistinct, IsNumbering
  <2> QED
    BY <1>1, <2>2, <2>4 DEF JoinInv, ReadsAreCounted
<1>2. ASSUME NEW g \in answered, NEW h \in answered, JoinKey(ServerRecord(g)) = JoinKey(ServerRecord(h))
      PROVE  g = h
  <2>1. /\ FiveTuple[g.conn] = FiveTuple[h.conn] /\ accepted[g.conn] = accepted[h.conn]
        /\ g.ordinal = h.ordinal
    BY <1>2 DEF JoinKey, ServerRecord
  <2>2. g.conn \in Conns /\ h.conn \in Conns /\ accepted[g.conn] # NoGeneration
    BY DEF JoinInv, OrdinalsAreCounted, Base, CallsAreOnce, Calls
  <2>3. g.conn = h.conn
    BY <2>1, <2>2 DEF JoinInv, GenerationInv, AcceptsAreDistinct, IsNumbering
  <2> QED
    BY <2>1, <2>3 DEF JoinInv, OrdinalsAreCounted
<1>3. \A o \in server_log : \E h \in answered : o = ServerRecord(h)
  BY DEF JoinInv, ServerLogIsRight
<1>4. ~HasDuplicate({e \in log : IsNumbered(e)})
  BY <1>1 DEF HasDuplicate
<1>5. ~HasDuplicate(server_log)
  BY <1>2, <1>3 DEF HasDuplicate
<1> QED
  BY <1>4, <1>5

(* The server has counted every request whose response the client counted. *)
LEMMA ReadsArrived ==
  ASSUME JoinInv, NEW c \in Conns
  PROVE  Counted(c) <= server_seq[c] /\ Counted(c) \in Nat /\ server_seq[c] \in Nat
<1>1. ReadOn(c) \subseteq CalledOn(c)
  BY DEF JoinInv, ReadsAreCounted, ReadOn, CalledOn, IsAnswered
<1>2. IsFiniteSet(CalledOn(c))
  BY RequestsAreFinite, FS_Subset DEF JoinInv, CalledOn
<1>3. Cardinality(ReadOn(c)) <= Cardinality(CalledOn(c)) /\ IsFiniteSet(ReadOn(c))
  BY <1>1, <1>2, FS_Subset
<1>4. Counted(c) = Cardinality(ReadOn(c)) /\ server_seq[c] = Cardinality(CalledOn(c))
  BY DEF JoinInv, ReadsAreCounted, OrdinalsAreCounted
<1> QED
  BY <1>2, <1>3, <1>4, FS_CardinalityType

(* A connection alone on its address pair has generation 0 on both sides. *)
LEMMA AloneAgrees ==
  ASSUME JoinInv, NEW c \in Conns, IsAlone(c), key_by_conn[c] # NoGeneration, accepted[c] # NoGeneration
  PROVE  key_by_conn[c] = accepted[c]
<1>1. \A d \in Conns : FiveTuple[d] = FiveTuple[c] =>
        /\ key_by_conn[d] # NoGeneration => d = c
        /\ accepted[d] # NoGeneration => d = c
  BY DEF JoinInv, GenerationInv, NumberedAreOpened, IsAlone
<1>2. /\ key_by_conn \in [Conns -> Generations] /\ generation \in [Tuples -> Nat]
      /\ accepted \in [Conns -> Generations] /\ seen_tuple \in [Tuples -> Nat]
      /\ IsNumbering(key_by_conn, generation) /\ IsNumbering(accepted, seen_tuple)
  BY DEF JoinInv, Base, HarnessType, GenerationInv, KeysAreDistinct, AcceptsAreDistinct
<1>3. key_by_conn[c] = 0
  BY <1>1, <1>2, AloneIsZero
<1>4. accepted[c] = 0
  BY <1>1, <1>2, AloneIsZero
<1> QED
  BY <1>3, <1>4

(* What a numbered request finds under its key. *)
LEMMA NumberedIsFound ==
  ASSUME JoinInv, handling = {}, NEW e \in Numbered
  PROVE  /\ \E o \in server_log : JoinKey(o) = JoinKey(e)
         /\ e \in Single => \E o \in server_log : /\ JoinKey(o) = JoinKey(e)
                                                  /\ o.trace_id = IF Mask THEN NoTrace ELSE e.trace_id
<1> DEFINE c == conn[e.attempt]
<1>1. /\ e \in log /\ IsNumbered(e) /\ IsAlone(c)
  BY DEF Numbered, Expected
<1>2. /\ c \in Conns /\ key_by_conn[c] # NoGeneration
      /\ e.conn_key = Key(c)
      /\ e.stream_id \in 1 .. Counted(c)
      /\ IsAnswered(e.attempt)
  BY <1>1 DEF JoinInv, ReadsAreCounted
<1>3. PICK h \in answered : h.attempt = e.attempt /\ h.conn = c
  BY <1>2 DEF IsAnswered
<1>4. accepted[c] # NoGeneration /\ h.ordinal \in 1 .. server_seq[c]
  BY <1>3 DEF JoinInv, OrdinalsAreCounted
<1>5. key_by_conn[c] = accepted[c]
  BY <1>1, <1>2, <1>4, AloneAgrees
<1>6. Counted(c) <= server_seq[c] /\ Counted(c) \in Nat /\ server_seq[c] \in Nat
  BY <1>2, ReadsArrived
<1>7. ASSUME NEW g \in answered, g.conn = c, g.ordinal = e.stream_id
      PROVE  JoinKey(ServerRecord(g)) = JoinKey(e) /\ ServerRecord(g) \in server_log
  BY <1>2, <1>5, <1>7 DEF JoinKey, ServerRecord, Key, JoinInv, ServerLogIsRight
<1>8. \E o \in server_log : JoinKey(o) = JoinKey(e)
  <2>1. e.stream_id \in 1 .. server_seq[c]
    BY <1>2, <1>6
  <2>2. PICK g \in handling \cup answered : g.conn = c /\ g.ordinal = e.stream_id
    BY <1>2, <2>1 DEF JoinInv, OrdinalsAreCounted
  <2> QED
    BY <1>7, <2>2
<1>9. ASSUME e \in Single
      PROVE  \E o \in server_log : JoinKey(o) = JoinKey(e) /\ o.trace_id = IF Mask THEN NoTrace ELSE e.trace_id
  <2>1. server_seq[c] = 1
    BY <1>9 DEF Single
  <2>2. h.ordinal = e.stream_id
    BY <1>2, <1>4, <1>6, <2>1
  <2>3. e.trace_id = e.attempt
    BY <1>1 DEF JoinInv, ClientLogIsRight
  <2>4. ServerRecord(h).trace_id = IF Mask THEN NoTrace ELSE e.trace_id
    BY <1>3, <2>3 DEF ServerRecord
  <2> QED
    BY <1>3, <1>7, <2>2, <2>4
<1> QED
  BY <1>8, <1>9

LEMMA LogIsFinite == JoinInv => IsFiniteSet(log)
<1> SUFFICES ASSUME JoinInv PROVE IsFiniteSet(log)
  OBVIOUS
<1> DEFINE f == [e \in log |-> e.attempt]
<1>1. \A e \in log : e.attempt \in Requests
  BY Zenon DEF JoinInv, ClientLogIsRight
<1>2. \A e, g \in log : e.attempt = g.attempt => e = g
  BY Zenon DEF JoinInv, ClientLogIsRight
<1>3. f \in Injection(log, Requests)
  BY <1>1, <1>2 DEF Injection, IsInjective
<1> HIDE DEF f
<1> QED
  BY <1>3, RequestsAreFinite, FS_Injection DEF JoinInv

LEMMA JoinInvSuffices == JoinInv => JoinKeysAgree
<1> SUFFICES ASSUME JoinInv PROVE JoinKeysAgree
  OBVIOUS
<1>1. ASSUME Expected # {} PROVE join(Expected, Observed) = Refused
  <2>1. PICK e \in Expected : TRUE
    BY <1>1
  <2>2. e.protocol \in {HTTP2, ""}
    BY DEF Expected, JoinInv, ClientLogIsRight
  <2>3. ~IsJoinable(e)
    BY <2>2 DEF IsJoinable, HTTP1, HTTP2
  <2> QED
    BY <2>1, <2>3 DEF join, Accepts
<1>2. ~HasDuplicate({e \in log : IsNumbered(e)}) /\ ~HasDuplicate(Observed)
  BY KeysOnce DEF Observed
<1>3. ASSUME handling = {} PROVE Counts(Numbered, Observed).misses = 0
  <2>1. IsFiniteSet(Numbered)
    BY LogIsFinite, FS_Subset DEF Numbered, Expected
  <2>2. ~HasDuplicate(Numbered)
    BY <1>2 DEF Numbered, Expected, HasDuplicate
  <2>3. \A e \in Numbered : \E o \in Observed : JoinKey(o) = JoinKey(e)
    BY <1>3, NumberedIsFound DEF Observed
  <2>4. Cardinality(Joined(Numbered, Observed)) = Cardinality(Numbered)
    BY <1>2, <2>1, <2>2, <2>3, JoinedCount
  <2>5. Cardinality(Numbered) \in Nat
    BY <2>1, FS_CardinalityType
  <2> QED
    BY <2>4, <2>5 DEF Counts
<1>4. ASSUME handling = {}
      PROVE  Counts(Single, Observed).matched = IF Mask THEN 0 ELSE Cardinality(Single)
  <2>0. Single \subseteq Numbered /\ Single \subseteq log
    BY DEF Single, Numbered, Expected
  <2>1. \A e \in Single : \E o \in Observed :
          JoinKey(o) = JoinKey(e) /\ o.trace_id = IF Mask THEN NoTrace ELSE e.trace_id
    BY <1>4, <2>0, NumberedIsFound DEF Observed
  <2>2. \A o, p \in Observed : JoinKey(o) = JoinKey(p) => o = p
    BY <1>2 DEF HasDuplicate
  <2>3. \A e \in Single, o \in Observed :
          JoinKey(e) = JoinKey(o) => o.trace_id = IF Mask THEN NoTrace ELSE e.trace_id
    BY <2>1, <2>2
  <2>4. CASE Mask
    <3>1. \A e \in log : e.trace_id \in Requests
      BY Zenon DEF JoinInv, ClientLogIsRight
    <3>2. \A e \in Single : e.trace_id # NoTrace
      BY <2>0, <3>1, RequestsAreFinite DEF JoinInv
    <3>3. Matched(Single, Observed) = {}
      BY <2>3, <2>4, <3>2 DEF Matched
    <3> QED
      BY <2>4, <3>3, FS_EmptySet DEF Counts
  <2>5. CASE ~Mask
    <3>1. Matched(Single, Observed) = Joined(Single, Observed)
      BY <2>3, <2>5 DEF Matched, Joined
    <3>2. IsFiniteSet(Single)
      BY <2>0, LogIsFinite, FS_Subset
    <3>3. ~HasDuplicate(Single)
      BY <1>2, <2>0 DEF Single, Numbered, Expected, HasDuplicate
    <3>4. Cardinality(Joined(Single, Observed)) = Cardinality(Single)
      BY <1>2, <2>1, <3>2, <3>3, JoinedCount
    <3> QED
      BY <2>5, <3>1, <3>4 DEF Counts
  <2> QED
    BY <2>4, <2>5
<1> QED
  BY <1>1, <1>2, <1>3, <1>4 DEF JoinKeysAgree

(* For every load, pool, order of accepts and arrivals, lost connection    *)
(* and cut body: neither log has a key twice, a request read on a          *)
(* connection alone on its address pair is found in fake-upstream's log,   *)
(* its own record where the connection carried nothing else, and join      *)
(* refuses the logs because they are HTTP/2.                               *)
THEOREM JoinKeysAlwaysAgree == Spec => []JoinKeysAgree
<1>1. Init => JoinInv
  BY InitJoin DEF Init
<1>2. JoinInv /\ [Next]_campaignVars => JoinInv'
  BY StepJoin, NextIsHarnessStep
<1> QED
  BY <1>1, <1>2, JoinInvSuffices, PTL DEF Spec
=============================================================================
