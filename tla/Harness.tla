------------------------------- MODULE Harness ------------------------------
(***************************************************************************)
(* The measurement harness: cmd/load-gen sends a warm-up and then the      *)
(* measured requests over a pool of connections, cmd/fake-upstream serves  *)
(* them, and each writes a log from what it can see of connections and     *)
(* requests.                                                               *)
(*                                                                         *)
(* fake-upstream always offers h2, so every connection negotiates HTTP/2:  *)
(* with -pool it carries many requests at a time, without it one.  A       *)
(* connection is an instance, an address pair may be used by several of    *)
(* them one after the other.  Dialling, the pool, transparent retries and  *)
(* the close of a connection belong to net/http.                           *)
(***************************************************************************)
EXTENDS OrdinalJoin

CONSTANTS Loads,          \* the loads explored: -warmup, -requests and -concurrency
          Conns,          \* connections that may be opened
          FiveTuple,      \* the address pair of each
          Mask,           \* -mask: no traceparent is sent
          MaxFaults       \* bound: connections lost and bodies cut short

None == "None"
NoTrace == 0
NoGeneration == -1

ASSUME HarnessAssumption ==
  /\ Loads \subseteq [warmup : Nat, total : Nat \ {0}, concurrency : Nat \ {0}]
  /\ IsFiniteSet(Conns)
  /\ DOMAIN FiveTuple = Conns
  /\ Mask \in BOOLEAN
  /\ MaxFaults \in Nat
  /\ None \notin Conns

Tuples == {FiveTuple[c] : c \in Conns}

(* oracle.ConnKey: an address pair and a generation. *)
ConnKeys == Tuples \X (0 .. Cardinality(Conns))

VARIABLES load,           \* requests 1 .. warmup go to the warm-up log, total others follow
          pool,           \* -pool: connections are used again
          phase,          \* each attempt of load-gen: todo, started, waiting,
                          \* read or cut (its body is over), ended
          conn,           \* the connection of an attempt, by its last GotConn
          up,             \* each connection at the client: new, open, closed
          faults,         \* connections lost and bodies cut short so far
          generation,     \* connTracker.generation
          key_by_conn,    \* connTracker.keyByConn
          stream_seq,     \* connTracker.streamSeq, by key
          log,            \* load-gen's records, of warm-up and measured requests
          sent,           \* requests on their way
          accepted,       \* fake-upstream: connState.generation of a connection
          seen_tuple,     \* fake-upstream: seenFiveTuple
          server_seq,     \* fake-upstream: connState.streamSeq
          handling,       \* requests inside the handler
          answered,       \* responses on their way
          server_log      \* fake-upstream's records

Requests == 1 .. load.warmup + load.total
Measured == load.warmup + 1 .. load.warmup + load.total

trackerVars == <<generation, key_by_conn, stream_seq>>
clientVars == <<phase, conn, up, trackerVars, log>>
connStateVars == <<accepted, seen_tuple>>
serverVars == <<connStateVars, server_seq, handling, answered, server_log>>
harnessVars == <<load, pool, faults, sent, clientVars, serverVars>>
-----------------------------------------------------------------------------
HarnessInit ==
  /\ load \in Loads
  /\ pool \in BOOLEAN
  /\ phase = [r \in Requests |-> "todo"]
  /\ conn = [r \in Requests |-> None]
  /\ up = [c \in Conns |-> "new"]
  /\ faults = 0
  /\ generation = [t \in Tuples |-> 0]
  /\ key_by_conn = [c \in Conns |-> NoGeneration]
  /\ stream_seq = [k \in ConnKeys |-> 0]
  /\ log = {}
  /\ sent = {}
  /\ accepted = [c \in Conns |-> NoGeneration]
  /\ seen_tuple = [t \in Tuples |-> 0]
  /\ server_seq = [c \in Conns |-> 0]
  /\ handling = {}
  /\ answered = {}
  /\ server_log = {}
-----------------------------------------------------------------------------
InPerformRequest == {"started", "waiting", "read", "cut"}

(* Mutant: a failed attempt keeps its place in the semaphore. *)
InFlightLeaky ==
  {r \in Requests : \/ phase[r] \in InPerformRequest
                    \/ \E e \in log : e.attempt = r /\ e.error}

(* Places taken in the semaphore of run: from the launch of an attempt to  *)
(* the return of its goroutine.                                            *)
InFlight == {r \in Requests : phase[r] \in InPerformRequest}

(* Warm-up requests are all over before the first measured one. *)
IsNext(r) ==
  /\ phase[r] = "todo"
  /\ \A s \in Requests : s < r => phase[s] # "todo"
  /\ r \in Measured => \A s \in 1 .. load.warmup : phase[s] = "ended"

Launch(r) ==
  /\ IsNext(r)
  /\ Cardinality(InFlight) < load.concurrency
  /\ phase' = [phase EXCEPT ![r] = "started"]
  /\ UNCHANGED <<load, pool, faults, sent, conn, up, trackerVars, log, serverVars>>

(* Dials there may have been: one for each time an attempt asked for a     *)
(* connection, which is once and then at most once for each one lost.      *)
Dials == Cardinality({r \in Requests : phase[r] # "todo"}) * (1 + faults)

(* The transport opens a connection for an attempt, which may get another  *)
(* one first.  An address pair is free again when the client has closed    *)
(* its last connection, whatever the server has seen of that.              *)
Dial(c) ==
  /\ up[c] = "new"
  /\ \E r \in Requests : phase[r] = "started"
  /\ Cardinality({d \in Conns : up[d] # "new"}) < Dials
  /\ \A d \in Conns : FiveTuple[d] = FiveTuple[c] => up[d] # "open"
  /\ up' = [up EXCEPT ![c] = "open"]
  /\ UNCHANGED <<load, pool, faults, sent, phase, conn, trackerVars, log, serverVars>>

(* ConnContext: fake-upstream gives the connection the next generation of  *)
(* its address pair.  The two processes are not synchronized: the client   *)
(* may have given up the connection, and another of the pair may come      *)
(* first, each in a goroutine of its own.                                  *)
Accept(c) ==
  LET t == FiveTuple[c]
  IN  /\ up[c] # "new"
      /\ accepted[c] = NoGeneration
      /\ accepted' = [accepted EXCEPT ![c] = seen_tuple[t]]
      /\ seen_tuple' = [seen_tuple EXCEPT ![t] = @ + 1]
      /\ UNCHANGED <<load, pool, faults, sent, clientVars, server_seq, handling, answered, server_log>>

(* GotConn, with connTracker.identify: a connection gets its generation    *)
(* when it is first used.  Without -pool that is its only use.             *)
GotConn(r, c) ==
  LET t == FiveTuple[c]
  IN  /\ phase[r] = "started"
      /\ up[c] = "open"
      /\ pool \/ key_by_conn[c] = NoGeneration
      /\ phase' = [phase EXCEPT ![r] = "waiting"]
      /\ conn' = [conn EXCEPT ![r] = c]
      /\ IF key_by_conn[c] = NoGeneration
         THEN /\ key_by_conn' = [key_by_conn EXCEPT ![c] = generation[t]]
              /\ generation' = [generation EXCEPT ![t] = @ + 1]
         ELSE UNCHANGED <<key_by_conn, generation>>
      /\ sent' = sent \cup {[attempt |-> r, conn |-> c]}
      /\ UNCHANGED <<load, pool, faults, up, stream_seq, log, serverVars>>

(* The handler is called, perhaps when the client has given up: the        *)
(* ordinal counts arrivals on the connection.                              *)
Arrive(m) ==
  /\ accepted[m.conn] # NoGeneration
  /\ sent' = sent \ {m}
  /\ server_seq' = [server_seq EXCEPT ![m.conn] = @ + 1]
  /\ handling' = handling \cup
       {[attempt |-> m.attempt, conn |-> m.conn, ordinal |-> server_seq[m.conn] + 1]}
  /\ UNCHANGED <<load, pool, faults, clientVars, connStateVars, answered, server_log>>

(* After its latency the handler writes its record, then answers, whether  *)
(* or not the client is still there.                                       *)
Answer(h) ==
  /\ handling' = handling \ {h}
  /\ server_log' = server_log \cup
       {[attempt |-> h.attempt, conn_key |-> <<FiveTuple[h.conn], accepted[h.conn]>>, stream_id |-> h.ordinal,
         trace_id |-> IF Mask THEN NoTrace ELSE h.attempt, protocol |-> HTTP2, error |-> FALSE]}
  /\ answered' = answered \cup {h}
  /\ UNCHANGED <<load, pool, faults, sent, clientVars, connStateVars, server_seq>>

(* Without -pool a connection is closed when its request is over. *)
Release(r) ==
  up' = IF phase[r] = "waiting" /\ ~pool THEN [up EXCEPT ![conn[r]] = "closed"] ELSE up

(* The body is read to its end, or not: the connection is free for others  *)
(* before performRequest goes on.                                          *)
ReadBody(r, whole) ==
  /\ phase[r] = "waiting"
  /\ \E h \in answered : h.attempt = r /\ h.conn = conn[r]
  /\ faults + (IF whole THEN 0 ELSE 1) <= MaxFaults
  /\ faults' = faults + (IF whole THEN 0 ELSE 1)
  /\ phase' = [phase EXCEPT ![r] = IF whole THEN "read" ELSE "cut"]
  /\ Release(r)
  /\ UNCHANGED <<load, pool, sent, conn, trackerVars, log, serverVars>>

Key(c) == <<FiveTuple[c], key_by_conn[c]>>

(* Mutant: a tracker for each of the two logs. *)
NextStreamOfLog(r) ==
  1 + Cardinality({e \in log : /\ e.conn_key = Key(conn[r]) /\ e.stream_id # -1
                               /\ (e.attempt \in Measured) = (r \in Measured)})

(* nextStream: the ordinal counts responses that have been read. *)
NextStream(r) == stream_seq[Key(conn[r])] + 1

(* performRequest returns, and its record is written. *)
Record(r, stream_id, protocol, error) ==
  /\ phase' = [phase EXCEPT ![r] = "ended"]
  /\ log' = log \cup
       {[attempt |-> r, conn_key |-> IF conn[r] = None THEN <<None, NoGeneration>> ELSE Key(conn[r]),
         stream_id |-> stream_id, trace_id |-> r, protocol |-> protocol, error |-> error]}

(* The rest of performRequest after the body: the ordinal and the record. *)
Complete(r) ==
  /\ phase[r] \in {"read", "cut"}
  /\ stream_seq' = [stream_seq EXCEPT ![Key(conn[r])] = @ + 1]
  /\ Record(r, NextStream(r), HTTP2, phase[r] = "cut")
  /\ UNCHANGED <<load, pool, faults, sent, conn, up, generation, key_by_conn, serverVars>>

(* The deadline of the request passes, with a connection or without. *)
Timeout(r) ==
  /\ phase[r] \in {"started", "waiting"}
  /\ Record(r, -1, "", TRUE)
  /\ Release(r)
  /\ UNCHANGED <<load, pool, faults, sent, conn, trackerVars, serverVars>>

(* A connection goes away: what waits on it is sent again on another, by   *)
(* the transport itself, which asks for a connection once more.            *)
Lose(c) ==
  /\ up[c] = "open"
  /\ faults < MaxFaults
  /\ faults' = faults + 1
  /\ up' = [up EXCEPT ![c] = "closed"]
  /\ phase' = [r \in Requests |-> IF phase[r] = "waiting" /\ conn[r] = c THEN "started" ELSE phase[r]]
  /\ UNCHANGED <<load, pool, sent, conn, trackerVars, log, serverVars>>

Ended == \A r \in Requests : phase[r] = "ended"
-----------------------------------------------------------------------------
(* What join reads: load-gen's log of the measured requests, and all that  *)
(* fake-upstream wrote.                                                    *)
Expected == {e \in log : e.attempt \in Measured}
Observed == server_log

IsNumbered(e) == e.stream_id # -1

(* No other connection was opened with the address pair of c. *)
IsAlone(c) == \A d \in Conns : FiveTuple[d] = FiveTuple[c] /\ up[d] # "new" => d = c

(* The requests whose body was read on a connection of that kind, and      *)
(* those among them whose connection carried no other request.             *)
Numbered == {e \in Expected : IsNumbered(e) /\ IsAlone(conn[e.attempt])}
Single == {e \in Numbered : server_seq[conn[e.attempt]] = 1}

(* "The two halves of the oracle agree, and join cannot score them": join  *)
(* refuses every log of this harness, but its keys do what they can.       *)
(* Neither side gives a key twice, over warm-up, retries and late          *)
(* arrivals; and once every handler call has returned, a request that was  *)
(* read on a connection alone on its address pair finds its key in         *)
(* fake-upstream's log, so that a miss comes only from an address pair     *)
(* used again, whose generations the two sides may count in another order. *)
(* Under the key is another request's record where requests share a        *)
(* connection, its own where they do not: the positive control's D_acc is  *)
(* 1, and 0 under -mask.                                                   *)
JoinKeysAgree ==
  /\ Expected # {} => join(Expected, Observed) = Refused
  /\ ~HasDuplicate({e \in log : IsNumbered(e)})
  /\ ~HasDuplicate(Observed)
  /\ handling = {} =>
       /\ Counts(Numbered, Observed).misses = 0
       /\ Counts(Single, Observed).matched = IF Mask THEN 0 ELSE Cardinality(Single)

(* Every attempt ends and is recorded: no failure keeps a place in the     *)
(* semaphore, and the deadline ends what nothing else does.                *)
RunEnds == <>Ended
=============================================================================
