------------------------------ MODULE Campaign ------------------------------
(***************************************************************************)
(* A measurement: the harness runs while one of the probes watches it.     *)
(* strong-tier-probe fires on each end of a new connection, in tcp_connect *)
(* and when inet_csk_accept returns; http-signal-probe fires when a        *)
(* request is dispatched to its handler.                                   *)
(***************************************************************************)
EXTENDS Harness, Probe

campaignVars == <<harnessVars, probeVars>>

CONSTANT Watched          \* loads under which a probe runs

Init ==
  /\ HarnessInit
  /\ ProbeInit
  /\ (kind # NO_PROBE) <=> (load \in Watched)

(* A step of the harness that concerns no probe. *)
Quiet == UNCHANGED probeVars

Next ==
  \/ \E r \in Requests :
       \/ Launch(r) /\ Quiet
       \/ \E c \in Conns : GotConn(r, c) /\ Quiet
       \/ \E whole \in BOOLEAN : ReadBody(r, whole) /\ Quiet
       \/ Complete(r) /\ Quiet
       \/ Timeout(r) /\ Quiet
  \/ \E m \in sent : Arrive(m) /\ Fire(IF kind = HTTP_SIGNAL THEN 1 ELSE 0)
  \/ \E h \in handling : Answer(h) /\ Quiet
  \/ \E c \in Conns :
       \/ Dial(c) /\ Fire(IF kind = STRONG THEN 1 ELSE 0)
       \/ Accept(c) /\ Fire(IF kind = STRONG THEN 1 ELSE 0)
       \/ Lose(c) /\ Quiet
  \/ ProbeNext /\ UNCHANGED harnessVars

Spec == Init /\ [][Next]_campaignVars

(* Attempts of any load. *)
AllRequests == UNION {1 .. l.warmup + l.total : l \in Loads}

(* A goroutine that can run does, every deadline passes: nothing is        *)
(* assumed of connections, of the server, or of a signal.                  *)
Fairness ==
  /\ \A r \in AllRequests : WF_campaignVars(r \in Requests /\ (Launch(r) \/ Complete(r) \/ Timeout(r)) /\ Quiet)
  /\ WF_campaignVars(CloseReader /\ UNCHANGED harnessVars)
  /\ WF_campaignVars(ReadLoop /\ UNCHANGED harnessVars)

FairSpec == Spec /\ Fairness
-----------------------------------------------------------------------------
(* Times the kernel program has fired, from what the harness did. *)
Fired ==
  IF kind = STRONG
  THEN Cardinality({c \in Conns : up[c] # "new"})
         + Cardinality({c \in Conns : accepted[c] # NoGeneration})
  ELSE Cardinality(handling) + Cardinality(answered)

(* While a probe is attached it never says more than happened, whatever    *)
(* the order of bursts, reads and shutdown: records, failures, drops and   *)
(* what is still in the buffer or in hand are at most the events that      *)
(* fired it.  http-signal-probe, which counts the samples it could not     *)
(* decode or write, says exactly as much: no request is lost without a     *)
(* count.  strong-tier-probe may say less, by those samples.               *)
SignalsAddUp ==
  attached => /\ Taken + buffer + drops <= Fired
              /\ kind = HTTP_SIGNAL => Taken + buffer + drops = Fired
=============================================================================
