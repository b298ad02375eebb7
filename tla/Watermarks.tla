----------------------------- MODULE Watermarks -----------------------------
(***************************************************************************)
(* The watermark of a flow (correlation/flow.py), from the progress p of   *)
(* its declared sources and the first event time f of its journal.         *)
(***************************************************************************)
EXTENDS Integers, FiniteSets

CONSTANTS
  Sources,     \* sources: declared up front
  Lateness,    \* lateness_us
  MaxSilence,  \* max_silence_us, or Unbounded
  Unbounded    \* max_silence_us is None

ASSUME WatermarksAssumption ==
  /\ IsFiniteSet(Sources) /\ Sources # {}
  /\ Lateness \in Nat
  /\ MaxSilence \in (Nat \ {0}) \cup {Unbounded}
  /\ Unbounded \notin Nat

NoTime == -1   \* not reported yet

FINAL == "FINAL"
FORCED == "FORCED"   \* final while a silent source was left out

Effective(p, f, s) == IF p[s] = NoTime THEN f ELSE p[s]

(* A source that lags the fastest by more than the bound is left out. *)
Holding(p, f) ==
  {s \in Sources : MaxSilence # Unbounded =>
     \A t \in Sources : Effective(p, f, t) - Effective(p, f, s) <= MaxSilence}

Watermark(p, f) ==
  (CHOOSE t \in {Effective(p, f, s) : s \in Holding(p, f)} :
     \A s \in Holding(p, f) : t <= Effective(p, f, s)) - Lateness

(* Mutant: what closes without a silent source is not marked. *)
FinalityUnmarked(p, f) == FINAL

Finality(p, f) == IF Holding(p, f) = Sources THEN FINAL ELSE FORCED

Advanced(p, s, until) ==
  [p EXCEPT ![s] = IF @ = NoTime \/ @ < until THEN until ELSE @]

FirstAt(f, until) == IF f = NoTime \/ until < f THEN until ELSE f

(* An entry at a time under the watermark its journal has reached. *)
IsUnder(p, f, at) == f # NoTime /\ at < Watermark(p, f)
=============================================================================
