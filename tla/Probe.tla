-------------------------------- MODULE Probe -------------------------------
(***************************************************************************)
(* cmd/strong-tier-probe and cmd/http-signal-probe: a kernel program puts  *)
(* events into a bounded ring buffer, a loop in user space reads, decodes  *)
(* and writes them until a signal closes the reader.  The two differ in    *)
(* where they are attached and in what they count.                         *)
(*                                                                         *)
(* The ring buffer and its reader are external: Read returns a sample, a   *)
(* passing error, or an error that wraps ErrClosed once Close was called.  *)
(***************************************************************************)
EXTENDS Integers

CONSTANTS Capacity    \* samples the ring buffer holds

ASSUME CapacityAssumption == Capacity \in Nat \ {0}

STRONG == "strong-tier-probe"
HTTP_SIGNAL == "http-signal-probe"
NO_PROBE == "no probe"
Unread == -1

VARIABLES kind,               \* which of the two probes runs, if any
          attached,           \* the kernel program fires
          buffer,             \* samples in the ring buffer
          drops,              \* the drops map
          signalled,          \* SIGINT or SIGTERM was sent
          closed,             \* the reader is closed
          loop,               \* runLoop: read, sample (one is in hand), done
          recorded,           \* records written
          decodeFailures,     \* loopStats of http-signal-probe
          writeFailures,
          reportedDrops       \* what logDrops logged

stats == <<recorded, decodeFailures, writeFailures>>
probeVars == <<kind, attached, buffer, drops, signalled, closed, loop, stats, reportedDrops>>
-----------------------------------------------------------------------------
(* run has loaded and attached everything when the loop starts. *)
ProbeInit ==
  /\ kind \in {STRONG, HTTP_SIGNAL, NO_PROBE}
  /\ attached = (kind # NO_PROBE)
  /\ buffer = 0
  /\ drops = 0
  /\ signalled = FALSE
  /\ closed = FALSE
  /\ loop = IF kind = NO_PROBE THEN "done" ELSE "read"
  /\ recorded = 0
  /\ decodeFailures = 0
  /\ writeFailures = 0
  /\ reportedDrops = Unread

(* Mutant: a full buffer drops in silence. *)
EmitUncounted(n) ==
  LET taken == IF ~attached THEN 0 ELSE IF buffer + n > Capacity THEN Capacity - buffer ELSE n
  IN  buffer' = buffer + taken /\ drops' = drops

(* n events: each is put into the buffer, or counted when it is full. *)
Emit(n) ==
  LET taken == IF ~attached THEN 0 ELSE IF buffer + n > Capacity THEN Capacity - buffer ELSE n
  IN  /\ buffer' = buffer + taken
      /\ drops' = IF attached THEN drops + (n - taken) ELSE drops

(* A step of the traced processes that fires the program n times. *)
Fire(n) ==
  /\ Emit(n)
  /\ UNCHANGED <<kind, attached, signalled, closed, loop, stats, reportedDrops>>

Signal ==
  /\ loop # "done"
  /\ ~signalled
  /\ signalled' = TRUE
  /\ UNCHANGED <<kind, attached, buffer, drops, closed, loop, stats, reportedDrops>>

(* The goroutine that waits for the signal. *)
CloseReader ==
  /\ signalled /\ ~closed
  /\ closed' = TRUE
  /\ UNCHANGED <<kind, attached, buffer, drops, signalled, loop, stats, reportedDrops>>

(* Read returns a sample. *)
Read ==
  /\ loop = "read" /\ ~closed /\ buffer > 0
  /\ buffer' = buffer - 1
  /\ loop' = "sample"
  /\ UNCHANGED <<kind, attached, drops, signalled, closed, stats, reportedDrops>>

(* The rest of the iteration: the sample is decoded and written, or not.   *)
(* strong-tier-probe logs a sample it cannot decode and ignores a failed   *)
(* write; http-signal-probe counts both.                                   *)
Handle(outcome) ==
  /\ loop = "sample"
  /\ loop' = "read"
  /\ CASE outcome = "written" ->
            recorded' = recorded + 1 /\ UNCHANGED <<decodeFailures, writeFailures>>
       [] outcome # "written" /\ kind = STRONG ->
            UNCHANGED stats
       [] outcome = "undecodable" /\ kind = HTTP_SIGNAL ->
            decodeFailures' = decodeFailures + 1 /\ UNCHANGED <<recorded, writeFailures>>
       [] outcome = "unwritten" /\ kind = HTTP_SIGNAL ->
            writeFailures' = writeFailures + 1 /\ UNCHANGED <<recorded, decodeFailures>>
  /\ UNCHANGED <<kind, attached, buffer, drops, signalled, closed, reportedDrops>>

(* Mutant: the wrapped error is compared with the sentinel itself. *)
IsErrClosedItself == FALSE

(* errors.Is(err, ringbuf.ErrClosed) *)
IsErrClosed == closed

(* Read returns an error: the end, with the count of drops, or another try. *)
ReadError ==
  /\ loop = "read" /\ closed
  /\ IF IsErrClosed
     THEN loop' = "done" /\ reportedDrops' \in {drops, Unread}
     ELSE UNCHANGED <<loop, reportedDrops>>
  /\ UNCHANGED <<kind, attached, buffer, drops, signalled, closed, stats>>

(* run returns: its deferred calls detach the program. *)
Detach ==
  /\ loop = "done" /\ attached
  /\ attached' = FALSE
  /\ UNCHANGED <<kind, buffer, drops, signalled, closed, loop, stats, reportedDrops>>

(* The loop of runLoop, and the end of run. *)
ReadLoop ==
  \/ Read \/ ReadError \/ Detach
  \/ \E outcome \in {"written", "undecodable", "unwritten"} : Handle(outcome)

ProbeNext == Signal \/ CloseReader \/ ReadLoop

(* What a probe can say of the samples taken out of the buffer: its        *)
(* records, its counts of failures, and the sample in hand.                *)
Taken == recorded + decodeFailures + writeFailures + (IF loop = "sample" THEN 1 ELSE 0)

(* A signal ends the loop: the reader that was closed does not keep it     *)
(* reading errors.                                                         *)
ProbeStops == signalled ~> loop = "done"
=============================================================================
