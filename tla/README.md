# Verification of reconcileflow

TLA+ modules, TLC configurations and TLAPS proofs for the reconciliation engine
(`src/src/reconcileflow/`), its streaming replay, the correlation flow, the
optimal assignment, the provenance store, the declared topology, the verdicts of
the M0 protocol, and the measurement harness of `src/m0-harness/` with its probes. The definitions are
translated from the code at the lines `PROJECT.json` ("map") gives; names follow
the code where TLA+ allows it.

## 1. Inventory

| Component | State it keeps | Operations | Hard part | What makes it correct |
|---|---|---|---|---|
| `models.py`, `numeric.py` | none | records, tolerances, result types | validation | only well-formed values get in |
| `rules.py` | none | four candidate generators, scores | boundaries, rounding | candidates respect window, tolerance, block |
| `engine.py` | taken records, matches, rejects of one call | `reconcile`: blocks, rules in order, greedy resolution, audit | candidates built before others are taken; ties | one use per record; a result that is a function of the data; one reason per rejected pair |
| `stream.py` | seen records, open pool, watermarks, final references, decision history | arrival, redelivery, progress, settling | arrival order, lateness, finality by component, cuts | finals never change, do not depend on the order, come in whole matches; everything ends |
| `provenance.py` | SQLite store of payloads, records and runs | capture, save, reconcile, replay, evidence | crash or lock during a save, several clients, damaged rows | batches whole, chains complete, rows kept, answers original or none |
| `observation.py` | none | normalisation of spans into observations | clocks, missing identifiers | no invented identity |
| `correlation/flow.py` | open observations, groups by shared value, settled, due and crowded members, links, proofs | entry, progress, settle, close, let go | watermarks of several sources, silence, crowding at a limit | a closed value is never linked again; links do not depend on the order |
| `correlation/flow_timed.py`, `timing.py` | open observations of a timed hop, queue by end, flagged and held members, counted neighbours | add, exclude, close a component, let a flagged member go, forget neighbours | components that grow past their bound after a member left the queue; neighbours that close first | finals are the batch path's; what is flagged is let go; one proof each |
| `correlation/exact.py` | none | batch correlation by identifiers | collisions, missing ends | what a join says of each observation |
| `correlation/assignment.py` | tables of the Hungarian algorithm during a call | components, optimum, one alternative per record | ties, margins, the bound on the search | optimal and unambiguous, or told as ambiguous; always returns |
| `correlation/topology.py` | none | a declaration is parsed, checked and given its ceilings | rules that interact; refusals that must be complete | more evidence never lowers a ceiling; what a refusal lists is enough |
| `m0/` | none beyond one call | attribution verdict and its borderline loop; stability gate; latency gate | inclusive limits, bands, impossible perturbations | a verdict is what the protocol defines; a strong one is clear of its limits; a flag has a reason |
| `adapters/camt053.py` | none | statement parsing | format | one record per entry |
| `m0-harness/cmd/load-gen`, `fake-upstream`, `join` (Go) | in-flight calls, generations of connections, ordinals, two logs | launch, dial, serve, complete, time out, join | goroutines, lost connections, transparent retries, address pairs used again, counts kept apart | every attempt ends; no key is given twice, and the two sides' keys agree where they can |
| `strong-tier-probe`, `http-signal-probe` (Go and BPF) | ring buffer, drops counter, loop statistics | emit, read, decode and write, signal, close | bursts at a full buffer, shutdown against the loop | what is recorded, counted and dropped is never more than what happened, and all of it where every failure is counted; a signal ends it |
| `relay`, `cpu-load`, `labtls` (Go) | none of their own | forward, burn, certify | - | not modelled |
| `m0-harness/*.py`, `scripts/`, `tools/` | files | offline analyses | - | not modelled |

Interactions. The stream calls `reconcile` on the open records of one block
after every admitted arrival and after every round of closing; nothing else is
shared. The correlation flow plays the same role for observations, over the
groups the topology declares. The provenance store captures `reconcile`'s inputs
and outputs. The harness programs talk HTTP and meet again in `join`, which reads
their two logs; a probe watches the same connections and requests from the kernel.

The hazards, each at its line, are in `PROJECT.json` ("hazards"), with the
properties that would show them going wrong, or why none does.

## 2. Modules

| Module | Models | Notes |
|---|---|---|
| `Domain` | records, blocks, sides, links | extended by all |
| `Rules` | `rules.py` | pure operators; amounts are integers, scores are in units of 0.000001 |
| `Resolution` | candidate order, reject reasons, audit | pure operators of `engine.py` |
| `Engine` | `reconcile` as its loops | one action per block start, rule, candidate, audit |
| `Batch` | `reconcile` as a function | folds over the sorted candidates |
| `Stream` | `stream.py` | the engine is a constant operator with a contract |
| `Ledger` | what the stream promises | abstract specification, refined by `Stream` |
| `Joins` | `correlation/exact.py` | pure operators: what a join says of an observation |
| `Watermarks` | the watermark of `flow.py` | pure operators of the sources' progress, silence and lateness |
| `Flow` | `correlation/flow.py` | the replay of a journal of observations, without timed joins |
| `Matching` | what `assignment.py` promises | the decisions all near-optimal matchings of a graph force |
| `Assignment` | `assign` | component by component, with any optimum the algorithm may return |
| `Hungarian` | `_min_cost_assignment` | one action per iteration of its loops |
| `TimedFlow` | `flow_timed.py` over `timing.py` | a journal with one timed hop; decides with `Matching` |
| `Provenance` | `provenance.py` | clients, transactions, crashes and rot |
| `OrdinalJoin` | `cmd/join` | pure operators on two logs |
| `Harness` | `cmd/load-gen` and `cmd/fake-upstream` | extends `OrdinalJoin` |
| `Probe` | both probes, kernel and user side | |
| `Campaign` | the harness with a probe attached | composes `Harness` and `Probe` |
| `Topology` | `correlation/topology.py` | `load` as an operator, and the operator who edits and reloads |
| `Fractions` | `_achievable`, ratios | integers of thousandths; extended by `Attribution` |
| `Attribution` | `m0/attribution.py` | one action per construction, decision and move of the borderline loop |
| `MCEngine`, `MCStream`, `MCFlow`, `MCAssignment`, `MCHungarian`, `MCTimedFlow`, `MCProvenance`, `MCCampaign`, `MCTopology`, `MCAttribution` | instances for TLC | `MCStream` gives `Stream` the function of `Batch` |
| `StreamProofs`, `ProvenanceProofs`, `CampaignProofs`, `EngineProofs`, `HungarianProofs`, `FlowProofs`, `TimedFlowProofs`, `AttributionProofs` | theorems about the module each is named after | see section 5 |

**Engine.** The variables are the locals of `reconcile` and `_reconcile_block`:
`todo` (blocks left), `block`, `rule`, `candidates` (of the current rule, not yet
examined), `taken_left`, `taken_right`, `matches`, `rejects`, and `stage`, the
program counter. The initial state holds any subset of the records on each side.
Python's `sorted` is the action `Resolve` of the first candidate in
`candidate_order`; that a first one always exists is part of `CallReturns`.
Identifiers are unique on each side, as the code's dictionaries by id require.

**Stream.** The variables are the fields of `_Replay` and of its blocks:
`seen`, `pool`, `latest`, `progress`, `final_references`, `current`, `decisions`,
`duplicates`, `position`. Two more stand for control: `settling`, the blocks
whose `_settle` loop has not ended (empty between two entries), and `refused`,
set by the `ValueError` for a key delivered with different content, which ends
the replay. `Arrive`, `Redeliver`, `Refuse` and `Progress` are journal entries;
`SettleRound` is one iteration of `while closing`, with the `_evaluate` at its
end, and `SettleDone` its exit. `window_end` is not a field: it is the latest
horizon of a decision's inputs. A decision's identifier is the tuple the code
digests (digests are taken as collision-free). A break's reasons are a set
instead of a `+`-joined string, and inputs are a set of records; the code joins
identifiers with a comma, which is injective only for identifiers without one.

`Blocks` are settled in any order where the code sorts them; they share no state,
so this only adds behaviours.

**Ledger.** A book of entries: an entry is written, rewritten while open with
what the whole of its match says, turned away, or closed as it stands; matches
are written and closed whole; a closed entry never changes. `Stream` implements
it with `book <- current`.

**Flow.** The variables are the fields of `_Flow`: `seen`, `open`, `pending` (the
queue by event time, as the set of its members), `settled`, `crowded`,
`closed_values`, `progress`, `first_at`, `current`, `dossiers`, `duplicates`,
`position`, and `refused` as above. `feed` evaluates and settles before it
returns, and nothing observes the state in between, so an entry is one step:
`Seen` (told late, told after final, or admitted), `Redeliver`, `Refuse`,
`Advance`. `Settle` is `_settle`: what comes out of the queue, the ripe groups
among it, the settled members that leave alone, the proofs. `due` is empty
between entries and becomes a local; `holders` and `keys_of` can be read off
`open`. An identifier with its value is a function from the signal's identifiers
to what was recorded, so values of different signals differ, as the code's
`(key, value)` pairs do. A final decision's status says whether it was forced.
The watermark is not monotone: a source left out for its silence holds it again
when it comes back. History before the current decision, and digests, are not
represented; the chain of decisions is the stream's, modelled there.

**Assignment, Matching, Hungarian.** `Matching` defines what `assign` promises:
a record is decided when every matching of the graph within `margin` of the best
gives it the same partner, or none. `Assignment` is what the code does: it takes
the components one by one (`todo`), lets the solver return any cheapest
assignment of the component's square matrix, forbids one of its cells at a time
and compares. Rows and columns are named by the component's records instead of
numbers: the row of a right and the column of a left are its slack. `Hungarian` is the solver itself, on
numbers: its variables are the tables `u`, `v`, `p`, `way`, `minv`, `used` with the
row `i`, the column `j0` and the count of `steps`; `Search` is one iteration of the
bounded `for`, `Flip` one step of the walk back, `NextRow` and `Return` the outer
loop. `Found` ends a search only within the bound of the `for`; past it there is no
step, where the code raises. `Infinity` is a model
value above all costs. Together: the solver returns an optimum, any optimum gives
the promised decisions.

**TimedFlow.** The variables are the fields of `TimedJoin` (`open`, `heap`, `past`,
`flagged`, `counted` for `references`) with those of the journal (`seen`, `progress`,
`first_at`, `current`, `proofs`, `position`). `Seen` is an entry: told late, excluded
(no times, or too long), or added, with the component decided or flagged; `Settle` is
`closing` with `_settle_timed`. `edges` and `by_end` can be read off `open`, and `due`
is empty between entries. Each observation is delivered once, and the topology has
this hop only: redelivery and shared values are in `Flow`, and the two are not
composed.

**Provenance.** A table is a function from identifiers to rows: `raw_events`,
`canonical_records`, `runs`. Each client has a connection: `op` is the call it is
in and where, `writer` the one inside a write transaction (SQLite admits one),
`staged` what it has inserted, `answer` what its last call returned. `Capture`,
`SaveRecords`, `SaveRecord` (one iteration of the loop), `StartReconcile`,
`InsertRun`, `Commit` and the `...Return` actions are the statements between which
other clients run; `Replay` and `Evidence` read checked rows only and are one step.
A second writer fails with "database is locked", as the code lets it. `Fail` is an
exception, `Crash` a stop anywhere, and `Rot` damages one stored row, to another
row's consistent bytes too. Digests are the values they digest; the engine's result
keeps the build that computed it, so a replay by another build is a different one.
`_json` and the round trip of amounts and dates are taken as exact.

**Harness, OrdinalJoin.** `phase` and `conn` are the goroutines of load-gen,
`generation`, `key_by_conn`, `stream_seq` its `connTracker`, `log` its two files
(told apart by the attempt); `accepted`, `seen_tuple`, `server_seq`, `handling`,
`server_log` are fake-upstream's, `sent` and `answered` what is under way between the
two. Every connection is HTTP/2, since fake-upstream always offers `h2`; `pool` says
whether it carries many requests at a time or, under `-pool=false`, one. `GotConn` is
the callback with `identify`; `ReadBody` is the end of the body, after which others
have the connection, and `Complete` what `performRequest` does after that, beginning
with `nextStream`; `Timeout` is its other end. `Accept` is `ConnContext`, a step of the
server's own: it may come after the client has used or given up the connection, and
after a later connection of the same address pair was served. `Arrive` and `Answer`
are the handler before and after its latency; a request may arrive when its client has
gone. `Dial`, `Lose` and the retry after a loss are net/http's: a connection may be
opened for one attempt and used by another, and an attempt sent again keeps its record
and calls `GotConn` once more. Operators of `cmd/join` take the logs as sets, since
every record of one attempt on one connection is distinct. `-shuffle`, baggage, paths,
sizes and responses other than 200 are left out.

**Probe, Campaign.** `buffer` and `drops` are the two BPF maps, counted; `loop` is
`runLoop`'s position; `recorded`, `decodeFailures`, `writeFailures` are
`loopStats`. What strong-tier-probe cannot decode or write changes no variable, as it
is in no count of the code.
`Campaign` fires the program where the kernel would: at each end of a connection
(`tcp_connect` with `Dial`, `inet_csk_accept` with `Accept`), once for an HTTP/2 request dispatched to its
handler. A step of the harness and what it makes the program do are one step.

**Topology.** A declaration is a record of tables, and `load` the function from it
to a set of refusals or to the ceilings of hops and crossings, through `_parse`,
the readers of `_Fields`, the rules and the links, in the code's structure. Values
of a wrong type are one value. The variables are the declaration, what loading it
gave, and a count of edits: an operator writes a field (`Write`), records one more
identifier (`RecordMore`), or supplies all that a refusal lists for one link kind
(`Answer`), and loads again. `Answer` supplies nothing that is not listed: a point that
gets timestamps stays on the clock it declares, or gets any of `Clocks`.

**Fractions, Attribution.** A ratio is an integer number of thousandths, so that
products and comparisons are exact; with three decimal places 28 digits make them
exact in the code too. A call of `Metrics` is accepted or raises (`Construct`),
`Decide` is Gate 0 with the nominal verdict, and `Probe` one move of the loop in
`_decide`: `d`, `d_acc`, `unresolved`, `r`, `t`, down and up.

## 3. Runs

| Run | Instance | Shows |
|---|---|---|
| `engine` | 11 records, two blocks, `date_days` 1, `amount_rel` 5%, M3 up to 3, at most 3 candidates a block | matches pair linked records and share none; one reason per unmatched pair; the greedy result is the unique stable one; loops = function; the call returns |
| `stream_blocks` | a chain of four records each in the window of the next; a second block with references beyond the window and a key with two contents; lateness 1, progress to day 5 or 6; journals of up to 5 entries | finals do not depend on the order; closed components gain no neighbour; unique identifiers, one effective decision; reference breaks are beyond the horizon; every moved block is settled |
| `stream_cut` | the chain under `max_component_days` 2, one redelivery, with fairness of `Settle` | finals are for ever; forced means past the horizon; open decisions are current; implements the ledger; everything becomes final |
| `flow_crowd` | one source, a hop and a crossing on one identifier, a value repeated past `max_collision_members` 2, window 3 | open decisions are what the joins say of all that is open; one proof each, with the partners in the same state; the limit changes no verdict; an advance leaves nothing ripe open |
| `flow_return` | two sources with `max_silence_us` 2, a connection used again, a hop with two signals that agree, disagree or miss an end, one redelivery, a changed content | finals are for ever and what the joins of all that was delivered say at once; what closed unforced gains no neighbour within the window, though the watermark recedes |
| `assignment` | every graph of two lefts and three rights with weights 1 to 3, margins 0, 1 and 5, `max_component` 2 and 3 | a record is decided exactly when all near-optimal matchings agree on it |
| `hungarian` | the matrices of every graph of two lefts and two rights, with and without a forbidden cell | the potentials certify every step; a search takes at most N steps (`SearchConverges`); each row leaves an optimal assignment of the rows so far |
| `timed` | two signals, `margin_us` 1, `max_component` 2, a density guard, two sources that always hold the watermark; a component of five that grows past its bound, a neighbour that closes first | finals are the batch path's; an entry leaves nothing ripe |
| `provenance` | two clients, two payloads, batches of two records that overlap or hold an ill-formed one, two engine builds, one rotten row | batches are whole; chains are complete; answers are what was stored, or none; rows are kept |
| `campaign` | two measured requests at a time, a warm-up request and a measured one, with and without `-pool`, over three connections, two of one address pair, one fault; and one request watched by either probe with a buffer of one | `join` refuses; no key is given twice; a request read on a connection alone on its address pair finds its key, and its own record if it was the only one there; a probe never says more than happened, http-signal-probe says exactly that; every attempt ends; a signal ends the probe |
| `topology` | 66 declarations (three points, two hops, and malformed ones), two clocks, every sequence of two edits | recording more never refuses or lowers a ceiling; what a refusal lists is enough, but for a clock hidden behind missing timestamps, which the next answer settles |
| `attribution` | 8400 calls of `Metrics` around every threshold of `RUN_001`, with and without a correlator, and ones that are refused | no strong verdict has its coverage or its unresolved zone inside the band; a flag always has a neighbour with another verdict that some run could measure |

Bounds. `Untils` are the event times an `Advance` may carry. `MaxPosition` bounds the journal's distinct entries, `MaxDuplicates` the
redeliveries; `Days` are the days a progress signal may carry. The instances are
chosen so that each interesting case occurs: chains of three links, a match that
moves along the chain when a better candidate arrives, a record exactly on the
horizon and one past it, components that close in separate rounds, a cut that
splits a component, a late arrival, a reference that comes back after its
counterpart is final (progress to day 6 carries the watermark to day 5, past the
earliest horizon of a referenced record, day 4); a timed component flagged after a member came out of the
queue; a batch that stops half way while another client reads; an address pair
used again after a lost connection, with a request sent twice; generations that the
two sides count in another order, and the miss it makes; a connection whose requests
end in another order than they arrived; a burst of two at a buffer of one, and a close
with a sample left in it. No more connections are dialled than attempts asked for
(`Dials`). `MaxCaptures`, `MaxRuns`,
`MaxFaults` and `MaxEdits` bound what their names say, and `MaxRot` how
often a row rots, the same one again included. `assignment` has
the symmetry of the lefts and of the rights (the code uses identities there only
to order what it returns), `provenance` that of the clients. Mutants of the code's definitions, one per property
(`PROJECT.json`, "mutants"), are each refuted on the same instance.

Deadlock is not checked: a call returns, a journal and a measurement end.

Fairness. `FairSpec` assumes weak fairness of `Settle` only: `feed` returns only
when its loop has. No journal entry is assumed ever to come. `Engine` assumes
that a running call keeps running. `Campaign` assumes of
each attempt that it is launched when it can be, that its deadline passes
(`client.Timeout` covers the dial, the wait and the body) and that its goroutine goes
on once the body is over, and that the two goroutines of the probe run. Nothing is assumed of connections, of the server, or
of a signal's coming.

`JoinKeysAgree`. `m0-harness/README.md:1391` says that `join` cannot score any run of the
current harness, and it is so: the first conjunct says that it refuses. The others are
about what the key is worth. Lines 134-143 report generations that differ within one
run, which is why agreement is claimed only for a connection alone on its address pair;
the model reaches the other case, and the miss. Lines 1383-1389 say that keys agree
where a connection carries one request, and that ordinals do not survive multiplexing:
the model reaches another request's record under the key, and the property says that
the key at least is there.

`FinalsAreOrderFree` assumes what the docstring of `stream.py` does: no late
arrival, no cut, references within their horizon. The instance stays under
`max_block_candidates`: an oversized block switches M3 off by the number of its
*open* records, which does depend on the order.

Scores. The code computes with 28-digit decimals and rounds once to six digits;
the model rounds the exact quotient. They can differ only where the exact
quotient lies within 10^-28 of a rounding boundary without being on it.

## 4. Met while modelling

Places where a comment or a document and the code differ, or where the code does
something a reader would not expect. No run is about them.

* `flow.py:26-28` says that two signals naming different pairs are `CONFLICTED`,
  "no link". `_combined` judges each end alone: when the two pairs share their
  downstream end, that end is conflicted, and both upstream ends, which each lack
  the other signal, are final `LINKED` to it. Confirmed by replaying such a journal.
* `docs/m0-evaluation-protocol.md:330` says that an input within the band of a
  threshold makes the verdict BORDERLINE, and 332 forbids "94.9% is almost 95%". The
  loop of `_decide` tries only the two ends of a band and passes over an end that no
  run could measure (`attribution.py:330`, amendment PI-15); a smaller move in that
  direction is not tried. With d_cov = 0.983, d_acc = 0.965, r = 0.95, t = 0.90 the
  coverage is 94.86% and the verdict B_HYBRID, not flagged; at 95.05% it is
  NEEDS_DIFFERENT_MECHANISM. The same happens on R near 80% when T is close below it.
  Confirmed by calling `decide`. The moves that guard a strong verdict's coverage and
  unresolved zone are never passed over (`StrongVerdictsAreClear`); moves of D_acc
  and of R can be, for strong verdicts too.
* `stream.py:20-22` and `README.md:265-267` say that an arrival carrying the
  reference of an already final record is a `REFERENCE_AFTER_FINAL` break. A
  record that was final on arrival never enters `final_references`
  (`stream.py:258-261` returns before `293-294`), so its counterpart is admitted
  as open.
* `flow.py:8-10` says that a group's decisions become final when the watermark
  has passed it. An observation told `VALUE_AFTER_FINAL` moves the watermark and
  returns without settling (`flow.py:416-422`); a group it has passed stays open
  until another entry, and takes in what it should no longer.
* With `max_silence_us`, a source that returns makes the watermark recede. A member
  that came out of `pending` before (`flow.py:519-522`) and becomes settled while
  the watermark is below it is neither due nor in the queue: when the watermark
  passes its horizon again it is not let go alone, where `flow.py:32-39` says it
  "goes final alone past the horizon". It stays until its group closes. Confirmed
  by replaying such a journal; this is why `AdvanceClosesRipe` is checked without
  silence.
* `flow_timed.py:1-2` promises "the batch path's decision, taken once no observation
  on time can change it", and line 13 that the members of a component too large "leave
  one by one past H". With `max_silence_us` neither holds. A member that came out of the
  queue while a silent source was left out, held by a later one, leaves at once when its
  component is flagged after the source has come back (`due`, lines 129-131 and
  154-156), although the watermark is below its horizon again; an observation still on
  time whose only candidate it was is then final `NO_CANDIDATE`, unforced, where the
  batch says `OVERSIZED`. Confirmed by replaying such a journal (margin 1,
  `max_component` 1, `max_silence_us` 2). This is why `FinalsAgreeWithBatch` of
  `TimedFlow` is stated for a `MaxSilence` that is unbounded; `NothingRipeStays` is not.
* `topology.py`: a hop without timestamps and without a shared clock is told only
  the first (the `elif` at line 455), where `_missing` says "every condition" (432) and
  the module "a list of what to fix, not the first error found" (10-11). An operator
  who supplies the timestamps is refused once more, for the clock. `AnswersSettle`
  states this as its one exception, and that a second answer ends it. A refused point's rules, and its hops, are
  not checked until it is well formed. Sharing a clock can turn a declaration that
  loads into one refused for its density, which the rule intends.
* `provenance.py`: `received_at` is covered by no digest, so damage to it is not
  noticed when the row is read. `AnswersAreOriginal` does not include it.
* `strong-tier-probe/main.go:221-226` logs a sample it cannot decode and ignores the
  error of `enc.Encode`: such events are in no count, where http-signal-probe counts
  both. For strong-tier-probe `SignalsAddUp` is an upper bound only.
* `rules.py:26` says the penalties "are bounded to 0.11 total"; with the default
  `max_aggregate_size` 3 they reach 0.12 (nothing rests on it, since rules are
  applied one after the other).
* `_components` follows parents by recursion without path compression, so one right
  record linked to more than about a thousand open left records ends the replay
  with `RecursionError` (`stream.py:322`).
* `stream.py:179` joins identifiers with a comma, which is injective only for
  identifiers without one.

## 5. Proofs

**Stream.** The theorems hold for every set of records, every configuration allowed by
`StreamConfigAssumption` and every engine satisfying `EngineContract` (matches
lie in the inputs, pair linked records and share none; the engine does not use
the reasons `LATE` and `REFERENCE_AFTER_FINAL`). TLC evaluates the contract for
the engine of `Batch` on the runs' instances, and the `engine` run checks
the same facts on the loops (`MatchesAreSound`).

`StreamProofs` rests on `StreamInv == TypeOK /\ OpenIsUpToDate /\ MatchesWhole`.
None of the three is inductive alone: a match closes whole only because each of
its members has the same current decision (`MatchesWhole`), which holds for open
records because their decisions are what the engine says now (`OpenIsUpToDate`)
and the engine's matches are disjoint. From it: `TypeCorrect`,
`OpenDecisionsUpToDate`, `FinalDecisionsForever`, `StreamImplementsLedger`.

The theorems about horizons add three strengthenings. `ClosedBehind`: the horizons of
records closed with their component are behind their block's watermark, which
never recedes (`WatermarksAdvance`), so an arrival that could be linked to one
is late or carries a final reference; hence `ClosedComponentsGainNoNeighbour`.
`ForcedAndKeptPassed`, for `ForcedDecisionsPastHorizon` and
`ReferenceBreaksBeyondHorizon`. `QuietBlocksSettled`: a block outside `settling`
has nothing to close, although each arrival and progress signal moves
watermarks; hence `EntriesSettle`.

`OneDecisionIsEffective` is about the whole history. Its invariant `History` adds that
a business key has one content, that the versions of a record's chain are distinct and
lead up to the current decision, and that each but the last is superseded, by a later
one of its own chain. So a content that comes back (A, B, A) has a new identifier, and
only the end is not superseded.

**Provenance.** The invariant says of the staged rows that they belong to the client
inside the write transaction, that its call has checked what they refer to against
committed rows or its own staged ones, that a staged identifier is not a committed
one, and that what is staged of a batch is the part its loop has passed. A commit
then adds whole batches with their chains (`SavedBatchesAreWhole`,
`StoredChainsAreComplete`) and replaces nothing (`CommittedRowsAreKept`); a row that
passes its digest check is the original (`ReturnedIsOriginal`). An earlier statement
of `RowsAreKept` compared rows with what was first inserted, which is false when a
row rots twice; the proof attempt found it, and the property now says that every
step but rot keeps the rows as they are.

**Campaign.** For every set of loads, every finite set of connections and every number of
faults. `SignalsAreCounted` accounts for every transition of the loop and of the
harness: a connection is dialled once and accepted once, and what arrives stays in
`handling` or `answered`. `JoinKeysAlwaysAgree` rests on invariants of each side and on
one between them. Of each side (`GenerationInv`): the generations given to the
connections of an address pair are 0, 1, 2 and so on without a repetition
(`NumberingGrows`), whatever their order, so that keys are distinct and a connection
alone on its pair has generation 0 on both sides (`AloneIsZero`). `ServerLogIsRight` and
`ClientLogIsRight` tie the records of a connection to the ordinals its counter has
given, each once. Between them: a body that was read was answered on that connection
(`ReadWasAnswered`), so the client has never given more ordinals on a connection than
the server has (`ReadsArrived`); once no handler runs, every ordinal of the client is
therefore one in the server's log. Two counts agree on a single request because its
ordinal is 1 on both sides.

**Engine.** The invariant says that matches are what their rules propose, that what is
taken is what the matches of the block in hand hold, and that matches share no record
(`MatchesStaySound`); that past M2 no free pair is within both bounds, which is why the
audit finds a reason for each pair, once (`ReasonsAreUnique`); and that a candidate which
has had its turn is a match or lost to one before it (`ResultStaysStable`).
`ResultIsStable` leaves the candidate itself out of the matches it may lose to: an
order that is reflexive on equal candidates would otherwise refute it. The order of
identifiers is that of Python's tuples; its definition by sets, `IdsBefore`, is compared
with the comparison of sorted sequences, element by element, in an `ASSUME` of
`MCEngine` that TLC evaluates, for aggregates larger than the run's.

**Hungarian.** For every size and every integer matrix: priced rows have no negative
reduced cost and matched cells have none at all; `minv` is the least reduced cost by
which the tree reaches a column outside it, attained through `way`; the tree holds one
column more at each step; and the way back to column 0 is ordered, so that no column is
met twice when the path is flipped. Hence the potentials certify every step, and a
search has found a free column after at most N steps. `RowsStayOptimal` adds
`ColumnsArePriced`: a column without a row has potential 0 and no column a positive one.
The cost of any one-to-one choice of columns is then at least the sum of the row
potentials and of all column potentials, which is what the program's choice costs (weak
duality). The sums over a set of columns are characterised by what taking one element
away does to them, proved from a smallest counterexample.

**Flow.** An entry is processed in two parts, `_evaluate` and `_settle`, and the
invariant is stated for any values of the variables, since the first part leaves it true
of values the second starts from. `FlowInv` says that decisions are provisional exactly
for what is open and are what the joins say now, that partners are open or closed
together and share a value, that a settled member is one nothing can change, that
everything closed and not told has one proof of its finality, and that every source has
passed the window of what closed unforced. Its lemmas show that the joins of a group
depend on the group alone, so that evaluating one group keeps the others up to date.
From it follow `FinalDecisionsStay`, `OpenStaysUpToDate`, `EveryoneGetsOneProof` and
`ClosedGroupsMissNobody`. `NoneIsForgotten` is about the queue: with `MaxSilence`
unbounded, what came out of the queue is passed by every source, and each open group
has a member in it, since a settled member has one value and its leaving does not
take a group apart; hence `RipeGroupsClose`, stated for that case because it fails
otherwise (section 4).

`LimitHidesNoVerdict` and `FinalsAreTheBatchs` add `TellInv`, about those that have left:
nobody open carries an authored value of a closed group, so what a join said of a group
is not disturbed by later ones; a member that left alone left a collision behind that is
still remembered (`LeftAreSpent`), and what is remembered as crowded really has more
than one member on a side of the join among all that were admitted (`CrowdsCollide`), so
the verdict `COLLIDED` stays right whoever has gone. While values come back within the
window nobody admitted later shares a connection with a closed group either, and the
proposals are those of everything delivered (`BatchAgreed`).

**TimedFlow.** For every finite catalogue of observations and every setting `check_join`
accepts. `NothingRipeIsLeft` rests on `QueueIsSound`, for any values of the variables
between the two halves of an entry: what is out of the queue is held, what is flagged is
in the queue or due, and in every closed set of unflagged members one that is out of
the queue has a later one still in it (`LaterIsQueued`), so that the last to come out
sees its whole component; it does not depend on the watermark's advancing. `OneProofEach`
adds `ProofsShareOut`. `TimedFinalsAreTheBatchs` adds `BatchInv`, for an unbounded
`MaxSilence`: whatever is out of the queue is behind every source by the horizon; an open
unflagged member has no candidate among the flagged or the gone; each flagged one lies in
a component of *all that joined* that is too large; what was said of each one gone is
`OVERSIZED` of such a component, or what the batch says of a component of all that
joined that is gone whole; and a neighbour no longer counted is further than the span
from all that is open or still to come on time. Three facts carry it: what comes on time
is no candidate of what is behind (`OnTimeIsNotAdjacent`); the near-optimal matchings of
a graph, seen on one of its components, are those of the component alone (`NearIsLocal`:
the total of a matching is the sum of its parts, and the rest can be exchanged for the
best one); so the verdicts of a component are the batch's on any set it is a component
of (`VerdictsAreLocal`).

**Attribution.** For every measurement and every `Thresholds` that its validation
accepts. The invariant says that every move of the loop before the current one was
impossible or kept the verdict. `StrongVerdictsClearTheBand`: the two moves it rests on,
D down and unresolved up, are never passed over, since they leave D <= D_acc and
T <= R true. `VerdictsPartition`, which no run checks: the nominal verdict is the only
outcome whose positive definition in the protocol holds. `FlagsAreGenuine` is stated for
the thresholds of `RUN_001` and every measurement: `FlagsAreEarned` keeps the move that
changed the verdict, and where the point it leads to is one no run can measure, another
move within the bands leads to one that can be and changes the verdict too. It is not true of
every `Thresholds` that validates: with `d_min` 0 a negative D is judged.

Model-checked only. `BatchAgrees` and `FinalsAreOrderFree` need what a fold over sorted
candidates computes, on all inputs at once, which is an induction over data.
`OnlyForcedIsDecided` needs the correspondence of the permutations of a component's
matrix with its matchings, which is not proved; that components may be decided apart is
(`NearIsLocal`), and that the solver's result is optimal (`RowsStayOptimal`).
`RecordingNeverHurts` and `AnswersSettle` of `Topology` are about records whose fields
vary with the declaration, read through the sequence library: the provers do not get
through `load`. `CallReturns`, `EverythingBecomesFinal`, `RunEnds` and `ProbeStops` are
liveness under fairness, beyond this prover.

## 6. Not modelled

`observation.py` and `adapters/camt053.py` are pure parsers of one span or statement at
a time: they keep no state, and what they guarantee of their output is what the
constants of `Flow` and `Domain` assume. `numeric.py` fixes the decimal context. `m0/latency.py` and the spread of
`m0/stability.py` are statistics of one list, without a state. The relay, the CPU load and the certificates of the
lab have no protocol of their own. The scripts of `m0-harness/` read the files of a
finished run once.

Of modelled components: constructor validation and typed errors of `models.py`, the
superseded decisions and digests of the flow (the chain of decisions is the stream's,
modelled there), set-up errors of the probes, and the flow with exact and timed joins in
one journal, of which `Flow` and `TimedFlow` model one each.

## 7. Plan

1. `Flow` with `TimedFlow`: the exact and the timed joins of one journal.
2. Theorems: permutations and matchings (`OnlyForcedIsDecided`), monotone ceilings of
   `Topology`.
