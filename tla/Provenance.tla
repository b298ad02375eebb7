----------------------------- MODULE Provenance -----------------------------
(***************************************************************************)
(* provenance.ProvenanceStore: several clients, each with a connection of  *)
(* its own to one SQLite file, capture payloads, save what an adapter made *)
(* of them, run the engine on saved records and read the evidence back.    *)
(*                                                                         *)
(* Identifiers are digests of content; a digest is the value it digests,   *)
(* under a tag.  A table is a function from stored identifiers to rows.    *)
(* A client stops at any point (Crash) and a stored row may rot on disk    *)
(* (Rot): the code's checks on reading are there for that.                 *)
(***************************************************************************)
EXTENDS Integers, Sequences, FiniteSets

CONSTANTS Clients,        \* processes with the file open
          Sources,        \* what a payload may come from
          Payloads,       \* the bytes a source may send
          Contents,       \* locator, versions and normalised fields of a record
          IllFormed,      \* the contents CanonicalRecord.create refuses
          Versions,       \* engine builds, with the label of each
          Batches,        \* the sequences of records an adapter may save
          Inputs,         \* the pairs of sets of identifiers reconcile may be called with
          MaxCaptures,    \* bound: calls of capture
          MaxRuns,        \* bound: distinct runs computed
          MaxRot          \* bound: times a row rots

NoOne == "NoOne"

ASSUME ProvenanceAssumption ==
  /\ IllFormed \subseteq Contents
  /\ NoOne \notin Clients
  /\ MaxCaptures \in Nat
  /\ MaxRuns \in Nat
  /\ MaxRot \in Nat

sha256(payload) == <<"sha256", payload>>
RawId(source, payload) == <<source, sha256(payload)>>
RawIds == {RawId(s, p) : s \in Sources, p \in Payloads}

(* CanonicalRecord.create: the identifier digests everything else. *)
CanonicalId(raw_id, content) == <<raw_id, content>>
create(raw_id, content) ==
  [id |-> CanonicalId(raw_id, content), raw_event_id |-> raw_id, content |-> content]
CanonicalIds == RawIds \X Contents

(* An adapter result of no record, for which save_records does nothing, is *)
(* not among them.                                                         *)
ASSUME BatchesAssumption ==
  Batches \subseteq
    Seq([id : CanonicalIds, raw_event_id : RawIds, content : Contents]) \ {<<>>}

(* What the engine of one build makes of two sets of records.  Builds may  *)
(* decide differently, so the result keeps which one it was.               *)
Reconcile(build, left, right) == <<build, left, right>>

(* The identifier of a run digests its data. *)
RunData(version, left, right, result) ==
  [engine_version |-> version, left_ids |-> left, right_ids |-> right, result |-> result]

VARIABLES raw_events,           \* committed rows, by identifier
          canonical_records,    \* committed rows, by identifier
          runs,                 \* committed rows of reconciliation_runs, a function on its ids
          writer,               \* the client inside a write transaction
          staged,               \* the rows it has inserted
          op,                   \* the call each client is in
          now,                  \* the clock
          rotten,               \* how many times a row has rotted
          answer                \* what the last call of each client returned

vars == <<raw_events, canonical_records, runs, writer, staged, op, now, rotten, answer>>
-----------------------------------------------------------------------------
Idle == [kind |-> "idle"]
NoAnswer == [kind |-> "none"]
Nothing == [raw |-> <<>>, canonical |-> <<>>, runs |-> <<>>]

Init ==
  /\ raw_events = <<>>
  /\ canonical_records = <<>>
  /\ runs = <<>>
  /\ writer = NoOne
  /\ staged = Nothing
  /\ op = [c \in Clients |-> Idle]
  /\ now = 0
  /\ rotten = 0
  /\ answer = [c \in Clients |-> NoAnswer]

(* f with the rows of g where g has them. *)
Over(f, g) ==
  [id \in DOMAIN f \cup DOMAIN g |-> IF id \in DOMAIN g THEN g[id] ELSE f[id]]

(* What a connection sees: committed rows and those of its own transaction. *)
Sees(c, committed, rows) == IF writer = c THEN Over(committed, rows) ELSE committed

RawSeen(c) == Sees(c, raw_events, staged.raw)
CanonicalSeen(c) == Sees(c, canonical_records, staged.canonical)
RunsSeen(c) == Sees(c, runs, staged.runs)
-----------------------------------------------------------------------------
(* raw_event: the row is there and its payload has its digest and its      *)
(* identifier.                                                             *)
RawReads(c, id) ==
  LET row == RawSeen(c)[id]
  IN  /\ id \in DOMAIN RawSeen(c)
      /\ sha256(row.payload) = row.sha256
      /\ <<row.source, row.sha256>> = id

(* _validate_canonical *)
IsValid(canonical) ==
  /\ canonical.content \notin IllFormed
  /\ canonical = create(canonical.raw_event_id, canonical.content)

(* Mutant: the row is consistent, whatever it was asked for. *)
CanonicalReadsAny(c, id) ==
  LET row == CanonicalSeen(c)[id]
  IN  /\ id \in DOMAIN CanonicalSeen(c)
      /\ IsValid(row.data)
      /\ RawReads(c, row.data.raw_event_id)

(* canonical_record: the row, its identity, its content and its raw event. *)
CanonicalReads(c, id) ==
  LET row == CanonicalSeen(c)[id]
  IN  /\ id \in DOMAIN CanonicalSeen(c)
      /\ row.data.id = id
      /\ row.data.raw_event_id = row.raw_id
      /\ IsValid(row.data)
      /\ RawReads(c, row.data.raw_event_id)

(* run: the row has its identifier and every input can be read. *)
RunReads(c, id) ==
  /\ id \in DOMAIN RunsSeen(c)
  /\ RunsSeen(c)[id] = id
  /\ \A key \in id.left_ids \cup id.right_ids : CanonicalReads(c, key)
-----------------------------------------------------------------------------
(* An exception: the transaction, if any, is rolled back. *)
Fail(c) ==
  /\ op' = [op EXCEPT ![c] = Idle]
  /\ answer' = [answer EXCEPT ![c] = NoAnswer]
  /\ IF writer = c THEN writer' = NoOne /\ staged' = Nothing ELSE UNCHANGED <<writer, staged>>
  /\ UNCHANGED <<raw_events, canonical_records, runs, now, rotten>>

(* The first INSERT of a transaction takes the lock; another writer gets   *)
(* "database is locked".                                                   *)
MayWrite(c) == writer \in {NoOne, c}

(* Mutant: INSERT OR REPLACE. *)
Replace(seen, rows, id, row) == Over(rows, [i \in {id} |-> row])

(* INSERT OR IGNORE *)
Insert(seen, rows, id, row) ==
  IF id \in DOMAIN seen THEN rows ELSE Over(rows, [i \in {id} |-> row])

(* capture, up to the insert: a transaction of its own. *)
Capture(c, source, payload) ==
  LET id == RawId(source, payload)
      row == [source |-> source, received_at |-> now, sha256 |-> sha256(payload), payload |-> payload]
  IN  /\ op[c] = Idle
      /\ now < MaxCaptures
      /\ MayWrite(c)
      /\ writer' = c
      /\ staged' = [staged EXCEPT !.raw = Insert(RawSeen(c), @, id, row)]
      /\ op' = [op EXCEPT ![c] = [kind |-> "capture", id |-> id, step |-> "commit"]]
      /\ now' = now + 1
      /\ UNCHANGED <<raw_events, canonical_records, runs, rotten, answer>>

(* ... and its last line, which returns the row that is stored. *)
CaptureReturn(c) ==
  LET id == op[c].id
  IN  /\ op[c].kind = "capture" /\ op[c].step = "read"
      /\ IF RawReads(c, id)
         THEN /\ answer' = [answer EXCEPT ![c] = [kind |-> "event", id |-> id, row |-> RawSeen(c)[id]]]
              /\ op' = [op EXCEPT ![c] = Idle]
              /\ UNCHANGED <<raw_events, canonical_records, runs, writer, staged, now, rotten>>
         ELSE Fail(c)

SaveRecords(c, batch) ==
  /\ op[c] = Idle
  /\ op' = [op EXCEPT ![c] = [kind |-> "save", batch |-> batch, next |-> 1, step |-> "insert"]]
  /\ UNCHANGED <<raw_events, canonical_records, runs, writer, staged, now, rotten, answer>>

(* Mutant: every record is committed on its own. *)
AfterRecordEach(batch, next) == "commit"

(* Where save_records goes after a record. *)
AfterRecord(batch, next) == IF next = Len(batch) THEN "commit" ELSE "insert"

(* One iteration of save_records: checks, insert, and the comparison with  *)
(* the row that is stored.                                                 *)
SaveRecord(c) ==
  LET canonical == op[c].batch[op[c].next]
      id == canonical.id
      row == [raw_id |-> canonical.raw_event_id, data |-> canonical]
      rows == Insert(CanonicalSeen(c), staged.canonical, id, row)
  IN  /\ op[c].kind = "save" /\ op[c].step = "insert"
      /\ IF /\ RawReads(c, canonical.raw_event_id)
            /\ IsValid(canonical)
            /\ MayWrite(c)
            /\ Over(CanonicalSeen(c), rows)[id].data = canonical
         THEN /\ writer' = c
              /\ staged' = [staged EXCEPT !.canonical = rows]
              /\ op' = [op EXCEPT ![c] = [kind |-> "save", batch |-> @.batch, next |-> @.next + 1,
                                           step |-> AfterRecord(@.batch, @.next)]]
              /\ UNCHANGED <<raw_events, canonical_records, runs, now, rotten, answer>>
         ELSE Fail(c)

(* Mutant: the records of the left side are taken as they come. *)
InputsReadRight(c, left, right) == \A key \in right : CanonicalReads(c, key)

(* The inputs of a run are read, and checked, from the store. *)
InputsRead(c, left, right) == \A key \in left \cup right : CanonicalReads(c, key)

(* reconcile, up to the result: the inputs are read, the engine runs. *)
Computed == DOMAIN runs \cup {op[c].run : c \in {d \in Clients : op[d].kind = "reconcile"}}
StartReconcile(c, left, right, version) ==
  LET run == RunData(version, left, right, Reconcile(version, left, right)) IN
  /\ op[c] = Idle
  /\ Cardinality(Computed \cup {run}) <= MaxRuns
  /\ left \cap right = {}
  /\ InputsRead(c, left, right)
  /\ op' = [op EXCEPT ![c] = [kind |-> "reconcile", step |-> "insert", run |-> run]]
  /\ UNCHANGED <<raw_events, canonical_records, runs, writer, staged, now, rotten, answer>>

InsertRun(c) ==
  /\ op[c].kind = "reconcile" /\ op[c].step = "insert"
  /\ IF MayWrite(c)
     THEN /\ writer' = c
          /\ staged' = [staged EXCEPT !.runs = Insert(RunsSeen(c), @, op[c].run, op[c].run)]
          /\ op' = [op EXCEPT ![c].step = "commit"]
          /\ UNCHANGED <<raw_events, canonical_records, runs, now, rotten, answer>>
     ELSE Fail(c)

(* ... and its end: the run is read back. *)
ReconcileReturn(c) ==
  /\ op[c].kind = "reconcile" /\ op[c].step = "read"
  /\ IF RunReads(c, op[c].run)
     THEN /\ answer' = [answer EXCEPT ![c] = [kind |-> "result", run |-> op[c].run, result |-> op[c].run.result]]
          /\ op' = [op EXCEPT ![c] = Idle]
          /\ UNCHANGED <<raw_events, canonical_records, runs, writer, staged, now, rotten>>
     ELSE Fail(c)

(* The end of a "with self._db": what is staged becomes durable at once. *)
Commit(c) ==
  /\ writer = c
  /\ op[c].step = "commit"
  /\ raw_events' = Over(raw_events, staged.raw)
  /\ canonical_records' = Over(canonical_records, staged.canonical)
  /\ runs' = Over(runs, staged.runs)
  /\ writer' = NoOne
  /\ staged' = Nothing
  /\ op' = [op EXCEPT ![c] = IF @.kind # "save" THEN [@ EXCEPT !.step = "read"]
                             ELSE IF @.next > Len(@.batch) THEN Idle ELSE [@ EXCEPT !.step = "insert"]]
  /\ UNCHANGED <<now, rotten, answer>>
-----------------------------------------------------------------------------
(* replay: read-only, and every row it reads is checked, so the reads of   *)
(* one call are one step.  The caller names the version and runs a build,  *)
(* which it should have chosen by that name.                               *)
Replay(c, id, version, build) ==
  LET data == RunsSeen(c)[id]
      result == Reconcile(build, data.left_ids, data.right_ids)
  IN  /\ op[c] = Idle
      /\ RunReads(c, id)
      /\ version = data.engine_version
      /\ result = data.result
      /\ answer' = [answer EXCEPT ![c] = [kind |-> "result", run |-> id, result |-> result]]
      /\ UNCHANGED <<raw_events, canonical_records, runs, writer, staged, op, now, rotten>>

Evidence(c, id, key) ==
  LET canonical == CanonicalSeen(c)[key].data
  IN  /\ op[c] = Idle
      /\ RunReads(c, id)
      /\ key \in id.left_ids \cup id.right_ids
      /\ CanonicalReads(c, key)
      /\ RawReads(c, canonical.raw_event_id)
      /\ answer' = [answer EXCEPT ![c] = [kind |-> "evidence", key |-> key, content |-> canonical.content,
                                          payload |-> RawSeen(c)[canonical.raw_event_id].payload]]
      /\ UNCHANGED <<raw_events, canonical_records, runs, writer, staged, op, now, rotten>>
-----------------------------------------------------------------------------
(* The process of c stops; an open transaction is gone when the file is    *)
(* opened again.                                                           *)
Crash(c) == op[c] # Idle /\ Fail(c)

(* Values a rotten row may hold: one field damaged, or another row's bytes. *)
RotsToRaw(row) ==
  {[row EXCEPT !.payload = p] : p \in Payloads} \cup {[row EXCEPT !.source = s] : s \in Sources}
    \cup {[row EXCEPT !.payload = p, !.sha256 = sha256(p)] : p \in Payloads}
    \cup {[row EXCEPT !.received_at = t] : t \in 0 .. MaxCaptures}
RotsToCanonical(row) ==
  {[row EXCEPT !.data.content = x] : x \in Contents}
    \cup {[row EXCEPT !.raw_id = i] : i \in RawIds}
    \cup {[raw_id |-> i, data |-> create(i, x)] : i \in RawIds, x \in Contents}
RotsToRun(row) ==
  {[row EXCEPT !.result = Reconcile(v, row.left_ids, row.right_ids)] : v \in Versions}
    \cup {[row EXCEPT !.right_ids = {}]}

Rot ==
  /\ rotten < MaxRot
  /\ rotten' = rotten + 1
  /\ \/ \E id \in DOMAIN raw_events :
          \E row \in RotsToRaw(raw_events[id]) \ {raw_events[id]} :
            /\ raw_events' = [raw_events EXCEPT ![id] = row]
            /\ UNCHANGED <<canonical_records, runs>>
     \/ \E id \in DOMAIN canonical_records :
          \E row \in RotsToCanonical(canonical_records[id]) \ {canonical_records[id]} :
            /\ canonical_records' = [canonical_records EXCEPT ![id] = row]
            /\ UNCHANGED <<raw_events, runs>>
     \/ \E id \in DOMAIN runs :
          \E row \in RotsToRun(runs[id]) \ {runs[id]} :
            /\ runs' = [runs EXCEPT ![id] = row]
            /\ UNCHANGED <<raw_events, canonical_records>>
  /\ UNCHANGED <<writer, staged, op, now, answer>>

Step(c) ==
  \/ \E s \in Sources, p \in Payloads : Capture(c, s, p)
  \/ CaptureReturn(c)
  \/ \E batch \in Batches : SaveRecords(c, batch)
  \/ SaveRecord(c)
  \/ \E sides \in Inputs, v \in Versions : StartReconcile(c, sides[1], sides[2], v)
  \/ InsertRun(c)
  \/ ReconcileReturn(c)
  \/ Commit(c)
  \/ \E id \in DOMAIN RunsSeen(c), v, b \in Versions : Replay(c, id, v, b)
  \/ \E id \in DOMAIN RunsSeen(c), key \in DOMAIN CanonicalSeen(c) : Evidence(c, id, key)
  \/ Crash(c)

Next == Rot \/ \E c \in Clients : Step(c)

Spec == Init /\ [][Next]_vars
-----------------------------------------------------------------------------
(* save_records is atomic: the stored records are the union of whole       *)
(* adapter results, wherever a client stopped, failed a check or met the   *)
(* lock of another.                                                        *)
Elements(batch) == {batch[i].id : i \in DOMAIN batch}
BatchesAreWhole ==
  LET stored == DOMAIN canonical_records
  IN  stored = UNION {Elements(b) : b \in {b \in Batches : Elements(b) \subseteq stored}}

(* The chain of a stored run is stored with it: every input, and the raw   *)
(* event of every record, whatever else was being written when the run was *)
(* computed and whoever stopped before committing.                         *)
ChainIsStored ==
  /\ \A id \in DOMAIN runs : id.left_ids \cup id.right_ids \subseteq DOMAIN canonical_records
  /\ \A key \in DOMAIN canonical_records : key[1] \in DOMAIN raw_events

(* What a call returns is what was saved under the identifier asked for,   *)
(* even though rows rot: the event's bytes, the run's result, the record   *)
(* and the bytes it was made from.                                         *)
AnswersAreOriginal ==
  \A c \in Clients :
    CASE answer[c].kind = "event" -> RawId(answer[c].row.source, answer[c].row.payload) = answer[c].id
      [] answer[c].kind = "result" -> answer[c].result = answer[c].run.result
      [] answer[c].kind = "evidence" ->
           /\ answer[c].content = answer[c].key[2]
           /\ sha256(answer[c].payload) = answer[c].key[1][2]
      [] answer[c].kind = "none" -> TRUE

(* The store is append-only: no call changes or removes a committed row,   *)
(* so a payload captured again, by another client at the same time too,    *)
(* keeps the receipt it got first.                                         *)
KeepsRows(before, after) ==
  \A id \in DOMAIN before : id \in DOMAIN after /\ after[id] = before[id]
RowsAreKept ==
  [][\/ /\ KeepsRows(raw_events, raw_events')
        /\ KeepsRows(canonical_records, canonical_records')
        /\ KeepsRows(runs, runs')
     \/ Rot]_vars
=============================================================================
