-------------------------- MODULE ProvenanceProofs --------------------------
(***************************************************************************)
(* Proofs about Provenance, for every number of clients, every set of      *)
(* payloads, adapter results and engine builds, and any damage to rows.    *)
(***************************************************************************)
EXTENDS Provenance, TLAPS

(* The runs a caller can ask for. *)
RunOf(sides, version) ==
  RunData(version, sides[1], sides[2], Reconcile(version, sides[1], sides[2]))

RunInputs(run) == run.left_ids \cup run.right_ids

(* The calls a client can be in, with where each of them can be. *)
CaptureCall(id, step) == [kind |-> "capture", id |-> id, step |-> step]
SaveCall(batch, next) ==
  [kind |-> "save", batch |-> batch, next |-> next,
   step |-> IF next > Len(batch) THEN "commit" ELSE "insert"]
ReconcileCall(run, step) == [kind |-> "reconcile", step |-> step, run |-> run]

IsCapture(o) == \E id \in RawIds, step \in {"commit", "read"} : o = CaptureCall(id, step)
IsSave(o) == \E batch \in Batches : \E next \in 1 .. Len(batch) + 1 : o = SaveCall(batch, next)
IsReconcile(o) ==
  \E sides \in Inputs, v \in Versions, step \in {"insert", "commit", "read"} :
    o = ReconcileCall(RunOf(sides, v), step)

CallsAreWellFormed ==
  /\ DOMAIN op = Clients
  /\ \A c \in Clients : \/ op[c] = Idle \/ IsCapture(op[c])
                        \/ IsSave(op[c]) \/ IsReconcile(op[c])

(* The points of a call between its first INSERT and its COMMIT. *)
InTransaction(o) ==
  \/ o.kind = "capture" /\ o.step = "commit"
  \/ o.kind = "save" /\ o.next > 1
  \/ o.kind = "reconcile" /\ o.step = "commit"

(* The write lock is held exactly by the client inside a transaction. *)
LockIsHeld ==
  /\ writer \in Clients \cup {NoOne}
  /\ \A c \in Clients : writer = c <=> InTransaction(op[c])

(* The identifiers of the records that save_records is done with. *)
SavedSoFar(o) == {o.batch[i].id : i \in 1 .. o.next - 1}

(* What the writer has staged is what its call has checked, and no more. *)
StagedIsChecked ==
  /\ staged = [raw |-> staged.raw, canonical |-> staged.canonical, runs |-> staged.runs]
  /\ writer = NoOne => staged = Nothing
  /\ \A c \in Clients : writer = c =>
       /\ op[c].kind = "capture" =>
            DOMAIN staged.canonical = {} /\ DOMAIN staged.runs = {}
       /\ op[c].kind = "save" =>
            /\ DOMAIN staged.raw = {} /\ DOMAIN staged.runs = {}
            /\ DOMAIN staged.canonical \subseteq SavedSoFar(op[c])
            /\ SavedSoFar(op[c]) \subseteq DOMAIN canonical_records \cup DOMAIN staged.canonical
            /\ \A key \in DOMAIN staged.canonical : key[1] \in DOMAIN raw_events
       /\ op[c].kind = "reconcile" =>
            /\ DOMAIN staged.raw = {} /\ DOMAIN staged.canonical = {}
            /\ DOMAIN staged.runs \subseteq {op[c].run}

(* No staged row has the identifier of a committed one. *)
StagedIsNew ==
  /\ DOMAIN staged.raw \cap DOMAIN raw_events = {}
  /\ DOMAIN staged.canonical \cap DOMAIN canonical_records = {}
  /\ DOMAIN staged.runs \cap DOMAIN runs = {}

(* The inputs of a run that is being saved are committed already. *)
InputsAreStored ==
  \A c \in Clients : op[c].kind = "reconcile" =>
    RunInputs(op[c].run) \subseteq DOMAIN canonical_records

StoreInv ==
  /\ CallsAreWellFormed
  /\ LockIsHeld
  /\ StagedIsChecked
  /\ StagedIsNew
  /\ InputsAreStored
  /\ ChainIsStored
  /\ BatchesAreWhole
-----------------------------------------------------------------------------
LEMMA OverFacts ==
  ASSUME NEW f, NEW g
  PROVE  /\ DOMAIN Over(f, g) = DOMAIN f \cup DOMAIN g
         /\ \A id \in DOMAIN f \ DOMAIN g : Over(f, g)[id] = f[id]
BY DEF Over

LEMMA NothingFacts ==
  /\ DOMAIN Nothing.raw = {} /\ DOMAIN Nothing.canonical = {} /\ DOMAIN Nothing.runs = {}
  /\ Nothing = [raw |-> Nothing.raw, canonical |-> Nothing.canonical, runs |-> Nothing.runs]
BY DEF Nothing

(* The kind of a call, and which of its points are in a transaction. *)
LEMMA CallFacts ==
  ASSUME NEW o
  PROVE  /\ o = Idle => o.kind = "idle" /\ ~ InTransaction(o)
         /\ IsCapture(o) => /\ o.kind = "capture" /\ o.id \in RawIds
                            /\ o.step \in {"commit", "read"} /\ o = CaptureCall(o.id, o.step)
                            /\ InTransaction(o) <=> o.step = "commit"
         /\ IsSave(o) => /\ o.kind = "save" /\ o.batch \in Batches
                         /\ o.next \in 1 .. Len(o.batch) + 1 /\ o = SaveCall(o.batch, o.next)
                         /\ InTransaction(o) <=> o.next > 1
         /\ IsReconcile(o) => /\ o.kind = "reconcile" /\ o.step \in {"insert", "commit", "read"}
                              /\ o = ReconcileCall(o.run, o.step)
                              /\ \E sides \in Inputs, v \in Versions : o.run = RunOf(sides, v)
                              /\ InTransaction(o) <=> o.step = "commit"
<1>1. o = Idle => o.kind = "idle" /\ ~ InTransaction(o)
  BY DEF Idle, InTransaction
<1>2. ASSUME IsCapture(o)
      PROVE  /\ o.kind = "capture" /\ o.id \in RawIds
             /\ o.step \in {"commit", "read"} /\ o = CaptureCall(o.id, o.step)
             /\ InTransaction(o) <=> o.step = "commit"
  BY <1>2 DEF IsCapture, CaptureCall, InTransaction
<1>3. ASSUME IsSave(o)
      PROVE  /\ o.kind = "save" /\ o.batch \in Batches
             /\ o.next \in 1 .. Len(o.batch) + 1 /\ o = SaveCall(o.batch, o.next)
             /\ InTransaction(o) <=> o.next > 1
  BY <1>3 DEF IsSave, SaveCall, InTransaction
<1>4. ASSUME IsReconcile(o)
      PROVE  /\ o.kind = "reconcile" /\ o.step \in {"insert", "commit", "read"}
             /\ o = ReconcileCall(o.run, o.step)
             /\ \E sides \in Inputs, v \in Versions : o.run = RunOf(sides, v)
             /\ InTransaction(o) <=> o.step = "commit"
  BY <1>4 DEF IsReconcile, ReconcileCall, InTransaction
<1> QED
  BY <1>1, <1>2, <1>3, <1>4

IsCall(o) == o = Idle \/ IsCapture(o) \/ IsSave(o) \/ IsReconcile(o)

-----------------------------------------------------------------------------
(* The steps, one lemma for each kind *)

(* Damage, reads and stuttering: the identifiers stored stay the same. *)
LEMMA SameIdentifiers ==
  ASSUME StoreInv, UNCHANGED <<writer, staged, op>>,
         DOMAIN raw_events' = DOMAIN raw_events,
         DOMAIN canonical_records' = DOMAIN canonical_records,
         DOMAIN runs' = DOMAIN runs
  PROVE  StoreInv'
<1>1. CallsAreWellFormed' /\ LockIsHeld' /\ StagedIsNew' /\ InputsAreStored'
  BY DEF StoreInv, CallsAreWellFormed, LockIsHeld, StagedIsNew, InputsAreStored
<1>2. StagedIsChecked'
  BY DEF StoreInv, StagedIsChecked
<1>3. ChainIsStored' /\ BatchesAreWhole'
  BY DEF StoreInv, ChainIsStored, BatchesAreWhole
<1> QED
  BY <1>1, <1>2, <1>3 DEF StoreInv

(* A client goes from one point outside a transaction to another. *)
LEMMA OutsideTransaction ==
  ASSUME StoreInv, NEW c \in Clients, NEW o,
         UNCHANGED <<raw_events, canonical_records, runs, writer, staged>>,
         op' = [op EXCEPT ![c] = o], IsCall(o),
         ~ InTransaction(op[c]), ~ InTransaction(o),
         o.kind = "reconcile" => RunInputs(o.run) \subseteq DOMAIN canonical_records
  PROVE  StoreInv'
<1>1. /\ DOMAIN op' = Clients /\ op'[c] = o
      /\ \A d \in Clients : d # c => op'[d] = op[d]
  BY DEF StoreInv, CallsAreWellFormed
<1>2. CallsAreWellFormed'
  BY <1>1 DEF StoreInv, CallsAreWellFormed, IsCall
<1>3. writer # c
  BY DEF StoreInv, LockIsHeld
<1>4. LockIsHeld'
  BY <1>1, <1>3 DEF StoreInv, LockIsHeld
<1>5. StagedIsChecked'
  BY <1>1, <1>3 DEF StoreInv, StagedIsChecked
<1>6. StagedIsNew' /\ InputsAreStored'
  BY <1>1 DEF StoreInv, StagedIsNew, InputsAreStored
<1>7. ChainIsStored' /\ BatchesAreWhole'
  BY DEF StoreInv, ChainIsStored, BatchesAreWhole
<1> QED
  BY <1>2, <1>4, <1>5, <1>6, <1>7 DEF StoreInv

(* An exception or the end of the process: what was staged is gone. *)
LEMMA FailStep ==
  ASSUME StoreInv, NEW c \in Clients, Fail(c)
  PROVE  StoreInv'
<1>1. /\ DOMAIN op' = Clients /\ op'[c] = Idle
      /\ \A d \in Clients : d # c => op'[d] = op[d]
  BY DEF StoreInv, CallsAreWellFormed, Fail
<1>2. UNCHANGED <<raw_events, canonical_records, runs>>
  BY DEF Fail
<1>3. CASE writer # c
  <2>1. UNCHANGED <<writer, staged>> /\ ~ InTransaction(op[c])
    BY <1>3 DEF Fail, StoreInv, LockIsHeld
  <2>2. op' = [op EXCEPT ![c] = Idle]
    BY DEF Fail
  <2> QED
    BY <1>2, <2>1, <2>2, CallFacts, OutsideTransaction DEF IsCall, Idle
<1>4. CASE writer = c
  <2>1. writer' = NoOne /\ staged' = Nothing
    BY <1>4 DEF Fail
  <2>2. CallsAreWellFormed'
    BY <1>1 DEF StoreInv, CallsAreWellFormed
  <2>3. LockIsHeld'
    BY <1>1, <1>4, <2>1, CallFacts, ProvenanceAssumption DEF StoreInv, LockIsHeld
  <2>4. StagedIsChecked' /\ StagedIsNew'
    BY <2>1, NothingFacts, ProvenanceAssumption DEF StagedIsChecked, StagedIsNew
  <2>5. InputsAreStored'
    BY <1>1, <1>2, CallFacts DEF StoreInv, InputsAreStored
  <2>6. ChainIsStored' /\ BatchesAreWhole'
    BY <1>2 DEF StoreInv, ChainIsStored, BatchesAreWhole
  <2> QED
    BY <2>2, <2>3, <2>4, <2>5, <2>6 DEF StoreInv
<1> QED
  BY <1>3, <1>4

(* capture's insert *)
LEMMA CaptureStep ==
  ASSUME StoreInv, NEW c \in Clients, NEW s \in Sources, NEW p \in Payloads, Capture(c, s, p)
  PROVE  StoreInv'
<1> DEFINE id == RawId(s, p)
           row == [source |-> s, received_at |-> now, sha256 |-> sha256(p), payload |-> p]
           rows == Insert(RawSeen(c), staged.raw, id, row)
<1>1. op[c] = Idle /\ ~ InTransaction(op[c])
  BY CallFacts DEF Capture
<1>2. writer = NoOne /\ writer # c /\ staged = Nothing
  BY <1>1, ProvenanceAssumption DEF Capture, MayWrite, StoreInv, LockIsHeld, StagedIsChecked
<1>3. RawSeen(c) = raw_events
  BY <1>2 DEF RawSeen, Sees
<1>4. /\ DOMAIN op' = Clients /\ op'[c] = CaptureCall(id, "commit")
      /\ \A d \in Clients : d # c => op'[d] = op[d]
  BY DEF StoreInv, CallsAreWellFormed, Capture, CaptureCall
<1>5. writer' = c /\ UNCHANGED <<raw_events, canonical_records, runs>>
  BY DEF Capture
<1>6. staged' = [raw |-> rows, canonical |-> staged.canonical, runs |-> staged.runs]
  <2>1. staged' = [staged EXCEPT !.raw = rows]
    BY DEF Capture
  <2> QED
    BY <2>1 DEF StoreInv, StagedIsChecked
<1>7. /\ DOMAIN staged'.canonical = {} /\ DOMAIN staged'.runs = {}
      /\ DOMAIN staged'.raw \cap DOMAIN raw_events = {}
  <2>1. DOMAIN rows = {} \/ (id \notin DOMAIN raw_events /\ DOMAIN rows = {id})
    <3>1. /\ id \in DOMAIN RawSeen(c) => rows = staged.raw
          /\ id \notin DOMAIN RawSeen(c) => DOMAIN rows = DOMAIN staged.raw \cup {id}
      <4> HIDE DEF id, row
      <4> QED
        BY DEF Insert, Over
    <3>2. DOMAIN staged.raw = {}
      BY <1>2, NothingFacts
    <3> HIDE DEF rows
    <3> QED
      BY <1>3, <3>1, <3>2
  <2> HIDE DEF rows
  <2> QED
    BY <1>2, <1>6, <2>1, NothingFacts
<1>8. IsCapture(op'[c]) /\ InTransaction(op'[c])
  <2>1. id \in RawIds
    BY DEF RawIds
  <2> HIDE DEF id
  <2> QED
    BY <1>4, <2>1 DEF IsCapture, CaptureCall, InTransaction
<1> HIDE DEF id, row, rows
<1>9. CallsAreWellFormed'
  BY <1>4, <1>8 DEF StoreInv, CallsAreWellFormed
<1>10. LockIsHeld'
  BY <1>2, <1>4, <1>5, <1>8, ProvenanceAssumption DEF StoreInv, LockIsHeld
<1>11. StagedIsChecked'
  <2>1. op'[c].kind = "capture" /\ writer' # NoOne
    BY <1>5, <1>8, CallFacts, ProvenanceAssumption
  <2> QED
    BY <1>5, <1>6, <1>7, <2>1 DEF StagedIsChecked
<1>12. StagedIsNew'
  BY <1>5, <1>7 DEF StagedIsNew
<1>13. InputsAreStored'
  BY <1>4, <1>5, <1>8, CallFacts DEF StoreInv, InputsAreStored
<1>14. ChainIsStored' /\ BatchesAreWhole'
  BY <1>5 DEF StoreInv, ChainIsStored, BatchesAreWhole
<1> QED
  BY <1>9, <1>10, <1>11, <1>12, <1>13, <1>14 DEF StoreInv

(* reconcile's insert *)
LEMMA InsertRunStep ==
  ASSUME StoreInv, NEW c \in Clients, InsertRun(c), MayWrite(c)
  PROVE  StoreInv'
<1> DEFINE run == op[c].run
           rows == Insert(RunsSeen(c), staged.runs, run, run)
<1>1. IsReconcile(op[c]) /\ op[c].step = "insert" /\ ~ InTransaction(op[c])
  BY CallFacts DEF InsertRun, StoreInv, CallsAreWellFormed
<1>2. writer = NoOne /\ writer # c /\ staged = Nothing
  BY <1>1, ProvenanceAssumption DEF MayWrite, StoreInv, LockIsHeld, StagedIsChecked
<1>3. RunsSeen(c) = runs
  BY <1>2 DEF RunsSeen, Sees
<1>4. /\ DOMAIN op' = Clients /\ op'[c] = ReconcileCall(run, "commit")
      /\ \A d \in Clients : d # c => op'[d] = op[d]
  <2>1. op' = [op EXCEPT ![c].step = "commit"]
    BY DEF InsertRun
  <2>2. op[c] = ReconcileCall(run, "insert")
    BY <1>1, CallFacts
  <2> QED
    BY <2>1, <2>2 DEF StoreInv, CallsAreWellFormed, ReconcileCall
<1>5. writer' = c /\ UNCHANGED <<raw_events, canonical_records, runs>>
  BY DEF InsertRun
<1>6. staged' = [raw |-> staged.raw, canonical |-> staged.canonical, runs |-> rows]
  <2>1. staged' = [staged EXCEPT !.runs = rows]
    BY DEF InsertRun
  <2> QED
    BY <2>1 DEF StoreInv, StagedIsChecked
<1>7. /\ DOMAIN staged'.raw = {} /\ DOMAIN staged'.canonical = {}
      /\ DOMAIN staged'.runs \cap DOMAIN runs = {}
      /\ DOMAIN staged'.runs \subseteq {run}
  <2>1. DOMAIN rows = {} \/ (run \notin DOMAIN runs /\ DOMAIN rows = {run})
    <3>1. /\ run \in DOMAIN RunsSeen(c) => rows = staged.runs
          /\ run \notin DOMAIN RunsSeen(c) => DOMAIN rows = DOMAIN staged.runs \cup {run}
      <4> HIDE DEF run
      <4> QED
        BY DEF Insert, Over
    <3>2. DOMAIN staged.runs = {}
      BY <1>2, NothingFacts
    <3> HIDE DEF rows
    <3> QED
      BY <1>3, <3>1, <3>2
  <2> HIDE DEF rows
  <2> QED
    BY <1>2, <1>6, <2>1, NothingFacts
<1> HIDE DEF rows
<1>8. IsReconcile(op'[c]) /\ InTransaction(op'[c]) /\ op'[c].run = run
  <2>1. \E sides \in Inputs, v \in Versions : run = RunOf(sides, v)
    BY <1>1, CallFacts
  <2> HIDE DEF run
  <2> QED
    BY <1>4, <2>1 DEF IsReconcile, ReconcileCall, InTransaction
<1>9. CallsAreWellFormed'
  BY <1>4, <1>8 DEF StoreInv, CallsAreWellFormed
<1>10. LockIsHeld'
  BY <1>2, <1>4, <1>5, <1>8, ProvenanceAssumption DEF StoreInv, LockIsHeld
<1>11. StagedIsChecked'
  <2>1. op'[c].kind = "reconcile" /\ writer' # NoOne
    BY <1>5, <1>8, CallFacts, ProvenanceAssumption
  <2> QED
    BY <1>5, <1>6, <1>7, <1>8, <2>1 DEF StagedIsChecked
<1>12. StagedIsNew'
  BY <1>5, <1>7 DEF StagedIsNew
<1>13. InputsAreStored'
  BY <1>1, <1>4, <1>5, <1>8, CallFacts DEF StoreInv, InputsAreStored
<1>14. ChainIsStored' /\ BatchesAreWhole'
  BY <1>5 DEF StoreInv, ChainIsStored, BatchesAreWhole
<1> QED
  BY <1>9, <1>10, <1>11, <1>12, <1>13, <1>14 DEF StoreInv

(* One iteration of save_records that passes its checks. *)
Saves(c) ==
  LET canonical == op[c].batch[op[c].next]
      id == canonical.id
      row == [raw_id |-> canonical.raw_event_id, data |-> canonical]
      rows == Insert(CanonicalSeen(c), staged.canonical, id, row)
  IN  /\ op[c].kind = "save" /\ op[c].step = "insert"
      /\ RawReads(c, canonical.raw_event_id)
      /\ IsValid(canonical)
      /\ MayWrite(c)
      /\ writer' = c
      /\ staged' = [staged EXCEPT !.canonical = rows]
      /\ op' = [op EXCEPT ![c] = [kind |-> "save", batch |-> op[c].batch, next |-> op[c].next + 1,
                                   step |-> AfterRecord(op[c].batch, op[c].next)]]
      /\ UNCHANGED <<raw_events, canonical_records, runs, now, rotten, answer>>

LEMMA SavesOrFails ==
  ASSUME NEW c \in Clients, SaveRecord(c)
  PROVE  Saves(c) \/ Fail(c)
BY DEF SaveRecord, Saves

LEMMA SaveRecordStep ==
  ASSUME StoreInv, NEW c \in Clients, Saves(c)
  PROVE  StoreInv'
<1> DEFINE batch == op[c].batch
           next == op[c].next
           canonical == batch[next]
           id == canonical.id
           row == [raw_id |-> canonical.raw_event_id, data |-> canonical]
           rows == Insert(CanonicalSeen(c), staged.canonical, id, row)
<1>0. /\ RawReads(c, canonical.raw_event_id) /\ IsValid(canonical) /\ MayWrite(c)
      /\ writer' = c /\ UNCHANGED <<raw_events, canonical_records, runs>>
  BY DEF Saves
<1>1. IsSave(op[c]) /\ op[c].step = "insert"
  BY CallFacts DEF Saves, StoreInv, CallsAreWellFormed
<1>2. /\ batch \in Batches /\ next \in 1 .. Len(batch) /\ op[c] = SaveCall(batch, next)
      /\ InTransaction(op[c]) <=> next > 1
      /\ Len(batch) \in Nat /\ op[c].kind = "save"
      /\ \A i \in 1 .. Len(batch) : batch[i] \in [id : CanonicalIds, raw_event_id : RawIds, content : Contents]
  <2>1. /\ batch \in Batches /\ next \in 1 .. Len(batch) + 1 /\ op[c] = SaveCall(batch, next)
        /\ InTransaction(op[c]) <=> next > 1
        /\ op[c].kind = "save"
    BY <1>1, CallFacts
  <2>2. /\ Len(batch) \in Nat
        /\ \A i \in 1 .. Len(batch) : batch[i] \in [id : CanonicalIds, raw_event_id : RawIds, content : Contents]
    <3> DEFINE T == [id : CanonicalIds, raw_event_id : RawIds, content : Contents]
    <3> HIDE DEF batch
    <3>1. batch \in Seq(T)
      BY <2>1, BatchesAssumption, Zenon
    <3> HIDE DEF T
    <3>2. Len(batch) \in Nat /\ \A i \in 1 .. Len(batch) : batch[i] \in T
      BY <3>1
    <3> QED
      BY <3>2 DEF T
  <2>3. ~ (next > Len(batch))
    BY <1>1, <2>1 DEF SaveCall
  <2> HIDE DEF batch, next
  <2> QED
    BY <2>1, <2>2, <2>3
<1>3. DOMAIN staged.raw = {} /\ DOMAIN staged.runs = {}
  BY <1>0, <1>2, NothingFacts, ProvenanceAssumption DEF MayWrite, StoreInv, StagedIsChecked
<1>4. /\ DOMAIN RawSeen(c) = DOMAIN raw_events
      /\ DOMAIN CanonicalSeen(c) = DOMAIN canonical_records \cup DOMAIN staged.canonical
  <2>1. CASE writer = c
    BY <1>3, <2>1 DEF Over, RawSeen, CanonicalSeen, Sees
  <2>2. CASE writer # c
    <3>1. DOMAIN staged.canonical = {}
      BY <1>0, <2>2, NothingFacts DEF MayWrite, StoreInv, StagedIsChecked
    <3> QED
      BY <2>2, <3>1 DEF RawSeen, CanonicalSeen, Sees
  <2> QED
    BY <2>1, <2>2
<1>5. id[1] \in DOMAIN raw_events
  <2>1. canonical.raw_event_id \in DOMAIN raw_events
    BY <1>0, <1>4 DEF RawReads
  <2>2. id = <<canonical.raw_event_id, canonical.content>>
    BY <1>0 DEF IsValid, create, CanonicalId
  <2> QED
    BY <2>1, <2>2
<1>6. /\ DOMAIN op' = Clients /\ op'[c] = SaveCall(batch, next + 1)
      /\ \A d \in Clients : d # c => op'[d] = op[d]
  <2>1. AfterRecord(batch, next) = IF next + 1 > Len(batch) THEN "commit" ELSE "insert"
    BY <1>2 DEF AfterRecord
  <2>2. op' = [op EXCEPT ![c] = [kind |-> "save", batch |-> batch, next |-> next + 1,
                                 step |-> AfterRecord(batch, next)]]
    BY DEF Saves
  <2> HIDE DEF batch, next
  <2> QED
    BY <2>1, <2>2 DEF StoreInv, CallsAreWellFormed, SaveCall
<1>7. staged' = [raw |-> staged.raw, canonical |-> rows, runs |-> staged.runs]
  <2>1. staged' = [staged EXCEPT !.canonical = rows]
    BY DEF Saves
  <2> HIDE DEF rows
  <2> QED
    BY <2>1 DEF StoreInv, StagedIsChecked
<1>8. /\ DOMAIN rows \cap DOMAIN canonical_records = {}
      /\ DOMAIN rows \subseteq DOMAIN staged.canonical \cup {id}
      /\ DOMAIN canonical_records \cup DOMAIN rows
           = DOMAIN canonical_records \cup DOMAIN staged.canonical \cup {id}
  <2>1. /\ id \in DOMAIN CanonicalSeen(c) => rows = staged.canonical
        /\ id \notin DOMAIN CanonicalSeen(c) => DOMAIN rows = DOMAIN staged.canonical \cup {id}
    <3> HIDE DEF id, row
    <3> QED
      BY DEF Insert, Over
  <2>2. DOMAIN staged.canonical \cap DOMAIN canonical_records = {}
    BY DEF StoreInv, StagedIsNew
  <2> HIDE DEF id, rows
  <2> QED
    BY <1>4, <2>1, <2>2
<1>9. IsSave(op'[c]) /\ InTransaction(op'[c]) /\ op'[c].kind = "save"
  <2>1. next + 1 \in 1 .. Len(batch) + 1
    BY <1>2
  <2>2. IsSave(op'[c])
    BY <1>2, <1>6, <2>1 DEF IsSave
  <2>3. op'[c].next > 1
    BY <1>2, <1>6 DEF SaveCall
  <2> QED
    BY <2>2, <2>3, CallFacts
<1>10. SavedSoFar(op'[c]) = SavedSoFar(op[c]) \cup {id}
  <2>1. op'[c].batch = batch /\ op'[c].next - 1 = next
    BY <1>2, <1>6 DEF SaveCall
  <2>2. 1 .. next = (1 .. next - 1) \cup {next}
    BY <1>2
  <2> QED
    BY <2>1, <2>2 DEF SavedSoFar
<1>11. /\ DOMAIN staged.canonical \subseteq SavedSoFar(op[c])
       /\ SavedSoFar(op[c]) \subseteq DOMAIN canonical_records \cup DOMAIN staged.canonical
       /\ \A key \in DOMAIN staged.canonical : key[1] \in DOMAIN raw_events
  <2>1. CASE writer = c
    BY <1>2, <2>1 DEF StoreInv, StagedIsChecked
  <2>2. CASE writer # c
    <3>1. DOMAIN staged.canonical = {}
      BY <1>0, <2>2, NothingFacts DEF MayWrite, StoreInv, StagedIsChecked
    <3>2. next = 1
      BY <1>2, <2>2 DEF StoreInv, LockIsHeld
    <3>3. SavedSoFar(op[c]) = {}
      BY <3>2 DEF SavedSoFar
    <3> QED
      BY <3>1, <3>3
  <2> QED
    BY <2>1, <2>2
<1> HIDE DEF batch, next, canonical, id, row, rows
<1>12. CallsAreWellFormed'
  BY <1>6, <1>9 DEF StoreInv, CallsAreWellFormed
<1>13. LockIsHeld'
  BY <1>0, <1>6, <1>9, ProvenanceAssumption DEF StoreInv, LockIsHeld, MayWrite
<1>14. StagedIsChecked'
  <2>1. writer' # NoOne
    BY <1>0, ProvenanceAssumption
  <2>2. /\ DOMAIN staged'.raw = {} /\ DOMAIN staged'.runs = {} /\ staged'.canonical = rows
        /\ staged' = [raw |-> staged'.raw, canonical |-> staged'.canonical, runs |-> staged'.runs]
    BY <1>3, <1>7
  <2>3. /\ DOMAIN rows \subseteq SavedSoFar(op'[c])
        /\ SavedSoFar(op'[c]) \subseteq DOMAIN canonical_records \cup DOMAIN rows
        /\ \A key \in DOMAIN rows : key[1] \in DOMAIN raw_events
    BY <1>5, <1>8, <1>10, <1>11
  <2> QED
    BY <1>0, <1>9, <2>1, <2>2, <2>3 DEF StagedIsChecked, SavedSoFar
<1>15. StagedIsNew'
  BY <1>0, <1>3, <1>7, <1>8 DEF StagedIsNew
<1>16. InputsAreStored'
  BY <1>0, <1>6, <1>9 DEF StoreInv, InputsAreStored
<1>17. ChainIsStored' /\ BatchesAreWhole'
  BY <1>0 DEF StoreInv, ChainIsStored, BatchesAreWhole
<1> QED
  BY <1>12, <1>13, <1>14, <1>15, <1>16, <1>17 DEF StoreInv

(* BatchesAreWhole, record by record. *)
WholeAt(stored) ==
  \A key \in stored : \E b \in Batches : key \in Elements(b) /\ Elements(b) \subseteq stored

LEMMA WholeFacts == BatchesAreWhole <=> WholeAt(DOMAIN canonical_records)
BY DEF BatchesAreWhole, WholeAt

(* The commit of a transaction. *)
LEMMA CommitStep ==
  ASSUME StoreInv, NEW c \in Clients, Commit(c)
  PROVE  StoreInv'
<1> DEFINE after == IF op[c].kind # "save" THEN [op[c] EXCEPT !.step = "read"]
                    ELSE IF op[c].next > Len(op[c].batch) THEN Idle ELSE [op[c] EXCEPT !.step = "insert"]
<1>1. /\ writer = c /\ op[c].step = "commit"
      /\ writer' = NoOne /\ staged' = Nothing
      /\ InTransaction(op[c])
  BY DEF Commit, StoreInv, LockIsHeld
<1>2. IsCapture(op[c]) \/ IsSave(op[c]) \/ IsReconcile(op[c])
  BY <1>1, CallFacts DEF StoreInv, CallsAreWellFormed
<1>3. /\ DOMAIN raw_events' = DOMAIN raw_events \cup DOMAIN staged.raw
      /\ DOMAIN canonical_records' = DOMAIN canonical_records \cup DOMAIN staged.canonical
      /\ DOMAIN runs' = DOMAIN runs \cup DOMAIN staged.runs
  BY DEF Commit, Over
<1>4. /\ DOMAIN op' = Clients /\ op'[c] = after
      /\ \A d \in Clients : d # c => op'[d] = op[d]
  <2>1. op' = [op EXCEPT ![c] = after]
    BY DEF Commit
  <2> HIDE DEF after
  <2> QED
    BY <2>1 DEF StoreInv, CallsAreWellFormed
<1>5. /\ IsCapture(op[c]) => after = CaptureCall(op[c].id, "read") /\ op[c].id \in RawIds
      /\ IsReconcile(op[c]) => after = ReconcileCall(op[c].run, "read")
      /\ IsSave(op[c]) => after = Idle /\ op[c].next = Len(op[c].batch) + 1 /\ op[c].batch \in Batches
  <2>1. ASSUME IsCapture(op[c]) PROVE after = CaptureCall(op[c].id, "read") /\ op[c].id \in RawIds
    <3>1. op[c].kind = "capture" /\ op[c].id \in RawIds /\ op[c] = CaptureCall(op[c].id, "commit")
      BY <1>1, <2>1, CallFacts
    <3>2. after = [op[c] EXCEPT !.step = "read"]
      BY <3>1
    <3> QED
      BY <3>1, <3>2 DEF CaptureCall
  <2>2. ASSUME IsReconcile(op[c]) PROVE after = ReconcileCall(op[c].run, "read")
    <3>1. op[c].kind = "reconcile" /\ op[c] = ReconcileCall(op[c].run, "commit")
      BY <1>1, <2>2, CallFacts
    <3>2. after = [op[c] EXCEPT !.step = "read"]
      BY <3>1
    <3> QED
      BY <3>1, <3>2 DEF ReconcileCall
  <2>3. ASSUME IsSave(op[c])
        PROVE  after = Idle /\ op[c].next = Len(op[c].batch) + 1 /\ op[c].batch \in Batches
    <3> DEFINE batch == op[c].batch
               next == op[c].next
    <3>1. /\ batch \in Batches /\ next \in 1 .. Len(batch) + 1
          /\ op[c].kind = "save" /\ op[c] = SaveCall(batch, next)
      BY <2>3, CallFacts
    <3>2. Len(batch) \in Nat
      BY <3>1, BatchesAssumption
    <3>3. next > Len(batch)
      BY <1>1, <3>1 DEF SaveCall
    <3>4. after = Idle
      BY <3>1, <3>3
    <3> HIDE DEF batch, next, after
    <3>5. next = Len(batch) + 1
      BY <3>1, <3>2, <3>3
    <3> QED
      BY <3>1, <3>4, <3>5 DEF batch, next
  <2> QED
    BY <2>1, <2>2, <2>3
<1> HIDE DEF after
<1>6. IsCall(op'[c]) /\ ~ InTransaction(op'[c])
  <2>1. CASE IsCapture(op[c])
    BY <1>4, <1>5, <2>1 DEF IsCall, IsCapture, CaptureCall, InTransaction
  <2>2. CASE IsSave(op[c])
    BY <1>4, <1>5, <2>2, CallFacts DEF IsCall
  <2>3. CASE IsReconcile(op[c])
    <3>1. \E sides \in Inputs, v \in Versions : op[c].run = RunOf(sides, v)
      BY <2>3, CallFacts
    <3>2. op'[c] = ReconcileCall(op[c].run, "read")
      BY <1>4, <1>5, <2>3
    <3> QED
      BY <3>1, <3>2 DEF IsCall, IsReconcile, ReconcileCall, InTransaction
  <2> QED
    BY <1>2, <2>1, <2>2, <2>3
<1>7. CallsAreWellFormed'
  BY <1>4, <1>6 DEF StoreInv, CallsAreWellFormed, IsCall
<1>8. LockIsHeld'
  BY <1>1, <1>4, <1>6, ProvenanceAssumption DEF StoreInv, LockIsHeld
<1>9. StagedIsChecked' /\ StagedIsNew'
  BY <1>1, NothingFacts, ProvenanceAssumption DEF StagedIsChecked, StagedIsNew
<1>10. InputsAreStored'
  <2>1. ASSUME NEW d \in Clients, op'[d].kind = "reconcile"
        PROVE  op[d].kind = "reconcile" /\ op'[d].run = op[d].run
    <3>1. CASE d # c
      BY <1>4, <2>1, <3>1
    <3>2. CASE d = c
      <4>1. IsReconcile(op[c])
        BY <1>2, <1>4, <1>5, <2>1, <3>2, CallFacts DEF CaptureCall
      <4> QED
        BY <1>4, <1>5, <3>2, <4>1, CallFacts DEF ReconcileCall
    <3> QED
      BY <3>1, <3>2
  <2> QED
    BY <1>3, <2>1 DEF StoreInv, InputsAreStored
<1>11. ChainIsStored'
  <2>1. ASSUME NEW id \in DOMAIN runs'
        PROVE  id.left_ids \cup id.right_ids \subseteq DOMAIN canonical_records'
    <3>1. CASE id \in DOMAIN runs
      BY <1>3, <3>1 DEF StoreInv, ChainIsStored
    <3>2. CASE id \in DOMAIN staged.runs
      <4>1. op[c].kind = "reconcile" /\ id = op[c].run
        BY <1>1, <1>2, <3>2, CallFacts DEF StoreInv, StagedIsChecked
      <4> QED
        BY <1>3, <4>1 DEF StoreInv, InputsAreStored, RunInputs
    <3> QED
      BY <1>3, <3>1, <3>2
  <2>2. ASSUME NEW key \in DOMAIN canonical_records'
        PROVE  key[1] \in DOMAIN raw_events'
    <3>1. CASE key \in DOMAIN canonical_records
      BY <1>3, <3>1 DEF StoreInv, ChainIsStored
    <3>2. CASE key \in DOMAIN staged.canonical
      <4>1. op[c].kind = "save"
        BY <1>1, <1>2, <3>2, CallFacts DEF StoreInv, StagedIsChecked
      <4> QED
        BY <1>1, <1>3, <3>2, <4>1 DEF StoreInv, StagedIsChecked
    <3> QED
      BY <1>3, <3>1, <3>2
  <2> QED
    BY <2>1, <2>2 DEF ChainIsStored
<1>12. WholeAt(DOMAIN canonical_records')
  <2>1. WholeAt(DOMAIN canonical_records)
    BY WholeFacts DEF StoreInv
  <2>2. CASE DOMAIN staged.canonical = {}
    BY <1>3, <2>1, <2>2
  <2>3. CASE DOMAIN staged.canonical # {}
    <3>1. IsSave(op[c]) /\ op[c].kind = "save"
      BY <1>1, <1>2, <2>3, CallFacts DEF StoreInv, StagedIsChecked
    <3> DEFINE batch == op[c].batch
    <3>2. batch \in Batches /\ op[c].next = Len(batch) + 1
      BY <1>5, <3>1
    <3>3. Len(batch) \in Nat /\ DOMAIN batch = 1 .. Len(batch)
      BY <3>2, BatchesAssumption
    <3>4. SavedSoFar(op[c]) = Elements(batch)
      BY <3>2, <3>3 DEF SavedSoFar, Elements
    <3>5. /\ DOMAIN staged.canonical \subseteq Elements(batch)
          /\ Elements(batch) \subseteq DOMAIN canonical_records'
      BY <1>1, <1>3, <3>1, <3>4 DEF StoreInv, StagedIsChecked
    <3> HIDE DEF batch
    <3> QED
      BY <1>3, <2>1, <3>2, <3>5 DEF WholeAt
  <2> QED
    BY <2>2, <2>3
<1>13. BatchesAreWhole'
  BY <1>12 DEF BatchesAreWhole, WholeAt
<1> QED
  BY <1>7, <1>8, <1>9, <1>10, <1>11, <1>13 DEF StoreInv

(* Damage changes rows, never which identifiers are stored. *)
LEMMA RotKeepsIdentifiers ==
  ASSUME Rot
  PROVE  /\ UNCHANGED <<writer, staged, op, answer>>
         /\ DOMAIN raw_events' = DOMAIN raw_events
         /\ DOMAIN canonical_records' = DOMAIN canonical_records
         /\ DOMAIN runs' = DOMAIN runs
BY DEF Rot

LEMMA ClientStep ==
  ASSUME StoreInv, NEW c \in Clients, Step(c)
  PROVE  StoreInv'
<1>1. ASSUME NEW s \in Sources, NEW p \in Payloads, Capture(c, s, p)
      PROVE  StoreInv'
  BY <1>1, CaptureStep
<1>2. CASE CaptureReturn(c)
  <2>1. CASE Fail(c)
    BY <2>1, FailStep
  <2>2. CASE ~ Fail(c)
    <3>1. /\ op' = [op EXCEPT ![c] = Idle]
          /\ UNCHANGED <<raw_events, canonical_records, runs, writer, staged>>
          /\ op[c].kind = "capture" /\ op[c].step = "read"
      BY <1>2, <2>2 DEF CaptureReturn
    <3>2. ~ InTransaction(op[c])
      BY <3>1 DEF InTransaction
    <3> QED
      BY <3>1, <3>2, CallFacts, OutsideTransaction DEF IsCall, Idle
  <2> QED
    BY <2>1, <2>2
<1>3. ASSUME NEW batch \in Batches, SaveRecords(c, batch)
      PROVE  StoreInv'
  <2>1. Len(batch) \in Nat /\ Len(batch) # 0
    BY BatchesAssumption
  <2> DEFINE o == [kind |-> "save", batch |-> batch, next |-> 1, step |-> "insert"]
  <2>2. o = SaveCall(batch, 1)
    BY <2>1 DEF SaveCall
  <2>3. IsSave(o) /\ ~ InTransaction(o) /\ o.kind = "save"
    BY <2>1, <2>2 DEF IsSave, SaveCall, InTransaction
  <2>4. /\ op' = [op EXCEPT ![c] = o] /\ op[c] = Idle
        /\ UNCHANGED <<raw_events, canonical_records, runs, writer, staged>>
    BY <1>3 DEF SaveRecords
  <2> HIDE DEF o
  <2> QED
    BY <2>3, <2>4, CallFacts, OutsideTransaction DEF IsCall
<1>4. CASE SaveRecord(c)
  BY <1>4, SavesOrFails, SaveRecordStep, FailStep
<1>5. ASSUME NEW sides \in Inputs, NEW v \in Versions, StartReconcile(c, sides[1], sides[2], v)
      PROVE  StoreInv'
  <2> DEFINE run == RunOf(sides, v)
             o == ReconcileCall(run, "insert")
  <2>1. /\ op' = [op EXCEPT ![c] = o] /\ op[c] = Idle
        /\ UNCHANGED <<raw_events, canonical_records, runs, writer, staged>>
    BY <1>5 DEF StartReconcile, RunOf, ReconcileCall
  <2>2. ~ InTransaction(op[c]) /\ writer # c
    BY <2>1, CallFacts DEF StoreInv, LockIsHeld
  <2>3. RunInputs(run) = sides[1] \cup sides[2]
    BY DEF RunOf, RunData, RunInputs
  <2>4. sides[1] \cup sides[2] \subseteq DOMAIN canonical_records
    BY <1>5, <2>2 DEF StartReconcile, InputsRead, CanonicalReads, CanonicalSeen, Sees
  <2>5. IsReconcile(o) /\ o.run = run /\ ~ InTransaction(o)
    <3> HIDE DEF run
    <3>1. run = RunOf(sides, v)
      BY DEF run
    <3> QED
      BY <3>1 DEF IsReconcile, ReconcileCall, InTransaction
  <2> HIDE DEF run, o
  <2> QED
    BY <2>1, <2>2, <2>3, <2>4, <2>5, OutsideTransaction DEF IsCall, run
<1>6. CASE InsertRun(c)
  <2>1. CASE MayWrite(c)
    BY <1>6, <2>1, InsertRunStep
  <2>2. CASE ~ MayWrite(c)
    BY <1>6, <2>2, FailStep DEF InsertRun
  <2> QED
    BY <2>1, <2>2
<1>7. CASE ReconcileReturn(c)
  <2>1. CASE Fail(c)
    BY <2>1, FailStep
  <2>2. CASE ~ Fail(c)
    <3>1. /\ op' = [op EXCEPT ![c] = Idle]
          /\ UNCHANGED <<raw_events, canonical_records, runs, writer, staged>>
          /\ op[c].kind = "reconcile" /\ op[c].step = "read"
      BY <1>7, <2>2 DEF ReconcileReturn
    <3>2. ~ InTransaction(op[c])
      BY <3>1 DEF InTransaction
    <3> QED
      BY <3>1, <3>2, CallFacts, OutsideTransaction DEF IsCall, Idle
  <2> QED
    BY <2>1, <2>2
<1>8. CASE Commit(c)
  BY <1>8, CommitStep
<1>9. ASSUME NEW id, NEW v, NEW b, Replay(c, id, v, b)
      PROVE  StoreInv'
  BY <1>9, SameIdentifiers DEF Replay
<1>10. ASSUME NEW id, NEW key, Evidence(c, id, key)
       PROVE  StoreInv'
  BY <1>10, SameIdentifiers DEF Evidence
<1>11. CASE Crash(c)
  BY <1>11, FailStep DEF Crash
<1> QED
  BY <1>1, <1>2, <1>3, <1>4, <1>5, <1>6, <1>7, <1>8, <1>9, <1>10, <1>11 DEF Step

LEMMA StoreInvHolds == Spec => []StoreInv
<1>1. Init => StoreInv
  <2> SUFFICES ASSUME Init PROVE StoreInv
    OBVIOUS
  <2>1. \A c \in Clients : op[c] = Idle
    BY DEF Init
  <2>2. CallsAreWellFormed /\ LockIsHeld
    BY <2>1, CallFacts, ProvenanceAssumption DEF Init, CallsAreWellFormed, LockIsHeld
  <2>3. StagedIsChecked /\ StagedIsNew
    BY NothingFacts, ProvenanceAssumption DEF Init, StagedIsChecked, StagedIsNew
  <2>4. InputsAreStored
    BY <2>1, CallFacts DEF InputsAreStored
  <2>5. ChainIsStored /\ BatchesAreWhole
    <3>1. DOMAIN canonical_records = {} /\ DOMAIN runs = {}
      BY DEF Init
    <3> QED
      BY <3>1, WholeFacts DEF ChainIsStored, WholeAt
  <2> QED
    BY <2>2, <2>3, <2>4, <2>5 DEF StoreInv
<1>2. StoreInv /\ [Next]_vars => StoreInv'
  <2> SUFFICES ASSUME StoreInv, [Next]_vars PROVE StoreInv'
    OBVIOUS
  <2>1. CASE Rot
    BY <2>1, RotKeepsIdentifiers, SameIdentifiers
  <2>2. ASSUME NEW c \in Clients, Step(c) PROVE StoreInv'
    BY <2>2, ClientStep
  <2>3. CASE UNCHANGED vars
    BY <2>3, SameIdentifiers DEF vars
  <2> QED
    BY <2>1, <2>2, <2>3 DEF Next
<1> QED
  BY <1>1, <1>2, PTL DEF Spec

-----------------------------------------------------------------------------
(* The results *)

(* Whatever the clients interleave, wherever one stops, and whatever rows  *)
(* rot, the records stored are those of whole calls of save_records.       *)
THEOREM SavedBatchesAreWhole == Spec => []BatchesAreWhole
<1>1. StoreInv => BatchesAreWhole
  BY DEF StoreInv
<1> QED
  BY <1>1, StoreInvHolds, PTL

(* A stored run always has its inputs stored, and they their raw events:   *)
(* reconcile reads committed records only, and nothing is ever removed.    *)
THEOREM StoredChainsAreComplete == Spec => []ChainIsStored
<1>1. StoreInv => ChainIsStored
  BY DEF StoreInv
<1> QED
  BY <1>1, StoreInvHolds, PTL

(* Only damage changes a committed row: no call of any client does, since  *)
(* a transaction never stages a row under an identifier already committed. *)
THEOREM CommittedRowsAreKept == Spec => RowsAreKept
<1> DEFINE Kept == /\ KeepsRows(raw_events, raw_events')
                   /\ KeepsRows(canonical_records, canonical_records')
                   /\ KeepsRows(runs, runs')
<1>1. StoreInv /\ [Next]_vars => [Kept \/ Rot]_vars
  <2> SUFFICES ASSUME StoreInv, NEW c \in Clients, Step(c) PROVE Kept
    BY DEF Next
  <2>1. CASE Commit(c)
    <3>1. /\ raw_events' = Over(raw_events, staged.raw)
          /\ canonical_records' = Over(canonical_records, staged.canonical)
          /\ runs' = Over(runs, staged.runs)
      BY <2>1 DEF Commit
    <3>2. /\ DOMAIN staged.raw \cap DOMAIN raw_events = {}
          /\ DOMAIN staged.canonical \cap DOMAIN canonical_records = {}
          /\ DOMAIN staged.runs \cap DOMAIN runs = {}
      BY DEF StoreInv, StagedIsNew
    <3> QED
      BY <3>1, <3>2 DEF KeepsRows, Over
  <2>2. CASE ~ Commit(c)
    <3>1. UNCHANGED <<raw_events, canonical_records, runs>>
      BY <2>2 DEF Step, Capture, CaptureReturn, SaveRecords, SaveRecord, StartReconcile, InsertRun,
                  ReconcileReturn, Replay, Evidence, Crash, Fail
    <3> QED
      BY <3>1 DEF KeepsRows
  <2> QED
    BY <2>1, <2>2
<1> QED
  BY <1>1, StoreInvHolds, PTL DEF Spec, RowsAreKept

-----------------------------------------------------------------------------
(* What a call may return *)
IsOriginal(a) ==
  \/ a.kind = "event" /\ RawId(a.row.source, a.row.payload) = a.id
  \/ a.kind = "result" /\ a.result = a.run.result
  \/ a.kind = "evidence" /\ a.content = a.key[2] /\ sha256(a.payload) = a.key[1][2]
  \/ a.kind = "none"

AnswersInv == DOMAIN answer = Clients /\ \A c \in Clients : IsOriginal(answer[c])

(* A row that raw_event returns has the identifier asked for, and one that *)
(* canonical_record returns is made of the identifier asked for.           *)
LEMMA ReadsAreChecked ==
  ASSUME NEW c, NEW id
  PROVE  /\ RawReads(c, id) => RawId(RawSeen(c)[id].source, RawSeen(c)[id].payload) = id
         /\ CanonicalReads(c, id) =>
              LET canonical == CanonicalSeen(c)[id].data
              IN  /\ id = <<canonical.raw_event_id, canonical.content>>
                  /\ RawReads(c, canonical.raw_event_id)
<1>1. RawReads(c, id) => RawId(RawSeen(c)[id].source, RawSeen(c)[id].payload) = id
  BY DEF RawReads, RawId
<1>2. ASSUME CanonicalReads(c, id)
      PROVE  LET canonical == CanonicalSeen(c)[id].data
             IN  /\ id = <<canonical.raw_event_id, canonical.content>>
                 /\ RawReads(c, canonical.raw_event_id)
  <2> DEFINE canonical == CanonicalSeen(c)[id].data
  <2>1. canonical.id = id /\ IsValid(canonical) /\ RawReads(c, canonical.raw_event_id)
    BY <1>2 DEF CanonicalReads
  <2>2. canonical.id = <<canonical.raw_event_id, canonical.content>>
    BY <2>1 DEF IsValid, create, CanonicalId
  <2> QED
    BY <2>1, <2>2
<1> QED
  BY <1>1, <1>2

(* A client's answer changes, to one that is original. *)
LEMMA AnswerStep ==
  ASSUME AnswersInv, NEW c \in Clients, NEW a, IsOriginal(a),
         answer' = [answer EXCEPT ![c] = a]
  PROVE  AnswersInv'
BY DEF AnswersInv

LEMMA ClientAnswers ==
  ASSUME AnswersInv, NEW c \in Clients, Step(c)
  PROVE  AnswersInv'
<1>1. CASE UNCHANGED answer
  BY <1>1 DEF AnswersInv
<1>2. CASE Fail(c)
  <2>1. IsOriginal(NoAnswer)
    BY DEF IsOriginal, NoAnswer
  <2> QED
    BY <1>2, <2>1, AnswerStep DEF Fail
<1>3. ASSUME CaptureReturn(c), ~ Fail(c) PROVE AnswersInv'
  <2> DEFINE id == op[c].id
             a == [kind |-> "event", id |-> id, row |-> RawSeen(c)[id]]
  <2>1. RawReads(c, id) /\ answer' = [answer EXCEPT ![c] = a]
    BY <1>3 DEF CaptureReturn
  <2>2. RawId(a.row.source, a.row.payload) = a.id
    BY <2>1, ReadsAreChecked
  <2>3. IsOriginal(a)
    BY <2>2 DEF IsOriginal
  <2> HIDE DEF a
  <2> QED
    BY <2>1, <2>3, AnswerStep
<1>4. ASSUME ReconcileReturn(c), ~ Fail(c) PROVE AnswersInv'
  <2> DEFINE a == [kind |-> "result", run |-> op[c].run, result |-> op[c].run.result]
  <2>1. answer' = [answer EXCEPT ![c] = a]
    BY <1>4 DEF ReconcileReturn
  <2>2. IsOriginal(a)
    BY DEF IsOriginal
  <2> HIDE DEF a
  <2> QED
    BY <2>1, <2>2, AnswerStep
<1>5. ASSUME NEW id, NEW v, NEW b, Replay(c, id, v, b) PROVE AnswersInv'
  <2> DEFINE data == RunsSeen(c)[id]
             result == Reconcile(b, data.left_ids, data.right_ids)
             a == [kind |-> "result", run |-> id, result |-> result]
  <2>1. answer' = [answer EXCEPT ![c] = a] /\ result = data.result /\ data = id
    BY <1>5 DEF Replay, RunReads
  <2> HIDE DEF data, result
  <2>2. IsOriginal(a)
    BY <2>1 DEF IsOriginal
  <2> HIDE DEF a
  <2> QED
    BY <2>1, <2>2, AnswerStep
<1>6. ASSUME NEW id, NEW key, Evidence(c, id, key) PROVE AnswersInv'
  <2> DEFINE canonical == CanonicalSeen(c)[key].data
             payload == RawSeen(c)[canonical.raw_event_id].payload
             a == [kind |-> "evidence", key |-> key, content |-> canonical.content, payload |-> payload]
  <2>1. answer' = [answer EXCEPT ![c] = a] /\ CanonicalReads(c, key)
    BY <1>6 DEF Evidence
  <2>2. key = <<canonical.raw_event_id, canonical.content>> /\ RawReads(c, canonical.raw_event_id)
    BY <2>1, ReadsAreChecked
  <2>3. canonical.raw_event_id[2] = sha256(payload)
    <3>1. RawId(RawSeen(c)[canonical.raw_event_id].source, payload) = canonical.raw_event_id
      BY <2>2, ReadsAreChecked
    <3> HIDE DEF canonical, payload
    <3> QED
      BY <3>1 DEF RawId
  <2> HIDE DEF canonical, payload
  <2>4. a.kind = "evidence" /\ a.content = a.key[2] /\ sha256(a.payload) = a.key[1][2]
    BY <2>2, <2>3
  <2>5. IsOriginal(a)
    BY <2>4 DEF IsOriginal
  <2> HIDE DEF a
  <2> QED
    BY <2>1, <2>5, AnswerStep
<1>7. \/ UNCHANGED answer \/ Fail(c) \/ CaptureReturn(c) \/ ReconcileReturn(c)
      \/ \E id, v, b : Replay(c, id, v, b)
      \/ \E id, key : Evidence(c, id, key)
  BY DEF Step, Capture, SaveRecords, SaveRecord, StartReconcile, InsertRun, Commit, Crash
<1> QED
  BY <1>1, <1>2, <1>3, <1>4, <1>5, <1>6, <1>7

(* What a call returns is what was saved under the identifier asked for,   *)
(* however many rows have rotted, by the checks made on reading.           *)
THEOREM ReturnedIsOriginal == Spec => []AnswersAreOriginal
<1>1. Init => AnswersInv
  BY DEF Init, AnswersInv, IsOriginal, NoAnswer
<1>2. AnswersInv /\ [Next]_vars => AnswersInv'
  <2> SUFFICES ASSUME AnswersInv, [Next]_vars PROVE AnswersInv'
    OBVIOUS
  <2>1. CASE UNCHANGED answer
    BY <2>1 DEF AnswersInv
  <2>2. ASSUME NEW c \in Clients, Step(c) PROVE AnswersInv'
    BY <2>2, ClientAnswers
  <2> QED
    BY <2>1, <2>2, RotKeepsIdentifiers DEF Next, vars
<1>3. AnswersInv => AnswersAreOriginal
  BY DEF AnswersInv, IsOriginal, AnswersAreOriginal
<1> QED
  BY <1>1, <1>2, <1>3, PTL DEF Spec
=============================================================================
