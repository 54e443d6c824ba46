--------------------------- MODULE TaskOutboxProofs ---------------------------
(***************************************************************************)
(* Proofs about TaskOutbox for every number of requests and replicas and   *)
(* every limit.  The invariants of TaskOutbox are not inductive: a row is  *)
(* written from a document read many steps before, so the strengthening    *)
(* below says what a replica's private state still tells about the rows.   *)
(***************************************************************************)
EXTENDS TaskOutbox, TLAPS

-----------------------------------------------------------------------------
(* The inductive invariant                                                 *)

\* The save of p's current event is in flight.
Saving(p) == pc[p] \in {"save", "catchSave"}

\* The events of p's cycle whose document is still as it was read.
Untouched(p) == IF Saving(p) THEN batch[p] \ {current[p]} ELSE batch[p]

RowsInv ==
    \A t \in Tasks :
        /\ t \in tasks <=> outbox[t].status # "NONE"
        /\ t \in tasks <=> tx[t] = "committed"
        /\ reply[t] = "ok" => t \in tasks
        /\ outbox[t].processed => outbox[t].status \in Settled
        /\ t \in purged => outbox[t].processed
        /\ outbox[t].status # "COMPLETED" \/ Copies(t) # {}
        /\ outbox[t].status = "PENDING" => outbox[t].attempts < MaxAttempts
        /\ tx[t] # "committed" => outbox[t].attempts = 0

ReplicaInv(p) ==
    /\ batch[p] \subseteq tasks
    /\ \A t \in Tasks : published[p][t] > 0 => t \in tasks
    /\ \A t \in Untouched(p) : /\ docs[p][t].status = "PENDING"
                               /\ docs[p][t].attempts < MaxAttempts

SavingInv(p) ==
    Saving(p) =>
        LET doc == docs[p][current[p]]
        IN  /\ current[p] \in batch[p]
            /\ doc.status # "NONE"
            /\ doc.status = "PENDING" => doc.attempts < MaxAttempts
            /\ doc.status = "COMPLETED" => published[p][current[p]] > 0
            /\ pc[p] = "save" => doc.status = "COMPLETED"

\* A replica that may still publish t has had a fault for each copy it sent.
CopiesInv(p) ==
    \A t \in Tasks :
        /\ published[p][t] <= 1 + faults[p]
        /\ (outbox[t].status \in {"NONE", "PENDING"} \/ t \in batch[p]) =>
               \/ published[p][t] <= faults[p]
               \/ pc[p] = "save" /\ current[p] = t

Inv ==
    /\ RowsInv
    /\ \A p \in Pollers : ReplicaInv(p) /\ SavingInv(p) /\ CopiesInv(p)

-----------------------------------------------------------------------------
(* Type correctness                                                        *)

LEMMA InitTypeOK == Init => TypeOK
  BY OutboxAssumption
  DEF Init, TypeOK, NoRow, NoDocs, Row, Doc, Statuses

\* What the assignments of the poller do to a document, by status and count.
LEMMA DocTypes ==
    ASSUME NEW doc \in Doc, NEW row \in Row
    PROVE  /\ Completed(doc) \in Doc
           /\ Caught(doc) \in Doc
           /\ Saved(row, doc) \in Row
           /\ ReadDoc(row) \in Doc
  <1>1. Completed(doc) \in Doc
    BY DEF Completed, Doc, Statuses
  <1>2. Caught(doc) \in Doc
    BY OutboxAssumption DEF Caught, Doc, Statuses
  <1>3. Saved(row, doc) \in Row
    <2>1. \A a \in Nat, s \in Statuses, b \in BOOLEAN :
              [row EXCEPT !.attempts = a, !.status = s, !.processed = b] \in Row
      BY DEF Row
    <2>2. doc.attempts \in Nat /\ doc.status \in Statuses
      BY DEF Doc
    <2>3. row.status \in Statuses /\ row.processed \in BOOLEAN
      BY DEF Row
    <2> QED
      BY <2>1, <2>2, <2>3 DEF Saved
  <1>4. ReadDoc(row) \in Doc
    BY DEF ReadDoc, Doc, Row, Statuses
  <1>5. QED
    BY <1>1, <1>2, <1>3, <1>4

LEMMA RowTypes ==
    ASSUME NEW row \in Row, NEW ts \in Timestamps
    PROVE  /\ StageEvent(row, ts) \in Row
           /\ [row EXCEPT !.status = "PENDING"] \in Row
  BY DEF StageEvent, Row, Statuses

LEMMA StoreDocType ==
    ASSUME TypeOK, NEW p \in Pollers, current[p] \in Tasks, StoreDoc(p)
    PROVE  outbox' \in [Tasks -> Row]
  <1>1. outbox[current[p]] \in Row /\ docs[p][current[p]] \in Doc
    BY DEF TypeOK
  <1>2. Saved(outbox[current[p]], docs[p][current[p]]) \in Row
    BY <1>1, DocTypes
  <1>3. QED
    BY <1>2 DEF TypeOK, StoreDoc

LEMMA HandleErrorType ==
    ASSUME TypeOK, NEW p \in Pollers, NEW t \in Tasks, HandleError(p, t)
    PROVE  /\ docs' \in [Pollers -> [Tasks -> Doc]]
           /\ current' \in [Pollers -> Tasks \cup {NoTask}]
           /\ pc' \in [Pollers -> {"idle", "emit", "save", "catchSave", "down"}]
  <1>1. Caught(docs[p][t]) \in Doc
    BY DocTypes DEF TypeOK
  <1>2. QED
    BY <1>1 DEF TypeOK, HandleError

\* A save writes the row of an event of the batch: TypeOK needs it.
CurrentInv == \A p \in Pollers : Saving(p) => current[p] \in batch[p]

LEMMA BlankDocsType == NoDocs \in [Tasks -> Doc]
  BY DEF NoDocs, Doc, Statuses

LEMMA TypingStep == TypeOK /\ CurrentInv /\ [Next]_vars => TypeOK' /\ CurrentInv'
  <1> SUFFICES ASSUME TypeOK, CurrentInv, [Next]_vars
               PROVE  TypeOK' /\ CurrentInv'
    OBVIOUS
  <1>1. ASSUME NEW t \in Tasks, InsertTask(t) PROVE TypeOK' /\ CurrentInv'
    BY <1>1 DEF InsertTask, TypeOK, CurrentInv, Saving, pollerVars
  <1>2. ASSUME NEW t \in Tasks, InsertEvent(t) PROVE TypeOK' /\ CurrentInv'
    <2>1. \A ts \in Timestamps : StageEvent(outbox[t], ts) \in Row
      BY RowTypes DEF TypeOK
    <2>2. QED
      BY <1>2, <2>1 DEF InsertEvent, TypeOK, CurrentInv, Saving, pollerVars
  <1>3. ASSUME NEW t \in Tasks, Commit(t) PROVE TypeOK' /\ CurrentInv'
    <2>1. [outbox[t] EXCEPT !.status = "PENDING"] \in Row
      BY RowTypes, OutboxAssumption DEF TypeOK
    <2>2. outbox' = [outbox EXCEPT ![t] = [outbox[t] EXCEPT !.status = "PENDING"]]
      BY <1>3 DEF Commit, TypeOK, Row
    <2>3. outbox' \in [Tasks -> Row]
      BY <2>1, <2>2 DEF TypeOK
    <2>4. QED
      BY <1>3, <2>3 DEF Commit, TypeOK, CurrentInv, Saving, pollerVars
  <1>4. ASSUME NEW t \in Tasks, Abort(t) PROVE TypeOK' /\ CurrentInv'
    BY <1>4 DEF Abort, TypeOK, CurrentInv, Saving, pollerVars
  <1>5. ASSUME NEW t \in Tasks, Purge(t) PROVE TypeOK' /\ CurrentInv'
    BY <1>5 DEF Purge, TypeOK, CurrentInv, Saving, txVars, pollerVars
  <1>6. ASSUME NEW p \in Pollers, Poll(p) PROVE TypeOK' /\ CurrentInv'
    <2>1. PICK B \in SUBSET Pending :
              /\ batch' = [batch EXCEPT ![p] = B]
              /\ docs' = [docs EXCEPT ![p] =
                     [t \in Tasks |-> IF t \in B THEN ReadDoc(outbox[t])
                                                 ELSE NoDocs[t]]]
      BY <1>6 DEF Poll
    <2>2. [t \in Tasks |-> IF t \in B THEN ReadDoc(outbox[t]) ELSE NoDocs[t]]
              \in [Tasks -> Doc]
      <3>1. \A t \in Tasks : ReadDoc(outbox[t]) \in Doc
        BY DEF ReadDoc, TypeOK, Row, Doc, Statuses
      <3>2. QED
        BY <3>1, BlankDocsType
    <2>3. docs' \in [Pollers -> [Tasks -> Doc]]
      BY <2>1, <2>2 DEF TypeOK
    <2>4. QED
      BY <1>6, <2>1, <2>3 DEF Poll, Pending, TypeOK, CurrentInv, Saving, txVars
  <1>7. ASSUME NEW p \in Pollers, EmitOk(p) PROVE TypeOK' /\ CurrentInv'
    <2>1. \A t \in Tasks : Completed(docs[p][t]) \in Doc
      BY DocTypes DEF TypeOK
    <2>2. QED
      BY <1>7, <2>1
      DEF EmitOk, IsNext, AppendCopy, TypeOK, CurrentInv, Saving, txVars
  <1>8. ASSUME NEW p \in Pollers, EmitFails(p) PROVE TypeOK' /\ CurrentInv'
    <2>1. PICK t \in batch[p] : HandleError(p, t) /\ CountFailure(t)
      BY <1>8 DEF EmitFails
    <2>2. t \in Tasks
      BY <2>1 DEF TypeOK
    <2>3. CurrentInv'
      BY <1>8, <2>1, <2>2
      DEF EmitFails, HandleError, TypeOK, CurrentInv, Saving
    <2>4. failures' \in [Tasks -> Nat]
      BY <2>1, <2>2 DEF CountFailure, TypeOK
    <2>5. QED
      BY <1>8, <2>1, <2>2, <2>3, <2>4, HandleErrorType DEF EmitFails, TypeOK, txVars
  <1>9. ASSUME NEW p \in Pollers, SaveOk(p) PROVE TypeOK' /\ CurrentInv'
    <2>1. current[p] \in Tasks
      BY <1>9 DEF SaveOk, CurrentInv, Saving, TypeOK
    <2>2. outbox' \in [Tasks -> Row]
      BY <1>9, <2>1, StoreDocType DEF SaveOk
    <2>3. QED
      BY <1>9, <2>2, BlankDocsType
      DEF SaveOk, Advance, TypeOK, CurrentInv, Saving, txVars
  <1>10. ASSUME NEW p \in Pollers, EmitAckLost(p) PROVE TypeOK' /\ CurrentInv'
    <2>1. PICK t \in batch[p] : HandleError(p, t) /\ AppendCopy(p, t)
      BY <1>10 DEF EmitAckLost
    <2>2. t \in Tasks
      BY <2>1 DEF TypeOK
    <2>3. CurrentInv'
      BY <1>10, <2>1, <2>2
      DEF EmitAckLost, HandleError, TypeOK, CurrentInv, Saving
    <2>4. QED
      BY <1>10, <2>1, <2>2, <2>3, HandleErrorType
      DEF EmitAckLost, AppendCopy, Fault, TypeOK, txVars
  <1>11. ASSUME NEW p \in Pollers, SaveFails(p) PROVE TypeOK' /\ CurrentInv'
    <2>1. current[p] \in Tasks
      BY <1>11 DEF SaveFails, CurrentInv, Saving, TypeOK
    <2>2. outbox' \in [Tasks -> Row]
      BY <1>11, <2>1, StoreDocType DEF SaveFails, TypeOK
    <2>3. CurrentInv'
      BY <1>11, <2>1 DEF SaveFails, HandleError, TypeOK, CurrentInv, Saving
    <2>4. QED
      BY <1>11, <2>1, <2>2, <2>3, HandleErrorType
      DEF SaveFails, Fault, TypeOK, txVars
  <1>12. ASSUME NEW p \in Pollers, CatchSaveFails(p) PROVE TypeOK' /\ CurrentInv'
    <2>1. current[p] \in Tasks
      BY <1>12 DEF CatchSaveFails, CurrentInv, Saving, TypeOK
    <2>2. outbox' \in [Tasks -> Row]
      BY <1>12, <2>1, StoreDocType DEF CatchSaveFails, TypeOK
    <2>3. QED
      BY <1>12, <2>2, BlankDocsType
      DEF CatchSaveFails, Forget, Fault, TypeOK, CurrentInv, Saving, txVars
  <1>13. ASSUME NEW p \in Pollers, Crash(p) PROVE TypeOK' /\ CurrentInv'
    BY <1>13, BlankDocsType
    DEF Crash, Forget, Fault, TypeOK, CurrentInv, Saving, txVars
  <1>14. ASSUME NEW p \in Pollers, Restart(p) PROVE TypeOK' /\ CurrentInv'
    BY <1>14 DEF Restart, TypeOK, CurrentInv, Saving, txVars
  <1>15. CASE UNCHANGED vars
    BY <1>15 DEF vars, TypeOK, CurrentInv, Saving
  <1>16. QED
    BY <1>1, <1>2, <1>3, <1>4, <1>5, <1>6, <1>7, <1>8, <1>9, <1>10, <1>11,
       <1>12, <1>13, <1>14, <1>15
    DEF Next, Create, PollerStep, FaultStep

LEMMA Typing == Spec => [](TypeOK /\ CurrentInv)
  <1>1. Init => CurrentInv
    BY DEF Init, CurrentInv, Saving
  <1>2. QED
    BY <1>1, InitTypeOK, TypingStep, PTL DEF Spec

\* Every variable keeps its type in every behaviour of any number of requests
\* and replicas.
THEOREM TypeCorrect == Spec => []TypeOK
  BY Typing, PTL

-----------------------------------------------------------------------------
(* The inductive invariant is preserved                                    *)

LEMMA InitInv == Init => Inv
  <1> SUFFICES ASSUME Init PROVE Inv
    OBVIOUS
  <1>1. RowsInv
    BY DEF Init, RowsInv, NoRow
  <1>2. \A p \in Pollers : ReplicaInv(p) /\ SavingInv(p) /\ CopiesInv(p)
    BY DEF Init, ReplicaInv, SavingInv, CopiesInv, Untouched, Saving
  <1>3. QED
    BY <1>1, <1>2 DEF Inv

LEMMA SavedFields ==
    ASSUME NEW row \in Row, NEW doc \in Doc
    PROVE  /\ Saved(row, doc).attempts = doc.attempts
           /\ Saved(row, doc).status =
                  IF doc.status = "PENDING" THEN row.status ELSE doc.status
           /\ row.processed => Saved(row, doc).processed
           /\ Saved(row, doc).processed =>
                  row.processed \/ doc.status \in Settled
  BY DEF Saved, Row, Doc

\* What any save, applied or lost, may do to the rows.
RowsEvolve(p) ==
    \A t \in Tasks :
        /\ outbox'[t].status = "NONE" <=> outbox[t].status = "NONE"
        /\ outbox[t].processed => outbox'[t].processed
        /\ outbox'[t].processed => outbox'[t].status \in Settled
        /\ outbox[t].status \in Settled => outbox'[t].status \in Settled
        /\ outbox'[t].status = "COMPLETED" =>
               outbox[t].status = "COMPLETED" \/ published[p][t] > 0
        /\ outbox'[t].status = "PENDING" => outbox'[t].attempts < MaxAttempts
        /\ outbox[t].status = "NONE" => outbox'[t] = outbox[t]

LEMMA SaveEvolves ==
    ASSUME TypeOK, Inv, NEW p \in Pollers, Saving(p),
           StoreDoc(p) \/ UNCHANGED outbox
    PROVE  RowsEvolve(p)
  <1>1. CASE UNCHANGED outbox
    BY <1>1 DEF RowsEvolve, Inv, RowsInv, TypeOK, Settled
  <1>2. CASE StoreDoc(p)
    <2> DEFINE c == current[p]
               doc == docs[p][c]
               row == outbox[c]
    <2>1. /\ c \in batch[p] /\ c \in Tasks /\ c \in tasks
          /\ doc \in Doc /\ row \in Row
      BY DEF Inv, SavingInv, ReplicaInv, TypeOK
    <2>2. /\ doc.status # "NONE"
          /\ doc.status = "PENDING" => doc.attempts < MaxAttempts
          /\ doc.status = "COMPLETED" => published[p][c] > 0
      BY DEF Inv, SavingInv
    <2>3. /\ row.status # "NONE"
          /\ row.processed => row.status \in Settled
      BY <2>1 DEF Inv, RowsInv
    <2>4. outbox'[c] = Saved(row, doc)
      BY <1>2, <2>1 DEF StoreDoc, TypeOK
    <2>5. \A t \in Tasks \ {c} : outbox'[t] = outbox[t]
      BY <1>2, <2>1 DEF StoreDoc, TypeOK
    <2>6. /\ outbox'[c].attempts = doc.attempts
          /\ outbox'[c].status =
                 IF doc.status = "PENDING" THEN row.status ELSE doc.status
          /\ row.processed => outbox'[c].processed
          /\ outbox'[c].processed => row.processed \/ doc.status \in Settled
      BY <2>1, <2>4, SavedFields
    <2>7. doc.status \in Statuses
      BY <2>1 DEF Doc
    <2> HIDE DEF c, doc, row
    <2>8. /\ outbox'[c].status # "NONE"
          /\ row.processed => outbox'[c].processed
          /\ outbox'[c].processed => outbox'[c].status \in Settled
          /\ row.status \in Settled => outbox'[c].status \in Settled
          /\ outbox'[c].status = "COMPLETED" =>
                 row.status = "COMPLETED" \/ published[p][c] > 0
          /\ outbox'[c].status = "PENDING" => outbox'[c].attempts < MaxAttempts
      <3>1. CASE doc.status = "PENDING"
        BY <3>1, <2>2, <2>3, <2>6 DEF Settled
      <3>2. CASE doc.status # "PENDING"
        <4>1. doc.status \in Settled
          BY <3>2, <2>2, <2>7 DEF Settled, Statuses
        <4>2. QED
          BY <3>2, <4>1, <2>2, <2>3, <2>6 DEF Settled
      <3>3. QED
        BY <3>1, <3>2
    <2>9. \A t \in Tasks \ {c} :
              /\ outbox[t].processed => outbox[t].status \in Settled
              /\ outbox[t].status = "PENDING" => outbox[t].attempts < MaxAttempts
      BY DEF Inv, RowsInv
    <2>10. QED
      BY <2>1, <2>3, <2>5, <2>8, <2>9 DEF RowsEvolve, row
  <1>3. QED
    BY <1>1, <1>2

\* A save keeps RowsInv whatever the poller does besides.
LEMMA SaveKeepsRows ==
    ASSUME TypeOK, Inv, NEW p \in Pollers, RowsEvolve(p),
           UNCHANGED <<txVars, purged, published>>
    PROVE  RowsInv'
  <1> SUFFICES ASSUME NEW t \in Tasks
               PROVE  /\ t \in tasks <=> outbox'[t].status # "NONE"
                      /\ t \in tasks <=> tx[t] = "committed"
                      /\ reply[t] = "ok" => t \in tasks
                      /\ outbox'[t].processed => outbox'[t].status \in Settled
                      /\ t \in purged => outbox'[t].processed
                      /\ outbox'[t].status # "COMPLETED" \/ Copies(t) # {}
                      /\ outbox'[t].status = "PENDING" =>
                             outbox'[t].attempts < MaxAttempts
                      /\ tx[t] # "committed" => outbox'[t].attempts = 0
    BY DEF RowsInv, Copies, txVars
  <1>1. published[p][t] > 0 => Copies(t) # {}
    BY DEF Copies
  <1>2. QED
    BY <1>1 DEF RowsEvolve, Inv, RowsInv

ReplicasInv == \A p \in Pollers : ReplicaInv(p) /\ SavingInv(p) /\ CopiesInv(p)

\* Steps of create and of the TTL index leave the replicas alone.
LEMMA CreateKeepsInv ==
    ASSUME TypeOK, Inv, NEW t \in Tasks, Create(t) \/ Purge(t)
    PROVE  Inv'
  <1> USE DEF Inv
  <1>1. ASSUME UNCHANGED <<published, pollerVars, faults>>,
               tasks \subseteq tasks',
               \A u \in Tasks : outbox'[u].status \in {"NONE", "PENDING"} =>
                                   outbox[u].status \in {"NONE", "PENDING"}
        PROVE  ReplicasInv'
    <2> SUFFICES ASSUME NEW p \in Pollers
                 PROVE  ReplicaInv(p)' /\ SavingInv(p)' /\ CopiesInv(p)'
      BY DEF ReplicasInv
    <2>1. ReplicaInv(p)'
      BY <1>1 DEF ReplicaInv, Untouched, Saving, pollerVars
    <2>2. SavingInv(p)'
      BY <1>1 DEF SavingInv, Saving, pollerVars
    <2>3. CopiesInv(p)'
      BY <1>1 DEF CopiesInv, pollerVars
    <2>4. QED
      BY <2>1, <2>2, <2>3
  <1>2. CASE InsertTask(t)
    <2>1. RowsInv'
      BY <1>2 DEF InsertTask, RowsInv, TypeOK, Copies
    <2>2. QED
      BY <1>1, <1>2, <2>1 DEF InsertTask, ReplicasInv
  <1>3. CASE InsertEvent(t)
    <2>1. PICK ts \in Timestamps : outbox' = [outbox EXCEPT ![t] = StageEvent(@, ts)]
      BY <1>3 DEF InsertEvent
    <2>2. \A row \in Row : /\ StageEvent(row, ts).status = row.status
                           /\ StageEvent(row, ts).attempts = row.attempts
                           /\ StageEvent(row, ts).processed = row.processed
      BY DEF StageEvent, Row
    <2>3. \A u \in Tasks : /\ outbox'[u].status = outbox[u].status
                           /\ outbox'[u].attempts = outbox[u].attempts
                           /\ outbox'[u].processed = outbox[u].processed
      BY <2>1, <2>2 DEF TypeOK
    <2>4. RowsInv'
      BY <1>3, <2>3 DEF InsertEvent, RowsInv, TypeOK, Copies
    <2>5. QED
      BY <1>1, <1>3, <2>3, <2>4 DEF InsertEvent, ReplicasInv
  <1>4. CASE Commit(t)
    <2>1. /\ outbox'[t].status = "PENDING"
          /\ outbox'[t].attempts = outbox[t].attempts
          /\ outbox'[t].processed = outbox[t].processed
          /\ \A u \in Tasks \ {t} : outbox'[u] = outbox[u]
      BY <1>4 DEF Commit, TypeOK, Row
    <2>2. /\ outbox[t].status = "NONE"
          /\ outbox[t].attempts = 0
          /\ ~outbox[t].processed
      BY <1>4 DEF Commit, RowsInv, Settled
    <2>3. RowsInv'
      BY <1>4, <2>1, <2>2, OutboxAssumption
      DEF Commit, RowsInv, TypeOK, Copies, Settled
    <2>4. QED
      BY <1>1, <1>4, <2>1, <2>2, <2>3 DEF Commit, ReplicasInv
  <1>5. CASE Abort(t)
    <2>1. RowsInv'
      BY <1>5 DEF Abort, RowsInv, TypeOK, Copies
    <2>2. QED
      BY <1>1, <1>5, <2>1 DEF Abort, ReplicasInv
  <1>6. CASE Purge(t)
    <2>1. RowsInv'
      BY <1>6 DEF Purge, Expired, RowsInv, TypeOK, Copies, txVars
    <2>2. QED
      BY <1>1, <1>6, <2>1 DEF Purge, ReplicasInv, txVars
  <1>7. QED
    BY <1>2, <1>3, <1>4, <1>5, <1>6 DEF Create

\* A step of one replica leaves the private state of the others alone, and
\* what they know of the rows stays true.
LEMMA OthersKeepInv ==
    ASSUME TypeOK, Inv, NEW p \in Pollers, NEW q \in Pollers \ {p},
           UNCHANGED tasks,
           UNCHANGED <<pc[q], batch[q], docs[q], current[q], published[q],
                       faults[q]>>,
           UNCHANGED outbox \/ RowsEvolve(p)
    PROVE  ReplicaInv(q)' /\ SavingInv(q)' /\ CopiesInv(q)'
  <1> USE DEF Inv
  <1>1. ReplicaInv(q)'
    BY DEF ReplicaInv, Untouched, Saving
  <1>2. SavingInv(q)'
    BY DEF SavingInv, Saving
  <1>3. \A t \in Tasks : outbox'[t].status \in {"NONE", "PENDING"} =>
                             outbox[t].status \in {"NONE", "PENDING"}
    <2>1. CASE UNCHANGED outbox
      BY <2>1
    <2>2. CASE RowsEvolve(p)
      <3>1. \A t \in Tasks : outbox[t].status \in Statuses
        BY DEF TypeOK, Row
      <3>2. QED
        BY <2>2, <3>1 DEF RowsEvolve, Statuses, Settled
    <2>3. QED
      BY <2>1, <2>2
  <1>4. CopiesInv(q)'
    BY <1>3 DEF CopiesInv
  <1>5. QED
    BY <1>1, <1>2, <1>4

OwnInv(p) == ReplicaInv(p) /\ SavingInv(p) /\ CopiesInv(p)

\* Putting a step of p together from its effect on the rows and on p.
LEMMA ReplicaStep ==
    ASSUME TypeOK, Inv, NEW p \in Pollers, UNCHANGED tasks,
           \A q \in Pollers \ {p} :
               UNCHANGED <<pc[q], batch[q], docs[q], current[q], published[q],
                           faults[q]>>,
           UNCHANGED outbox \/ RowsEvolve(p),
           RowsInv', OwnInv(p)'
    PROVE  Inv'
  <1>1. ASSUME NEW q \in Pollers \ {p}
        PROVE  ReplicaInv(q)' /\ SavingInv(q)' /\ CopiesInv(q)'
    BY <1>1, OthersKeepInv
  <1>2. QED
    BY <1>1 DEF Inv, OwnInv

LEMMA PollKeepsInv ==
    ASSUME TypeOK, Inv, NEW p \in Pollers, Poll(p)
    PROVE  Inv'
  <1>1. PICK B \in SUBSET Pending :
            /\ batch' = [batch EXCEPT ![p] = B]
            /\ docs' = [docs EXCEPT ![p] =
                   [t \in Tasks |-> IF t \in B THEN ReadDoc(outbox[t])
                                               ELSE NoDocs[t]]]
    BY DEF Poll
  <1>2. /\ batch'[p] = B
        /\ B \subseteq Tasks
        /\ \A t \in B : docs'[p][t] = ReadDoc(outbox[t])
        /\ pc[p] = "idle" /\ pc'[p] = "emit"
    BY <1>1 DEF Poll, MayPoll, Pending, TypeOK
  <1>3. \A t \in B : /\ outbox[t].status = "PENDING"
                     /\ outbox[t].attempts < MaxAttempts
                     /\ t \in tasks
                     /\ published[p][t] <= faults[p]
    BY <1>2 DEF Inv, RowsInv, CopiesInv, Pending
  <1>4. ReplicaInv(p)'
    <2>1. Untouched(p)' = B
      BY <1>2 DEF Untouched, Saving
    <2>2. \A t \in B : docs'[p][t].status = "PENDING" /\ docs'[p][t].attempts < MaxAttempts
      <3>1. ASSUME NEW t \in B
            PROVE  /\ ReadDoc(outbox[t]).status = "PENDING"
                   /\ ReadDoc(outbox[t]).attempts = outbox[t].attempts
        BY DEF ReadDoc
      <3>2. QED
        BY <1>2, <1>3, <3>1
    <2>3. tasks' = tasks /\ published' = published
      BY DEF Poll, txVars
    <2>4. QED
      BY <1>2, <1>3, <2>1, <2>2, <2>3 DEF Inv, ReplicaInv
  <1>5. SavingInv(p)'
    BY <1>2 DEF SavingInv, Saving
  <1>6. CopiesInv(p)'
    BY <1>2, <1>3 DEF Poll, Inv, CopiesInv
  <1>7. RowsInv'
    BY DEF Poll, Inv, RowsInv, Copies, txVars
  <1>8. QED
    BY <1>1, <1>4, <1>5, <1>6, <1>7, ReplicaStep
    DEF Poll, OwnInv, TypeOK, txVars

\* A new copy only makes more events published.
LEMMA CopyKeepsRows ==
    ASSUME TypeOK, Inv, NEW p \in Pollers, NEW t \in Tasks, AppendCopy(p, t),
           UNCHANGED <<txVars, outbox, purged>>
    PROVE  RowsInv'
  <1>1. \A u \in Tasks : Copies(u) \subseteq Copies(u)'
    BY DEF Copies, AppendCopy, TypeOK
  <1>2. QED
    BY <1>1 DEF Inv, RowsInv, txVars

LEMMA EmitOkKeepsInv ==
    ASSUME TypeOK, Inv, NEW p \in Pollers, EmitOk(p)
    PROVE  Inv'
  <1>1. PICK t \in batch[p] :
            /\ AppendCopy(p, t)
            /\ docs' = [docs EXCEPT ![p][t] = Completed(@)]
            /\ current' = [current EXCEPT ![p] = t]
    BY DEF EmitOk
  <1>2. /\ t \in Tasks /\ t \in tasks
        /\ pc[p] = "emit" /\ pc'[p] = "save"
        /\ current'[p] = t
        /\ docs'[p][t] = Completed(docs[p][t])
        /\ \A u \in Tasks \ {t} : docs'[p][u] = docs[p][u]
        /\ published'[p][t] = published[p][t] + 1
        /\ \A u \in Tasks \ {t} : published'[p][u] = published[p][u]
    BY <1>1 DEF EmitOk, AppendCopy, TypeOK, Inv, ReplicaInv
  <1>3. published[p][t] \in Nat /\ published[p][t] <= faults[p] /\ faults[p] \in Nat
    BY <1>2 DEF Inv, CopiesInv, TypeOK
  <1>4. ReplicaInv(p)'
    <2>1. Untouched(p) = batch[p] /\ Untouched(p)' = batch[p] \ {t}
      BY <1>2 DEF EmitOk, Untouched, Saving
    <2>2. tasks' = tasks /\ batch' = batch
      BY DEF EmitOk, txVars
    <2>3. \A u \in Tasks : published'[p][u] > 0 => u \in tasks
      BY <1>2 DEF Inv, ReplicaInv
    <2>4. \A u \in batch[p] \ {t} : docs'[p][u] = docs[p][u]
      BY <1>2 DEF TypeOK
    <2>5. QED
      BY <2>1, <2>2, <2>3, <2>4 DEF Inv, ReplicaInv
  <1>5. SavingInv(p)'
    <2>1. docs'[p][t].status = "COMPLETED"
      BY <1>2 DEF Completed
    <2>2. QED
      BY <1>1, <1>2, <1>3, <2>1 DEF EmitOk, SavingInv, Saving
  <1>6. CopiesInv(p)'
    BY <1>2, <1>3 DEF EmitOk, Inv, CopiesInv
  <1>7. RowsInv'
    BY <1>1, <1>2, CopyKeepsRows DEF EmitOk
  <1>8. QED
    BY <1>1, <1>4, <1>5, <1>6, <1>7, ReplicaStep
    DEF EmitOk, AppendCopy, OwnInv, TypeOK, txVars

\* The catch block, entered from a failed emit or from a failed save.
LEMMA HandleErrorKeepsOwn ==
    ASSUME TypeOK, Inv, NEW p \in Pollers, NEW t \in batch[p],
           HandleError(p, t), UNCHANGED <<tasks, batch>>,
           pc[p] = "emit" \/ (pc[p] = "save" /\ current[p] = t),
           \A u \in Tasks : published'[p][u] > 0 => u \in tasks,
           published[p][t] > 0 => published'[p][t] > 0
    PROVE  ReplicaInv(p)' /\ SavingInv(p)'
  <1>1. /\ t \in Tasks
        /\ pc'[p] = "catchSave" /\ current'[p] = t
        /\ docs'[p][t] = Caught(docs[p][t])
        /\ \A u \in Tasks \ {t} : docs'[p][u] = docs[p][u]
    BY DEF HandleError, TypeOK
  <1>2. ReplicaInv(p)'
    <2>1. Untouched(p)' = batch[p] \ {t} /\ Untouched(p)' \subseteq Untouched(p)
      BY <1>1 DEF Untouched, Saving
    <2>2. \A u \in Untouched(p)' : docs'[p][u] = docs[p][u] /\ u \in Untouched(p)
      BY <1>1, <2>1 DEF TypeOK
    <2>3. QED
      BY <2>1, <2>2 DEF Inv, ReplicaInv
  <1>3. /\ docs[p][t].status \in {"PENDING", "COMPLETED"}
        /\ docs[p][t].status = "COMPLETED" => published[p][t] > 0
    <2>1. CASE pc[p] = "emit"
      BY <2>1 DEF Inv, ReplicaInv, Untouched, Saving
    <2>2. CASE pc[p] = "save" /\ current[p] = t
      BY <2>2 DEF Inv, SavingInv, Saving
    <2>3. QED
      BY <2>1, <2>2
  <1>4. docs[p][t].attempts \in Nat
    BY <1>1 DEF TypeOK, Doc
  <1>5. /\ docs'[p][t].status \in {docs[p][t].status, "FAILED"}
        /\ docs'[p][t].status = "PENDING" => docs'[p][t].attempts < MaxAttempts
    <2> DEFINE doc == docs[p][t]
    <2>1. /\ Caught(doc).status = IF doc.attempts + 1 >= MaxAttempts
                                  THEN "FAILED" ELSE doc.status
          /\ Caught(doc).attempts = doc.attempts + 1
      BY DEF Caught
    <2> HIDE DEF doc
    <2>2. doc.attempts \in Nat
      BY <1>4 DEF doc
    <2>3. /\ Caught(doc).status \in {doc.status, "FAILED"}
          /\ Caught(doc).status = "PENDING" => Caught(doc).attempts < MaxAttempts
      BY <2>1, <2>2, OutboxAssumption
    <2>4. QED
      BY <1>1, <2>3 DEF doc
  <1>6. SavingInv(p)'
    BY <1>1, <1>3, <1>5 DEF SavingInv, Saving
  <1>7. QED
    BY <1>2, <1>6

LEMMA EmitFailsKeepsInv ==
    ASSUME TypeOK, Inv, NEW p \in Pollers, EmitFails(p)
    PROVE  Inv'
  <1>1. PICK t \in batch[p] : HandleError(p, t)
    BY DEF EmitFails
  <1>2. ReplicaInv(p)' /\ SavingInv(p)'
    BY <1>1, HandleErrorKeepsOwn DEF EmitFails, Inv, ReplicaInv, txVars
  <1>3. CopiesInv(p)'
    BY <1>1 DEF EmitFails, HandleError, Inv, CopiesInv, TypeOK
  <1>4. RowsInv'
    BY DEF EmitFails, Inv, RowsInv, Copies, txVars
  <1>5. QED
    BY <1>1, <1>2, <1>3, <1>4, ReplicaStep
    DEF EmitFails, HandleError, OwnInv, TypeOK, txVars

LEMMA EmitAckLostKeepsInv ==
    ASSUME TypeOK, Inv, NEW p \in Pollers, EmitAckLost(p)
    PROVE  Inv'
  <1>1. PICK t \in batch[p] : AppendCopy(p, t) /\ HandleError(p, t)
    BY DEF EmitAckLost
  <1>2. /\ t \in Tasks /\ t \in tasks
        /\ pc[p] = "emit" /\ pc'[p] = "catchSave"
        /\ published'[p][t] = published[p][t] + 1
        /\ \A u \in Tasks \ {t} : published'[p][u] = published[p][u]
        /\ faults'[p] = faults[p] + 1
    BY <1>1 DEF EmitAckLost, AppendCopy, HandleError, Fault, TypeOK, Inv, ReplicaInv
  <1>3. \A u \in Tasks : published[p][u] \in Nat /\ faults[p] \in Nat
    BY DEF TypeOK
  <1>4. ReplicaInv(p)' /\ SavingInv(p)'
    <2>1. \A u \in Tasks : published'[p][u] > 0 => u \in tasks
      BY <1>2 DEF Inv, ReplicaInv
    <2>2. published'[p][t] > 0
      BY <1>2, <1>3
    <2>3. QED
      BY <1>1, <1>2, <2>1, <2>2, HandleErrorKeepsOwn DEF EmitAckLost, txVars
  <1>5. CopiesInv(p)'
    BY <1>2, <1>3 DEF EmitAckLost, Inv, CopiesInv
  <1>6. RowsInv'
    BY <1>1, <1>2, CopyKeepsRows DEF EmitAckLost
  <1>7. QED
    BY <1>1, <1>4, <1>5, <1>6, ReplicaStep
    DEF EmitAckLost, AppendCopy, HandleError, Fault, OwnInv, TypeOK, txVars

LEMMA SaveFailsKeepsInv ==
    ASSUME TypeOK, Inv, NEW p \in Pollers, SaveFails(p)
    PROVE  Inv'
  <1>1. RowsEvolve(p)
    BY SaveEvolves DEF SaveFails, Saving
  <1>2. current[p] \in batch[p]
    BY DEF SaveFails, Inv, SavingInv, Saving
  <1>3. ReplicaInv(p)' /\ SavingInv(p)'
    BY <1>2, HandleErrorKeepsOwn DEF SaveFails, Inv, ReplicaInv, txVars
  <1>4. CopiesInv(p)'
    <2>1. faults'[p] = faults[p] + 1 /\ faults[p] \in Nat
      BY DEF SaveFails, Fault, TypeOK
    <2>2. \A t \in Tasks : published'[p][t] <= faults'[p] /\ published[p][t] \in Nat
      BY <2>1 DEF SaveFails, Inv, CopiesInv, TypeOK
    <2>3. QED
      BY <2>1, <2>2 DEF SaveFails, CopiesInv, TypeOK
  <1>5. RowsInv'
    BY <1>1, SaveKeepsRows DEF SaveFails
  <1>6. QED
    BY <1>1, <1>3, <1>4, <1>5, ReplicaStep
    DEF SaveFails, HandleError, Fault, OwnInv, TypeOK, txVars

LEMMA SaveOkKeepsInv ==
    ASSUME TypeOK, Inv, NEW p \in Pollers, SaveOk(p)
    PROVE  Inv'
  <1> DEFINE c == current[p]
  <1>1. RowsEvolve(p)
    BY SaveEvolves DEF SaveOk, Saving
  <1>2. /\ c \in batch[p] /\ c \in Tasks
        /\ Saving(p) /\ ~Saving(p)'
        /\ batch'[p] = batch[p] \ {c}
        /\ batch'[p] # {} => docs'[p] = docs[p]
    BY DEF SaveOk, Advance, Saving, Inv, SavingInv, TypeOK
  <1>3. ReplicaInv(p)'
    <2>1. Untouched(p)' = Untouched(p) /\ Untouched(p)' = batch'[p]
      BY <1>2 DEF Untouched
    <2>2. QED
      BY <1>2, <2>1 DEF SaveOk, Inv, ReplicaInv, txVars
  <1>4. SavingInv(p)'
    BY <1>2 DEF SavingInv
  <1>5. CopiesInv(p)'
    <2>1. published' = published /\ faults' = faults
      BY DEF SaveOk
    <2>2. ASSUME NEW t \in Tasks, t # c,
                 outbox'[t].status \in {"NONE", "PENDING"} \/ t \in batch'[p]
          PROVE  published[p][t] <= faults[p]
      <3>1. outbox[t].status \in Statuses
        BY DEF TypeOK, Row
      <3>2. outbox[t].status \in {"NONE", "PENDING"} \/ t \in batch[p]
        BY <1>1, <1>2, <2>2, <3>1 DEF RowsEvolve, Statuses, Settled
      <3>3. QED
        BY <2>2, <3>2 DEF Inv, CopiesInv
    <2>3. ASSUME outbox'[c].status \in {"NONE", "PENDING"}
          PROVE  published[p][c] <= faults[p]
      <3>1. CASE pc[p] = "save"
        <4>1. docs[p][c].status = "COMPLETED"
          BY <3>1, <1>2 DEF Inv, SavingInv
        <4>2. outbox[c] \in Row /\ docs[p][c] \in Doc
          BY <1>2 DEF TypeOK
        <4>3. outbox'[c] = Saved(outbox[c], docs[p][c])
          BY <1>2 DEF SaveOk, StoreDoc, TypeOK
        <4>4. outbox'[c].status = "COMPLETED"
          BY <4>1, <4>2, <4>3, SavedFields
        <4>5. QED
          BY <4>4, <2>3
      <3>2. CASE pc[p] = "catchSave"
        BY <3>2, <1>2 DEF Inv, CopiesInv
      <3>3. QED
        BY <3>1, <3>2 DEF SaveOk
    <2>4. QED
      BY <1>2, <2>1, <2>2, <2>3 DEF Inv, CopiesInv
  <1>6. RowsInv'
    BY <1>1, SaveKeepsRows DEF SaveOk
  <1>7. QED
    BY <1>1, <1>3, <1>4, <1>5, <1>6, ReplicaStep
    DEF SaveOk, Advance, OwnInv, TypeOK, txVars

\* The cycle is abandoned: a fault is charged and nothing is remembered.
LEMMA ForgetKeepsOwn ==
    ASSUME TypeOK, Inv, NEW p \in Pollers, Forget(p), Fault(p),
           UNCHANGED <<tasks, published>>, pc'[p] \in {"idle", "down"}
    PROVE  OwnInv(p)'
  <1>1. batch'[p] = {} /\ ~Saving(p)'
    BY DEF Forget, Saving, TypeOK
  <1>2. ReplicaInv(p)'
    BY <1>1 DEF Inv, ReplicaInv, Untouched
  <1>3. SavingInv(p)'
    BY <1>1 DEF SavingInv
  <1>4. faults'[p] = faults[p] + 1 /\ faults[p] \in Nat
    BY DEF Fault, TypeOK
  <1>5. \A t \in Tasks : published[p][t] \in Nat /\ published[p][t] <= 1 + faults[p]
    BY DEF Inv, CopiesInv, TypeOK
  <1>6. CopiesInv(p)'
    BY <1>4, <1>5 DEF CopiesInv
  <1>7. QED
    BY <1>2, <1>3, <1>6 DEF OwnInv

LEMMA CatchSaveFailsKeepsInv ==
    ASSUME TypeOK, Inv, NEW p \in Pollers, CatchSaveFails(p)
    PROVE  Inv'
  <1>1. RowsEvolve(p)
    BY SaveEvolves DEF CatchSaveFails, Saving
  <1>2. OwnInv(p)'
    BY ForgetKeepsOwn DEF CatchSaveFails, TypeOK, txVars
  <1>3. RowsInv'
    BY <1>1, SaveKeepsRows DEF CatchSaveFails
  <1>4. QED
    BY <1>1, <1>2, <1>3, ReplicaStep
    DEF CatchSaveFails, Forget, Fault, TypeOK, txVars

LEMMA CrashKeepsInv ==
    ASSUME TypeOK, Inv, NEW p \in Pollers, Crash(p)
    PROVE  Inv'
  <1>1. OwnInv(p)'
    BY ForgetKeepsOwn DEF Crash, TypeOK, txVars
  <1>2. RowsInv'
    BY DEF Crash, Inv, RowsInv, Copies, txVars
  <1>3. QED
    BY <1>1, <1>2, ReplicaStep DEF Crash, Forget, Fault, TypeOK, txVars

LEMMA RestartKeepsInv ==
    ASSUME TypeOK, Inv, NEW p \in Pollers, Restart(p)
    PROVE  Inv'
  <1>1. /\ pc[p] = "down" /\ pc'[p] = "idle"
        /\ UNCHANGED <<tasks, outbox, published, batch, docs, current, faults>>
    BY DEF Restart, TypeOK, txVars
  <1>2. ReplicaInv(p)' /\ SavingInv(p)'
    BY <1>1 DEF Inv, ReplicaInv, SavingInv, Untouched, Saving
  <1>3. CopiesInv(p)'
    BY <1>1 DEF Inv, CopiesInv
  <1>4. RowsInv'
    BY DEF Restart, Inv, RowsInv, Copies, txVars
  <1>5. QED
    BY <1>1, <1>2, <1>3, <1>4, ReplicaStep DEF Restart, OwnInv, TypeOK, txVars

LEMMA InvStep == TypeOK /\ Inv /\ [Next]_vars => Inv'
  <1> SUFFICES ASSUME TypeOK, Inv, [Next]_vars
               PROVE  Inv'
    OBVIOUS
  <1>1. ASSUME NEW t \in Tasks, Create(t) \/ Purge(t) PROVE Inv'
    BY <1>1, CreateKeepsInv
  <1>2. ASSUME NEW p \in Pollers, PollerStep(p) PROVE Inv'
    BY <1>2, PollKeepsInv, EmitOkKeepsInv, EmitFailsKeepsInv, SaveOkKeepsInv
    DEF PollerStep
  <1>3. ASSUME NEW p \in Pollers, FaultStep(p) PROVE Inv'
    BY <1>3, EmitAckLostKeepsInv, SaveFailsKeepsInv, CatchSaveFailsKeepsInv,
       CrashKeepsInv
    DEF FaultStep
  <1>4. ASSUME NEW p \in Pollers, Restart(p) PROVE Inv'
    BY <1>4, RestartKeepsInv
  <1>5. CASE UNCHANGED vars
    BY <1>5 DEF vars, Inv, RowsInv, ReplicaInv, SavingInv, CopiesInv, Untouched,
                Saving, Copies
  <1>6. QED
    BY <1>1, <1>2, <1>3, <1>4, <1>5 DEF Next

LEMMA Invariance == Spec => [](TypeOK /\ Inv)
  <1>1. TypeOK /\ Inv => CurrentInv
    BY DEF Inv, SavingInv, CurrentInv
  <1>2. QED
    BY <1>1, InitTypeOK, InitInv, TypingStep, InvStep, PTL DEF Spec

-----------------------------------------------------------------------------
(* What it takes to give an event up                                       *)

Earned(t, status, attempts) ==
    /\ attempts <= failures[t]
    /\ status = "FAILED" => failures[t] >= MaxAttempts

RowEarned(t) == Earned(t, outbox[t].status, outbox[t].attempts)

DocEarned(p, t) ==
    t \in batch[p] => Earned(t, docs[p][t].status, docs[p][t].attempts)

\* As long as t has no copy, every count of its attempts, in the row and in the
\* documents of all replicas, is at most the number of its failed emits.
EarnedInv(t) ==
    Copies(t) = {} => RowEarned(t) /\ \A p \in Pollers : DocEarned(p, t)

LEMMA InitEarned == ASSUME Init, NEW t \in Tasks PROVE EarnedInv(t)
  BY OutboxAssumption
  DEF Init, EarnedInv, RowEarned, DocEarned, Earned, NoRow

\* A replica writes into the row what it has earned in its document.
LEMMA StoreEarned ==
    ASSUME TypeOK, Inv, NEW t \in Tasks, EarnedInv(t), Copies(t) = {},
           NEW p \in Pollers, Saving(p),
           StoreDoc(p) \/ UNCHANGED outbox, UNCHANGED failures
    PROVE  RowEarned(t)'
  <1>1. CASE outbox'[t] = outbox[t]
    BY <1>1 DEF EarnedInv, RowEarned, Earned
  <1>2. CASE current[p] = t /\ StoreDoc(p)
    <2>1. t \in batch[p]
      BY <1>2 DEF Inv, SavingInv
    <2>2. Earned(t, docs[p][t].status, docs[p][t].attempts)
      BY <2>1 DEF EarnedInv, DocEarned
    <2>3. outbox'[t] = Saved(outbox[t], docs[p][t])
      BY <1>2 DEF StoreDoc, TypeOK
    <2>4. outbox[t] \in Row
      BY DEF TypeOK
    <2>5. /\ outbox'[t].attempts = docs[p][t].attempts
          /\ outbox'[t].status \in {outbox[t].status, docs[p][t].status}
      BY <2>3, <2>4 DEF Saved, Row
    <2>6. QED
      BY <2>2, <2>5 DEF EarnedInv, RowEarned, Earned
  <1>3. current[p] # t => outbox'[t] = outbox[t]
    BY DEF StoreDoc, TypeOK
  <1>4. QED
    BY <1>1, <1>2, <1>3

\* A step of p that emits nothing leaves what the others have earned.
LEMMA EarnedByAll ==
    ASSUME NEW t \in Tasks, EarnedInv(t), NEW p \in Pollers,
           \A q \in Pollers \ {p} : UNCHANGED <<batch[q], docs[q]>>,
           failures'[t] >= failures[t], TypeOK, TypeOK',
           Copies(t)' = {} => Copies(t) = {} /\ RowEarned(t)' /\ DocEarned(p, t)'
    PROVE  EarnedInv(t)'
  <1>1. ASSUME Copies(t)' = {}, NEW q \in Pollers \ {p}
        PROVE  DocEarned(q, t)'
    <2>1. DocEarned(q, t)
      BY <1>1 DEF EarnedInv
    <2>2. failures[t] \in Nat /\ failures'[t] \in Nat
      BY DEF TypeOK
    <2>3. t \in batch[q] => docs[q][t].attempts \in Nat
      BY DEF TypeOK, Doc
    <2>4. QED
      BY <2>1, <2>2, <2>3, OutboxAssumption DEF DocEarned, Earned
  <1>2. QED
    BY <1>1 DEF EarnedInv

LEMMA PollEarned ==
    ASSUME TypeOK, TypeOK', NEW t \in Tasks, EarnedInv(t), NEW p \in Pollers, Poll(p)
    PROVE  EarnedInv(t)'
  <1>1. PICK B \in SUBSET Pending :
            /\ batch' = [batch EXCEPT ![p] = B]
            /\ docs' = [docs EXCEPT ![p] =
                   [u \in Tasks |-> IF u \in B THEN ReadDoc(outbox[u])
                                               ELSE NoDocs[u]]]
    BY DEF Poll
  <1>2. /\ batch'[p] = B
        /\ t \in B => docs'[p][t] = ReadDoc(outbox[t])
        /\ \A q \in Pollers \ {p} : UNCHANGED <<batch[q], docs[q]>>
    BY <1>1 DEF TypeOK
  <1>3. /\ ReadDoc(outbox[t]).status = "PENDING"
        /\ ReadDoc(outbox[t]).attempts = outbox[t].attempts
    BY DEF ReadDoc
  <1>4. UNCHANGED <<outbox, published, failures>>
    BY DEF Poll, txVars
  <1>5. Copies(t)' = Copies(t)
    BY <1>4 DEF Copies
  <1>6. failures'[t] >= failures[t]
    BY <1>4 DEF TypeOK
  <1>7. ASSUME Copies(t) = {} PROVE RowEarned(t)' /\ DocEarned(p, t)'
    BY <1>2, <1>3, <1>4, <1>7 DEF EarnedInv, RowEarned, DocEarned, Earned
  <1>8. QED
    BY <1>2, <1>5, <1>6, <1>7, EarnedByAll

\* A new copy of u settles the question for u and leaves the others alone.
LEMMA CopyEarned ==
    ASSUME TypeOK, TypeOK', NEW t \in Tasks, EarnedInv(t), NEW p \in Pollers,
           NEW u \in Tasks, AppendCopy(p, u), UNCHANGED <<outbox, batch>>,
           \A q \in Pollers, v \in Tasks \ {u} : docs'[q][v] = docs[q][v]
    PROVE  EarnedInv(t)'
  <1>1. CASE t = u
    <2>1. published'[p][t] = published[p][t] + 1 /\ published[p][t] \in Nat
      BY <1>1 DEF AppendCopy, TypeOK
    <2>2. p \in Copies(t)'
      BY <2>1 DEF Copies
    <2>3. QED
      BY <2>2 DEF EarnedInv
  <1>2. CASE t # u
    <2>1. failures'[t] = failures[t] /\ \A q \in Pollers : published'[q][t] = published[q][t]
      BY <1>2 DEF AppendCopy, TypeOK
    <2>2. Copies(t)' = Copies(t)
      BY <2>1 DEF Copies
    <2>3. QED
      BY <1>2, <2>1, <2>2 DEF EarnedInv, RowEarned, DocEarned, Earned
  <1>3. QED
    BY <1>1, <1>2

\* The catch block counts the failure that has just happened.
LEMMA FailureEarned ==
    ASSUME TypeOK, TypeOK', Inv, NEW t \in Tasks, EarnedInv(t), NEW p \in Pollers,
           EmitFails(p)
    PROVE  EarnedInv(t)'
  <1>1. PICK u \in batch[p] : HandleError(p, u) /\ CountFailure(u)
    BY DEF EmitFails
  <1>2. /\ UNCHANGED <<outbox, published, batch>> /\ u \in Tasks /\ pc[p] = "emit"
        /\ \A q \in Pollers \ {p} : docs'[q] = docs[q]
        /\ docs'[p] = [docs[p] EXCEPT ![u] = Caught(@)]
    BY <1>1 DEF EmitFails, HandleError, TypeOK
  <1>3. Copies(t)' = Copies(t)
    BY <1>2 DEF Copies
  <1>4. /\ failures[t] \in Nat /\ MaxAttempts \in Nat
        /\ docs[p][t].attempts \in Nat /\ outbox[t].attempts \in Nat
    BY OutboxAssumption DEF TypeOK, Doc, Row
  <1>5. CASE t # u
    <2>1. failures'[t] = failures[t] /\ docs'[p][t] = docs[p][t]
      BY <1>1, <1>2, <1>5 DEF CountFailure, TypeOK
    <2>2. QED
      BY <1>2, <1>3, <2>1 DEF EarnedInv, RowEarned, DocEarned, Earned
  <1>6. CASE t = u
    <2>1. /\ failures'[t] = IF Copies(t) = {} /\ failures[t] < MaxAttempts
                             THEN failures[t] + 1 ELSE failures[t]
          /\ docs'[p][t] = Caught(docs[p][t])
      BY <1>1, <1>2, <1>6 DEF CountFailure, TypeOK
    <2>2. docs[p][t].status = "PENDING" /\ docs[p][t].attempts < MaxAttempts
      BY <1>1, <1>2, <1>6 DEF Inv, ReplicaInv, Untouched, Saving
    <2>3. /\ docs'[p][t].attempts = docs[p][t].attempts + 1
          /\ docs'[p][t].status = "FAILED" => docs[p][t].attempts + 1 >= MaxAttempts
      BY <2>1, <2>2 DEF Caught
    <2>4. ASSUME Copies(t) = {} PROVE RowEarned(t)' /\ DocEarned(p, t)'
      <3>1. RowEarned(t) /\ docs[p][t].attempts <= failures[t]
        BY <1>1, <1>6, <2>4 DEF EarnedInv, DocEarned, Earned
      <3>2. QED
        BY <1>2, <1>4, <2>1, <2>2, <2>3, <2>4, <3>1 DEF RowEarned, DocEarned, Earned
    <2>5. failures'[t] >= failures[t]
      BY <1>4, <2>1
    <2>6. \A q \in Pollers \ {p} : UNCHANGED <<batch[q], docs[q]>>
      BY <1>2
    <2>7. QED
      BY <1>3, <2>4, <2>5, <2>6, EarnedByAll
  <1>7. QED
    BY <1>5, <1>6

\* A cycle goes on, is given up, or dies: its documents are written or dropped.
LEMMA CycleEarned ==
    ASSUME TypeOK, TypeOK', Inv, NEW t \in Tasks, EarnedInv(t), NEW p \in Pollers,
           SaveOk(p) \/ SaveFails(p) \/ CatchSaveFails(p) \/ Crash(p)
    PROVE  EarnedInv(t)'
  <1>1. /\ UNCHANGED <<published, failures>>
        /\ \A q \in Pollers \ {p} : UNCHANGED <<batch[q], docs[q]>>
    BY DEF SaveOk, SaveFails, CatchSaveFails, Crash, Advance, HandleError, Forget, TypeOK
  <1>2. Copies(t)' = Copies(t) /\ failures'[t] >= failures[t]
    BY <1>1 DEF Copies, TypeOK
  <1>3. ASSUME Copies(t) = {} PROVE RowEarned(t)'
    <2>1. CASE Crash(p)
      BY <1>3, <2>1 DEF Crash, EarnedInv, RowEarned, Earned
    <2>2. CASE SaveOk(p) \/ SaveFails(p) \/ CatchSaveFails(p)
      <3>1. Saving(p) /\ (StoreDoc(p) \/ UNCHANGED outbox)
        BY <2>2 DEF SaveOk, SaveFails, CatchSaveFails, Saving
      <3>2. QED
        BY <1>1, <1>3, <3>1, StoreEarned
    <2>3. QED
      BY <2>1, <2>2
  <1>4. ASSUME Copies(t) = {} PROVE DocEarned(p, t)'
    <2>1. CASE CatchSaveFails(p) \/ Crash(p)
      <3>1. batch'[p] = {}
        BY <2>1 DEF CatchSaveFails, Crash, Forget, TypeOK
      <3>2. QED
        BY <3>1 DEF DocEarned
    <2>2. CASE SaveOk(p)
      <3>1. batch'[p] \subseteq batch[p] /\ (t \in batch'[p] => docs'[p] = docs[p])
        BY <2>2 DEF SaveOk, Advance, TypeOK
      <3>2. QED
        BY <1>1, <1>4, <3>1 DEF EarnedInv, DocEarned, Earned
    <2>3. CASE SaveFails(p)
      <3>1. t # current[p]
        BY <1>4, <2>3 DEF SaveFails, Inv, SavingInv, Saving, Copies
      <3>2. UNCHANGED batch /\ docs'[p][t] = docs[p][t]
        BY <2>3, <3>1 DEF SaveFails, HandleError, TypeOK
      <3>3. QED
        BY <1>1, <1>4, <3>2 DEF EarnedInv, DocEarned, Earned
    <2>4. QED
      BY <2>1, <2>2, <2>3
  <1>5. QED
    BY <1>1, <1>2, <1>3, <1>4, EarnedByAll

LEMMA EarnedStep ==
    ASSUME TypeOK, TypeOK', Inv, [Next]_vars, NEW t \in Tasks, EarnedInv(t)
    PROVE  EarnedInv(t)'
  <1>1. CASE UNCHANGED <<outbox, published, batch, docs, failures>>
    BY <1>1 DEF EarnedInv, RowEarned, DocEarned, Earned, Copies
  <1>2. ASSUME NEW u \in Tasks, InsertEvent(u) \/ Commit(u)
        PROVE  EarnedInv(t)'
    <2>1. /\ outbox'[t].attempts = outbox[t].attempts
          /\ outbox'[t].status \in {outbox[t].status, "PENDING"}
      <3>1. outbox[t] \in Row /\ outbox[u] \in Row
        BY DEF TypeOK
      <3>2. ASSUME NEW ts \in Timestamps, outbox' = [outbox EXCEPT ![u] = StageEvent(@, ts)]
            PROVE  /\ outbox'[t].attempts = outbox[t].attempts
                   /\ outbox'[t].status = outbox[t].status
        BY <3>1, <3>2 DEF StageEvent, TypeOK, Row
      <3>3. ASSUME outbox' = [outbox EXCEPT ![u].status = "PENDING"]
            PROVE  /\ outbox'[t].attempts = outbox[t].attempts
                   /\ outbox'[t].status \in {outbox[t].status, "PENDING"}
        BY <3>1, <3>3 DEF TypeOK, Row
      <3>4. QED
        BY <1>2, <3>2, <3>3 DEF InsertEvent, Commit
    <2>2. UNCHANGED <<published, batch, docs, failures>>
      BY <1>2 DEF InsertEvent, Commit, pollerVars
    <2>3. QED
      BY <2>1, <2>2 DEF EarnedInv, RowEarned, DocEarned, Earned, Copies
  <1>3. ASSUME NEW p \in Pollers, EmitOk(p) \/ EmitAckLost(p)
        PROVE  EarnedInv(t)'
    <2>1. PICK u \in batch[p] :
              /\ AppendCopy(p, u)
              /\ \E doc : docs' = [docs EXCEPT ![p][u] = doc]
      BY <1>3 DEF EmitOk, EmitAckLost, HandleError
    <2>2. u \in Tasks
      BY DEF TypeOK
    <2>3. \A q \in Pollers, v \in Tasks \ {u} : docs'[q][v] = docs[q][v]
      BY <2>1, <2>2 DEF TypeOK
    <2>4. UNCHANGED <<outbox, batch>>
      BY <1>3 DEF EmitOk, EmitAckLost
    <2>5. QED
      BY <2>1, <2>2, <2>3, <2>4, CopyEarned
  <1>4. QED
    BY <1>1, <1>2, <1>3, PollEarned, FailureEarned, CycleEarned
    DEF Next, Create, PollerStep, FaultStep, vars, InsertTask, Abort, Purge,
        Restart, pollerVars

\* An event is given up without ever having reached the topic only after
\* MaxAttempts failed emits, for any number of replicas that overwrite each
\* other's count of them.
THEOREM GivingUpTakesFailures == Spec => []GivenUpAfterFailures
  <1> DEFINE AllEarned == \A t \in Tasks : EarnedInv(t)
  <1>1. Init => AllEarned
    BY InitEarned
  <1>2. TypeOK /\ TypeOK' /\ Inv /\ AllEarned /\ [Next]_vars => AllEarned'
    BY EarnedStep
  <1>3. AllEarned => GivenUpAfterFailures
    BY DEF EarnedInv, RowEarned, Earned, GivenUpAfterFailures
  <1> HIDE DEF AllEarned
  <1>4. QED
    BY <1>1, <1>2, <1>3, Invariance, PTL DEF Spec

-----------------------------------------------------------------------------
(* The safety properties                                                   *)

\* A task and its event are stored together, are there once create answered
\* success, and only events of stored tasks reach the topic.
THEOREM DualWriteIsAtomic == Spec => []DualWriteAtomic
  <1>1. TypeOK /\ Inv => DualWriteAtomic
    BY DEF TypeOK, Inv, RowsInv, ReplicaInv, Copies, DualWriteAtomic
  <1>2. QED
    BY <1>1, Invariance, PTL

\* A row says COMPLETED only when some replica has published the event.
THEOREM CompletedMeansPublished == Spec => []CompletedWasPublished
  <1>1. Inv => CompletedWasPublished
    BY DEF Inv, RowsInv, CompletedWasPublished
  <1>2. QED
    BY <1>1, Invariance, PTL

\* A replica publishes an event at most once more than it suffered faults.
THEOREM DuplicatesAreBounded == Spec => []DuplicatesBounded
  <1>1. Inv => DuplicatesBounded
    BY DEF Inv, CopiesInv, DuplicatesBounded
  <1>2. QED
    BY <1>1, Invariance, PTL

\* No interleaving of saves leaves a pending event at the retry limit.
THEOREM PendingIsBelowLimit == Spec => []RetriedBelowLimit
  <1>1. Inv => RetriedBelowLimit
    BY DEF Inv, RowsInv, RetriedBelowLimit
  <1>2. QED
    BY <1>1, Invariance, PTL

\* The TTL index deletes only events that were published or quarantined.
THEOREM PurgeLosesNothing == Spec => []PurgedWasHandled
  <1>1. TypeOK /\ Inv => PurgedWasHandled
    BY DEF TypeOK, Inv, RowsInv, PurgedWasHandled, Settled
  <1>2. QED
    BY <1>1, Invariance, PTL

\* The event of a stored task is retried until it is in the topic, or until
\* MaxAttempts emits of it have failed: nothing else ends its life.
THEOREM NoEventIsDropped == Spec => []NoEventVanishes
  <1>1. TypeOK /\ Inv /\ GivenUpAfterFailures => NoEventVanishes
    <2> SUFFICES ASSUME TypeOK, Inv, GivenUpAfterFailures, NEW t \in tasks
                 PROVE  \/ t \in Pending
                        \/ Copies(t) # {}
                        \/ outbox[t].status = "FAILED" /\ failures[t] >= MaxAttempts
      BY DEF NoEventVanishes
    <2>1. t \in Tasks
      BY DEF TypeOK
    <2>2. outbox[t].status \in {"PENDING", "COMPLETED", "FAILED"}
      BY <2>1 DEF TypeOK, Row, Statuses, Inv, RowsInv
    <2>3. CASE outbox[t].status = "PENDING"
      BY <2>1, <2>3 DEF Inv, RowsInv, Settled, Pending
    <2>4. CASE outbox[t].status = "COMPLETED"
      BY <2>1, <2>4 DEF Inv, RowsInv
    <2>5. CASE outbox[t].status = "FAILED"
      BY <2>1, <2>5 DEF GivenUpAfterFailures
    <2>6. QED
      BY <2>2, <2>3, <2>4, <2>5
  <1>2. QED
    BY <1>1, Invariance, GivingUpTakesFailures, PTL

-----------------------------------------------------------------------------
(* What one step does to the rows and to the topic                         *)

SameStatus == \A t \in Tasks : outbox'[t].status = outbox[t].status

\* The step of the abstract relay each step of the outbox takes.
LEMMA StepKinds ==
    ASSUME TypeOK, Inv, [Next]_vars
    PROVE  \/ SameStatus /\ UNCHANGED published
           \/ \E t \in Tasks : Commit(t)
           \/ \E p \in Pollers, t \in Tasks :
                  t \in tasks /\ AppendCopy(p, t) /\ SameStatus
           \/ \E p \in Pollers :
                  /\ Saving(p) /\ StoreDoc(p) /\ RowsEvolve(p)
                  /\ UNCHANGED published
  <1>1. ASSUME NEW t \in Tasks, InsertEvent(t)
        PROVE  SameStatus /\ UNCHANGED published
    <2>1. \A ts \in Timestamps, row \in Row :
              StageEvent(row, ts).status = row.status
      BY DEF StageEvent, Row
    <2>2. QED
      BY <1>1, <2>1 DEF InsertEvent, SameStatus, TypeOK
  <1>2. ASSUME NEW t \in Tasks, InsertTask(t) \/ Abort(t) \/ Purge(t)
        PROVE  SameStatus /\ UNCHANGED published
    BY <1>2 DEF InsertTask, Abort, Purge, SameStatus
  <1>3. ASSUME NEW p \in Pollers,
               Poll(p) \/ EmitFails(p) \/ Crash(p) \/ Restart(p)
        PROVE  SameStatus /\ UNCHANGED published
    BY <1>3 DEF Poll, EmitFails, Crash, Restart, SameStatus
  <1>4. ASSUME NEW p \in Pollers, EmitOk(p) \/ EmitAckLost(p)
        PROVE  \E t \in Tasks : t \in tasks /\ AppendCopy(p, t) /\ SameStatus
    BY <1>4 DEF EmitOk, EmitAckLost, SameStatus, Inv, ReplicaInv, TypeOK
  <1>5. ASSUME NEW p \in Pollers, SaveOk(p) \/ SaveFails(p) \/ CatchSaveFails(p)
        PROVE  \/ SameStatus /\ UNCHANGED published
               \/ /\ Saving(p) /\ StoreDoc(p) /\ RowsEvolve(p)
                  /\ UNCHANGED published
    BY <1>5, SaveEvolves
    DEF SaveOk, SaveFails, CatchSaveFails, SameStatus, Saving
  <1>6. CASE UNCHANGED vars
    BY <1>6 DEF vars, SameStatus
  <1>7. QED
    BY <1>1, <1>2, <1>3, <1>4, <1>5, <1>6
    DEF Next, Create, PollerStep, FaultStep

\* A settled row may flip between COMPLETED and FAILED, and never becomes
\* pending again, however stale the document a replica saves.
THEOREM SettledStaysSettled == Spec => NeverReopened
  <1>1. ASSUME TypeOK, Inv, [Next]_vars, NEW t \in Tasks,
               outbox[t].status \in Settled
        PROVE  outbox'[t].status \in Settled
    <2>1. CASE SameStatus
      BY <1>1, <2>1 DEF SameStatus
    <2>2. ASSUME NEW u \in Tasks, Commit(u)
          PROVE  outbox'[t].status \in Settled
      <3>1. outbox[u].status = "NONE"
        BY <2>2, <1>1 DEF Commit, Inv, RowsInv
      <3>2. u # t
        BY <3>1, <1>1 DEF Settled
      <3>3. QED
        BY <1>1, <2>2, <3>2 DEF Commit, TypeOK
    <2>3. ASSUME NEW p \in Pollers, RowsEvolve(p)
          PROVE  outbox'[t].status \in Settled
      BY <1>1, <2>3 DEF RowsEvolve
    <2>4. QED
      BY <1>1, <2>1, <2>2, <2>3, StepKinds
  <1>2. TypeOK /\ Inv /\ [Next]_vars =>
            [\A t \in Tasks : outbox[t].status \in Settled =>
                                 outbox'[t].status \in Settled]_vars
    BY <1>1
  <1>3. QED
    BY <1>2, Invariance, PTL DEF Spec, NeverReopened

-----------------------------------------------------------------------------
(* Refinement                                                              *)

\* The view of the relay is unchanged when the statuses and the topic are.
LEMMA SameView ==
    ASSUME SameStatus, UNCHANGED published
    PROVE  UNCHANGED Relay!vars
  <1>1. \A t \in Tasks : Mark(t)' = Mark(t)
    BY DEF SameStatus, Mark
  <1>2. \A t \in Tasks : Copies(t)' = Copies(t)
    BY DEF Copies
  <1>3. QED
    BY <1>1, <1>2 DEF Relay!vars

\* Every behaviour of the outbox, of any number of replicas, is a behaviour
\* of the relay.
THEOREM OutboxImplementsRelay == Spec => ImplementsRelay
  <1>1. Init => Relay!Init
    BY DEF Init, Relay!Init, NoRow, Mark, Copies
  <1>2. ASSUME TypeOK, Inv, [Next]_vars
        PROVE  [Relay!Next]_(Relay!vars)
    <2>1. CASE SameStatus /\ UNCHANGED published
      BY <2>1, SameView
    <2>2. ASSUME NEW t \in Tasks, Commit(t)
          PROVE  Relay!Accept(t)
      <3>1. outbox[t].status = "NONE" /\ outbox'[t].status = "PENDING"
        BY <2>2, <1>2 DEF Commit, Inv, RowsInv, TypeOK, Row
      <3>2. \A u \in Tasks \ {t} : outbox'[u] = outbox[u]
        BY <2>2, <1>2 DEF Commit, TypeOK
      <3>3. /\ Mark(t) = "absent" /\ Mark(t)' = "waiting"
            /\ \A u \in Tasks \ {t} : Mark(u)' = Mark(u)
        BY <3>1, <3>2 DEF Mark
      <3>4. \A u \in Tasks : Copies(u)' = Copies(u)
        BY <2>2 DEF Commit, Copies
      <3>5. QED
        BY <3>3, <3>4 DEF Relay!Accept
    <2>3. ASSUME NEW p \in Pollers, NEW t \in Tasks,
                 t \in tasks, AppendCopy(p, t), SameStatus
          PROVE  Relay!Send(t)
      <3>1. outbox[t].status # "NONE" /\ outbox[t].status \in Statuses
        BY <2>3, <1>2 DEF Inv, RowsInv, TypeOK, Row
      <3>2. Mark(t) # "absent" /\ \A u \in Tasks : Mark(u)' = Mark(u)
        BY <2>3, <3>1 DEF Mark, SameStatus, Statuses
      <3>3. /\ published'[p][t] = published[p][t] + 1
            /\ published[p][t] \in Nat
            /\ \A q \in Pollers, u \in Tasks :
                   q # p \/ u # t => published'[q][u] = published[q][u]
        BY <2>3, <1>2 DEF AppendCopy, TypeOK
      <3>4. p \in Copies(t)' /\ \A u \in Tasks \ {t} : Copies(u)' = Copies(u)
        BY <3>3 DEF Copies
      <3>5. QED
        BY <3>2, <3>4 DEF Relay!Send
    <2>4. ASSUME NEW p \in Pollers, Saving(p), StoreDoc(p), RowsEvolve(p),
                 UNCHANGED published
          PROVE  [Relay!Next]_(Relay!vars)
      <3>1. PICK c \in Tasks : c = current[p]
        BY <2>4, <1>2 DEF Inv, SavingInv, ReplicaInv, TypeOK
      <3>2. \A u \in Tasks \ {c} : outbox'[u] = outbox[u]
        BY <2>4, <1>2, <3>1 DEF StoreDoc, TypeOK
      <3>3. \A u \in Tasks : Copies(u)' = Copies(u)
        BY <2>4 DEF Copies
      <3>4. outbox'[c].status = "COMPLETED" => Copies(c) # {}
        BY <2>4, <1>2, <3>1 DEF RowsEvolve, Inv, RowsInv, Copies
      <3>5. /\ outbox[c].status \in Statuses \ {"NONE"}
            /\ outbox'[c].status \in Statuses \ {"NONE"}
        <4>1. outbox' \in [Tasks -> Row]
          BY <2>4, <1>2, <3>1, StoreDocType
        <4>2. c \in tasks
          BY <2>4, <1>2, <3>1 DEF Inv, SavingInv, ReplicaInv
        <4>3. QED
          BY <4>1, <4>2, <2>4, <1>2, <3>1 DEF Inv, RowsInv, RowsEvolve, TypeOK, Row
      <3>6. CASE outbox'[c].status = outbox[c].status
        BY <3>1, <3>2, <3>6, <2>4, SameView DEF SameStatus
      <3>7. CASE outbox'[c].status # outbox[c].status
        <4>1. outbox'[c].status \in Settled
          BY <3>5, <3>7, <2>4, <3>1 DEF RowsEvolve, Settled, Statuses
        <4>2. /\ Mark(c) \in {"waiting", "sent", "gaveUp"}
              /\ Mark(c)' \in {"sent", "gaveUp"}
              /\ Mark(c)' = "sent" => Copies(c) # {}
          BY <3>4, <3>5, <4>1 DEF Mark, Settled, Statuses
        <4>3. \A u \in Tasks \ {c} : Mark(u)' = Mark(u)
          BY <3>2 DEF Mark
        <4>4. Relay!MarkAs(c, Mark(c)')
          BY <3>1, <3>3, <4>2, <4>3 DEF Relay!MarkAs
        <4>5. Relay!Settle(c) \/ Relay!Remark(c)
          BY <3>1, <4>2, <4>4 DEF Relay!Settle, Relay!Remark
        <4>6. QED
          BY <3>1, <4>5 DEF Relay!Next
      <3>8. QED
        BY <3>6, <3>7
    <2>5. QED
      BY <1>2, <2>1, <2>2, <2>3, <2>4, StepKinds DEF Relay!Next
  <1>3. QED
    BY <1>1, <1>2, Invariance, PTL DEF Spec, ImplementsRelay, Relay!Spec
=============================================================================
