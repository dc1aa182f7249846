------------------------------- MODULE RevisionProofs -------------------------------
(* Proofs about the way of a revision: DocumentUpload, which stores it, and then     *)
(* RevisionLifecycle, which admits and processes it.  The two have no state in       *)
(* common.  Both for every value of their constants, whatever fails or is            *)
(* interrupted.                                                                      *)
EXTENDS DocumentUpload, RevisionLifecycle, TLAPS

-----------------------------------------------------------------------------
(* Uploads. *)

(* The stages of a handler that has not committed yet, and those in which its  *)
(* file is in the store.                                                       *)
Uncommitted == {"receiving", "received", "checked", "promoted"} \cup Storing
Holding == {"promoted", "rolling", "undoing", "done"} \cup Storing

(* A request that has begun has a document.  One that creates its document is  *)
(* alone with it until the document is committed.                              *)
TargetsFit ==
    /\ \A r \in UploadRequests : stage[r] = "idle" <=> target[r] = None
    /\ \A r \in UploadRequests : r \notin isNew /\ stage[r] # "idle" => target[r] \in docs
    /\ \A r \in isNew : stage[r] # "idle"
    /\ \A r \in isNew : stage[r] \in Uncommitted => target[r] \notin docs
    /\ \A r \in isNew : \A q \in UploadRequests :
          q # r /\ target[q] = target[r] => target[r] \in docs

(* The requests in a transaction on an existing document hold its lock, and no *)
(* others but those whose transaction is still to be rolled back.              *)
LocksFit ==
    /\ \A r \in UploadRequests : r \notin isNew /\ stage[r] \in Storing => lock[target[r]] = r
    /\ \A d \in Documents : lock[d] # None =>
          stage[lock[d]] \in Storing \cup {"rolling"} /\ lock[d] \notin isNew
          /\ target[lock[d]] = d

(* A row is the work of a request that committed, whether or not it knows.     *)
RowsFit ==
    /\ \A row \in rows :
          /\ row.doc = target[row.id]
          /\ \/ stage[row.id] = "done"
             \/ Met(row.id, "commit") /\ stage[row.id] \in {"rolling", "undoing", "failed", "gone"}
    /\ \A r \in UploadRequests : stage[r] = "done" => \E row \in rows : row.id = r

(* What is about to be committed continues what is stored.                     *)
ChoiceFits ==
    \A r \in UploadRequests : stage[r] = "written" =>
        /\ pending[r].id = r /\ pending[r].doc = target[r]
        /\ r \in isNew => pending[r].no = 1 /\ pending[r].supersedes = None
        /\ r \notin isNew =>
              \E old \in rows : /\ IsLatest(old) /\ old.doc = target[r]
                                /\ pending[r].no = old.no + 1 /\ pending[r].supersedes = old.id

(* Where the files of a request can be.                                        *)
FilesFit ==
    /\ \A r \in UploadRequests : stage[r] \in Holding => r \in files
    /\ \A r \in temps : \/ stage[r] \in {"receiving", "received", "checked", "gone"}
                        \/ stage[r] = "failed" /\ (Met(r, "clock") \/ Met(r, "deletion"))
    /\ \A r \in files : \/ stage[r] \in Holding \cup {"gone"}
                        \/ stage[r] = "failed" /\ (Met(r, "rollback") \/ Met(r, "deletion"))
    /\ \A r \in temps : r \notin files

UploadInv ==
    /\ UploadTypeOK /\ TargetsFit /\ LocksFit /\ RowsFit /\ ChoiceFits /\ FilesFit
    /\ HistoryIsLinear /\ MissingFileIsUnanswered

-----------------------------------------------------------------------------
(* Preflight.                                                                  *)

(* Every file gets one of the three statuses.                                  *)
LEMMA VerdictType == \A f : MapPreflight(Inspect(f)).status \in Statuses
BY DEF MapPreflight, Statuses

-----------------------------------------------------------------------------
(* Initially.                                                                  *)
LEMMA UploadInitInv == UploadInit => UploadInv
<1>1. UploadInit => UploadTypeOK
  BY UploadAssumption DEF UploadInit, UploadTypeOK, Stages, Ended, Storing, Statuses
<1>2. UploadInit => TargetsFit /\ LocksFit
  BY DEF UploadInit, TargetsFit, LocksFit, Storing
<1>3. UploadInit => RowsFit /\ ChoiceFits /\ FilesFit /\ HistoryIsLinear /\ MissingFileIsUnanswered
  BY DEF UploadInit, RowsFit, ChoiceFits, FilesFit, Holding, Storing, HistoryIsLinear,
     MissingFileIsUnanswered
<1>. QED BY <1>1, <1>2, <1>3 DEF UploadInv

-----------------------------------------------------------------------------
(* The steps, by what they do to the database.                                 *)

(* Everything before the transaction.                                          *)
Ingests(r) ==
    \/ Receive(r) \/ ReceiveFails(r)
    \/ (\E f \in Uploads : Preflight(r, f)) \/ PreflightFails(r)
    \/ ClockGoesBack(r) \/ Promote(r) \/ PromoteFails(r)
Publishes(r) == Commit(r) \/ CommitUnacknowledged(r)
RollsBack(r) == Rollback(r) \/ RollbackFails(r)

Steps(r) ==
    \/ \E d \in Documents, new \in BOOLEAN : Begin(r, d, new)
    \/ Ingests(r) \/ InsertDocument(r) \/ LockDocument(r) \/ WriteRevision(r)
    \/ Publishes(r) \/ StoreFails(r) \/ RollsBack(r) \/ Interrupt(r)
    \/ Compensate(r)

LEMMA UploadCases == UploadNext <=> \E r \in UploadRequests : Steps(r)
BY DEF UploadNext, Handle, GoesWrong, Steps, Ingests, Publishes, RollsBack

(* Before the transaction only the request's own stage and files change.       *)
LEMMA IngestEffect ==
    ASSUME UploadTypeOK, NEW r \in UploadRequests, Ingests(r)
    PROVE  /\ UNCHANGED <<target, isNew, docs, rows, pending, lock>>
           /\ stage[r] \in {"receiving", "received", "checked"}
           /\ stage'[r] \in {"received", "checked", "promoted", "failed"}
           /\ stage' = [stage EXCEPT ![r] = stage'[r]]
           /\ verdict' \in [UploadRequests -> Statuses]
           /\ mishaps' \subseteq UploadRequests \X Mishaps
           /\ \A q, kind : Met(q, kind) => Met(q, kind)'
           /\ temps' = temps \/ temps' = temps \ {r}
           /\ files' = IF stage'[r] = "promoted" THEN files \cup {r} ELSE files
           /\ stage'[r] = "failed" => r \notin temps' \/ Met(r, "clock")' \/ Met(r, "deletion")'
           /\ stage'[r] = "promoted" => r \notin temps'
<1>1. CASE Receive(r)
  BY <1>1 DEF Receive, Met, Goto, UploadTypeOK
<1>2. CASE ReceiveFails(r)
  BY <1>2 DEF ReceiveFails, DiscardTemp, Meets, Met, Mishaps, Goto, UploadTypeOK
<1>3. ASSUME NEW f \in Uploads, Preflight(r, f)
      PROVE  /\ stage[r] = "received" /\ stage' = [stage EXCEPT ![r] = "checked"]
             /\ verdict' \in [UploadRequests -> Statuses]
             /\ UNCHANGED <<target, isNew, temps, files, docs, rows, pending, lock, mishaps>>
  <2>1. MapPreflight(Inspect(f)).status \in Statuses
    BY VerdictType
  <2>. QED BY <1>3, <2>1 DEF Preflight, Goto, UploadTypeOK
<1>4. CASE \E f \in Uploads : Preflight(r, f)
  BY <1>3, <1>4 DEF Met, UploadTypeOK
<1>5. CASE PreflightFails(r)
  BY <1>5 DEF PreflightFails, DiscardTemp, Meets, Met, Mishaps, Goto, UploadTypeOK
<1>6. CASE Promote(r)
  BY <1>6 DEF Promote, Met, Goto, StorageKey, UploadTypeOK
<1>7. CASE PromoteFails(r)
  BY <1>7 DEF PromoteFails, DiscardTemp, Meets, Met, Mishaps, Goto, UploadTypeOK
<1>8. CASE ClockGoesBack(r)
  BY <1>8 DEF ClockGoesBack, Meets, Met, Mishaps, Goto, UploadTypeOK
<1>. QED BY <1>1, <1>2, <1>4, <1>5, <1>6, <1>7, <1>8 DEF Ingests

(* A commit stores the pending row, with its document, and frees the lock.     *)
LEMMA PublishEffect ==
    ASSUME UploadTypeOK, NEW r \in UploadRequests, Publishes(r)
    PROVE  /\ UNCHANGED <<target, isNew, verdict, temps, files>>
           /\ stage[r] = "written" /\ Publish(r)
           /\ stage' = [stage EXCEPT ![r] = stage'[r]]
           /\ \/ stage'[r] = "done" /\ mishaps' = mishaps
              \/ stage'[r] = "rolling" /\ mishaps' = mishaps \cup {<<r, "commit">>}
           /\ pending[r] \in Row
BY DEF Publishes, Commit, CommitUnacknowledged, Meets, Goto, UploadTypeOK

(* A failure of the transaction leaves everything stored as it is, and the lock.*)
LEMMA FailEffect ==
    ASSUME UploadTypeOK, NEW r \in UploadRequests, StoreFails(r)
    PROVE  /\ UNCHANGED <<target, isNew, verdict, temps, files, docs, rows, lock, mishaps>>
           /\ stage[r] \in {"promoted"} \cup Storing
           /\ stage' = [stage EXCEPT ![r] = "rolling"]
           /\ pending' = [pending EXCEPT ![r] = None]
BY DEF StoreFails, Goto

(* The rollback frees the lock, whether or not it succeeds.                    *)
LEMMA RollEffect ==
    ASSUME UploadTypeOK, NEW r \in UploadRequests, RollsBack(r)
    PROVE  /\ UNCHANGED <<target, isNew, verdict, temps, files, docs, rows, pending>>
           /\ stage[r] = "rolling"
           /\ stage' = [stage EXCEPT ![r] = stage'[r]]
           /\ \/ stage'[r] = "undoing" /\ mishaps' = mishaps
              \/ stage'[r] = "failed" /\ mishaps' = mishaps \cup {<<r, "rollback">>}
           /\ Unlock(r)
BY DEF RollsBack, Rollback, RollbackFails, Meets, Goto, UploadTypeOK

(* An interruption takes back what was not committed.  Of the files it changes *)
(* no more than the operation that was under way.                              *)
LEMMA InterruptEffect ==
    ASSUME UploadTypeOK, NEW r \in UploadRequests, Interrupt(r)
    PROVE  /\ UNCHANGED <<target, isNew, verdict, docs, rows, mishaps>>
           /\ stage[r] \in Uncommitted \cup {"rolling", "undoing"}
           /\ stage' = [stage EXCEPT ![r] = "gone"]
           /\ pending' = [pending EXCEPT ![r] = None]
           /\ temps' \in {temps, temps \ {r}}
           /\ \/ files' = files
              \/ stage[r] = "checked" /\ files' = files \cup {r} /\ temps' = temps \ {r}
              \/ stage[r] = "undoing" /\ files' = files \ {r}
           /\ Unlock(r)
BY DEF Interrupt, Underway, StorageKey, Goto, UploadTypeOK, Uncommitted, Storing, Stages, Ended

(* Unlocking leaves the locks of all others.                                   *)
LEMMA UnlockEffect ==
    ASSUME UploadTypeOK, NEW r \in UploadRequests, Unlock(r)
    PROVE  /\ lock' \in [Documents -> UploadRequests \cup {None}]
           /\ \A d \in Documents : lock'[d] # r
           /\ \A d \in Documents : lock'[d] = None \/ lock'[d] = lock[d]
           /\ \A d \in Documents : lock[d] # r => lock'[d] = lock[d]
BY UploadAssumption DEF Unlock, UploadTypeOK

-----------------------------------------------------------------------------
(* The parts of the invariant, each preserved by the steps of any request.     *)
(* Documents are chosen once, and a new one is nobody else's until committed.  *)
LEMMA TargetsStep ==
    ASSUME UploadInv, NEW r \in UploadRequests, Steps(r)
    PROVE  TargetsFit'
<1>. USE UploadAssumption DEF UploadInv, UploadTypeOK
<1>1. CASE \E d \in Documents, new \in BOOLEAN : Begin(r, d, new)
  BY <1>1 DEF Begin, Goto, TargetsFit, Uncommitted, Storing
<1>2. CASE Ingests(r)
  BY <1>2, IngestEffect DEF TargetsFit, Uncommitted, Storing
<1>3. CASE InsertDocument(r)
  BY <1>3 DEF InsertDocument, Goto, TargetsFit, Uncommitted, Storing
<1>4. CASE LockDocument(r)
  BY <1>4 DEF LockDocument, Goto, TargetsFit, Uncommitted, Storing
<1>5. CASE WriteRevision(r)
  BY <1>5 DEF WriteRevision, NewRow, Goto, TargetsFit, Uncommitted, Storing
<1>6. CASE Publishes(r)
  BY <1>6, PublishEffect, UnlockEffect
  DEF Publish, TargetsFit, Uncommitted, Storing
<1>7. CASE StoreFails(r)
  BY <1>7, FailEffect
  DEF TargetsFit, Uncommitted, Storing
<1>8. CASE RollsBack(r)
  BY <1>8, RollEffect, UnlockEffect
  DEF TargetsFit, Uncommitted, Storing
<1>9. CASE Interrupt(r)
  BY <1>9, InterruptEffect, UnlockEffect
  DEF TargetsFit, Uncommitted, Storing
<1>10. CASE Compensate(r)
  BY <1>10 DEF Compensate, Meets, Goto, StorageKey, TargetsFit, Uncommitted, Storing
<1>. QED BY <1>1, <1>2, <1>3, <1>4, <1>5, <1>6, <1>7, <1>8, <1>9, <1>10 DEF Steps

(* A lock comes with the transaction and goes with it.                         *)
LEMMA LocksStep ==
    ASSUME UploadInv, NEW r \in UploadRequests, Steps(r)
    PROVE  LocksFit'
<1>. USE UploadAssumption DEF UploadInv, UploadTypeOK
<1>1. CASE \E d \in Documents, new \in BOOLEAN : Begin(r, d, new)
  BY <1>1 DEF Begin, Goto, LocksFit, TargetsFit, Storing, Uncommitted
<1>2. CASE Ingests(r)
  BY <1>2, IngestEffect DEF LocksFit, TargetsFit, Storing, Uncommitted
<1>3. CASE InsertDocument(r)
  BY <1>3 DEF InsertDocument, Goto, LocksFit, TargetsFit, Storing, Uncommitted
<1>4. CASE LockDocument(r)
  BY <1>4 DEF LockDocument, Goto, LocksFit, TargetsFit, Storing, Uncommitted
<1>5. CASE WriteRevision(r)
  BY <1>5
  DEF WriteRevision, NewRow, Goto, LocksFit, TargetsFit, Storing,
      Uncommitted
<1>6. CASE Publishes(r)
  BY <1>6, PublishEffect, UnlockEffect
  DEF Publish, LocksFit, TargetsFit, Storing, Uncommitted
<1>7. CASE StoreFails(r)
  BY <1>7, FailEffect
  DEF LocksFit, TargetsFit, Storing, Uncommitted
<1>8. CASE RollsBack(r)
  BY <1>8, RollEffect, UnlockEffect
  DEF LocksFit, TargetsFit, Storing, Uncommitted
<1>9. CASE Interrupt(r)
  BY <1>9, InterruptEffect, UnlockEffect
  DEF LocksFit, TargetsFit, Storing, Uncommitted
<1>10. CASE Compensate(r)
  BY <1>10
  DEF Compensate, Meets, Goto, StorageKey, LocksFit, TargetsFit, Storing,
      Uncommitted
<1>. QED BY <1>1, <1>2, <1>3, <1>4, <1>5, <1>6, <1>7, <1>8, <1>9, <1>10 DEF Steps

(* Files follow the stages.                                                    *)
LEMMA FilesStep ==
    ASSUME UploadInv, NEW r \in UploadRequests, Steps(r)
    PROVE  FilesFit'
<1>. USE UploadAssumption DEF UploadInv, UploadTypeOK
<1>1. CASE \E d \in Documents, new \in BOOLEAN : Begin(r, d, new)
  <2>1. /\ stage[r] = "idle" /\ stage' = [stage EXCEPT ![r] = "receiving"]
        /\ temps' = temps \cup {r} /\ files' = files
        /\ \A q, kind : Met(q, kind) => Met(q, kind)'
    BY <1>1 DEF Begin, Goto, Met
  <2>. QED BY <2>1 DEF FilesFit, Holding, Storing, Uncommitted
<1>2. CASE Ingests(r)
  BY <1>2, IngestEffect DEF FilesFit, Holding, Storing, Uncommitted
<1>3. CASE InsertDocument(r)
  BY <1>3 DEF InsertDocument, Goto, Met, FilesFit, Holding, Storing, Uncommitted
<1>4. CASE LockDocument(r)
  BY <1>4 DEF LockDocument, Goto, Met, FilesFit, Holding, Storing, Uncommitted
<1>5. CASE WriteRevision(r)
  BY <1>5
  DEF WriteRevision, NewRow, Goto, Met, FilesFit, Holding, Storing, Uncommitted
<1>6. CASE Publishes(r)
  BY <1>6, PublishEffect, UnlockEffect
  DEF Publish, Met, FilesFit, Holding, Storing, Uncommitted
<1>7. CASE StoreFails(r)
  BY <1>7, FailEffect
  DEF Met, FilesFit, Holding, Storing, Uncommitted
<1>8. CASE RollsBack(r)
  BY <1>8, RollEffect, UnlockEffect
  DEF Met, FilesFit, Holding, Storing, Uncommitted
<1>9. CASE Interrupt(r)
  BY <1>9, InterruptEffect, UnlockEffect
  DEF Met, FilesFit, Holding, Storing, Uncommitted
<1>10. CASE Compensate(r)
  BY <1>10
  DEF Compensate, Meets, Goto, StorageKey, Met, FilesFit, Holding, Storing, Uncommitted
<1>. QED BY <1>1, <1>2, <1>3, <1>4, <1>5, <1>6, <1>7, <1>8, <1>9, <1>10 DEF Steps

(* Rows are only added, by commits.                                            *)
LEMMA RowsStep ==
    ASSUME UploadInv, NEW r \in UploadRequests, Steps(r)
    PROVE  RowsFit'
<1>. USE UploadAssumption DEF UploadInv, UploadTypeOK
<1>1. CASE \E d \in Documents, new \in BOOLEAN : Begin(r, d, new)
  BY <1>1
  DEF Begin, Goto, Row, Met, RowsFit, ChoiceFits, TargetsFit, Uncommitted,
      Storing
<1>2. CASE Ingests(r)
  BY <1>2, IngestEffect
  DEF Row, RowsFit, ChoiceFits, TargetsFit, Uncommitted, Storing
<1>3. CASE InsertDocument(r)
  BY <1>3
  DEF InsertDocument, Goto, Row, Met, RowsFit, ChoiceFits, TargetsFit,
      Uncommitted, Storing
<1>4. CASE LockDocument(r)
  BY <1>4
  DEF LockDocument, Goto, Row, Met, RowsFit, ChoiceFits, TargetsFit, Uncommitted,
      Storing
<1>5. CASE WriteRevision(r)
  BY <1>5
  DEF WriteRevision, NewRow, Goto, Row, Met, RowsFit, ChoiceFits, TargetsFit,
      Uncommitted, Storing
<1>6. CASE Publishes(r)
  BY <1>6, PublishEffect, UnlockEffect
  DEF Publish, Row, Met, RowsFit, ChoiceFits, TargetsFit, Uncommitted, Storing
<1>7. CASE StoreFails(r)
  BY <1>7, FailEffect
  DEF Row, Met, RowsFit, ChoiceFits, TargetsFit, Uncommitted, Storing
<1>8. CASE RollsBack(r)
  BY <1>8, RollEffect, UnlockEffect
  DEF Row, Met, RowsFit, ChoiceFits, TargetsFit, Uncommitted, Storing
<1>9. CASE Interrupt(r)
  BY <1>9, InterruptEffect, UnlockEffect
  DEF Row, Met, RowsFit, ChoiceFits, TargetsFit, Uncommitted, Storing
<1>10. CASE Compensate(r)
  BY <1>10
  DEF Compensate, Meets, Goto, StorageKey, Row, Met, RowsFit, ChoiceFits, TargetsFit,
      Uncommitted, Storing
<1>. QED BY <1>1, <1>2, <1>3, <1>4, <1>5, <1>6, <1>7, <1>8, <1>9, <1>10 DEF Steps

(* Only a request whose commit was not acknowledged takes a stored file.       *)
LEMMA ReportedStep ==
    ASSUME UploadInv, NEW r \in UploadRequests, Steps(r)
    PROVE  MissingFileIsUnanswered'
<1>. USE UploadAssumption DEF UploadInv, UploadTypeOK
<1>1. CASE \E d \in Documents, new \in BOOLEAN : Begin(r, d, new)
  BY <1>1
  DEF Begin, Goto, MissingFileIsUnanswered, StorageKey, Row, Met, RowsFit,
      FilesFit, ChoiceFits, Holding, Uncommitted, Storing
<1>2. CASE Ingests(r)
  BY <1>2, IngestEffect
  DEF MissingFileIsUnanswered, StorageKey, Row, RowsFit, FilesFit,
      ChoiceFits, Holding, Uncommitted, Storing
<1>3. CASE InsertDocument(r)
  BY <1>3
  DEF InsertDocument, Goto, MissingFileIsUnanswered, StorageKey, Row,
      Met, RowsFit, FilesFit, ChoiceFits, Holding, Uncommitted, Storing
<1>4. CASE LockDocument(r)
  BY <1>4
  DEF LockDocument, Goto, MissingFileIsUnanswered, StorageKey, Row, Met, RowsFit,
      FilesFit, ChoiceFits, Holding, Uncommitted, Storing
<1>5. CASE WriteRevision(r)
  BY <1>5
  DEF WriteRevision, NewRow, Goto, MissingFileIsUnanswered, StorageKey, Row,
      Met, RowsFit, FilesFit, ChoiceFits, Holding, Uncommitted, Storing
<1>6. CASE Publishes(r)
  BY <1>6, PublishEffect, UnlockEffect
  DEF Publish, MissingFileIsUnanswered, StorageKey, Row, Met, RowsFit, FilesFit,
      ChoiceFits, Holding, Uncommitted, Storing
<1>7. CASE StoreFails(r)
  BY <1>7, FailEffect
  DEF MissingFileIsUnanswered, StorageKey, Row, Met, RowsFit, FilesFit,
      ChoiceFits, Holding, Uncommitted, Storing
<1>8. CASE RollsBack(r)
  BY <1>8, RollEffect, UnlockEffect
  DEF MissingFileIsUnanswered, StorageKey, Row, Met, RowsFit, FilesFit,
      ChoiceFits, Holding, Uncommitted, Storing
<1>9. CASE Interrupt(r)
  BY <1>9, InterruptEffect, UnlockEffect
  DEF MissingFileIsUnanswered, StorageKey, Row, Met, RowsFit, FilesFit,
      ChoiceFits, Holding, Uncommitted, Storing
<1>10. CASE Compensate(r)
  BY <1>10
  DEF Compensate, Meets, Goto, StorageKey, MissingFileIsUnanswered, StorageKey, Row,
      Met, RowsFit, FilesFit, ChoiceFits, Holding, Uncommitted, Storing
<1>. QED BY <1>1, <1>2, <1>3, <1>4, <1>5, <1>6, <1>7, <1>8, <1>9, <1>10 DEF Steps

(* Nothing that another request stores changes what a request continues.       *)
LEMMA ChoiceStep ==
    ASSUME UploadInv, NEW r \in UploadRequests, Steps(r)
    PROVE  ChoiceFits'
<1>. USE UploadAssumption DEF UploadInv, UploadTypeOK
<1>1. CASE \E d \in Documents, new \in BOOLEAN : Begin(r, d, new)
  BY <1>1
  DEF Begin, Goto, ChoiceFits, TargetsFit, LocksFit, IsLatest, RevisionsOf,
      Row, HistoryIsLinear, Uncommitted, Storing
<1>2. CASE Ingests(r)
  BY <1>2, IngestEffect
  DEF ChoiceFits, TargetsFit, LocksFit, IsLatest, RevisionsOf, Row,
      HistoryIsLinear, Uncommitted, Storing
<1>3. CASE InsertDocument(r)
  BY <1>3
  DEF InsertDocument, Goto, ChoiceFits, TargetsFit, LocksFit, IsLatest,
      RevisionsOf, Row, HistoryIsLinear, Uncommitted, Storing
<1>4. CASE LockDocument(r)
  BY <1>4
  DEF LockDocument, Goto, ChoiceFits, TargetsFit, LocksFit, IsLatest,
      RevisionsOf, Row, HistoryIsLinear, Uncommitted, Storing
<1>5. CASE WriteRevision(r)
  BY <1>5
  DEF WriteRevision, NewRow, Goto, ChoiceFits, TargetsFit, LocksFit,
      IsLatest, RevisionsOf, Row, HistoryIsLinear, Uncommitted, Storing
<1>6. CASE Publishes(r)
  BY <1>6, PublishEffect, UnlockEffect
  DEF Publish, ChoiceFits, TargetsFit, LocksFit, IsLatest, RevisionsOf, Row,
      HistoryIsLinear, Uncommitted, Storing
<1>7. CASE StoreFails(r)
  BY SMTT(60), <1>7, FailEffect
  DEF ChoiceFits, TargetsFit, LocksFit, IsLatest, RevisionsOf, Row,
      HistoryIsLinear, Uncommitted, Storing
<1>8. CASE RollsBack(r)
  BY SMTT(60), <1>8, RollEffect, UnlockEffect
  DEF ChoiceFits, TargetsFit, LocksFit, IsLatest, RevisionsOf, Row,
      HistoryIsLinear, Uncommitted, Storing
<1>9. CASE Interrupt(r)
  BY SMTT(60), <1>9, InterruptEffect, UnlockEffect
  DEF ChoiceFits, TargetsFit, LocksFit, IsLatest, RevisionsOf, Row,
      HistoryIsLinear, Uncommitted, Storing
<1>10. CASE Compensate(r)
  BY <1>10
  DEF Compensate, Meets, Goto, StorageKey, ChoiceFits, TargetsFit, LocksFit,
      IsLatest, RevisionsOf, Row, HistoryIsLinear, Uncommitted, Storing
<1>. QED BY <1>1, <1>2, <1>3, <1>4, <1>5, <1>6, <1>7, <1>8, <1>9, <1>10 DEF Steps

(* A commit appends to the history of its document.                            *)
LEMMA HistoryStep ==
    ASSUME UploadInv, NEW r \in UploadRequests, Steps(r)
    PROVE  HistoryIsLinear'
<1>. USE UploadAssumption DEF UploadInv, UploadTypeOK
<1>1. CASE \E d \in Documents, new \in BOOLEAN : Begin(r, d, new)
  BY <1>1
  DEF Begin, Goto, HistoryIsLinear, ChoiceFits, TargetsFit, IsLatest,
      RevisionsOf, NumberTaken, Row, Uncommitted, Storing
<1>2. CASE Ingests(r)
  BY <1>2, IngestEffect
  DEF HistoryIsLinear, ChoiceFits, TargetsFit, IsLatest, RevisionsOf,
      NumberTaken, Row, Uncommitted, Storing
<1>3. CASE InsertDocument(r)
  BY <1>3
  DEF InsertDocument, Goto, HistoryIsLinear, ChoiceFits, TargetsFit,
      IsLatest, RevisionsOf, NumberTaken, Row, Uncommitted, Storing
<1>4. CASE LockDocument(r)
  BY <1>4
  DEF LockDocument, Goto, HistoryIsLinear, ChoiceFits, TargetsFit, IsLatest,
      RevisionsOf, NumberTaken, Row, Uncommitted, Storing
<1>5. CASE WriteRevision(r)
  BY <1>5
  DEF WriteRevision, NewRow, Goto, HistoryIsLinear, ChoiceFits, TargetsFit,
      IsLatest, RevisionsOf, NumberTaken, Row, Uncommitted, Storing
<1>6. CASE Publishes(r)
  BY <1>6, PublishEffect, UnlockEffect
  DEF Publish, HistoryIsLinear, ChoiceFits, TargetsFit, IsLatest,
      RevisionsOf, NumberTaken, Row, Uncommitted, Storing
<1>7. CASE StoreFails(r)
  BY <1>7, FailEffect
  DEF HistoryIsLinear, ChoiceFits, TargetsFit, IsLatest, RevisionsOf,
      NumberTaken, Row, Uncommitted, Storing
<1>8. CASE RollsBack(r)
  BY <1>8, RollEffect, UnlockEffect
  DEF HistoryIsLinear, ChoiceFits, TargetsFit, IsLatest, RevisionsOf,
      NumberTaken, Row, Uncommitted, Storing
<1>9. CASE Interrupt(r)
  BY <1>9, InterruptEffect, UnlockEffect
  DEF HistoryIsLinear, ChoiceFits, TargetsFit, IsLatest, RevisionsOf,
      NumberTaken, Row, Uncommitted, Storing
<1>10. CASE Compensate(r)
  BY <1>10
  DEF Compensate, Meets, Goto, StorageKey, HistoryIsLinear, ChoiceFits, TargetsFit,
      IsLatest, RevisionsOf, NumberTaken, Row, Uncommitted, Storing
<1>. QED BY <1>1, <1>2, <1>3, <1>4, <1>5, <1>6, <1>7, <1>8, <1>9, <1>10 DEF Steps

(* Every step keeps the variables well-formed.                                 *)
LEMMA UploadTypeStep ==
    ASSUME UploadInv, NEW r \in UploadRequests, Steps(r)
    PROVE  UploadTypeOK'
<1>. USE UploadAssumption DEF UploadInv, UploadTypeOK
<1>1. CASE \E d \in Documents, new \in BOOLEAN : Begin(r, d, new)
  BY <1>1
  DEF Begin, Goto, Stages, Ended, Statuses, Mishaps, Row, TargetsFit, Storing,
      Uncommitted
<1>2. CASE Ingests(r)
  BY <1>2, IngestEffect
  DEF Stages, Ended, Statuses, Mishaps, Row, TargetsFit, Storing, Uncommitted
<1>3. CASE InsertDocument(r)
  BY <1>3
  DEF InsertDocument, Goto, Stages, Ended, Statuses, Mishaps, Row, TargetsFit,
      Storing, Uncommitted
<1>4. CASE LockDocument(r)
  BY <1>4
  DEF LockDocument, Goto, Stages, Ended, Statuses, Mishaps, Row, TargetsFit, Storing,
      Uncommitted
<1>5. CASE WriteRevision(r)
  <2> DEFINE First == {NewRow(r, 1, None)}
             Following == {NewRow(r, last.no + 1, last.id) :
                             last \in {l \in RevisionsOf(target[r]) : IsLatest(l)}}
  <2>1. PICK row \in (IF r \in isNew THEN First ELSE Following) :
           pending' = [pending EXCEPT ![r] = row]
    BY <1>5 DEF WriteRevision
  <2>2. row \in Row
    <3>1. target[r] \in Documents /\ verdict[r] \in Statuses
      BY <1>5 DEF WriteRevision, TargetsFit
    <3>2. \A no \in Nat \ {0}, s \in UploadRequests \cup {None} : NewRow(r, no, s) \in Row
      BY <3>1 DEF NewRow, Row
    <3>3. \A old \in RevisionsOf(target[r]) : old.no + 1 \in Nat \ {0} /\ old.id \in UploadRequests
      BY DEF Row, RevisionsOf
    <3>4. First \subseteq Row
      <4>1. 1 \in Nat \ {0} /\ None \in UploadRequests \cup {None}
        OBVIOUS
      <4>2. NewRow(r, 1, None) \in Row
        BY <3>2, <4>1
      <4>. QED BY ONLY <4>2
    <3>5. Following \subseteq Row
      BY <3>2, <3>3
    <3>. QED BY <2>1, <3>4, <3>5
  <2>. QED BY <1>5, <2>1, <2>2 DEF WriteRevision, Goto, Stages, Storing
<1>6. CASE Publishes(r)
  BY <1>6, PublishEffect, UnlockEffect
  DEF Publish, Stages, Ended, Statuses, Mishaps, Row, TargetsFit, Storing,
      Uncommitted
<1>7. CASE StoreFails(r)
  BY <1>7, FailEffect
  DEF Stages, Ended, Statuses, Mishaps, Row, TargetsFit, Storing, Uncommitted
<1>8. CASE RollsBack(r)
  BY <1>8, RollEffect, UnlockEffect
  DEF Stages, Ended, Statuses, Mishaps, Row, TargetsFit, Storing, Uncommitted
<1>9. CASE Interrupt(r)
  BY <1>9, InterruptEffect, UnlockEffect
  DEF Stages, Ended, Statuses, Mishaps, Row, TargetsFit, Storing, Uncommitted
<1>10. CASE Compensate(r)
  BY <1>10
  DEF Compensate, Meets, Goto, StorageKey, Stages, Ended, Statuses, Mishaps, Row,
      TargetsFit, Storing, Uncommitted
<1>. QED BY <1>1, <1>2, <1>3, <1>4, <1>5, <1>6, <1>7, <1>8, <1>9, <1>10 DEF Steps

-----------------------------------------------------------------------------
(* The invariant holds in every reachable state: a request's step preserves it *)
(* part by part, and a stuttering step leaves everything it speaks of alone.   *)
THEOREM UploadInvariance == UploadSpec => []UploadInv
<1>1. UploadInit => UploadInv
  BY UploadInitInv
<1>2. UploadInv /\ [UploadNext]_uploadVars => UploadInv'
  <2>. SUFFICES ASSUME UploadInv, [UploadNext]_uploadVars PROVE UploadInv'
    OBVIOUS
  <2>1. CASE UploadNext
    <3>1. PICK r \in UploadRequests : Steps(r)
      BY <2>1, UploadCases
    <3>. QED
      BY <3>1, TargetsStep, LocksStep, FilesStep, RowsStep, ReportedStep, ChoiceStep,
         HistoryStep, UploadTypeStep DEF UploadInv
  <2>2. CASE UNCHANGED uploadVars
    BY <2>2
    DEF uploadVars, UploadInv, UploadTypeOK, TargetsFit, LocksFit, RowsFit, ChoiceFits,
        FilesFit, Met, HistoryIsLinear, MissingFileIsUnanswered, IsLatest, RevisionsOf
  <2>. QED BY <2>1, <2>2
<1>. QED BY <1>1, <1>2, PTL DEF UploadSpec

(* Revision numbers of a document have neither gaps nor repetitions, and what  *)
(* a request is about to commit stays right whatever the others do: the row    *)
(* lock of document_upload.py is enough, for any number of uploads.            *)
THEOREM HistoryTheorem == UploadSpec => []HistoryStaysLinear
<1>1. UploadInv => ChoiceStaysRight
  <2>. SUFFICES ASSUME UploadInv, NEW r \in UploadRequests, stage[r] = "written"
       PROVE  /\ ~NumberTaken(pending[r])
              /\ pending[r].no > 1 =>
                    \E old \in rows : IsLatest(old) /\ old.id = pending[r].supersedes
    BY DEF ChoiceStaysRight
  <2>. USE DEF UploadInv
  <2>1. CASE r \in isNew
    BY <2>1
    DEF ChoiceFits, TargetsFit, Uncommitted, Storing, HistoryIsLinear, NumberTaken
  <2>2. CASE r \notin isNew
    <3>1. PICK old \in rows : /\ IsLatest(old) /\ old.doc = target[r]
                              /\ pending[r].no = old.no + 1
                              /\ pending[r].supersedes = old.id
      BY <2>2 DEF ChoiceFits
    <3>2. \A row \in rows : row.no \in Nat
      BY DEF UploadTypeOK, Row
    <3>. QED
      BY <3>1, <3>2 DEF ChoiceFits, NumberTaken, IsLatest, RevisionsOf
  <2>. QED BY <2>1, <2>2
<1>2. UploadInv => HistoryStaysLinear
  BY <1>1 DEF UploadInv, HistoryStaysLinear
<1>. QED BY <1>2, UploadInvariance, PTL

(* An answered upload has its revision and its file, and a stored revision     *)
(* without its file is that of a request that never learnt of its commit: the  *)
(* compensation and the cleaning of file_ingestion.py never touch what another *)
(* request was told is stored.                                                 *)
THEOREM FilesTheorem == UploadSpec => []FilesFollowAnswers
<1>1. UploadInv => FilesFollowAnswers
  BY DEF UploadInv, FilesFollowAnswers, AnsweredIsStored, RowsFit, FilesFit, Holding,
         StorageKey
<1>. QED BY <1>1, UploadInvariance, PTL

(* What a failed upload leaves has a cause of its own: a temporary file the    *)
(* clock or a failed deletion, a promoted file a failed rollback or deletion,  *)
(* a revision a lost answer to the commit.  It never leaves both files, and    *)
(* never a lock (upload_document_for_project).                                 *)
THEOREM FailureTheorem == UploadSpec => []LeftoversAreExplained
<1>1. UploadInv => LeftoversAreExplained
  <2>. SUFFICES ASSUME UploadInv, NEW r \in UploadRequests, stage[r] = "failed"
       PROVE  /\ r \in temps => Met(r, "clock") \/ Met(r, "deletion")
              /\ StorageKey(r) \in files => Met(r, "rollback") \/ Met(r, "deletion")
              /\ r \in {row.id : row \in rows} => Met(r, "commit")
              /\ ~(r \in temps /\ StorageKey(r) \in files)
              /\ \A d \in Documents : lock[d] # r
    BY DEF LeftoversAreExplained
  <2>. USE DEF UploadInv
  <2>1. r \in temps => Met(r, "clock") \/ Met(r, "deletion")
    BY DEF FilesFit
  <2>2. StorageKey(r) \in files => Met(r, "rollback") \/ Met(r, "deletion")
    BY DEF FilesFit, Holding, Storing, StorageKey
  <2>3. ~(r \in temps /\ StorageKey(r) \in files)
    BY DEF FilesFit, StorageKey
  <2>4. r \in {row.id : row \in rows} => Met(r, "commit")
    BY DEF RowsFit
  <2>5. \A d \in Documents : lock[d] # r
    BY UploadAssumption DEF LocksFit, Storing
  <2>. QED BY <2>1, <2>2, <2>3, <2>4, <2>5
<1>. QED BY <1>1, UploadInvariance, PTL

(* A file reaches admission only if its content is of the kind its extension   *)
(* names and could be read, whatever stops it has a blocking flag, and a       *)
(* report without remarks means none was made: for every file and every limit  *)
(* of the entries of an archive (file_ingestion.py, _inspect_bytes).           *)
THEOREM VerdictTheorem == \A f \in Files : VerdictIsSound(f)
<1>. SUFFICES ASSUME NEW f \in Files PROVE VerdictIsSound(f)
  OBVIOUS
<1>1. CASE f.ext = ".pdf"
  BY <1>1 DEF VerdictIsSound, Inspect, InspectPdf, MapPreflight, Rejects, Passes, Verdict,
     CommonWarnings, MimeWarning, BlockingFlags, IsPdf, Files, Extensions
<1>2. CASE f.ext = ".docx"
  BY <1>2 DEF VerdictIsSound, Inspect, InspectDocx, MapPreflight, Rejects, Passes, Verdict,
     CommonWarnings, MimeWarning, BlockingFlags, IsZip, Files, Extensions
<1>3. CASE f.ext = ".txt"
  BY <1>3 DEF VerdictIsSound, Inspect, InspectText, MapPreflight, Rejects, Passes, Verdict,
     CommonWarnings, MimeWarning, BlockingFlags, IsPdf, IsZip, Files, Extensions, Contents
<1>4. CASE f.ext = ".other"
  BY <1>4 DEF VerdictIsSound, Inspect, MapPreflight, Rejects, Verdict,
     CommonWarnings, BlockingFlags, Files, Extensions
<1>. QED BY <1>1, <1>2, <1>3, <1>4 DEF Files, Extensions

-----------------------------------------------------------------------------
(* Admission and processing. *)

USE StoreAssumption DEF Attempts

------------------------------------------------------------------------------
(* The operators on rows. *)

\* A flush leaves a well-formed row, whose status and authority are the computed
\* ones or the stored ones.
LEMMA FlushType ==
    ASSUME NEW row \in Revision, NEW seen, NEW status \in RevisionStatus,
           NEW authority \in Authorities
    PROVE  /\ Flush(row, seen, status, authority) \in Revision
           /\ Flush(row, seen, status, authority).status \in {status, row.status}
           /\ Flush(row, seen, status, authority).authority \in {authority, row.authority}
BY DEF Flush, Revision

\* Timestamps stay in range when the clock advances.
LEMMA AgeType ==
    /\ \A age \in 0..StaleTicks : Older(age) \in 0..StaleTicks
    /\ \A left \in 0..LeaseTicks : Shorter(left) \in 0..LeaseTicks
BY DEF Older, Shorter

\* The fields of a job row, and the rows that operations write.
LEMMA JobFields ==
    ASSUME NEW row \in Job
    PROVE  /\ row.status \in {"absent", "queued", "running", "completed", "failed"}
           /\ row.lease \in 0..LeaseTicks
           /\ row.run \in Nat
           /\ row.run # 0 <=> row.status = "completed"
BY DEF Job, NoJob, QueuedJob, FailedJob

\* The rows without a lease are legal rows, and failing any job gives one of them.
LEMMA JobRows ==
    /\ NoJob \in Job
    /\ QueuedJob \in Job
    /\ FailedJob \in Job
    /\ \A row \in Job : MarkFailed(row) = FailedJob
BY DEF Job, NoJob, QueuedJob, FailedJob, MarkFailed

\* Renewing the lease of a running job keeps the shape of its row.
LEMMA RenewedRow ==
    ASSUME NEW row \in Job, row.status = "running"
    PROVE  [row EXCEPT !.lease = LeaseTicks] \in Job
<1> DEFINE Running == [status : {"running"}, token : Workers, lease : 0..LeaseTicks, run : {0}]
<1>1. row \in Running
  BY DEF Job, NoJob, QueuedJob, FailedJob
<1>2. LeaseTicks \in 0..LeaseTicks
  OBVIOUS
<1>3. [row EXCEPT !.lease = LeaseTicks] \in Running
  BY <1>1, <1>2
<1>. QED BY <1>3 DEF Job

\* A tick of the clock keeps the shape, the status and the result of a job row.
LEMMA ShorterRow ==
    ASSUME NEW row \in Job
    PROVE  /\ [row EXCEPT !.lease = Shorter(row.lease)] \in Job
           /\ [row EXCEPT !.lease = Shorter(row.lease)].status = row.status
           /\ [row EXCEPT !.lease = Shorter(row.lease)].run = row.run
BY AgeType DEF Job, NoJob, QueuedJob, FailedJob, Shorter

\* The default records of an idle request and of an idle worker are legal.
LEMMA Defaults == NoPage \in Page /\ IdleWorker \in Worker
BY JobRows DEF NoPage, Page, Revision, Report, IdleWorker, Worker, RevisionStatus,
   Authorities, ReportOutcomes, Decisions

\* A worker that is not idle works on an attempt, and only such a one has a
\* heartbeat; its program counter may move on.
LEMMA WorkerFields ==
    ASSUME NEW row \in Worker
    PROVE  /\ row.pc # "idle" => row.job \in Attempts
           /\ row.beat => row.pc # "idle"
           /\ row.pc = "idle" => row.job = 0
           /\ row.pc # "idle" =>
                \A pc \in {"claimed", "parsing", "extracting", "failing"} :
                  /\ [row EXCEPT !.pc = pc] \in Worker
                  /\ [row EXCEPT !.pc = pc, !.beat = FALSE] \in Worker
           /\ row.pc # "idle" => [row EXCEPT !.beat = FALSE] \in Worker
<1> DEFINE Busy == [pc : {"claimed", "parsing", "extracting", "failing"},
                    job : Attempts, beat : BOOLEAN]
<1>1. CASE row = IdleWorker
  BY <1>1 DEF IdleWorker
<1>2. CASE row \in Busy
  <2>1. row.pc # "idle" /\ row.job \in Attempts
    BY <1>2
  <2>2. \A pc \in {"claimed", "parsing", "extracting", "failing"} :
          [row EXCEPT !.pc = pc] \in Busy
    BY <1>2
  <2>3. \A pc \in {"claimed", "parsing", "extracting", "failing"} :
          [row EXCEPT !.pc = pc, !.beat = FALSE] \in Busy
    BY <1>2
  <2>4. [row EXCEPT !.beat = FALSE] \in Busy
    BY <1>2
  <2>5. Busy \subseteq Worker
    BY DEF Worker
  <2>. HIDE DEF Busy
  <2>. QED BY <2>1, <2>2, <2>3, <2>4, <2>5
<1>. QED BY <1>1, <1>2 DEF Worker

------------------------------------------------------------------------------
(* Type correctness. *)

\* A new attempt keeps the job table well-formed.
LEMMA CreateType ==
    ASSUME NEW old \in [Attempts -> Job], attempts \in 0..MaxAttempts,
           CreateQueuedJob(old)
    PROVE  /\ attempts' \in 0..MaxAttempts /\ job' \in [Attempts -> Job]
           /\ attempts' = attempts + 1 /\ attempts + 1 \in Attempts
<1>1. attempts' = attempts + 1 /\ attempts + 1 \in Attempts
  BY DEF CreateQueuedJob
<1>. QED BY <1>1, JobRows DEF CreateQueuedJob

\* The operator transactions of the job service keep the rows well-formed.
LEMMA OperatorStoreType ==
    ASSUME StoreTypeOK, NEW seen, seen.revision \in Revision
    PROVE  /\ EnqueueNew(seen) => StoreTypeOK'
           /\ \A a \in Attempts : EnqueueExisting(seen, a) => StoreTypeOK'
           /\ Retry(seen) => StoreTypeOK'
           /\ RecoverIdle(seen) => StoreTypeOK'
           /\ \A a \in Attempts : RecoverExpired(seen, a) => StoreTypeOK'
           /\ EnqueueNew(seen) \/ Retry(seen) => attempts + 1 \in Attempts
           /\ RecoverIdle(seen) => attempts + 1 \in Attempts
           /\ \A a \in Attempts :
                RecoverExpired(seen, a) /\ ~UnlinkedRun => attempts + 1 \in Attempts
<1> DEFINE R == Flush(revision, seen.revision, "accepted", seen.revision.authority)
<1>1. R \in Revision
  <2>1. seen.revision.authority \in Authorities
    BY DEF Revision
  <2>2. "accepted" \in RevisionStatus
    BY DEF RevisionStatus
  <2>. QED BY <2>1, <2>2, FlushType DEF StoreTypeOK
<1>2. ReacceptIfStarted(seen) => revision' \in Revision
  BY <1>1 DEF ReacceptIfStarted, Reaccept, StoreTypeOK
<1>3. EnqueueNew(seen) => StoreTypeOK'
  BY CreateType DEF EnqueueNew, StoreTypeOK
<1>4. \A a \in Attempts : EnqueueExisting(seen, a) => StoreTypeOK'
  BY DEF EnqueueExisting, storeVars, StoreTypeOK
<1>5. Retry(seen) => StoreTypeOK'
  BY <1>1, CreateType DEF Retry, Reaccept, StoreTypeOK
<1>6. RecoverIdle(seen) => StoreTypeOK'
  BY <1>2, CreateType DEF RecoverIdle, StoreTypeOK
<1>7. ASSUME NEW a \in Attempts, RecoverExpired(seen, a)
      PROVE  StoreTypeOK'
  <2> DEFINE closed == [job EXCEPT ![a] = MarkFailed(job[a])]
  <2>1. closed \in [Attempts -> Job]
    BY JobRows DEF StoreTypeOK, MarkFailed
  <2>2. CASE UnlinkedRun
    BY <1>7, <2>1, <2>2 DEF RecoverExpired, StoreTypeOK
  <2>3. CASE ~UnlinkedRun
    <3>1. CreateQueuedJob(closed) /\ ReacceptIfStarted(seen) /\ UNCHANGED <<report, runs>>
      BY <1>7, <2>3 DEF RecoverExpired
    <3>. QED BY <1>2, <2>1, <3>1, CreateType DEF StoreTypeOK
  <2>. QED BY <2>2, <2>3
<1>8. EnqueueNew(seen) \/ Retry(seen) => attempts + 1 \in Attempts
  BY CreateType DEF EnqueueNew, Retry, StoreTypeOK
<1>9. RecoverIdle(seen) => attempts + 1 \in Attempts
  BY CreateType DEF RecoverIdle, StoreTypeOK
<1>10. ASSUME NEW a \in Attempts, RecoverExpired(seen, a), ~UnlinkedRun
       PROVE  attempts + 1 \in Attempts
  BY <1>10 DEF RecoverExpired, CreateQueuedJob, StoreTypeOK
<1>. QED BY <1>3, <1>4, <1>5, <1>6, <1>7, <1>8, <1>9, <1>10

\* So do the transactions of admission.
LEMMA AdmissionStoreType ==
    ASSUME StoreTypeOK, NEW seen, seen.revision \in Revision, NEW decision \in Decisions
    PROVE  /\ ResolveAdmission => StoreTypeOK'
           /\ Decide(seen, decision) => StoreTypeOK'
           /\ RepeatDecision(seen, decision) => StoreTypeOK'
<1>1. ResolveAdmission => StoreTypeOK'
  <2>1. AdmissionStatus[report.outcome] \in RevisionStatus /\ revision.authority \in Authorities
    BY DEF AdmissionStatus, StoreTypeOK, Report, ReportOutcomes, RevisionStatus, Revision
  <2>. QED BY <2>1, FlushType DEF ResolveAdmission, StoreTypeOK
<1>2. Decide(seen, decision) => StoreTypeOK'
  <2>1. /\ DecidedStatus(decision) \in RevisionStatus
        /\ DecidedAuthority(decision, seen.revision.authority) \in Authorities
    BY DEF DecidedStatus, DecidedAuthority, RevisionStatus, Authorities, Revision
  <2>2. [report EXCEPT !.decision = decision] \in Report
    BY DEF StoreTypeOK, Report
  <2>. QED BY <2>1, <2>2, FlushType DEF Decide, StoreTypeOK
<1>3. RepeatDecision(seen, decision) => StoreTypeOK'
  BY DEF RepeatDecision, storeVars, StoreTypeOK
<1>. QED BY <1>1, <1>2, <1>3

\* And the transactions of the workers.
LEMMA WorkerStoreType ==
    ASSUME StoreTypeOK, NEW w \in Workers, NEW a \in Attempts
    PROVE  /\ ClaimJob(w, a) => StoreTypeOK'
           /\ RenewLease(w, a) => StoreTypeOK'
           /\ FailJob(w, a) => StoreTypeOK'
           /\ \A outcome \in ExtractionOutcomes : CompleteJob(w, a, outcome) => StoreTypeOK'
<1>1. ClaimJob(w, a) => StoreTypeOK'
  BY DEF ClaimJob, StoreTypeOK, Job
<1>2. RenewLease(w, a) => StoreTypeOK'
  <2>1. job[a].status = "running" => [job[a] EXCEPT !.lease = LeaseTicks] \in Job
    BY RenewedRow DEF StoreTypeOK
  <2>. QED BY <2>1 DEF RenewLease, LeaseHeld, StoreTypeOK
<1>3. FailJob(w, a) => StoreTypeOK'
  BY JobRows DEF FailJob, StoreTypeOK, MarkFailed
<1>4. ASSUME NEW outcome \in ExtractionOutcomes, CompleteJob(w, a, outcome)
      PROVE  StoreTypeOK'
  <2>1. ExtractedStatus(outcome) \in RevisionStatus /\ revision.authority \in Authorities
    BY DEF ExtractedStatus, RevisionStatus, StoreTypeOK, Revision
  <2>2. revision' \in Revision
    BY <1>4, <2>1, FlushType DEF CompleteJob, StoreTypeOK
  <2>3. outcome \in RunOutcomes /\ runs' = Append(runs, outcome)
    BY <1>4 DEF CompleteJob
  <2>4. runs' \in Seq(RunOutcomes) /\ Len(runs) + 1 \in Nat \ {0}
    BY <2>3 DEF StoreTypeOK
  <2>5. [status |-> "completed", token |-> NoWorker, lease |-> 0, run |-> Len(runs) + 1] \in Job
    BY <2>4 DEF Job
  <2>6. job' \in [Attempts -> Job]
    BY <1>4, <2>5 DEF CompleteJob, StoreTypeOK
  <2>. QED BY <1>4, <2>2, <2>4, <2>6 DEF CompleteJob, StoreTypeOK
<1>. QED BY <1>1, <1>2, <1>3, <1>4

\* One step of the system keeps every variable well-formed.
LEMMA TypeStep == TypeOK /\ [Next]_vars => TypeOK'
<1> SUFFICES ASSUME TypeOK, [Next]_vars PROVE TypeOK'
  OBVIOUS
<1> USE DEF TypeOK, ExecutorTypeOK
<1>1. \A q \in Requests : request[q] \in Page /\ request[q].revision \in Revision
  BY DEF Page
<1>2. UploadPage.revision \in Revision
  BY DEF UploadPage, Revision, RevisionStatus, Authorities
<1>3. CASE ResolveUpload
  <2>1. StoreTypeOK'
    BY <1>2, <1>3, AdmissionStoreType DEF ResolveUpload, Decisions
  <2>. QED BY <1>3, <2>1 DEF ResolveUpload, executorVars
<1>4. CASE EnqueueUpload
  <2>1. StoreTypeOK'
    BY <1>2, <1>4, OperatorStoreType DEF EnqueueUpload
  <2>2. tasks' \subseteq Attempts
    <3>1. CASE EnqueueNew(UploadPage) /\ tasks' = tasks \cup {attempts + 1}
      BY <1>2, <3>1, OperatorStoreType
    <3>2. ASSUME NEW a \in Attempts, tasks' = tasks \cup {a} PROVE tasks' \subseteq Attempts
      BY <3>2
    <3>. QED BY <1>4, <3>1, <3>2 DEF EnqueueUpload
  <2>. QED BY <1>4, <2>1, <2>2 DEF EnqueueUpload
<1>5. CASE UploadFails
  BY <1>5 DEF UploadFails, storeVars, executorVars, StoreTypeOK
<1>6. ASSUME NEW q \in Requests, Operate(q)
      PROVE  TypeOK'
  <2>1. CASE LoadPage(q)
    <3>1. (IF attempts = 0 THEN NoJob ELSE job[attempts]) \in Job
      BY JobRows DEF StoreTypeOK
    <3>2. request' \in [Requests -> Page]
      BY <2>1, <3>1 DEF LoadPage, Page, StoreTypeOK
    <3>. QED BY <2>1, <3>2 DEF LoadPage, storeVars, executorVars, StoreTypeOK
  <2>2. ASSUME NEW decision \in Decisions, SubmitDecision(q, decision)
        PROVE  TypeOK'
    <3>1. StoreTypeOK'
      BY <1>1, <2>2, AdmissionStoreType DEF SubmitDecision
    <3>2. DecidedRevision(request[q].revision, decision) \in Revision
      BY <1>1 DEF DecidedRevision, DecidedStatus, DecidedAuthority, Revision,
         RevisionStatus, Authorities
    <3>3. request' \in [Requests -> Page]
      <4> DEFINE page == [request[q] EXCEPT
                            !.stage = "decided",
                            !.revision = DecidedRevision(request[q].revision, decision),
                            !.report.decision = decision]
      <4>1. page \in Page
        BY ZenonT(60), <1>1, <3>2 DEF Page, Report
      <4>2. request' = [request EXCEPT ![q] = NoPage] \/ request' = [request EXCEPT ![q] = page]
        BY <2>2 DEF SubmitDecision, Close
      <4>. QED BY <4>1, <4>2, Defaults
    <3>. QED BY <2>2, <3>1, <3>3 DEF SubmitDecision, executorVars
  <2>3. ASSUME NEW decision \in Decisions, ResubmitDecision(q, decision)
        PROVE  TypeOK'
    <3>1. StoreTypeOK'
      BY <1>1, <2>3, AdmissionStoreType DEF ResubmitDecision
    <3>2. request' \in [Requests -> Page]
      BY <1>1, <2>3 DEF ResubmitDecision, Page
    <3>. QED BY <2>3, <3>1, <3>2 DEF ResubmitDecision, executorVars
  <2>4. CASE StartProcessing(q)
    <3>1. StoreTypeOK'
      BY <1>1, <2>4, OperatorStoreType DEF StartProcessing
    <3>2. tasks' \subseteq Attempts
      <4>1. CASE EnqueueNew(request[q]) /\ tasks' = tasks \cup {attempts + 1}
        BY <1>1, <4>1, OperatorStoreType
      <4>2. ASSUME NEW a \in Attempts, tasks' \in {tasks, tasks \cup {a}}
            PROVE  tasks' \subseteq Attempts
        BY <4>2
      <4>. QED BY <2>4, <4>1, <4>2 DEF StartProcessing
    <3>. QED BY <2>4, <3>1, <3>2, Defaults DEF StartProcessing, Close
  <2>5. CASE RetryProcessing(q)
    <3>1. StoreTypeOK'
      BY <1>1, <2>5, OperatorStoreType DEF RetryProcessing
    <3>2. tasks' \subseteq Attempts
      BY <1>1, <2>5, OperatorStoreType DEF RetryProcessing
    <3>. QED BY <2>5, <3>1, <3>2, Defaults DEF RetryProcessing, Close
  <2>6. CASE RecoverProcessing(q)
    <3>1. StoreTypeOK'
      BY <1>1, <2>6, OperatorStoreType DEF RecoverProcessing
    <3>2. tasks' \subseteq Attempts
      <4>1. CASE RecoverIdle(request[q]) /\ tasks' = tasks \cup {attempts + 1}
        BY <1>1, <4>1, OperatorStoreType
      <4>2. ASSUME NEW a \in Attempts, RecoverExpired(request[q], a),
                   tasks' = tasks \cup {IF UnlinkedRun THEN a ELSE attempts + 1}
            PROVE  tasks' \subseteq Attempts
        BY <1>1, <4>2, OperatorStoreType
      <4>. QED BY <2>6, <4>1, <4>2 DEF RecoverProcessing
    <3>. QED BY <2>6, <3>1, <3>2, Defaults DEF RecoverProcessing, Close
  <2>7. CASE CloseRequest(q)
    BY <2>7, Defaults DEF CloseRequest, Close, storeVars, executorVars, StoreTypeOK
  <2>. QED BY <1>6, <2>1, <2>2, <2>3, <2>4, <2>5, <2>6, <2>7 DEF Operate
<1>7. ASSUME NEW w \in Workers, Background(w)
      PROVE  TypeOK'
  <2>1. ASSUME NEW a \in Attempts, Claim(w, a)
        PROVE  TypeOK'
    BY <1>7, <2>1, WorkerStoreType DEF Background, Claim, Worker
  <2>2. CASE EnterParsing(w)
    <3>1. StoreTypeOK'
      BY ZenonT(60), <2>2, FlushType DEF EnterParsing, StoreTypeOK, Revision, RevisionStatus
    <3>. QED BY <1>7, <2>2, <3>1, WorkerFields DEF Background, EnterParsing, Advance
  <2>3. CASE EnterExtracting(w)
    <3>1. StoreTypeOK'
      BY ZenonT(60), <2>3, FlushType DEF EnterExtracting, StoreTypeOK, Revision, RevisionStatus
    <3>. QED BY <1>7, <2>3, <3>1, WorkerFields DEF Background, EnterExtracting, Advance
  <2>4. ASSUME NEW outcome \in ExtractionOutcomes, Finalize(w, outcome)
        PROVE  TypeOK'
    <3>1. StoreTypeOK'
      <4>1. worker[w].job \in Attempts
        BY <2>4, WorkerFields DEF Finalize
      <4>. QED BY <2>4, <4>1, WorkerStoreType DEF Finalize
    <3>. QED BY <1>7, <2>4, <3>1, Defaults DEF Background, Finalize
  <2>5. CASE LoseLease(w)
    BY <1>7, <2>5, Defaults DEF Background, LoseLease, storeVars, StoreTypeOK
  <2>6. CASE RunFails(w)
    BY <1>7, <2>6, WorkerFields DEF Background, RunFails, storeVars, StoreTypeOK
  <2>7. CASE ReportFailure(w)
    <3>1. StoreTypeOK'
      BY <2>7, WorkerFields, WorkerStoreType DEF ReportFailure, storeVars, StoreTypeOK
    <3>. QED BY <1>7, <2>7, <3>1, Defaults DEF Background, ReportFailure
  <2>8. CASE WorkerDies(w)
    BY <1>7, <2>8, Defaults DEF Background, WorkerDies, storeVars, StoreTypeOK
  <2>9. CASE Heartbeat(w)
    BY <1>7, <2>9, WorkerFields, WorkerStoreType DEF Background, Heartbeat, executorVars
  <2>10. CASE HeartbeatStops(w)
    BY <1>7, <2>10, WorkerFields DEF Background, HeartbeatStops, storeVars, StoreTypeOK
  <2>. QED BY <1>7, <2>1, <2>2, <2>3, <2>4, <2>5, <2>6, <2>7, <2>8, <2>9, <2>10
           DEF Background, WorkerStep
<1>8. ASSUME NEW a \in Attempts, DropTask(a), UNCHANGED <<upload, request>>
      PROVE  TypeOK'
  BY <1>8 DEF DropTask, storeVars, StoreTypeOK
<1>9. CASE Tick
  <2>1. revision' \in Revision
    BY <1>9, AgeType DEF Tick, AgeStore, StoreTypeOK, Revision
  <2>2. job' \in [Attempts -> Job]
    BY <1>9, ShorterRow DEF Tick, AgeStore, StoreTypeOK
  <2>3. \A page \in Page : AgePage(page) \in Page
    <3>. SUFFICES ASSUME NEW page \in Page, page.stage # "idle" PROVE AgePage(page) \in Page
      BY DEF AgePage
    <3>1. [page.revision EXCEPT !.age = Older(page.revision.age)] \in Revision
      BY AgeType DEF Page, Revision
    <3>2. [page.job EXCEPT !.lease = Shorter(page.job.lease)] \in Job
      BY ShorterRow DEF Page
    <3>. QED BY <3>1, <3>2 DEF AgePage, Page
  <2>. QED BY <1>9, <2>1, <2>2, <2>3 DEF Tick, AgeStore, StoreTypeOK, executorVars
<1>10. CASE Restart
  BY <1>10, Defaults DEF Restart, storeVars, StoreTypeOK
<1>11. CASE UNCHANGED vars
  BY <1>11 DEF vars, storeVars, executorVars, StoreTypeOK
<1>. QED BY <1>3, <1>4, <1>5, <1>6, <1>7, <1>8, <1>9, <1>10, <1>11 DEF Next

\* Every reachable state is well-formed.
THEOREM TypeCorrect == Spec => []TypeOK
<1>1. Init => TypeOK
  <2>1. StoreInit => StoreTypeOK
    BY JobRows DEF StoreInit, StoreTypeOK, UploadedStatus, Revision, Report,
       RevisionStatus, Authorities, ReportOutcomes, RunOutcomes
  <2>. QED BY <2>1, Defaults DEF Init, TypeOK, ExecutorInit, ExecutorTypeOK
<1>. QED BY <1>1, TypeStep, PTL DEF Spec

------------------------------------------------------------------------------
(* The invariants of the rows, transaction by transaction. *)

StartedStays == \A a \in Attempts : Started(a) => Started(a)'

\* Steps that change neither a status of a job nor its result, nor the revision
\* and the report beyond their age.
LEMMA QuietStep ==
    ASSUME StoreTypeOK, StoreInv, UNCHANGED <<report, attempts, runs>>,
           revision'.status = revision.status, revision'.authority = revision.authority,
           \A a \in Attempts : job'[a].status = job[a].status /\ job'[a].run = job[a].run
    PROVE  StoreInv' /\ StartedStays
<1>1. AttemptsAreDense' /\ OneActiveAttempt'
  BY DEF StoreInv, AttemptsAreDense, OneActiveAttempt
<1>2. RunsMatchCompletions'
  BY SMTT(60) DEF StoreInv, RunsMatchCompletions
<1>3. StatusTellsLastRun' /\ ExtractionIsAdmitted'
  BY DEF StoreInv, StatusTellsLastRun, ExtractionIsAdmitted, Admitted
<1>4. StartedStays
  BY DEF StartedStays, Started
<1>. QED BY <1>1, <1>2, <1>3, <1>4 DEF StoreInv

\* What the revision promises depends on its own status only, as long as no run
\* is stored.
LEMMA RevisionStep ==
    ASSUME StoreInv, UNCHANGED <<report, runs>>,
           \/ revision'.status = revision.status /\ revision'.authority = revision.authority
           \/ revision'.status = "accepted"
    PROVE  StatusTellsLastRun' /\ ExtractionIsAdmitted'
BY DEF StoreInv, StatusTellsLastRun, ExtractionIsAdmitted, Admitted

\* An operator's transaction either leaves the revision as it is stored or
\* makes it accepted.
LEMMA ReacceptStep ==
    ASSUME NEW seen
    PROVE  Reaccept(seen) \/ ReacceptIfStarted(seen) =>
             \/ revision'.status = revision.status /\ revision'.authority = revision.authority
             \/ revision'.status = "accepted"
BY DEF Reaccept, ReacceptIfStarted, Flush

\* Opening an attempt when the given rows hold no active one.
LEMMA OpenStep ==
    ASSUME StoreTypeOK, NEW old \in [Attempts -> Job],
           \A a \in Attempts : old[a].status = "absent" <=> a > attempts,
           \A a \in Attempts : old[a].status \notin ActiveStatus,
           \A a \in Attempts : old[a].run = job[a].run,
           \A a \in Attempts : Started(a) => old[a].status \notin {"absent", "queued"},
           RunsMatchCompletions, UNCHANGED runs, CreateQueuedJob(old)
    PROVE  AttemptsAreDense' /\ OneActiveAttempt' /\ RunsMatchCompletions' /\ StartedStays
<1>1. attempts' = attempts + 1 /\ attempts \in 0..MaxAttempts /\ attempts' \in Attempts
  BY CreateType DEF StoreTypeOK
<1>2. job' = [old EXCEPT ![attempts'] = QueuedJob] /\ job' \in [Attempts -> Job]
  BY <1>1, CreateType DEF CreateQueuedJob, StoreTypeOK
<1>3. job'[attempts'] = QueuedJob
  BY <1>1, <1>2
<1>4. \A a \in Attempts : a # attempts' => job'[a] = old[a]
  BY <1>2
<1>5. AttemptsAreDense'
  BY <1>1, <1>3, <1>4 DEF AttemptsAreDense, QueuedJob
<1>6. OneActiveAttempt'
  BY <1>3, <1>4 DEF OneActiveAttempt
<1>7. old[attempts'].run = 0 /\ old[attempts'].status = "absent"
  BY <1>1, JobFields
<1>8. \A a \in Attempts : job'[a].run = job[a].run
  BY <1>3, <1>4, <1>7 DEF QueuedJob
<1>9. RunsMatchCompletions'
  <2>1. \A a \in Attempts : job'[a].status = "completed" <=> job'[a].run # 0
    BY <1>2, JobFields
  <2>. QED BY ZenonT(60), <1>8, <2>1 DEF RunsMatchCompletions
<1>10. StartedStays
  BY <1>3, <1>4, <1>7 DEF StartedStays, Started
<1>. QED BY <1>5, <1>6, <1>9, <1>10

\* The operators' transactions on jobs.
LEMMA OperatorStep ==
    ASSUME StoreTypeOK, StoreInv, NEW seen
    PROVE  /\ EnqueueNew(seen) => StoreInv' /\ StartedStays
           /\ \A a \in Attempts : EnqueueExisting(seen, a) => StoreInv' /\ StartedStays
           /\ Retry(seen) => StoreInv' /\ StartedStays
           /\ RecoverIdle(seen) => StoreInv' /\ StartedStays
           /\ \A a \in Attempts : RecoverExpired(seen, a) => StoreInv' /\ StartedStays
<1>1. ASSUME ActiveAttempts = {}, CreateQueuedJob(job), UNCHANGED runs
      PROVE  AttemptsAreDense' /\ OneActiveAttempt' /\ RunsMatchCompletions' /\ StartedStays
  BY <1>1, OpenStep DEF StoreTypeOK, StoreInv, AttemptsAreDense, ActiveAttempts, Started
<1>2. EnqueueNew(seen) => StoreInv' /\ StartedStays
  BY <1>1, RevisionStep DEF EnqueueNew, StoreInv
<1>3. \A a \in Attempts : EnqueueExisting(seen, a) => StoreInv' /\ StartedStays
  BY QuietStep DEF EnqueueExisting, storeVars
<1>4. Retry(seen) => StoreInv' /\ StartedStays
  BY <1>1, RevisionStep, ReacceptStep DEF Retry, StoreInv
<1>5. RecoverIdle(seen) => StoreInv' /\ StartedStays
  BY <1>1, RevisionStep, ReacceptStep DEF RecoverIdle, StoreInv
<1>6. ASSUME NEW a \in Attempts, RecoverExpired(seen, a)
      PROVE  StoreInv' /\ StartedStays
  <2> DEFINE closed == [job EXCEPT ![a] = MarkFailed(job[a])]
  <2>1. ~UnlinkedRun
    BY DEF StoreInv, RunsMatchCompletions, UnlinkedRun, RunsLinked
  <2>2. CreateQueuedJob(closed) /\ ReacceptIfStarted(seen) /\ UNCHANGED <<report, runs>>
    BY <1>6, <2>1 DEF RecoverExpired
  <2>3. a \in Attempts /\ job[a].status \in ActiveStatus /\ a = attempts
    BY <1>6 DEF RecoverExpired, ActiveAttempts, StoreInv, OneActiveAttempt
  <2>4. closed[a] = FailedJob /\ (\A b \in Attempts : b # a => closed[b] = job[b])
    BY DEF MarkFailed, StoreTypeOK
  <2>5. closed \in [Attempts -> Job]
    BY JobRows DEF MarkFailed, StoreTypeOK
  <2>6. \A b \in Attempts : closed[b].status = "absent" <=> b > attempts
    BY <2>3, <2>4 DEF StoreInv, AttemptsAreDense, FailedJob, StoreTypeOK
  <2>7. \A b \in Attempts : closed[b].status \notin ActiveStatus
    BY <2>3, <2>4 DEF StoreInv, OneActiveAttempt, FailedJob, ActiveStatus
  <2>8. \A b \in Attempts : closed[b].run = job[b].run
    <3>1. job[a].run = 0
      BY <2>3, JobFields DEF ActiveStatus, StoreTypeOK
    <3>. QED BY <2>4, <3>1 DEF FailedJob
  <2>9. \A b \in Attempts : Started(b) => closed[b].status \notin {"absent", "queued"}
    BY <2>4 DEF Started, FailedJob
  <2>. HIDE DEF closed
  <2>10. AttemptsAreDense' /\ OneActiveAttempt' /\ RunsMatchCompletions' /\ StartedStays
    BY <2>2, <2>5, <2>6, <2>7, <2>8, <2>9, OpenStep DEF StoreInv
  <2>. QED BY <2>2, <2>10, RevisionStep, ReacceptStep DEF StoreInv
<1>. QED BY <1>2, <1>3, <1>4, <1>5, <1>6

\* The transactions of admission.
LEMMA AdmissionStep ==
    ASSUME StoreTypeOK, StoreInv, NEW seen, NEW decision \in Decisions
    PROVE  /\ ResolveAdmission => StoreInv' /\ StartedStays
           /\ Decide(seen, decision) => StoreInv' /\ StartedStays
           /\ RepeatDecision(seen, decision) => StoreInv' /\ StartedStays
<1>1. ASSUME UNCHANGED <<attempts, job, runs>>,
             revision'.status \in {"accepted", "rejected", "needs_confirmation", "quarantined"}
      PROVE  StoreInv' /\ StartedStays
  BY <1>1 DEF StoreInv, AttemptsAreDense, OneActiveAttempt, RunsMatchCompletions,
     StatusTellsLastRun, ExtractionIsAdmitted, StartedStays, Started
<1>2. ResolveAdmission => StoreInv' /\ StartedStays
  <2>1. report.outcome \in ReportOutcomes
    BY DEF StoreTypeOK, Report
  <2>2. ResolveAdmission =>
          revision'.status \in {"accepted", "rejected", "needs_confirmation", "quarantined"}
    BY <2>1 DEF ResolveAdmission, Flush, AdmissionStatus, ReportOutcomes
  <2>. QED BY <1>1, <2>2 DEF ResolveAdmission
<1>3. Decide(seen, decision) => StoreInv' /\ StartedStays
  <2>1. Decide(seen, decision) => revision'.status \in {"accepted", "rejected"}
    BY DEF Decide, Flush, DecidedStatus
  <2>. QED BY <1>1, <2>1 DEF Decide
<1>4. RepeatDecision(seen, decision) => StoreInv' /\ StartedStays
  BY QuietStep DEF RepeatDecision, storeVars
<1>. QED BY <1>2, <1>3, <1>4

\* Closing or claiming an attempt that is not absent, without a result.
LEMMA JobStep ==
    ASSUME StoreTypeOK, StoreInv, NEW a \in Attempts, NEW row \in Job,
           job[a].status \in ActiveStatus, row.status \in {"running", "failed"},
           job' = [job EXCEPT ![a] = row], UNCHANGED <<revision, report, attempts, runs>>
    PROVE  StoreInv' /\ StartedStays
<1>1. job'[a] = row /\ \A b \in Attempts : b # a => job'[b] = job[b]
  BY DEF StoreTypeOK
<1>2. job[a].run = 0 /\ row.run = 0 /\ job[a].status # "completed"
  BY JobFields DEF StoreTypeOK, ActiveStatus
<1>3. a = attempts
  BY DEF StoreInv, OneActiveAttempt
<1>4. AttemptsAreDense'
  BY <1>1, <1>3 DEF StoreInv, AttemptsAreDense, ActiveStatus
<1>5. OneActiveAttempt'
  BY <1>1, <1>3 DEF StoreInv, OneActiveAttempt
<1>6. \A b \in Attempts : job'[b].run = job[b].run
                         /\ (job'[b].status = "completed" <=> job[b].status = "completed")
  BY <1>1, <1>2
<1>7. RunsMatchCompletions'
  BY <1>6 DEF StoreInv, RunsMatchCompletions
<1>8. StatusTellsLastRun' /\ ExtractionIsAdmitted'
  BY DEF StoreInv, StatusTellsLastRun, ExtractionIsAdmitted, Admitted
<1>9. StartedStays
  BY <1>1 DEF StartedStays, Started
<1>. QED BY <1>4, <1>5, <1>7, <1>8, <1>9 DEF StoreInv

\* The commit of an extraction: the new run is the last one and is linked by the
\* newest attempt, so the order of runs is the order of attempts.
LEMMA CompleteStep ==
    ASSUME StoreTypeOK, StoreInv, NEW w \in Workers, NEW a \in Attempts,
           NEW outcome \in ExtractionOutcomes, CompleteJob(w, a, outcome)
    PROVE  StoreInv' /\ StartedStays
<1> DEFINE new == Len(runs) + 1
<1>1. /\ revision.status = "extracting"
      /\ job[a].status = "running"
      /\ runs' = Append(runs, outcome)
      /\ UNCHANGED <<report, attempts>>
  BY DEF CompleteJob, LeaseHeld
<1>2. /\ job'[a].status = "completed" /\ job'[a].run = new
      /\ \A b \in Attempts : b # a => job'[b] = job[b]
  BY DEF CompleteJob, StoreTypeOK
<1>3. /\ revision'.status = ExtractedStatus(outcome)
      /\ revision'.authority = revision.authority
  BY <1>1, JobFields DEF CompleteJob, Flush, ExtractedStatus
<1>4. runs \in Seq(RunOutcomes) /\ outcome \in RunOutcomes
  BY DEF StoreTypeOK
<1>5. /\ Len(runs') = new /\ runs'[new] = outcome /\ runs' # << >>
      /\ Len(runs) \in Nat
  BY <1>1, <1>4
<1>6. a = attempts
  BY <1>1 DEF StoreInv, OneActiveAttempt, ActiveStatus
<1>7. job[a].run = 0
  BY <1>1, JobFields DEF StoreTypeOK
<1>8. AttemptsAreDense' /\ OneActiveAttempt'
  BY <1>1, <1>2, <1>6 DEF StoreInv, AttemptsAreDense, OneActiveAttempt, ActiveStatus
<1>9. RunsMatchCompletions'
  <2>1. ASSUME NEW i \in 1..Len(runs') PROVE \E b \in Attempts : job'[b].run = i
    <3>1. CASE i = new
      BY <1>2, <3>1
    <3>2. CASE i # new
      <4>1. i \in 1..Len(runs)
        BY <1>5, <3>2
      <4>2. PICK b \in Attempts : job[b].run = i
        BY <4>1 DEF StoreInv, RunsMatchCompletions
      <4>3. b # a
        BY <1>7, <4>1, <4>2
      <4>. QED BY <1>2, <4>2, <4>3
    <3>. QED BY <3>1, <3>2
  <2>2. ASSUME NEW b \in Attempts
        PROVE  /\ job'[b].run \in 0..Len(runs')
               /\ job'[b].status = "completed" <=> job'[b].run # 0
    <3>1. CASE b = a
      BY <1>2, <1>5, <3>1
    <3>2. CASE b # a
      BY <1>2, <1>5, <3>2 DEF StoreInv, RunsMatchCompletions
    <3>. QED BY <3>1, <3>2
  <2>3. ASSUME NEW b \in Attempts, NEW c \in Attempts, b < c,
               job'[b].run # 0, job'[c].run # 0
        PROVE  job'[b].run < job'[c].run
    <3>1. c <= attempts
      BY <1>1, <1>8, <2>2, <2>3 DEF AttemptsAreDense, StoreTypeOK
    <3>2. b # a
      BY <1>6, <2>3, <3>1
    <3>3. job'[b] = job[b] /\ job[b].run \in 0..Len(runs)
      BY <1>2, <3>2 DEF StoreInv, RunsMatchCompletions
    <3>4. CASE c = a
      BY <1>2, <1>5, <3>3, <3>4
    <3>5. CASE c # a
      BY <1>2, <2>3, <3>3, <3>5 DEF StoreInv, RunsMatchCompletions
    <3>. QED BY <3>4, <3>5
  <2>. QED BY <2>1, <2>2, <2>3 DEF RunsMatchCompletions
<1>10. StatusTellsLastRun'
  BY <1>3, <1>5 DEF StatusTellsLastRun, ExtractedStatus
<1>11. ExtractionIsAdmitted'
  BY <1>1, <1>3 DEF StoreInv, ExtractionIsAdmitted, Admitted
<1>12. StartedStays
  BY <1>2 DEF StartedStays, Started
<1>. QED BY <1>8, <1>9, <1>10, <1>11, <1>12 DEF StoreInv

\* The transactions of the workers, and the clock.
LEMMA WorkerTxnStep ==
    ASSUME StoreTypeOK, StoreInv, NEW w \in Workers, NEW a \in Attempts
    PROVE  /\ ClaimJob(w, a) => StoreInv' /\ StartedStays /\ Started(a)'
           /\ RenewLease(w, a) => StoreInv' /\ StartedStays
           /\ FailJob(w, a) => StoreInv' /\ StartedStays
           /\ EnterParsing(w) \/ EnterExtracting(w) => StoreInv' /\ StartedStays
           /\ AgeStore => StoreInv' /\ StartedStays
<1>1. ASSUME ClaimJob(w, a) PROVE StoreInv' /\ StartedStays /\ Started(a)'
  <2> DEFINE row == [status |-> "running", token |-> w, lease |-> LeaseTicks, run |-> 0]
  <2>1. row \in Job /\ row.status = "running"
    BY DEF Job
  <2>2. /\ job[a].status \in ActiveStatus /\ job' = [job EXCEPT ![a] = row]
        /\ UNCHANGED <<revision, report, attempts, runs>>
    BY <1>1 DEF ClaimJob, ActiveStatus
  <2>. HIDE DEF row
  <2>3. Started(a)'
    BY <2>1, <2>2 DEF Started, StoreTypeOK
  <2>. QED BY <2>1, <2>2, <2>3, JobStep
<1>2. ASSUME RenewLease(w, a) PROVE StoreInv' /\ StartedStays
  <2>1. \A b \in Attempts : job'[b].status = job[b].status /\ job'[b].run = job[b].run
    BY <1>2 DEF RenewLease, StoreTypeOK
  <2>. QED BY <1>2, <2>1, QuietStep DEF RenewLease
<1>3. ASSUME FailJob(w, a) PROVE StoreInv' /\ StartedStays
  <2>1. /\ FailedJob \in Job /\ FailedJob.status = "failed"
        /\ job' = [job EXCEPT ![a] = FailedJob]
    BY <1>3, JobRows DEF FailJob, MarkFailed, FailedJob
  <2>2. job[a].status \in ActiveStatus /\ UNCHANGED <<revision, report, attempts, runs>>
    BY <1>3 DEF FailJob, LeaseHeld, ActiveStatus
  <2>. QED BY <2>1, <2>2, JobStep
<1>4. ASSUME EnterParsing(w) \/ EnterExtracting(w) PROVE StoreInv' /\ StartedStays
  <2>1. UNCHANGED <<report, attempts, job, runs>>
    BY <1>4 DEF EnterParsing, EnterExtracting
  <2>2. revision'.status \in {"parsing", "extracting"} /\ revision'.authority = revision.authority
    BY <1>4 DEF EnterParsing, EnterExtracting, Flush
  <2>3. Admitted(revision, report)
    BY <1>4 DEF EnterParsing, EnterExtracting, StoreInv, ExtractionIsAdmitted
  <2>4. ExtractionIsAdmitted'
    BY <2>1, <2>2, <2>3 DEF ExtractionIsAdmitted, Admitted
  <2>5. StatusTellsLastRun'
    BY <2>2 DEF StatusTellsLastRun
  <2>. QED BY <2>1, <2>4, <2>5 DEF StoreInv, AttemptsAreDense, OneActiveAttempt,
           RunsMatchCompletions, StartedStays, Started
<1>5. ASSUME AgeStore PROVE StoreInv' /\ StartedStays
  <2>1. \A b \in Attempts : job'[b].status = job[b].status /\ job'[b].run = job[b].run
    BY <1>5, ShorterRow DEF AgeStore, StoreTypeOK
  <2>. QED BY <1>5, <2>1, QuietStep DEF AgeStore, StoreTypeOK, Revision
<1>. QED BY <1>1, <1>2, <1>3, <1>4, <1>5

------------------------------------------------------------------------------
(* The invariant of the system. *)

\* Workers that stay on the attempt they had, or become idle, keep what the
\* invariant says of them.
LEMMA WorkersStay ==
    ASSUME TypeOK, WorkersHaveClaimed, OneWorkerPerAttempt, StartedStays, TypeOK',
           \A w \in Workers : worker'[w].pc # "idle" =>
             worker[w].pc # "idle" /\ worker'[w].job = worker[w].job
    PROVE  WorkersHaveClaimed' /\ OneWorkerPerAttempt'
<1>1. \A w \in Workers : /\ worker[w].pc # "idle" => worker[w].job \in Attempts
                         /\ worker[w].pc = "idle" => worker[w].job = 0
                         /\ worker'[w].pc = "idle" => worker'[w].job = 0
                         /\ worker'[w].pc # "idle" => worker'[w].job \in Attempts
  BY WorkerFields DEF TypeOK, ExecutorTypeOK
<1>2. ASSUME NEW w \in Workers, worker'[w].pc # "idle" PROVE Started(worker[w].job)'
  <2>1. worker[w].pc # "idle" /\ worker'[w].job = worker[w].job
    BY <1>2
  <2>2. worker[w].job \in Attempts /\ Started(worker[w].job)
    BY <1>1, <2>1 DEF WorkersHaveClaimed
  <2>3. Started(worker[w].job)'
    <3>. DEFINE a == worker[w].job
    <3>1. Started(a) /\ a \in Attempts
      BY <2>2
    <3>2. job'[a].status \notin {"absent", "queued"}
      BY <3>1 DEF StartedStays, Started
    <3>. QED BY <2>1, <3>2 DEF Started
  <2>. QED BY <2>3
<1>3. ASSUME NEW v \in Workers, NEW w \in Workers, v # w, worker'[v].pc # "idle"
      PROVE  worker'[v].job # worker'[w].job
  <2>1. CASE worker'[w].pc = "idle"
    BY <1>1, <1>3, <2>1
  <2>2. CASE worker'[w].pc # "idle"
    <3>1. /\ worker[v].pc # "idle"
          /\ worker'[v].job = worker[v].job /\ worker'[w].job = worker[w].job
      BY <1>3, <2>2
    <3>. QED BY <1>3, <3>1 DEF OneWorkerPerAttempt
  <2>. QED BY <2>1, <2>2
<1>. QED BY <1>2, <1>3 DEF WorkersHaveClaimed, OneWorkerPerAttempt

\* One step of the system keeps the invariant.
LEMMA InvStep == Inv /\ [Next]_vars => Inv'
<1> SUFFICES ASSUME Inv, [Next]_vars PROVE Inv'
  OBVIOUS
<1>1. TypeOK /\ TypeOK'
  BY TypeStep DEF Inv
<1>2. StoreTypeOK /\ StoreInv /\ WorkersHaveClaimed /\ OneWorkerPerAttempt
  BY DEF Inv, TypeOK
<1>3. ASSUME UNCHANGED storeVars PROVE StoreInv' /\ StartedStays
  BY <1>2, <1>3, QuietStep DEF storeVars
<1>4. ASSUME StoreInv', StartedStays, UNCHANGED worker PROVE Inv'
  BY <1>1, <1>2, <1>4, WorkersStay DEF Inv
<1>5. ASSUME NEW w \in Workers, NEW row \in Worker, StoreInv', StartedStays,
             worker[w].pc # "idle", worker' = [worker EXCEPT ![w] = row],
             row.pc # "idle" => row.job = worker[w].job
      PROVE  Inv'
  <2>1. worker'[w] = row /\ \A v \in Workers : v # w => worker'[v] = worker[v]
    BY <1>1, <1>5 DEF TypeOK, ExecutorTypeOK
  <2>2. \A v \in Workers : worker'[v].pc # "idle" =>
          worker[v].pc # "idle" /\ worker'[v].job = worker[v].job
    BY <1>5, <2>1
  <2>. QED BY <1>1, <1>2, <1>5, <2>2, WorkersStay DEF Inv
<1>6. CASE ResolveUpload \/ EnqueueUpload \/ UploadFails
  <2>1. UNCHANGED worker
    BY <1>6 DEF ResolveUpload, EnqueueUpload, UploadFails, executorVars
  <2>2. StoreInv' /\ StartedStays
    <3>1. CASE ResolveUpload
      BY <1>2, <3>1, AdmissionStep DEF ResolveUpload, Decisions
    <3>2. CASE EnqueueUpload
      BY <1>2, <3>2, OperatorStep DEF EnqueueUpload
    <3>3. CASE UploadFails
      BY <1>3, <3>3 DEF UploadFails
    <3>. QED BY <1>6, <3>1, <3>2, <3>3
  <2>. QED BY <1>4, <2>1, <2>2
<1>7. ASSUME NEW q \in Requests, Operate(q) PROVE Inv'
  <2>1. UNCHANGED worker
    BY <1>7 DEF Operate, LoadPage, SubmitDecision, ResubmitDecision, StartProcessing,
       RetryProcessing, RecoverProcessing, CloseRequest, executorVars
  <2>2. StoreInv' /\ StartedStays
    <3>1. CASE LoadPage(q) \/ CloseRequest(q)
      BY <1>3, <3>1 DEF LoadPage, CloseRequest
    <3>2. ASSUME NEW decision \in Decisions,
                 SubmitDecision(q, decision) \/ ResubmitDecision(q, decision)
          PROVE  StoreInv' /\ StartedStays
      BY <1>2, <3>2, AdmissionStep DEF SubmitDecision, ResubmitDecision
    <3>3. CASE StartProcessing(q)
      BY <1>2, <3>3, OperatorStep DEF StartProcessing
    <3>4. CASE RetryProcessing(q)
      BY <1>2, <3>4, OperatorStep DEF RetryProcessing
    <3>5. CASE RecoverProcessing(q)
      BY <1>2, <3>5, OperatorStep DEF RecoverProcessing
    <3>. QED BY <1>7, <3>1, <3>2, <3>3, <3>4, <3>5 DEF Operate
  <2>. QED BY <1>4, <2>1, <2>2
<1>8. ASSUME NEW w \in Workers, Background(w) PROVE Inv'
  <2>1. worker[w] \in Worker /\ IdleWorker \in Worker /\ IdleWorker.pc = "idle"
    BY <1>1, Defaults DEF TypeOK, ExecutorTypeOK, IdleWorker
  <2>2. worker[w].pc # "idle" => worker[w].job \in Attempts
    BY <2>1, WorkerFields
  <2>3. ASSUME NEW a \in Attempts, Claim(w, a) PROVE Inv'
    <3>1. /\ job[a].status = "queued" /\ ClaimJob(w, a)
          /\ worker[w].pc = "idle"
          /\ worker' = [worker EXCEPT ![w] = [pc |-> "claimed", job |-> a, beat |-> TRUE]]
      BY <2>3 DEF Claim, ClaimJob
    <3>2. StoreInv' /\ StartedStays /\ Started(a)'
      BY <1>2, <3>1, WorkerTxnStep
    <3>3. worker'[w].job = a /\ \A v \in Workers : v # w => worker'[v] = worker[v]
      BY <1>1, <3>1 DEF TypeOK, ExecutorTypeOK
    <3>4. \A v \in Workers : worker[v].pc # "idle" =>
            worker[v].job \in Attempts /\ Started(worker[v].job) /\ worker[v].job # a
      BY <1>1, <1>2, <3>1, WorkerFields DEF TypeOK, ExecutorTypeOK, WorkersHaveClaimed, Started
    <3>5. WorkersHaveClaimed'
      BY <3>2, <3>3, <3>4 DEF WorkersHaveClaimed, StartedStays, Started
    <3>6. \A v \in Workers : worker[v].pc = "idle" => worker[v].job = 0
      BY <1>1, WorkerFields DEF TypeOK, ExecutorTypeOK
    <3>7. \A v \in Workers : v # w => worker'[v].job # a
      BY <3>3, <3>4, <3>6
    <3>8. OneWorkerPerAttempt'
      BY <1>2, <3>3, <3>7 DEF OneWorkerPerAttempt
    <3>. QED BY <1>1, <3>2, <3>5, <3>8 DEF Inv
  <2>4. CASE EnterParsing(w) \/ EnterExtracting(w)
    <3>1. StoreInv' /\ StartedStays
      BY <1>2, <2>4, <2>2, WorkerTxnStep DEF EnterParsing, EnterExtracting
    <3>2. worker[w].pc # "idle" /\ \E pc \in {"parsing", "extracting"} : Advance(w, pc)
      BY <2>4 DEF EnterParsing, EnterExtracting
    <3>3. \A pc \in {"parsing", "extracting"} :
            [worker[w] EXCEPT !.pc = pc] \in Worker
      BY <2>1, <3>2, WorkerFields
    <3>4. \A pc : [worker[w] EXCEPT !.pc = pc].job = worker[w].job
      BY <2>1, <3>2 DEF Worker, IdleWorker
    <3>. QED BY <1>5, <3>1, <3>2, <3>3, <3>4 DEF Advance
  <2>5. ASSUME NEW outcome \in ExtractionOutcomes, Finalize(w, outcome) PROVE Inv'
    <3>1. worker[w].pc # "idle" /\ worker' = [worker EXCEPT ![w] = IdleWorker]
      BY <2>5 DEF Finalize
    <3>2. StoreInv' /\ StartedStays
      BY <1>2, <2>2, <2>5, <3>1, CompleteStep DEF Finalize
    <3>. QED BY <1>5, <2>1, <3>1, <3>2
  <2>6. CASE LoseLease(w) \/ WorkerDies(w)
    <3>1. worker[w].pc # "idle" /\ worker' = [worker EXCEPT ![w] = IdleWorker]
      BY <2>6 DEF LoseLease, WorkerDies
    <3>2. StoreInv' /\ StartedStays
      BY <1>3, <2>6 DEF LoseLease, WorkerDies
    <3>. QED BY <1>5, <2>1, <3>1, <3>2
  <2>7. CASE RunFails(w)
    <3>1. worker[w].pc # "idle"
          /\ worker' = [worker EXCEPT ![w] = [worker[w] EXCEPT !.pc = "failing", !.beat = FALSE]]
      BY <1>1, <2>7 DEF RunFails, TypeOK, ExecutorTypeOK
    <3>2. StoreInv' /\ StartedStays
      BY <1>3, <2>7 DEF RunFails
    <3>3. [worker[w] EXCEPT !.pc = "failing", !.beat = FALSE] \in Worker
      BY <2>1, <3>1, WorkerFields
    <3>4. [worker[w] EXCEPT !.pc = "failing", !.beat = FALSE].job = worker[w].job
      BY <2>1, <3>1 DEF Worker, IdleWorker
    <3>. QED BY <1>5, <3>1, <3>2, <3>3, <3>4
  <2>8. CASE ReportFailure(w)
    <3>1. worker[w].pc # "idle" /\ worker' = [worker EXCEPT ![w] = IdleWorker]
      BY <2>8 DEF ReportFailure
    <3>2. StoreInv' /\ StartedStays
      BY <1>2, <1>3, <2>2, <2>8, <3>1, WorkerTxnStep DEF ReportFailure
    <3>. QED BY <1>5, <2>1, <3>1, <3>2
  <2>9. CASE Heartbeat(w)
    <3>1. RenewLease(w, worker[w].job) /\ UNCHANGED worker /\ worker[w].job \in Attempts
      BY <2>1, <2>9, WorkerFields DEF Heartbeat, executorVars
    <3>. QED BY <1>2, <1>4, <3>1, WorkerTxnStep
  <2>10. CASE HeartbeatStops(w)
    <3>1. worker[w].pc # "idle"
          /\ worker' = [worker EXCEPT ![w] = [worker[w] EXCEPT !.beat = FALSE]]
      BY <1>1, <2>1, <2>10, WorkerFields DEF HeartbeatStops, TypeOK, ExecutorTypeOK
    <3>2. StoreInv' /\ StartedStays
      BY <1>3, <2>10 DEF HeartbeatStops
    <3>3. [worker[w] EXCEPT !.beat = FALSE] \in Worker
          /\ [worker[w] EXCEPT !.beat = FALSE].job = worker[w].job
      BY <2>1, <3>1, WorkerFields DEF Worker, IdleWorker
    <3>. QED BY <1>5, <3>1, <3>2, <3>3
  <2>. QED BY <1>8, <2>3, <2>4, <2>5, <2>6, <2>7, <2>8, <2>9, <2>10
           DEF Background, WorkerStep
<1>9. ASSUME NEW a \in Attempts, DropTask(a) PROVE Inv'
  BY <1>3, <1>4, <1>9 DEF DropTask
<1>10. CASE Tick
  <2>1. UNCHANGED worker /\ AgeStore
    BY <1>10 DEF Tick, executorVars
  <2>2. StoreInv' /\ StartedStays
    <3>1. \A b \in Attempts : job'[b].status = job[b].status /\ job'[b].run = job[b].run
      BY <1>2, <2>1, ShorterRow DEF AgeStore, StoreTypeOK
    <3>. QED BY <1>2, <2>1, <3>1, QuietStep DEF AgeStore, StoreTypeOK, Revision
  <2>. QED BY <1>4, <2>1, <2>2
<1>11. CASE Restart
  <2>1. StoreInv' /\ StartedStays
    BY <1>3, <1>11 DEF Restart
  <2>2. \A w \in Workers : worker'[w].pc = "idle"
    BY <1>11 DEF Restart, IdleWorker
  <2>. QED BY <1>1, <1>2, <2>1, <2>2, WorkersStay DEF Inv
<1>12. CASE UNCHANGED vars
  BY <1>3, <1>4, <1>12 DEF vars, executorVars
<1>. QED BY <1>6, <1>7, <1>8, <1>9, <1>10, <1>11, <1>12 DEF Next

\* Initially there are no jobs and no runs, and an upload is not yet accepted.
LEMMA InvInit == Init => Inv
<1> SUFFICES ASSUME Init PROVE Inv
  OBVIOUS
<1>1. StoreTypeOK
  BY JobRows DEF Init, StoreInit, StoreTypeOK, UploadedStatus, Revision, Report,
     RevisionStatus, Authorities, ReportOutcomes, RunOutcomes
<1>2. TypeOK
  BY <1>1, Defaults DEF Init, TypeOK, ExecutorInit, ExecutorTypeOK
<1>3. AttemptsAreDense /\ OneActiveAttempt
  BY DEF Init, StoreInit, AttemptsAreDense, OneActiveAttempt, NoJob, ActiveStatus
<1>4. RunsMatchCompletions
  BY DEF Init, StoreInit, RunsMatchCompletions, NoJob
<1>5. StatusTellsLastRun /\ ExtractionIsAdmitted
  BY DEF Init, StoreInit, UploadedStatus, StatusTellsLastRun, ExtractionIsAdmitted
<1>6. WorkersHaveClaimed /\ OneWorkerPerAttempt
  BY DEF Init, ExecutorInit, IdleWorker, WorkersHaveClaimed, OneWorkerPerAttempt
<1>. QED BY <1>2, <1>3, <1>4, <1>5, <1>6 DEF Inv, StoreInv

\* The invariant holds in every reachable state.
THEOREM Invariance == Spec => []Inv
BY InvInit, InvStep, PTL DEF Spec

\* Each part of it, as the runs check it.
THEOREM Safety ==
    Spec => [](/\ OneActiveAttempt /\ RunsMatchCompletions /\ StatusTellsLastRun
               /\ ExtractionIsAdmitted /\ OneWorkerPerAttempt)
<1>1. Inv => /\ OneActiveAttempt /\ RunsMatchCompletions /\ StatusTellsLastRun
             /\ ExtractionIsAdmitted /\ OneWorkerPerAttempt
  BY DEF Inv, StoreInv
<1>. QED BY <1>1, Invariance, PTL

\* A revision that awaits review or has failed is so because of its last run, whatever
\* late workers and operators with old pages do.
THEOREM StatusTheorem == Spec => []StatusTellsLastRun
<1>1. Inv => StatusTellsLastRun
  BY DEF Inv, StoreInv
<1>. QED BY <1>1, Invariance, PTL

\* Content is only extracted under an admission that holds, also when a decision is
\* recorded concurrently or overwritten.
THEOREM AdmissionTheorem == Spec => []ExtractionIsAdmitted
<1>1. Inv => ExtractionIsAdmitted
  BY DEF Inv, StoreInv
<1>. QED BY <1>1, Invariance, PTL

------------------------------------------------------------------------------
(* The ledger of attempts and results. *)

\* The ledger sees an active job as active, and any other by its status.
LEMMA EntryOf ==
    ASSUME StoreTypeOK
    PROVE
    /\ \A a \in Attempts :
         LedgerEntry[a] = IF job[a].status \in ActiveStatus THEN "active" ELSE job[a].status
    /\ Ledger!Active = ActiveAttempts
    /\ Ledger!Numbers = Attempts
<1>1. \A a \in Attempts :
        LedgerEntry[a] = IF job[a].status \in ActiveStatus THEN "active" ELSE job[a].status
  BY DEF LedgerEntry
<1>2. \A a \in Attempts : LedgerEntry[a] = "active" <=> job[a].status \in ActiveStatus
  BY <1>1, JobFields DEF ActiveStatus, StoreTypeOK
<1>3. Ledger!Numbers = Attempts
  BY DEF Ledger!Numbers
<1>4. Ledger!Active = ActiveAttempts
  BY <1>2, <1>3 DEF Ledger!Active, ActiveAttempts
<1>. QED BY <1>1, <1>3, <1>4

\* Steps that leave the status of every job alone are invisible to the ledger.
LEMMA LedgerQuiet ==
    ASSUME UNCHANGED <<attempts, runs>>,
           \A a \in Attempts : \/ job'[a].status = job[a].status
                             \/ {job'[a].status, job[a].status} \subseteq ActiveStatus
    PROVE  UNCHANGED Ledger!ledgerVars
<1>1. LedgerEntry' = LedgerEntry
  BY DEF LedgerEntry, ActiveStatus
<1>. QED BY <1>1 DEF Ledger!ledgerVars

\* A new attempt, with every active one closed as failed in the same commit.
LEMMA LedgerOpens ==
    ASSUME StoreTypeOK, NEW old \in [Attempts -> Job], UNCHANGED runs,
           \A a \in Attempts : old[a].status =
             IF job[a].status \in ActiveStatus THEN "failed" ELSE job[a].status,
           CreateQueuedJob(old)
    PROVE  Ledger!Open
<1>1. attempts < MaxAttempts /\ attempts' = attempts + 1 /\ attempts + 1 \in Attempts
  BY CreateType DEF CreateQueuedJob, StoreTypeOK
<1>2. /\ job'[attempts + 1].status = "queued"
      /\ \A a \in Attempts : a # attempts + 1 => job'[a] = old[a]
  BY <1>1 DEF CreateQueuedJob, QueuedJob
<1>3. \A a \in Attempts : Ledger!GivenUp[a] = old[a].status
  <2>1. \A a \in Attempts : a \in ActiveAttempts <=> job[a].status \in ActiveStatus
    BY DEF ActiveAttempts
  <2>2. \A a \in Attempts :
          Ledger!GivenUp[a] = IF a \in ActiveAttempts THEN "failed" ELSE LedgerEntry[a]
    BY EntryOf DEF Ledger!GivenUp
  <2>. QED BY <2>1, <2>2, EntryOf
<1>4. \A a \in Attempts : old[a].status \notin ActiveStatus
  BY DEF ActiveStatus
<1>5. ASSUME NEW a \in Attempts
      PROVE  LedgerEntry'[a] = [Ledger!GivenUp EXCEPT ![attempts + 1] = "active"][a]
  <2>1. LedgerEntry'[a] =
          IF job'[a].status \in ActiveStatus THEN "active" ELSE job'[a].status
    BY DEF LedgerEntry
  <2>2. CASE a = attempts + 1
    <3>1. LedgerEntry'[a] = "active"
      BY <1>2, <2>1, <2>2 DEF ActiveStatus
    <3>. QED BY <2>2, <3>1, EntryOf DEF Ledger!GivenUp
  <2>3. CASE a # attempts + 1
    <3>1. LedgerEntry'[a] = old[a].status
      BY <1>2, <1>4, <2>1, <2>3
    <3>. QED BY <1>3, <2>3, <3>1, EntryOf DEF Ledger!GivenUp
  <2>. QED BY <2>2, <2>3
<1>6. LedgerEntry' = [Ledger!GivenUp EXCEPT ![attempts + 1] = "active"]
  BY <1>5, EntryOf DEF LedgerEntry, Ledger!GivenUp
<1>. QED BY <1>1, <1>6 DEF Ledger!Open

\* Closing an active attempt is giving it up, or delivering its result.
LEMMA LedgerCloses ==
    ASSUME StoreTypeOK, NEW a \in Attempts, NEW row, job' = [job EXCEPT ![a] = row],
           job[a].status \in ActiveStatus, row.status \in TerminalStatus,
           UNCHANGED attempts
    PROVE  /\ a \in ActiveAttempts
           /\ LedgerEntry' = [LedgerEntry EXCEPT ![a] = row.status]
<1>1. job'[a] = row /\ \A b \in Attempts : b # a => job'[b] = job[b]
  BY DEF StoreTypeOK
<1>2. a \in ActiveAttempts
  BY DEF ActiveAttempts
<1>3. row.status \notin ActiveStatus
  BY DEF ActiveStatus, TerminalStatus
<1>4. \A b \in Attempts : LedgerEntry'[b] = [LedgerEntry EXCEPT ![a] = row.status][b]
  BY <1>1, <1>3 DEF LedgerEntry
<1>5. LedgerEntry' = [LedgerEntry EXCEPT ![a] = row.status]
  BY <1>4 DEF LedgerEntry
<1>. QED BY <1>2, <1>5

\* The operators' transactions on jobs open attempts or change nothing.
LEMMA LedgerOperator ==
    ASSUME StoreTypeOK, StoreInv, NEW seen
    PROVE  /\ EnqueueNew(seen) \/ Retry(seen) \/ RecoverIdle(seen) => Ledger!Open
           /\ \A a \in Attempts : RecoverExpired(seen, a) => Ledger!Open
<1>1. ASSUME ActiveAttempts = {}, CreateQueuedJob(job), UNCHANGED runs
      PROVE  Ledger!Open
  BY <1>1, LedgerOpens DEF ActiveAttempts, StoreTypeOK
<1>2. EnqueueNew(seen) \/ Retry(seen) \/ RecoverIdle(seen) => Ledger!Open
  BY <1>1 DEF EnqueueNew, Retry, RecoverIdle
<1>3. ASSUME NEW a \in Attempts, RecoverExpired(seen, a) PROVE Ledger!Open
  <2> DEFINE closed == [job EXCEPT ![a] = MarkFailed(job[a])]
  <2>1. ~UnlinkedRun
    BY DEF StoreInv, RunsMatchCompletions, UnlinkedRun, RunsLinked
  <2>2. CreateQueuedJob(closed) /\ UNCHANGED runs /\ job[a].status \in ActiveStatus
    BY <1>3, <2>1 DEF RecoverExpired, ActiveAttempts
  <2>3. \A b \in Attempts : b # a => job[b].status \notin ActiveStatus
    BY <2>2 DEF StoreInv, OneActiveAttempt
  <2>4. /\ closed \in [Attempts -> Job] /\ closed[a].status = "failed"
        /\ \A b \in Attempts : b # a => closed[b] = job[b]
    BY JobRows DEF MarkFailed, StoreTypeOK, FailedJob
  <2>. HIDE DEF closed
  <2>. QED BY <2>2, <2>3, <2>4, LedgerOpens
<1>. QED BY <1>2, <1>3

\* Initially the ledger is empty.
LEMMA LedgerInit == Init => Ledger!Init
BY DEF Init, StoreInit, Ledger!Init, Ledger!Numbers, LedgerEntry, NoJob, ActiveStatus

\* What a background step does to the job table.
LEMMA BackgroundJobs ==
    ASSUME TypeOK, NEW w \in Workers, Background(w)
    PROVE  \/ UNCHANGED <<attempts, runs, job>>
           \/ \E a \in Attempts : ClaimJob(w, a) \/ RenewLease(w, a) \/ FailJob(w, a)
           \/ \E outcome \in ExtractionOutcomes :
                /\ worker[w].job \in Attempts
                /\ Finalize(w, outcome)
                /\ CompleteJob(w, worker[w].job, outcome)
<1>1. /\ worker[w].pc # "idle" => worker[w].job \in Attempts
      /\ worker[w].beat => worker[w].job \in Attempts
  BY WorkerFields DEF TypeOK, ExecutorTypeOK
<1>2. CASE \/ EnterParsing(w) \/ EnterExtracting(w) \/ LoseLease(w) \/ RunFails(w)
           \/ WorkerDies(w) \/ HeartbeatStops(w)
  BY <1>2 DEF EnterParsing, EnterExtracting, LoseLease, RunFails, WorkerDies,
     HeartbeatStops, storeVars
<1>3. CASE \E a \in Attempts : Claim(w, a)
  BY <1>3 DEF Claim
<1>4. CASE \E outcome \in ExtractionOutcomes : Finalize(w, outcome)
  BY <1>1, <1>4 DEF Finalize
<1>5. CASE ReportFailure(w)
  BY <1>1, <1>5 DEF ReportFailure, storeVars
<1>6. CASE Heartbeat(w)
  BY <1>1, <1>6 DEF Heartbeat
<1>. QED BY <1>2, <1>3, <1>4, <1>5, <1>6 DEF Background, WorkerStep

\* Every step of the system is a step of the ledger or invisible to it.
LEMMA LedgerStep == Inv /\ [Next]_vars => [Ledger!Next]_(Ledger!ledgerVars)
<1> SUFFICES ASSUME Inv, [Next]_vars
             PROVE  Ledger!Next \/ UNCHANGED Ledger!ledgerVars
  OBVIOUS
<1>1. /\ TypeOK /\ StoreTypeOK /\ StoreInv
      /\ \A w \in Workers : worker[w].pc # "idle" => worker[w].job \in Attempts
  BY WorkerFields DEF Inv, TypeOK, ExecutorTypeOK
<1>2. ASSUME UNCHANGED <<attempts, runs, job>> PROVE UNCHANGED Ledger!ledgerVars
  BY <1>2, LedgerQuiet
<1>3. CASE \/ ResolveUpload \/ UploadFails \/ Restart \/ UNCHANGED vars
           \/ \E a \in Attempts : DropTask(a)
  BY <1>2, <1>3 DEF ResolveUpload, ResolveAdmission, UploadFails, Restart, DropTask, vars,
     storeVars
<1>4. CASE EnqueueUpload
  <2>1. CASE EnqueueNew(UploadPage)
    BY <1>1, <2>1, LedgerOperator DEF Ledger!Next
  <2>2. CASE \E a \in Attempts : EnqueueExisting(UploadPage, a)
    BY <1>2, <2>2 DEF EnqueueExisting, storeVars
  <2>. QED BY <1>4, <2>1, <2>2 DEF EnqueueUpload
<1>5. ASSUME NEW q \in Requests, Operate(q)
      PROVE  Ledger!Next \/ UNCHANGED Ledger!ledgerVars
  <2>1. CASE \/ EnqueueNew(request[q]) \/ Retry(request[q]) \/ RecoverIdle(request[q])
             \/ \E a \in Attempts : RecoverExpired(request[q], a)
    BY <1>1, <2>1, LedgerOperator DEF Ledger!Next
  <2>2. CASE UNCHANGED <<attempts, runs, job>>
    BY <1>2, <2>2
  <2>. QED BY <1>5, <2>1, <2>2 DEF Operate, LoadPage, SubmitDecision, Decide,
           ResubmitDecision, RepeatDecision, StartProcessing, EnqueueExisting,
           RetryProcessing, RecoverProcessing, CloseRequest, storeVars
<1>6. ASSUME NEW w \in Workers, Background(w)
      PROVE  Ledger!Next \/ UNCHANGED Ledger!ledgerVars
  <2>1. ASSUME NEW a \in Attempts, ClaimJob(w, a) PROVE UNCHANGED Ledger!ledgerVars
    BY <1>1, <2>1, LedgerQuiet DEF ClaimJob, ActiveStatus, StoreTypeOK
  <2>2. ASSUME NEW a \in Attempts, RenewLease(w, a) PROVE UNCHANGED Ledger!ledgerVars
    BY <1>1, <2>2, LedgerQuiet DEF RenewLease, StoreTypeOK
  <2>3. ASSUME NEW a \in Attempts, FailJob(w, a) PROVE Ledger!Next
    <3>1. a \in ActiveAttempts /\ LedgerEntry' = [LedgerEntry EXCEPT ![a] = "failed"]
      <4>1. /\ job' = [job EXCEPT ![a] = FailedJob] /\ UNCHANGED attempts
            /\ job[a].status \in ActiveStatus
        BY <2>3 DEF FailJob, LeaseHeld, MarkFailed, ActiveStatus
      <4>2. FailedJob.status = "failed" /\ "failed" \in TerminalStatus
        BY DEF FailedJob, TerminalStatus
      <4>. QED BY <1>1, <4>1, <4>2, LedgerCloses
    <3>2. UNCHANGED <<attempts, runs>>
      BY <2>3 DEF FailJob
    <3>. QED BY <1>1, <3>1, <3>2, EntryOf DEF Ledger!Next, Ledger!GiveUp
  <2>4. ASSUME NEW a \in Attempts, NEW outcome \in ExtractionOutcomes,
               CompleteJob(w, a, outcome)
        PROVE  Ledger!Next
    <3> DEFINE row == [status |-> "completed", token |-> NoWorker, lease |-> 0,
                       run |-> Len(runs) + 1]
    <3>1. /\ job' = [job EXCEPT ![a] = row] /\ job[a].status \in ActiveStatus
          /\ row.status = "completed" /\ UNCHANGED attempts
          /\ runs' = Append(runs, outcome) /\ outcome \in RunOutcomes
      BY <2>4 DEF CompleteJob, LeaseHeld, ActiveStatus
    <3>. HIDE DEF row
    <3>2. a \in ActiveAttempts /\ LedgerEntry' = [LedgerEntry EXCEPT ![a] = "completed"]
      BY <1>1, <3>1, LedgerCloses DEF TerminalStatus
    <3>. QED BY <1>1, <3>1, <3>2, EntryOf DEF Ledger!Next, Ledger!Deliver
  <2>5. CASE UNCHANGED <<attempts, runs, job>>
    BY <1>2, <2>5
  <2>. QED BY <1>1, <1>6, <2>1, <2>2, <2>3, <2>4, <2>5, BackgroundJobs
<1>7. CASE Tick
  BY <1>1, <1>7, ShorterRow, LedgerQuiet DEF Tick, AgeStore, StoreTypeOK
<1>. QED BY <1>3, <1>4, <1>5, <1>6, <1>7 DEF Next

\* The rows implement the ledger, whatever workers, operators and restarts do.
THEOREM Implements == Spec => ImplementsLedger
BY LedgerInit, LedgerStep, Invariance, PTL DEF Spec, ImplementsLedger, Ledger!Spec

------------------------------------------------------------------------------
(* Completion under a lease. *)

\* No transaction but the one of the finalizer completes a job.
LEMMA CompletionStep ==
    ASSUME Inv, [Next]_vars, NEW a \in Attempts,
           job'[a].status = "completed", job[a].status # "completed"
    PROVE  /\ job[a].status = "running" /\ job[a].lease > 0
           /\ worker[job[a].token].pc = "extracting"
           /\ worker[job[a].token].job = a
<1>1. TypeOK /\ StoreTypeOK
  BY DEF Inv, TypeOK
<1>2. ASSUME NEW old \in [Attempts -> Job], old[a].status # "completed",
             CreateQueuedJob(old)
      PROVE  FALSE
  BY <1>1, <1>2, CreateType DEF CreateQueuedJob, QueuedJob, StoreTypeOK
<1>3. ASSUME NEW b \in Attempts, NEW row, row.status # "completed",
             job' = [job EXCEPT ![b] = row]
      PROVE  FALSE
  BY <1>1, <1>3 DEF StoreTypeOK
<1>4. job' # job
  OBVIOUS
<1>5. ASSUME NEW seen, \/ EnqueueNew(seen) \/ Retry(seen) \/ RecoverIdle(seen)
                       \/ \E b \in Attempts : EnqueueExisting(seen, b)
      PROVE  FALSE
  BY <1>1, <1>2, <1>4, <1>5 DEF EnqueueNew, Retry, RecoverIdle, EnqueueExisting, storeVars,
     StoreTypeOK
<1>6. ASSUME NEW seen, NEW b \in Attempts, RecoverExpired(seen, b) PROVE FALSE
  <2> DEFINE closed == [job EXCEPT ![b] = MarkFailed(job[b])]
  <2>1. closed \in [Attempts -> Job] /\ closed[a].status # "completed"
    BY <1>1, JobRows DEF StoreTypeOK, MarkFailed, FailedJob
  <2>2. job' = closed \/ CreateQueuedJob(closed)
    BY <1>6 DEF RecoverExpired
  <2>. HIDE DEF closed
  <2>. QED BY <1>2, <2>1, <2>2
<1>7. PICK w \in Workers : Background(w)
  <2>1. ~(ResolveUpload \/ EnqueueUpload \/ UploadFails \/ Restart \/ UNCHANGED vars)
    BY <1>4, <1>5 DEF ResolveUpload, ResolveAdmission, EnqueueUpload, UploadFails, Restart,
       vars, storeVars
  <2>2. ~Tick /\ ~\E b \in Attempts : DropTask(b)
    BY <1>1, <1>4, ShorterRow DEF Tick, AgeStore, DropTask, storeVars, StoreTypeOK
  <2>3. \A q \in Requests : ~Operate(q)
    BY <1>4, <1>5, <1>6 DEF Operate, LoadPage, SubmitDecision, Decide, ResubmitDecision,
       RepeatDecision, StartProcessing, RetryProcessing, RecoverProcessing, CloseRequest,
       storeVars
  <2>. QED BY <2>1, <2>2, <2>3 DEF Next
<1>8. \A b \in Attempts : ~ClaimJob(w, b)
  BY <1>1, <1>3 DEF ClaimJob
<1>9. ASSUME NEW b \in Attempts, RenewLease(w, b) PROVE FALSE
  <2>1. job' = [job EXCEPT ![b] = [job[b] EXCEPT !.lease = LeaseTicks]]
    BY <1>1, <1>9 DEF RenewLease, StoreTypeOK
  <2>2. [job[b] EXCEPT !.lease = LeaseTicks].status = "running"
    BY <1>1, <1>9 DEF RenewLease, LeaseHeld, StoreTypeOK, Job, NoJob, QueuedJob, FailedJob
  <2>. QED BY <1>3, <2>1, <2>2
<1>10. \A b \in Attempts : ~FailJob(w, b) /\ ~RenewLease(w, b)
  BY <1>3, <1>9 DEF FailJob, MarkFailed, FailedJob
<1>11. PICK outcome \in ExtractionOutcomes : Finalize(w, outcome)
  BY <1>1, <1>4, <1>7, <1>8, <1>10, BackgroundJobs
<1>12. /\ worker[w].pc = "extracting" /\ LeaseHeld(w, worker[w].job)
       /\ \A b \in Attempts : b # worker[w].job => job'[b] = job[b]
  BY <1>1, <1>11 DEF Finalize, CompleteJob, StoreTypeOK
<1>13. worker[w].job = a
  BY <1>12
<1>. QED BY <1>12, <1>13 DEF LeaseHeld

\* Only the owner of a live lease completes a job.
THEOREM LeaseProtectsCompletion == Spec => CompletedUnderLease
<1>1. Inv /\ [Next]_vars =>
        [\A a \in Attempts :
           job'[a].status = "completed" /\ job[a].status # "completed" =>
             /\ job[a].status = "running" /\ job[a].lease > 0
             /\ worker[job[a].token].pc = "extracting"
             /\ worker[job[a].token].job = a]_vars
  BY CompletionStep
<1>. QED BY <1>1, Invariance, PTL DEF Spec, CompletedUnderLease
==============================================================================
