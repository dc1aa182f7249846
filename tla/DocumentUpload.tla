--------------------------- MODULE DocumentUpload ---------------------------
(* The upload of a document or of a new revision: the request receives the     *)
(* bytes into a temporary file, inspects them, promotes the file to the store  *)
(* and writes document, revision and report in one transaction.  The file      *)
(* store and the database are two systems: every await between them is a step  *)
(* at which another request runs, the step fails, or this request disappears.  *)
EXTENDS TechnicalPreflight

CONSTANTS
    UploadRequests,  \* upload requests; a request also names what it writes
    Documents,       \* identities of documents
    Uploads,         \* the files users send
    None             \* no request, no document, no row

Statuses == {"rejected", "quarantined", "preflight_checking"}
Row == [id: UploadRequests, doc: Documents, no: Nat \ {0},
        supersedes: UploadRequests \cup {None}, status: Statuses]

ASSUME UploadAssumption ==
    /\ None \notin UploadRequests \cup Documents \cup Row
    /\ Uploads \subseteq Files

VARIABLES
    stage,      \* where the handler of a request stands
    target,     \* the document it writes to
    isNew,      \* the requests that create their document
    verdict,    \* the status technical preflight gives the revision
    temps,      \* requests whose temporary file exists
    files,      \* keys of the file store
    docs,       \* committed documents
    rows,       \* committed revisions
    pending,    \* the revision a request has flushed but not committed
    lock,       \* the request that holds the row lock of a document
    mishaps     \* history: what went wrong for a request, beyond its own failure

uploadVars == <<stage, target, isNew, verdict, temps, files, docs, rows, pending, lock, mishaps>>

Ended == {"done", "failed", "gone"}
Storing == {"locked", "written"}
Stages == Ended \cup Storing
            \cup {"idle", "receiving", "received", "checked", "promoted", "rolling", "undoing"}

(* The clock went back, a deletion failed, the rollback failed, or the answer  *)
(* to the commit was lost.                                                     *)
Mishaps == {"clock", "deletion", "rollback", "commit"}

(* Broken: equal contents share a key.                                         *)
StorageKeyOfContent(r) == CHOOSE q \in UploadRequests : TRUE

(* The key under which a request's file is promoted: fresh for each promotion. *)
StorageKey(r) == r

UploadInit ==
    /\ stage = [r \in UploadRequests |-> "idle"]
    /\ target = [r \in UploadRequests |-> None]
    /\ isNew = {}
    /\ verdict = [r \in UploadRequests |-> "preflight_checking"]
    /\ temps = {} /\ files = {}
    /\ docs = {} /\ rows = {}
    /\ pending = [r \in UploadRequests |-> None]
    /\ lock = [d \in Documents |-> None]
    /\ mishaps = {}

Goto(r, s) == stage' = [stage EXCEPT ![r] = s]
Meets(r, kind) == mishaps' = mishaps \cup {<<r, kind>>}
Met(r, kind) == <<r, kind>> \in mishaps
Unlock(r) == lock' = [d \in Documents |-> IF lock[d] = r THEN None ELSE lock[d]]

(* The handler starts: a document of the project or the identity of a new one, *)
(* and an empty temporary file.                                                *)
Begin(r, d, new) ==
    /\ stage[r] = "idle"
    /\ IF new THEN d \notin docs /\ \A q \in UploadRequests : target[q] # d
              ELSE d \in docs
    /\ Goto(r, "receiving")
    /\ target' = [target EXCEPT ![r] = d]
    /\ isNew' = IF new THEN isNew \cup {r} ELSE isNew
    /\ temps' = temps \cup {r}
    /\ UNCHANGED <<verdict, files, docs, rows, pending, lock, mishaps>>

(* An error before the promotion deletes the temporary file; the deletion may  *)
(* fail too, which nobody is told.                                             *)
DiscardTemp(r) ==
    /\ Goto(r, "failed")
    /\ \/ temps' = temps \ {r} /\ UNCHANGED mishaps
       \/ Meets(r, "deletion") /\ UNCHANGED temps
    /\ UNCHANGED <<target, isNew, verdict, files, docs, rows, pending, lock>>

(* All chunks arrived, within the size limit and not empty.                    *)
Receive(r) ==
    /\ stage[r] = "receiving"
    /\ Goto(r, "received")
    /\ UNCHANGED <<target, isNew, verdict, temps, files, docs, rows, pending, lock, mishaps>>

(* Too large, empty, or a chunk could not be written.                          *)
ReceiveFails(r) == stage[r] = "receiving" /\ DiscardTemp(r)

(* Preflight reads the temporary file back.                                    *)
Preflight(r, f) ==
    /\ stage[r] = "received"
    /\ Goto(r, "checked")
    /\ verdict' = [verdict EXCEPT ![r] = MapPreflight(Inspect(f)).status]
    /\ UNCHANGED <<target, isNew, temps, files, docs, rows, pending, lock, mishaps>>

PreflightFails(r) == stage[r] = "received" /\ DiscardTemp(r)

(* Preflight seems to have ended before it began: the request fails outside of *)
(* every handler, and its temporary file stays.                                *)
ClockGoesBack(r) ==
    /\ stage[r] = "checked"
    /\ Goto(r, "failed")
    /\ Meets(r, "clock")
    /\ UNCHANGED <<target, isNew, verdict, temps, files, docs, rows, pending, lock>>

(* A rename from the temporary directory into the store.                       *)
Promote(r) ==
    /\ stage[r] = "checked"
    /\ Goto(r, "promoted")
    /\ temps' = temps \ {r}
    /\ files' = files \cup {StorageKey(r)}
    /\ UNCHANGED <<target, isNew, verdict, docs, rows, pending, lock, mishaps>>

(* Broken: only the promoted file is thought of.                               *)
PromoteFailsKeepingTemp(r) ==
    /\ stage[r] = "checked" /\ Goto(r, "failed")
    /\ UNCHANGED <<target, isNew, verdict, temps, files, docs, rows, pending, lock, mishaps>>

PromoteFails(r) == stage[r] = "checked" /\ DiscardTemp(r)

(* Broken: the document is committed before its first revision.                *)
InsertDocumentAlone(r) ==
    /\ stage[r] = "promoted" /\ r \in isNew
    /\ Goto(r, "locked")
    /\ docs' = docs \cup {target[r]}
    /\ UNCHANGED <<target, isNew, verdict, temps, files, rows, pending, lock, mishaps>>

(* Broken: the document is read without FOR UPDATE.                            *)
ReadDocument(r) ==
    /\ stage[r] = "promoted" /\ r \notin isNew
    /\ Goto(r, "locked")
    /\ UNCHANGED <<target, isNew, verdict, temps, files, docs, rows, pending, lock, mishaps>>

(* A new document is inserted; an existing one is locked.  From here to the    *)
(* end of the transaction the lock keeps other revisions of it out.            *)
InsertDocument(r) ==
    /\ stage[r] = "promoted" /\ r \in isNew
    /\ Goto(r, "locked")
    /\ UNCHANGED <<target, isNew, verdict, temps, files, docs, rows, pending, lock, mishaps>>

LockDocument(r) ==
    /\ stage[r] = "promoted" /\ r \notin isNew
    /\ lock[target[r]] = None
    /\ lock' = [lock EXCEPT ![target[r]] = r]
    /\ Goto(r, "locked")
    /\ UNCHANGED <<target, isNew, verdict, temps, files, docs, rows, pending, mishaps>>

RevisionsOf(d) == {row \in rows : row.doc = d}
(* The revision with the highest number, read under the lock.                  *)
IsLatest(row) == row \in rows /\ \A other \in RevisionsOf(row.doc) : other.no <= row.no

NewRow(r, no, supersedes) ==
    [id |-> r, doc |-> target[r], no |-> no, supersedes |-> supersedes, status |-> verdict[r]]

(* The database refuses a second revision with the number of another.          *)
NumberTaken(row) == \E other \in rows : other.doc = row.doc /\ other.no = row.no

(* The revision, its report and its risk flags are flushed.                    *)
WriteRevision(r) ==
    /\ stage[r] = "locked"
    /\ \E row \in (IF r \in isNew THEN {NewRow(r, 1, None)}
                   ELSE {NewRow(r, last.no + 1, last.id) :
                           last \in {l \in RevisionsOf(target[r]) : IsLatest(l)}}) :
          /\ ~NumberTaken(row)
          /\ pending' = [pending EXCEPT ![r] = row]
    /\ Goto(r, "written")
    /\ UNCHANGED <<target, isNew, verdict, temps, files, docs, rows, lock, mishaps>>

Publish(r) ==
    /\ ~NumberTaken(pending[r])
    /\ rows' = rows \cup {pending[r]}
    /\ docs' = docs \cup {target[r]}
    /\ pending' = [pending EXCEPT ![r] = None]
    /\ Unlock(r)

Commit(r) ==
    /\ stage[r] = "written"
    /\ Publish(r)
    /\ Goto(r, "done")
    /\ UNCHANGED <<target, isNew, verdict, temps, files, mishaps>>

(* The commit takes effect but its answer does not arrive: the handler sees an *)
(* exception, as if nothing had been stored.                                   *)
CommitUnacknowledged(r) ==
    /\ stage[r] = "written"
    /\ Publish(r)
    /\ Goto(r, "rolling")
    /\ Meets(r, "commit")
    /\ UNCHANGED <<target, isNew, verdict, temps, files>>

(* A statement or the commit fails, the document is not of this project any    *)
(* more, the number is taken.  The transaction is still to be rolled back.     *)
StoreFails(r) ==
    /\ stage[r] \in {"promoted"} \cup Storing
    /\ Goto(r, "rolling")
    /\ pending' = [pending EXCEPT ![r] = None]
    /\ UNCHANGED <<target, isNew, verdict, temps, files, docs, rows, lock, mishaps>>

(* Broken: the transaction is left open.                                       *)
RollbackNothing(r) ==
    /\ stage[r] = "rolling"
    /\ Goto(r, "undoing")
    /\ UNCHANGED <<target, isNew, verdict, temps, files, docs, rows, pending, lock, mishaps>>

Rollback(r) ==
    /\ stage[r] = "rolling"
    /\ Goto(r, "undoing")
    /\ Unlock(r)
    /\ UNCHANGED <<target, isNew, verdict, temps, files, docs, rows, pending, mishaps>>

(* The rollback raises: the compensation after it is skipped.  The lock goes   *)
(* with the connection, which the session gives up.                            *)
RollbackFails(r) ==
    /\ stage[r] = "rolling"
    /\ Goto(r, "failed")
    /\ Meets(r, "rollback")
    /\ Unlock(r)
    /\ UNCHANGED <<target, isNew, verdict, temps, files, docs, rows, pending>>

(* After the rollback the promoted file is deleted; a failure is only logged.  *)
Compensate(r) ==
    /\ stage[r] = "undoing"
    /\ Goto(r, "failed")
    /\ \/ files' = files \ {StorageKey(r)} /\ UNCHANGED mishaps
       \/ Meets(r, "deletion") /\ UNCHANGED files
    /\ UNCHANGED <<target, isNew, verdict, temps, docs, rows, pending, lock>>

(* A file operation runs in a thread of its own, which a cancellation does not *)
(* stop: a deletion or a rename that has begun still takes effect.             *)
Underway(r) ==
    \/ UNCHANGED <<temps, files>>
    \/ /\ stage[r] \in {"receiving", "received", "checked"}
       /\ temps' = temps \ {r} /\ UNCHANGED files
    \/ stage[r] = "checked" /\ temps' = temps \ {r} /\ files' = files \cup {StorageKey(r)}
    \/ stage[r] = "undoing" /\ files' = files \ {StorageKey(r)} /\ UNCHANGED temps

(* The request is cancelled or the process stops.  Cancellation is not an      *)
(* Exception, so no handler cleans up; the database rolls back by itself.      *)
Interrupt(r) ==
    /\ stage[r] \notin Ended \cup {"idle"}
    /\ Goto(r, "gone")
    /\ pending' = [pending EXCEPT ![r] = None]
    /\ Underway(r)
    /\ Unlock(r)
    /\ UNCHANGED <<target, isNew, verdict, docs, rows, mishaps>>

Handle(r) ==
    \/ Receive(r) \/ (\E f \in Uploads : Preflight(r, f)) \/ Promote(r)
    \/ InsertDocument(r) \/ LockDocument(r) \/ WriteRevision(r) \/ Commit(r)
    \/ Rollback(r) \/ Compensate(r)

GoesWrong(r) ==
    \/ ReceiveFails(r) \/ PreflightFails(r) \/ ClockGoesBack(r) \/ PromoteFails(r)
    \/ StoreFails(r) \/ CommitUnacknowledged(r) \/ RollbackFails(r) \/ Interrupt(r)

UploadNext ==
    \E r \in UploadRequests :
        \/ \E d \in Documents, new \in BOOLEAN : Begin(r, d, new)
        \/ Handle(r)
        \/ GoesWrong(r)

UploadSpec == UploadInit /\ [][UploadNext]_uploadVars

(* A handler that runs goes on, and the lock of a document is granted to a     *)
(* request that keeps waiting for it.  Nothing is assumed to go wrong.         *)
FairUploadSpec ==
    /\ UploadSpec
    /\ \A r \in UploadRequests : WF_uploadVars(Handle(r)) /\ SF_uploadVars(LockDocument(r))

-----------------------------------------------------------------------------
(* Rows, files and locks are well-formed, and a row a request has flushed but  *)
(* not committed exists exactly while it is about to commit.                   *)
UploadTypeOK ==
    /\ stage \in [UploadRequests -> Stages]
    /\ target \in [UploadRequests -> Documents \cup {None}]
    /\ isNew \subseteq UploadRequests
    /\ verdict \in [UploadRequests -> Statuses]
    /\ temps \subseteq UploadRequests /\ files \subseteq UploadRequests
    /\ docs \subseteq Documents /\ rows \subseteq Row
    /\ pending \in [UploadRequests -> Row \cup {None}]
    /\ lock \in [Documents -> UploadRequests \cup {None}]
    /\ mishaps \subseteq UploadRequests \X Mishaps
    /\ \A r \in UploadRequests : pending[r] # None <=> stage[r] = "written"

(* The revisions of a document are numbered without gaps or repetitions, each  *)
(* supersedes the one before it, and no document is stored without a revision, *)
(* whatever uploads run at the same time (document_upload.py, the transaction  *)
(* of upload_document_for_project).                                            *)
HistoryIsLinear ==
    /\ docs = {row.doc : row \in rows}
    /\ \A row \in rows :
          IF row.no = 1 THEN row.supersedes = None
          ELSE \E old \in RevisionsOf(row.doc) :
                   old.no + 1 = row.no /\ row.supersedes = old.id
    /\ \A a, b \in rows : a.doc = b.doc /\ a.no = b.no => a = b

(* The lock is held from the reading of the latest revision to the commit, so  *)
(* the number and the predecessor a request has chosen are still right when it *)
(* commits: uploads never make each other fail.                                *)
ChoiceStaysRight ==
    \A r \in UploadRequests :
        stage[r] = "written" =>
            /\ ~NumberTaken(pending[r])
            /\ pending[r].no > 1 =>
                  \E old \in rows : IsLatest(old) /\ old.id = pending[r].supersedes

(* The history of a document is linear and stays so: nothing that is about to  *)
(* be written contradicts it.                                                  *)
HistoryStaysLinear == UploadTypeOK /\ HistoryIsLinear /\ ChoiceStaysRight

(* An upload that was answered with success has its revision and its file, and *)
(* no failure, compensation or interruption of another upload takes the file.  *)
AnsweredIsStored ==
    \A r \in UploadRequests :
        stage[r] = "done" => \E row \in rows : row.id = r /\ StorageKey(row.id) \in files

(* A stored revision whose file is missing is always the work of a request     *)
(* that never learnt of its commit, and that ended without success.            *)
MissingFileIsUnanswered ==
    \A row \in rows : StorageKey(row.id) \notin files =>
        Met(row.id, "commit") /\ stage[row.id] \in {"failed", "gone"}

(* The file store agrees with what the users were told.                        *)
FilesFollowAnswers == AnsweredIsStored /\ MissingFileIsUnanswered

(* What a failed upload leaves behind has its own cause: a temporary file that *)
(* the clock went back or its deletion failed, a promoted file that the        *)
(* rollback or the deletion failed, a revision that the commit's answer was    *)
(* lost; it never leaves both files, and never a lock (the exits of            *)
(* upload_document_for_project and their cleaning).                            *)
LeftoversAreExplained ==
    \A r \in UploadRequests : stage[r] = "failed" =>
        /\ r \in temps => Met(r, "clock") \/ Met(r, "deletion")
        /\ StorageKey(r) \in files => Met(r, "rollback") \/ Met(r, "deletion")
        /\ r \in {row.id : row \in rows} => Met(r, "commit")
        /\ ~(r \in temps /\ StorageKey(r) \in files)
        /\ \A d \in Documents : lock[d] # r

(* Every upload ends, so every lock of a document is released.                 *)
UploadEnds == \A r \in UploadRequests : stage[r] = "receiving" ~> stage[r] \in Ended
=============================================================================
