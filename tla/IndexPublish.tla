---------------------------- MODULE IndexPublish ----------------------------
(***************************************************************************)
(* One knowledge file and its two indexes (app/api/file.py,                *)
(* vector_index_service.py and what they call of lexical_index_service.py  *)
(* and vector_store_manager.py).  Uploads of the file, under its upload    *)
(* lock, replace it with a backup kept beside it, index it in a worker     *)
(* thread and put the backup back when the new version is not ready.       *)
(* Directory indexing reads the file without the upload lock.  Both index  *)
(* under the source lock: mark the source stale, write its vectors,        *)
(* replace its lexical chunks, delete its other vectors, clear the mark.   *)
(*                                                                         *)
(* An actor is an upload request or a directory run, with its own worker   *)
(* thread; locks are file locks, released when their process dies.  A      *)
(* version of the file stands for its set of chunks, which have the same   *)
(* vector id in every version they are in.  A rename that is cancelled has *)
(* taken effect or never does.                                             *)
(***************************************************************************)
EXTENDS Naturals, FiniteSets

CONSTANTS Uploads,         \* clients that upload the file, one request at a time
          Directories,     \* directory runs
          Versions,        \* contents of the file
          Chunks,          \* the chunks each version is split into
          None,
          MaxTroubles      \* bound on calls that fail, processes that die and cancellations

ASSUME IndexAssumption ==
    /\ Uploads \cap Directories = {}
    /\ None \notin Versions /\ None \notin Uploads \cup Directories
    /\ DOMAIN Chunks = Versions
    /\ MaxTroubles \in Nat

Actors == Uploads \cup Directories
AllChunks == UNION {Chunks[v] : v \in Versions}

VARIABLES file,            \* the version at file_path
          orphans,         \* versions in backup files no request will put back
          lexical,         \* the lexical chunks of the source
          stale,           \* the source is among stale_sources
          vectors,         \* the vectors of the source
          late,            \* vectors of an upsert that timed out and may still arrive
          uploadLock, sourceLock,
          upload,          \* what each upload request is doing
          thread,          \* what each actor's indexing thread is doing
          uncertain,       \* a step failed with vectors written or deleted, since they were
                           \* last made one version's
          ready,           \* the version of the last upload that was ready
          faults, cancels

indexVars == <<lexical, stale, vectors, late, uncertain>>
fileVars == <<file, orphans, uploadLock, upload, ready, cancels>>
publishVars == <<file, orphans, lexical, stale, vectors, late, uploadLock, sourceLock, upload,
                 thread, uncertain, ready, faults, cancels>>

\* backup: the version the request moved aside; None if there was none.
Upload == [pc : {"idle", "backup", "save", "index", "ready"}, version : Versions \cup {None},
           backup : Versions \cup {None}, cancelled : BOOLEAN]
Idle == [pc |-> "idle", version |-> None, backup |-> None, cancelled |-> FALSE]

Outcomes == {"success", "empty", "failed"}

\* old, wasStale: lexical_snapshot; docs: the chunks of the version the loader read.
Thread == [pc : {"none", "enter", "lock", "mark", "load", "add", "replace", "clean", "clear",
                 "drop_vectors", "drop_lexical", "compensate", "rollback", "late_mark"}
                \cup Outcomes,
           docs : SUBSET AllChunks, old : SUBSET AllChunks, wasStale : BOOLEAN]
NoThread == [pc |-> "none", docs |-> {}, old |-> {}, wasStale |-> FALSE]

Fault == faults + cancels < MaxTroubles /\ faults' = faults + 1
NoFault == UNCHANGED faults
Cancelled == faults + cancels < MaxTroubles /\ cancels' = cancels + 1

-----------------------------------------------------------------------------
(* Indexing one source: index_single_file *)

At(t, pc) == thread[t].pc = pc
Goto(t, pc) == thread' = [thread EXCEPT ![t].pc = pc]

\* The outcome waits for an upload that is still there; nobody else looks at it.
EndThread(t, outcome) ==
    thread' = [thread EXCEPT ![t] =
                  IF t \in Uploads /\ upload[t].pc = "index"
                    THEN [NoThread EXCEPT !.pc = outcome] ELSE NoThread]

\* The end of the locked section.
Unlock == sourceLock' = None

EnterIndexing(t) ==
    /\ At(t, "enter")
    /\ IF file = None THEN EndThread(t, "failed") ELSE Goto(t, "lock")
    /\ NoFault
    /\ UNCHANGED <<indexVars, fileVars, sourceLock>>

\* Mutant: indexing does not wait for another indexing of the source.
source_lock_free_for_all == TRUE

source_lock_free == sourceLock = None

\* The source lock and the snapshot of the lexical state; unreadable, there is no rollback.
SnapshotSource(t) ==
    /\ At(t, "lock") /\ source_lock_free
    /\ \/ /\ NoFault /\ sourceLock' = t
          /\ thread' = [thread EXCEPT ![t] = [@ EXCEPT !.pc = "mark", !.old = lexical,
                                                       !.wasStale = stale]]
       \/ Fault /\ Goto(t, "late_mark") /\ UNCHANGED sourceLock
    /\ UNCHANGED <<indexVars, fileVars>>

MarkStale(t) ==
    /\ At(t, "mark")
    /\ \/ NoFault /\ Goto(t, "load") /\ stale' = TRUE
       \/ Fault /\ Goto(t, "rollback") /\ UNCHANGED stale
    /\ UNCHANGED <<lexical, vectors, late, uncertain, fileVars, sourceLock>>

\* The loader reads the file as it is now, and the splitter splits it.
LoadSource(t) ==
    /\ At(t, "load")
    /\ \/ /\ NoFault /\ file # None
          /\ thread' = [thread EXCEPT ![t] = [@ EXCEPT !.docs = Chunks[file],
                           !.pc = IF Chunks[file] = {} THEN "drop_vectors" ELSE "add"]]
       \/ NoFault /\ file = None /\ Goto(t, "rollback")
       \/ Fault /\ Goto(t, "rollback")
    /\ UNCHANGED <<indexVars, fileVars, sourceLock>>

\* Vectors after a deletion that raised: deleted, or not.
AfterFailedDelete(deleted) == vectors' \in {vectors, vectors \ deleted}

\* add_documents: a failed upsert has written some of the batch, and deletes all of it as
\* well as it can; one that timed out still runs in its worker.
AddVectors(t) ==
    /\ At(t, "add")
    /\ \/ /\ NoFault /\ Goto(t, "replace")
          /\ vectors' = vectors \cup thread[t].docs
          /\ UNCHANGED <<late, uncertain>>
       \/ /\ Fault /\ Goto(t, "rollback")
          /\ \/ vectors' = vectors \ thread[t].docs
             \/ \E written \in SUBSET thread[t].docs : vectors' = vectors \cup written
          /\ late' \in {late, late \cup thread[t].docs}
          /\ uncertain' = TRUE
    /\ UNCHANGED <<lexical, stale, fileVars, sourceLock>>

\* The late upsert reaches the vector store.
LateVectors ==
    /\ late # {}
    /\ vectors' = vectors \cup late /\ late' = {} /\ uncertain' = TRUE
    /\ UNCHANGED <<lexical, stale, fileVars, sourceLock, thread, faults>>

\* Mutant: the new chunks are published before the old vectors are gone.
upsert_source_clears_stale(docs) == lexical' = docs /\ stale' = FALSE

\* upsert_source(clear_stale=False)
upsert_source(docs) == lexical' = docs /\ UNCHANGED stale

ReplaceLexical(t) ==
    /\ At(t, "replace")
    /\ \/ NoFault /\ Goto(t, "clean") /\ upsert_source(thread[t].docs)
       \/ Fault /\ Goto(t, "compensate") /\ UNCHANGED <<lexical, stale>>
    /\ UNCHANGED <<vectors, late, uncertain, fileVars, sourceLock>>

\* delete_by_source_except_ids
DeleteOtherVectors(t) ==
    /\ At(t, "clean")
    /\ \/ /\ NoFault /\ Goto(t, "clear")
          /\ vectors' = vectors \cap thread[t].docs /\ uncertain' = FALSE
       \/ /\ Fault /\ Goto(t, "compensate")
          /\ AfterFailedDelete(vectors \ thread[t].docs) /\ UNCHANGED uncertain
    /\ UNCHANGED <<lexical, stale, late, fileVars, sourceLock>>

ClearStale(t) ==
    /\ At(t, "clear")
    /\ \/ NoFault /\ EndThread(t, "success") /\ Unlock /\ stale' = FALSE
       \/ Fault /\ Goto(t, "compensate") /\ UNCHANGED <<stale, sourceLock>>
    /\ UNCHANGED <<lexical, vectors, late, uncertain, fileVars>>

\* A file without chunks: delete_by_source, then delete_source, which clears the mark too.
DropVectors(t) ==
    /\ At(t, "drop_vectors")
    /\ \/ NoFault /\ Goto(t, "drop_lexical") /\ vectors' = {} /\ uncertain' = FALSE
       \/ Fault /\ Goto(t, "rollback") /\ AfterFailedDelete(vectors) /\ uncertain' = TRUE
    /\ UNCHANGED <<lexical, stale, late, fileVars, sourceLock>>

DropLexical(t) ==
    /\ At(t, "drop_lexical")
    /\ \/ /\ NoFault /\ EndThread(t, "empty") /\ Unlock
          /\ lexical' = {} /\ stale' = FALSE /\ UNCHANGED uncertain
       \/ /\ Fault /\ Goto(t, "rollback") /\ uncertain' = TRUE
          /\ UNCHANGED <<lexical, stale, sourceLock>>
    /\ UNCHANGED <<vectors, late, fileVars>>

\* delete_by_ids(raise_on_error=False): every vector of the batch, those of unchanged chunks
\* of the old version among them; a failure is only logged.
Compensate(t) ==
    /\ At(t, "compensate")
    /\ Goto(t, "rollback")
    /\ AfterFailedDelete(thread[t].docs) /\ uncertain' = TRUE
    /\ NoFault
    /\ UNCHANGED <<lexical, stale, late, fileVars, sourceLock>>

\* Mutant: the chunks are restored and the mark is left.
restore_chunks_only(t) == lexical' = thread[t].old /\ UNCHANGED stale

restore_source_state(t) == lexical' = thread[t].old /\ stale' = thread[t].wasStale

Rollback(t) ==
    /\ At(t, "rollback")
    /\ Unlock
    /\ \/ NoFault /\ EndThread(t, "failed") /\ restore_source_state(t)
       \/ Fault /\ Goto(t, "late_mark") /\ UNCHANGED <<lexical, stale>>
    /\ UNCHANGED <<vectors, late, uncertain, fileVars>>

\* Without a rollback the source is marked stale, after the source lock was released.
MarkAfterFailure(t) ==
    /\ At(t, "late_mark")
    /\ EndThread(t, "failed")
    /\ \/ NoFault /\ stale' = TRUE
       \/ Fault /\ UNCHANGED stale
    /\ UNCHANGED <<lexical, vectors, late, uncertain, fileVars, sourceLock>>

Indexing(t) ==
    \/ EnterIndexing(t) \/ SnapshotSource(t) \/ MarkStale(t) \/ LoadSource(t)
    \/ AddVectors(t) \/ ReplaceLexical(t) \/ DeleteOtherVectors(t) \/ ClearStale(t)
    \/ DropVectors(t) \/ DropLexical(t)
    \/ Compensate(t) \/ Rollback(t) \/ MarkAfterFailure(t)

\* index_directory: a run over the directory reaches the file.
StartDirectory(t) ==
    /\ t \in Directories /\ At(t, "none")
    /\ Goto(t, "enter")
    /\ NoFault
    /\ UNCHANGED <<indexVars, fileVars, sourceLock>>

-----------------------------------------------------------------------------
(* Uploads: upload_file *)

indexUnchanged == UNCHANGED <<indexVars, sourceLock, faults>>

Doing(u, pc) == upload[u].pc = pc

\* The request ends and its lock is released; a thread that still runs goes on.
Leave(u) ==
    /\ upload' = [upload EXCEPT ![u] = Idle] /\ uploadLock' = None
    /\ thread' = [thread EXCEPT ![u] = IF @.pc \in Outcomes THEN NoThread ELSE @]

\* Backups the request leaves in the directory.
Leaves(u) == orphans' = orphans \cup ({upload[u].backup} \ {None})

\* Mutant: the version that was there is forgotten.
restored_or_gone(u) == None

\* What is at file_path after the replacement is undone: _restore_upload_backup, and the
\* removal of a file that replaced none.
restored(u) == upload[u].backup

ReceiveUpload(u) ==
    /\ Doing(u, "idle") /\ At(u, "none")
    /\ uploadLock = None /\ uploadLock' = u
    /\ \E v \in Versions :
          upload' = [upload EXCEPT ![u] = [Idle EXCEPT !.version = v,
                        !.pc = IF file # None THEN "backup" ELSE "save"]]
    /\ UNCHANGED <<file, orphans, ready, cancels, thread>> /\ indexUnchanged

BackupFile(u) ==
    /\ Doing(u, "backup")
    /\ upload' = [upload EXCEPT ![u] = [@ EXCEPT !.pc = "save", !.backup = file]]
    /\ file' = None
    /\ UNCHANGED <<orphans, uploadLock, ready, cancels, thread>> /\ indexUnchanged

\* Cancelled while the file is moved aside: no handler puts it back.
CancelBackup(u) ==
    /\ Doing(u, "backup")
    /\ Cancelled
    /\ \/ file' = None /\ orphans' = orphans \cup {file}
       \/ UNCHANGED <<file, orphans>>
    /\ Leave(u)
    /\ UNCHANGED <<ready>> /\ indexUnchanged

SaveFile(u) ==
    /\ Doing(u, "save")
    /\ file' = upload[u].version
    /\ upload' = [upload EXCEPT ![u].pc = "index"]
    /\ thread' = [thread EXCEPT ![u].pc = "enter"]
    /\ UNCHANGED <<orphans, uploadLock, ready, cancels>> /\ indexUnchanged

\* A file that is too large or has the wrong signature.
RejectFile(u) ==
    /\ Doing(u, "save")
    /\ file' = restored(u)
    /\ Leave(u)
    /\ UNCHANGED <<orphans, ready, cancels>> /\ indexUnchanged

\* Cancelled while it is written: a first version that has just been renamed stays.
CancelSave(u) ==
    /\ Doing(u, "save")
    /\ Cancelled
    /\ \/ file' = restored(u)
       \/ upload[u].backup = None /\ file' = upload[u].version
    /\ Leave(u)
    /\ UNCHANGED <<orphans, ready>> /\ indexUnchanged

\* The indexing is ready: the backup goes, then the answer is sent.
UploadReady(u) ==
    /\ Doing(u, "index") /\ ~upload[u].cancelled /\ At(u, "success")
    /\ upload' = [upload EXCEPT ![u] = [@ EXCEPT !.pc = "ready", !.backup = None]]
    /\ ready' = upload[u].version
    /\ UNCHANGED <<file, orphans, uploadLock, cancels, thread>> /\ indexUnchanged

AnswerReady(u) ==
    /\ Doing(u, "ready")
    /\ Leave(u)
    /\ UNCHANGED <<file, orphans, ready, cancels>> /\ indexUnchanged

\* Not ready: a version that was there is put back, a first version stays.  Putting it back is
\* one step: a cancellation between the unlink and the rename of the restore, and the process
\* dying there, are not modelled.
AnswerPartial(u) ==
    /\ Doing(u, "index") /\ ~upload[u].cancelled /\ thread[u].pc \in {"empty", "failed"}
    /\ file' = IF upload[u].backup # None THEN restored(u) ELSE file
    /\ Leave(u)
    /\ UNCHANGED <<orphans, ready, cancels>> /\ indexUnchanged

\* A cancelled request waits for its thread, unless it is cancelled again.
CancelIndex(u) ==
    /\ Doing(u, "index") /\ ~upload[u].cancelled
    /\ Cancelled
    /\ upload' = [upload EXCEPT ![u].cancelled = TRUE]
    /\ UNCHANGED <<file, orphans, uploadLock, ready, thread>> /\ indexUnchanged

\* The restore is one step here too.
UndoUpload(u) ==
    /\ Doing(u, "index") /\ upload[u].cancelled
    /\ \/ thread[u].pc \in Outcomes /\ UNCHANGED cancels
       \/ Cancelled
    /\ file' = restored(u)
    /\ Leave(u)
    /\ UNCHANGED <<orphans, ready>> /\ indexUnchanged

\* The process of an actor dies: its locks are free, its backup stays where it is.
Crash(a) ==
    /\ thread[a].pc # "none" \/ (a \in Uploads /\ upload[a].pc # "idle")
    /\ Fault
    /\ thread' = [thread EXCEPT ![a] = NoThread]
    /\ sourceLock' = IF sourceLock = a THEN None ELSE sourceLock
    /\ uploadLock' = IF uploadLock = a THEN None ELSE uploadLock
    /\ IF a \in Uploads THEN Leaves(a) /\ upload' = [upload EXCEPT ![a] = Idle]
                        ELSE UNCHANGED <<orphans, upload>>
    /\ UNCHANGED <<indexVars, file, ready, cancels>>

-----------------------------------------------------------------------------
Init ==
    /\ file = None /\ orphans = {} /\ ready = None
    /\ lexical = {} /\ stale = FALSE /\ vectors = {} /\ late = {} /\ uncertain = FALSE
    /\ uploadLock = None /\ sourceLock = None
    /\ upload = [u \in Uploads |-> Idle]
    /\ thread = [a \in Actors |-> NoThread]
    /\ faults = 0 /\ cancels = 0

Next ==
    \/ \E a \in Actors : Indexing(a) \/ StartDirectory(a) \/ Crash(a)
    \/ \E u \in Uploads :
          \/ ReceiveUpload(u) \/ BackupFile(u) \/ CancelBackup(u)
          \/ SaveFile(u) \/ RejectFile(u) \/ CancelSave(u)
          \/ UploadReady(u) \/ AnswerReady(u) \/ AnswerPartial(u)
          \/ CancelIndex(u) \/ UndoUpload(u)
    \/ LateVectors

PublishSpec == Init /\ [][Next]_publishVars

-----------------------------------------------------------------------------
(* Properties *)

\* The type invariant, checked as part of ReadyIsIndexed: files, indexes, requests and
\* threads stay in their sets, and each lock is held by exactly the request or the thread
\* that is inside its section.
PublishTypeOK ==
    /\ file \in Versions \cup {None} /\ ready \in Versions \cup {None}
    /\ orphans \subseteq Versions
    /\ lexical \subseteq AllChunks /\ vectors \subseteq AllChunks /\ late \subseteq AllChunks
    /\ stale \in BOOLEAN /\ uncertain \in BOOLEAN
    /\ uploadLock \in Uploads \cup {None} /\ sourceLock \in Actors \cup {None}
    /\ upload \in [Uploads -> Upload]
    /\ thread \in [Actors -> Thread]
    /\ faults \in 0..MaxTroubles /\ cancels \in 0..MaxTroubles
    /\ \A u \in Uploads : uploadLock = u <=> ~Doing(u, "idle")
    /\ \A a \in Actors :
          sourceLock = a
              <=> thread[a].pc \notin {"none", "enter", "lock", "late_mark"} \cup Outcomes

\* A source that retrieval may use has the same chunks in both indexes, whatever the
\* processes were doing when they died, unless a step failed after the vectors were touched
\* and nothing was published since (_index_single_file_locked, the stale mark).
IndexesAgree == (~stale /\ ~uncertain) => vectors = lexical

\* An upload that is about to be answered as ready is what the directory and the lexical
\* index hold, whatever other uploads, cancelled ones and directory runs did meanwhile
\* (the upload lock, the source lock, _run_index_single_file).
ReadyIsIndexed ==
    PublishTypeOK /\ \A u \in Uploads :
        Doing(u, "ready") => file = upload[u].version /\ lexical = Chunks[upload[u].version]

\* The version last answered as ready is never lost: it is the file, or a backup of it is in
\* the directory, through failures, cancellations and crashes (_save_and_index_upload).
ReadyVersionKept ==
    ready # None => ready \in {file} \cup orphans \cup {upload[u].backup : u \in Uploads}

\* Retrieval never loses a source for good without a failure: while nobody indexes it, it is
\* not marked stale, though uploads are cancelled, undone or find no file
\* (restore_source_state, clear_source_stale).
StaleOnlyWhileIndexed == (stale /\ faults = 0) => sourceLock # None

=============================================================================
