---- MODULE RowLocks ----
(***************************************************************************)
(* The transactions of postgres-repository.js on one video, statement by   *)
(* statement, with the locks each statement takes and keeps until the end. *)
(* VideoRepository treats a transaction as one step; here the steps of     *)
(* several transactions interleave, wait for each other, deadlock and roll *)
(* back, and what they commit has to be a behaviour of VideoLifecycle.     *)
(*                                                                         *)
(* PostgreSQL at READ COMMITTED, as far as these statements use it: a      *)
(* statement sees the committed rows and what its own transaction wrote; a *)
(* row it locks or updates is read again once the lock is granted; an      *)
(* inserted row is invisible until it commits; a foreign key takes KEY     *)
(* SHARE on the row it names; writing to a table takes ROW EXCLUSIVE on it *)
(* and CREATE INDEX IF NOT EXISTS takes SHARE, also when the index exists. *)
(* Files are left out: reading and storing them takes no lock.             *)
(***************************************************************************)
EXTENDS Naturals

CONSTANTS
    Clients,    \* database sessions, each running one transaction at a time
    Kinds,      \* the transactions they run, a subset of AllKinds
    NULL

AllKinds == {"open", "chunk", "finalize", "claim", "ready", "publish",
             "tombstone", "foreign_tombstone", "migrate"}

ASSUME KindsAssumption == Kinds \subseteq AllKinds
ASSUME ClientsAssumption == NULL \notin Clients

VARIABLES
    committed,  \* the rows of the video as other transactions see them
    tx,         \* what a session is doing: [kind, at, inTime]
    locks,      \* the locks of its transaction: a set of <<item, mode>>
    draft,      \* the rows its transaction has written and not yet committed
    run,        \* whether its process holds the token of a claim that committed
    expired     \* whether lease_until_ms has passed

vars == <<committed, tx, locks, draft, run, expired>>

Rows == {"upload", "video", "job", "rendition"}
Tables == {"processing_jobs", "rendition_segments"}

Idle == [kind |-> "none", at |-> "none", inTime |-> FALSE]
NoRows == [row \in {} |-> NULL]

\* The rows of new, and those of old that new does not replace.
Overlay(new, old) ==
    [row \in DOMAIN new \cup DOMAIN old |-> IF row \in DOMAIN new THEN new[row] ELSE old[row]]

Init ==
    /\ committed = [upload    |-> [state |-> "absent", complete |-> FALSE],
                    video     |-> [state |-> "absent", deletions |-> 0],
                    job       |-> [state |-> "absent", lease |-> NULL],
                    rendition |-> [state |-> "absent"]]
    /\ tx = [c \in Clients |-> Idle]
    /\ locks = [c \in Clients |-> {}]
    /\ draft = [c \in Clients |-> NoRows]
    /\ run = [c \in Clients |-> FALSE]
    /\ expired = FALSE

----------------------------------------------------------------------------
(* Locks.                                                                  *)

\* The lock modes that exclude each other, on rows and on tables.
Conflicts(one, two) ==
    {one, two} \in {{"for_update"}, {"no_key_update"},
                    {"for_update", "no_key_update"}, {"for_update", "key_share"},
                    {"row_exclusive", "share"}}

\* The row of the video with another state.
VideoIn(state) == [state |-> state, deletions |-> committed.video.deletions]

JobIsLive == committed.job.state \in {"queued", "processing"}

\* Mutant: the deletion cancels a job only if it found it before it locked the video.
CancelLock_FoundOnly(c) ==
    IF JobIsLive THEN {<<"job", "for_update">>} \cap locks[c] ELSE {}

\* tombstoneVideo updates the job if it is queued or processing.
CancelLock(c) == IF JobIsLive THEN {<<"job", "for_update">>} ELSE {}

\* Mutant: claimJob selects the job without FOR UPDATE.
ClaimLock_None == {}

\* FOR UPDATE OF job: the video of the join is not locked.
ClaimLock == {<<"job", "for_update">>}

\* Mutant: materializeJob locks the video first, then the job.
ReadyLocks_VideoFirst == <<"video", "job">>

\* The rows the ready transaction locks, in order.
ReadyLocks == <<"job", "video">>

\* What the statement a session has come to needs, besides what it holds.  The video
\* a deletion selects by its owner is locked for the owner only.
Wants(c) ==
    CASE tx[c].at \in {"open.insert", "chunk.lock", "finalize.lock"} -> {<<"upload", "for_update">>}
      [] tx[c].at \in {"chunk.video", "finalize.video"} -> {<<"video", "no_key_update">>}
      [] tx[c].at \in {"finalize.jobs", "claim.update", "ready.complete", "tombstone.jobs"} ->
            {<<"processing_jobs", "row_exclusive">>}
      [] tx[c].at = "finalize.insert" -> {<<"video", "key_share">>}
      [] tx[c].at = "claim.video" /\ committed.video.state \in {"queued", "processing"} ->
            {<<"video", "no_key_update">>}
      [] tx[c].at = "ready.lock" -> {<<ReadyLocks[1], "for_update">>}
      [] tx[c].at = "ready.video" -> {<<ReadyLocks[2], "for_update">>}
      [] tx[c].at = "publish.lock" -> {<<"video", "for_update">>}
      [] tx[c].at = "tombstone.video" /\ tx[c].kind = "tombstone" -> {<<"video", "for_update">>}
      [] tx[c].at = "ready.segments" -> {<<"rendition_segments", "row_exclusive">>}
      [] tx[c].at = "publish.rendition" -> {<<"rendition", "for_update">>}
      [] tx[c].at = "tombstone.lock" /\ committed.job.state # "absent" -> {<<"job", "for_update">>}
      [] tx[c].at = "tombstone.cancel" -> CancelLock(c)
      [] tx[c].at = "migrate.jobs" -> {<<"processing_jobs", "share">>}
      [] tx[c].at = "migrate.segments" -> {<<"rendition_segments", "share">>}
      [] OTHER -> {}

Blocks(d, want) == \E lock \in locks[d] : lock[1] = want[1] /\ Conflicts(lock[2], want[2])

WaitsFor(c, d) == d # c /\ \E want \in Wants(c) : Blocks(d, want)

\* Sets of sessions in which each waits for another of the set, and the smallest
\* of them: the cycles PostgreSQL looks for.
Stuck(set) == set # {} /\ \A c \in set : \E d \in set : WaitsFor(c, d)
Cycle(set) == Stuck(set) /\ \A part \in SUBSET set : Stuck(part) => part = set

----------------------------------------------------------------------------
(* One statement of a transaction.                                         *)

\* The statement can run: every lock it needs is free.
At(c, at) ==
    /\ tx[c].at = at
    /\ \A d \in Clients : ~WaitsFor(c, d)

\* It takes its locks, writes its rows, and the transaction goes on.
Continue(c, at, taken, written) ==
    /\ tx' = [tx EXCEPT ![c].at = at]
    /\ locks' = [locks EXCEPT ![c] = @ \cup taken]
    /\ draft' = [draft EXCEPT ![c] = Overlay(written, @)]
    /\ UNCHANGED <<committed, run, expired>>

\* Mutant: the session goes back to the pool inside its transaction.
End_NoRollback(c) ==
    /\ tx' = [tx EXCEPT ![c] = Idle]
    /\ draft' = [draft EXCEPT ![c] = NoRows]
    /\ UNCHANGED <<committed, locks, run, expired>>

\* ROLLBACK, or COMMIT of a transaction that wrote nothing.
End(c) ==
    /\ tx' = [tx EXCEPT ![c] = Idle]
    /\ locks' = [locks EXCEPT ![c] = {}]
    /\ draft' = [draft EXCEPT ![c] = NoRows]
    /\ UNCHANGED <<committed, run, expired>>

\* A request arrives, or a worker process makes its next call.  The third clock
\* sample of materializeJob is taken before the transaction.
FirstStatement ==
    [kind \in AllKinds |->
        CASE kind = "open" -> "open.select"
          [] kind = "chunk" -> "chunk.lock"
          [] kind = "finalize" -> "finalize.lock"
          [] kind = "claim" -> "claim.select"
          [] kind = "ready" -> "ready.lock"
          [] kind = "publish" -> "publish.lock"
          [] kind \in {"tombstone", "foreign_tombstone"} -> "tombstone.lock"
          [] kind = "migrate" -> "migrate.jobs"]

\* The ids of the upload and the video are known once openUpload has committed.
Begin(c, kind) ==
    /\ tx[c] = Idle
    /\ kind \notin {"open", "claim", "migrate"} => committed.upload.state # "absent"
    /\ kind = "ready" => run[c]
    /\ tx' = [tx EXCEPT ![c] = [kind |-> kind, at |-> FirstStatement[kind], inTime |-> ~expired]]
    /\ run' = [run EXCEPT ![c] = @ /\ kind \notin {"claim", "ready"}]
    /\ UNCHANGED <<committed, locks, draft, expired>>

----------------------------------------------------------------------------
(* openUpload.  The unique index on (owner, key) makes the second insert   *)
(* wait for the first; if that commits, the loser rolls back and replays.  *)

SelectUploadByKey(c) ==
    /\ At(c, "open.select")
    /\ IF committed.upload.state = "absent"
       THEN Continue(c, "open.insert", {}, NoRows)
       ELSE End(c)

InsertUpload(c) ==
    /\ At(c, "open.insert")
    /\ IF committed.upload.state = "absent"
       THEN Continue(c, "commit", Wants(c),
                     [upload |-> [state |-> "uploading", complete |-> FALSE],
                      video |-> [state |-> "uploading", deletions |-> 0]])
       ELSE End(c)

(* commitChunk: the upload row, then the video's updated_at_ms.            *)

LockUploadForChunk(c) ==
    /\ At(c, "chunk.lock")
    /\ IF committed.upload = [state |-> "uploading", complete |-> FALSE]
       THEN \E complete \in BOOLEAN :
               Continue(c, "chunk.video", Wants(c),
                        [upload |-> [state |-> "uploading", complete |-> complete]])
       ELSE End(c)

TouchVideo(c) ==
    /\ At(c, "chunk.video")
    /\ Continue(c, "commit", Wants(c), [video |-> committed.video])

(* finalizeUpload: the upload row, the new job, then the video.            *)

LockUploadForFinalize(c) ==
    /\ At(c, "finalize.lock")
    /\ IF committed.upload = [state |-> "uploading", complete |-> TRUE]
       THEN Continue(c, "finalize.jobs", Wants(c),
                     [upload |-> [state |-> "finalized", complete |-> TRUE]])
       ELSE End(c)

\* The lease columns of a new row are NULL.
NewJob == [state |-> "queued", lease |-> NULL]

InsertJob(c) ==
    \/ At(c, "finalize.jobs") /\ Continue(c, "finalize.insert", Wants(c), NoRows)
    \/ /\ At(c, "finalize.insert")
       /\ Continue(c, "finalize.video", Wants(c), [job |-> NewJob])

QueueVideo(c) ==
    /\ At(c, "finalize.video")
    /\ Continue(c, "commit", Wants(c), [video |-> VideoIn("queued")])

(* claimJob: the snapshot picks a job, its lock is taken or the job is     *)
(* skipped, and the row is read again.  The video is not locked, its state *)
(* is the one of the snapshot.                                             *)

Claimable(c) ==
    \/ committed.job.state = "queued"
    \/ committed.job.state = "processing" /\ expired /\ ~tx[c].inTime

SelectJob(c) ==
    /\ At(c, "claim.select")
    /\ IF committed.video.state \notin {"absent", "tombstoned"} /\ Claimable(c)
       THEN Continue(c, "claim.lock", {}, NoRows)
       ELSE End(c)

LockJobOrSkip(c) ==
    /\ At(c, "claim.lock")
    /\ IF Claimable(c) /\ \A d \in Clients \ {c}, want \in ClaimLock : ~Blocks(d, want)
       THEN Continue(c, "claim.update", ClaimLock, NoRows)
       ELSE End(c)

LeaseJob(c) ==
    /\ At(c, "claim.update")
    /\ Continue(c, "claim.video", Wants(c), [job |-> [state |-> "processing", lease |-> c]])

MarkVideoProcessing(c) ==
    /\ At(c, "claim.video")
    /\ Continue(c, "commit", Wants(c),
                IF committed.video.state \in {"queued", "processing"}
                THEN [video |-> VideoIn("processing")]
                ELSE NoRows)

(* The ready transaction of materializeJob: the job, the video, then the   *)
(* segment rows and the update of the job.                                 *)

LockJobForReady(c) ==
    /\ At(c, "ready.lock")
    /\ IF committed.job = [state |-> "processing", lease |-> c] /\ tx[c].inTime
       THEN Continue(c, "ready.video", Wants(c), NoRows)
       ELSE End(c)

LockVideoForReady(c) ==
    /\ At(c, "ready.video")
    /\ IF committed.video.state # "tombstoned"
       THEN Continue(c, "ready.segments", Wants(c), NoRows)
       ELSE End(c)

InsertRendition(c) ==
    /\ At(c, "ready.segments")
    /\ Continue(c, "ready.complete", Wants(c), [rendition |-> [state |-> "ready"]])

CompleteJob(c) ==
    /\ At(c, "ready.complete")
    /\ Continue(c, "commit", Wants(c),
                [job |-> [state |-> "completed", lease |-> NULL], video |-> VideoIn("ready")])

(* publishVideo: the video, then its rendition.                            *)

LockVideoForPublish(c) ==
    /\ At(c, "publish.lock")
    /\ IF committed.video.state = "ready"
       THEN Continue(c, "publish.rendition", Wants(c), NoRows)
       ELSE End(c)

LockRenditionForPublish(c) ==
    /\ At(c, "publish.rendition")
    /\ IF committed.rendition.state = "ready"
       THEN Continue(c, "commit", Wants(c),
                     [rendition |-> [state |-> "published"], video |-> VideoIn("published")])
       ELSE End(c)

(* tombstoneVideo: the job if there is one, whoever asks; then the video,  *)
(* for its owner only; then the job once more.                             *)

LockJobForTombstone(c) ==
    /\ At(c, "tombstone.lock")
    /\ Continue(c, "tombstone.video", Wants(c), NoRows)

LockVideoForTombstone(c) ==
    /\ At(c, "tombstone.video")
    /\ IF tx[c].kind = "tombstone" /\ committed.video.state \notin {"absent", "tombstoned"}
       THEN Continue(c, "tombstone.jobs", Wants(c), NoRows)
       ELSE End(c)

\* Mutant: the cancelled job keeps the lease of the run it is taken from.
CancelledJob_KeepsLease == [state |-> "cancelled", lease |-> committed.job.lease]

CancelledJob == [state |-> "cancelled", lease |-> NULL]

CancelJob(c) ==
    \/ At(c, "tombstone.jobs") /\ Continue(c, "tombstone.cancel", Wants(c), NoRows)
    \/ /\ At(c, "tombstone.cancel")
       /\ Continue(c, "commit", CancelLock(c),
                   Overlay([video |-> [state |-> "tombstoned",
                                       deletions |-> committed.video.deletions + 1]],
                           IF CancelLock(c) # {}
                           THEN [job |-> CancelledJob]
                           ELSE NoRows))

(* migrate of a process that starts while others run: the tables exist.    *)

ShareTables(c) ==
    \/ At(c, "migrate.jobs") /\ Continue(c, "migrate.segments", Wants(c), NoRows)
    \/ At(c, "migrate.segments") /\ Continue(c, "commit", Wants(c), NoRows)

Statement(c) ==
    \/ SelectUploadByKey(c) \/ InsertUpload(c)
    \/ LockUploadForChunk(c) \/ TouchVideo(c)
    \/ LockUploadForFinalize(c) \/ InsertJob(c) \/ QueueVideo(c)
    \/ SelectJob(c) \/ LockJobOrSkip(c) \/ LeaseJob(c) \/ MarkVideoProcessing(c)
    \/ LockJobForReady(c) \/ LockVideoForReady(c) \/ InsertRendition(c) \/ CompleteJob(c)
    \/ LockVideoForPublish(c) \/ LockRenditionForPublish(c)
    \/ LockJobForTombstone(c) \/ LockVideoForTombstone(c) \/ CancelJob(c)
    \/ ShareTables(c)

----------------------------------------------------------------------------
(* The end of a transaction.                                               *)

\* COMMIT.  A claim returns the job and its token to the worker.
Commit(c) ==
    /\ tx[c].at = "commit"
    /\ committed' = Overlay(draft[c], committed)
    /\ run' = [run EXCEPT ![c] = @ \/ tx[c].kind = "claim"]
    /\ expired' = (expired /\ tx[c].kind # "claim")
    /\ tx' = [tx EXCEPT ![c] = Idle]
    /\ locks' = [locks EXCEPT ![c] = {}]
    /\ draft' = [draft EXCEPT ![c] = NoRows]

\* A statement fails, an object is missing, or the connection or the process is gone.
Abort(c) == tx[c] # Idle /\ End(c)

\* deadlock_timeout passes and the transaction finds itself in a cycle: error 40P01.
DetectDeadlock(c) ==
    /\ \E set \in SUBSET Clients : c \in set /\ Cycle(set)
    /\ End(c)

\* The clock reaches lease_until_ms.
Expire ==
    /\ committed.job.state = "processing" /\ ~expired
    /\ expired' = TRUE
    /\ UNCHANGED <<committed, tx, locks, draft, run>>

Next ==
    \/ \E c \in Clients, kind \in Kinds : Begin(c, kind)
    \/ \E c \in Clients : Statement(c) \/ Commit(c) \/ Abort(c) \/ DetectDeadlock(c)
    \/ Expire

Spec == Init /\ [][Next]_vars

\* A session whose locks become free again and again gets them (PostgreSQL queues
\* the waiters of a lock), a commit is carried out, and a cycle is found.  Nothing
\* makes clients send requests or leases end.
Fairness ==
    \A c \in Clients :
        SF_vars(Statement(c)) /\ WF_vars(Commit(c)) /\ WF_vars(DetectDeadlock(c))

FairSpec == Spec /\ Fairness

----------------------------------------------------------------------------
(* Properties.                                                             *)

UploadRows == [state : {"absent", "uploading", "finalized"}, complete : BOOLEAN]
VideoRows == [state : {"absent", "uploading", "queued", "processing", "ready", "published",
                       "tombstoned"}, deletions : Nat]
\* The check of processing_jobs: a lease on a processing row, and on no other.
JobRows == {row \in [state : {"absent", "queued", "processing", "completed", "cancelled"},
                     lease : Clients \cup {NULL}] :
               row.lease # NULL <=> row.state = "processing"}
RenditionRows == [state : {"absent", "ready", "published"}]
RowStates == [upload : UploadRows, video : VideoRows, job : JobRows, rendition : RenditionRows]

Modes == {"for_update", "no_key_update", "key_share", "row_exclusive", "share"}

\* Type invariant; what a session has written is a row its table admits, so no
\* statement of a transaction fails the check of processing_jobs.
TypeOK ==
    /\ committed \in RowStates
    /\ \A c \in Clients :
          /\ tx[c].kind \in AllKinds \cup {"none"} /\ tx[c].inTime \in BOOLEAN
          /\ locks[c] \subseteq (Rows \cup Tables) \X Modes
          /\ DOMAIN draft[c] \subseteq Rows
          /\ Overlay(draft[c], committed) \in RowStates
    /\ run \in [Clients -> BOOLEAN]
    /\ expired \in BOOLEAN

\* No update is lost: two open transactions never hold new versions of one row,
\* although finalizeUpload, claimJob and tombstoneVideo write rows they have not
\* locked before the statement that writes them.
OneWriterPerRow ==
    \A c, d \in Clients : c # d => DOMAIN draft[c] \cap DOMAIN draft[d] = {}

\* What a handler decided on is still true when it commits, whether it had locked
\* the row (the lease of the ready transaction) or only read it (the video of a claim).
DecisionsHoldAtCommit ==
    \A c \in Clients :
        tx[c].at = "commit" =>
            /\ tx[c].kind \in {"claim", "ready"} => committed.video.state # "tombstoned"
            /\ tx[c].kind = "claim" => JobIsLive
            /\ tx[c].kind = "ready" => committed.job.lease = c
            /\ tx[c].kind = "publish" => committed.video.state = "ready"

\* Deadlocks come from deletion and from migration only: the other handlers never
\* wait for each other in a circle.
OthersLockInOrder ==
    \A set \in SUBSET {c \in Clients : tx[c].kind \notin {"tombstone", "foreign_tombstone", "migrate"}} :
        ~Cycle(set)

\* Every transaction ends, also those that deadlock.
TransactionsEnd == \A c \in Clients : tx[c] # Idle ~> tx[c] = Idle

Lifecycle == INSTANCE VideoLifecycle WITH
    Videos <- {"video"},
    stage <- [v \in {"video"} |-> committed.video.state],
    intake <- [v \in {"video"} |-> committed.upload.state],
    work <- [v \in {"video"} |-> committed.job.state],
    output <- [v \in {"video"} |-> committed.rendition.state],
    deletions <- [v \in {"video"} |-> committed.video.deletions]

\* Taken statement by statement the transactions change the rows of a video as the
\* lifecycle allows: the one-step transactions of VideoRepository lose nothing.
ImplementsLifecycle == Lifecycle!Spec

\* docs/research-log.md: one aggregate is locked in a consistent order.
ConsistentLockOrder == \A set \in SUBSET Clients : ~Cycle(set)
====
