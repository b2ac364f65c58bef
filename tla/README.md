# Verification of the video origin

TLA+ specifications of the video origin in `src/`, the TLC configurations that
check them on small instances, and theorems about them that TLAPS checks.

The program is a single-host video origin. Clients open an upload, send its bytes
as idempotent chunks and finalize it; a worker process claims the resulting job
under a lease, cuts the source into segments and commits a rendition; the owner
publishes the video, viewers read its manifest and segments, and the owner
deletes it. Rows are kept in PostgreSQL, bytes in a content-addressed directory.

## 1. Inventory

| Component | State it keeps | Operations | Shared with |
|---|---|---|---|
| Upload sessions (`postgres-repository.js`, `video-service.js`) | `videos`, `upload_sessions`, `upload_chunk_requests` | `openUpload`, `commitChunk`, `finalizeUpload`, `headUpload` | object store; creates the job |
| Processing jobs (`postgres-repository.js`, `video-service.js` `runOneJob`) | `processing_jobs`, `renditions`, `rendition_segments`, `videos.state` | `claimJob`, `materializeJob` | object store; competes with other workers and with deletion |
| Publication, deletion, reads (`postgres-repository.js`, `video-service.js`) | `videos.state`, `active_rendition_id`, `tombstone_version`, `renditions.state` | `publishVideo`, `tombstoneVideo`, `readManifest`, `readSegment` | object store; cancels jobs |
| Object store (`object-store.js`) | one file per SHA-256 digest | `put`, `read`, `verify` | used by every component above, without a transaction around it |
| Segmenter (`segmenter.js`) | none | `buildSyntheticRendition`, `parseAndVerifyManifest` | worker, publication |
| Schema (`schema.js`) | constraints of the tables | `migrate` | all of the above |
| Contracts (`contracts.js`), errors, crypto | none | validators, `parseSingleByteRange`, digests | HTTP server, service |
| HTTP server and entry points (`http-server.js`, `main.js`) | sockets, pool | one route per operation; `serve`, `migrate`, `worker-once` | service |

How they interact. An HTTP handler or a worker process calls `VideoService`, which
calls the repository, which runs one database transaction per operation and calls
the object store before or inside it. There are no messages and no callbacks
between components: everything two processes know of each other is a row or an
object file. That makes the orders of steps the hard part:

- **Objects are written before the rows that name them**, and not in the same
  transaction. A crash or rollback in between leaves an object nobody names; a row
  that names an object nobody stored must never exist.
- **A worker works on what it read without a lock.** `materializeJob` reads the job,
  builds and installs many objects and only then locks the row. In the meantime its
  lease may end, another worker may take the job, the video may be deleted.
- **Time is sampled, then used later.** `runOneJob` takes `now()` three times, before
  the claim, before the job is read and before the ready transaction.
- **Replies are lost and requests repeated.** A chunk key is a promise about bytes
  that outlives the upload.
- **A read is two steps**: one query for authority, then a fetch from the store.
- **Four tables hold states that have to agree**; no constraint relates the states of
  two tables.
- **Files may be lost or altered** under the store; readers and publication verify, one
  object after another, and what was verified first may be gone by the commit.
- **Transactions wait for each other**, row by row, and may do so in a circle.
- **A put is eight system calls**, any of which may fail or be the last one of its process,
  and puts of the same bytes race for one directory entry.
- **Jobs wait in one line**, served by as many workers as a scheduler starts; a run that
  fails or takes too long gives its job back only when the lease ends.

What makes each component correct:

- *Uploads*: committed chunks tile the bytes before the committed offset, whoever
  raced; a reply that reached a client stays true through finalization.
- *Jobs*: one run at a time can commit; a run that lost its lease cannot; a closed job
  is never reopened; a rendition describes the declared source and nothing else.
- *Publication*: of what becomes visible each object was found intact under the locks of the
  transaction that commits it; deletion wins over workers and publication; an authorised
  read leads to an object of the declared source.
- *Store*: a digest names at most one content; a put either finds that content or
  installs it.
- *Row locks*: no update is lost, what a handler decided on is still true when it commits,
  every transaction ends, and every circle of waits has a deletion or a migration in it.
- *Queue*: a job that fits its lease is run by one worker at a time, and it ends if the jobs
  that never end leave spare capacity.
- *Reads*: a response carries the bytes its range means, and an error is true.
- *Segmenter*: the segments concatenate to the source; the acceptance test accepts every
  manifest the builder produces.

## 2. Plan

The modules, in the order in which they were written:

1. `Segmenter` – the pure functions, digests as tagged contents.
2. `RepositoryState` – tables, store, clock, volatile state of handlers.
3. `UploadHandlers`, `JobWorker`, `PublicationHandlers` – one action per handler or step.
4. `VideoRepository` – the composition, its types and its properties;
   `MCVideoRepository` and the `.cfg` files – the instances.
5. `VideoRepositoryProofs`, `JobProofs`, `ReadProofs` – theorems about `VideoRepository`
   alone; each extends the one before.
6. `VideoLifecycle` and `ContentStore` – what the database promises of one video's states
   and what the store promises of its objects. `VideoRepository` implements the first; its
   `Put` and `DamageObject` are the actions of the second on its own variables.
7. `RowLocks` – the transactions statement by statement; implements `VideoLifecycle`.
8. `ObjectFiles` – the store system call by system call; implements `ContentStore`.
9. `JobQueue` – the line of jobs in coarse time, with fairness.
10. `ByteRange`, `ReadPath` – a read from the request line to the response.
11. `LifecycleProofs`, `RowLocksProofs`, `ObjectFilesProofs`, `JobQueueProofs`,
    `ReadPathProofs` – theorems about the modules of 6 to 10 (section 6).

What could follow: the other validators of `contracts.js` (syntax only), and the lock queue
of PostgreSQL in more detail (section 7).

## 3. How the modules correspond to the code

`RepositoryState` declares the state. Each variable is a table or the volatile state
of one kind of process.

| Variable | In the code |
|---|---|
| `video`, `upload`, `job`, `rendition` | the tables, one row per video; `rendition` carries `rendition_segments` too |
| `chunks` | `upload_chunk_requests` |
| `objects`, `corrupt`, `lost` | files of the object directory: intact, altered, gone |
| `clock` | `Date.now()` of the host |
| `request` | a `commitChunk` that has put its bytes and not yet committed |
| `worker` | a `runOneJob` in progress |
| `viewer` | a read whose authority query has returned |
| `publisher` | a `publishVideo` past its row locks, with the segments it has yet to verify |
| `receipts` | history: chunk replies that reached a client (no code reads it) |
| `seen` | history: objects intact at some moment since a verifying transaction took its locks (no code reads it) |

Choices made once for all modules:

- **One index.** `schema.js` makes `video_id` unique in `upload_sessions` and
  `processing_jobs` and `output_rendition_id` unique, so a video, its upload, its job
  and its rendition share the index `v`.
- **A transaction is one step unless it looks at objects one by one.** Each writing handler
  first locks the row that its decisions depend on (`FOR UPDATE`) and the other rows before
  it writes them, and commits once, so other transactions on the same video are ordered
  before or after it. What happens outside the transaction is a step of its own: the put of
  a chunk before its transaction, the unlocked read of the job, each put of an artifact,
  each clock sample, the fetch after an authority query. `RowLocks` checks this assumption:
  its transactions interleave statement by statement and still implement the
  `VideoLifecycle` that `VideoRepository` implements.
- **Verification under locks.** The ready transaction and `publishVideo` lock their rows, then
  verify one object after another, then write and commit. Each of these is a step
  (`LockReady`, `VerifyArtifactObject`, `CommitReady`; `LockPublish`, `VerifySegment`,
  `PublishVideo`; or a rollback), so objects are lost, altered and stored again in between,
  also those already verified. While a transaction is in this part its rows are `Locked`, and
  claims, ready transactions, publications and deletions of that video wait for it.
- **Objects read by `finalizeUpload`** are judged in its one step. What it reads it
  concatenates, hashes and stores again, so a chunk object lost after it was read
  changes nothing it commits.
- **Claims.** `claimJob` returns the oldest claimable job, but `SKIP LOCKED` passes over
  rows others hold; `ClaimJob` may return any claimable one.
- **Failures.** A rejected check, a rejected call and the death of a process leave the
  same state: the tables as they were, the installed objects installed. `StopRun` and
  `AbandonChunk` stand for all of them at every point; `FinalizeRolledBack` is the
  failure of `finalizeUpload` after its put. The in-memory record of a dead process is
  forgotten, as it is in the code.
- **Requests that change nothing** – refused ones, `NotFound`, requests of somebody who is
  not the owner, replays of `openUpload`, `finalizeUpload` and `publishVideo`,
  `headUpload` – are not steps. A replay of `commitChunk` is, since its reply is a promise.
- **Digests** are tagged copies of what they hash: SHA-256 is assumed collision free. The
  tags keep a byte string, a manifest and a lease token apart.
- **Left out**: titles, timestamps other than the lease end, `attempt_count`,
  `visibility`, `stored_at`, the text of errors. The owner and its key are one value in
  `IdempotencyKeys`; upload keys and chunk keys are drawn from the same set, but never
  compared with each other.
- **Environment.** `DamageObject` loses or alters one object file at any time; `Put`
  restores a lost one and refuses an altered one, as `link` followed by the
  verification of the existing file does.

`UploadHandlers`: `OpenUpload`; `PutChunk`, then `AppendChunk` or `ReplayChunk` or
`AbandonChunk`; `FinalizeUpload`, `FinalizeRolledBack`. The cursor walk of
`finalizeUpload` is stated as what it decides (`Contiguous`, `Covers`).

`JobWorker`: `StartRun` (token and first clock sample), `ClaimJob`, `SampleClock`,
`BeginMaterialize`, `InstallObject` once per segment and once for the manifest,
`SampleClock`, `LockReady`, `VerifyArtifactObject` once per object, `CommitReady` or
`RollBackReady`; `StopRun` at any earlier point.

`PublicationHandlers`: `LockPublish`, `VerifySegment` once per segment, `PublishVideo` or
`RollBackPublish`; `TombstoneVideo`, `ObserveManifest`, `ObserveSegment`, `Respond`.

`VideoRepository`: `Next` is the disjunction of the four groups of actions, `Spec` is
`Init /\ [][Next]_vars`. No fairness is assumed in it: its properties are about safety.

`VideoLifecycle` has a stage per video, the state of its upload, its job and its rendition
and a count of deletions, and says which of them may change together: a job is claimed, a
rendition is completed together with its job, a deletion cancels a live job, and so on. It
knows no tokens, clocks, objects or locks. `ContentStore` has three sets of digests, intact,
altered and gone: a put adds an absent digest and leaves the others alone.

`RowLocks`. One video; `Clients` are database sessions. A transaction is a sequence of
statements (`tx[c].at`), each of which waits until the locks in `Wants(c)` are free, takes
them and adds its rows to `draft[c]`; `Commit` makes the draft visible and releases the
locks, `Abort` and `DetectDeadlock` drop both. At READ COMMITTED a statement sees
`committed`. Row locks have the modes FOR UPDATE (explicit, and for an insert that waits on a unique key), NO KEY
UPDATE (other updates) and KEY SHARE (foreign keys); table locks appear where `migrate` can
conflict with them. `claimJob` reads its snapshot (`SelectJob`) and then locks or skips the
row (`LockJobOrSkip`), which PostgreSQL reads again before it returns it. `Expire` is the
clock passing the lease end; the time a claim or the ready transaction compares with is
sampled when the transaction begins (`inTime`). The job row has the lease and the schema's
CHECK that only a processing job has one. A deletion by somebody who is not the owner
(`foreign_tombstone`) locks the job rows, finds no video and rolls back.

`ObjectFiles`. A file is an inode with a body; `target` is the digest path, `pending` the
temporary names. `put` is `Begin`, `CreateTemporary`, `WriteBytes`, `SyncFile`,
`LinkTarget`, then `SyncDirectory`, or `StatTarget` and `ReadTarget` if the path exists,
then `UnlinkTemporary` and `Return`; `read` is `StatTarget` and `ReadTarget`. Each may fail
(`FailCall`) and after each the process may die (`Crash`). The directory is the same for
every process, so `Callers` are the calls under way in all of them.

`JobQueue`. Jobs are numbered in the order of `created_at_ms`; a slot is a place where a
scheduler starts `worker-once`, one run after the other with `Pause` ticks in between.
`Tick` waits while some slot has something to do, so calls take no time of their own, and a
run takes `Duration` from its claim to its ready transaction. `owner[j]` is the slot whose
present run has the token of row `j`. A poisoned job is one whose source object is missing
or altered: `materializeJob` throws and leaves the row to its lease.

`ByteRange` is `parseSingleByteRange`, with the numbers of the header as numbers, and
`Selected`, the bytes RFC 9110 means, as a set of positions. `ReadPath` follows one request:
`Receive`, `ObserveAuthority`, `StatObject`, `ReadObject`, `SelectBytes`, with the status of
each error; `FinalizeUpload` (which hides the video again, also a deleted one whose upload is
still `open`), `PublishVideo`, `TombstoneVideo` and changes of the file happen between any
two of them.

A definition whose name is another's with a suffix (`NextChunk_AnyOffset`) is that
definition with a plausible mistake; no action uses it. It documents which mistake the
property named with it in `PROJECT.json` detects.

## 4. The runs and what they show

Every run explores the whole reachable state space of its instance, with deadlock
checked. The symmetry sets permute tokens, workers, handlers, videos, files or callers only,
none of which is distinguished by a constant, an initial state or a property, and no run
with symmetry checks a liveness property.

| Run | Instance | Shows |
|---|---|---|
| `upload` | two handlers, three chunk keys, five chunk requests, two intents, one damaged object, deletion | `ChunksTileOffset`, `FinalizeFindsNoGap`, `AcknowledgedBytesFinalized` |
| `lease` | two workers, three tokens, leases of two ticks, clock to 4, publication and deletion | `LifecycleAgreement`, `LeaseRespected`, `CompletionCarriesCurrentLease`, `ClosedJobsFinal`, `TombstonePermanentOnceFinalized`, `ImplementsLifecycle` |
| `two_videos` | two uploads of the same or of different sources, two workers, two tokens, leases that end | `LeaseHeldByOneRun`, `RenditionMatchesDeclaredSource` |
| `reads` | one worker, one reader, a source whose last segment is short, one object damaged at a time | `ReferencedObjectsStored`, `IntactRenditionsPublishable`, `SegmentsCarrySource`, `AuthorizedReadsServeDeclaredSource`, `TombstonedAtMostTwice`, `CommitsVerifiedObjects` |
| `row_locks` | two sessions, all nine kinds of transactions | `OneWriterPerRow`, `DecisionsHoldAtCommit`, `OthersLockInOrder`, `ImplementsLifecycle`, `TransactionsEnd` |
| `object_files` | three calls, one digest, four inodes | `IntegrityErrorsMeanDamage`, `SuccessMeansInstalled`, `CreatedByOne`, `TemporariesAccountedFor`, `ImplementsContentStore` |
| `job_queue` | two workers, four jobs, one poisoned, one slow, leases of four ticks, one crash | `HealthyJobsClose`, `HealthyJobsRunOnce`, `SlowJobsNeverComplete` |
| `read_path` | three bytes, every Range header with numbers from 0 to 5, where 5 is no safe integer | `BytesAsAsked`, `OnlyPublishedSourceBytes`, `ErrorsAreTrue` |
| `tombstone_revived` | one upload, one worker, one reader | `TombstoneDeniesReads` is violated (section 5) |
| `late_commit` | one worker, lease of one tick | `ReadyCommitWithinLease` is violated (section 5) |
| `row_deadlock` | two sessions | `ConsistentLockOrder` is violated (section 5) |
| `range_after_object` | as `read_path` | `RangesRefusedBeforeObject` is violated (section 5) |

A type invariant is checked in `lease`, `row_locks`, `object_files`, `job_queue` and
`read_path`.

Why these bounds are enough to meet the interesting cases:

- *Chunks*. The five requests contain a first chunk, the same key with other bytes, a
  competitor for offset 0 that covers the whole source, a key used at two offsets, and a
  chunk past the end. Two handlers are enough for a put of one request between put and
  commit of the other; a third would only repeat the pattern, since a handler keeps
  nothing but its request. Of the two intents, one has a digest no chunks produce.
- *Leases*. Two workers and three tokens allow a run to lose its lease, the second to take
  over, and the first to start again with a fresh token while the second still works.
  `LeaseMs = 2` and `MaxClock = 4` hold a whole lease, its end, and a second lease.
  The clock stops at `MaxClock`; every action but `Tick` stays possible there.
- *Videos*. Two are enough for a run to confuse jobs. Each upload declares `<<a>>` or `<<b>>`;
  if both declare the same source they share every object, and each can be filled with the
  other source, which its declared digest must refuse. `LeaseMs = 1` and `MaxClock = 1` let
  a lease taken at time 0 end while its run goes on: the second worker takes the job over,
  the first stops and draws its token again for either job. Two tokens are enough for that,
  one for each worker, and the most that two workers hold at a time.
- *Damage*. `MaxDamage = 1` bounds the objects damaged at the same time, not their number
  over a behaviour: a lost object may be stored again and then lost again.
- *Segments*. Segments of one octet in most runs; in `reads` segments of two over a source
  of three, so that the last is short. `MinSegmentBytes` and `MaxSegmentBytes` take the
  place of 1024 and 262144.

- *Row locks*. Two sessions run any number of transactions one after the other, so every
  pair of handlers meets in every order of statements. The rows are those of one video:
  no transaction writes the rows of two (the job a claim picks decides its video), so
  sessions on different videos meet only at table locks. A circle of three sessions needs a
  third; the invariants are theorems for any number of sessions (section 6), and `TransactionsEnd`
  is checked with two, because liveness cannot be checked under the symmetry that three need.
- *Files*. One digest, because a call touches one path; three callers for a creator, a loser
  of the race and a reader or a second loser; four inodes leave a fresh one when the
  temporary files of dead puts have used up some. A put that finds no free inode fails, as
  on a full disk.
- *Queue*. Two workers, so that one bad job cannot occupy all of them alone and two can; a
  poisoned job and a slow one, both older than the healthy ones; the crash leaves a healthy
  job to its lease. The slow job takes 5 ticks and 1 tick of pause, the poisoned one only the
  pause, 7 of the 8 ticks that two slots have in a lease of 4: one tick less and the promise
  would fail (section 5).
- *Ranges*. With a length of 3 the numbers 0 to 5 fall before, on and after every boundary;
  `MaxSafeInteger = 4` puts one number past the safe integers.

Fairness. `RowLocks`: strong fairness of each session's next statement, because PostgreSQL
queues the waiters of a lock, so a statement that can run again and again runs; weak
fairness of a commit and of the deadlock detector, which runs after `deadlock_timeout`.
Without the detector `TransactionsEnd` fails. `JobQueue`: weak fairness of the clock and of
each slot's steps, which is a scheduler that starts `worker-once` again and the call that runs.
The scheduler is an assumption about the deployment: `docs/operations.md:57-58` says that the
repository includes none, and without one no job is ever worked on. No client is obliged to send anything, no job to arrive, no lease to end while work is due.

What the main properties say of the code:

- `ChunksTileOffset`: commits are serialised by `FOR UPDATE` on the upload and accepted at
  the committed offset only, so the rows cover the bytes before it exactly once.
  `FinalizeFindsNoGap` draws the consequence: the gap and coverage errors of
  `finalizeUpload` are never raised.
- `AcknowledgedBytesFinalized`: a reply, first or replayed, tells a client an end offset
  that is never past the committed one, and its bytes are at that place of the source.
- `LifecycleAgreement`: fifteen relations between the states of the four tables.
- `LeaseHeldByOneRun`, `LeaseRespected`, `CompletionCarriesCurrentLease`,
  `ClosedJobsFinal`: the fencing argument. The job row carries the digest of one token;
  a takeover needs the end of the lease; a completion is recorded for the lease current
  in the same transaction; a completed or cancelled job keeps its row.
- `RenditionMatchesDeclaredSource`: from the client's declaration through chunks, source
  object, job and worker, what a rendition lists is the declared source cut by the recipe.
  `SegmentsCarrySource` says what that cut is worth without using its definition: byte by
  byte, the segments in their order are the declared source (`segmenter.test.js:21` tests
  the same concatenation on samples).
- `CommitsVerifiedObjects`: a rendition becomes ready, or visible, only if each of its objects
  was intact at some moment since the transaction took its row locks, so what is missing or
  altered all that time is found. More cannot be said: an object verified first may be lost
  before the commit (section 5). `IntactRenditionsPublishable` is the other direction: only
  damage makes `publishVideo` fail with an integrity error.
- `AuthorizedReadsServeDeclaredSource`: also when the video is deleted between the
  authority query and the fetch.
- `TombstonedAtMostTwice`, `TombstonePermanentOnceFinalized`: what remains true of deletion
  given the first finding.
- `OneWriterPerRow`, `DecisionsHoldAtCommit`: `finalizeUpload`, `claimJob` and
  `tombstoneVideo` write rows they had not locked before, and `claimJob` goes by a video it
  never locks. They are safe because every way to a changed video leads through a lock the
  other side holds; without FOR UPDATE in `claimJob`, or with a deletion that cancels only
  the job it found first, they are not.
- `OthersLockInOrder`: uploads, claims, ready transactions and publications never wait for
  each other in a circle. `TransactionsEnd`: the deadlocks that deletion and migration do
  cause end with an error and a rollback.
- `IntegrityErrorsMeanDamage`, `SuccessMeansInstalled`, `CreatedByOne`: the race for a digest
  path is decided by `link`, and whoever loses reads a whole file; a put that fails or dies
  half way never leaves something at the path that a later call would call corrupted.
- `TemporariesAccountedFor`: temporary files are left by dead processes and failed unlinks
  only. Nothing in the program removes those.
- `HealthyJobsClose`: a poisoned job and one slower than its lease are claimed again for ever,
  and ahead of younger jobs. Each of them is claimed at most once per lease, and occupies a
  slot for its run and the pause after it; if these add up to less than the time the slots
  have in a lease (`SpareCapacity`), a slot comes free while no older bad job is claimable,
  and each healthy job gets its turn. If they do not, healthy jobs may wait for ever
  (section 5). `SlowJobsNeverComplete` is the price of a lease nothing renews.
- `BytesAsAsked`, `ErrorsAreTrue`: for every header the parser and RFC 9110 agree, except that
  a number JavaScript cannot hold is answered with 416.

## 5. Where the code and its documents disagree

**A deleted video comes back** (run `tombstone_revived`). `finalizeUpload` sets
`videos.state = 'queued'` without looking at the state
(`src/src/postgres-repository.js:294`). `tombstoneVideo` does not close the upload. A video
deleted while its upload is open is therefore queued again by a later finalization,
processed, published and read with `tombstone_version` 1. `docs/api.md:136` says that later
authority observations return 410, and `docs/requirements.md:78` that a tombstone committed
before the statement yields 410. TLC finds the trace open – chunk – delete – finalize –
claim – … – publish – observe. After finalization the promise is kept
(`TombstonePermanentOnceFinalized`), and it can be broken once per video
(`TombstonedAtMostTwice`).

**A rendition may commit after its lease has ended** (run `late_commit`).
`materializeJob` samples `readyAtMs` before it obtains a connection and waits for the job
row (`src/src/postgres-repository.js:396`) and compares the lease with that sample.
`docs/architecture.md:80` and `docs/requirements.md:71` say that only an unexpired lease
may commit. What holds is weaker and is what protects the data: no *other* run holds the
job when it commits (`CompletionCarriesCurrentLease`).

**Deletion can deadlock** (run `row_deadlock`). `tombstoneVideo` locks the job rows it finds
and then the video (`src/src/postgres-repository.js:573`). If `finalizeUpload` commits in
between, the deletion holds the video and then wants the new job, while a claim holds that
job and wants the video. PostgreSQL aborts one of them; the client sees 503 or the worker
fails. `docs/research-log.md:117` says that the implementation locks the rows of an aggregate
in a consistent order. No state is damaged (`ImplementsLifecycle`). A second circle is in the
model but not a run of its own: the index statements of `migrate`, which every process runs
when it starts, lock `processing_jobs` before `rendition_segments` (`src/src/schema.js:68`,
`:95`), a ready transaction writes them in the other order; with `"ready"`
and `"migrate"` in place of `"tombstone"` TLC reports it.

**An invalid range is refused after the object was read** (run `range_after_object`).
`readSegment` observes authority, reads and hashes the object, and only then parses the
range (`src/src/video-service.js:149-150`). `docs/architecture.md:96` and
`docs/research-log.md:104` say that several ranges are refused before object access. The
response is still a true one (`ErrorsAreTrue`). The property and the trace are about several
ranges; other headers that are refused take the same way, but no document promises otherwise.

Three observations that contradict no promise of the documents. A put that created its object
returns without reading it back (`src/src/object-store.js:84`); `docs/requirements.md:67-68`
can be read as saying otherwise, but what the put installed is whole
(`SuccessMeansInstalled`). Verification is not a guarantee at commit: a segment that
`publishVideo` has verified may be lost while it verifies the next ones
(`src/src/postgres-repository.js:506`) or before it commits (`:516`), and likewise in the ready
transaction (`:416-456`); readers then get 422. And the line of jobs needs spare capacity
(`SpareCapacity`): nothing counts the attempts of a job, so a bad one takes its share of every
lease for ever. Without that condition, and with bad jobs that need all 8 ticks that two slots
have in a lease of 4 (a slow job of 6 ticks), or all 6 in a lease of 3 (a slow job of 4), TLC
finds the healthy jobs waiting for ever.

## 6. What is proved

The theorems hold for every value of the constants that satisfies the named assumptions of
the modules they are about, which TLC evaluates in each run:

- `SegmentBoundsAssumption`, `RequestsAssumption`, `NumbersAssumption`, `NullAssumption`
  (`VideoRepository`): the requests passed the validators, the numeric settings are natural
  numbers in their ranges, and `NULL` is no other value.
- `FilesAssumption` (`ObjectFiles`): `NULL` and the marks for bytes that are no content are
  different from contents, inodes and results.
- `QueueAssumption` (`JobQueue`): durations, lease and pause are natural numbers, the last two
  positive.
- `KindsAssumption` and `ClientsAssumption` (`RowLocks`): the transactions are those of the
  repository, and `NULL` is no session.
- `RangeAssumption` and `ReadAssumption` (`ByteRange`, `ReadPath`): a segment is not empty and
  its length is an integer JavaScript represents exactly.

So the theorems say of any number of videos, handlers, workers, tokens, readers, sessions,
files and jobs, of any source, segment size, length and lease what the runs say of a few.
Except for `SegmentBoundsAssumption`, no assumption bounds a number from above other than by
`MaxSafeInteger`.

`VideoRepositoryProofs` – types, uploads, agreement of the tables:

| Theorem | Property | Argument |
|---|---|---|
| `TypeCorrect` | `TypeOK` | `TypeOK` is not inductive: a worker cuts the content of a job's source, and a reader takes a digest from a row, so `TypeInv` adds what makes these well typed – a started run has a video and a token, a row that is not absent has the columns its state implies. |
| `ChunksTile` | `ChunksTileOffset` | `TileInv` adds that the offset of an upload without rows is 0. `AppendChunk` adds the one row that starts at the offset; all other actions leave both alone. |
| `FinalizeWalk` | `FinalizeFindsNoGap` | From the tiling: the row that covers the byte before a row's start ends there. |
| `AcknowledgedBytes` | `AcknowledgedBytesFinalized` | `UploadInv` adds that every receipt names a committed row (`RepliesNameRows`) and that a finalized source is the concatenation of the rows (`SourceIsAssembled`); `AssembledBytes` says that the tiling makes the choice in `Assembled` unique. |
| `LifecycleAgrees` | `LifecycleAgreement` | `CommitReady` and `PublishVideo` write long after the guards of `LockReady` and `LockPublish`, so the agreement is inductive only together with `HeldRows`: a transaction that verifies still finds its job processing under its own lease, or its video and rendition ready, and no two of them hold the same job. |

`JobProofs` – jobs and leases, then the way from the declaration to what is published. The
lemmas `JobWriters`, `VideoWriters` and `RenditionWriters` name the actions that can write a
row; an action property is then a case split on them. `SourceInv` says that a job has the source
its upload declared, that a run past its first read works on the source of its job, and that a
rendition was cut from it; `SourcesFixed` says that no step changes either.

| Theorem | Property | Argument |
|---|---|---|
| `ClosedJobsStayClosed` | `ClosedJobsFinal` | A late finalization would need an upload still open, which `LifecycleAgreement` excludes; a late run would need a job in `processing`. |
| `TombstonesStay` | `TombstonePermanentOnceFinalized` | Every writer of the video row tests its state, in the same step or under a lock it keeps (`HeldRows`), except finalization, which needs an open upload. |
| `LeaseFencesOneRun` | `LeaseHeldByOneRun` | `FenceInv`: tokens of runs differ, a lease names a run that works on that job. A new token is in no row, and a claiming run has no lease yet. |
| `LeasesAreRespected` | `LeaseRespected` | `FenceInv` adds that a clock sample is never ahead of the clock, so an end before the sample is an end before now. |
| `RenditionsMatch` | `RenditionMatchesDeclaredSource` | `SourceInv` with `UploadInv`, which also gives the length. |
| `CompletionsAreCurrent` | `CompletionCarriesCurrentLease` | Only `CommitReady` completes a job; that the lease compared under the lock is still the current one, many steps later, is in `HeldRows`. |
| `CommitsVerified` | `CommitsVerifiedObjects` | `VerifiedInv`: while a transaction verifies, each object of the rendition has been seen intact since the locks were taken or is still to be verified. Damage and puts by others change what is there now, never what was seen; nobody else changes the rows. At the commit nothing is left to verify, and the rendition is the declared one by `SourceInv` and `RenditionsMatch`. |

`ReadProofs` – objects, reads, publication, tombstones:

| Theorem | Property | Argument |
|---|---|---|
| `RowsNameStoredObjects` | `ReferencedObjectsStored` | `StoredInv` adds that a chunk request in flight has stored its bytes; what was ever stored stays known (`EverStoredGrows`). |
| `ReadsServeDeclared` | `AuthorizedReadsServeDeclaredSource` | `ReadInv`: the job of a read under way exists, so its declaration is fixed while the read waits. |
| `SegmentsCarry` | `SegmentsCarrySource` | `SegmentCarries`: a byte of the source lies in the segment whose number is its position divided by the segment size, rounded up, and in no other; `RenditionsMatch` says that these are the segments listed. |
| `IntactPublishable` | `IntactRenditionsPublishable` | `RenditionsMatch` says what is listed, `ManifestOfSourceAccepted` that the test of `parseAndVerifyManifest` accepts it for every source that is not empty. The test adds up lengths with a fold; `SumUnique` (by a smallest counterexample) says that the fold is the only solution of its equation, and `TotalOfFull` that a closed form solves it. `SegmentLengths` and `CeilDivBounds` are the arithmetic of the last, shorter segment. |
| `TombstonesCounted` | `TombstonedAtMostTwice` | `TombstoneInv` bounds the counter for each state of the upload. |

`LifecycleProofs` – `VideoRepository` implements `VideoLifecycle`. The initial
states map to initial states, and each step to a step or a stutter.

| Theorem | Property | Argument |
|---|---|---|
| `TablesImplementLifecycle` | `ImplementsLifecycle` | `Becomes` states what a transaction does to the columns the lifecycle sees; one lemma per transaction (`OpenMaps` .. `DeleteMaps`) maps it to the action of `VideoLifecycle`. `LifecycleAgreement` supplies the guards the code does not test: that a claimable job belongs to a queued or processing video, that an open upload has no job; `HeldRows` those of the two transactions that write long after their tests. |

`RowLocksProofs` – the transactions statement by statement, for any number of sessions. The
argument is that of two-phase locking, made for each row a handler reads or writes. `LocksInv`
says that locks two sessions hold do not conflict (`LocksAgree`), that the committed rows agree
with each other (`CommittedOK`), and of each session at each of its statements which locks it
holds (`HoldsOK`), what it knows of the committed rows because nobody else may change them
(`KnowsOK`), and what it has written (`DraftOK`). None of the properties is inductive without
it: that a decision holds at commit depends on a lock taken several statements earlier, and on
what every other session may write meanwhile. One lemma per handler shows that its statements
keep the session's part; `ProtectedKeeps` and `CommitSpares` show that a commit of another
session changes nothing a session holds a lock for, so its part survives.

| Theorem | Property | Argument |
|---|---|---|
| `RowTypes` | `TypeOK` | Part of `LocksInv`. |
| `NoLostUpdate` | `OneWriterPerRow` | Whatever row a session has written it has locked in a mode that excludes itself, or the row is new and belongs to an upload it has locked (`WrittenLocked`). |
| `NoStaleDecision` | `DecisionsHoldAtCommit` | From `KnowsOK` and `CommittedOK`. The claim does not lock the video: that it is not tombstoned follows from the lock on a live job, since a deletion updates the job before it commits. |
| `OthersNeverDeadlock` | `OthersLockInOrder` | Each statement that may wait has a rank (`Rank`). A session that waits for another is of lower rank than it: `HeldBelow` says which locks a session of a rank can hold, `WaitingClimbs` that a wait climbs. Ranks are at most 6, so no set of sessions waits in a circle, whatever its size. |
| `TransactionsImplementLifecycle` | `ImplementsLifecycle` | `CommitMaps`: the rows a transaction commits change the video as one action of `VideoLifecycle` does; every other statement is a stutter, since the lifecycle sees committed rows only. |

`ObjectFilesProofs` – the store at the level of system calls. `FilesInv` says what a call has
established at each of its steps (`CallOK`), that a digest path holds the whole content or
altered bytes in a file no other path has (`PathsOK`), and that a temporary name is in use or
left behind (`NamesOK`). The properties are not inductive without it: that a link installs whole
bytes depends on what the call wrote three steps earlier, in a file nobody else may hold.
`CallKeeps` covers the steps that change no file, `CallMoves` those in which a call touches its
own file and no other (`Touches`).

| Theorem | Property | Argument |
|---|---|---|
| `FileTypes` | `TypeOK` | Part of `FilesInv`. |
| `NoFalseAlarm` | `IntegrityErrorsMeanDamage` | A call looks at a path only once its digest is installed, and what is installed and not damaged is there and whole. |
| `SuccessIsInstalled` | `SuccessMeansInstalled` | `CallOK` and `PathsOK`. |
| `OneCreator` | `CreatedByOne` | A link succeeds only on a free path: a digest somebody created before is damaged by then. |
| `TemporariesOwned` | `TemporariesAccountedFor` | `NamesOK`, and no two calls hold the same file. |
| `FilesImplementStore` | `ImplementsContentStore` | A link to a free path is `Install`; writing, creating and unlinking touch no linked file. |

`JobQueueProofs` – for any number of jobs and slots, any durations and any lease. `QueueInv`
adds that the slot that has the token of a row is running its job, and that the rest of the
lease and the rest of the work add up (`OwnersOK`), and that a run of a job that can be done in
time still has it (`RunsOK`).

| Theorem | Property | Argument |
|---|---|---|
| `QueueTypes` | `TypeOK` | Part of `QueueInv`. |
| `SlowNeverComplete` | `SlowJobsNeverComplete` | A run that is done and holds its lease has taken less than a lease. |
| `HealthyRunOnce` | `HealthyJobsRunOnce` | While work is left, more than that is left of the lease, so the row is not claimable. |

`ReadPathProofs` – the parser and the read path, for any length and any headers.

| Theorem | Property | Argument |
|---|---|---|
| `ParserAgrees` | – | Case by case, `ParseSingleByteRange` selects the bytes RFC 9110 means (`Selected`) or answers 400 or 416 where it must (`Agrees`). |
| `ReadTypes` | `TypeOK` | The invariant of the reads: what the request has established about the video and the file at each of its steps, and that a response was true when it was sent. |
| `BytesAreAsAsked` | `BytesAsAsked` | From `ParserAgrees`. |
| `PublishedSourceBytes` | `OnlyPublishedSourceBytes` | The same invariant: the step after the authority query knows that the video was published in this request. |
| `TrueErrors` | `ErrorsAreTrue` | The same; `history` only grows until the response. |

Only model-checked: what holds under fairness only (`HealthyJobsClose`, `TransactionsEnd`);
the capacity argument for `HealthyJobsClose` in section 4 is one in words. Liveness is out of the prover's reach and stays with TLC. Every other property of a passing
run is a theorem. The violations of section 5 are counterexamples and need no proof.

## 7. What is not modelled, and why

- The connection pool. No handler waits for a second client while it holds one:
  `#uploadAfterRace` is called, not awaited, before its client is released, and the lookup
  at `postgres-repository.js:407` needs a job that this run's own token has completed.
- Power loss. The code syncs files and directories; the model keeps what the page cache
  keeps, so a sync is a call that may fail and nothing else.
- PostgreSQL's lock queue: a session waits for those who hold a conflicting lock, not for
  those who wait ahead of it. `SKIP LOCKED` over rows that a stranger's deletion request has
  locked for a moment is in `RowLocks` and left out of `JobQueue`.
- A clock that steps back (`updated_at_ms >= created_at_ms` would refuse writes) and two
  processes that create the tables of an empty database at the same time: both are listed
  as hazards with a note.
- Request validation, authentication, header parsing and body limits: syntax and I/O. What
  they establish is assumed of the requests (`RequestsAssumption`).
- Errors, exports, scripts, packaging: no state.
- The choice of isolation level: the model assumes what row locks give under read
  committed, and uses no snapshot.
- Hash collisions, a clock that runs backwards, and several hosts with different clocks:
  the code assumes their absence.
