---- MODULE RepositoryState ----
(***************************************************************************)
(* The state the video origin keeps: the PostgreSQL tables of schema.js,   *)
(* the content-addressed object directory, the clock all processes of the  *)
(* host share, and the volatile state of the API handlers, the workers and *)
(* the readers that are between two of their steps.                        *)
(*                                                                         *)
(* schema.js makes video_id unique in upload_sessions and processing_jobs, *)
(* and output_rendition_id unique, so a video, its upload, its job and its *)
(* rendition share the index v \in Videos.  A row that does not exist has  *)
(* the state "absent".                                                     *)
(***************************************************************************)
EXTENDS Segmenter

CONSTANTS
    Videos,         \* ids the id factory may hand out
    IdempotencyKeys, \* keys of upload requests (with their owner) and of chunk requests
    Intents,        \* declared [expectedBytes, expectedSha256] of an upload
    ChunkRequests,  \* chunks a client sends: [key, offset, bytes]
    Handlers,       \* concurrent chunk requests
    Workers,        \* worker processes
    Tokens,         \* lease tokens (UUIDs)
    Viewers,        \* concurrent manifest and segment reads
    SegmentBytes,   \* DEFAULT_SEGMENT_BYTES
    LeaseMs,        \* lease length passed to runOneJob
    MaxClock,       \* bound: the clock stops here
    MaxDamage,      \* bound: objects lost or corrupted at the same time
    NULL

ByteDigests == {"bytes"} \X Seq(Octets)
SegmentRows == [sha256 : ByteDigests, bytes : Nat]
Manifests == [sourceSha256 : ByteDigests, totalBytes : Nat,
              segmentBytes : Nat, segments : Seq(SegmentRows)]
ManifestDigests == {"manifest"} \X Manifests
ObjectDigests == ByteDigests \cup ManifestDigests
TokenDigests == {"token"} \X Tokens

\* validateUploadIntent and validateChunk have accepted the requests.
ASSUME RequestsAssumption ==
    /\ Intents \subseteq [expectedBytes : Nat \ {0}, expectedSha256 : ByteDigests]
    /\ ChunkRequests \subseteq [key : IdempotencyKeys, offset : Nat, bytes : Seq(Octets) \ {<<>>}]

ASSUME NumbersAssumption ==
    /\ SegmentBytes \in MinSegmentBytes..MaxSegmentBytes
    /\ LeaseMs \in Nat \ {0}
    /\ MaxClock \in Nat
    /\ MaxDamage \in Nat

ASSUME NullAssumption ==
    NULL \notin Videos \cup IdempotencyKeys \cup Intents \cup Tokens
                \cup ObjectDigests \cup TokenDigests
                \cup [video : Videos, chunk : ChunkRequests]
                \cup [video : Videos, digest : ObjectDigests, version : Nat]

VARIABLES
    video,      \* table videos: [state, active, tombstoneVersion]
    upload,     \* table upload_sessions: [state, key, intent, offset, source]
    chunks,     \* table upload_chunk_requests: the set of committed chunk requests
    job,        \* table processing_jobs: [state, source, lease, leaseUntil, completion]
    rendition,  \* tables renditions and rendition_segments: [state, manifest, segments]
    objects,    \* digests whose object file is present and intact
    corrupt,    \* digests whose object file holds other bytes
    lost,       \* history: digests once installed whose file is gone
    clock,      \* milliseconds, read by Date.now()
    request,    \* chunk request a handler has stored but not yet committed
    worker,     \* runOneJob in progress: [pc, token, at, video, source, todo]
    viewer,     \* authorised read not yet answered: [video, digest, version]
    receipts,   \* history: the chunk replies that reached a client
    publisher,  \* publishVideo past its row locks: [pc, todo], todo the segments not yet verified
    seen        \* history: digests found intact since a transaction that verifies locked the rows

tables == <<video, upload, chunks, job, rendition>>
store == <<objects, corrupt, lost>>
held == <<publisher, seen>>
vars == <<tables, store, clock, request, worker, viewer, receipts, held>>

AbsentVideo == [state |-> "absent", active |-> NULL, tombstoneVersion |-> 0]
AbsentUpload == [state |-> "absent", key |-> NULL, intent |-> NULL, offset |-> 0, source |-> NULL]
AbsentJob == [state |-> "absent", source |-> NULL, lease |-> NULL, leaseUntil |-> 0, completion |-> NULL]
AbsentRendition == [state |-> "absent", manifest |-> NULL, segments |-> <<>>]
IdleWorker == [pc |-> "idle", token |-> NULL, at |-> 0, video |-> NULL, source |-> <<>>, todo |-> <<>>]
IdlePublisher == [pc |-> "idle", todo |-> <<>>]

\* migrate(): empty tables, empty object directory, nothing running.
Init ==
    /\ video = [v \in Videos |-> AbsentVideo]
    /\ upload = [v \in Videos |-> AbsentUpload]
    /\ chunks = [v \in Videos |-> {}]
    /\ job = [v \in Videos |-> AbsentJob]
    /\ rendition = [v \in Videos |-> AbsentRendition]
    /\ objects = {} /\ corrupt = {} /\ lost = {}
    /\ clock = 0
    /\ request = [h \in Handlers |-> NULL]
    /\ worker = [w \in Workers |-> IdleWorker]
    /\ viewer = [r \in Viewers |-> NULL]
    /\ receipts = {}
    /\ publisher = [v \in Videos |-> IdlePublisher]
    /\ seen = [v \in Videos |-> {}]

\* A transaction that verifies objects holds the rows of the video: publishVideo the
\* video and its rendition, the transaction of materializeJob the job and the video.
Locked(v) ==
    \/ publisher[v].pc = "verifying"
    \/ \E w \in Workers : worker[w].pc = "verifying" /\ worker[w].video = v

\* History: the transaction takes its locks, and gives them back.
Watch(v) == seen' = [seen EXCEPT ![v] = objects]
Unwatch(v) == seen' = [seen EXCEPT ![v] = {}]

\* ObjectStore.put: link the file unless the path exists; an existing file is
\* verified, so the put fails when the path holds other bytes.
Put(digest) ==
    /\ digest \notin corrupt
    /\ objects' = objects \cup {digest}
    /\ lost' = lost \ {digest}
    /\ UNCHANGED corrupt
    /\ seen' = [v \in Videos |-> IF Locked(v) THEN seen[v] \cup {digest} ELSE seen[v]]

\* The environment: the host's clock, and files lost or altered under the store.
Tick ==
    /\ clock < MaxClock
    /\ clock' = clock + 1
    /\ UNCHANGED <<tables, store, request, worker, viewer, receipts, held>>

DamageObject(digest) ==
    /\ Cardinality(corrupt) + Cardinality(lost) < MaxDamage
    /\ digest \in objects
    /\ objects' = objects \ {digest}
    /\ \/ lost' = lost \cup {digest} /\ UNCHANGED corrupt
       \/ corrupt' = corrupt \cup {digest} /\ UNCHANGED lost
    /\ UNCHANGED <<tables, clock, request, worker, viewer, receipts, held>>
====
