---- MODULE UploadHandlers ----
(***************************************************************************)
(* openUpload, commitChunk and finalizeUpload.  A database transaction is  *)
(* one step: it holds the row lock it takes first until it commits.  The   *)
(* chunk object is installed before its transaction opens, so a chunk      *)
(* request takes two steps and other requests run in between.              *)
(*                                                                         *)
(* Requests that are refused, that replay an upload or a finalization, and *)
(* headUpload change nothing and are not steps.                            *)
(***************************************************************************)
EXTENDS RepositoryState

EndOf(chunk) == chunk.offset + Len(chunk.bytes)

NewUpload(key, intent) ==
    [state |-> "uploading", key |-> key, intent |-> intent, offset |-> 0, source |-> NULL]

\* openUpload: the owner's key is new, or UNIQUE (owner, key) sends the request
\* to the replay of the row that won.
OpenUpload(v, key, intent) ==
    /\ video[v].state = "absent"
    /\ \A u \in Videos : upload[u].key # key
    /\ video' = [video EXCEPT ![v].state = "uploading"]
    /\ upload' = [upload EXCEPT ![v] = NewUpload(key, intent)]
    /\ UNCHANGED <<chunks, job, rendition, store, clock, request, worker, viewer, receipts, held>>

----------------------------------------------------------------------------
\* Mutant: the transaction is left to find the object, nothing is put first.
PutChunk_NoPut(h, v, chunk) ==
    /\ request[h] = NULL
    /\ upload[v].state # "absent"
    /\ request' = [request EXCEPT ![h] = [video |-> v, chunk |-> chunk]]
    /\ UNCHANGED <<tables, store, clock, worker, viewer, receipts, held>>

\* commitChunk, first step: the bytes are put before any row is read.
PutChunk(h, v, chunk) ==
    /\ request[h] = NULL
    /\ upload[v].state # "absent"
    /\ Put(Sha256Bytes(chunk.bytes))
    /\ request' = [request EXCEPT ![h] = [video |-> v, chunk |-> chunk]]
    /\ UNCHANGED <<tables, clock, worker, viewer, receipts, publisher>>

\* The reply [created, offset, bytes] reaches the client or is lost on the way.
Reply(v, chunk, offset) ==
    receipts' \in {receipts, receipts \cup {[video |-> v, chunk |-> chunk, offset |-> offset]}}

\* Mutant: the start offset is not compared with the committed one.
NextChunk_AnyOffset(v, chunk) ==
    /\ \A row \in chunks[v] : row.key # chunk.key
    /\ upload[v].state = "uploading"
    /\ EndOf(chunk) <= upload[v].intent.expectedBytes

\* A key seen for the first time, at the committed offset, within the source.
NextChunk(v, chunk) ==
    /\ \A row \in chunks[v] : row.key # chunk.key
    /\ upload[v].state = "uploading"
    /\ upload[v].offset = chunk.offset
    /\ EndOf(chunk) <= upload[v].intent.expectedBytes

\* The transaction of commitChunk for such a chunk.
AppendChunk(h, v, chunk) ==
    /\ request[h] = [video |-> v, chunk |-> chunk]
    /\ NextChunk(v, chunk)
    /\ chunks' = [chunks EXCEPT ![v] = @ \cup {chunk}]
    /\ upload' = [upload EXCEPT ![v].offset = EndOf(chunk)]
    /\ request' = [request EXCEPT ![h] = NULL]
    /\ Reply(v, chunk, EndOf(chunk))
    /\ UNCHANGED <<video, job, rendition, store, clock, worker, viewer, held>>

\* Mutant: the request digest of a replayed key is not compared.
SameRequest_AnyBytes(row, chunk) == row.key = chunk.key

\* The row has the request's key, and its digest: the same offset and bytes.
SameRequest(row, chunk) ==
    row.key = chunk.key /\ row.offset = chunk.offset /\ row.bytes = chunk.bytes

\* commitChunk replays a committed key: the reply is rebuilt from the row,
\* whatever the upload has become since.
ReplayChunk(h, v, chunk) ==
    /\ request[h] = [video |-> v, chunk |-> chunk]
    /\ \E row \in chunks[v] : SameRequest(row, chunk) /\ Reply(v, chunk, EndOf(row))
    /\ request' = [request EXCEPT ![h] = NULL]
    /\ UNCHANGED <<tables, store, clock, worker, viewer, held>>

\* commitChunk is refused, rolls back, or its process dies: the object stays.
AbandonChunk(h) ==
    /\ request[h] # NULL
    /\ request' = [request EXCEPT ![h] = NULL]
    /\ UNCHANGED <<tables, store, clock, worker, viewer, receipts, held>>

----------------------------------------------------------------------------
\* finalizeUpload walks the rows by start_offset with a cursor.  Start offsets
\* are unique, so the walk succeeds exactly when every row starts at 0 or where
\* another ends, and the cursor ends at the last byte any row covers.
Contiguous(rows) ==
    \A row \in rows : row.offset = 0 \/ \E before \in rows : EndOf(before) = row.offset

Covers(rows, length) ==
    /\ \A row \in rows : EndOf(row) <= length
    /\ length = 0 \/ \E row \in rows : EndOf(row) = length

\* Buffer.concat of the chunk objects in that order.
Assembled(rows, length) ==
    [p \in 1..length |->
        LET row == CHOOSE row \in rows : row.offset < p /\ p <= EndOf(row)
        IN  row.bytes[p - row.offset]]

SourceDigest(v) == Sha256Bytes(Assembled(chunks[v], upload[v].intent.expectedBytes))

\* Mutant: the digest of the assembled source is not compared with the intent.
DigestMatches_Always(v) == TRUE

DigestMatches(v) == SourceDigest(v) = upload[v].intent.expectedSha256

\* Every check finalizeUpload makes before it stores the source object.
SourceVerified(v) ==
    /\ upload[v].state = "uploading"
    /\ upload[v].offset = upload[v].intent.expectedBytes
    /\ \A row \in chunks[v] : Sha256Bytes(row.bytes) \in objects
    /\ Contiguous(chunks[v])
    /\ Covers(chunks[v], upload[v].intent.expectedBytes)
    /\ DigestMatches(v)

\* finalizeUpload commits.  It reads no video row: the update to 'queued' does
\* not look at the state the video is in.
FinalizeUpload(v) ==
    /\ SourceVerified(v)
    /\ Put(SourceDigest(v))
    /\ upload' = [upload EXCEPT ![v].state = "finalized", ![v].source = SourceDigest(v)]
    /\ job' = [job EXCEPT ![v].state = "queued", ![v].source = SourceDigest(v)]
    /\ video' = [video EXCEPT ![v].state = "queued"]
    /\ UNCHANGED <<chunks, rendition, clock, request, worker, viewer, receipts, publisher>>

\* The process dies or the transaction fails after the source object is stored.
FinalizeRolledBack(v) ==
    /\ SourceVerified(v)
    /\ Put(SourceDigest(v))
    /\ UNCHANGED <<tables, clock, request, worker, viewer, receipts, publisher>>
====
