---- MODULE PublicationHandlers ----
(***************************************************************************)
(* publishVideo, tombstoneVideo, readManifest and readSegment.  The two    *)
(* writers are transactions that lock the video row; publishVideo keeps it *)
(* locked while it verifies the segments one by one, and meanwhile objects *)
(* may be lost, altered or stored again.  A read asks the database for     *)
(* authority in one query and fetches the object afterwards, so a          *)
(* tombstone may commit in between.                                        *)
(***************************************************************************)
EXTENDS RepositoryState

\* Mutant: a ready rendition is enough, whatever the state of the video.
Publishable_AnyVideoState(v) == rendition[v].state = "ready"

\* publishVideo goes on to the segments: a ready video with a ready rendition, and the
\* manifest object intact, accepted, and equal to the segment rows.
Publishable(v) ==
    LET row == rendition[v]
        manifest == Content(row.manifest)
    IN  /\ video[v].state = "ready"
        /\ row.state = "ready"
        /\ row.manifest \in objects
        /\ ManifestAccepted(manifest)
        /\ row.segments = manifest.segments

\* Mutant: the loop starts at the second segment.
SegmentsToVerify_ButFirst(v) == Tail(rendition[v].segments)

\* The segments the loop of publishVideo goes through.
SegmentsToVerify(v) == rendition[v].segments

\* The video and its rendition are locked and the manifest is read.
LockPublish(v) ==
    /\ ~Locked(v)
    /\ Publishable(v)
    /\ publisher' = [publisher EXCEPT ![v] = [pc |-> "verifying", todo |-> SegmentsToVerify(v)]]
    /\ Watch(v)
    /\ UNCHANGED <<tables, store, clock, request, worker, viewer, receipts>>

\* ObjectStore.verify of a segment row: the object is intact and as long as the row says.
Verifies(row) == row.sha256 \in objects /\ Len(Content(row.sha256)) = row.bytes

VerifySegment(v) ==
    /\ publisher[v].pc = "verifying"
    /\ publisher[v].todo # <<>>
    /\ Verifies(Head(publisher[v].todo))
    /\ publisher' = [publisher EXCEPT ![v].todo = Tail(@)]
    /\ UNCHANGED <<tables, store, clock, request, worker, viewer, receipts, seen>>

\* The rendition the video points to once published.
Pointer(v) == v

\* Every segment was found: the two updates, and COMMIT.
PublishVideo(v) ==
    /\ publisher[v].pc = "verifying"
    /\ publisher[v].todo = <<>>
    /\ rendition' = [rendition EXCEPT ![v].state = "published"]
    /\ video' = [video EXCEPT ![v].state = "published", ![v].active = Pointer(v)]
    /\ publisher' = [publisher EXCEPT ![v] = IdlePublisher]
    /\ Unwatch(v)
    /\ UNCHANGED <<upload, chunks, job, store, clock, request, worker, viewer, receipts>>

\* A segment is missing or altered, a call fails or the process dies: ROLLBACK.
RollBackPublish(v) ==
    /\ publisher[v].pc = "verifying"
    /\ publisher' = [publisher EXCEPT ![v] = IdlePublisher]
    /\ Unwatch(v)
    /\ UNCHANGED <<tables, store, clock, request, worker, viewer, receipts>>

----------------------------------------------------------------------------
\* Mutant: the job is not cancelled.
Cancelled_Not(j) == j

\* The job row as tombstoneVideo updates it.
Cancelled(j) ==
    IF j.state \in {"queued", "processing"}
    THEN [j EXCEPT !.state = "cancelled", !.lease = NULL, !.leaseUntil = 0]
    ELSE j

\* Mutant: a repeated deletion counts again.
Deletable_Again(v) == video[v].state # "absent"

\* The video exists and is not tombstoned; otherwise the request changes nothing.
Deletable(v) == video[v].state \notin {"absent", "tombstoned"}

\* It waits for the rows of a transaction that is verifying objects.
TombstoneVideo(v) ==
    /\ ~Locked(v)
    /\ Deletable(v)
    /\ job' = [job EXCEPT ![v] = Cancelled(@)]
    /\ video' = [video EXCEPT ![v].state = "tombstoned", ![v].active = NULL,
                              ![v].tombstoneVersion = @ + 1]
    /\ UNCHANGED <<upload, chunks, rendition, store, clock, request, worker, viewer, receipts, held>>

----------------------------------------------------------------------------
\* The row the query returns lets the request go on to the object.
Authorizes(v) == video[v].state = "published" /\ video[v].active # NULL

\* Mutant: any stored object is served through a published video.
SegmentsOf_AnyObject(v) == objects

\* The digests the join of readSegment finds under the active rendition.
SegmentsOf(v) == DigestsIn(rendition[video[v].active].segments)

\* The authority query of a read of this object, and what the read goes on with.
Observe(r, v, digest) ==
    /\ viewer[r] = NULL
    /\ viewer' = [viewer EXCEPT ![r] = [video |-> v, digest |-> digest,
                                        version |-> video[v].tombstoneVersion]]
    /\ UNCHANGED <<tables, store, clock, request, worker, receipts, held>>

ObserveManifest(r, v) ==
    Authorizes(v) /\ Observe(r, v, rendition[video[v].active].manifest)

\* Any digest may be asked for; only a segment of the active rendition has a row.
ObserveSegment(r, v, digest) ==
    Authorizes(v) /\ digest \in SegmentsOf(v) /\ Observe(r, v, digest)

\* The object is read and sent, or found missing or altered and an error is sent.
Respond(r) ==
    /\ viewer[r] # NULL
    /\ viewer' = [viewer EXCEPT ![r] = NULL]
    /\ UNCHANGED <<tables, store, clock, request, worker, receipts, held>>
====
