---- MODULE VideoRepository ----
(***************************************************************************)
(* The video origin: chunk handlers, worker processes, the publication     *)
(* handlers and the readers over one database and one object directory.    *)
(***************************************************************************)
EXTENDS UploadHandlers, JobWorker, PublicationHandlers

\* A viewer may ask for any digest; one that was never stored is in no row.
EverStored == objects \cup corrupt \cup lost

UploadNext ==
    \/ \E v \in Videos, key \in IdempotencyKeys, intent \in Intents : OpenUpload(v, key, intent)
    \/ \E h \in Handlers, v \in Videos, chunk \in ChunkRequests :
          PutChunk(h, v, chunk) \/ AppendChunk(h, v, chunk) \/ ReplayChunk(h, v, chunk)
    \/ \E h \in Handlers : AbandonChunk(h)
    \/ \E v \in Videos : FinalizeUpload(v) \/ FinalizeRolledBack(v)

WorkerNext ==
    \/ \E w \in Workers, token \in Tokens : StartRun(w, token)
    \/ \E w \in Workers, v \in Videos : ClaimJob(w, v)
    \/ \E w \in Workers :
          \/ SampleClock(w) \/ BeginMaterialize(w) \/ InstallObject(w)
          \/ LockReady(w) \/ VerifyArtifactObject(w) \/ CommitReady(w) \/ RollBackReady(w)
          \/ StopRun(w)

PublicationNext ==
    \/ \E v \in Videos :
          \/ LockPublish(v) \/ VerifySegment(v) \/ PublishVideo(v) \/ RollBackPublish(v)
          \/ TombstoneVideo(v)
    \/ \E r \in Viewers, v \in Videos : ObserveManifest(r, v)
    \/ \E r \in Viewers, v \in Videos, digest \in EverStored : ObserveSegment(r, v, digest)
    \/ \E r \in Viewers : Respond(r)

EnvironmentNext ==
    \/ Tick
    \/ \E digest \in objects : DamageObject(digest)

Next == UploadNext \/ WorkerNext \/ PublicationNext \/ EnvironmentNext

Spec == Init /\ [][Next]_vars

----------------------------------------------------------------------------
(* Types: the column types and CHECK constraints of schema.js that concern *)
(* one column, and the shapes of the volatile records.                     *)

VideoStates == {"absent", "uploading", "queued", "processing", "ready", "published", "tombstoned"}
JobStates == {"absent", "queued", "processing", "completed", "cancelled"}
RunStates == {"idle", "claiming", "claimed", "started", "installing", "installed", "sampled",
              "verifying"}

VideoRows == [state : VideoStates, active : Videos \cup {NULL}, tombstoneVersion : Nat]
UploadRows == [state : {"absent", "uploading", "finalized"}, key : IdempotencyKeys \cup {NULL},
               intent : Intents \cup {NULL}, offset : Nat, source : ByteDigests \cup {NULL}]
JobRows == [state : JobStates, source : ByteDigests \cup {NULL}, lease : TokenDigests \cup {NULL},
            leaseUntil : Nat, completion : TokenDigests \cup {NULL}]
RenditionRows == [state : {"absent", "ready", "published"},
                  manifest : ManifestDigests \cup {NULL}, segments : Seq(SegmentRows)]
Runs == [pc : RunStates, token : Tokens \cup {NULL}, at : Nat, video : Videos \cup {NULL},
         source : Seq(Octets), todo : Seq(ObjectDigests)]
ChunkInFlight == [video : Videos, chunk : ChunkRequests]
Publications == [pc : {"idle", "verifying"}, todo : Seq(SegmentRows)]
Reads == [video : Videos, digest : ObjectDigests, version : Nat]

\* Type invariant: every row and record has its shape.
TypeOK ==
    /\ video \in [Videos -> VideoRows]
    /\ upload \in [Videos -> UploadRows]
    /\ chunks \in [Videos -> SUBSET ChunkRequests]
    /\ job \in [Videos -> JobRows]
    /\ rendition \in [Videos -> RenditionRows]
    /\ objects \subseteq ObjectDigests
    /\ corrupt \subseteq ObjectDigests
    /\ lost \subseteq ObjectDigests
    /\ clock \in Nat
    /\ request \in [Handlers -> ChunkInFlight \cup {NULL}]
    /\ worker \in [Workers -> Runs]
    /\ viewer \in [Viewers -> Reads \cup {NULL}]
    /\ receipts \subseteq [video : Videos, chunk : ChunkRequests, offset : Nat]
    /\ publisher \in [Videos -> Publications]
    /\ seen \in [Videos -> SUBSET ObjectDigests]

----------------------------------------------------------------------------
(* Uploads.                                                                *)

\* Whatever handlers race, the committed chunks cover the bytes before the
\* committed offset exactly once (commitChunk's FOR UPDATE and offset check).
ChunksTileOffset ==
    \A v \in Videos :
        /\ \A row \in chunks[v] : EndOf(row) <= upload[v].offset
        /\ \A one, two \in chunks[v] :
              one = two \/ EndOf(one) <= two.offset \/ EndOf(two) <= one.offset
        /\ \A p \in 1..upload[v].offset : \E row \in chunks[v] : row.offset < p /\ p <= EndOf(row)

\* The two integrity errors of finalizeUpload about gaps and coverage cannot
\* happen: a complete upload always passes the cursor walk.
FinalizeFindsNoGap ==
    \A v \in Videos :
        upload[v].state = "uploading" /\ upload[v].offset = upload[v].intent.expectedBytes
            => Contiguous(chunks[v]) /\ Covers(chunks[v], upload[v].offset)

\* A chunk reply is a promise: the bytes a client was told are committed, by a
\* first reply or a replay, are the bytes of the finalized source at that place.
AcknowledgedBytesFinalized ==
    \A receipt \in receipts :
        LET chunk == receipt.chunk
            row == upload[receipt.video]
        IN  /\ receipt.offset = EndOf(chunk)
            /\ receipt.offset <= row.offset
            /\ row.state = "finalized" =>
                  \A i \in 1..Len(chunk.bytes) :
                      Content(row.source)[chunk.offset + i] = chunk.bytes[i]

----------------------------------------------------------------------------
(* The four tables together.                                               *)

\* The rows of a video agree across videos, upload_sessions, processing_jobs and
\* renditions, although no constraint of schema.js relates two tables' states.
RowsAgree(v) ==
    LET state == video[v].state
    IN  /\ state = "absent" <=> upload[v].state = "absent"
        /\ state = "uploading" => upload[v].state = "uploading"
        /\ upload[v].state = "uploading" => state \in {"uploading", "tombstoned"}
        /\ job[v].state = "absent" <=> upload[v].state # "finalized"
        /\ state = "queued" => job[v].state = "queued"
        /\ state = "processing" => job[v].state = "processing"
        /\ state \in {"ready", "published"} => job[v].state = "completed"
        /\ job[v].state = "cancelled" => state = "tombstoned"
        /\ state = "tombstoned" => job[v].state \in {"absent", "completed", "cancelled"}
        /\ rendition[v].state # "absent" <=> job[v].state = "completed"
        /\ state = "ready" => rendition[v].state = "ready"
        /\ state = "published" <=> video[v].active # NULL
        /\ state = "published" => rendition[v].state = "published" /\ video[v].active = v
        /\ job[v].state = "processing" <=> job[v].lease # NULL
        /\ job[v].state = "completed" <=> job[v].completion # NULL

LifecycleAgreement == \A v \in Videos : RowsAgree(v)

\* A tombstone is undone at most once per video: it can be undone only by the
\* finalization of an upload still open, so the counter never passes 2.
TombstonedAtMostTwice ==
    \A v \in Videos :
        /\ video[v].tombstoneVersion <= 2
        /\ upload[v].state = "uploading" =>
              video[v].tombstoneVersion = (IF video[v].state = "tombstoned" THEN 1 ELSE 0)

----------------------------------------------------------------------------
(* Leases.                                                                 *)

\* The lease of a job belongs to at most one run, and that run works on that
\* job: a worker that lost its lease can never pass for the current holder.
LeaseHeldByOneRun ==
    \A v \in Videos, w \in Workers :
        worker[w].token # NULL /\ job[v].lease = Sha256Token(worker[w].token) =>
            /\ worker[w].video = v
            /\ \A x \in Workers : worker[x].token = worker[w].token => x = w

\* A run takes over a job another run holds only once the lease has ended.
LeaseRespected ==
    [][\A v \in Videos :
          job[v].lease # NULL /\ job'[v].lease \notin {NULL, job[v].lease}
              => job[v].leaseUntil <= clock]_vars

\* A completion is recorded for the lease that is current when it commits, and
\* only over the objects of that job's own source.
CompletionCarriesCurrentLease ==
    [][\A v \in Videos :
          job[v].state # "completed" /\ job'[v].state = "completed" =>
              /\ job'[v].completion = job[v].lease
              /\ rendition'[v].manifest =
                    Sha256Manifest(Manifest(Content(job[v].source), SegmentBytes))]_vars

\* A completed or cancelled job is never touched again, by no late run and by no
\* late finalization, and neither are the rows of its rendition.
ClosedJobsFinal ==
    [][\A v \in Videos :
          job[v].state \in {"completed", "cancelled"} =>
              /\ job'[v] = job[v]
              /\ rendition'[v].manifest = rendition[v].manifest
              /\ rendition'[v].segments = rendition[v].segments]_vars

----------------------------------------------------------------------------
(* Renditions, publication and reads.                                      *)

\* Digests some committed row names.
ReferencedDigests(v) ==
    {Sha256Bytes(row.bytes) : row \in chunks[v]}
        \cup {digest \in {job[v].source, rendition[v].manifest} : digest # NULL}
        \cup DigestsIn(rendition[v].segments)

\* No row names an object before the object was stored, however transactions
\* and crashes interleave with the puts (orphan objects are allowed, orphan rows are not).
ReferencedObjectsStored ==
    \A v \in Videos : ReferencedDigests(v) \subseteq EverStored

\* What a rendition describes is the source the client declared when it opened
\* the upload, cut by the recipe, and nothing else.
RenditionMatchesDeclaredSource ==
    \A v \in Videos :
        rendition[v].state # "absent" =>
            LET source == Content(upload[v].intent.expectedSha256)
            IN  /\ Len(source) = upload[v].intent.expectedBytes
                /\ rendition[v].manifest = Sha256Manifest(Manifest(source, SegmentBytes))
                /\ rendition[v].segments = Segments(source, SegmentBytes)

\* The segments of a rendition, put together in their order, are the source the
\* client declared: each carries the bytes its row says, and every byte of the
\* source is in one segment, at the place the sizes of those before it give.
SegmentsCarrySource ==
    \A v \in Videos :
        rendition[v].state # "absent" =>
            LET source == Content(upload[v].intent.expectedSha256)
                segments == rendition[v].segments
                bytes(i) == Content(segments[i].sha256)
                place(i, p) == p - (i - 1) * SegmentBytes
                carries(i, p) == place(i, p) \in 1..segments[i].bytes
            IN  /\ \A i \in DOMAIN segments :
                       /\ Len(bytes(i)) = segments[i].bytes
                       /\ (i - 1) * SegmentBytes + segments[i].bytes <= Len(source)
                /\ \A p \in 1..Len(source) :
                       \E i \in DOMAIN segments :
                           /\ {j \in DOMAIN segments : carries(j, p)} = {i}
                           /\ bytes(i)[place(i, p)] = source[p]

\* A read that passed the authority query goes on to fetch the manifest or a
\* segment of the source declared for that video, and one that was stored.
AuthorizedReadsServeDeclaredSource ==
    \A r \in Viewers :
        viewer[r] # NULL =>
            LET source == Content(upload[viewer[r].video].intent.expectedSha256)
                manifest == Manifest(source, SegmentBytes)
            IN  viewer[r].digest \in EverStored
                    \cap ({Sha256Manifest(manifest)} \cup DigestsIn(manifest.segments))

\* A rendition is made ready, or visible, only if every object of the declared source
\* was intact at some moment since the transaction took its locks: what is missing or
\* altered all that time is found, although the objects are looked at one after the
\* other while others are damaged or stored again.
CommitsVerifiedObjects ==
    [][\A v \in Videos :
          rendition'[v].state # rendition[v].state =>
              LET manifest == Manifest(Content(upload[v].intent.expectedSha256), SegmentBytes)
              IN  {Sha256Manifest(manifest)} \cup DigestsIn(manifest.segments) \subseteq seen[v]]_vars

\* The integrity errors of publishVideo report damage and nothing else: a ready
\* rendition whose manifest is intact passes every test of it, and so does each of
\* its segments that is intact.
IntactRenditionsPublishable ==
    \A v \in Videos :
        video[v].state = "ready" /\ rendition[v].manifest \in objects =>
            /\ Publishable(v)
            /\ \A i \in DOMAIN rendition[v].segments :
                  rendition[v].segments[i].sha256 \in objects => Verifies(rendition[v].segments[i])

\* Once the upload is finalized a tombstone is permanent, against workers, late
\* completions and publications.
TombstonePermanentOnceFinalized ==
    [][\A v \in Videos :
          video[v].state = "tombstoned" /\ upload[v].state = "finalized"
              => video'[v] = video[v]]_vars

----------------------------------------------------------------------------
(* What the documents promise and the code does not keep.                  *)

\* docs/api.md, DELETE: reads whose authority is observed after a tombstone
\* are denied, so an authorised read has seen no tombstone.
TombstoneDeniesReads ==
    \A r \in Viewers : viewer[r] # NULL => viewer[r].version = 0

\* docs/architecture.md: a ready commit is accepted only before the lease ends.
ReadyCommitWithinLease ==
    [][\A v \in Videos :
          job[v].state = "processing" /\ job'[v].state = "completed"
              => clock < job[v].leaseUntil]_vars

----------------------------------------------------------------------------
(* What the repository implements.                                         *)

Lifecycle == INSTANCE VideoLifecycle WITH
    stage <- [v \in Videos |-> video[v].state],
    intake <- [v \in Videos |-> upload[v].state],
    work <- [v \in Videos |-> job[v].state],
    output <- [v \in Videos |-> rendition[v].state],
    deletions <- [v \in Videos |-> video[v].tombstoneVersion]

\* Whatever handlers and workers do, what the four tables show of a video changes
\* only as the lifecycle allows: no state is skipped, no work outlives a deletion,
\* and no run finishes work that was cancelled or taken from it.
ImplementsLifecycle == Lifecycle!Spec
====
