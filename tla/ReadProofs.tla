---- MODULE ReadProofs ----
(***************************************************************************)
(* Theorems about the objects rows name and reads are sent to fetch, about *)
(* how often a video can be tombstoned, and about the manifests a ready    *)
(* video is published with.                                                *)
(***************************************************************************)
EXTENDS JobProofs, FiniteSetTheorems

----------------------------------------------------------------------------
(* Objects before rows.  What was ever stored stays known; a request in     *)
(* flight has stored its chunk; every column that names an object is set by *)
(* a step that finds the object stored.                                     *)

LEMMA PutStores ==
    ASSUME NEW digest, Put(digest)
    PROVE  EverStored \cup {digest} \subseteq EverStored'
PROOF BY DEF Put, EverStored

LEMMA EverStoredGrows ==
    ASSUME [Next]_vars
    PROVE  EverStored \subseteq EverStored'
PROOF
<1>1. CASE UploadNext
      BY <1>1, PutStores DEF UploadNext, OpenUpload, PutChunk, AppendChunk, ReplayChunk, AbandonChunk,
                             FinalizeUpload, FinalizeRolledBack, store, EverStored
<1>2. CASE WorkerNext
      BY <1>2, PutStores DEF WorkerNext, StartRun, ClaimJob, SampleClock, BeginMaterialize,
                             InstallObject, LockReady, VerifyArtifactObject, CommitReady, RollBackReady,
                             StopRun, store, EverStored
<1>3. CASE PublicationNext \/ UNCHANGED vars
      BY <1>3, PublicationFrame DEF vars, store, EverStored
<1>4. CASE EnvironmentNext
      BY <1>4 DEF EnvironmentNext, Tick, DamageObject, store, EverStored
<1> QED BY <1>1, <1>2, <1>3, <1>4 DEF Next

RequestsStored ==
    \A h \in Handlers : request[h] # NULL => Sha256Bytes(request[h].chunk.bytes) \in EverStored

ChunksStored == \A v \in Videos : \A row \in chunks[v] : Sha256Bytes(row.bytes) \in EverStored

SourcesStored == \A v \in Videos : job[v].source # NULL => job[v].source \in EverStored

RenditionsStored ==
    \A v \in Videos :
        /\ rendition[v].manifest # NULL => rendition[v].manifest \in EverStored
        /\ DigestsIn(rendition[v].segments) \subseteq EverStored

SeenStored == \A v \in Videos : seen[v] \subseteq EverStored

StoredInv == RequestsStored /\ ChunksStored /\ SourcesStored /\ RenditionsStored /\ SeenStored

LEMMA UploadsStored ==
    ASSUME TypeInv, RequestsStored, ChunksStored, [Next]_vars
    PROVE  RequestsStored' /\ ChunksStored'
PROOF
<1>1. ASSUME NEW h \in Handlers, NEW v \in Videos, NEW chunk \in ChunkRequests,
             PutChunk(h, v, chunk)
      PROVE  RequestsStored' /\ ChunksStored'
      <2>1. /\ request'[h] = [video |-> v, chunk |-> chunk]
            /\ \A g \in Handlers \ {h} : request'[g] = request[g]
            /\ chunks' = chunks
            BY <1>1 DEF PutChunk, TypeInv, TypeOK, tables
      <2>2. Sha256Bytes(chunk.bytes) \in EverStored'
            BY <1>1, PutStores DEF PutChunk
      <2> QED BY <2>1, <2>2, EverStoredGrows DEF RequestsStored, ChunksStored
<1>2. ASSUME NEW h \in Handlers, NEW v \in Videos, NEW chunk \in ChunkRequests,
             AppendChunk(h, v, chunk)
      PROVE  RequestsStored' /\ ChunksStored'
      <2>1. /\ request[h] = [video |-> v, chunk |-> chunk] /\ request'[h] = NULL
            /\ \A g \in Handlers \ {h} : request'[g] = request[g]
            /\ chunks'[v] = chunks[v] \cup {chunk}
            /\ \A u \in Videos \ {v} : chunks'[u] = chunks[u]
            BY <1>2 DEF AppendChunk, TypeInv, TypeOK
      <2>2. [video |-> v, chunk |-> chunk] # NULL
            BY NullIsNew DEF ChunkInFlight
      <2>3. Sha256Bytes(chunk.bytes) \in EverStored
            BY <2>1, <2>2 DEF RequestsStored
      <2> QED BY <2>1, <2>3, EverStoredGrows DEF RequestsStored, ChunksStored
<1>3. ASSUME chunks' = chunks, \A h \in Handlers : request'[h] \in {request[h], NULL}
      PROVE  RequestsStored' /\ ChunksStored'
      BY <1>3, EverStoredGrows DEF RequestsStored, ChunksStored
<1>4. CASE UploadNext
      BY <1>1, <1>2, <1>3, <1>4 DEF UploadNext, OpenUpload, ReplayChunk, AbandonChunk, FinalizeUpload,
                                    FinalizeRolledBack, tables, TypeInv, TypeOK
<1>5. CASE WorkerNext \/ PublicationNext \/ EnvironmentNext \/ UNCHANGED vars
      BY <1>3, <1>5, WorkerFrame, PublicationFrame, EnvironmentFrame DEF vars, tables
<1> QED BY <1>4, <1>5 DEF Next

LEMMA JobSourcesStored ==
    ASSUME TypeInv, SourcesStored, [Next]_vars
    PROVE  SourcesStored'
PROOF
<1> SUFFICES ASSUME NEW v \in Videos, job'[v].source # NULL
             PROVE  job'[v].source \in EverStored'
    BY DEF SourcesStored
<1>1. job[v] \in JobRows
      BY DEF TypeInv, TypeOK
<1>2. CASE job'[v].source = job[v].source
      BY <1>2, EverStoredGrows DEF SourcesStored
<1>3. ASSUME FinalizeUpload(v)
      PROVE  job'[v].source \in EverStored'
      <2>1. job'[v].source = SourceDigest(v)
            BY <1>1, <1>3 DEF FinalizeUpload, TypeInv, TypeOK, JobRows
      <2>2. SourceDigest(v) \in EverStored'
            BY <1>3, PutStores DEF FinalizeUpload
      <2> QED BY <2>1, <2>2
<1>4. ASSUME NEW w \in Workers, ClaimJob(w, v)
      PROVE  job'[v].source = job[v].source
      <2>1. job'[v] = Leased(job[v], worker[w].token, worker[w].at)
            BY <1>4 DEF ClaimJob, TypeInv, TypeOK
      <2> QED BY <1>1, <2>1 DEF Leased, JobRows
<1>5. ASSUME NEW w \in Workers, worker[w].video = v, CommitReady(w)
      PROVE  job'[v].source = job[v].source
      <2>1. job'[v] = Completed(job[v], worker[w].token)
            BY <1>5 DEF CommitReady, TypeInv, TypeOK
      <2> QED BY <1>1, <2>1 DEF Completed, JobRows
<1>6. ASSUME TombstoneVideo(v)
      PROVE  job'[v].source = job[v].source
      <2>1. job'[v] = Cancelled(job[v])
            BY <1>6 DEF TombstoneVideo, TypeInv, TypeOK
      <2> QED BY <1>1, <2>1 DEF Cancelled, JobRows
<1> QED BY <1>2, <1>3, <1>4, <1>5, <1>6, JobWriters

\* What a verifying transaction has seen was stored.
LEMMA ObjectsSeenStored ==
    ASSUME TypeInv, SeenStored, [Next]_vars
    PROVE  SeenStored'
PROOF
<1> SUFFICES ASSUME NEW v \in Videos PROVE seen'[v] \subseteq EverStored'
    BY DEF SeenStored
<1>1. seen[v] \subseteq EverStored' /\ objects \subseteq EverStored'
      BY EverStoredGrows DEF SeenStored, EverStored
<1>2. ASSUME NEW digest, Put(digest) PROVE seen'[v] \subseteq seen[v] \cup {digest}
      BY <1>2 DEF Put
<1>3. ASSUME NEW digest, Put(digest) PROVE seen'[v] \subseteq EverStored'
      BY <1>1, <1>2, <1>3, PutStores
<1>4. ASSUME NEW u \in Videos, Watch(u) \/ Unwatch(u) PROVE seen'[v] \subseteq EverStored'
      BY <1>1, <1>4 DEF Watch, Unwatch, TypeInv, TypeOK
<1>5. ASSUME NEW w \in Workers, LockReady(w) \/ CommitReady(w) \/ RollBackReady(w)
      PROVE  seen'[v] \subseteq EverStored'
      <2>1. worker[w].video \in Videos
            BY <1>5, RunVideo DEF LockReady, CommitAllowed, CommitReady, RollBackReady
      <2> QED BY <1>4, <1>5, <2>1 DEF LockReady, CommitReady, RollBackReady
<1>6. CASE seen' = seen
      BY <1>1, <1>6
<1>7. CASE UploadNext
      BY <1>3, <1>6, <1>7 DEF UploadNext, OpenUpload, PutChunk, AppendChunk, ReplayChunk, AbandonChunk,
                              FinalizeUpload, FinalizeRolledBack, held
<1>8. CASE WorkerNext
      BY <1>3, <1>5, <1>6, <1>8 DEF WorkerNext, StartRun, ClaimJob, SampleClock, BeginMaterialize,
                                    InstallObject, VerifyArtifactObject, StopRun, held
<1>9. CASE PublicationNext
      BY <1>4, <1>6, <1>9 DEF PublicationNext, LockPublish, VerifySegment, PublishVideo, RollBackPublish,
                              TombstoneVideo, ObserveManifest, ObserveSegment, Observe, Respond, held
<1>10. CASE EnvironmentNext \/ UNCHANGED vars
       BY <1>6, <1>10, EnvironmentFrame DEF vars, held
<1> QED BY <1>7, <1>8, <1>9, <1>10 DEF Next

LEMMA RenditionObjectsStored ==
    ASSUME TypeInv, VerifiedInv, RenditionsStored, SeenStored, [Next]_vars
    PROVE  RenditionsStored'
PROOF
<1> DEFINE Stored(row, known) ==
             /\ row.manifest # NULL => row.manifest \in known
             /\ DigestsIn(row.segments) \subseteq known
<1> SUFFICES ASSUME NEW v \in Videos
             PROVE  Stored(rendition'[v], EverStored')
    BY DEF RenditionsStored
<1>1. Stored(rendition[v], EverStored')
      BY EverStoredGrows DEF RenditionsStored
<1>2. ASSUME NEW w \in Workers, worker[w].video = v, CommitReady(w)
      PROVE  Stored(rendition'[v], EverStored')
      <2> DEFINE source == worker[w].source
      <2>1. source \in Seq(Octets)
            BY DEF TypeInv, TypeOK, Runs
      <2>2. ObjectsOf(source) \subseteq EverStored
            <3>1. worker[w].pc = "verifying" /\ worker[w].todo = <<>>
                  BY <1>2 DEF CommitReady
            <3>2. Elements(worker[w].todo) = {}
                  BY <3>1 DEF Elements
            <3> QED BY <1>2, <3>1, <3>2 DEF VerifiedInv, SeenStored
      <2>3. /\ rendition'[v].manifest = Sha256Manifest(Manifest(source, SegmentBytes))
            /\ rendition'[v].segments = Segments(source, SegmentBytes)
            BY <1>2 DEF CommitReady, TypeInv, TypeOK, Manifest
      <2> HIDE DEF source
      <2> QED BY <2>2, <2>3, EverStoredGrows DEF ObjectsOf
<1>3. ASSUME PublishVideo(v)
      PROVE  Stored(rendition'[v], EverStored')
      <2>1. rendition[v] \in RenditionRows
            BY DEF TypeInv, TypeOK
      <2>2. rendition'[v] = [rendition[v] EXCEPT !.state = "published"]
            BY <1>3 DEF PublishVideo, TypeInv, TypeOK
      <2>3. rendition'[v].manifest = rendition[v].manifest /\ rendition'[v].segments = rendition[v].segments
            BY <2>1, <2>2 DEF RenditionRows
      <2> QED BY <1>1, <2>3
<1> HIDE DEF Stored
<1> QED BY <1>1, <1>2, <1>3, RenditionWriters

LEMMA StoredInvariant == Spec => []StoredInv
PROOF
<1>1. Init => StoredInv
      BY DEF Init, StoredInv, RequestsStored, ChunksStored, SourcesStored, RenditionsStored, SeenStored, DigestsIn,
             AbsentJob, AbsentRendition
<1>2. TypeInv /\ VerifiedInv /\ StoredInv /\ [Next]_vars => StoredInv'
      BY UploadsStored, JobSourcesStored, RenditionObjectsStored, ObjectsSeenStored DEF StoredInv
<1> QED BY <1>1, <1>2, TypeInvariant, VerifiedInvariant, PTL DEF Spec

\* No committed row names an object that was never stored, in any interleaving of
\* puts, transactions and crashes, and whatever is lost later.
THEOREM RowsNameStoredObjects == Spec => []ReferencedObjectsStored
PROOF
<1>1. StoredInv => ReferencedObjectsStored
      BY DEF StoredInv, ChunksStored, SourcesStored, RenditionsStored, ReferencedObjectsStored,
             ReferencedDigests
<1> QED BY <1>1, StoredInvariant, PTL

----------------------------------------------------------------------------
(* Reads.  A read under way was authorised by a rendition of a finalized     *)
(* upload, whose declaration no later step changes.                         *)

DeclaredDigests(intent) ==
    LET manifest == Manifest(Content(intent.expectedSha256), SegmentBytes)
    IN  {Sha256Manifest(manifest)} \cup DigestsIn(manifest.segments)

ReadInv ==
    \A r \in Viewers :
        viewer[r] # NULL =>
            /\ job[viewer[r].video].state # "absent"
            /\ viewer[r].digest \in EverStored
            /\ viewer[r].digest \in DeclaredDigests(upload[viewer[r].video].intent)

\* A published rendition is the active one, and names declared, stored objects.
LEMMA AuthorityNamesDeclared ==
    ASSUME TypeInv, LifecycleAgreement, RenditionMatchesDeclaredSource, StoredInv,
           NEW v \in Videos, Authorizes(v)
    PROVE  /\ job[v].state # "absent"
           /\ rendition[video[v].active].manifest \in EverStored
           /\ rendition[video[v].active].manifest \in DeclaredDigests(upload[v].intent)
           /\ SegmentsOf(v) \subseteq DeclaredDigests(upload[v].intent)
PROOF
<1> DEFINE source == Content(upload[v].intent.expectedSha256)
<1>1. video[v].active = v /\ rendition[v].state = "published" /\ job[v].state # "absent"
      BY DEF Authorizes, LifecycleAgreement, RowsAgree
<1>2. /\ rendition[v].manifest = Sha256Manifest(Manifest(source, SegmentBytes))
      /\ rendition[v].segments = Segments(source, SegmentBytes)
      BY <1>1 DEF RenditionMatchesDeclaredSource
<1>3. rendition[v].manifest # NULL
      BY <1>1 DEF TypeInv, RowsTyped
<1>4. rendition[v].manifest \in EverStored
      BY <1>3 DEF StoredInv, RenditionsStored
<1> QED BY <1>1, <1>2, <1>4 DEF DeclaredDigests, SegmentsOf, Manifest

LEMMA ReadStep ==
    ASSUME TypeInv, LifecycleAgreement, RenditionMatchesDeclaredSource, StoredInv, ReadInv, [Next]_vars
    PROVE  ReadInv'
PROOF
<1> DEFINE Allowed(read) ==
             /\ job'[read.video].state # "absent"
             /\ read.digest \in EverStored'
             /\ read.digest \in DeclaredDigests(upload'[read.video].intent)
<1> SUFFICES ASSUME NEW r \in Viewers, viewer'[r] # NULL
             PROVE  Allowed(viewer'[r])
    BY DEF ReadInv
<1>1. ASSUME NEW read, read.video \in Videos, job[read.video].state # "absent",
             read.digest \in EverStored, read.digest \in DeclaredDigests(upload[read.video].intent)
      PROVE  Allowed(read)
      <2>1. PICK v \in Videos : v = read.video
            BY <1>1
      <2>2. job'[v].state # "absent" /\ upload'[v] = upload[v]
            BY <1>1, <2>1, SourcesFixed
      <2> QED BY <1>1, <2>1, <2>2, EverStoredGrows
<1> HIDE DEF Allowed
<1>2. CASE viewer'[r] = viewer[r]
      <2>1. viewer[r].video \in Videos
            BY <1>2 DEF TypeInv, TypeOK, Reads
      <2> QED BY <1>1, <1>2, <2>1 DEF ReadInv
<1>3. ASSUME NEW x \in Viewers, NEW v \in Videos, NEW digest,
             Authorizes(v), Observe(x, v, digest), viewer'[r] # viewer[r],
             digest \in EverStored, digest \in DeclaredDigests(upload[v].intent)
      PROVE  Allowed(viewer'[r])
      <2>1. viewer'[r] = [video |-> v, digest |-> digest, version |-> video[v].tombstoneVersion]
            BY <1>3 DEF Observe, TypeInv, TypeOK
      <2>2. job[v].state # "absent"
            BY <1>3, AuthorityNamesDeclared
      <2> QED BY <1>1, <1>3, <2>1, <2>2
<1>4. ASSUME viewer'[r] # viewer[r]
      PROVE  Allowed(viewer'[r])
      <2>1. PublicationNext
            BY <1>4, WorkerFrame, EnvironmentFrame
            DEF Next, UploadNext, OpenUpload, PutChunk, AppendChunk, ReplayChunk, AbandonChunk,
                FinalizeUpload, FinalizeRolledBack, vars
      <2>2. ASSUME NEW x \in Viewers, NEW v \in Videos, ObserveManifest(x, v)
            PROVE  Allowed(viewer'[r])
            <3>1. Authorizes(v) /\ Observe(x, v, rendition[video[v].active].manifest)
                  BY <2>2 DEF ObserveManifest
            <3> QED BY <1>3, <1>4, <3>1, AuthorityNamesDeclared
      <2>3. ASSUME NEW x \in Viewers, NEW v \in Videos, NEW digest \in EverStored,
                   ObserveSegment(x, v, digest)
            PROVE  Allowed(viewer'[r])
            <3>1. Authorizes(v) /\ digest \in SegmentsOf(v) /\ Observe(x, v, digest)
                  BY <2>3 DEF ObserveSegment
            <3> QED BY <1>3, <1>4, <3>1, AuthorityNamesDeclared
      <2>4. ASSUME NEW x \in Viewers, Respond(x) PROVE FALSE
            BY <1>4, <2>4 DEF Respond, TypeInv, TypeOK
      <2> QED BY <1>4, <2>1, <2>2, <2>3, <2>4 
          DEF PublicationNext, LockPublish, VerifySegment, PublishVideo, RollBackPublish, TombstoneVideo
<1> QED BY <1>2, <1>4

LEMMA ReadInvariant == Spec => []ReadInv
PROOF
<1>1. Init => ReadInv
      BY DEF Init, ReadInv
<1> QED BY <1>1, ReadStep, TypeInvariant, LifecycleAgrees, RenditionsMatch, StoredInvariant, PTL DEF Spec

\* An authorised read fetches the manifest or a segment of the source declared for
\* its video, and an object that was stored, also when the video is tombstoned or
\* the object damaged between the query and the fetch.
THEOREM ReadsServeDeclared == Spec => []AuthorizedReadsServeDeclaredSource
PROOF
<1>1. ReadInv => AuthorizedReadsServeDeclaredSource
      BY DEF ReadInv, DeclaredDigests, AuthorizedReadsServeDeclaredSource
<1> QED BY <1>1, ReadInvariant, PTL

----------------------------------------------------------------------------
(* Tombstones.  Only finalizing an open upload undoes one, and an upload is *)
(* finalized once.                                                          *)

TombstoneCount(v) ==
    LET deleted == video[v].state = "tombstoned"
        version == video[v].tombstoneVersion
    IN  /\ upload[v].state = "absent" => version = 0
        /\ upload[v].state = "uploading" => version = IF deleted THEN 1 ELSE 0
        /\ upload[v].state = "finalized" => version <= IF deleted THEN 2 ELSE 1

TombstoneInv == \A v \in Videos : TombstoneCount(v)

LEMMA TombstoneStep ==
    ASSUME TypeInv, AgreeInv, TombstoneInv, [Next]_vars
    PROVE  TombstoneInv'
PROOF
<1> SUFFICES ASSUME NEW v \in Videos PROVE TombstoneCount(v)'
    BY DEF TombstoneInv
<1>1. /\ TombstoneCount(v) /\ RowsAgree(v)
      /\ video[v] \in VideoRows /\ upload[v] \in UploadRows
      /\ video[v].tombstoneVersion \in Nat
      BY DEF TombstoneInv, AgreeInv, LifecycleAgreement, TypeInv, TypeOK, VideoRows
<1>2. ASSUME NEW key \in IdempotencyKeys, NEW intent \in Intents, OpenUpload(v, key, intent)
      PROVE  TombstoneCount(v)'
      <2>1. /\ video'[v] = [video[v] EXCEPT !.state = "uploading"]
            /\ upload'[v].state = "uploading"
            /\ upload[v].state = "absent"
            BY <1>1, <1>2 DEF OpenUpload, NewUpload, TypeInv, TypeOK, RowsAgree
      <2>2. video'[v].state = "uploading" /\ video'[v].tombstoneVersion = video[v].tombstoneVersion
            BY <1>1, <2>1 DEF VideoRows
      <2> QED BY <1>1, <2>1, <2>2 DEF TombstoneCount
<1>3. ASSUME FinalizeUpload(v)
      PROVE  TombstoneCount(v)'
      <2>1. /\ video'[v] = [video[v] EXCEPT !.state = "queued"]
            /\ upload[v].state = "uploading" /\ upload'[v].state = "finalized"
            BY <1>1, <1>3 DEF FinalizeUpload, SourceVerified, TypeInv, TypeOK, UploadRows
      <2>2. video'[v].state = "queued" /\ video'[v].tombstoneVersion = video[v].tombstoneVersion
            BY <1>1, <2>1 DEF VideoRows
      <2> QED BY <1>1, <2>1, <2>2 DEF TombstoneCount
<1>4. ASSUME TombstoneVideo(v)
      PROVE  TombstoneCount(v)'
      <2>1. /\ video'[v] = [video[v] EXCEPT !.state = "tombstoned", !.active = NULL,
                                            !.tombstoneVersion = video[v].tombstoneVersion + 1]
            /\ video[v].state \notin {"absent", "tombstoned"} /\ upload' = upload
            BY <1>4 DEF TombstoneVideo, Deletable, TypeInv, TypeOK
      <2>2. /\ video'[v].state = "tombstoned"
            /\ video'[v].tombstoneVersion = video[v].tombstoneVersion + 1
            BY <1>1, <2>1 DEF VideoRows
      <2> QED BY <1>1, <2>1, <2>2 DEF TombstoneCount, RowsAgree
<1>5. ASSUME upload'[v].state = upload[v].state,
             video'[v].tombstoneVersion = video[v].tombstoneVersion,
             video[v].state = "tombstoned" <=> video'[v].state = "tombstoned"
      PROVE  TombstoneCount(v)'
      BY <1>1, <1>5 DEF TombstoneCount
<1>6. upload'[v].state = upload[v].state
          \/ FinalizeUpload(v)
          \/ \E key \in IdempotencyKeys, intent \in Intents : OpenUpload(v, key, intent)
      <2>1. ASSUME NEW u \in Videos, NEW key \in IdempotencyKeys, NEW intent \in Intents,
                   OpenUpload(u, key, intent), u # v
            PROVE  upload'[v] = upload[v]
            BY <2>1 DEF OpenUpload, TypeInv, TypeOK
      <2>2. ASSUME NEW h \in Handlers, NEW u \in Videos, NEW chunk \in ChunkRequests,
                   AppendChunk(h, u, chunk)
            PROVE  upload'[v].state = upload[v].state
            BY <1>1, <2>2 DEF AppendChunk, TypeInv, TypeOK, UploadRows
      <2>3. ASSUME NEW u \in Videos, FinalizeUpload(u), u # v
            PROVE  upload'[v] = upload[v]
            BY <2>3 DEF FinalizeUpload, TypeInv, TypeOK
      <2>4. CASE UploadNext
            BY <2>1, <2>2, <2>3, <2>4 DEF UploadNext, PutChunk, ReplayChunk, AbandonChunk,
                                          FinalizeRolledBack, tables
      <2>5. CASE WorkerNext \/ PublicationNext \/ EnvironmentNext \/ UNCHANGED vars
            BY <2>5, WorkerFrame, PublicationFrame, EnvironmentFrame DEF vars, tables
      <2> QED BY <2>4, <2>5 DEF Next
<1>7. CASE video'[v] = video[v]
      BY <1>2, <1>3, <1>5, <1>6, <1>7
<1>8. ASSUME NEW w \in Workers, ClaimJob(w, v)
      PROVE  TombstoneCount(v)'
      <2>1. PICK state \in VideoStates : /\ video'[v] = [video[v] EXCEPT !.state = state]
                                         /\ state # "tombstoned"
            BY <1>1, <1>8 DEF ClaimJob, Claimable, TypeInv, TypeOK, VideoRows, VideoStates
      <2>2. video[v].state # "tombstoned" /\ upload' = upload
            BY <1>8 DEF ClaimJob, Claimable
      <2>3. video'[v].state = state /\ video'[v].tombstoneVersion = video[v].tombstoneVersion
            BY <1>1, <2>1 DEF VideoRows
      <2> QED BY <1>5, <2>1, <2>2, <2>3
<1>9. ASSUME NEW w \in Workers, worker[w].video = v, CommitReady(w)
      PROVE  TombstoneCount(v)'
      <2>1. /\ video'[v] = [video[v] EXCEPT !.state = "ready", !.active = NULL]
            /\ video[v].state # "tombstoned" /\ upload' = upload
            BY <1>1, <1>9 DEF CommitReady, AgreeInv, HeldRows, RowsAgree, TypeInv, TypeOK
      <2>2. video'[v].state = "ready" /\ video'[v].tombstoneVersion = video[v].tombstoneVersion
            BY <1>1, <2>1 DEF VideoRows
      <2> QED BY <1>5, <2>1, <2>2
<1>10. ASSUME PublishVideo(v)
       PROVE  TombstoneCount(v)'
      <2>1. /\ video'[v] = [video[v] EXCEPT !.state = "published", !.active = v]
            /\ video[v].state # "tombstoned" /\ upload' = upload
            BY <1>10 DEF PublishVideo, Pointer, AgreeInv, HeldRows, TypeInv, TypeOK
      <2>2. video'[v].state = "published" /\ video'[v].tombstoneVersion = video[v].tombstoneVersion
            BY <1>1, <2>1 DEF VideoRows
      <2> QED BY <1>5, <2>1, <2>2
<1> QED BY <1>2, <1>3, <1>4, <1>7, <1>8, <1>9, <1>10, VideoWriters

\* A video can be tombstoned twice at most, and only because a finalization after
\* the first deletion brings it back.
THEOREM TombstonesCounted == Spec => []TombstonedAtMostTwice
PROOF
<1>1. Init => TombstoneInv
      BY DEF Init, TombstoneInv, TombstoneCount, AbsentVideo, AbsentUpload
<1>2. ASSUME TypeInv, TombstoneInv PROVE TombstonedAtMostTwice
      <2> SUFFICES ASSUME NEW v \in Videos
          PROVE  /\ video[v].tombstoneVersion <= 2
                 /\ upload[v].state = "uploading" =>
                       video[v].tombstoneVersion = (IF video[v].state = "tombstoned" THEN 1 ELSE 0)
          BY DEF TombstonedAtMostTwice
      <2>1. /\ video[v].tombstoneVersion \in Nat
            /\ upload[v].state \in {"absent", "uploading", "finalized"}
            BY <1>2 DEF TypeInv, TypeOK, VideoRows, UploadRows
      <2>2. TombstoneCount(v)
            BY <1>2 DEF TombstoneInv
      <2> QED BY <2>1, <2>2 DEF TombstoneCount
<1> QED BY <1>1, <1>2, TombstoneStep, TypeInvariant, AgreeInvariant, PTL DEF Spec

----------------------------------------------------------------------------
(* The manifest of a source passes the test it is put to when it is read     *)
(* back, whatever the source and the segment size.  Its checks count bytes   *)
(* by folding over the segments; the fold is the one function that solves    *)
(* its equation, and the closed form for full segments and a shorter last   *)
(* one solves it.                                                           *)

\* The equation of the fold over the segments in set.
Sums(sum, set, rows) ==
    sum = [s \in SUBSET set |->
              IF s = {} THEN 0
              ELSE LET x == CHOOSE x \in s : TRUE IN rows[x].bytes + sum[s \ {x}]]

Total(rows) == (CHOOSE sum : Sums(sum, 1..Len(rows), rows))[1..Len(rows)]

\* The test with its fold named.
LEMMA AcceptedByTotal ==
    ASSUME NEW m, NEW count, count = Len(m.segments)
    PROVE  ManifestAccepted(m) <=>
               /\ m.totalBytes > 0
               /\ m.segmentBytes \in MinSegmentBytes..MaxSegmentBytes
               /\ count > 0
               /\ \A i \in 1..(count - 1) : m.segments[i].bytes = m.segmentBytes
               /\ m.segments[count].bytes + m.segmentBytes * (count - 1) = m.totalBytes
               /\ Total(m.segments) = m.totalBytes
               /\ count = CeilDiv(m.totalBytes, m.segmentBytes)
PROOF BY DEF ManifestAccepted, MapThenSumSet, MapThenFoldSet, Sums, Total

\* Two solutions agree: take a smallest set of segments on which they differ.
LEMMA SumUnique ==
    ASSUME NEW set, IsFiniteSet(set), NEW rows, NEW f, Sums(f, set, rows), NEW g, Sums(g, set, rows)
    PROVE  f = g
PROOF
<1> DEFINE Bad == {s \in SUBSET set : f[s] # g[s]}
           Order == StrictSubsetOrdering(set)
<1>1. IsWellFoundedOn(Order, SUBSET set)
      BY FS_StrictSubsetOrderingWellFounded, FS_FiniteSubsetsOfFinite
<1>2. Bad = {}
  <2> SUFFICES ASSUME Bad # {} PROVE FALSE
        OBVIOUS
  <2>1. PICK s \in Bad : \A t \in Bad : <<t, s>> \notin Order
        BY <1>1, WFMin, Zenon
  <2>2. s # {}
        BY DEF Sums
  <2>3. PICK x \in s : x = CHOOSE y \in s : TRUE
        BY <2>2
  <2>4. f[s] = rows[x].bytes + f[s \ {x}] /\ g[s] = rows[x].bytes + g[s \ {x}]
        BY <2>2, <2>3 DEF Sums
  <2>5. s \ {x} \notin Bad
        BY <2>1, <2>3 DEF StrictSubsetOrdering
  <2> QED BY <2>4, <2>5
<1> QED BY <1>2 DEF Sums

\* The segments of a set but the last one, counted.
LEMMA FullSegmentsFinite ==
    ASSUME NEW count \in Nat \ {0}, NEW s \in SUBSET (1..count)
    PROVE  IsFiniteSet(s) /\ IsFiniteSet(s \ {count}) /\ Cardinality(s \ {count}) \in Nat
PROOF
<1>1. IsFiniteSet(1..count)
      BY FS_Interval
<1>2. IsFiniteSet(s)
      BY <1>1, FS_Subset
<1>3. IsFiniteSet(s \ {count})
      BY <1>2, FS_RemoveElement
<1>4. Cardinality(s \ {count}) \in Nat
      BY <1>3, FS_CardinalityType
<1> QED BY <1>2, <1>3, <1>4

\* All segments but the last are full.
LEMMA TotalOfFull ==
    ASSUME NEW count \in Nat \ {0}, NEW n \in Nat, NEW last \in Nat,
           NEW rows, Len(rows) = count,
           \A i \in 1..count : rows[i].bytes = IF i = count THEN last ELSE n
    PROVE  Total(rows) = last + n * (count - 1)
PROOF
<1> DEFINE full(s) == Cardinality(s \ {count})
           sum == [s \in SUBSET (1..count) |-> n * full(s) + IF count \in s THEN last ELSE 0]
<1>1. \A s \in SUBSET (1..count) : sum[s] = n * full(s) + IF count \in s THEN last ELSE 0
      OBVIOUS
<1>2. \A s \in SUBSET (1..count) : IsFiniteSet(s \ {count}) /\ full(s) \in Nat
      BY FullSegmentsFinite
<1>3. Sums(sum, 1..count, rows)
  <2> SUFFICES ASSUME NEW s \in SUBSET (1..count)
               PROVE  sum[s] = IF s = {} THEN 0
                               ELSE LET x == CHOOSE x \in s : TRUE IN rows[x].bytes + sum[s \ {x}]
        BY DEF Sums
  <2>1. CASE s = {}
    <3>1. full(s) = 0
          BY <2>1, FS_EmptySet
    <3> QED BY <2>1, <3>1
  <2>2. CASE s # {}
    <3>1. PICK x \in s : x = CHOOSE y \in s : TRUE
          BY <2>2
    <3> SUFFICES sum[s] = rows[x].bytes + sum[s \ {x}]
          BY <2>2, <3>1
    <3>2. x \in 1..count /\ s \ {x} \in SUBSET (1..count)
          OBVIOUS
    <3>3. full(s) \in Nat /\ full(s \ {x}) \in Nat
          BY <1>2, <3>2
    <3>4. /\ sum[s] = n * full(s) + IF count \in s THEN last ELSE 0
          /\ sum[s \ {x}] = n * full(s \ {x}) + IF count \in s \ {x} THEN last ELSE 0
          BY <1>1, <3>2
    <3> HIDE DEF sum
    <3>5. \A k \in Nat : n * k \in Nat /\ n * (k + 1) = n + n * k
          OBVIOUS
    <3>6. CASE x = count
      <4>1. (s \ {x}) \ {count} = s \ {count}
            BY <3>6
      <4>2. full(s \ {x}) = full(s)
            BY <4>1
      <4>3. rows[x].bytes = last
            BY <3>2, <3>6
      <4> HIDE DEF full
      <4>4. n * full(s) \in Nat
            BY <3>3, <3>5
      <4>5. sum[s] = n * full(s) + last /\ sum[s \ {x}] = n * full(s)
            BY <3>6, <3>4, <4>2, <4>4
      <4> QED BY <4>3, <4>4, <4>5
    <3>7. CASE x # count
      <4>1. (s \ {x}) \ {count} = (s \ {count}) \ {x} /\ x \in s \ {count}
            BY <3>7
      <4>2. Cardinality((s \ {count}) \ {x}) = Cardinality(s \ {count}) - 1
        <5>1. IsFiniteSet(s \ {count})
              BY <1>2
        <5> QED BY <5>1, <4>1, FS_RemoveElement
      <4>3. full(s \ {x}) = full(s) - 1
            BY <4>1, <4>2
      <4>4. rows[x].bytes = n
            BY <3>2, <3>7
      <4> HIDE DEF full
      <4>5. full(s) = full(s \ {x}) + 1
            BY <4>3, <3>3
      <4>6. n * full(s) = n + n * full(s \ {x}) /\ n * full(s \ {x}) \in Nat
            BY <4>5, <3>3, <3>5
      <4>7. count \in s <=> count \in s \ {x}
            BY <3>7
      <4> QED BY <3>4, <4>4, <4>6, <4>7
    <3> QED BY <3>6, <3>7
  <2> QED BY <2>1, <2>2
<1>4. full(1..count) = count - 1
  <2>1. IsFiniteSet(1..count) /\ Cardinality(1..count) = count
        BY FS_Interval
  <2>2. count \in 1..count
        OBVIOUS
  <2> QED BY <2>1, <2>2, FS_RemoveElement
<1>5. sum[1..count] = n * (count - 1) + last
      BY <1>1, <1>4
<1>6. (CHOOSE f : Sums(f, 1..count, rows))[1..count] = sum[1..count]
  <2> HIDE DEF sum
  <2>1. Sums(CHOOSE f : Sums(f, 1..count, rows), 1..count, rows)
        BY <1>3
  <2>2. IsFiniteSet(1..count)
        BY FS_Interval
  <2> QED BY <1>3, <2>1, <2>2, SumUnique
<1>7. Total(rows) = sum[1..count]
      BY <1>6 DEF Total
<1>8. n * (count - 1) \in Nat
      OBVIOUS
<1> HIDE DEF sum
<1> QED BY <1>5, <1>7, <1>8

\* How many pieces of n a length comes to: the last one is not empty.
LEMMA CeilDivBounds ==
    ASSUME NEW length \in Nat \ {0}, NEW n \in Nat \ {0},
           NEW count, count = CeilDiv(length, n)
    PROVE  /\ count \in Nat \ {0}
           /\ n * (count - 1) < length /\ length <= n * count
PROOF
<1>1. count \in Nat
      BY CeilDivType
<1>2. n * count <= length + n - 1 /\ length + n - 1 < n * count + n
      BY <1>1 DEF CeilDiv
<1>3. n * (count - 1) = n * count - n
      BY <1>1
<1>4. count # 0
      BY <1>1, <1>2
<1>5. n * count \in Nat
      BY <1>1
<1> QED BY <1>1, <1>2, <1>3, <1>4, <1>5

\* The lengths of the segments a source is cut into.
LEMMA SegmentLengths ==
    ASSUME NEW source \in Seq(Octets), NEW n \in Nat \ {0}, source # <<>>,
           NEW count, count = CeilDiv(Len(source), n), NEW i \in 1..count
    PROVE  /\ Len(source) - n * (count - 1) \in Nat
           /\ Len(SegmentAt(source, n, i)) = IF i = count THEN Len(source) - n * (count - 1) ELSE n
PROOF
<1> DEFINE length == Len(source)
           first == (i - 1) * n + 1
           last == IF i * n < length THEN i * n ELSE length
<1>1. length \in Nat \ {0}
      BY LenProperties, EmptySeq
<1>2. count \in Nat \ {0} /\ n * (count - 1) < length /\ length <= n * count
      BY <1>1, CeilDivBounds
<1>3. n * (count - 1) \in Nat /\ n * i \in Nat /\ n * (i - 1) \in Nat
      BY <1>2
<1>4. i * n = n * i /\ (i - 1) * n = n * (i - 1) /\ n * i = n * (i - 1) + n
      BY <1>2
<1>5. \A k \in 1..Len(source) : source[k] \in Octets
      BY ElementOfSeq
<1>6. i # count => n * i <= n * (count - 1)
      BY <1>2
<1>7. first \in Int /\ last \in Int /\ first >= 1 /\ last <= length /\ first <= last
      BY <1>1, <1>2, <1>3, <1>4, <1>6
<1>8. last = IF i = count THEN length ELSE n * i
      BY <1>1, <1>2, <1>3, <1>4, <1>6
<1>9. \A k \in first..last : source[k] \in Octets
      BY <1>1, <1>5, <1>7
<1>10. first = n * (i - 1) + 1
      BY <1>4
<1> HIDE DEF first, last
<1>11. Len(SubSeq(source, first, last)) = last - first + 1
      BY <1>7, <1>9, SubSeqProperties
<1>12. SegmentAt(source, n, i) = SubSeq(source, first, last)
      BY DEF SegmentAt, first, last
<1> HIDE DEF length
<1>13. length - n * (count - 1) \in Nat
      BY <1>1, <1>2, <1>3
<1>14. CASE i = count
      <2>1. last = length /\ first = n * (count - 1) + 1
            BY <1>8, <1>10, <1>14
      <2>2. \A a, b \in Nat : a - (b + 1) + 1 = a - b
            OBVIOUS
      <2>3. last - first + 1 = length - n * (count - 1)
            BY <1>1, <1>3, <2>1, <2>2
      <2> QED BY <1>11, <1>12, <1>13, <1>14, <2>3 DEF length
<1>15. CASE i # count
      <2>1. last - first + 1 = n
            BY <1>3, <1>4, <1>8, <1>10, <1>15
      <2> QED BY <1>11, <1>12, <1>13, <1>15, <2>1 DEF length
<1> QED BY <1>14, <1>15

\* Each segment carries the bytes of its place, and each byte has one place.
LEMMA SegmentCarries ==
    ASSUME NEW source \in Seq(Octets), NEW n \in Nat \ {0}, source # <<>>,
           NEW i \in 1..CeilDiv(Len(source), n), NEW segment, segment = SegmentAt(source, n, i)
    PROVE  /\ (i - 1) * n + Len(segment) <= Len(source)
           /\ \A p \in 1..Len(source) :
                 /\ p - (i - 1) * n \in 1..Len(segment) <=> i = CeilDiv(p, n)
                 /\ i = CeilDiv(p, n) => segment[p - (i - 1) * n] = source[p]
PROOF
<1> DEFINE length == Len(source)
           count == CeilDiv(length, n)
           start == (i - 1) * n
<1>1. length \in Nat \ {0}
      BY LenProperties, EmptySeq
<1>2. count \in Nat \ {0} /\ n * (count - 1) < length /\ length <= n * count
      BY <1>1, CeilDivBounds
<1>3. start = n * (i - 1) /\ start \in Nat /\ n * (count - 1) \in Nat
      BY <1>2
<1>4. /\ length - n * (count - 1) \in Nat
      /\ Len(segment) = IF i = count THEN length - n * (count - 1) ELSE n
      BY SegmentLengths
<1>5. i # count => start + n <= n * (count - 1)
      BY <1>2, <1>3
<1>6. segment = SubSeq(source, start + 1, start + Len(segment))
      <2>1. i * n = start + n
            BY <1>2
      <2>2. CASE i = count
            <3>1. start = n * (count - 1)
                  BY <1>3, <2>2
            <3>2. Len(segment) = length - start
                  BY <1>4, <2>2, <3>1
            <3>3. ~(i * n < length)
                  BY <1>1, <1>2, <1>3, <2>1, <2>2
            <3>4. start + Len(segment) = length
                  BY <1>1, <1>3, <3>2
            <3> QED BY <3>3, <3>4 DEF SegmentAt
      <2>3. CASE i # count
            <3>1. Len(segment) = n
                  BY <1>4, <2>3
            <3>2. i * n < length
                  BY <1>1, <1>2, <1>3, <1>5, <2>1, <2>3
            <3> QED BY <2>1, <3>1, <3>2 DEF SegmentAt
      <2> QED BY <2>2, <2>3
<1>7. Len(segment) \in Nat /\ start + Len(segment) <= length
      <2>1. CASE i = count
            BY <1>1, <1>3, <1>4, <2>1
      <2>2. CASE i # count
            BY <1>1, <1>2, <1>3, <1>4, <1>5, <2>2
      <2> QED BY <2>1, <2>2
<1>8. \A k \in 1..Len(segment) : segment[k] = source[start + k]
      <2>1. \A k \in start + 1..start + Len(segment) : source[k] \in Octets
            BY <1>1, <1>3, <1>7, ElementOfSeq
      <2> HIDE DEF start
      <2>2. \A k \in 1..(start + Len(segment)) - (start + 1) + 1 :
                SubSeq(source, start + 1, start + Len(segment))[k] = source[start + 1 + k - 1]
            BY <1>3, <1>7, <2>1, SubSeqProperties
      <2> QED BY <1>3, <1>6, <1>7, <2>2
<1>9. i = count => start + Len(segment) = length
      <2> SUFFICES ASSUME i = count PROVE start + Len(segment) = length
          OBVIOUS
      <2>1. start = n * (count - 1)
            BY <1>3
      <2>2. Len(segment) = length - start
            BY <1>4, <2>1
      <2> HIDE DEF length, start
      <2> QED BY <1>1, <1>3, <2>2
<1>10. ASSUME NEW p \in 1..length
      PROVE  /\ p - start \in 1..Len(segment) <=> i = CeilDiv(p, n)
             /\ i = CeilDiv(p, n) => segment[p - start] = source[p]
      <2> DEFINE q == CeilDiv(p, n)
      <2>0. p \in Nat \ {0}
            BY <1>1
      <2>1. q \in Nat \ {0} /\ n * (q - 1) < p /\ p <= n * q
            BY <2>0, CeilDivBounds
      <2>2. n * (q - 1) \in Nat /\ n * q \in Nat /\ n * q = n * (q - 1) + n
            BY <2>1
      <2>3. i < q => start + n <= n * (q - 1)
            BY <1>2, <1>3, <2>1
      <2>4. q < i => n * q <= start
            BY <1>2, <1>3, <2>1
      <2>5. i = q => start = n * (q - 1)
            BY <1>3
      <2> HIDE DEF q, start
      <2>6. Len(segment) <= n
            BY <1>1, <1>2, <1>4
      <2>7. ASSUME p - start \in 1..Len(segment) PROVE i = q
            BY <1>2, <1>3, <1>7, <2>1, <2>2, <2>3, <2>4, <2>6, <2>7
      <2>8. ASSUME i = q PROVE p - start \in 1..Len(segment)
            <3>1. start < p /\ p <= start + n
                  BY <2>1, <2>2, <2>5, <2>8
            <3>2. i = count => start + Len(segment) = length
                  BY <1>9
            <3>3. i # count => Len(segment) = n
                  BY <1>4
            <3> QED BY <1>1, <1>3, <1>7, <3>1, <3>2, <3>3
      <2>9. i = q => segment[p - start] = source[start + (p - start)]
            BY <1>8, <2>8
      <2>10. start + (p - start) = p
            BY <1>3
      <2> QED BY <2>7, <2>8, <2>9, <2>10 DEF q
<1> QED BY <1>7, <1>10

\* What materializeJob stores, parseAndVerifyManifest accepts.
LEMMA ManifestOfSourceAccepted ==
    ASSUME NEW source \in Seq(Octets), source # <<>>
    PROVE  ManifestAccepted(Manifest(source, SegmentBytes))
PROOF
<1> DEFINE m == Manifest(source, SegmentBytes)
           count == CeilDiv(Len(source), SegmentBytes)
           last == Len(source) - SegmentBytes * (count - 1)
<1>1. Len(source) \in Nat \ {0}
      BY LenProperties, EmptySeq
<1>2. count \in Nat \ {0}
      BY <1>1, CeilDivBounds, SegmentBytesType
<1>3. /\ m.segments = Segments(source, SegmentBytes) /\ m.totalBytes = Len(source)
      /\ m.segmentBytes = SegmentBytes
      BY DEF Manifest
<1>4. \A i \in 1..count :
          last \in Nat /\ m.segments[i].bytes = IF i = count THEN last ELSE SegmentBytes
      BY <1>3, SegmentLengths, SegmentBytesType DEF Segments
<1>5. Len(m.segments) = count
      BY <1>2, <1>3, SegmentsType, SegmentBytesType, LenProperties DEF Segments
<1>6. last \in Nat
      BY <1>2, <1>4
<1>7. SegmentBytes \in Nat /\ SegmentBytes * (count - 1) \in Nat
      BY <1>2, SegmentBytesType
<1>8. last + SegmentBytes * (count - 1) = Len(source)
      BY <1>1, <1>7
<1>9. count = CeilDiv(m.totalBytes, m.segmentBytes)
      BY <1>3
<1> HIDE DEF m, count, last
<1>10. Total(m.segments) = last + SegmentBytes * (count - 1)
      BY <1>2, <1>4, <1>5, <1>6, <1>7, TotalOfFull
<1>11. m.segments[count].bytes = last
      BY <1>2, <1>4
<1>12. \A i \in 1..(count - 1) : m.segments[i].bytes = SegmentBytes
      BY <1>2, <1>4
<1>13. SegmentBytes \in MinSegmentBytes..MaxSegmentBytes
      BY NumbersAssumption
<1>14. m.totalBytes > 0 /\ count > 0
      BY <1>1, <1>2, <1>3
<1>15. \A i \in 1..(count - 1) : m.segments[i].bytes = m.segmentBytes
      BY <1>3, <1>12
<1>16. /\ m.segments[count].bytes + m.segmentBytes * (count - 1) = m.totalBytes
       /\ Total(m.segments) = m.totalBytes
      BY <1>3, <1>8, <1>10, <1>11
<1>17. ManifestAccepted(m)
      BY <1>3, <1>5, <1>9, <1>13, <1>14, <1>15, <1>16, AcceptedByTotal
<1> QED BY <1>17 DEF m

\* The segments, one after the other, are the source.
InOrder(segments, source) ==
    /\ \A i \in DOMAIN segments :
           /\ Len(Content(segments[i].sha256)) = segments[i].bytes
           /\ (i - 1) * SegmentBytes + segments[i].bytes <= Len(source)
    /\ \A p \in 1..Len(source) :
           \E i \in DOMAIN segments :
               /\ {j \in DOMAIN segments : p - (j - 1) * SegmentBytes \in 1..segments[j].bytes} = {i}
               /\ Content(segments[i].sha256)[p - (i - 1) * SegmentBytes] = source[p]

\* Put together in their order, the segments of a rendition are the bytes the client
\* declared, for every source and segment size: none is missing, doubled or misplaced.
THEOREM SegmentsCarry == Spec => []SegmentsCarrySource
PROOF
<1>1. ASSUME TypeInv, LifecycleAgreement, RenditionMatchesDeclaredSource
      PROVE  SegmentsCarrySource
      <2> SUFFICES ASSUME NEW v \in Videos, rendition[v].state # "absent"
                   PROVE  InOrder(rendition[v].segments, Content(upload[v].intent.expectedSha256))
          BY Zenon DEF SegmentsCarrySource, InOrder
      <2>0. PICK source, segments :
                /\ source = Content(upload[v].intent.expectedSha256)
                /\ segments = rendition[v].segments
            OBVIOUS
      <2> SUFFICES InOrder(segments, source)
          BY <2>0
      <2> DEFINE count == CeilDiv(Len(source), SegmentBytes)
      <2>1. upload[v].state = "finalized"
            BY <1>1 DEF LifecycleAgreement, RowsAgree, TypeInv, RowsTyped
      <2>2. Len(source) = upload[v].intent.expectedBytes /\ segments = Segments(source, SegmentBytes)
            BY <1>1, <2>0 DEF RenditionMatchesDeclaredSource
      <2>3. upload[v].intent \in [expectedBytes : Nat \ {0}, expectedSha256 : ByteDigests]
            BY <1>1, <2>1, RequestsAssumption DEF TypeInv, TypeOK, RowsTyped, UploadRows
      <2>4. source \in Seq(Octets) /\ upload[v].intent.expectedBytes # 0
            BY <2>0, <2>3 DEF ByteDigests, Content
      <2>5. source # <<>> /\ Len(source) \in Nat \ {0}
            BY <2>2, <2>4, EmptySeq
      <2>6. count \in Nat \ {0} /\ Len(source) <= SegmentBytes * count
            BY <2>5, CeilDivBounds, SegmentBytesType
      <2>7. DOMAIN segments = 1..count
            BY <2>2 DEF Segments
      <2>8. ASSUME NEW i \in 1..count
            PROVE  /\ Content(segments[i].sha256) = SegmentAt(source, SegmentBytes, i)
                   /\ segments[i].bytes = Len(SegmentAt(source, SegmentBytes, i))
            BY <2>2 DEF Segments, Content, Sha256Bytes
      <2>9. ASSUME NEW i \in 1..count
            PROVE  /\ (i - 1) * SegmentBytes + segments[i].bytes <= Len(source)
                   /\ \A p \in 1..Len(source) :
                         /\ p - (i - 1) * SegmentBytes \in 1..segments[i].bytes
                               <=> i = CeilDiv(p, SegmentBytes)
                         /\ i = CeilDiv(p, SegmentBytes) =>
                               Content(segments[i].sha256)[p - (i - 1) * SegmentBytes] = source[p]
            <3>1. PICK segment : segment = SegmentAt(source, SegmentBytes, i)
                  OBVIOUS
            <3>2. Content(segments[i].sha256) = segment /\ segments[i].bytes = Len(segment)
                  BY <2>8, <3>1
            <3> HIDE DEF count
            <3>3. i \in 1..CeilDiv(Len(source), SegmentBytes)
                  BY DEF count
            <3>4. /\ (i - 1) * SegmentBytes + Len(segment) <= Len(source)
                  /\ \A p \in 1..Len(source) :
                        /\ p - (i - 1) * SegmentBytes \in 1..Len(segment)
                              <=> i = CeilDiv(p, SegmentBytes)
                        /\ i = CeilDiv(p, SegmentBytes) =>
                              segment[p - (i - 1) * SegmentBytes] = source[p]
                  BY <2>4, <2>5, <3>1, <3>3, SegmentCarries, SegmentBytesType
            <3> QED BY <3>2, <3>4
      <2>10. ASSUME NEW p \in 1..Len(source)
             PROVE  CeilDiv(p, SegmentBytes) \in 1..count
            <3> DEFINE q == CeilDiv(p, SegmentBytes)
            <3>1. p \in Nat \ {0}
                  BY <2>5
            <3>2. q \in Nat \ {0} /\ SegmentBytes * (q - 1) < p
                  BY <3>1, CeilDivBounds, SegmentBytesType
            <3> HIDE DEF q, count
            <3>3. ASSUME q > count PROVE SegmentBytes * count <= SegmentBytes * (q - 1)
                  BY <2>6, <3>2, <3>3, SegmentBytesType
            <3>4. SegmentBytes * count \in Nat /\ SegmentBytes * (q - 1) \in Nat
                  BY <2>6, <3>2, SegmentBytesType
            <3>5. q <= count
                  BY <2>5, <2>6, <3>2, <3>3, <3>4
            <3> QED BY <2>6, <3>2, <3>5 DEF q
      <2> HIDE DEF count
      <2>11. ASSUME NEW p \in 1..Len(source)
             PROVE  {j \in 1..count : p - (j - 1) * SegmentBytes \in 1..segments[j].bytes}
                        = {CeilDiv(p, SegmentBytes)}
             BY <2>9, <2>10
      <2>12. ASSUME NEW i \in DOMAIN segments
             PROVE  /\ Len(Content(segments[i].sha256)) = segments[i].bytes
                    /\ (i - 1) * SegmentBytes + segments[i].bytes <= Len(source)
             BY <2>7, <2>8, <2>9
      <2>13. ASSUME NEW p \in 1..Len(source)
             PROVE  \E i \in DOMAIN segments :
                        /\ {j \in DOMAIN segments : p - (j - 1) * SegmentBytes \in 1..segments[j].bytes} = {i}
                        /\ Content(segments[i].sha256)[p - (i - 1) * SegmentBytes] = source[p]
            <3> DEFINE q == CeilDiv(p, SegmentBytes)
            <3>1. q \in DOMAIN segments
                  BY <2>7, <2>10
            <3>2. Content(segments[q].sha256)[p - (q - 1) * SegmentBytes] = source[p]
                  BY <2>9, <2>10
            <3>3. {j \in DOMAIN segments : p - (j - 1) * SegmentBytes \in 1..segments[j].bytes} = {q}
                  BY <2>7, <2>11
            <3> HIDE DEF q
            <3> WITNESS q \in DOMAIN segments
            <3> QED BY <3>2, <3>3
      <2> QED BY <2>12, <2>13 DEF InOrder
<1> QED BY <1>1, TypeInvariant, LifecycleAgrees, RenditionsMatch, PTL

\* A ready video whose manifest is intact passes every test of publishVideo, and so
\* does each of its segments that is intact: its integrity errors report damage only.
THEOREM IntactPublishable == Spec => []IntactRenditionsPublishable
PROOF
<1>1. ASSUME TypeInv, LifecycleAgreement, RenditionMatchesDeclaredSource
      PROVE  IntactRenditionsPublishable
      <2> SUFFICES ASSUME NEW v \in Videos, video[v].state = "ready",
                          rendition[v].manifest \in objects
                   PROVE  /\ Publishable(v)
                          /\ \A i \in DOMAIN rendition[v].segments :
                                rendition[v].segments[i].sha256 \in objects
                                    => Verifies(rendition[v].segments[i])
          BY DEF IntactRenditionsPublishable
      <2> DEFINE source == Content(upload[v].intent.expectedSha256)
      <2>1. rendition[v].state = "ready" /\ upload[v].state = "finalized"
            BY <1>1 DEF LifecycleAgreement, RowsAgree, TypeInv, RowsTyped
      <2>2. /\ Len(source) = upload[v].intent.expectedBytes
            /\ rendition[v].manifest = Sha256Manifest(Manifest(source, SegmentBytes))
            /\ rendition[v].segments = Segments(source, SegmentBytes)
            BY <1>1, <2>1 DEF RenditionMatchesDeclaredSource
      <2>3. upload[v].intent \in [expectedBytes : Nat \ {0}, expectedSha256 : ByteDigests]
            BY <1>1, <2>1, RequestsAssumption DEF TypeInv, TypeOK, RowsTyped, UploadRows
      <2>4. source \in Seq(Octets) /\ upload[v].intent.expectedBytes # 0
            BY <2>3 DEF ByteDigests, Content
      <2>5. source # <<>>
            BY <2>2, <2>4, EmptySeq
      <2> HIDE DEF source
      <2>6. ManifestAccepted(Manifest(source, SegmentBytes))
            BY <2>4, <2>5, ManifestOfSourceAccepted
      <2>7. Content(rendition[v].manifest) = Manifest(source, SegmentBytes)
            BY <2>2 DEF Sha256Manifest, Content
      <2>8. Manifest(source, SegmentBytes).segments = rendition[v].segments
            BY <2>2 DEF Manifest
      <2>9. Publishable(v)
            BY <2>1, <2>6, <2>7, <2>8 DEF Publishable
      <2>10. ASSUME NEW i \in DOMAIN rendition[v].segments
             PROVE  Len(Content(rendition[v].segments[i].sha256)) = rendition[v].segments[i].bytes
             BY <2>2 DEF Segments, Content, Sha256Bytes
      <2> QED BY <2>9, <2>10 DEF Verifies
<1> QED BY <1>1, TypeInvariant, LifecycleAgrees, RenditionsMatch, PTL
====
