---- MODULE LifecycleProofs ----
(***************************************************************************)
(* The video origin implements its abstract specification: the four tables *)
(* show a VideoLifecycle, for every value of the constants.  The abstract  *)
(* steps Finish and Publish are commits whose guards were evaluated when   *)
(* the rows were locked; HeldRows carries what they told to the commit.    *)
(***************************************************************************)
EXTENDS VideoRepositoryProofs

----------------------------------------------------------------------------
(* Each transaction writes the rows of one video.                          *)

\* What the lifecycle sees of a video becomes s, i, w, o, d; no other video changes.
Becomes(v, s, i, w, o, d) ==
    /\ video'[v].state = s /\ upload'[v].state = i /\ job'[v].state = w
    /\ rendition'[v].state = o /\ video'[v].tombstoneVersion = d
    /\ \A u \in Videos \ {v} :
          /\ video'[u] = video[u] /\ upload'[u] = upload[u] /\ job'[u] = job[u]
          /\ rendition'[u] = rendition[u]

LEMMA OpenMaps ==
    ASSUME TypeInv, LifecycleAgreement, NEW v \in Videos,
           NEW key \in IdempotencyKeys, NEW intent \in Intents, OpenUpload(v, key, intent)
    PROVE  Lifecycle!Open(v)
<1>1. video[v].state = "absent"
  BY DEF OpenUpload
<1>2. Becomes(v, "uploading", "uploading", job[v].state, rendition[v].state, video[v].tombstoneVersion)
  <2>1. /\ video'[v] = [video[v] EXCEPT !.state = "uploading"] /\ upload'[v].state = "uploading"
        /\ job' = job /\ rendition' = rendition
        /\ \A u \in Videos \ {v} : video'[u] = video[u] /\ upload'[u] = upload[u]
    BY DEF OpenUpload, NewUpload, TypeInv, TypeOK
  <2>2. video[v] \in VideoRows
    BY DEF TypeInv, TypeOK
  <2> QED
    BY <2>1, <2>2 DEF Becomes, VideoRows
<1>3. /\ [u \in Videos |-> video'[u].state]
             = [[u \in Videos |-> video[u].state] EXCEPT ![v] = "uploading"]
      /\ [u \in Videos |-> upload'[u].state]
             = [[u \in Videos |-> upload[u].state] EXCEPT ![v] = "uploading"]
      /\ [u \in Videos |-> job'[u].state] = [u \in Videos |-> job[u].state]
      /\ [u \in Videos |-> rendition'[u].state] = [u \in Videos |-> rendition[u].state]
      /\ [u \in Videos |-> video'[u].tombstoneVersion] = [u \in Videos |-> video[u].tombstoneVersion]
  BY <1>2 DEF Becomes
<1> QED
  BY <1>1, <1>3 DEF Lifecycle!Open

LEMMA SealMaps ==
    ASSUME TypeInv, LifecycleAgreement, NEW v \in Videos, FinalizeUpload(v)
    PROVE  Lifecycle!Seal(v)
<1>1. upload[v].state = "uploading" /\ job[v].state = "absent"
  BY DEF FinalizeUpload, SourceVerified, LifecycleAgreement, RowsAgree
<1>2. Becomes(v, "queued", "finalized", "queued", rendition[v].state, video[v].tombstoneVersion)
  <2>1. /\ video'[v] = [video[v] EXCEPT !.state = "queued"]
        /\ upload'[v] = [upload[v] EXCEPT !.state = "finalized", !.source = SourceDigest(v)]
        /\ job'[v] = [job[v] EXCEPT !.state = "queued", !.source = SourceDigest(v)]
        /\ rendition' = rendition
        /\ \A u \in Videos \ {v} : video'[u] = video[u] /\ upload'[u] = upload[u] /\ job'[u] = job[u]
    BY DEF FinalizeUpload, TypeInv, TypeOK
  <2>2. video[v] \in VideoRows /\ upload[v] \in UploadRows /\ job[v] \in JobRows
    BY DEF TypeInv, TypeOK
  <2> QED
    BY <2>1, <2>2 DEF Becomes, VideoRows, UploadRows, JobRows
<1>3. /\ [u \in Videos |-> video'[u].state]
             = [[u \in Videos |-> video[u].state] EXCEPT ![v] = "queued"]
      /\ [u \in Videos |-> upload'[u].state]
             = [[u \in Videos |-> upload[u].state] EXCEPT ![v] = "finalized"]
      /\ [u \in Videos |-> job'[u].state]
             = [[u \in Videos |-> job[u].state] EXCEPT ![v] = "queued"]
      /\ [u \in Videos |-> rendition'[u].state] = [u \in Videos |-> rendition[u].state]
      /\ [u \in Videos |-> video'[u].tombstoneVersion] = [u \in Videos |-> video[u].tombstoneVersion]
  BY <1>2 DEF Becomes
<1> QED
  BY <1>1, <1>3 DEF Lifecycle!Seal

\* A claimable job is the job of a queued or processing video.
LEMMA TakeMaps ==
    ASSUME TypeInv, LifecycleAgreement, NEW w \in Workers, NEW v \in Videos, ClaimJob(w, v)
    PROVE  Lifecycle!Take(v)
<1>1. video[v].state \in {"queued", "processing"} /\ job[v].state = video[v].state
  <2>1. video[v].state \in VideoStates /\ RowsAgree(v) /\ Claimable(v, worker[w].at)
    BY DEF ClaimJob, TypeInv, TypeOK, VideoRows, LifecycleAgreement
  <2> QED
    BY <2>1 DEF Claimable, RowsAgree, VideoStates
<1>2. Becomes(v, "processing", upload[v].state, "processing", rendition[v].state,
              video[v].tombstoneVersion)
  <2>1. /\ video'[v] = [video[v] EXCEPT !.state = "processing"]
        /\ job'[v] = Leased(job[v], worker[w].token, worker[w].at)
        /\ upload' = upload /\ rendition' = rendition
        /\ \A u \in Videos \ {v} : video'[u] = video[u] /\ job'[u] = job[u]
    BY <1>1 DEF ClaimJob, TypeInv, TypeOK
  <2>2. video[v] \in VideoRows /\ job[v] \in JobRows
    BY DEF TypeInv, TypeOK
  <2>3. job'[v].state = "processing"
    BY <2>1, <2>2 DEF Leased, JobRows
  <2> QED
    BY <2>1, <2>2, <2>3 DEF Becomes, VideoRows
<1>3. /\ [u \in Videos |-> video'[u].state]
             = [[u \in Videos |-> video[u].state] EXCEPT ![v] = "processing"]
      /\ [u \in Videos |-> upload'[u].state] = [u \in Videos |-> upload[u].state]
      /\ [u \in Videos |-> job'[u].state]
             = [[u \in Videos |-> job[u].state] EXCEPT ![v] = "processing"]
      /\ [u \in Videos |-> rendition'[u].state] = [u \in Videos |-> rendition[u].state]
      /\ [u \in Videos |-> video'[u].tombstoneVersion] = [u \in Videos |-> video[u].tombstoneVersion]
  BY <1>2 DEF Becomes
<1> QED
  BY <1>1, <1>3 DEF Lifecycle!Take

LEMMA FinishMaps ==
    ASSUME TypeInv, AgreeInv, NEW w \in Workers, CommitReady(w)
    PROVE  \E v \in Videos : Lifecycle!Finish(v)
<1>1. PICK v \in Videos : v = worker[w].video
  BY RunVideo DEF CommitReady
<1>2. video[v].state = "processing" /\ job[v].state = "processing" /\ rendition[v].state = "absent"
  <2>1. /\ video[v].state \in VideoStates /\ RowsAgree(v)
        /\ job[v].state = "processing"
    BY <1>1 DEF CommitReady, AgreeInv, HeldRows, TypeInv, TypeOK, VideoRows, LifecycleAgreement
  <2> QED
    BY <2>1 DEF RowsAgree, VideoStates
<1>3. Becomes(v, "ready", upload[v].state, "completed", "ready", video[v].tombstoneVersion)
  <2>1. /\ video'[v] = [video[v] EXCEPT !.state = "ready", !.active = NULL]
        /\ job'[v] = Completed(job[v], worker[w].token) /\ rendition'[v].state = "ready"
        /\ upload' = upload
        /\ \A u \in Videos \ {v} :
              video'[u] = video[u] /\ job'[u] = job[u] /\ rendition'[u] = rendition[u]
    BY <1>1 DEF CommitReady, TypeInv, TypeOK
  <2>2. video[v] \in VideoRows /\ job[v] \in JobRows
    BY DEF TypeInv, TypeOK
  <2>3. job'[v].state = "completed"
    BY <2>1, <2>2 DEF Completed, JobRows
  <2> QED
    BY <2>1, <2>2, <2>3 DEF Becomes, VideoRows
<1>4. /\ [u \in Videos |-> video'[u].state]
             = [[u \in Videos |-> video[u].state] EXCEPT ![v] = "ready"]
      /\ [u \in Videos |-> upload'[u].state] = [u \in Videos |-> upload[u].state]
      /\ [u \in Videos |-> job'[u].state]
             = [[u \in Videos |-> job[u].state] EXCEPT ![v] = "completed"]
      /\ [u \in Videos |-> rendition'[u].state]
             = [[u \in Videos |-> rendition[u].state] EXCEPT ![v] = "ready"]
      /\ [u \in Videos |-> video'[u].tombstoneVersion] = [u \in Videos |-> video[u].tombstoneVersion]
  BY <1>3 DEF Becomes
<1> QED
  BY <1>2, <1>4 DEF Lifecycle!Finish

LEMMA PublishMaps ==
    ASSUME TypeInv, HeldRows, NEW v \in Videos, PublishVideo(v)
    PROVE  Lifecycle!Publish(v)
<1>1. video[v].state = "ready" /\ rendition[v].state = "ready"
  BY DEF PublishVideo, HeldRows
<1>2. Becomes(v, "published", upload[v].state, job[v].state, "published", video[v].tombstoneVersion)
  <2>1. /\ video'[v] = [video[v] EXCEPT !.state = "published", !.active = v]
        /\ rendition'[v] = [rendition[v] EXCEPT !.state = "published"]
        /\ upload' = upload /\ job' = job
        /\ \A u \in Videos \ {v} : video'[u] = video[u] /\ rendition'[u] = rendition[u]
    BY DEF PublishVideo, Pointer, TypeInv, TypeOK
  <2>2. video[v] \in VideoRows /\ rendition[v] \in RenditionRows
    BY DEF TypeInv, TypeOK
  <2> QED
    BY <2>1, <2>2 DEF Becomes, VideoRows, RenditionRows
<1>3. /\ [u \in Videos |-> video'[u].state]
             = [[u \in Videos |-> video[u].state] EXCEPT ![v] = "published"]
      /\ [u \in Videos |-> upload'[u].state] = [u \in Videos |-> upload[u].state]
      /\ [u \in Videos |-> job'[u].state] = [u \in Videos |-> job[u].state]
      /\ [u \in Videos |-> rendition'[u].state]
             = [[u \in Videos |-> rendition[u].state] EXCEPT ![v] = "published"]
      /\ [u \in Videos |-> video'[u].tombstoneVersion] = [u \in Videos |-> video[u].tombstoneVersion]
  BY <1>2 DEF Becomes
<1> QED
  BY <1>1, <1>3 DEF Lifecycle!Publish

LEMMA DeleteMaps ==
    ASSUME TypeInv, LifecycleAgreement, NEW v \in Videos, TombstoneVideo(v)
    PROVE  Lifecycle!Delete(v)
<1> DEFINE closed == IF job[v].state \in {"queued", "processing"} THEN "cancelled" ELSE job[v].state
<1>1. video[v].state \notin {"absent", "tombstoned"}
  BY DEF TombstoneVideo, Deletable
<1>2. Becomes(v, "tombstoned", upload[v].state, closed, rendition[v].state,
              video[v].tombstoneVersion + 1)
  <2>1. /\ video'[v] = [video[v] EXCEPT !.state = "tombstoned", !.active = NULL,
                                        !.tombstoneVersion = @ + 1]
        /\ job'[v] = Cancelled(job[v]) /\ upload' = upload /\ rendition' = rendition
        /\ \A u \in Videos \ {v} : video'[u] = video[u] /\ job'[u] = job[u]
    BY DEF TombstoneVideo, TypeInv, TypeOK
  <2>2. video[v] \in VideoRows /\ job[v] \in JobRows
    BY DEF TypeInv, TypeOK
  <2>3. job'[v].state = closed
    BY <2>1, <2>2 DEF Cancelled, JobRows
  <2>4. video'[v].state = "tombstoned" /\ video'[v].tombstoneVersion = video[v].tombstoneVersion + 1
    BY <2>1, <2>2 DEF VideoRows
  <2> HIDE DEF closed
  <2> QED
    BY <2>1, <2>3, <2>4 DEF Becomes
<1>3. /\ [u \in Videos |-> video'[u].state]
             = [[u \in Videos |-> video[u].state] EXCEPT ![v] = "tombstoned"]
      /\ [u \in Videos |-> upload'[u].state] = [u \in Videos |-> upload[u].state]
      /\ [u \in Videos |-> job'[u].state]
             = [[u \in Videos |-> job[u].state] EXCEPT ![v] = closed]
      /\ [u \in Videos |-> rendition'[u].state] = [u \in Videos |-> rendition[u].state]
      /\ [u \in Videos |-> video'[u].tombstoneVersion]
             = [[u \in Videos |-> video[u].tombstoneVersion] EXCEPT ![v] = video[v].tombstoneVersion + 1]
  BY <1>2 DEF Becomes
<1> QED
  BY <1>1, <1>3 DEF Lifecycle!Delete

LEMMA LifecycleStep ==
    TypeInv /\ AgreeInv /\ [Next]_vars => [Lifecycle!Next]_Lifecycle!lifecycle
<1> SUFFICES ASSUME TypeInv, AgreeInv, LifecycleAgreement, HeldRows, [Next]_vars
             PROVE  [Lifecycle!Next]_Lifecycle!lifecycle
  BY DEF AgreeInv
<1>1. ASSUME UNCHANGED tables PROVE UNCHANGED Lifecycle!lifecycle
  BY <1>1 DEF tables, Lifecycle!lifecycle
<1>2. ASSUME NEW v \in Videos,
             \/ Lifecycle!Open(v) \/ Lifecycle!Seal(v) \/ Lifecycle!Take(v)
             \/ Lifecycle!Finish(v) \/ Lifecycle!Publish(v) \/ Lifecycle!Delete(v)
      PROVE  [Lifecycle!Next]_Lifecycle!lifecycle
  BY <1>2 DEF Lifecycle!Next
<1>3. CASE UploadNext
  <2>1. ASSUME NEW h \in Handlers, NEW v \in Videos, NEW chunk \in ChunkRequests, AppendChunk(h, v, chunk)
        PROVE  UNCHANGED Lifecycle!lifecycle
    <3>1. UNCHANGED <<video, job, rendition>> /\ \A u \in Videos : upload'[u].state = upload[u].state
      BY <2>1 DEF AppendChunk, TypeInv, TypeOK, UploadRows
    <3> QED
      BY <3>1 DEF Lifecycle!lifecycle
  <2>2. ASSUME NEW h \in Handlers, NEW v \in Videos, NEW chunk \in ChunkRequests,
               PutChunk(h, v, chunk) \/ ReplayChunk(h, v, chunk)
        PROVE  UNCHANGED tables
    BY <2>2 DEF PutChunk, ReplayChunk
  <2>3. ASSUME NEW h \in Handlers, AbandonChunk(h) PROVE UNCHANGED tables
    BY <2>3 DEF AbandonChunk
  <2>4. ASSUME NEW v \in Videos, FinalizeRolledBack(v) PROVE UNCHANGED tables
    BY <2>4 DEF FinalizeRolledBack
  <2> QED
    BY <1>1, <1>2, <1>3, <2>1, <2>2, <2>3, <2>4, OpenMaps, SealMaps DEF UploadNext
<1>4. CASE WorkerNext
  <2>1. ASSUME NEW w \in Workers, NEW token \in Tokens, StartRun(w, token) PROVE UNCHANGED tables
    BY <2>1 DEF StartRun
  <2>2. ASSUME NEW w \in Workers,
               \/ SampleClock(w) \/ BeginMaterialize(w) \/ InstallObject(w) \/ LockReady(w)
               \/ VerifyArtifactObject(w) \/ RollBackReady(w) \/ StopRun(w)
        PROVE  UNCHANGED tables
    BY <2>2 DEF SampleClock, BeginMaterialize, InstallObject, LockReady, VerifyArtifactObject,
                RollBackReady, StopRun
  <2> QED
    BY <1>1, <1>2, <1>4, <2>1, <2>2, TakeMaps, FinishMaps DEF WorkerNext
<1>5. CASE PublicationNext
  <2>1. ASSUME NEW r \in Viewers, NEW v \in Videos, ObserveManifest(r, v) PROVE UNCHANGED tables
    BY <2>1 DEF ObserveManifest, Observe
  <2>2. ASSUME NEW r \in Viewers, NEW v \in Videos, NEW digest \in EverStored, ObserveSegment(r, v, digest)
        PROVE  UNCHANGED tables
    BY <2>2 DEF ObserveSegment, Observe
  <2>3. ASSUME NEW r \in Viewers, Respond(r) PROVE UNCHANGED tables
    BY <2>3 DEF Respond
  <2>4. ASSUME NEW v \in Videos, LockPublish(v) \/ VerifySegment(v) \/ RollBackPublish(v)
        PROVE  UNCHANGED tables
    BY <2>4 DEF LockPublish, VerifySegment, RollBackPublish
  <2> QED
    BY <1>1, <1>2, <1>5, <2>1, <2>2, <2>3, <2>4, PublishMaps, DeleteMaps DEF PublicationNext
<1>6. CASE EnvironmentNext \/ UNCHANGED vars
  BY <1>1, <1>6, EnvironmentFrame DEF vars
<1> QED
  BY <1>3, <1>4, <1>5, <1>6 DEF Next

\* Whatever handlers, workers and readers do, what the four tables show of a video
\* changes only as VideoLifecycle allows.
THEOREM TablesImplementLifecycle == Spec => ImplementsLifecycle
<1>1. Init => Lifecycle!Init
  BY DEF Init, Lifecycle!Init, AbsentVideo, AbsentUpload, AbsentJob, AbsentRendition
<1> QED
  BY <1>1, LifecycleStep, TypeInvariant, AgreeInvariant, PTL
  DEF Spec, Lifecycle!Spec, ImplementsLifecycle
====
