---- MODULE JobProofs ----
(***************************************************************************)
(* Theorems about jobs and what they produce: which steps may write a row, *)
(* that a token fences, what no step may do to a closed job or a           *)
(* tombstone, what a rendition describes and what publication makes        *)
(* visible.                                                                *)
(***************************************************************************)
EXTENDS VideoRepositoryProofs

----------------------------------------------------------------------------
(* Who writes a row.  Every action property below is a case split on these. *)

LEMMA JobWriters ==
    ASSUME TypeInv, [Next]_vars, NEW v \in Videos, job'[v] # job[v]
    PROVE  \/ FinalizeUpload(v)
           \/ \E w \in Workers : ClaimJob(w, v)
           \/ \E w \in Workers : worker[w].video = v /\ CommitReady(w)
           \/ TombstoneVideo(v)
PROOF
<1>1. ASSUME NEW u \in Videos, FinalizeUpload(u)
      PROVE  u = v
      BY <1>1 DEF FinalizeUpload, TypeInv, TypeOK
<1>2. ASSUME NEW w \in Workers, NEW u \in Videos, ClaimJob(w, u)
      PROVE  u = v
      BY <1>2 DEF ClaimJob, TypeInv, TypeOK
<1>3. ASSUME NEW w \in Workers, CommitReady(w)
      PROVE  worker[w].video = v
      BY <1>3 DEF CommitReady, TypeInv, TypeOK
<1>4. ASSUME NEW u \in Videos, TombstoneVideo(u)
      PROVE  u = v
      BY <1>4 DEF TombstoneVideo, TypeInv, TypeOK
<1>5. CASE UploadNext
      BY <1>1, <1>5 DEF UploadNext, OpenUpload, PutChunk, AppendChunk, ReplayChunk, AbandonChunk,
                        FinalizeRolledBack, tables
<1>6. CASE WorkerNext
      BY <1>2, <1>3, <1>6 DEF WorkerNext, StartRun, SampleClock, BeginMaterialize, InstallObject,
                              LockReady, VerifyArtifactObject, RollBackReady, StopRun, tables
<1>7. CASE PublicationNext
      BY <1>4, <1>7 DEF PublicationNext, LockPublish, VerifySegment, PublishVideo, RollBackPublish,
                        ObserveManifest, ObserveSegment, Observe, Respond, tables
<1>8. CASE EnvironmentNext \/ UNCHANGED vars
      BY <1>8, EnvironmentFrame DEF tables, vars
<1> QED BY <1>5, <1>6, <1>7, <1>8 DEF Next

LEMMA VideoWriters ==
    ASSUME TypeInv, [Next]_vars, NEW v \in Videos, video'[v] # video[v]
    PROVE  \/ \E key \in IdempotencyKeys, intent \in Intents : OpenUpload(v, key, intent)
           \/ FinalizeUpload(v)
           \/ \E w \in Workers : ClaimJob(w, v)
           \/ \E w \in Workers : worker[w].video = v /\ CommitReady(w)
           \/ PublishVideo(v)
           \/ TombstoneVideo(v)
PROOF
<1>1. ASSUME NEW u \in Videos, NEW key \in IdempotencyKeys, NEW intent \in Intents,
             OpenUpload(u, key, intent)
      PROVE  u = v
      BY <1>1 DEF OpenUpload, TypeInv, TypeOK
<1>2. ASSUME NEW u \in Videos, FinalizeUpload(u)
      PROVE  u = v
      BY <1>2 DEF FinalizeUpload, TypeInv, TypeOK
<1>3. ASSUME NEW w \in Workers, NEW u \in Videos, ClaimJob(w, u)
      PROVE  u = v
      BY <1>3 DEF ClaimJob, TypeInv, TypeOK
<1>4. ASSUME NEW w \in Workers, CommitReady(w)
      PROVE  worker[w].video = v
      BY <1>4 DEF CommitReady, TypeInv, TypeOK
<1>5. ASSUME NEW u \in Videos, PublishVideo(u)
      PROVE  u = v
      BY <1>5 DEF PublishVideo, TypeInv, TypeOK
<1>6. ASSUME NEW u \in Videos, TombstoneVideo(u)
      PROVE  u = v
      BY <1>6 DEF TombstoneVideo, TypeInv, TypeOK
<1>7. CASE UploadNext
      BY <1>1, <1>2, <1>7 DEF UploadNext, PutChunk, AppendChunk, ReplayChunk, AbandonChunk,
                              FinalizeRolledBack, tables
<1>8. CASE WorkerNext
      BY <1>3, <1>4, <1>8 DEF WorkerNext, StartRun, SampleClock, BeginMaterialize, InstallObject,
                              LockReady, VerifyArtifactObject, RollBackReady, StopRun, tables
<1>9. CASE PublicationNext
      BY <1>5, <1>6, <1>9 DEF PublicationNext, LockPublish, VerifySegment, RollBackPublish,
                              ObserveManifest, ObserveSegment, Observe, Respond, tables
<1>10. CASE EnvironmentNext \/ UNCHANGED vars
      BY <1>10, EnvironmentFrame DEF tables, vars
<1> QED BY <1>7, <1>8, <1>9, <1>10 DEF Next

LEMMA RenditionWriters ==
    ASSUME TypeInv, [Next]_vars, NEW v \in Videos, rendition'[v] # rendition[v]
    PROVE  \/ \E w \in Workers : worker[w].video = v /\ CommitReady(w)
           \/ PublishVideo(v)
PROOF
<1>1. ASSUME NEW w \in Workers, CommitReady(w)
      PROVE  worker[w].video = v
      BY <1>1 DEF CommitReady, TypeInv, TypeOK
<1>2. ASSUME NEW u \in Videos, PublishVideo(u)
      PROVE  u = v
      BY <1>2 DEF PublishVideo, TypeInv, TypeOK
<1>3. CASE UploadNext
      BY <1>3 DEF UploadNext, OpenUpload, PutChunk, AppendChunk, ReplayChunk, AbandonChunk,
                  FinalizeUpload, FinalizeRolledBack, tables
<1>4. CASE WorkerNext
      BY <1>1, <1>4 DEF WorkerNext, StartRun, ClaimJob, SampleClock, BeginMaterialize, InstallObject,
                        LockReady, VerifyArtifactObject, RollBackReady, StopRun, tables
<1>5. CASE PublicationNext
      BY <1>2, <1>5 DEF PublicationNext, LockPublish, VerifySegment, RollBackPublish, TombstoneVideo,
                        ObserveManifest, ObserveSegment, Observe, Respond, tables
<1>6. CASE EnvironmentNext \/ UNCHANGED vars
      BY <1>6, EnvironmentFrame DEF tables, vars
<1> QED BY <1>3, <1>4, <1>5, <1>6 DEF Next

----------------------------------------------------------------------------
(* What no step may do.                                                    *)

\* A completed or cancelled job, and the rendition it produced, are never written
\* again, whatever a late run or a late finalization tries.
THEOREM ClosedJobsStayClosed == Spec => ClosedJobsFinal
PROOF
<1>1. ASSUME TypeInv, AgreeInv, [Next]_vars,
             NEW v \in Videos, job[v].state \in {"completed", "cancelled"}
      PROVE  /\ job'[v] = job[v]
             /\ rendition'[v].manifest = rendition[v].manifest
             /\ rendition'[v].segments = rendition[v].segments
      <2>1. ~FinalizeUpload(v)
            BY <1>1 DEF FinalizeUpload, SourceVerified, AgreeInv, LifecycleAgreement, RowsAgree
      <2>2. \A w \in Workers : ~ClaimJob(w, v)
            BY <1>1 DEF ClaimJob, Claimable
      <2>3. ASSUME NEW w \in Workers, worker[w].video = v
            PROVE  ~CommitReady(w)
            BY <1>1, <2>3 DEF CommitReady, AgreeInv, HeldRows
      <2>4. TombstoneVideo(v) => job'[v] = job[v]
            BY <1>1 DEF TombstoneVideo, Cancelled, TypeInv, TypeOK
      <2>5. job'[v] = job[v]
            BY <1>1, <2>1, <2>2, <2>3, <2>4, JobWriters
      <2>6. PublishVideo(v) => /\ rendition'[v].manifest = rendition[v].manifest
                               /\ rendition'[v].segments = rendition[v].segments
            BY <1>1 DEF PublishVideo, TypeInv, TypeOK, RenditionRows
      <2> QED BY <1>1, <2>3, <2>5, <2>6, RenditionWriters
<1>2. TypeInv /\ AgreeInv /\ [Next]_vars =>
          [\A v \in Videos :
              job[v].state \in {"completed", "cancelled"} =>
                  /\ job'[v] = job[v]
                  /\ rendition'[v].manifest = rendition[v].manifest
                  /\ rendition'[v].segments = rendition[v].segments]_vars
      BY <1>1
<1> QED BY <1>2, TypeInvariant, AgreeInvariant, PTL DEF Spec, ClosedJobsFinal

\* Once its upload is finalized, a tombstoned video stays as it is for ever.
THEOREM TombstonesStay == Spec => TombstonePermanentOnceFinalized
PROOF
<1>1. ASSUME TypeInv, AgreeInv, [Next]_vars,
             NEW v \in Videos, video[v].state = "tombstoned", upload[v].state = "finalized"
      PROVE  video'[v] = video[v]
      <2>1. \A key \in IdempotencyKeys, intent \in Intents : ~OpenUpload(v, key, intent)
            BY <1>1 DEF OpenUpload
      <2>2. ~FinalizeUpload(v)
            BY <1>1 DEF FinalizeUpload, SourceVerified
      <2>3. \A w \in Workers : ~ClaimJob(w, v)
            BY <1>1 DEF ClaimJob, Claimable
      <2>4. ASSUME NEW w \in Workers, worker[w].video = v
            PROVE  ~CommitReady(w)
            BY <1>1, <2>4 DEF CommitReady, AgreeInv, HeldRows, LifecycleAgreement, RowsAgree
      <2>5. ~PublishVideo(v) /\ ~TombstoneVideo(v)
            BY <1>1 DEF PublishVideo, AgreeInv, HeldRows, TombstoneVideo, Deletable
      <2> QED BY <1>1, <2>1, <2>2, <2>3, <2>4, <2>5, VideoWriters
<1>2. TypeInv /\ AgreeInv /\ [Next]_vars =>
          [\A v \in Videos :
              video[v].state = "tombstoned" /\ upload[v].state = "finalized"
                  => video'[v] = video[v]]_vars
      BY <1>1
<1> QED BY <1>2, TypeInvariant, AgreeInvariant, PTL DEF Spec, TombstonePermanentOnceFinalized

----------------------------------------------------------------------------
(* Fencing.  Tokens of runs differ, a lease names a run that works on that   *)
(* job, and a run's clock sample is in the past.                            *)

TokensDiffer ==
    \A w, x \in Workers : worker[w].token # NULL /\ worker[w].token = worker[x].token => w = x

LeaseNamesItsRun ==
    \A v \in Videos, w \in Workers :
        worker[w].token # NULL /\ job[v].lease = Sha256Token(worker[w].token) => worker[w].video = v

SamplesPast == \A w \in Workers : worker[w].at <= clock

FenceInv == TokensDiffer /\ LeaseNamesItsRun /\ SamplesPast

LEMMA TokenDigestInjective ==
    ASSUME NEW one, NEW two, Sha256Token(one) = Sha256Token(two)
    PROVE  one = two
PROOF BY DEF Sha256Token

\* A step that gives no run a token or a video and no job a new lease.
LEMMA FenceFrame ==
    ASSUME FenceInv, clock' >= clock,
           \A w \in Workers :
               \/ worker'[w] = IdleWorker
               \/ /\ worker'[w].token = worker[w].token
                  /\ worker'[w].video = worker[w].video
                  /\ worker'[w].at \in {worker[w].at, clock},
           \A v \in Videos : job'[v].lease \in {NULL, job[v].lease},
           TypeInv, clock' \in Nat
    PROVE  FenceInv'
PROOF
<1>1. clock \in Nat /\ \A w \in Workers : worker[w].at \in Nat
      BY DEF TypeInv, TypeOK, Runs
<1>2. \A w \in Workers : worker'[w].token # NULL =>
          /\ worker'[w].token = worker[w].token
          /\ worker'[w].video = worker[w].video
      BY DEF IdleWorker
<1>3. \A w \in Workers : worker'[w].token # NULL => Sha256Token(worker'[w].token) # NULL
      BY <1>2, NullIsNew DEF TypeInv, TypeOK, Runs, Sha256Token, TokenDigests
<1>4. TokensDiffer'
      BY <1>2 DEF FenceInv, TokensDiffer
<1>5. LeaseNamesItsRun'
      BY <1>2, <1>3 DEF FenceInv, LeaseNamesItsRun
<1>6. SamplesPast'
      <2>1. \A w \in Workers : worker'[w].at \in {0, worker[w].at, clock}
            BY DEF IdleWorker
      <2>2. \A w \in Workers : worker[w].at <= clock
            BY DEF FenceInv, SamplesPast
      <2>3. clock' >= clock /\ clock' \in Nat
            OBVIOUS
      <2> QED BY <1>1, <2>1, <2>2, <2>3 DEF SamplesPast
<1> QED BY <1>4, <1>5, <1>6 DEF FenceInv

LEMMA FenceWorker ==
    ASSUME TypeInv, FenceInv, WorkerNext
    PROVE  FenceInv'
PROOF
<1>0. clock' = clock /\ clock \in Nat
      BY WorkerFrame DEF TypeInv, TypeOK
<1>1. ASSUME NEW w \in Workers, NEW token \in Tokens, StartRun(w, token)
      PROVE  FenceInv'
      <2>1. /\ worker'[w] = [worker[w] EXCEPT !.pc = "claiming", !.token = token, !.at = clock]
            /\ worker[w] \in Runs
            BY <1>1 DEF StartRun, TypeInv, TypeOK
      <2>2. worker'[w].token = token /\ worker'[w].at = clock
            BY <2>1 DEF Runs
      <2>8. job' = job /\ \A x \in Workers \ {w} : worker'[x] = worker[x]
            BY <1>1 DEF StartRun, TypeInv, TypeOK, tables
      <2>3. \A x \in Workers : worker[x].token # token
            BY <1>1 DEF StartRun, TokensInUse
      <2>4. \A v \in Videos : job[v].lease # Sha256Token(token)
            BY <1>1 DEF StartRun, TokensInUse
      <2>5. TokensDiffer'
            BY <2>8, <2>2, <2>3 DEF FenceInv, TokensDiffer
      <2>6. LeaseNamesItsRun'
            BY <2>8, <2>2, <2>4 DEF FenceInv, LeaseNamesItsRun
      <2>7. SamplesPast'
            BY <1>0, <2>8, <2>2 DEF FenceInv, SamplesPast
      <2> QED BY <2>5, <2>6, <2>7 DEF FenceInv
<1>2. ASSUME NEW w \in Workers, NEW v \in Videos, ClaimJob(w, v)
      PROVE  FenceInv'
      <2>1. /\ worker'[w] = [worker[w] EXCEPT !.pc = "claimed", !.video = v]
            /\ worker[w] \in Runs /\ job[v] \in JobRows
            /\ job'[v] = Leased(job[v], worker[w].token, worker[w].at)
            BY <1>2 DEF ClaimJob, TypeInv, TypeOK
      <2>10. /\ \A x \in Workers \ {w} : worker'[x] = worker[x]
             /\ \A u \in Videos \ {v} : job'[u] = job[u]
            BY <1>2 DEF ClaimJob, TypeInv, TypeOK
      <2>2. /\ worker'[w].token = worker[w].token /\ worker'[w].video = v
            /\ worker'[w].at = worker[w].at
            BY <2>1 DEF Runs
      <2>3. job'[v].lease = Sha256Token(worker[w].token)
            BY <2>1 DEF Leased, JobRows
      <2>4. worker[w].token # NULL /\ worker[w].video \notin Videos
            BY <1>2, NullIsNew DEF ClaimJob, TypeInv, RunsTyped
      <2>5. \A u \in Videos : job[u].lease # Sha256Token(worker[w].token)
            BY <2>4 DEF FenceInv, LeaseNamesItsRun
      <2>6. \A x \in Workers \ {w} : worker[x].token # worker[w].token
            BY <2>4 DEF FenceInv, TokensDiffer
      <2>7. TokensDiffer'
            BY <2>10, <2>2, <2>6 DEF FenceInv, TokensDiffer
      <2>8. ASSUME NEW u \in Videos, NEW x \in Workers, worker'[x].token # NULL,
                   job'[u].lease = Sha256Token(worker'[x].token)
            PROVE  worker'[x].video = u
            <3>1. CASE u = v
                  <4>1. worker'[x].token = worker[w].token
                        BY <2>3, <2>8, <3>1, TokenDigestInjective
                  <4>2. x = w
                        BY <2>10, <2>6, <4>1
                  <4> QED BY <2>2, <3>1, <4>2
            <3>2. CASE u # v
                  <4>1. job[u].lease = Sha256Token(worker'[x].token)
                        BY <2>10, <2>8, <3>2
                  <4>2. x # w
                        BY <2>2, <2>5, <4>1
                  <4> QED BY <2>10, <2>8, <4>1, <4>2 DEF FenceInv, LeaseNamesItsRun
            <3> QED BY <3>1, <3>2
      <2>9. SamplesPast'
            BY <1>0, <2>10, <2>2 DEF FenceInv, SamplesPast
      <2> QED BY <2>7, <2>8, <2>9 DEF FenceInv, LeaseNamesItsRun
<1>3. ASSUME NEW w \in Workers,
             \/ SampleClock(w) \/ BeginMaterialize(w) \/ InstallObject(w)
             \/ LockReady(w) \/ VerifyArtifactObject(w)
      PROVE  FenceInv'
      <2>1. /\ \A x \in Workers \ {w} : worker'[x] = worker[x]
            /\ job' = job
            BY <1>3 DEF SampleClock, BeginMaterialize, InstallObject, LockReady, VerifyArtifactObject,
                        TypeInv, TypeOK, tables
      <2>2. worker[w] \in Runs /\ worker' \in [Workers -> Runs]
            BY <1>3, TypeInvWorker DEF TypeInv, TypeOK, WorkerNext
      <2>3. SampleClock(w) => /\ worker'[w].token = worker[w].token
                              /\ worker'[w].video = worker[w].video
                              /\ worker'[w].at = clock
            BY <2>2 DEF SampleClock, TypeInv, TypeOK, Runs
      <2>4. BeginMaterialize(w) => /\ worker'[w].token = worker[w].token
                                   /\ worker'[w].video = worker[w].video
                                   /\ worker'[w].at = worker[w].at
            BY <2>2 DEF BeginMaterialize, TypeInv, TypeOK, Runs
      <2>5. InstallObject(w) => /\ worker'[w].token = worker[w].token
                                /\ worker'[w].video = worker[w].video
                                /\ worker'[w].at = worker[w].at
            BY <2>2 DEF InstallObject, TypeInv, TypeOK, Runs
      <2>6. LockReady(w) \/ VerifyArtifactObject(w) =>
                /\ worker'[w].token = worker[w].token
                /\ worker'[w].video = worker[w].video
                /\ worker'[w].at = worker[w].at
            BY <2>2 DEF LockReady, VerifyArtifactObject, TypeInv, TypeOK, Runs
      <2>7. /\ worker'[w].token = worker[w].token
            /\ worker'[w].video = worker[w].video
            /\ worker'[w].at \in {worker[w].at, clock}
            BY <1>3, <2>3, <2>4, <2>5, <2>6
      <2> QED BY <1>0, <2>1, <2>7, FenceFrame
<1>4. ASSUME NEW w \in Workers, CommitReady(w)
      PROVE  FenceInv'
      <2>1. /\ worker'[w] = IdleWorker
            /\ \A x \in Workers \ {w} : worker'[x] = worker[x]
            BY <1>4 DEF CommitReady, TypeInv, TypeOK
      <2>2. \A u \in Videos : job'[u].lease \in {NULL, job[u].lease}
            BY <1>4 DEF CommitReady, Completed, TypeInv, TypeOK, JobRows
      <2> QED BY <1>0, <2>1, <2>2, FenceFrame
<1>5. ASSUME NEW w \in Workers, StopRun(w) \/ RollBackReady(w)
      PROVE  FenceInv'
      <2>1. /\ worker'[w] = IdleWorker
            /\ \A x \in Workers \ {w} : worker'[x] = worker[x]
            /\ job' = job
            BY <1>5 DEF StopRun, RollBackReady, TypeInv, TypeOK, tables
      <2> QED BY <1>0, <2>1, FenceFrame
<1> QED BY <1>1, <1>2, <1>3, <1>4, <1>5 DEF WorkerNext

LEMMA FenceOthers ==
    ASSUME TypeInv, FenceInv, UploadNext \/ PublicationNext \/ EnvironmentNext \/ UNCHANGED vars
    PROVE  FenceInv'
PROOF
<1>1. worker' = worker
      BY PublicationFrame, EnvironmentFrame
      DEF UploadNext, OpenUpload, PutChunk, AppendChunk, ReplayChunk, AbandonChunk, FinalizeUpload,
          FinalizeRolledBack, vars
<1>2. clock' >= clock /\ clock' \in Nat
      <2>1. clock' = clock \/ clock' = clock + 1
            BY PublicationFrame
            DEF UploadNext, OpenUpload, PutChunk, AppendChunk, ReplayChunk, AbandonChunk,
                FinalizeUpload, FinalizeRolledBack, EnvironmentNext, Tick, DamageObject, vars
      <2>2. clock \in Nat
            BY DEF TypeInv, TypeOK
      <2> QED BY <2>1, <2>2
<1>3. ASSUME NEW v \in Videos
      PROVE  job'[v].lease \in {NULL, job[v].lease}
      <2>1. FinalizeUpload(v) => job'[v].lease = job[v].lease
            BY DEF FinalizeUpload, TypeInv, TypeOK, JobRows
      <2>2. TombstoneVideo(v) => job'[v].lease \in {NULL, job[v].lease}
            BY DEF TombstoneVideo, Cancelled, TypeInv, TypeOK, JobRows
      <2>3. (\E w \in Workers : ClaimJob(w, v)) => job'[v] = job[v]
            BY <1>1, NullIsNew DEF ClaimJob, TypeInv, TypeOK, Runs
      <2>4. (\E w \in Workers : CommitReady(w)) => job'[v] = job[v]
            BY <1>1 DEF CommitReady, IdleWorker, TypeInv, TypeOK
      <2>5. [Next]_vars
            BY DEF Next
      <2> QED BY <2>1, <2>2, <2>3, <2>4, <2>5, JobWriters
<1> QED BY <1>1, <1>2, <1>3, FenceFrame

LEMMA FenceInvariant == Spec => []FenceInv
PROOF
<1>1. Init => FenceInv
      BY DEF Init, FenceInv, TokensDiffer, LeaseNamesItsRun, SamplesPast, IdleWorker
<1>2. TypeInv /\ FenceInv /\ [Next]_vars => FenceInv'
      BY FenceWorker, FenceOthers DEF Next
<1> QED BY <1>1, <1>2, TypeInvariant, PTL DEF Spec

\* Any number of workers and tokens: the lease of a job belongs to at most one
\* run, the one that works on that job.
THEOREM LeaseFencesOneRun == Spec => []LeaseHeldByOneRun
PROOF
<1>1. FenceInv => LeaseHeldByOneRun
      BY DEF FenceInv, TokensDiffer, LeaseNamesItsRun, LeaseHeldByOneRun
<1> QED BY <1>1, FenceInvariant, PTL

\* A run takes over the job of another only after the lease has ended, although
\* it compares the lease with a clock sample that may be old.
THEOREM LeasesAreRespected == Spec => LeaseRespected
PROOF
<1>1. ASSUME TypeInv, LifecycleAgreement, FenceInv, [Next]_vars, NEW v \in Videos,
             job[v].lease # NULL, job'[v].lease \notin {NULL, job[v].lease}
      PROVE  job[v].leaseUntil <= clock
      <2>1. ~FinalizeUpload(v)
            BY <1>1 DEF FinalizeUpload, TypeInv, TypeOK, JobRows
      <2>2. ~TombstoneVideo(v)
            <3>1. TombstoneVideo(v) => job'[v] = Cancelled(job[v]) /\ job[v] \in JobRows
                  BY <1>1 DEF TombstoneVideo, TypeInv, TypeOK
            <3>2. job[v] \in JobRows => Cancelled(job[v]).lease \in {NULL, job[v].lease}
                  BY DEF Cancelled, JobRows
            <3> QED BY <1>1, <3>1, <3>2
      <2>3. \A w \in Workers : worker[w].video = v => ~CommitReady(w)
            <3>1. ASSUME NEW w \in Workers, worker[w].video = v, CommitReady(w)
                  PROVE  job'[v] = Completed(job[v], worker[w].token) /\ job[v] \in JobRows
                  BY <1>1, <3>1 DEF CommitReady, TypeInv, TypeOK
            <3>2. \A token : job[v] \in JobRows => Completed(job[v], token).lease = NULL
                  BY DEF Completed, JobRows
            <3> QED BY <1>1, <3>1, <3>2
      <2>4. PICK w \in Workers : ClaimJob(w, v)
            BY <1>1, <2>1, <2>2, <2>3, JobWriters
      <2>5. job[v].state = "processing"
            BY <1>1 DEF LifecycleAgreement, RowsAgree
      <2>6. job[v].leaseUntil <= worker[w].at
            BY <2>4, <2>5 DEF ClaimJob, Claimable
      <2>7. worker[w].at <= clock
            BY <1>1 DEF FenceInv, SamplesPast
      <2>8. job[v].leaseUntil \in Nat /\ worker[w].at \in Nat /\ clock \in Nat
            BY <1>1 DEF TypeInv, TypeOK, JobRows, Runs
      <2> QED BY <2>6, <2>7, <2>8
<1>2. TypeInv /\ LifecycleAgreement /\ FenceInv /\ [Next]_vars =>
          [\A v \in Videos :
              job[v].lease # NULL /\ job'[v].lease \notin {NULL, job[v].lease}
                  => job[v].leaseUntil <= clock]_vars
      BY <1>1
<1> QED BY <1>2, TypeInvariant, LifecycleAgrees, FenceInvariant, PTL DEF Spec, LeaseRespected

----------------------------------------------------------------------------
(* The source, from the declaration to the rendition.  A finalized upload    *)
(* has the declared digest; its job keeps that source for ever; a run works *)
(* on the source of its job; a rendition was cut from it.                   *)

JobsUseDeclaredSource ==
    \A v \in Videos :
        job[v].state # "absent" => job[v].source = upload[v].intent.expectedSha256

CutFrom(v, source) ==
    /\ rendition[v].manifest = Sha256Manifest(Manifest(source, SegmentBytes))
    /\ rendition[v].segments = Segments(source, SegmentBytes)

RenditionsCutFromJobSource ==
    \A v \in Videos : rendition[v].state # "absent" => CutFrom(v, Content(job[v].source))

RunsWorkOnJobSource ==
    \A w \in Workers :
        /\ worker[w].pc \notin {"idle", "claiming"} => job[worker[w].video].state # "absent"
        /\ worker[w].pc \in {"installing", "installed", "sampled", "verifying"} =>
              worker[w].source = Content(job[worker[w].video].source)

SourceInv == JobsUseDeclaredSource /\ RenditionsCutFromJobSource /\ RunsWorkOnJobSource

\* A job, once created, keeps its source, and its upload its declaration.
LEMMA SourcesFixed ==
    ASSUME TypeInv, [Next]_vars, NEW v \in Videos, job[v].state # "absent"
    PROVE  /\ job'[v].state # "absent" /\ job'[v].source = job[v].source
           /\ upload'[v] = upload[v]
PROOF
<1>1. upload[v].state = "finalized" /\ job[v] \in JobRows
      BY DEF TypeInv, RowsTyped, TypeOK
<1>2. ~FinalizeUpload(v)
      BY <1>1 DEF FinalizeUpload, SourceVerified
<1>3. ASSUME NEW w \in Workers, ClaimJob(w, v)
      PROVE  job'[v].state # "absent" /\ job'[v].source = job[v].source
      <2>1. job'[v] = Leased(job[v], worker[w].token, worker[w].at)
            BY <1>3 DEF ClaimJob, TypeInv, TypeOK
      <2> QED BY <1>1, <2>1 DEF Leased, JobRows
<1>4. ASSUME NEW w \in Workers, worker[w].video = v, CommitReady(w)
      PROVE  job'[v].state # "absent" /\ job'[v].source = job[v].source
      <2>1. job'[v] = Completed(job[v], worker[w].token)
            BY <1>4 DEF CommitReady, TypeInv, TypeOK
      <2> QED BY <1>1, <2>1 DEF Completed, JobRows
<1>5. ASSUME TombstoneVideo(v)
      PROVE  job'[v].state # "absent" /\ job'[v].source = job[v].source
      <2>1. job'[v] = Cancelled(job[v])
            BY <1>5 DEF TombstoneVideo, TypeInv, TypeOK
      <2> QED BY <1>1, <2>1 DEF Cancelled, JobRows
<1>6. upload'[v] = upload[v]
      <2>1. ASSUME NEW u \in Videos, NEW key \in IdempotencyKeys, NEW intent \in Intents,
                   OpenUpload(u, key, intent)
            PROVE  upload'[v] = upload[v]
            BY <1>1, <2>1 DEF OpenUpload, TypeInv, TypeOK, RowsTyped
      <2>2. ASSUME NEW h \in Handlers, NEW u \in Videos, NEW chunk \in ChunkRequests,
                   AppendChunk(h, u, chunk)
            PROVE  upload'[v] = upload[v]
            BY <1>1, <2>2 DEF AppendChunk, NextChunk, TypeInv, TypeOK
      <2>3. ASSUME NEW u \in Videos, FinalizeUpload(u)
            PROVE  upload'[v] = upload[v]
            BY <1>1, <2>3 DEF FinalizeUpload, SourceVerified, TypeInv, TypeOK
      <2>4. CASE UploadNext
            BY <2>1, <2>2, <2>3, <2>4 DEF UploadNext, PutChunk, ReplayChunk, AbandonChunk,
                                          FinalizeRolledBack, tables
      <2>5. CASE WorkerNext \/ PublicationNext \/ EnvironmentNext \/ UNCHANGED vars
            BY <2>5, WorkerFrame, PublicationFrame, EnvironmentFrame DEF vars, tables
      <2> QED BY <2>4, <2>5 DEF Next
<1> QED BY <1>2, <1>3, <1>4, <1>5, <1>6, JobWriters

LEMMA JobsUseDeclaredSourceStep ==
    ASSUME TypeInv, JobsUseDeclaredSource, [Next]_vars
    PROVE  JobsUseDeclaredSource'
PROOF
<1> SUFFICES ASSUME NEW v \in Videos, job'[v].state # "absent"
             PROVE  job'[v].source = upload'[v].intent.expectedSha256
    BY DEF JobsUseDeclaredSource
<1>1. CASE job[v].state # "absent"
      BY <1>1, SourcesFixed DEF JobsUseDeclaredSource
<1>2. CASE job[v].state = "absent"
      <2>1. job'[v] # job[v]
            BY <1>2
      <2>2. \A w \in Workers : ~ClaimJob(w, v)
            BY <1>2 DEF ClaimJob, Claimable
      <2>3. \A w \in Workers : worker[w].video = v => ~CommitReady(w)
            BY <1>2 DEF CommitReady, TypeInv, HeldTyped
      <2>4. TombstoneVideo(v) => job'[v] = job[v]
            BY <1>2 DEF TombstoneVideo, Cancelled, TypeInv, TypeOK
      <2>5. FinalizeUpload(v)
            BY <2>1, <2>2, <2>3, <2>4, JobWriters
      <2>6. /\ job'[v].source = SourceDigest(v)
            /\ upload'[v].intent = upload[v].intent
            BY <2>5 DEF FinalizeUpload, TypeInv, TypeOK, JobRows, UploadRows
      <2> QED BY <2>5, <2>6 DEF FinalizeUpload, SourceVerified, DigestMatches
<1> QED BY <1>1, <1>2

LEMMA RunsWorkOnJobSourceStep ==
    ASSUME TypeInv, RunsWorkOnJobSource, [Next]_vars
    PROVE  RunsWorkOnJobSource'
PROOF
<1> DEFINE OnSource(run, rows) ==
             /\ run.pc \notin {"idle", "claiming"} => rows[run.video].state # "absent"
             /\ run.pc \in {"installing", "installed", "sampled", "verifying"} =>
                   run.source = Content(rows[run.video].source)
<1> SUFFICES ASSUME NEW w \in Workers
             PROVE  OnSource(worker'[w], job')
    BY DEF RunsWorkOnJobSource
<1>1. /\ OnSource(worker[w], job)
      /\ worker[w] \in Runs
      /\ worker[w].pc \in {"idle", "claiming"} <=> worker[w].video = NULL
      BY DEF RunsWorkOnJobSource, TypeInv, TypeOK, RunsTyped
<1>2. CASE worker'[w] = worker[w]
      <2>1. CASE worker[w].pc \in {"idle", "claiming"}
            BY <1>2, <2>1
      <2>2. CASE worker[w].pc \notin {"idle", "claiming"}
            <3>1. worker[w].video \in Videos
                  BY <1>1, <2>2 DEF Runs
            <3> QED BY <1>1, <1>2, <2>2, <3>1, SourcesFixed
      <2> QED BY <2>1, <2>2
<1>3. CASE worker'[w] # worker[w]
      <2>1. WorkerNext
            BY <1>3, PublicationFrame, EnvironmentFrame
            DEF Next, UploadNext, OpenUpload, PutChunk, AppendChunk, ReplayChunk, AbandonChunk,
                FinalizeUpload, FinalizeRolledBack, vars
      <2>2. ASSUME NEW x \in Workers, NEW token \in Tokens, StartRun(x, token)
            PROVE  OnSource(worker'[w], job')
            <3>1. worker'[w] = [worker[w] EXCEPT !.pc = "claiming", !.token = token, !.at = clock]
                  BY <1>3, <2>2 DEF StartRun, TypeInv, TypeOK
            <3>2. worker'[w].pc = "claiming"
                  BY <1>1, <3>1 DEF Runs
            <3> QED BY <3>2
      <2>3. ASSUME NEW x \in Workers, NEW v \in Videos, ClaimJob(x, v)
            PROVE  OnSource(worker'[w], job')
            <3>1. /\ worker'[w] = [worker[w] EXCEPT !.pc = "claimed", !.video = v]
                  /\ job[v].state # "absent"
                  BY <1>3, <2>3 DEF ClaimJob, Claimable, TypeInv, TypeOK
            <3>2. worker'[w].pc = "claimed" /\ worker'[w].video = v
                  BY <1>1, <3>1 DEF Runs
            <3>3. job'[v].state # "absent"
                  BY <3>1, SourcesFixed
            <3> QED BY <3>2, <3>3
      <2>4. ASSUME NEW x \in Workers, SampleClock(x) \/ BeginMaterialize(x) \/ InstallObject(x)
            PROVE  OnSource(worker'[w], job')
            <3>1. x = w /\ job' = job
                  BY <1>3, <2>4 DEF SampleClock, BeginMaterialize, InstallObject, TypeInv, TypeOK, tables
            <3>2. worker[w].pc \notin {"idle", "claiming"}
                  BY <2>4, <3>1 DEF SampleClock, BeginMaterialize, InstallObject
            <3>3. CASE SampleClock(w)
                  <4>1. PICK pc \in {"started", "sampled"} :
                            /\ worker'[w] = [worker[w] EXCEPT !.pc = pc, !.at = clock]
                            /\ pc = "sampled" => worker[w].pc = "installed"
                        BY <3>3 DEF SampleClock, TypeInv, TypeOK
                  <4>2. /\ worker'[w].pc = pc /\ worker'[w].video = worker[w].video
                        /\ worker'[w].source = worker[w].source
                        BY <1>1, <4>1 DEF Runs
                  <4> QED BY <1>1, <3>1, <3>2, <4>1, <4>2
            <3>4. CASE BeginMaterialize(w)
                  <4>1. worker'[w] = [worker[w] EXCEPT !.pc = "installing",
                                        !.source = Content(job[worker[w].video].source),
                                        !.todo = ArtifactDigests(Content(job[worker[w].video].source))]
                        BY <3>4 DEF BeginMaterialize, TypeInv, TypeOK
                  <4>2. /\ worker'[w].video = worker[w].video
                        /\ worker'[w].source = Content(job[worker[w].video].source)
                        BY <1>1, <4>1 DEF Runs
                  <4> QED BY <1>1, <3>1, <3>2, <4>2
            <3>5. CASE InstallObject(w)
                  <4>1. PICK pc \in {"installing", "installed"} :
                            worker'[w] = [worker[w] EXCEPT !.pc = pc, !.todo = Tail(worker[w].todo)]
                        BY <3>5 DEF InstallObject, TypeInv, TypeOK
                  <4>2. /\ worker'[w].video = worker[w].video
                        /\ worker'[w].source = worker[w].source
                        BY <1>1, <4>1 DEF Runs
                  <4>3. worker[w].pc = "installing"
                        BY <3>5 DEF InstallObject
                  <4> QED BY <1>1, <3>1, <4>2, <4>3
            <3> QED BY <2>4, <3>1, <3>3, <3>4, <3>5
      <2>5. ASSUME NEW x \in Workers, CommitReady(x) \/ RollBackReady(x) \/ StopRun(x)
            PROVE  OnSource(worker'[w], job')
            <3>1. worker'[w] = IdleWorker
                  BY <1>3, <2>5 DEF CommitReady, RollBackReady, StopRun, TypeInv, TypeOK
            <3> QED BY <3>1 DEF IdleWorker
      <2>6. ASSUME NEW x \in Workers, LockReady(x) \/ VerifyArtifactObject(x)
            PROVE  OnSource(worker'[w], job')
            <3>1. x = w /\ job' = job
                  BY <1>3, <2>6 DEF LockReady, VerifyArtifactObject, TypeInv, TypeOK, tables
            <3>2. worker[w].pc \in {"sampled", "verifying"}
                  BY <2>6, <3>1 DEF LockReady, CommitAllowed, VerifyArtifactObject
            <3>3. LockReady(w) => worker'[w].video = worker[w].video /\ worker'[w].source = worker[w].source
                  BY <1>1 DEF LockReady, TypeInv, TypeOK, Runs
            <3>4. VerifyArtifactObject(w) =>
                      worker'[w].video = worker[w].video /\ worker'[w].source = worker[w].source
                  BY <1>1 DEF VerifyArtifactObject, TypeInv, TypeOK, Runs
            <3> QED BY <1>1, <2>6, <3>1, <3>2, <3>3, <3>4
      <2> QED BY <2>1, <2>2, <2>3, <2>4, <2>5, <2>6 DEF WorkerNext
<1> QED BY <1>2, <1>3

LEMMA RenditionsCutFromJobSourceStep ==
    ASSUME TypeInv, LifecycleAgreement, RenditionsCutFromJobSource, RunsWorkOnJobSource, [Next]_vars
    PROVE  RenditionsCutFromJobSource'
PROOF
<1> DEFINE Cut(row, source) ==
             /\ row.manifest = Sha256Manifest(Manifest(source, SegmentBytes))
             /\ row.segments = Segments(source, SegmentBytes)
<1> SUFFICES ASSUME NEW v \in Videos, rendition'[v].state # "absent"
             PROVE  Cut(rendition'[v], Content(job'[v].source))
    BY DEF RenditionsCutFromJobSource, CutFrom
<1>1. rendition[v].state # "absent" =>
          job[v].state # "absent" /\ Cut(rendition[v], Content(job[v].source))
      BY DEF RenditionsCutFromJobSource, CutFrom, LifecycleAgreement, RowsAgree
<1> HIDE DEF Cut
<1>2. CASE rendition'[v] = rendition[v]
      BY <1>1, <1>2, SourcesFixed
<1>3. ASSUME NEW w \in Workers, worker[w].video = v, CommitReady(w)
      PROVE  Cut(rendition'[v], Content(job'[v].source))
      <2>1. worker[w].pc = "verifying" /\ job[v].state # "absent"
            BY <1>3 DEF CommitReady, TypeInv, HeldTyped
      <2>2. worker[w].source = Content(job[v].source)
            BY <1>3, <2>1 DEF RunsWorkOnJobSource
      <2>3. job'[v].source = job[v].source
            BY <2>1, SourcesFixed
      <2>4. rendition'[v] = [state |-> "ready",
                             manifest |-> Sha256Manifest(Manifest(worker[w].source, SegmentBytes)),
                             segments |-> Manifest(worker[w].source, SegmentBytes).segments]
            BY <1>3 DEF CommitReady, TypeInv, TypeOK
      <2>5. Cut(rendition'[v], worker[w].source)
            BY <2>4 DEF Cut, Manifest
      <2> QED BY <2>2, <2>3, <2>5
<1>4. ASSUME PublishVideo(v)
      PROVE  Cut(rendition'[v], Content(job'[v].source))
      <2>1. rendition[v] \in RenditionRows
            BY DEF TypeInv, TypeOK
      <2>2. /\ rendition[v].state # "absent" /\ job' = job
            /\ rendition'[v] = [rendition[v] EXCEPT !.state = "published"]
            BY <1>4 DEF PublishVideo, TypeInv, TypeOK, HeldTyped
      <2>3. rendition'[v].manifest = rendition[v].manifest /\ rendition'[v].segments = rendition[v].segments
            BY <2>1, <2>2 DEF RenditionRows
      <2> QED BY <1>1, <2>2, <2>3 DEF Cut
<1> QED BY <1>2, <1>3, <1>4, RenditionWriters

LEMMA SourceInvariant == Spec => []SourceInv
PROOF
<1>1. Init => SourceInv
      BY DEF Init, SourceInv, JobsUseDeclaredSource, RenditionsCutFromJobSource, RunsWorkOnJobSource,
             AbsentJob, AbsentRendition, IdleWorker
<1>2. TypeInv /\ LifecycleAgreement /\ SourceInv /\ [Next]_vars => SourceInv'
      BY JobsUseDeclaredSourceStep, RunsWorkOnJobSourceStep, RenditionsCutFromJobSourceStep DEF SourceInv
<1> QED BY <1>1, <1>2, TypeInvariant, LifecycleAgrees, PTL DEF Spec

\* Whatever chunks arrive, whichever worker completes the job and however often it
\* was claimed before, a rendition lists the source the client declared.
THEOREM RenditionsMatch == Spec => []RenditionMatchesDeclaredSource
PROOF
<1>1. ASSUME TypeInv, LifecycleAgreement, UploadInv, SourceInv
      PROVE  RenditionMatchesDeclaredSource
      <2> SUFFICES ASSUME NEW v \in Videos, rendition[v].state # "absent"
          PROVE  /\ Len(Content(upload[v].intent.expectedSha256)) = upload[v].intent.expectedBytes
                 /\ CutFrom(v, Content(upload[v].intent.expectedSha256))
          BY DEF RenditionMatchesDeclaredSource, CutFrom
      <2> DEFINE source == Content(upload[v].intent.expectedSha256)
                 length == upload[v].intent.expectedBytes
      <2>1. job[v].state # "absent" /\ upload[v].state = "finalized"
            BY <1>1 DEF LifecycleAgreement, RowsAgree, TypeInv, RowsTyped
      <2>2. CutFrom(v, source)
            BY <1>1, <2>1 DEF SourceInv, JobsUseDeclaredSource, RenditionsCutFromJobSource
      <2>3. upload[v].intent \in [expectedBytes : Nat \ {0}, expectedSha256 : ByteDigests]
            BY <1>1, <2>1, RequestsAssumption DEF TypeInv, TypeOK, RowsTyped, UploadRows
      <2>4. source \in Seq(Octets) /\ length \in Nat
            BY <2>3 DEF ByteDigests, Content
      <2>5. source = Assembled(chunks[v], length)
            BY <1>1, <2>1 DEF UploadInv, SourceIsAssembled, SourceDigest, Sha256Bytes, Content
      <2>6. DOMAIN source = 1..length
            BY <2>5 DEF Assembled
      <2>7. DOMAIN source = 1..Len(source) /\ Len(source) \in Nat
            BY <2>4, LenProperties
      <2> HIDE DEF source, length
      <2>8. Len(source) = length
            BY <2>4, <2>6, <2>7
      <2> QED BY <2>2, <2>8 DEF source, length
<1> QED BY <1>1, TypeInvariant, LifecycleAgrees, UploadInvariant, SourceInvariant, PTL

\* A completion is recorded for the lease that is current when it commits, over
\* the objects of the job's own source.
THEOREM CompletionsAreCurrent == Spec => CompletionCarriesCurrentLease
PROOF
<1>1. ASSUME TypeInv, AgreeInv, SourceInv, [Next]_vars, NEW v \in Videos,
             job[v].state # "completed", job'[v].state = "completed"
      PROVE  /\ job'[v].completion = job[v].lease
             /\ rendition'[v].manifest =
                   Sha256Manifest(Manifest(Content(job[v].source), SegmentBytes))
      <2>1. job[v] \in JobRows
            BY <1>1 DEF TypeInv, TypeOK
      <2>2. ASSUME FinalizeUpload(v) PROVE FALSE
            BY <1>1, <2>1, <2>2 DEF FinalizeUpload, TypeInv, TypeOK, JobRows
      <2>3. ASSUME NEW w \in Workers, ClaimJob(w, v) PROVE FALSE
            <3>1. job'[v] = Leased(job[v], worker[w].token, worker[w].at)
                  BY <1>1, <2>3 DEF ClaimJob, TypeInv, TypeOK
            <3> QED BY <1>1, <2>1, <3>1 DEF Leased, JobRows
      <2>4. ASSUME TombstoneVideo(v) PROVE FALSE
            <3>1. job'[v] = Cancelled(job[v])
                  BY <1>1, <2>4 DEF TombstoneVideo, TypeInv, TypeOK
            <3> QED BY <1>1, <2>1, <3>1 DEF Cancelled, JobRows
      <2>5. PICK w \in Workers : worker[w].video = v /\ CommitReady(w)
            BY <1>1, <2>2, <2>3, <2>4, JobWriters
      <2>6. /\ worker[w].pc = "verifying"
            /\ job[v].lease = Sha256Token(worker[w].token)
            BY <1>1, <2>5 DEF CommitReady, AgreeInv, HeldRows
      <2>7. job'[v].completion = Sha256Token(worker[w].token)
            <3>1. job'[v] = Completed(job[v], worker[w].token)
                  BY <1>1, <2>5 DEF CommitReady, TypeInv, TypeOK
            <3> QED BY <2>1, <3>1 DEF Completed, JobRows
      <2>8. worker[w].source = Content(job[v].source)
            BY <1>1, <2>5, <2>6 DEF SourceInv, RunsWorkOnJobSource
      <2>9. rendition'[v].manifest = Sha256Manifest(Manifest(worker[w].source, SegmentBytes))
            BY <1>1, <2>5 DEF CommitReady, TypeInv, TypeOK
      <2> QED BY <2>6, <2>7, <2>8, <2>9
<1>2. TypeInv /\ AgreeInv /\ SourceInv /\ [Next]_vars =>
          [\A v \in Videos :
              job[v].state # "completed" /\ job'[v].state = "completed" =>
                  /\ job'[v].completion = job[v].lease
                  /\ rendition'[v].manifest =
                        Sha256Manifest(Manifest(Content(job[v].source), SegmentBytes))]_vars
      BY <1>1
<1> QED BY <1>2, TypeInvariant, AgreeInvariant, SourceInvariant, PTL DEF Spec, CompletionCarriesCurrentLease

----------------------------------------------------------------------------
(* What a transaction that verifies objects knows.  Of the objects it has    *)
(* gone through each was found intact since it took its locks, so when none *)
(* is left all were, although none need be intact when it commits.          *)

Elements(todo) == {todo[i] : i \in 1..Len(todo)}

ObjectsOf(source) ==
    {Sha256Manifest(Manifest(source, SegmentBytes))} \cup DigestsIn(Segments(source, SegmentBytes))

LEMMA ElementsTail ==
    ASSUME NEW S, NEW todo \in Seq(S), todo # <<>>
    PROVE  /\ Elements(todo) \subseteq {Head(todo)} \cup Elements(Tail(todo))
           /\ Tail(todo) \in Seq(S)
PROOF
<1>1. /\ Len(todo) \in Nat \ {0} /\ Head(todo) = todo[1]
      /\ Tail(todo) \in Seq(S) /\ Len(Tail(todo)) = Len(todo) - 1
      /\ \A i \in 1..Len(todo) - 1 : Tail(todo)[i] = todo[i + 1]
      BY HeadTailProperties, EmptySeq, LenProperties
<1>2. ASSUME NEW i \in 1..Len(todo), i # 1
      PROVE  todo[i] \in Elements(Tail(todo))
      <2>1. i - 1 \in 1..Len(todo) - 1 /\ (i - 1) + 1 = i
            BY <1>1, <1>2
      <2>2. Tail(todo)[i - 1] = todo[i]
            BY <1>1, <2>1
      <2> QED BY <1>1, <2>1, <2>2 DEF Elements
<1> QED BY <1>1, <1>2 DEF Elements

LEMMA DigestsTail ==
    ASSUME NEW todo \in Seq(SegmentRows), todo # <<>>
    PROVE  DigestsIn(todo) \subseteq {Head(todo).sha256} \cup DigestsIn(Tail(todo))
PROOF
<1>1. Elements(todo) \subseteq {Head(todo)} \cup Elements(Tail(todo)) /\ Tail(todo) \in Seq(SegmentRows)
      BY ElementsTail
<1>2. DOMAIN todo = 1..Len(todo) /\ DOMAIN Tail(todo) = 1..Len(Tail(todo))
      BY <1>1, LenProperties
<1> QED BY <1>1, <1>2 DEF Elements, DigestsIn

LEMMA ArtifactNamesItsObjects ==
    ASSUME NEW source \in Seq(Octets)
    PROVE  ObjectsOf(source) \subseteq Elements(ArtifactDigests(source))
PROOF
<1> DEFINE segments == Segments(source, SegmentBytes)
           manifest == Sha256Manifest(Manifest(source, SegmentBytes))
           digests == [i \in 1..Len(segments) |-> segments[i].sha256]
           count == Len(segments)
<1>1. segments \in Seq(SegmentRows) /\ count \in Nat /\ DOMAIN segments = 1..count
      BY SegmentsType, SegmentBytesType, LenProperties
<1>2. manifest \in ObjectDigests
      BY ManifestType, SegmentBytesType DEF ObjectDigests
<1>3. digests \in Seq(ObjectDigests) /\ Len(digests) = count
      <2>1. ASSUME NEW i \in 1..count PROVE segments[i].sha256 \in ObjectDigests
            <3>1. segments[i] \in SegmentRows
                  BY <1>1, ElementOfSeq
            <3> QED BY <3>1 DEF SegmentRows, ObjectDigests
      <2> HIDE DEF segments
      <2>2. digests \in Seq(ObjectDigests)
            BY <1>1, <2>1, IsASeq
      <2>3. DOMAIN digests = 1..count
            OBVIOUS
      <2> QED BY <1>1, <2>2, <2>3, LenProperties
<1>4. ArtifactDigests(source) = Append(digests, manifest)
      BY DEF ArtifactDigests
<1>5. DigestsIn(segments) = {digests[i] : i \in 1..count}
      BY <1>1 DEF DigestsIn
<1> HIDE DEF segments, manifest, digests, count
<1>6. /\ Len(Append(digests, manifest)) = count + 1
      /\ Append(digests, manifest)[count + 1] = manifest
      /\ \A i \in 1..count : Append(digests, manifest)[i] = digests[i]
      BY <1>1, <1>2, <1>3, AppendProperties
<1>7. count + 1 \in 1..count + 1 /\ \A i \in 1..count : i \in 1..count + 1
      BY <1>1
<1>8. manifest \in Elements(Append(digests, manifest)) /\ DigestsIn(segments) \subseteq Elements(Append(digests, manifest))
      BY <1>5, <1>6, <1>7 DEF Elements
<1> QED BY <1>4, <1>8 DEF ObjectsOf, segments, manifest

VerifiedInv ==
    /\ \A v \in Videos : Locked(v) => objects \subseteq seen[v]
    /\ \A w \in Workers :
          worker[w].pc = "verifying" =>
              ObjectsOf(worker[w].source) \subseteq seen[worker[w].video] \cup Elements(worker[w].todo)
    /\ \A v \in Videos :
          publisher[v].pc = "verifying" =>
              {rendition[v].manifest} \cup DigestsIn(rendition[v].segments)
                  \subseteq seen[v] \cup DigestsIn(publisher[v].todo)

\* A step that starts or continues no verification, and keeps what is known of the
\* videos still locked after it.
LEMMA VerifiedFrame ==
    ASSUME TypeInv, VerifiedInv,
           \A w \in Workers : worker'[w].pc = "verifying" => worker'[w] = worker[w],
           \A v \in Videos : publisher'[v].pc = "verifying" =>
               publisher'[v] = publisher[v] /\ rendition'[v] = rendition[v],
           \A v \in Videos : Locked(v)' => seen[v] \subseteq seen'[v] /\ objects' \ objects \subseteq seen'[v]
    PROVE  VerifiedInv'
PROOF
<1>1. \A v \in Videos : Locked(v)' => Locked(v)
      BY DEF Locked
<1>2. \A w \in Workers : worker'[w].pc = "verifying" =>
          worker[w].video \in Videos /\ \E v \in Videos : worker'[w].video = v /\ Locked(v)'
      <2> SUFFICES ASSUME NEW w \in Workers, worker'[w].pc = "verifying"
                   PROVE  worker[w].video \in Videos /\ \E v \in Videos : worker'[w].video = v /\ Locked(v)'
          OBVIOUS
      <2>1. worker'[w] = worker[w]
            OBVIOUS
      <2>2. worker[w].video \in Videos
            BY <2>1, RunVideo
      <2>3. PICK v \in Videos : v = worker[w].video
            BY <2>2
      <2>4. Locked(v)'
            BY <2>1, <2>3 DEF Locked
      <2> QED BY <2>1, <2>3, <2>4
<1>3. \A v \in Videos : publisher'[v].pc = "verifying" => Locked(v)'
      BY DEF Locked
<1>4. \A v \in Videos : Locked(v)' => objects' \subseteq seen'[v]
      BY <1>1 DEF VerifiedInv
<1>5. ASSUME NEW w \in Workers, worker'[w].pc = "verifying"
      PROVE  ObjectsOf(worker'[w].source) \subseteq seen'[worker'[w].video] \cup Elements(worker'[w].todo)
      <2>1. PICK v \in Videos : worker'[w].video = v /\ Locked(v)'
            BY <1>2, <1>5
      <2>2. seen[v] \subseteq seen'[v] /\ worker'[w] = worker[w]
            BY <1>5, <2>1
      <2>3. ObjectsOf(worker[w].source) \subseteq seen[v] \cup Elements(worker[w].todo)
            BY <1>5, <2>1, <2>2 DEF VerifiedInv
      <2> QED BY <2>1, <2>2, <2>3
<1>6. ASSUME NEW v \in Videos, publisher'[v].pc = "verifying"
      PROVE  {rendition'[v].manifest} \cup DigestsIn(rendition'[v].segments)
                 \subseteq seen'[v] \cup DigestsIn(publisher'[v].todo)
      BY <1>3, <1>6 DEF VerifiedInv
<1> QED BY <1>4, <1>5, <1>6 DEF VerifiedInv

\* Storing an object is seen by every transaction that holds rows.
LEMMA VerifiedPut ==
    ASSUME TypeInv, VerifiedInv, NEW digest, Put(digest), UNCHANGED <<publisher, rendition>>,
           \A w \in Workers : worker'[w].pc = "verifying" => worker'[w] = worker[w]
    PROVE  VerifiedInv'
PROOF
<1>1. \A v \in Videos : Locked(v)' => Locked(v)
      BY DEF Locked
<1>2. \A v \in Videos : Locked(v)' => seen[v] \subseteq seen'[v] /\ objects' \ objects \subseteq seen'[v]
      BY <1>1 DEF Put, TypeInv, TypeOK
<1> QED BY <1>2, VerifiedFrame

LEMMA VerifiedUpload ==
    ASSUME TypeInv, VerifiedInv, UploadNext
    PROVE  VerifiedInv'
PROOF
<1>1. ASSUME UNCHANGED <<objects, worker, publisher, seen, rendition>>
      PROVE  VerifiedInv'
      BY <1>1, VerifiedFrame
<1>2. ASSUME NEW digest, Put(digest), UNCHANGED <<worker, publisher, rendition>>
      PROVE  VerifiedInv'
      BY <1>2, VerifiedPut
<1> QED BY <1>1, <1>2 DEF UploadNext, OpenUpload, PutChunk, AppendChunk, ReplayChunk, AbandonChunk,
                          FinalizeUpload, FinalizeRolledBack, tables, store, held

LEMMA VerifiedWorker ==
    ASSUME TypeInv, HeldRows, VerifiedInv, WorkerNext
    PROVE  VerifiedInv'
PROOF
<1>1. ASSUME NEW w \in Workers, worker'[w].pc # "verifying",
             \A x \in Workers \ {w} : worker'[x] = worker[x],
             UNCHANGED <<objects, publisher, seen>>,
             \A v \in Videos : publisher[v].pc = "verifying" => rendition'[v] = rendition[v]
      PROVE  VerifiedInv'
      BY <1>1, VerifiedFrame
<1>2. ASSUME NEW w \in Workers, LockReady(w)
      PROVE  VerifiedInv'
      <2>1. worker[w].video \in Videos /\ worker[w] \in Runs
            BY <1>2, RunVideo DEF LockReady, CommitAllowed, TypeInv, TypeOK
      <2> PICK v \in Videos : v = worker[w].video
          BY <2>1
      <2>2. /\ ~Locked(v) /\ seen'[v] = objects /\ UNCHANGED <<tables, store, publisher>>
            /\ \A u \in Videos \ {v} : seen'[u] = seen[u]
            /\ \A x \in Workers \ {w} : worker'[x] = worker[x]
            BY <1>2, <2>1 DEF LockReady, Watch, TypeInv, TypeOK
      <2>3. /\ worker'[w].video = v /\ worker'[w].source = worker[w].source
            /\ worker'[w].todo = ArtifactDigests(worker[w].source)
            BY <1>2, <2>1 DEF LockReady, TypeInv, TypeOK, Runs
      <2>4. ObjectsOf(worker[w].source) \subseteq Elements(ArtifactDigests(worker[w].source))
            BY <2>1, ArtifactNamesItsObjects DEF Runs
      <2>5. \A u \in Videos \ {v} : Locked(u)' => Locked(u)
            BY <2>2, <2>3 DEF Locked
      <2>6. \A u \in Videos : Locked(u)' => objects' \subseteq seen'[u]
            BY <2>2, <2>5 DEF VerifiedInv, store
      <2>7. \A x \in Workers \ {w} : worker[x].pc = "verifying" => worker[x].video \in Videos \ {v}
            BY <2>2, RunVideo DEF Locked
      <2>8. \A u \in Videos : publisher[u].pc = "verifying" => u # v
            BY <2>2 DEF Locked
      <2>9. ASSUME NEW x \in Workers, worker'[x].pc = "verifying"
            PROVE  ObjectsOf(worker'[x].source) \subseteq seen'[worker'[x].video] \cup Elements(worker'[x].todo)
            <3>1. CASE x = w
                  BY <2>3, <2>4, <3>1
            <3>2. CASE x # w
                  BY <2>2, <2>7, <2>9, <3>2 DEF VerifiedInv
            <3> QED BY <3>1, <3>2
      <2> QED BY <2>2, <2>6, <2>8, <2>9 DEF VerifiedInv, tables
<1>3. ASSUME NEW w \in Workers, VerifyArtifactObject(w)
      PROVE  VerifiedInv'
      <2>1. /\ worker[w].video \in Videos /\ worker[w] \in Runs /\ worker[w].todo \in Seq(ObjectDigests)
            /\ worker[w].pc = "verifying" /\ worker[w].todo # <<>>
            BY <1>3, RunVideo DEF VerifyArtifactObject, TypeInv, TypeOK, Runs
      <2>2. /\ worker'[w].video = worker[w].video /\ worker'[w].source = worker[w].source
            /\ worker'[w].pc = "verifying" /\ worker'[w].todo = Tail(worker[w].todo)
            /\ \A x \in Workers \ {w} : worker'[x] = worker[x]
            /\ UNCHANGED <<tables, store, held>>
            BY <1>3, <2>1 DEF VerifyArtifactObject, TypeInv, TypeOK, Runs
      <2>3. Head(worker[w].todo) \in seen[worker[w].video]
            BY <1>3, <2>1 DEF VerifyArtifactObject, VerifiedInv, Locked
      <2>4. Elements(worker[w].todo) \subseteq {Head(worker[w].todo)} \cup Elements(Tail(worker[w].todo))
            BY <2>1, ElementsTail
      <2>5. \A u \in Videos : Locked(u)' => Locked(u)
            BY <2>1, <2>2 DEF Locked, held
      <2>6. ASSUME NEW x \in Workers, worker'[x].pc = "verifying"
            PROVE  ObjectsOf(worker'[x].source) \subseteq seen'[worker'[x].video] \cup Elements(worker'[x].todo)
            <3>1. CASE x = w
                  BY <2>1, <2>2, <2>3, <2>4, <3>1 DEF VerifiedInv, held
            <3>2. CASE x # w
                  BY <2>2, <2>6, <3>2 DEF VerifiedInv, held
            <3> QED BY <3>1, <3>2
      <2> QED BY <2>2, <2>5, <2>6 DEF VerifiedInv, tables, store, held
<1>4. ASSUME NEW w \in Workers, CommitReady(w) \/ RollBackReady(w)
      PROVE  VerifiedInv'
      <2>1. worker[w].video \in Videos /\ worker[w].pc = "verifying"
            BY <1>4, RunVideo DEF CommitReady, RollBackReady
      <2> PICK v \in Videos : v = worker[w].video
          BY <2>1
      <2>2. /\ UNCHANGED <<objects, publisher>> /\ worker'[w].pc = "idle"
            /\ \A x \in Workers \ {w} : worker'[x] = worker[x]
            /\ \A u \in Videos \ {v} : seen'[u] = seen[u] /\ rendition'[u] = rendition[u]
            BY <1>4, <2>1 DEF CommitReady, RollBackReady, Unwatch, IdleWorker, TypeInv, TypeOK, tables, store
      <2>3. publisher[v].pc # "verifying"
            BY <2>1 DEF HeldRows
      <2>4. ~Locked(v)'
            BY <2>1, <2>2, <2>3 DEF Locked, HeldRows
      <2>5. \A u \in Videos : publisher'[u].pc = "verifying" => u # v
            BY <2>2, <2>3
      <2> QED BY <2>2, <2>4, <2>5, VerifiedFrame
<1>5. ASSUME NEW w \in Workers, InstallObject(w)
      PROVE  VerifiedInv'
      <2>1. /\ worker'[w].pc # "verifying" /\ \A x \in Workers \ {w} : worker'[x] = worker[x]
            /\ UNCHANGED <<publisher, rendition>>
            BY <1>5 DEF InstallObject, TypeInv, TypeOK, Runs, tables
      <2>2. Put(Head(worker[w].todo))
            BY <1>5 DEF InstallObject
      <2> QED BY <2>1, <2>2, VerifiedPut
<1>6. ASSUME NEW w \in Workers, NEW token \in Tokens, StartRun(w, token)
      PROVE  VerifiedInv'
      BY <1>1, <1>6 DEF StartRun, held, store, tables, TypeInv, TypeOK, Runs
<1>7. ASSUME NEW w \in Workers, NEW v \in Videos, ClaimJob(w, v)
      PROVE  VerifiedInv'
      BY <1>1, <1>7 DEF ClaimJob, held, store, TypeInv, TypeOK, Runs
<1>8. ASSUME NEW w \in Workers, SampleClock(w)
      PROVE  VerifiedInv'
      <2>1. PICK pc \in {"started", "sampled"} :
                worker' = [worker EXCEPT ![w] = [@ EXCEPT !.pc = pc, !.at = clock]]
            BY <1>8 DEF SampleClock
      <2>2. UNCHANGED <<tables, store, held>>
            BY <1>8 DEF SampleClock
      <2> QED BY <1>1, <2>1, <2>2 DEF held, store, tables, TypeInv, TypeOK, Runs
<1>9. ASSUME NEW w \in Workers, BeginMaterialize(w)
      PROVE  VerifiedInv'
      BY <1>1, <1>9 DEF BeginMaterialize, held, store, tables, TypeInv, TypeOK, Runs
<1>10. ASSUME NEW w \in Workers, StopRun(w)
       PROVE  VerifiedInv'
       BY <1>1, <1>10 DEF StopRun, IdleWorker, held, store, tables, TypeInv, TypeOK, Runs
<1> QED BY <1>2, <1>3, <1>4, <1>5, <1>6, <1>7, <1>8, <1>9, <1>10 DEF WorkerNext

LEMMA VerifiedPublication ==
    ASSUME TypeInv, HeldRows, VerifiedInv, PublicationNext
    PROVE  VerifiedInv'
PROOF
<1>1. ASSUME NEW v \in Videos, LockPublish(v)
      PROVE  VerifiedInv'
      <2>1. /\ ~Locked(v) /\ seen'[v] = objects /\ UNCHANGED <<tables, store, worker>>
            /\ \A u \in Videos \ {v} : seen'[u] = seen[u] /\ publisher'[u] = publisher[u]
            /\ publisher'[v].todo = rendition[v].segments /\ rendition[v].manifest \in objects
            BY <1>1 DEF LockPublish, Publishable, SegmentsToVerify, Watch, TypeInv, TypeOK
      <2>2. \A u \in Videos \ {v} : Locked(u)' => Locked(u)
            BY <2>1 DEF Locked
      <2>3. \A x \in Workers : worker[x].pc = "verifying" => worker[x].video \in Videos \ {v}
            BY <2>1, RunVideo DEF Locked
      <2> QED BY <2>1, <2>2, <2>3 DEF VerifiedInv, tables, store
<1>2. ASSUME NEW v \in Videos, VerifySegment(v)
      PROVE  VerifiedInv'
      <2>1. /\ UNCHANGED <<tables, store, worker, seen>>
            /\ publisher[v].pc = "verifying" /\ publisher[v].todo # <<>>
            /\ publisher[v].todo \in Seq(SegmentRows)
            /\ publisher'[v].todo = Tail(publisher[v].todo)
            /\ \A u \in Videos \ {v} : publisher'[u] = publisher[u]
            BY <1>2 DEF VerifySegment, TypeInv, TypeOK, Publications
      <2>2. Head(publisher[v].todo).sha256 \in seen[v]
            BY <1>2, <2>1 DEF VerifySegment, Verifies, VerifiedInv, Locked
      <2>3. DigestsIn(publisher[v].todo)
                \subseteq {Head(publisher[v].todo).sha256} \cup DigestsIn(Tail(publisher[v].todo))
            BY <2>1, DigestsTail
      <2>4. \A u \in Videos : Locked(u)' => Locked(u)
            BY <2>1 DEF Locked
      <2>5. \A u \in Videos : Locked(u)' => objects' \subseteq seen'[u]
            BY <2>1, <2>4 DEF VerifiedInv, store
      <2>6. ASSUME NEW u \in Videos, publisher'[u].pc = "verifying"
            PROVE  {rendition[u].manifest} \cup DigestsIn(rendition[u].segments)
                       \subseteq seen[u] \cup DigestsIn(publisher'[u].todo)
            <3>1. CASE u = v
                  BY <2>1, <2>2, <2>3, <3>1 DEF VerifiedInv
            <3>2. CASE u # v
                  BY <2>1, <2>6, <3>2 DEF VerifiedInv
            <3> QED BY <3>1, <3>2
      <2> QED BY <2>1, <2>5, <2>6 DEF VerifiedInv, tables
<1>3. ASSUME NEW v \in Videos, PublishVideo(v) \/ RollBackPublish(v)
      PROVE  VerifiedInv'
      <2>1. /\ UNCHANGED <<objects, worker>> /\ publisher[v].pc = "verifying" /\ publisher'[v].pc = "idle"
            /\ \A u \in Videos \ {v} :
                  seen'[u] = seen[u] /\ rendition'[u] = rendition[u] /\ publisher'[u] = publisher[u]
            BY <1>3 DEF PublishVideo, RollBackPublish, Unwatch, IdlePublisher, TypeInv, TypeOK, tables, store
      <2>2. ~Locked(v)'
            BY <2>1 DEF Locked, HeldRows
      <2> QED BY <2>1, <2>2, VerifiedFrame
<1>4. ASSUME UNCHANGED <<objects, worker, publisher, seen, rendition>>
      PROVE  VerifiedInv'
      BY <1>4, VerifiedFrame
<1> QED BY <1>1, <1>2, <1>3, <1>4
        DEF PublicationNext, TombstoneVideo, ObserveManifest, ObserveSegment, Observe, Respond,
            tables, store, held

LEMMA VerifiedInvariant == Spec => []VerifiedInv
PROOF
<1>1. Init => VerifiedInv
      BY DEF Init, VerifiedInv, Locked, IdleWorker, IdlePublisher
<1>2. TypeInv /\ AgreeInv /\ VerifiedInv /\ [Next]_vars => VerifiedInv'
      <2>1. ASSUME TypeInv, AgreeInv, VerifiedInv, EnvironmentNext \/ UNCHANGED vars PROVE VerifiedInv'
            <3>1. objects' \subseteq objects
                  BY <2>1 DEF EnvironmentNext, Tick, DamageObject, vars, store
            <3>2. UNCHANGED <<worker, publisher, rendition, seen>>
                  BY <2>1, EnvironmentFrame DEF vars, tables, held
            <3> QED BY <2>1, <3>1, <3>2, VerifiedFrame
      <2> QED BY <2>1, VerifiedUpload, VerifiedWorker, VerifiedPublication DEF Next, AgreeInv
<1> QED BY <1>1, <1>2, TypeInvariant, AgreeInvariant, PTL DEF Spec

\* However long a transaction verifies, and whatever is damaged, stored or restored
\* meanwhile, a rendition it makes ready or published is one of whose declared source
\* every object was intact at some moment since the rows were locked.
THEOREM CommitsVerified == Spec => CommitsVerifiedObjects
PROOF
<1>1. ASSUME TypeInv, AgreeInv, SourceInv, RenditionMatchesDeclaredSource, VerifiedInv, [Next]_vars,
             NEW v \in Videos, rendition'[v].state # rendition[v].state
      PROVE  LET manifest == Manifest(Content(upload[v].intent.expectedSha256), SegmentBytes)
             IN  {Sha256Manifest(manifest)} \cup DigestsIn(manifest.segments) \subseteq seen[v]
      <2> DEFINE source == Content(upload[v].intent.expectedSha256)
      <2>1. Manifest(source, SegmentBytes).segments = Segments(source, SegmentBytes)
            BY DEF Manifest
      <2>2. ASSUME NEW w \in Workers, worker[w].video = v, CommitReady(w)
            PROVE  ObjectsOf(source) \subseteq seen[v]
            <3>1. worker[w].pc = "verifying" /\ worker[w].todo = <<>>
                  BY <2>2 DEF CommitReady
            <3>2. worker[w].source = source
                  BY <1>1, <2>2, <3>1 DEF SourceInv, RunsWorkOnJobSource, JobsUseDeclaredSource
            <3>3. Elements(worker[w].todo) = {}
                  BY <3>1 DEF Elements
            <3> QED BY <1>1, <2>2, <3>1, <3>2, <3>3 DEF VerifiedInv
      <2>3. ASSUME PublishVideo(v)
            PROVE  ObjectsOf(source) \subseteq seen[v]
            <3>1. publisher[v].pc = "verifying" /\ publisher[v].todo = <<>>
                  BY <2>3 DEF PublishVideo
            <3>2. rendition[v].state # "absent"
                  BY <1>1, <3>1 DEF AgreeInv, HeldRows
            <3>3. {rendition[v].manifest} \cup DigestsIn(rendition[v].segments) = ObjectsOf(source)
                  BY <1>1, <3>2 DEF RenditionMatchesDeclaredSource, ObjectsOf
            <3>4. DigestsIn(publisher[v].todo) = {}
                  BY <3>1 DEF DigestsIn
            <3> QED BY <1>1, <3>1, <3>3, <3>4 DEF VerifiedInv
      <2>4. ObjectsOf(source) \subseteq seen[v]
            BY <1>1, <2>2, <2>3, RenditionWriters
      <2> QED BY <2>1, <2>4 DEF ObjectsOf
<1>2. TypeInv /\ AgreeInv /\ SourceInv /\ RenditionMatchesDeclaredSource /\ VerifiedInv /\ [Next]_vars =>
          [\A v \in Videos :
              rendition'[v].state # rendition[v].state =>
                  LET manifest == Manifest(Content(upload[v].intent.expectedSha256), SegmentBytes)
                  IN  {Sha256Manifest(manifest)} \cup DigestsIn(manifest.segments) \subseteq seen[v]]_vars
      BY <1>1
<1> QED BY <1>2, TypeInvariant, AgreeInvariant, SourceInvariant, RenditionsMatch, VerifiedInvariant, PTL
        DEF Spec, CommitsVerifiedObjects
====
