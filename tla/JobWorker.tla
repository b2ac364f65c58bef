---- MODULE JobWorker ----
(***************************************************************************)
(* runOneJob of video-service.js with the claimJob and materializeJob it   *)
(* calls.  A run draws a token, samples the clock, claims a job, samples   *)
(* the clock again, reads the job row without a lock, installs the objects *)
(* of the artifact one by one, samples the clock a third time, locks the   *)
(* job and the video, verifies the objects one by one and commits the      *)
(* rendition.  Other processes run between any two of these steps, and the *)
(* process may die at each of them.                                        *)
(***************************************************************************)
EXTENDS RepositoryState

\* Mutant: workers draw their token from a source that repeats itself.
TokensInUse_Forgotten == {}

\* randomUUID: no running worker and no row knows the token yet.
TokensInUse ==
    {worker[w].token : w \in Workers}
        \cup {t \in Tokens : \E v \in Videos : Sha256Token(t) \in {job[v].lease, job[v].completion}}

\* Mutant: any processing job passes for the worker's own.
LeaseHeld_AnyToken(j, token, at) == j.state = "processing" /\ j.leaseUntil > at

\* The job is processing under this token and the lease ends after the sample.
LeaseHeld(j, token, at) ==
    /\ j.state = "processing"
    /\ j.lease = Sha256Token(token)
    /\ j.leaseUntil > at

\* Mutant: a processing job is claimable while its lease lasts.
Claimable_DuringLease(v, at) ==
    /\ video[v].state \notin {"absent", "tombstoned"}
    /\ job[v].state \in {"queued", "processing"}

\* The row condition of claimJob's SELECT at the sampled time.
Claimable(v, at) ==
    /\ video[v].state \notin {"absent", "tombstoned"}
    /\ \/ job[v].state = "queued"
       \/ job[v].state = "processing" /\ job[v].leaseUntil <= at

\* Mutant: the lease is given no end.
Leased_NoDeadline(j, token, at) ==
    [j EXCEPT !.state = "processing", !.lease = Sha256Token(token), !.leaseUntil = NULL]

\* The job row as claimJob updates it.
Leased(j, token, at) ==
    [j EXCEPT !.state = "processing", !.lease = Sha256Token(token), !.leaseUntil = at + LeaseMs]

StartRun(w, token) ==
    /\ worker[w].pc = "idle"
    /\ token \notin TokensInUse
    /\ worker' = [worker EXCEPT ![w] = [@ EXCEPT !.pc = "claiming", !.token = token, !.at = clock]]
    /\ UNCHANGED <<tables, store, clock, request, viewer, receipts, held>>

\* claimJob.  The oldest job comes first, but SKIP LOCKED passes over rows other
\* transactions hold, so any claimable job nobody has locked may be the one returned.
ClaimJob(w, v) ==
    /\ worker[w].pc = "claiming"
    /\ Claimable(v, worker[w].at)
    /\ ~Locked(v)
    /\ job' = [job EXCEPT ![v] = Leased(@, worker[w].token, worker[w].at)]
    /\ video' = [video EXCEPT ![v].state = IF @ \in {"queued", "processing"} THEN "processing" ELSE @]
    /\ worker' = [worker EXCEPT ![w] = [@ EXCEPT !.pc = "claimed", !.video = v]]
    /\ UNCHANGED <<upload, chunks, rendition, store, clock, request, viewer, receipts, held>>

\* startedAtMs = now(), and readyAtMs = now() once the objects are installed.
SampleClock(w) ==
    /\ \/ /\ worker[w].pc = "claimed"
          /\ worker' = [worker EXCEPT ![w] = [@ EXCEPT !.pc = "started", !.at = clock]]
       \/ /\ worker[w].pc = "installed"
          /\ worker' = [worker EXCEPT ![w] = [@ EXCEPT !.pc = "sampled", !.at = clock]]
    /\ UNCHANGED <<tables, store, clock, request, viewer, receipts, held>>

\* The digests of the objects of an artifact: each segment in order, then the manifest.
ArtifactDigests(source) ==
    LET segments == Segments(source, SegmentBytes)
    IN  Append([i \in 1..Len(segments) |-> segments[i].sha256],
               Sha256Manifest(Manifest(source, SegmentBytes)))

\* materializeJob reads the job row, then the source object, and builds the artifact.
BeginMaterialize(w) ==
    LET j == job[worker[w].video]
    IN  /\ worker[w].pc = "started"
        /\ LeaseHeld(j, worker[w].token, worker[w].at)
        /\ j.source \in objects
        /\ worker' = [worker EXCEPT ![w] = [@ EXCEPT !.pc = "installing",
                                                      !.source = Content(j.source),
                                                      !.todo = ArtifactDigests(Content(j.source))]]
        /\ UNCHANGED <<tables, store, clock, request, viewer, receipts, held>>

\* One put of the artifact.
InstallObject(w) ==
    LET rest == Tail(worker[w].todo)
        pc == IF rest = <<>> THEN "installed" ELSE "installing"
    IN  /\ worker[w].pc = "installing"
        /\ worker[w].todo # <<>>
        /\ Put(Head(worker[w].todo))
        /\ worker' = [worker EXCEPT ![w] = [@ EXCEPT !.pc = pc, !.todo = rest]]
        /\ UNCHANGED <<tables, clock, request, viewer, receipts, publisher>>

\* Mutant: the transaction trusts the check made before the objects were built.
CommitAllowed_NoRecheck(w) ==
    /\ worker[w].pc = "sampled"
    /\ video[worker[w].video].state # "tombstoned"

\* The locked job against the third sample, and the locked video.
CommitAllowed(w) ==
    /\ worker[w].pc = "sampled"
    /\ LeaseHeld(job[worker[w].video], worker[w].token, worker[w].at)
    /\ video[worker[w].video].state # "tombstoned"

\* The transaction of materializeJob has locked both rows and goes on to verify.
LockReady(w) ==
    LET v == worker[w].video
    IN  /\ CommitAllowed(w)
        /\ ~Locked(v)
        /\ worker' = [worker EXCEPT ![w] = [@ EXCEPT !.pc = "verifying",
                                                      !.todo = ArtifactDigests(worker[w].source)]]
        /\ Watch(v)
        /\ UNCHANGED <<tables, store, clock, request, viewer, receipts, publisher>>

\* One object of the artifact is read back and found intact.
VerifyArtifactObject(w) ==
    /\ worker[w].pc = "verifying"
    /\ worker[w].todo # <<>>
    /\ Head(worker[w].todo) \in objects
    /\ worker' = [worker EXCEPT ![w] = [@ EXCEPT !.todo = Tail(worker[w].todo)]]
    /\ UNCHANGED <<tables, store, clock, request, viewer, receipts, held>>

\* The job row as materializeJob updates it.
Completed(j, token) ==
    [j EXCEPT !.state = "completed", !.lease = NULL, !.leaseUntil = 0, !.completion = Sha256Token(token)]

\* Every object was found: the writes of the transaction, and COMMIT.
CommitReady(w) ==
    LET v == worker[w].video
        manifest == Manifest(worker[w].source, SegmentBytes)
    IN  /\ worker[w].pc = "verifying"
        /\ worker[w].todo = <<>>
        /\ rendition' = [rendition EXCEPT ![v] = [state |-> "ready", manifest |-> Sha256Manifest(manifest),
                                                  segments |-> manifest.segments]]
        /\ job' = [job EXCEPT ![v] = Completed(@, worker[w].token)]
        /\ video' = [video EXCEPT ![v].state = "ready", ![v].active = NULL]
        /\ worker' = [worker EXCEPT ![w] = IdleWorker]
        /\ Unwatch(v)
        /\ UNCHANGED <<upload, chunks, store, clock, request, viewer, receipts, publisher>>

\* An object is missing or altered, a call fails or the process dies: ROLLBACK.
RollBackReady(w) ==
    /\ worker[w].pc = "verifying"
    /\ worker' = [worker EXCEPT ![w] = IdleWorker]
    /\ Unwatch(worker[w].video)
    /\ UNCHANGED <<tables, store, clock, request, viewer, receipts, publisher>>

\* No job was returned, a check refused, a call failed or the process died: every
\* one of these leaves the tables and the installed objects as they are.
StopRun(w) ==
    /\ worker[w].pc \notin {"idle", "verifying"}
    /\ worker' = [worker EXCEPT ![w] = IdleWorker]
    /\ UNCHANGED <<tables, store, clock, request, viewer, receipts, held>>
====
