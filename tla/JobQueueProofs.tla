---- MODULE JobQueueProofs ----
(***************************************************************************)
(* Theorems about JobQueue, for every number of jobs and worker slots and  *)
(* every length of a lease: jobs that need a lease or more never complete, *)
(* jobs that need less are never run twice at a time.                      *)
(***************************************************************************)
EXTENDS JobQueue, TLAPS

Runs == [job : Jobs, work : Nat]

\* The slot that has the token of a row is running its job, and time passes for the
\* lease and for the work alike.
OwnersOK ==
    /\ \A j \in Jobs, w \in Workers : owner[j] = w => run[w] # NULL /\ run[w].job = j
    /\ \A j \in Jobs : owner[j] # NULL /\ left[j] > 0
                           => left[j] + Duration[j] = Lease + run[owner[j]].work

\* A run has claimed its job, and if the job can be done in time has it still.
RunsOK ==
    \A w \in Workers : run[w] # NULL =>
        /\ job[run[w].job] \notin {"absent", "queued"}
        /\ run[w].job \in Healthy /\ job[run[w].job] = "processing"
               => owner[run[w].job] = w /\ left[run[w].job] > 0

QueueInv ==
    /\ TypeOK
    /\ run \in [Workers -> Runs \cup {NULL}]
    /\ OwnersOK
    /\ RunsOK
    /\ SlowJobsNeverComplete

LEMMA QueueInit == Init => QueueInv
BY QueueAssumption
   DEF Init, QueueInv, TypeOK, Runs, OwnersOK, RunsOK, SlowJobsNeverComplete, Slow

\* Jobs arrive, and videos are deleted, without disturbing a run.
LEMMA RowsKeep ==
    ASSUME QueueInv, NEW j \in Jobs, Arrive(j) \/ Cancel(j)
    PROVE  QueueInv'
<1> USE QueueAssumption
<1>1. CASE Arrive(j)
  <2>1. TypeOK'
    BY <1>1 DEF Arrive, QueueInv, TypeOK
  <2>2. OwnersOK' /\ RunsOK' /\ SlowJobsNeverComplete'
    BY <1>1 DEF Arrive, QueueInv, TypeOK, Runs, OwnersOK, RunsOK, SlowJobsNeverComplete, Slow, Healthy
  <2> QED
    BY <1>1, <2>1, <2>2 DEF Arrive, QueueInv
<1>2. CASE Cancel(j)
  <2>1. TypeOK'
    BY <1>2 DEF Cancel, QueueInv, TypeOK
  <2>2. OwnersOK'
    BY <1>2 DEF Cancel, QueueInv, TypeOK, Runs, OwnersOK
  <2>3. RunsOK' /\ SlowJobsNeverComplete'
    BY <1>2 DEF Cancel, QueueInv, TypeOK, Runs, RunsOK, SlowJobsNeverComplete, Slow, Healthy
  <2> QED
    BY <1>2, <2>1, <2>2, <2>3 DEF Cancel, QueueInv
<1> QED
  BY <1>1, <1>2

\* A claim takes a job nobody runs, or one that is too slow or cannot be built.
LEMMA ClaimKeeps ==
    ASSUME QueueInv, NEW w \in Workers, NEW j \in Jobs, ClaimJob(w, j)
    PROVE  QueueInv'
<1> USE QueueAssumption
<1>1. PICK r \in Runs : r.job = j /\ r.work = Duration[j] /\ run' = [run EXCEPT ![w] = r]
  BY DEF ClaimJob, Runs
<1>2. /\ run[w] = NULL /\ Claimable(j) /\ UNCHANGED <<rest, crashes>>
      /\ job' = [job EXCEPT ![j] = "processing"] /\ left' = [left EXCEPT ![j] = Lease]
      /\ owner' = [owner EXCEPT ![j] = w] /\ r # NULL /\ w # NULL
  BY DEF ClaimJob, Ready, FirstInLine, Runs
<1>3. TypeOK'
  BY <1>1, <1>2 DEF QueueInv, TypeOK, Runs
<1>4. run' \in [Workers -> Runs \cup {NULL}]
  BY <1>1, <1>2 DEF QueueInv
<1>5. OwnersOK'
  <2>1. ASSUME NEW k \in Jobs, NEW v \in Workers, owner'[k] = v PROVE run'[v] # NULL /\ run'[v].job = k
    BY <1>1, <1>2, <2>1 DEF QueueInv, TypeOK, OwnersOK
  <2>2. ASSUME NEW k \in Jobs, owner'[k] # NULL, left'[k] > 0
        PROVE  left'[k] + Duration[k] = Lease + run'[owner'[k]].work
    BY <1>1, <1>2, <2>2 DEF QueueInv, TypeOK, OwnersOK
  <2> QED
    BY <2>1, <2>2 DEF OwnersOK
<1>6. RunsOK'
  <2> SUFFICES ASSUME NEW v \in Workers, run'[v] # NULL
               PROVE  /\ job'[run'[v].job] \notin {"absent", "queued"}
                      /\ run'[v].job \in Healthy /\ job'[run'[v].job] = "processing"
                             => owner'[run'[v].job] = v /\ left'[run'[v].job] > 0
    BY DEF RunsOK
  <2>1. CASE v = w
    BY <1>1, <1>2, <2>1 DEF QueueInv, TypeOK
  <2>2. CASE v # w
    <3>1. run'[v] = run[v] /\ run[v].job \in Jobs
      BY <1>1, <2>2 DEF QueueInv, TypeOK
    <3>2. CASE run[v].job = j
      <4>1. job[j] = "processing" /\ left[j] = 0 /\ j \notin Healthy
        BY <1>2, <3>1, <3>2 DEF QueueInv, RunsOK, Claimable
      <4> QED
        BY <1>2, <3>1, <3>2, <4>1 DEF QueueInv, TypeOK
    <3>3. CASE run[v].job # j
      BY <1>2, <3>1, <3>3 DEF QueueInv, TypeOK, RunsOK
    <3> QED
      BY <3>2, <3>3
  <2> QED
    BY <2>1, <2>2
<1>7. SlowJobsNeverComplete'
  BY <1>2 DEF QueueInv, TypeOK, SlowJobsNeverComplete, Slow
<1> QED
  BY <1>3, <1>4, <1>5, <1>6, <1>7 DEF QueueInv

\* A run ends, and nobody has its token any more.
LEMMA EndKeeps ==
    ASSUME QueueInv, NEW w \in Workers, FinishRun(w) \/ FailRun(w) \/ CrashRun(w)
    PROVE  QueueInv'
<1> USE QueueAssumption
<1>1. /\ run[w] # NULL /\ run[w] \in Runs /\ run' = [run EXCEPT ![w] = NULL]
      /\ rest' = [rest EXCEPT ![w] = Pause] /\ crashes' \in 0..MaxCrashes
      /\ owner' = [j \in Jobs |-> IF owner[j] = w THEN NULL ELSE owner[j]]
  BY DEF FinishRun, FailRun, CrashRun, Stop, Forget, QueueInv, TypeOK
<1>2. PICK j \in Jobs : j = run[w].job
  BY <1>1 DEF Runs
<1>3. \/ UNCHANGED <<job, left>>
      \/ /\ owner[j] = w /\ j \notin Slow
         /\ job' = [job EXCEPT ![j] = "completed"] /\ left' = [left EXCEPT ![j] = 0]
  <2>1. CASE FinishRun(w) /\ LeaseHeld(w)
    <3>1. /\ run[w].work = 0 /\ owner[j] = w /\ left[j] > 0
          /\ job' = [job EXCEPT ![j] = "completed"] /\ left' = [left EXCEPT ![j] = 0]
      BY <1>2, <2>1 DEF FinishRun, LeaseHeld
    <3>2. left[j] + Duration[j] = Lease
      <4>1. owner[j] # NULL
        BY <3>1
      <4>2. left[j] + Duration[j] = Lease + run[w].work
        BY <3>1, <4>1 DEF QueueInv, OwnersOK
      <4> QED
        BY <3>1, <4>2
    <3>3. j \notin Slow
      BY <3>1, <3>2 DEF QueueInv, TypeOK, Slow
    <3> QED
      BY <3>1, <3>3
  <2> QED
    BY <2>1 DEF FinishRun, FailRun, CrashRun
<1>4. \A k \in Jobs : owner[k] = w => k = j
  BY <1>2 DEF QueueInv, OwnersOK
<1>5. TypeOK'
  <2>1. job' \in [Jobs -> {"absent", "queued", "processing", "completed", "cancelled"}]
        /\ left' \in [Jobs -> 0..Lease]
    BY <1>3 DEF QueueInv, TypeOK
  <2>2. owner' \in [Jobs -> Workers \cup {NULL}]
    BY <1>1 DEF QueueInv, TypeOK
  <2>3. \A v \in Workers :
            run'[v] # NULL => run'[v].job \in Jobs /\ run'[v].work \in 0..Duration[run'[v].job]
    BY <1>1 DEF QueueInv, TypeOK
  <2>4. rest' \in [Workers -> 0..Pause]
    BY <1>1 DEF QueueInv, TypeOK
  <2>5. ASSUME NEW k \in Jobs, left'[k] > 0 \/ owner'[k] # NULL PROVE job'[k] = "processing"
    <3>1. owner'[k] # NULL => owner[k] # NULL /\ owner[k] # w
      BY <1>1
    <3>2. left'[k] > 0 => left[k] > 0
      BY <1>3 DEF QueueInv, TypeOK
    <3>3. job[k] = "processing"
      BY <2>5, <3>1, <3>2 DEF QueueInv, TypeOK
    <3>4. CASE UNCHANGED <<job, left>>
      BY <3>3, <3>4
    <3>5. CASE /\ owner[j] = w
               /\ job' = [job EXCEPT ![j] = "completed"] /\ left' = [left EXCEPT ![j] = 0]
      <4>1. k # j
        BY <2>5, <3>1, <3>5 DEF QueueInv, TypeOK
      <4> QED
        BY <3>3, <3>5, <4>1 DEF QueueInv, TypeOK
    <3> QED
      BY <1>3, <3>4, <3>5
  <2> QED
    BY <1>1, <2>1, <2>2, <2>3, <2>4, <2>5 DEF TypeOK
<1>6. run' \in [Workers -> Runs \cup {NULL}]
  BY <1>1 DEF QueueInv
<1>7. OwnersOK'
  <2>1. ASSUME NEW k \in Jobs, NEW v \in Workers, owner'[k] = v PROVE run'[v] # NULL /\ run'[v].job = k
    BY <1>1, <2>1 DEF QueueInv, TypeOK, OwnersOK
  <2>2. ASSUME NEW k \in Jobs, owner'[k] # NULL, left'[k] > 0
        PROVE  left'[k] + Duration[k] = Lease + run'[owner'[k]].work
    <3>1. owner'[k] = owner[k] /\ owner[k] # NULL /\ owner[k] # w /\ owner[k] \in Workers
      BY <1>1, <2>2 DEF QueueInv, TypeOK
    <3>2. left'[k] = left[k] /\ run'[owner[k]] = run[owner[k]]
      BY <1>1, <1>3, <2>2, <3>1 DEF QueueInv, TypeOK
    <3>3. left[k] + Duration[k] = Lease + run[owner[k]].work
      BY <2>2, <3>1, <3>2 DEF QueueInv, OwnersOK
    <3> QED
      BY <3>1, <3>2, <3>3
  <2> QED
    BY <2>1, <2>2 DEF OwnersOK
<1>8. RunsOK'
  <2> SUFFICES ASSUME NEW v \in Workers, run'[v] # NULL
               PROVE  /\ job'[run'[v].job] \notin {"absent", "queued"}
                      /\ run'[v].job \in Healthy /\ job'[run'[v].job] = "processing"
                             => owner'[run'[v].job] = v /\ left'[run'[v].job] > 0
    BY DEF RunsOK
  <2>1. v # w /\ run'[v] = run[v]
    BY <1>1 DEF QueueInv
  <2>2. PICK k \in Jobs : k = run[v].job
    BY <2>1 DEF QueueInv, TypeOK
  <2>3. /\ job[k] \notin {"absent", "queued"}
        /\ k \in Healthy /\ job[k] = "processing" => owner[k] = v /\ left[k] > 0
    BY <2>1, <2>2 DEF QueueInv, RunsOK
  <2>4. job'[k] \notin {"absent", "queued"} /\ (job'[k] = "processing" => job[k] = "processing")
    BY <1>3, <2>3 DEF QueueInv, TypeOK
  <2>5. job'[k] = "processing" /\ owner[k] = v => owner'[k] = v /\ left'[k] = left[k]
    BY <1>1, <1>3, <2>1 DEF QueueInv, TypeOK
  <2> QED
    BY <2>1, <2>2, <2>3, <2>4, <2>5
<1>9. SlowJobsNeverComplete'
  BY <1>3 DEF QueueInv, TypeOK, SlowJobsNeverComplete, Slow
<1> QED
  BY <1>5, <1>6, <1>7, <1>8, <1>9 DEF QueueInv

\* Time passes: nobody has anything to do, so whoever has a job has work left.
LEMMA TickKeeps ==
    ASSUME QueueInv, Tick
    PROVE  QueueInv'
<1> USE QueueAssumption
<1>1. /\ UNCHANGED <<job, owner, crashes>>
      /\ \A j \in Jobs : left'[j] = Less(left[j])
      /\ left' \in [Jobs -> 0..Lease] /\ rest' \in [Workers -> 0..Pause]
  BY DEF Tick, Less, QueueInv, TypeOK
<1>2. ASSUME NEW w \in Workers, run[w] # NULL
      PROVE  /\ run[w] \in Runs /\ run[w].work > 0 /\ run[w].work <= Duration[run[w].job]
             /\ run'[w] # NULL /\ run'[w] \in Runs
             /\ run'[w].job = run[w].job /\ run'[w].work = run[w].work - 1
  <2>1. run[w] \in Runs /\ run[w].work # 0 /\ run[w].work \in 0..Duration[run[w].job]
    BY <1>2 DEF Tick, Due, QueueInv, TypeOK
  <2>2. run'[w] = [run[w] EXCEPT !.work = Less(run[w].work)]
    BY <1>2 DEF Tick
  <2>3. run'[w] \in Runs /\ run'[w].job = run[w].job /\ run'[w].work = run[w].work - 1
    BY <2>1, <2>2 DEF Runs, Less
  <2> QED
    BY <2>1, <2>3 DEF Runs
<1>3. \A w \in Workers : run[w] = NULL => run'[w] = NULL
  BY DEF Tick
<1>4. run' \in [Workers -> Runs \cup {NULL}]
  <2>1. DOMAIN run' = Workers /\ run' = [w \in Workers |-> run'[w]]
    BY DEF Tick
  <2> QED
    BY <1>2, <1>3, <2>1
<1>5. TypeOK'
  <2>1. \A w \in Workers :
            run'[w] # NULL => run'[w].job \in Jobs /\ run'[w].work \in 0..Duration[run'[w].job]
    <3> SUFFICES ASSUME NEW w \in Workers, run'[w] # NULL
                 PROVE  run'[w].job \in Jobs /\ run'[w].work \in 0..Duration[run'[w].job]
      OBVIOUS
    <3>1. run[w] # NULL
      BY <1>3
    <3>2. /\ run[w].job \in Jobs /\ run[w].work \in Nat /\ Duration[run[w].job] \in Nat
          /\ run[w].work > 0 /\ run[w].work <= Duration[run[w].job]
          /\ run'[w].job = run[w].job /\ run'[w].work = run[w].work - 1
      BY <1>2, <3>1 DEF Runs
    <3> QED
      BY <3>2
  <2>2. \A j \in Jobs : left'[j] > 0 \/ owner[j] # NULL => job[j] = "processing"
    BY <1>1 DEF Less, QueueInv, TypeOK
  <2> QED
    BY <1>1, <2>1, <2>2 DEF QueueInv, TypeOK
<1>6. OwnersOK'
  <2>1. ASSUME NEW j \in Jobs, NEW w \in Workers, owner[j] = w PROVE run'[w] # NULL /\ run'[w].job = j
    BY <1>2, <2>1 DEF QueueInv, OwnersOK
  <2>2. ASSUME NEW j \in Jobs, owner[j] # NULL, left'[j] > 0
        PROVE  left'[j] + Duration[j] = Lease + run'[owner[j]].work
    <3>1. PICK w \in Workers : owner[j] = w
      BY <2>2 DEF QueueInv, TypeOK
    <3>2. run[w] # NULL /\ left[j] \in Nat /\ left[j] > 0 /\ left'[j] = left[j] - 1
      BY <1>1, <2>2, <3>1 DEF Less, QueueInv, TypeOK, OwnersOK
    <3>3. left[j] + Duration[j] = Lease + run[w].work
      BY <2>2, <3>1, <3>2 DEF QueueInv, OwnersOK
    <3>4. run[w].work \in Nat /\ run'[w].work = run[w].work - 1
      BY <1>2, <3>2 DEF Runs
    <3> QED
      BY <3>1, <3>2, <3>3, <3>4
  <2> QED
    BY <1>1, <2>1, <2>2 DEF OwnersOK
<1>7. RunsOK'
  <2> SUFFICES ASSUME NEW w \in Workers, run'[w] # NULL
               PROVE  /\ job[run'[w].job] \notin {"absent", "queued"}
                      /\ run'[w].job \in Healthy /\ job[run'[w].job] = "processing"
                             => owner[run'[w].job] = w /\ left'[run'[w].job] > 0
    BY <1>1 DEF RunsOK
  <2>1. run[w] # NULL /\ run'[w].job = run[w].job
    BY <1>2, <1>3
  <2>2. PICK j \in Jobs : j = run[w].job
    BY <2>1 DEF QueueInv, TypeOK
  <2>3. ASSUME j \in Healthy, job[j] = "processing" PROVE owner[j] = w /\ left'[j] > 0
    <3>1. owner[j] = w /\ left[j] > 0
      BY <2>1, <2>2, <2>3 DEF QueueInv, RunsOK
    <3>2. left[j] + Duration[j] = Lease + run[w].work
      BY <3>1 DEF QueueInv, TypeOK, OwnersOK
    <3>3. run[w].work \in Nat /\ run[w].work > 0 /\ Duration[j] < Lease /\ left[j] \in Nat
      <4>1. run[w].work \in Nat /\ run[w].work > 0
        BY <1>2, <2>1 DEF Runs
      <4>2. Duration[j] < Lease
        BY <2>3 DEF Healthy, Slow
      <4>3. left[j] \in Nat
        BY DEF QueueInv, TypeOK
      <4> QED
        BY <4>1, <4>2, <4>3
    <3>4. left[j] > 1
      BY <3>2, <3>3
    <3>5. left'[j] = Less(left[j])
      BY <1>1
    <3>6. left'[j] > 0
      BY <3>3, <3>4, <3>5 DEF Less
    <3> QED
      BY <3>1, <3>6
  <2>4. job[j] \notin {"absent", "queued"}
    BY <2>1, <2>2 DEF QueueInv, RunsOK
  <2> QED
    BY <2>1, <2>2, <2>3, <2>4
<1>8. SlowJobsNeverComplete'
  BY <1>1 DEF QueueInv, SlowJobsNeverComplete, Slow
<1> QED
  BY <1>4, <1>5, <1>6, <1>7, <1>8 DEF QueueInv

LEMMA QueueNext == QueueInv /\ [Next]_vars => QueueInv'
<1> SUFFICES ASSUME QueueInv, [Next]_vars PROVE QueueInv'
  OBVIOUS
<1>1. ASSUME NEW w \in Workers, FindNothing(w) PROVE QueueInv'
  <2>1. rest' \in [Workers -> 0..Pause] /\ UNCHANGED <<job, left, owner, run, crashes>>
    BY <1>1, QueueAssumption DEF FindNothing, QueueInv, TypeOK
  <2> QED
    BY <2>1 DEF QueueInv, TypeOK, OwnersOK, RunsOK, SlowJobsNeverComplete, Slow
<1>2. CASE UNCHANGED vars
  BY <1>2 DEF vars, QueueInv, TypeOK, OwnersOK, RunsOK, SlowJobsNeverComplete, Slow
<1> QED
  BY <1>1, <1>2, RowsKeep, ClaimKeeps, EndKeeps, TickKeeps DEF Next, WorkerStep

LEMMA QueueHolds == Spec => []QueueInv
BY QueueInit, QueueNext, PTL DEF Spec

\* Every reachable state of the queue is well typed, and a lease is on a processing row.
THEOREM QueueTypes == Spec => []TypeOK
<1>1. QueueInv => TypeOK
  BY DEF QueueInv
<1> QED
  BY <1>1, QueueHolds, PTL

\* A job whose artifact takes a lease or more never completes, whatever the number of
\* workers and however often it is retried.
THEOREM SlowNeverComplete == Spec => []SlowJobsNeverComplete
<1>1. QueueInv => SlowJobsNeverComplete
  BY DEF QueueInv
<1> QED
  BY <1>1, QueueHolds, PTL

\* A job whose artifact takes less than a lease is never run by two workers at a time
\* while its row is processing.
THEOREM HealthyRunOnce == Spec => []HealthyJobsRunOnce
<1>1. QueueInv => HealthyJobsRunOnce
  BY DEF QueueInv, RunsOK, HealthyJobsRunOnce
<1> QED
  BY <1>1, QueueHolds, PTL
====
