---- MODULE JobQueue ----
(***************************************************************************)
(* Who gets to run when: the queue of processing_jobs as the worker-once   *)
(* processes of one host work it off, in coarse time.  JobWorker says what *)
(* a run may write; here a run is a job, the time its artifact still takes *)
(* and an end, and the questions are which jobs ever end, which are run    *)
(* twice, and who waits for whom.                                          *)
(*                                                                         *)
(* A tick is the unit of LEASE_MS.  Calls take no time of their own: all a *)
(* run needs is in Duration, all a scheduler waits before it starts the    *)
(* next worker-once is in Pause.  A job no artifact can be built for (its  *)
(* source object is missing or altered) is poisoned: its run fails at once *)
(* and, as materializeJob has no transition for failure, leaves the row to *)
(* its lease.  Rows locked for an instant are not skipped.                 *)
(***************************************************************************)
EXTENDS Naturals, FiniteSetsExt

CONSTANTS
    Jobs,       \* numbered in the order of created_at_ms
    Workers,    \* slots in which a scheduler starts worker-once
    Duration,   \* ticks an artifact takes, from the claim to the ready transaction
    Poisoned,   \* jobs whose materialization fails
    Lease,      \* LEASE_MS
    Pause,      \* ticks between two runs of a slot
    MaxCrashes, \* bound: runs that die
    NULL

ASSUME QueueAssumption ==
    /\ Jobs \subseteq Nat
    /\ Duration \in [Jobs -> Nat]
    /\ Poisoned \subseteq Jobs
    /\ Lease \in Nat \ {0} /\ Pause \in Nat \ {0} /\ MaxCrashes \in Nat
    /\ NULL \notin Workers \cup [job : Jobs, work : Nat]

VARIABLES
    job,        \* state of a row
    left,       \* ticks until lease_until_ms
    owner,      \* the slot whose current run has the token of the row, or NULL
    run,        \* what a slot works on: [job, work], or NULL
    rest,       \* ticks until the scheduler starts it again
    crashes

vars == <<job, left, owner, run, rest, crashes>>

Init ==
    /\ job = [j \in Jobs |-> "absent"]
    /\ left = [j \in Jobs |-> 0]
    /\ owner = [j \in Jobs |-> NULL]
    /\ run = [w \in Workers |-> NULL]
    /\ rest = [w \in Workers |-> 0]
    /\ crashes = 0

\* finalizeUpload samples created_at_ms first, so older jobs may arrive later.
Arrive(j) ==
    /\ job[j] = "absent"
    /\ job' = [job EXCEPT ![j] = "queued"]
    /\ UNCHANGED <<left, owner, run, rest, crashes>>

\* tombstoneVideo
Cancel(j) ==
    /\ job[j] \in {"queued", "processing"}
    /\ job' = [job EXCEPT ![j] = "cancelled"]
    /\ left' = [left EXCEPT ![j] = 0]
    /\ owner' = [owner EXCEPT ![j] = NULL]
    /\ UNCHANGED <<run, rest, crashes>>

\* Mutant: only queued jobs are claimed, nobody takes an expired lease over.
Claimable_QueuedOnly(j) == job[j] = "queued"

\* Mutant: the end of the lease is not looked at.
Claimable_DuringLease(j) == job[j] \in {"queued", "processing"}

Claimable(j) ==
    \/ job[j] = "queued"
    \/ job[j] = "processing" /\ left[j] = 0

\* ORDER BY created_at_ms LIMIT 1
FirstInLine(j) == Claimable(j) /\ \A k \in Jobs : Claimable(k) => j <= k

Ready(w) == run[w] = NULL /\ rest[w] = 0

ClaimJob(w, j) ==
    /\ Ready(w)
    /\ FirstInLine(j)
    /\ job' = [job EXCEPT ![j] = "processing"]
    /\ left' = [left EXCEPT ![j] = Lease]
    /\ owner' = [owner EXCEPT ![j] = w]
    /\ run' = [run EXCEPT ![w] = [job |-> j, work |-> Duration[j]]]
    /\ UNCHANGED <<rest, crashes>>

\* Mutant: a row stays with a run that is over.
Forget_Never(w) == UNCHANGED owner

\* Rows keep the hash of a token whose run is over, but nobody has the token.
Forget(w) == owner' = [j \in Jobs |-> IF owner[j] = w THEN NULL ELSE owner[j]]

Stop(w) ==
    /\ run' = [run EXCEPT ![w] = NULL]
    /\ rest' = [rest EXCEPT ![w] = Pause]

\* No job is claimable: no_processing_job.
FindNothing(w) ==
    /\ Ready(w)
    /\ \A j \in Jobs : ~Claimable(j)
    /\ rest' = [rest EXCEPT ![w] = Pause]
    /\ UNCHANGED <<job, left, owner, run, crashes>>

\* Mutant: the ready transaction looks at the token only.
LeaseHeld_Token(w) == owner[run[w].job] = w

\* The row has the token of this run and its lease has not ended.
LeaseHeld(w) == owner[run[w].job] = w /\ left[run[w].job] > 0

\* The artifact is built: the ready transaction completes the job or refuses.
FinishRun(w) ==
    /\ run[w] # NULL /\ run[w].job \notin Poisoned /\ run[w].work = 0
    /\ \/ /\ LeaseHeld(w)
          /\ job' = [job EXCEPT ![run[w].job] = "completed"]
          /\ left' = [left EXCEPT ![run[w].job] = 0]
       \/ /\ ~LeaseHeld(w)
          /\ UNCHANGED <<job, left>>
    /\ Forget(w)
    /\ Stop(w)
    /\ UNCHANGED crashes

\* materializeJob throws before it has built anything.
FailRun(w) ==
    /\ run[w] # NULL /\ run[w].job \in Poisoned
    /\ Forget(w)
    /\ Stop(w)
    /\ UNCHANGED <<job, left, crashes>>

CrashRun(w) ==
    /\ run[w] # NULL /\ crashes < MaxCrashes
    /\ crashes' = crashes + 1
    /\ Forget(w)
    /\ Stop(w)
    /\ UNCHANGED <<job, left>>

Less(n) == IF n = 0 THEN 0 ELSE n - 1

\* A slot that has something to do before time goes on.
Due(w) ==
    \/ Ready(w)
    \/ run[w] # NULL /\ (run[w].job \in Poisoned \/ run[w].work = 0)

Tick ==
    /\ \A w \in Workers : ~Due(w)
    /\ left' = [j \in Jobs |-> Less(left[j])]
    /\ run' = [w \in Workers |->
                  IF run[w] = NULL THEN NULL ELSE [run[w] EXCEPT !.work = Less(@)]]
    /\ rest' = [w \in Workers |-> Less(rest[w])]
    /\ UNCHANGED <<job, owner, crashes>>

WorkerStep(w) ==
    (\E j \in Jobs : ClaimJob(w, j)) \/ FindNothing(w) \/ FinishRun(w) \/ FailRun(w)

Next ==
    \/ \E j \in Jobs : Arrive(j) \/ Cancel(j)
    \/ \E w \in Workers : WorkerStep(w) \/ CrashRun(w)
    \/ Tick

Spec == Init /\ [][Next]_vars

\* Time passes, a scheduler starts each slot again after Pause, and a run that is
\* neither poisoned nor killed gets to its ready transaction.  The scheduler is an
\* assumption about the deployment: the repository includes none, its worker-once
\* handles at most one job and exits (docs/operations.md).  Nothing makes jobs
\* arrive, videos be deleted or processes die.
Fairness == WF_vars(Tick) /\ \A w \in Workers : WF_vars(WorkerStep(w))

FairSpec == Spec /\ Fairness

----------------------------------------------------------------------------
(* Properties.                                                             *)

\* Type invariant; a lease is on a processing row.
TypeOK ==
    /\ job \in [Jobs -> {"absent", "queued", "processing", "completed", "cancelled"}]
    /\ left \in [Jobs -> 0..Lease]
    /\ owner \in [Jobs -> Workers \cup {NULL}]
    /\ \A w \in Workers :
          run[w] # NULL => run[w].job \in Jobs /\ run[w].work \in 0..Duration[run[w].job]
    /\ rest \in [Workers -> 0..Pause]
    /\ crashes \in 0..MaxCrashes
    /\ \A j \in Jobs : left[j] > 0 \/ owner[j] # NULL => job[j] = "processing"

Slow == {j \in Jobs : Duration[j] >= Lease}
Healthy == Jobs \ (Slow \cup Poisoned)

\* The jobs that never end are claimed at most once per lease each, and take a slot
\* until the run and the pause after it are over: together they leave some of the
\* time of the slots to others.
SpareCapacity ==
    MapThenSumSet(LAMBDA j : Pause, Poisoned)
        + MapThenSumSet(LAMBDA j : Duration[j] + Pause, Slow \ Poisoned)
            < Cardinality(Workers) * Lease

\* If a scheduler starts the slots again and the jobs that never end leave spare
\* capacity, every job that can be finished within a lease is finished, or deleted,
\* although runs die and older jobs fail or are too slow for ever.
HealthyJobsClose ==
    SpareCapacity =>
        \A j \in Healthy : job[j] = "queued" ~> job[j] \in {"completed", "cancelled"}

\* A job that can be finished within a lease is never run by two workers at a time.
HealthyJobsRunOnce ==
    \A v, w \in Workers :
        v # w /\ run[v] # NULL /\ run[w] # NULL /\ run[v].job = run[w].job
            /\ job[run[v].job] = "processing" => run[v].job \notin Healthy

\* A job that needs a lease or more never completes, however often it is retried:
\* nothing renews a lease, and each run is refused at its ready transaction.
SlowJobsNeverComplete == \A j \in Slow : job[j] # "completed"
====
