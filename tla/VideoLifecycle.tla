---- MODULE VideoLifecycle ----
(***************************************************************************)
(* What the origin promises about the life of a video, without tokens,     *)
(* leases, chunks, objects, locks or processes: the state of each of the   *)
(* four tables and the six changes a client or an operator can bring       *)
(* about.  VideoRepository implements it with handlers and workers whose   *)
(* transactions are one step each, RowLocks with the transactions taken    *)
(* apart into statements and row locks.                                    *)
(*                                                                         *)
(* Two clauses of the promise are easily lost: whatever closes or deletes  *)
(* a video leaves no unfinished work, and work is finished only for a      *)
(* video that is still wanted.  Seal reflects a weakness of the code: the  *)
(* finalization of an open upload queues the video whatever its stage.     *)
(***************************************************************************)
EXTENDS Naturals

CONSTANT Videos

VARIABLES
    stage,      \* where the video is: "absent" .. "published", "tombstoned"
    intake,     \* its upload: "absent", "uploading", "finalized"
    work,       \* its job: "absent", "queued", "processing", "completed", "cancelled"
    output,     \* its rendition: "absent", "ready", "published"
    deletions   \* how often it was deleted

lifecycle == <<stage, intake, work, output, deletions>>

Init ==
    /\ stage = [v \in Videos |-> "absent"]
    /\ intake = [v \in Videos |-> "absent"]
    /\ work = [v \in Videos |-> "absent"]
    /\ output = [v \in Videos |-> "absent"]
    /\ deletions = [v \in Videos |-> 0]

Open(v) ==
    /\ stage[v] = "absent"
    /\ stage' = [stage EXCEPT ![v] = "uploading"]
    /\ intake' = [intake EXCEPT ![v] = "uploading"]
    /\ UNCHANGED <<work, output, deletions>>

Seal(v) ==
    /\ intake[v] = "uploading" /\ work[v] = "absent"
    /\ stage' = [stage EXCEPT ![v] = "queued"]
    /\ intake' = [intake EXCEPT ![v] = "finalized"]
    /\ work' = [work EXCEPT ![v] = "queued"]
    /\ UNCHANGED <<output, deletions>>

\* A run takes the job, or takes it over from another run.
Take(v) ==
    /\ stage[v] \in {"queued", "processing"}
    /\ work[v] = stage[v]
    /\ stage' = [stage EXCEPT ![v] = "processing"]
    /\ work' = [work EXCEPT ![v] = "processing"]
    /\ UNCHANGED <<intake, output, deletions>>

Finish(v) ==
    /\ stage[v] = "processing" /\ work[v] = "processing" /\ output[v] = "absent"
    /\ stage' = [stage EXCEPT ![v] = "ready"]
    /\ work' = [work EXCEPT ![v] = "completed"]
    /\ output' = [output EXCEPT ![v] = "ready"]
    /\ UNCHANGED <<intake, deletions>>

Publish(v) ==
    /\ stage[v] = "ready" /\ output[v] = "ready"
    /\ stage' = [stage EXCEPT ![v] = "published"]
    /\ output' = [output EXCEPT ![v] = "published"]
    /\ UNCHANGED <<intake, work, deletions>>

\* Nothing stays queued or processing for a deleted video.
Delete(v) ==
    /\ stage[v] \notin {"absent", "tombstoned"}
    /\ stage' = [stage EXCEPT ![v] = "tombstoned"]
    /\ work' = [work EXCEPT ![v] = IF @ \in {"queued", "processing"} THEN "cancelled" ELSE @]
    /\ deletions' = [deletions EXCEPT ![v] = @ + 1]
    /\ UNCHANGED <<intake, output>>

Next ==
    \E v \in Videos :
        Open(v) \/ Seal(v) \/ Take(v) \/ Finish(v) \/ Publish(v) \/ Delete(v)

Spec == Init /\ [][Next]_lifecycle
====
