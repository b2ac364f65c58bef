---- MODULE RowLocksProofs ----
(***************************************************************************)
(* Theorems about RowLocks: for any number of sessions, whatever           *)
(* transactions they run and wherever these are aborted, no update is      *)
(* lost, what a handler decided on is still true when it commits, only     *)
(* deletion and migration can close a circle of waiting sessions, and what *)
(* is committed is a behaviour of VideoLifecycle.                          *)
(*                                                                         *)
(* The argument is that of two-phase locking, made for each row a handler  *)
(* reads or writes: LocksInv says which locks a transaction holds at each  *)
(* of its statements, what it knows of the committed rows because nobody   *)
(* else may change them meanwhile, and what it has written.                *)
(***************************************************************************)
EXTENDS RowLocks, TLAPS

Upload == <<"upload", "for_update">>
Job == <<"job", "for_update">>
Video == <<"video", "for_update">>
VideoUpdate == <<"video", "no_key_update">>
VideoKey == <<"video", "key_share">>
Rendition == <<"rendition", "for_update">>
JobsTable == <<"processing_jobs", "row_exclusive">>
SegmentsTable == <<"rendition_segments", "row_exclusive">>

\* The statements of each kind of transaction.
PointsOf(kind) ==
    CASE kind = "none" -> {"none"}
      [] kind = "open" -> {"open.select", "open.insert", "commit"}
      [] kind = "chunk" -> {"chunk.lock", "chunk.video", "commit"}
      [] kind = "finalize" -> {"finalize.lock", "finalize.jobs", "finalize.insert",
                               "finalize.video", "commit"}
      [] kind = "claim" -> {"claim.select", "claim.lock", "claim.update", "claim.video", "commit"}
      [] kind = "ready" -> {"ready.lock", "ready.video", "ready.segments", "ready.complete",
                            "commit"}
      [] kind = "publish" -> {"publish.lock", "publish.rendition", "commit"}
      [] kind = "tombstone" -> {"tombstone.lock", "tombstone.video", "tombstone.jobs",
                                "tombstone.cancel", "commit"}
      [] kind = "foreign_tombstone" -> {"tombstone.lock", "tombstone.video"}
      [] kind = "migrate" -> {"migrate.jobs", "migrate.segments", "commit"}

\* A session has just begun: its transaction holds nothing yet.
FirstPoints == {"none", "open.select", "open.insert", "chunk.lock", "finalize.lock",
                "claim.select", "claim.lock", "ready.lock", "publish.lock", "tombstone.lock",
                "migrate.jobs"}

TxOK(t) ==
    /\ t = [kind |-> t.kind, at |-> t.at, inTime |-> t.inTime]
    /\ t.kind \in AllKinds \cup {"none"} /\ t.at \in PointsOf(t.kind) /\ t.inTime \in BOOLEAN

Shape ==
    /\ tx = [c \in Clients |-> tx[c]]
    /\ \A c \in Clients : TxOK(tx[c])
    /\ locks \in [Clients -> SUBSET ((Rows \cup Tables) \X Modes)]
    /\ draft = [c \in Clients |-> draft[c]]
    /\ run \in [Clients -> BOOLEAN]
    /\ expired \in BOOLEAN

\* The locks a transaction holds when it has come to a statement.
HoldsOK(c) ==
    LET at == tx[c].at
        ends(kind) == at = "commit" /\ tx[c].kind = kind
    IN  /\ at \in FirstPoints => locks[c] = {}
        /\ at \in {"chunk.video", "finalize.jobs"} \/ ends("open") => locks[c] = {Upload}
        /\ ends("chunk") => locks[c] = {Upload, VideoUpdate}
        /\ at = "finalize.insert" => locks[c] = {Upload, JobsTable}
        /\ at = "finalize.video" => locks[c] = {Upload, JobsTable, VideoKey}
        /\ ends("finalize") => locks[c] = {Upload, JobsTable, VideoKey, VideoUpdate}
        /\ at \in {"claim.update", "ready.video"} => locks[c] = {Job}
        /\ at = "claim.video" => locks[c] = {Job, JobsTable}
        /\ ends("claim") => locks[c] = {Job, JobsTable, VideoUpdate}
        /\ at = "ready.segments" => locks[c] = {Job, Video}
        /\ at = "ready.complete" => locks[c] = {Job, Video, SegmentsTable}
        /\ ends("ready") => locks[c] = {Job, Video, SegmentsTable, JobsTable}
        /\ at = "publish.rendition" => locks[c] = {Video}
        /\ ends("publish") => locks[c] = {Video, Rendition}
        /\ at = "tombstone.video" => locks[c] \in {{}, {Job}}
        /\ at = "tombstone.jobs" => locks[c] \in {{Video}, {Video, Job}}
        /\ at = "tombstone.cancel" \/ ends("tombstone") =>
              locks[c] \in {{Video, JobsTable}, {Video, Job, JobsTable}}
        /\ ends("tombstone") /\ JobIsLive => Job \in locks[c]
        /\ at = "migrate.segments" => locks[c] = {<<"processing_jobs", "share">>}
        /\ ends("migrate") =>
              locks[c] = {<<"processing_jobs", "share">>, <<"rendition_segments", "share">>}

\* What it knows of the committed rows, as long as it holds those locks.
KnowsOK(c) ==
    LET at == tx[c].at
        ends(kind) == at = "commit" /\ tx[c].kind = kind
    IN  /\ ends("open") => committed.upload.state = "absent"
        /\ at = "chunk.video" \/ ends("chunk") =>
              committed.upload.state = "uploading" /\ ~committed.upload.complete
        /\ at \in {"finalize.jobs", "finalize.insert", "finalize.video"} \/ ends("finalize") =>
              committed.upload.state = "uploading" /\ committed.upload.complete
        /\ at \in {"claim.update", "claim.video"} \/ ends("claim") => JobIsLive
        /\ at \in {"ready.video", "ready.segments", "ready.complete"} \/ ends("ready") =>
              committed.job.state = "processing" /\ committed.job.lease = c
        /\ at = "publish.rendition" \/ ends("publish") => committed.video.state = "ready"
        /\ ends("publish") => committed.rendition.state = "ready"
        /\ at \in {"tombstone.jobs", "tombstone.cancel"} \/ ends("tombstone") =>
              committed.video.state \notin {"absent", "tombstoned"}

Writes(c, rows) == DOMAIN draft[c] = rows

\* What it has written.
DraftOK(c) ==
    LET at == tx[c].at
        new == draft[c]
        ends(kind) == at = "commit" /\ tx[c].kind = kind
    IN  /\ at \in FirstPoints \cup {"claim.update", "ready.video", "ready.segments",
                                    "publish.rendition", "tombstone.video", "tombstone.jobs",
                                    "tombstone.cancel", "migrate.segments"} \/ ends("migrate")
              => Writes(c, {})
        /\ at = "chunk.video" => Writes(c, {"upload"})
        /\ ends("chunk") => Writes(c, {"upload", "video"}) /\ new["video"] = committed.video
        /\ at = "chunk.video" \/ ends("chunk") =>
              new["upload"] \in [state : {"uploading"}, complete : BOOLEAN]
        /\ ends("open") =>
              /\ Writes(c, {"upload", "video"})
              /\ new["upload"] = [state |-> "uploading", complete |-> FALSE]
              /\ new["video"] = [state |-> "uploading", deletions |-> 0]
        /\ at \in {"finalize.jobs", "finalize.insert"} => Writes(c, {"upload"})
        /\ at = "finalize.video" => Writes(c, {"upload", "job"})
        /\ ends("finalize") =>
              Writes(c, {"upload", "job", "video"}) /\ new["video"] = VideoIn("queued")
        /\ at \in {"finalize.jobs", "finalize.insert", "finalize.video"} \/ ends("finalize") =>
              new["upload"] = [state |-> "finalized", complete |-> TRUE]
        /\ at = "finalize.video" \/ ends("finalize") => new["job"] = NewJob
        /\ at = "claim.video" => Writes(c, {"job"})
        /\ ends("claim") => Writes(c, {"job", "video"}) /\ new["video"] = VideoIn("processing")
        /\ at = "claim.video" \/ ends("claim") =>
              new["job"] = [state |-> "processing", lease |-> c]
        /\ at = "ready.complete" => Writes(c, {"rendition"})
        /\ at = "ready.complete" \/ ends("ready") => new["rendition"] = [state |-> "ready"]
        /\ ends("ready") =>
              /\ Writes(c, {"rendition", "job", "video"})
              /\ new["job"] = [state |-> "completed", lease |-> NULL]
              /\ new["video"] = VideoIn("ready")
        /\ ends("publish") =>
              /\ Writes(c, {"rendition", "video"})
              /\ new["rendition"] = [state |-> "published"]
              /\ new["video"] = VideoIn("published")
        /\ ends("tombstone") =>
              /\ Writes(c, IF JobIsLive THEN {"job", "video"} ELSE {"video"})
              /\ JobIsLive => new["job"] = [state |-> "cancelled", lease |-> NULL]
              /\ new["video"] = [state |-> "tombstoned",
                                 deletions |-> committed.video.deletions + 1]

ClientOK(c) == HoldsOK(c) /\ KnowsOK(c) /\ DraftOK(c)

\* Locks two sessions hold never exclude each other.
LocksAgree ==
    \A c, d \in Clients : c # d =>
        \A one \in locks[c], two \in locks[d] :
            one[1] = two[1] => ~Conflicts(one[2], two[2])

\* The committed rows of the video agree with each other.
CommittedOK ==
    /\ committed \in RowStates
    /\ committed.upload.state = "absent" <=> committed.video.state = "absent"
    /\ committed.video.state = "absent" => committed.video.deletions = 0
    /\ committed.job.state = "absent" <=> committed.upload.state # "finalized"
    /\ JobIsLive => committed.job.state = committed.video.state
    /\ committed.job.state # "completed" <=> committed.rendition.state = "absent"

LocksInv == Shape /\ CommittedOK /\ LocksAgree /\ \A c \in Clients : ClientOK(c)

----------------------------------------------------------------------------
(* Locks.                                                                  *)

\* Which modes exclude each other, mode by mode.
LEMMA ConflictFacts ==
    /\ Conflicts("for_update", "for_update")
    /\ Conflicts("for_update", "no_key_update")
    /\ Conflicts("for_update", "key_share")
    /\ Conflicts("no_key_update", "for_update")
    /\ Conflicts("no_key_update", "no_key_update")
    /\ Conflicts("key_share", "for_update")
BY DEF Conflicts

LEMMA ConflictsSymmetric == \A one, two : Conflicts(one, two) => Conflicts(two, one)
BY DEF Conflicts

\* What a row lock of one session keeps the others from holding.
LEMMA RowExclusion ==
    ASSUME LocksAgree, NEW c \in Clients, NEW d \in Clients, c # d
    PROVE  /\ Upload \in locks[c] => Upload \notin locks[d]
           /\ Job \in locks[c] => Job \notin locks[d]
           /\ Video \in locks[c] => Video \notin locks[d] /\ VideoUpdate \notin locks[d]
                                    /\ VideoKey \notin locks[d]
           /\ VideoUpdate \in locks[c] => Video \notin locks[d] /\ VideoUpdate \notin locks[d]
BY ConflictFacts DEF LocksAgree, Upload, Job, Video, VideoUpdate, VideoKey

\* A statement that runs takes locks nobody blocks.
LEMMA TakingAgrees ==
    ASSUME Shape, LocksAgree, NEW c \in Clients, NEW taken,
           \A d \in Clients \ {c}, want \in taken : ~Blocks(d, want),
           locks' = [locks EXCEPT ![c] = @ \cup taken]
    PROVE  LocksAgree'
<1> SUFFICES ASSUME NEW d \in Clients, NEW e \in Clients, d # e,
                    NEW one \in locks'[d], NEW two \in locks'[e], one[1] = two[1]
             PROVE  ~Conflicts(one[2], two[2])
  BY DEF LocksAgree, Conflicts
<1>1. locks \in [Clients -> SUBSET ((Rows \cup Tables) \X Modes)]
  BY DEF Shape
<1>2. CASE d = c
  <2>1. two \in locks[e] /\ one \in locks[d] \cup taken
    BY <1>1, <1>2
  <2>2. one \in taken => ~Conflicts(two[2], one[2])
    BY <1>2, <2>1 DEF Blocks
  <2> QED BY <2>1, <2>2, ConflictsSymmetric DEF LocksAgree
<1>3. CASE e = c
  <2>1. one \in locks[d] /\ two \in locks[e] \cup taken
    BY <1>1, <1>3
  <2>2. two \in taken => ~Conflicts(one[2], two[2])
    BY <1>3, <2>1 DEF Blocks
  <2> QED BY <2>1, <2>2 DEF LocksAgree
<1>4. CASE d # c /\ e # c
  BY <1>1, <1>4 DEF LocksAgree
<1> QED BY <1>2, <1>3, <1>4

\* A transaction that ends holds nothing.
LEMMA ReleasingAgrees ==
    ASSUME Shape, LocksAgree, NEW c \in Clients, locks' = [locks EXCEPT ![c] = {}]
    PROVE  LocksAgree'
<1> SUFFICES ASSUME NEW d \in Clients, NEW e \in Clients, d # e,
                    NEW one \in locks'[d], NEW two \in locks'[e], one[1] = two[1]
             PROVE  ~Conflicts(one[2], two[2])
  BY DEF LocksAgree, Conflicts
<1> QED BY DEF Shape, LocksAgree

----------------------------------------------------------------------------
(* Statements.                                                             *)

\* What Continue changes, seen from the session and from the others.
LEMMA Continued ==
    ASSUME Shape, NEW c \in Clients, NEW at, NEW taken, NEW written,
           Continue(c, at, taken, written)
    PROVE  /\ tx'[c].at = at /\ tx'[c].kind = tx[c].kind /\ tx'[c].inTime = tx[c].inTime
           /\ locks'[c] = locks[c] \cup taken
           /\ locks' = [locks EXCEPT ![c] = @ \cup taken]
           /\ DOMAIN draft'[c] = DOMAIN written \cup DOMAIN draft[c]
           /\ \A row : row \in DOMAIN written => draft'[c][row] = written[row]
           /\ \A row : row \in DOMAIN draft[c] /\ row \notin DOMAIN written
                  => draft'[c][row] = draft[c][row]
           /\ draft' = [d \in Clients |-> draft'[d]]
           /\ committed' = committed /\ run' = run /\ expired' = expired
           /\ \A d \in Clients \ {c} :
                 tx'[d] = tx[d] /\ locks'[d] = locks[d] /\ draft'[d] = draft[d]
<1>1. draft = [d \in Clients |-> draft[d]]
  BY DEF Shape
<1>2. draft'[c] = Overlay(written, draft[c])
  BY <1>1 DEF Continue
<1>3. tx[c] = [kind |-> tx[c].kind, at |-> tx[c].at, inTime |-> tx[c].inTime]
  BY DEF Shape, TxOK
<1>4. tx'[c] = [tx[c] EXCEPT !.at = at] /\ locks'[c] = locks[c] \cup taken
  BY DEF Shape, Continue
<1>5. tx'[c].at = at /\ tx'[c].kind = tx[c].kind /\ tx'[c].inTime = tx[c].inTime
  BY <1>3, <1>4
<1>6. /\ DOMAIN draft'[c] = DOMAIN written \cup DOMAIN draft[c]
      /\ \A row : row \in DOMAIN written => draft'[c][row] = written[row]
      /\ \A row : row \in DOMAIN draft[c] /\ row \notin DOMAIN written
             => draft'[c][row] = draft[c][row]
  BY <1>2 DEF Overlay
<1>7. draft' = [d \in Clients |-> draft'[d]]
  BY <1>1 DEF Continue
<1> QED BY <1>4, <1>5, <1>6, <1>7 DEF Shape, Continue

\* A session that does nothing stays where it should be while no row is committed.
LEMMA OthersKeep ==
    ASSUME NEW d \in Clients, ClientOK(d), committed' = committed,
           tx'[d] = tx[d], locks'[d] = locks[d], draft'[d] = draft[d]
    PROVE  ClientOK(d)'
<1>1. JobIsLive' = JobIsLive /\ \A state : VideoIn(state)' = VideoIn(state)
  BY DEF JobIsLive, VideoIn
<1>2. HoldsOK(d)'
  BY <1>1 DEF ClientOK, HoldsOK
<1>3. KnowsOK(d)'
  BY <1>1 DEF ClientOK, KnowsOK
<1>4. DraftOK(d)'
  BY <1>1 DEF ClientOK, DraftOK, Writes, VideoIn
<1> QED BY <1>2, <1>3, <1>4 DEF ClientOK

\* A statement keeps the invariant if its session ends up where it should be.
LEMMA StatementKeeps ==
    ASSUME LocksInv, NEW c \in Clients, NEW at, NEW taken, NEW written,
           at \in PointsOf(tx[c].kind),
           \A want \in taken : want \in (Rows \cup Tables) \X Modes,
           Continue(c, at, taken, written),
           \A d \in Clients \ {c}, want \in taken : ~Blocks(d, want),
           ClientOK(c)'
    PROVE  LocksInv'
<1>1. Shape /\ LocksAgree /\ CommittedOK /\ \A d \in Clients : ClientOK(d)
  BY DEF LocksInv
<1>2. Shape'
  <2>1. tx[c] = [kind |-> tx[c].kind, at |-> tx[c].at, inTime |-> tx[c].inTime]
    BY <1>1 DEF Shape, TxOK
  <2>2. tx' = [tx EXCEPT ![c] = [tx[c] EXCEPT !.at = at]]
    BY DEF Continue
  <2>3. tx' = [d \in Clients |-> tx'[d]] /\ tx'[c] = [tx[c] EXCEPT !.at = at]
    BY <1>1, <2>2 DEF Shape
  <2>4. TxOK(tx'[c])
    BY <1>1, <2>1, <2>3 DEF Shape, TxOK
  <2>5. \A d \in Clients : TxOK(tx'[d])
    BY <1>1, <2>4, Continued DEF Shape
  <2>6. locks' \in [Clients -> SUBSET ((Rows \cup Tables) \X Modes)]
    BY <1>1, Continued DEF Shape
  <2> QED BY <1>1, <2>3, <2>5, <2>6, Continued DEF Shape
<1>3. LocksAgree'
  BY <1>1, TakingAgrees, Continued
<1>4. CommittedOK'
  BY <1>1, Continued
     DEF CommittedOK, RowStates, UploadRows, VideoRows, JobRows, RenditionRows, JobIsLive
<1>5. ASSUME NEW d \in Clients \ {c} PROVE ClientOK(d)'
  BY <1>1, Continued, OthersKeep
<1> QED BY <1>2, <1>3, <1>4, <1>5 DEF LocksInv

\* A transaction that ends without a commit leaves no trace.
LEMMA EndKeeps ==
    ASSUME LocksInv, NEW c \in Clients, End(c)
    PROVE  LocksInv'
<1>1. Shape /\ LocksAgree /\ CommittedOK /\ \A d \in Clients : ClientOK(d)
  BY DEF LocksInv
<1>2. /\ tx'[c] = Idle /\ locks'[c] = {} /\ draft'[c] = NoRows
      /\ committed' = committed /\ run' = run /\ expired' = expired
      /\ \A d \in Clients \ {c} :
            tx'[d] = tx[d] /\ locks'[d] = locks[d] /\ draft'[d] = draft[d]
  BY <1>1 DEF End, Shape
<1>3. Shape'
  <2>1. tx' = [d \in Clients |-> tx'[d]]
    BY <1>1 DEF Shape, End
  <2>2. \A d \in Clients : TxOK(tx'[d])
    <3>1. TxOK(Idle)
      BY DEF TxOK, Idle, PointsOf
    <3> QED BY <1>1, <1>2, <3>1 DEF Shape
  <2>3. draft' = [d \in Clients |-> draft'[d]]
    BY <1>1 DEF Shape, End
  <2> QED BY <1>1, <1>2, <2>1, <2>2, <2>3 DEF Shape, End
<1>4. LocksAgree'
  BY <1>1, ReleasingAgrees DEF End
<1>5. CommittedOK'
  BY <1>1, <1>2
     DEF CommittedOK, RowStates, UploadRows, VideoRows, JobRows, RenditionRows, JobIsLive
<1>6. ASSUME NEW d \in Clients \ {c} PROVE ClientOK(d)'
  BY <1>1, <1>2, OthersKeep
<1>7. ClientOK(c)'
  BY <1>2 DEF ClientOK, HoldsOK, KnowsOK, DraftOK, Writes, Idle, NoRows, FirstPoints
<1> QED BY <1>3, <1>4, <1>5, <1>6, <1>7 DEF LocksInv

\* The kind of the transaction that has come to a statement.
LEMMA KindAt ==
    ASSUME Shape, NEW c \in Clients
    PROVE  /\ tx[c].at \in {"open.select", "open.insert"} => tx[c].kind = "open"
           /\ tx[c].at \in {"chunk.lock", "chunk.video"} => tx[c].kind = "chunk"
           /\ tx[c].at \in {"finalize.lock", "finalize.jobs", "finalize.insert",
                            "finalize.video"} => tx[c].kind = "finalize"
           /\ tx[c].at \in {"claim.select", "claim.lock", "claim.update", "claim.video"}
                 => tx[c].kind = "claim"
           /\ tx[c].at \in {"ready.lock", "ready.video", "ready.segments", "ready.complete"}
                 => tx[c].kind = "ready"
           /\ tx[c].at \in {"publish.lock", "publish.rendition"} => tx[c].kind = "publish"
           /\ tx[c].at \in {"tombstone.lock", "tombstone.video"}
                 => tx[c].kind \in {"tombstone", "foreign_tombstone"}
           /\ tx[c].at \in {"tombstone.jobs", "tombstone.cancel"} => tx[c].kind = "tombstone"
           /\ tx[c].at \in {"migrate.jobs", "migrate.segments"} => tx[c].kind = "migrate"
           /\ tx[c].at = "commit" => tx[c].kind \notin {"none", "foreign_tombstone"}
<1>1. tx[c].kind \in AllKinds \cup {"none"} /\ tx[c].at \in PointsOf(tx[c].kind)
  BY DEF Shape, TxOK
<1> QED BY <1>1 DEF AllKinds, PointsOf

\* A statement that runs finds the locks it wants free.
LEMMA WantsAreFree ==
    ASSUME NEW c \in Clients, NEW at, At(c, at)
    PROVE  \A d \in Clients \ {c}, want \in Wants(c) : ~Blocks(d, want)
BY DEF At, WaitsFor

\* The facts a session has established by the time it runs a statement.
LEMMA Facts ==
    ASSUME LocksInv, NEW c \in Clients
    PROVE  Shape /\ CommittedOK /\ HoldsOK(c) /\ KnowsOK(c) /\ DraftOK(c)
BY DEF LocksInv, ClientOK

\* The locks each statement wants.
LEMMA WantsTable ==
    ASSUME NEW c \in Clients
    PROVE  LET at == tx[c].at
           IN  /\ at \in {"open.insert", "chunk.lock", "finalize.lock"} =>
                     Wants(c) = {Upload}
               /\ at \in {"chunk.video", "finalize.video"} =>
                     Wants(c) = {VideoUpdate}
               /\ at \in {"finalize.jobs", "claim.update", "ready.complete", "tombstone.jobs"} =>
                     Wants(c) = {JobsTable}
               /\ at = "finalize.insert" =>
                     Wants(c) = {VideoKey}
               /\ at = "claim.video" /\ committed.video.state \in {"queued", "processing"} =>
                     Wants(c) = {VideoUpdate}
               /\ at = "claim.video" /\ committed.video.state \notin {"queued", "processing"} =>
                     Wants(c) = {}
               /\ at = "ready.lock" =>
                     Wants(c) = {Job}
               /\ at \in {"ready.video", "publish.lock"} =>
                     Wants(c) = {Video}
               /\ at = "tombstone.video" /\ tx[c].kind = "tombstone" =>
                     Wants(c) = {Video}
               /\ at = "ready.segments" =>
                     Wants(c) = {SegmentsTable}
               /\ at = "publish.rendition" =>
                     Wants(c) = {Rendition}
               /\ at = "tombstone.lock" /\ committed.job.state # "absent" =>
                     Wants(c) = {Job}
               /\ at = "tombstone.lock" /\ committed.job.state = "absent" =>
                     Wants(c) = {}
               /\ at = "tombstone.cancel" =>
                     Wants(c) = IF JobIsLive THEN {Job} ELSE {}
               /\ at = "migrate.jobs" =>
                     Wants(c) = {<<"processing_jobs", "share">>}
               /\ at = "migrate.segments" =>
                     Wants(c) = {<<"rendition_segments", "share">>}
               /\ at \in {"none", "open.select", "claim.select", "claim.lock", "commit"} =>
                     Wants(c) = {}
<1> DEFINE at == tx[c].at
<1> USE DEF Wants
<1>1. at \in {"open.insert", "chunk.lock", "finalize.lock"} => Wants(c) = {Upload}
  BY DEF Upload
<1>2. at \in {"chunk.video", "finalize.video"} => Wants(c) = {VideoUpdate}
  BY DEF VideoUpdate
<1>3. at \in {"finalize.jobs", "claim.update", "ready.complete", "tombstone.jobs"} =>
          Wants(c) = {JobsTable}
  BY DEF JobsTable
<1>4. at = "finalize.insert" => Wants(c) = {VideoKey}
  BY DEF VideoKey
<1>5. at = "claim.video" /\ committed.video.state \in {"queued", "processing"} =>
          Wants(c) = {VideoUpdate}
  BY DEF VideoUpdate
<1>6. at = "claim.video" /\ committed.video.state \notin {"queued", "processing"} => Wants(c) = {}
  OBVIOUS
<1>7. at = "ready.lock" => Wants(c) = {Job}
  BY DEF Job, ReadyLocks
<1>8. /\ at \in {"ready.video", "publish.lock"} => Wants(c) = {Video}
      /\ at = "tombstone.video" /\ tx[c].kind = "tombstone" => Wants(c) = {Video}
  BY DEF Video, ReadyLocks
<1>9. at = "ready.segments" => Wants(c) = {SegmentsTable}
  BY DEF SegmentsTable
<1>10. at = "publish.rendition" => Wants(c) = {Rendition}
  BY DEF Rendition
<1>11. at = "tombstone.lock" /\ committed.job.state # "absent" => Wants(c) = {Job}
  BY DEF Job, ReadyLocks
<1>12. at = "tombstone.lock" /\ committed.job.state = "absent" => Wants(c) = {}
  OBVIOUS
<1>13. at = "tombstone.cancel" => Wants(c) = IF JobIsLive THEN {Job} ELSE {}
  BY DEF Job, CancelLock
<1>14. at = "migrate.jobs" => Wants(c) = {<<"processing_jobs", "share">>}
  OBVIOUS
<1>15. at = "migrate.segments" => Wants(c) = {<<"rendition_segments", "share">>}
  OBVIOUS
<1>16. at \in {"none", "open.select", "claim.select", "claim.lock", "commit"} => Wants(c) = {}
  OBVIOUS
<1> QED BY <1>1, <1>2, <1>3, <1>4, <1>5, <1>6, <1>7, <1>8, <1>9, <1>10, <1>11, <1>12, <1>13,
           <1>14, <1>15, <1>16

LEMMA LockTypes ==
    \A lock \in {Upload, Job, Video, VideoUpdate, VideoKey, Rendition, JobsTable, SegmentsTable,
                 <<"processing_jobs", "share">>, <<"rendition_segments", "share">>} :
        lock \in (Rows \cup Tables) \X Modes
<1> DEFINE Typed(lock) == lock \in (Rows \cup Tables) \X Modes
<1>1. Typed(Upload) /\ Typed(Job) /\ Typed(Video) /\ Typed(Rendition)
  BY DEF Upload, Job, Video, Rendition, Rows, Modes
<1>2. Typed(VideoUpdate) /\ Typed(VideoKey)
  BY DEF VideoUpdate, VideoKey, Rows, Modes
<1>3. Typed(JobsTable) /\ Typed(SegmentsTable)
  BY DEF JobsTable, SegmentsTable, Tables, Modes
<1>4. Typed(<<"processing_jobs", "share">>) /\ Typed(<<"rendition_segments", "share">>)
  BY DEF Tables, Modes
<1> QED BY <1>1, <1>2, <1>3, <1>4

\* openUpload.
LEMMA OpenKeeps ==
    ASSUME LocksInv, NEW c \in Clients, SelectUploadByKey(c) \/ InsertUpload(c)
    PROVE  LocksInv'
<1>0. Shape /\ CommittedOK /\ HoldsOK(c) /\ KnowsOK(c) /\ DraftOK(c)
  BY Facts
<1>1. CASE SelectUploadByKey(c) /\ committed.upload.state = "absent"
  <2>1. tx[c].at = "open.select" /\ tx[c].kind = "open" /\ Wants(c) = {}
    BY <1>1, <1>0, KindAt, WantsTable DEF SelectUploadByKey, At
  <2>2. locks[c] = {} /\ DOMAIN draft[c] = {}
    BY <1>0, <2>1 DEF HoldsOK, DraftOK, Writes, FirstPoints
  <2>3. Continue(c, "open.insert", {}, NoRows)
    BY <1>1, <2>1 DEF SelectUploadByKey, Continue
  <2>4. /\ tx'[c].at = "open.insert" /\ tx'[c].kind = "open" /\ committed' = committed
        /\ locks'[c] = {}
    BY <1>0, <2>1, <2>2, <2>3, Continued
  <2>5. DOMAIN draft'[c] = {}
    BY <1>0, <2>1, <2>2, <2>3, Continued DEF NoRows
  <2>6. HoldsOK(c)'
    BY <2>4 DEF HoldsOK, FirstPoints
  <2>7. KnowsOK(c)'
    BY <1>0, <1>1, <2>1, <2>4 DEF KnowsOK, JobIsLive
  <2>8. DraftOK(c)'
    BY <2>4, <2>5 DEF DraftOK, Writes, FirstPoints
  <2>9. "open.insert" \in PointsOf(tx[c].kind)
    BY <2>1 DEF PointsOf
  <2> QED BY <1>1, <2>1, <2>3, <2>6, <2>7, <2>8, <2>9, LockTypes, WantsAreFree, StatementKeeps
          DEF SelectUploadByKey, ClientOK
<1>2. CASE InsertUpload(c) /\ committed.upload.state = "absent"
  <2>1. tx[c].at = "open.insert" /\ tx[c].kind = "open" /\ Wants(c) = {Upload}
    BY <1>2, <1>0, KindAt, WantsTable DEF InsertUpload, At
  <2>2. locks[c] = {} /\ DOMAIN draft[c] = {}
    BY <1>0, <2>1 DEF HoldsOK, DraftOK, Writes, FirstPoints
  <2>3. PICK row, written :
           /\ row = [state |-> "uploading", complete |-> FALSE]
           /\ written = [upload |-> row,
                          video |-> [state |-> "uploading", deletions |-> 0]]
    OBVIOUS
  <2>4. /\ DOMAIN written = {"upload", "video"}
        /\ written["upload"] = row
        /\ written["video"] = [state |-> "uploading", deletions |-> 0]
    BY <2>3
  <2>5. Continue(c, "commit", {Upload}, written)
    BY <1>2, <2>1, <2>3 DEF InsertUpload, Continue
  <2>6. /\ tx'[c].at = "commit" /\ tx'[c].kind = "open" /\ committed' = committed
        /\ locks'[c] = {Upload}
    BY <1>0, <2>1, <2>2, <2>4, <2>5, Continued
  <2>7. /\ DOMAIN draft'[c] = {"upload", "video"}
        /\ draft'[c]["upload"] = row
        /\ draft'[c]["video"] = [state |-> "uploading", deletions |-> 0]
    BY <1>0, <2>1, <2>2, <2>4, <2>5, Continued DEF NoRows
  <2>8. HoldsOK(c)'
    BY <2>6 DEF HoldsOK, FirstPoints
  <2>9. KnowsOK(c)'
    BY <1>0, <1>2, <2>1, <2>6 DEF KnowsOK, JobIsLive
  <2>10. DraftOK(c)'
    BY <2>3, <2>6, <2>7 DEF DraftOK, Writes, FirstPoints, VideoIn
  <2>11. "commit" \in PointsOf(tx[c].kind)
    BY <2>1 DEF PointsOf
  <2> QED BY <1>2, <2>1, <2>5, <2>8, <2>9, <2>10, <2>11, LockTypes, WantsAreFree, StatementKeeps
          DEF InsertUpload, ClientOK
<1>3. CASE End(c)
  BY <1>3, EndKeeps
<1> QED BY <1>1, <1>2, <1>3 DEF SelectUploadByKey, InsertUpload

\* finalizeUpload.
LEMMA FinalizeKeeps ==
    ASSUME LocksInv, NEW c \in Clients, LockUploadForFinalize(c) \/ InsertJob(c) \/ QueueVideo(c)
    PROVE  LocksInv'
<1>0. Shape /\ CommittedOK /\ HoldsOK(c) /\ KnowsOK(c) /\ DraftOK(c)
  BY Facts
<1>1. CASE /\ LockUploadForFinalize(c)
           /\ committed.upload = [state |-> "uploading", complete |-> TRUE]
  <2>1. tx[c].at = "finalize.lock" /\ tx[c].kind = "finalize" /\ Wants(c) = {Upload}
    BY <1>1, <1>0, KindAt, WantsTable DEF LockUploadForFinalize, At
  <2>2. locks[c] = {} /\ DOMAIN draft[c] = {}
    BY <1>0, <2>1 DEF HoldsOK, DraftOK, Writes, FirstPoints
  <2>3. PICK row, written :
           /\ row = [state |-> "finalized", complete |-> TRUE]
           /\ written = [upload |-> row]
    OBVIOUS
  <2>4. DOMAIN written = {"upload"} /\ written["upload"] = row
    BY <2>3
  <2>5. Continue(c, "finalize.jobs", {Upload}, written)
    BY <1>1, <2>1, <2>3 DEF LockUploadForFinalize, Continue
  <2>6. /\ tx'[c].at = "finalize.jobs" /\ tx'[c].kind = "finalize" /\ committed' = committed
        /\ locks'[c] = {Upload}
    BY <1>0, <2>1, <2>2, <2>4, <2>5, Continued
  <2>7. DOMAIN draft'[c] = {"upload"} /\ draft'[c]["upload"] = row
    BY <1>0, <2>1, <2>2, <2>4, <2>5, Continued DEF NoRows
  <2>8. HoldsOK(c)'
    BY <2>6 DEF HoldsOK, FirstPoints
  <2>9. KnowsOK(c)'
    BY <1>0, <1>1, <2>1, <2>6 DEF KnowsOK, JobIsLive
  <2>10. DraftOK(c)'
    BY <2>3, <2>6, <2>7 DEF DraftOK, Writes, FirstPoints, VideoIn
  <2>11. "finalize.jobs" \in PointsOf(tx[c].kind)
    BY <2>1 DEF PointsOf
  <2> QED BY <1>1, <2>1, <2>5, <2>8, <2>9, <2>10, <2>11, LockTypes, WantsAreFree, StatementKeeps
          DEF LockUploadForFinalize, ClientOK
<1>2. CASE InsertJob(c) /\ tx[c].at = "finalize.jobs"
  <2>1. tx[c].at = "finalize.jobs" /\ tx[c].kind = "finalize" /\ Wants(c) = {JobsTable}
    BY <1>2, <1>0, KindAt, WantsTable DEF InsertJob, At
  <2>2. /\ locks[c] = {Upload}
        /\ DOMAIN draft[c] = {"upload"}
        /\ draft[c]["upload"] = [state |-> "finalized", complete |-> TRUE]
    BY <1>0, <2>1 DEF HoldsOK, DraftOK, Writes, FirstPoints
  <2>3. Continue(c, "finalize.insert", {JobsTable}, NoRows)
    BY <1>2, <2>1 DEF InsertJob, Continue, At
  <2>4. /\ tx'[c].at = "finalize.insert" /\ tx'[c].kind = "finalize" /\ committed' = committed
        /\ locks'[c] = {Upload, JobsTable}
    BY <1>0, <2>1, <2>2, <2>3, Continued
  <2>5. /\ DOMAIN draft'[c] = {"upload"}
        /\ draft'[c]["upload"] = [state |-> "finalized", complete |-> TRUE]
    BY <1>0, <2>1, <2>2, <2>3, Continued DEF NoRows
  <2>6. HoldsOK(c)'
    BY <2>4 DEF HoldsOK, FirstPoints
  <2>7. KnowsOK(c)'
    BY <1>0, <1>2, <2>1, <2>4 DEF KnowsOK, JobIsLive
  <2>8. DraftOK(c)'
    BY <2>4, <2>5 DEF DraftOK, Writes, FirstPoints
  <2>9. "finalize.insert" \in PointsOf(tx[c].kind)
    BY <2>1 DEF PointsOf
  <2> QED BY <1>2, <2>1, <2>3, <2>6, <2>7, <2>8, <2>9, LockTypes, WantsAreFree, StatementKeeps
          DEF InsertJob, ClientOK
<1>3. CASE InsertJob(c) /\ tx[c].at = "finalize.insert"
  <2>1. tx[c].at = "finalize.insert" /\ tx[c].kind = "finalize" /\ Wants(c) = {VideoKey}
    BY <1>3, <1>0, KindAt, WantsTable DEF InsertJob, At
  <2>2. /\ locks[c] = {Upload, JobsTable}
        /\ DOMAIN draft[c] = {"upload"}
        /\ draft[c]["upload"] = [state |-> "finalized", complete |-> TRUE]
    BY <1>0, <2>1 DEF HoldsOK, DraftOK, Writes, FirstPoints
  <2>3. Continue(c, "finalize.video", {VideoKey}, [job |-> NewJob])
    BY <1>3, <2>1 DEF InsertJob, Continue, At
  <2>4. /\ tx'[c].at = "finalize.video" /\ tx'[c].kind = "finalize" /\ committed' = committed
        /\ locks'[c] = {Upload, JobsTable, VideoKey}
    BY <1>0, <2>1, <2>2, <2>3, Continued
  <2>5. /\ DOMAIN draft'[c] = {"upload", "job"}
        /\ draft'[c]["upload"] = [state |-> "finalized", complete |-> TRUE]
        /\ draft'[c]["job"] = NewJob
    BY <1>0, <2>1, <2>2, <2>3, Continued DEF NoRows
  <2>6. HoldsOK(c)'
    BY <2>4 DEF HoldsOK, FirstPoints
  <2>7. KnowsOK(c)'
    BY <1>0, <1>3, <2>1, <2>4 DEF KnowsOK, JobIsLive
  <2>8. DraftOK(c)'
    BY <2>4, <2>5 DEF DraftOK, Writes, FirstPoints
  <2>9. "finalize.video" \in PointsOf(tx[c].kind)
    BY <2>1 DEF PointsOf
  <2> QED BY <1>3, <2>1, <2>3, <2>6, <2>7, <2>8, <2>9, LockTypes, WantsAreFree, StatementKeeps
          DEF InsertJob, ClientOK
<1>4. CASE QueueVideo(c)
  <2>1. tx[c].at = "finalize.video" /\ tx[c].kind = "finalize" /\ Wants(c) = {VideoUpdate}
    BY <1>4, <1>0, KindAt, WantsTable DEF QueueVideo, At
  <2>2. /\ locks[c] = {Upload, JobsTable, VideoKey}
        /\ DOMAIN draft[c] = {"upload", "job"}
        /\ draft[c]["upload"] = [state |-> "finalized", complete |-> TRUE]
        /\ draft[c]["job"] = NewJob
    BY <1>0, <2>1 DEF HoldsOK, DraftOK, Writes, FirstPoints
  <2>3. PICK written : written = [video |-> VideoIn("queued")]
    OBVIOUS
  <2>4. Continue(c, "commit", {VideoUpdate}, written)
    BY <1>4, <2>1, <2>3 DEF QueueVideo, Continue
  <2>5. /\ tx'[c].at = "commit" /\ tx'[c].kind = "finalize" /\ committed' = committed
        /\ locks'[c] = {Upload, JobsTable, VideoKey, VideoUpdate}
    BY <1>0, <2>1, <2>2, <2>3, <2>4, Continued
  <2>6. /\ DOMAIN draft'[c] = {"upload", "job", "video"}
        /\ draft'[c]["upload"] = [state |-> "finalized", complete |-> TRUE]
        /\ draft'[c]["job"] = NewJob
        /\ draft'[c]["video"] = VideoIn("queued")
    BY <1>0, <2>1, <2>2, <2>3, <2>4, Continued DEF NoRows
  <2>7. HoldsOK(c)'
    BY <2>5 DEF HoldsOK, FirstPoints
  <2>8. KnowsOK(c)'
    BY <1>0, <1>4, <2>1, <2>5 DEF KnowsOK, JobIsLive
  <2>9. DraftOK(c)'
    BY <2>5, <2>6 DEF DraftOK, Writes, FirstPoints, VideoIn
  <2>10. "commit" \in PointsOf(tx[c].kind)
    BY <2>1 DEF PointsOf
  <2> QED BY <1>4, <2>1, <2>4, <2>7, <2>8, <2>9, <2>10, LockTypes, WantsAreFree, StatementKeeps
          DEF QueueVideo, ClientOK
<1>5. CASE End(c)
  BY <1>5, EndKeeps
<1> QED BY <1>1, <1>2, <1>3, <1>4, <1>5 DEF LockUploadForFinalize, InsertJob, QueueVideo, At

\* claimJob.
LEMMA ClaimKeeps ==
    ASSUME LocksInv, NEW c \in Clients,
           SelectJob(c) \/ LockJobOrSkip(c) \/ LeaseJob(c) \/ MarkVideoProcessing(c)
    PROVE  LocksInv'
<1>0. Shape /\ CommittedOK /\ HoldsOK(c) /\ KnowsOK(c) /\ DraftOK(c)
  BY Facts
<1>1. CASE SelectJob(c) /\ ~End(c)
  <2>1. tx[c].at = "claim.select" /\ tx[c].kind = "claim" /\ Wants(c) = {}
    BY <1>1, <1>0, KindAt, WantsTable DEF SelectJob, At
  <2>2. locks[c] = {} /\ DOMAIN draft[c] = {}
    BY <1>0, <2>1 DEF HoldsOK, DraftOK, Writes, FirstPoints
  <2>3. Continue(c, "claim.lock", {}, NoRows)
    BY <1>1, <2>1 DEF SelectJob, Continue
  <2>4. /\ tx'[c].at = "claim.lock" /\ tx'[c].kind = "claim" /\ committed' = committed
        /\ locks'[c] = {}
    BY <1>0, <2>1, <2>2, <2>3, Continued
  <2>5. DOMAIN draft'[c] = {}
    BY <1>0, <2>1, <2>2, <2>3, Continued DEF NoRows
  <2>6. HoldsOK(c)'
    BY <2>4 DEF HoldsOK, FirstPoints
  <2>7. KnowsOK(c)'
    BY <1>0, <1>1, <2>1, <2>4 DEF KnowsOK, JobIsLive
  <2>8. DraftOK(c)'
    BY <2>4, <2>5 DEF DraftOK, Writes, FirstPoints
  <2>9. "claim.lock" \in PointsOf(tx[c].kind)
    BY <2>1 DEF PointsOf
  <2> QED BY <1>1, <2>1, <2>3, <2>6, <2>7, <2>8, <2>9, LockTypes, WantsAreFree, StatementKeeps
          DEF SelectJob, ClientOK
<1>2. CASE LockJobOrSkip(c) /\ ~End(c)
  <2>1. tx[c].at = "claim.lock" /\ tx[c].kind = "claim"
    BY <1>2, <1>0, KindAt, WantsTable DEF LockJobOrSkip, At, ClaimLock, Job
  <2>2. locks[c] = {} /\ DOMAIN draft[c] = {}
    BY <1>0, <2>1 DEF HoldsOK, DraftOK, Writes, FirstPoints
  <2>3. Continue(c, "claim.update", {Job}, NoRows)
    BY <1>2, <2>1 DEF LockJobOrSkip, Continue, ClaimLock, Job
  <2>4. /\ tx'[c].at = "claim.update" /\ tx'[c].kind = "claim" /\ committed' = committed
        /\ locks'[c] = {Job}
    BY <1>0, <2>1, <2>2, <2>3, Continued
  <2>5. DOMAIN draft'[c] = {}
    BY <1>0, <2>1, <2>2, <2>3, Continued DEF NoRows
  <2>6. HoldsOK(c)'
    BY <2>4 DEF HoldsOK, FirstPoints
  <2>7. KnowsOK(c)'
    BY <1>0, <1>2, <2>1, <2>4 DEF KnowsOK, JobIsLive, LockJobOrSkip, Claimable
  <2>8. DraftOK(c)'
    BY <2>4, <2>5 DEF DraftOK, Writes, FirstPoints
  <2>9. "claim.update" \in PointsOf(tx[c].kind)
    BY <2>1 DEF PointsOf
  <2>10. \A d \in Clients \ {c}, want \in {Job} : ~Blocks(d, want)
    BY <1>2 DEF LockJobOrSkip, ClaimLock, Job
  <2> QED BY <1>2, <2>1, <2>3, <2>6, <2>7, <2>8, <2>9, LockTypes, <2>10, StatementKeeps
          DEF LockJobOrSkip, ClientOK
<1>3. CASE LeaseJob(c)
  <2>1. tx[c].at = "claim.update" /\ tx[c].kind = "claim" /\ Wants(c) = {JobsTable}
    BY <1>3, <1>0, KindAt, WantsTable DEF LeaseJob, At
  <2>2. locks[c] = {Job} /\ DOMAIN draft[c] = {}
    BY <1>0, <2>1 DEF HoldsOK, DraftOK, Writes, FirstPoints
  <2>3. Continue(c, "claim.video", {JobsTable}, [job |-> [state |-> "processing", lease |-> c]])
    BY <1>3, <2>1 DEF LeaseJob, Continue
  <2>4. /\ tx'[c].at = "claim.video" /\ tx'[c].kind = "claim" /\ committed' = committed
        /\ locks'[c] = {Job, JobsTable}
    BY <1>0, <2>1, <2>2, <2>3, Continued
  <2>5. DOMAIN draft'[c] = {"job"} /\ draft'[c]["job"] = [state |-> "processing", lease |-> c]
    BY <1>0, <2>1, <2>2, <2>3, Continued DEF NoRows
  <2>6. HoldsOK(c)'
    BY <2>4 DEF HoldsOK, FirstPoints
  <2>7. KnowsOK(c)'
    BY <1>0, <1>3, <2>1, <2>4 DEF KnowsOK, JobIsLive
  <2>8. DraftOK(c)'
    BY <2>4, <2>5 DEF DraftOK, Writes, FirstPoints
  <2>9. "claim.video" \in PointsOf(tx[c].kind)
    BY <2>1 DEF PointsOf
  <2> QED BY <1>3, <2>1, <2>3, <2>6, <2>7, <2>8, <2>9, LockTypes, WantsAreFree, StatementKeeps
          DEF LeaseJob, ClientOK
<1>4. CASE MarkVideoProcessing(c)
  <2>0. tx[c].at = "claim.video" /\ committed.video.state \in {"queued", "processing"}
    BY <1>0, <1>4 DEF MarkVideoProcessing, At, KnowsOK, CommittedOK, JobIsLive
  <2>1. tx[c].at = "claim.video" /\ tx[c].kind = "claim" /\ Wants(c) = {VideoUpdate}
    BY <1>4, <1>0, <2>0, KindAt, WantsTable DEF MarkVideoProcessing, At
  <2>2. /\ locks[c] = {Job, JobsTable}
        /\ DOMAIN draft[c] = {"job"}
        /\ draft[c]["job"] = [state |-> "processing", lease |-> c]
    BY <1>0, <2>1 DEF HoldsOK, DraftOK, Writes, FirstPoints
  <2>3. PICK written : written = [video |-> VideoIn("processing")]
    OBVIOUS
  <2>4. Continue(c, "commit", {VideoUpdate}, written)
    BY <1>4, <2>0, <2>1, <2>3 DEF MarkVideoProcessing, Continue
  <2>5. /\ tx'[c].at = "commit" /\ tx'[c].kind = "claim" /\ committed' = committed
        /\ locks'[c] = {Job, JobsTable, VideoUpdate}
    BY <1>0, <2>1, <2>2, <2>3, <2>4, Continued
  <2>6. /\ DOMAIN draft'[c] = {"job", "video"}
        /\ draft'[c]["job"] = [state |-> "processing", lease |-> c]
        /\ draft'[c]["video"] = VideoIn("processing")
    BY <1>0, <2>1, <2>2, <2>3, <2>4, Continued DEF NoRows
  <2>7. HoldsOK(c)'
    BY <2>5 DEF HoldsOK, FirstPoints
  <2>8. KnowsOK(c)'
    BY <1>0, <1>4, <2>1, <2>5 DEF KnowsOK, JobIsLive
  <2>9. DraftOK(c)'
    BY <2>5, <2>6 DEF DraftOK, Writes, FirstPoints, VideoIn
  <2>10. "commit" \in PointsOf(tx[c].kind)
    BY <2>1 DEF PointsOf
  <2> QED BY <1>4, <2>1, <2>4, <2>7, <2>8, <2>9, <2>10, LockTypes, WantsAreFree, StatementKeeps
          DEF MarkVideoProcessing, ClientOK
<1>5. CASE End(c)
  BY <1>5, EndKeeps
<1> QED BY <1>1, <1>2, <1>3, <1>4, <1>5
   DEF SelectJob, LockJobOrSkip, LeaseJob, MarkVideoProcessing

\* The ready transaction of materializeJob.
LEMMA ReadyKeeps ==
    ASSUME LocksInv, NEW c \in Clients,
           LockJobForReady(c) \/ LockVideoForReady(c) \/ InsertRendition(c) \/ CompleteJob(c)
    PROVE  LocksInv'
<1>0. Shape /\ CommittedOK /\ HoldsOK(c) /\ KnowsOK(c) /\ DraftOK(c)
  BY Facts
<1>1. CASE LockJobForReady(c) /\ ~End(c)
  <2>1. tx[c].at = "ready.lock" /\ tx[c].kind = "ready" /\ Wants(c) = {Job}
    BY <1>1, <1>0, KindAt, WantsTable DEF LockJobForReady, At
  <2>2. locks[c] = {} /\ DOMAIN draft[c] = {}
    BY <1>0, <2>1 DEF HoldsOK, DraftOK, Writes, FirstPoints
  <2>3. Continue(c, "ready.video", {Job}, NoRows)
    BY <1>1, <2>1 DEF LockJobForReady, Continue
  <2>4. /\ tx'[c].at = "ready.video" /\ tx'[c].kind = "ready" /\ committed' = committed
        /\ locks'[c] = {Job}
    BY <1>0, <2>1, <2>2, <2>3, Continued
  <2>5. DOMAIN draft'[c] = {}
    BY <1>0, <2>1, <2>2, <2>3, Continued DEF NoRows
  <2>6. HoldsOK(c)'
    BY <2>4 DEF HoldsOK, FirstPoints
  <2>7. KnowsOK(c)'
    BY <1>0, <1>1, <2>1, <2>4 DEF KnowsOK, JobIsLive, LockJobForReady
  <2>8. DraftOK(c)'
    BY <2>4, <2>5 DEF DraftOK, Writes, FirstPoints
  <2>9. "ready.video" \in PointsOf(tx[c].kind)
    BY <2>1 DEF PointsOf
  <2> QED BY <1>1, <2>1, <2>3, <2>6, <2>7, <2>8, <2>9, LockTypes, WantsAreFree, StatementKeeps
          DEF LockJobForReady, ClientOK
<1>2. CASE LockVideoForReady(c) /\ ~End(c)
  <2>1. tx[c].at = "ready.video" /\ tx[c].kind = "ready" /\ Wants(c) = {Video}
    BY <1>2, <1>0, KindAt, WantsTable DEF LockVideoForReady, At
  <2>2. locks[c] = {Job} /\ DOMAIN draft[c] = {}
    BY <1>0, <2>1 DEF HoldsOK, DraftOK, Writes, FirstPoints
  <2>3. Continue(c, "ready.segments", {Video}, NoRows)
    BY <1>2, <2>1 DEF LockVideoForReady, Continue
  <2>4. /\ tx'[c].at = "ready.segments" /\ tx'[c].kind = "ready" /\ committed' = committed
        /\ locks'[c] = {Job, Video}
    BY <1>0, <2>1, <2>2, <2>3, Continued
  <2>5. DOMAIN draft'[c] = {}
    BY <1>0, <2>1, <2>2, <2>3, Continued DEF NoRows
  <2>6. HoldsOK(c)'
    BY <2>4 DEF HoldsOK, FirstPoints
  <2>7. KnowsOK(c)'
    BY <1>0, <1>2, <2>1, <2>4 DEF KnowsOK, JobIsLive
  <2>8. DraftOK(c)'
    BY <2>4, <2>5 DEF DraftOK, Writes, FirstPoints
  <2>9. "ready.segments" \in PointsOf(tx[c].kind)
    BY <2>1 DEF PointsOf
  <2> QED BY <1>2, <2>1, <2>3, <2>6, <2>7, <2>8, <2>9, LockTypes, WantsAreFree, StatementKeeps
          DEF LockVideoForReady, ClientOK
<1>3. CASE InsertRendition(c)
  <2>1. tx[c].at = "ready.segments" /\ tx[c].kind = "ready" /\ Wants(c) = {SegmentsTable}
    BY <1>3, <1>0, KindAt, WantsTable DEF InsertRendition, At
  <2>2. locks[c] = {Job, Video} /\ DOMAIN draft[c] = {}
    BY <1>0, <2>1 DEF HoldsOK, DraftOK, Writes, FirstPoints
  <2>3. Continue(c, "ready.complete", {SegmentsTable}, [rendition |-> [state |-> "ready"]])
    BY <1>3, <2>1 DEF InsertRendition, Continue
  <2>4. /\ tx'[c].at = "ready.complete" /\ tx'[c].kind = "ready" /\ committed' = committed
        /\ locks'[c] = {Job, Video, SegmentsTable}
    BY <1>0, <2>1, <2>2, <2>3, Continued
  <2>5. DOMAIN draft'[c] = {"rendition"} /\ draft'[c]["rendition"] = [state |-> "ready"]
    BY <1>0, <2>1, <2>2, <2>3, Continued DEF NoRows
  <2>6. HoldsOK(c)'
    BY <2>4 DEF HoldsOK, FirstPoints
  <2>7. KnowsOK(c)'
    BY <1>0, <1>3, <2>1, <2>4 DEF KnowsOK, JobIsLive
  <2>8. DraftOK(c)'
    BY <2>4, <2>5 DEF DraftOK, Writes, FirstPoints
  <2>9. "ready.complete" \in PointsOf(tx[c].kind)
    BY <2>1 DEF PointsOf
  <2> QED BY <1>3, <2>1, <2>3, <2>6, <2>7, <2>8, <2>9, LockTypes, WantsAreFree, StatementKeeps
          DEF InsertRendition, ClientOK
<1>4. CASE CompleteJob(c)
  <2>1. tx[c].at = "ready.complete" /\ tx[c].kind = "ready" /\ Wants(c) = {JobsTable}
    BY <1>4, <1>0, KindAt, WantsTable DEF CompleteJob, At
  <2>2. /\ locks[c] = {Job, Video, SegmentsTable}
        /\ DOMAIN draft[c] = {"rendition"}
        /\ draft[c]["rendition"] = [state |-> "ready"]
    BY <1>0, <2>1 DEF HoldsOK, DraftOK, Writes, FirstPoints
  <2>3. PICK written : written = [job |-> [state |-> "completed", lease |-> NULL],
                                  video |-> VideoIn("ready")]
    OBVIOUS
  <2>4. Continue(c, "commit", {JobsTable}, written)
    BY <1>4, <2>1, <2>3 DEF CompleteJob, Continue
  <2>5. /\ tx'[c].at = "commit" /\ tx'[c].kind = "ready" /\ committed' = committed
        /\ locks'[c] = {Job, Video, SegmentsTable, JobsTable}
    BY <1>0, <2>1, <2>2, <2>3, <2>4, Continued
  <2>6. /\ DOMAIN draft'[c] = {"rendition", "job", "video"}
        /\ draft'[c]["rendition"] = [state |-> "ready"]
        /\ draft'[c]["job"] = [state |-> "completed", lease |-> NULL]
        /\ draft'[c]["video"] = VideoIn("ready")
    BY <1>0, <2>1, <2>2, <2>3, <2>4, Continued DEF NoRows
  <2>7. HoldsOK(c)'
    BY <2>5 DEF HoldsOK, FirstPoints
  <2>8. KnowsOK(c)'
    BY <1>0, <1>4, <2>1, <2>5 DEF KnowsOK, JobIsLive
  <2>9. DraftOK(c)'
    BY <2>5, <2>6 DEF DraftOK, Writes, FirstPoints, VideoIn
  <2>10. "commit" \in PointsOf(tx[c].kind)
    BY <2>1 DEF PointsOf
  <2> QED BY <1>4, <2>1, <2>4, <2>7, <2>8, <2>9, <2>10, LockTypes, WantsAreFree, StatementKeeps
          DEF CompleteJob, ClientOK
<1>5. CASE End(c)
  BY <1>5, EndKeeps
<1> QED BY <1>1, <1>2, <1>3, <1>4, <1>5
   DEF LockJobForReady, LockVideoForReady, InsertRendition, CompleteJob

\* publishVideo.
LEMMA PublishKeeps ==
    ASSUME LocksInv, NEW c \in Clients, LockVideoForPublish(c) \/ LockRenditionForPublish(c)
    PROVE  LocksInv'
<1>0. Shape /\ CommittedOK /\ HoldsOK(c) /\ KnowsOK(c) /\ DraftOK(c)
  BY Facts
<1>1. CASE LockVideoForPublish(c) /\ committed.video.state = "ready"
  <2>1. tx[c].at = "publish.lock" /\ tx[c].kind = "publish" /\ Wants(c) = {Video}
    BY <1>1, <1>0, KindAt, WantsTable DEF LockVideoForPublish, At
  <2>2. locks[c] = {} /\ DOMAIN draft[c] = {}
    BY <1>0, <2>1 DEF HoldsOK, DraftOK, Writes, FirstPoints
  <2>3. Continue(c, "publish.rendition", {Video}, NoRows)
    BY <1>1, <2>1 DEF LockVideoForPublish, Continue
  <2>4. /\ tx'[c].at = "publish.rendition" /\ tx'[c].kind = "publish" /\ committed' = committed
        /\ locks'[c] = {Video}
    BY <1>0, <2>1, <2>2, <2>3, Continued
  <2>5. DOMAIN draft'[c] = {}
    BY <1>0, <2>1, <2>2, <2>3, Continued DEF NoRows
  <2>6. HoldsOK(c)'
    BY <2>4 DEF HoldsOK, FirstPoints
  <2>7. KnowsOK(c)'
    BY <1>0, <1>1, <2>1, <2>4 DEF KnowsOK, JobIsLive
  <2>8. DraftOK(c)'
    BY <2>4, <2>5 DEF DraftOK, Writes, FirstPoints
  <2>9. "publish.rendition" \in PointsOf(tx[c].kind)
    BY <2>1 DEF PointsOf
  <2> QED BY <1>1, <2>1, <2>3, <2>6, <2>7, <2>8, <2>9, LockTypes, WantsAreFree, StatementKeeps
          DEF LockVideoForPublish, ClientOK
<1>2. CASE LockRenditionForPublish(c) /\ committed.rendition.state = "ready"
  <2>1. tx[c].at = "publish.rendition" /\ tx[c].kind = "publish" /\ Wants(c) = {Rendition}
    BY <1>2, <1>0, KindAt, WantsTable DEF LockRenditionForPublish, At
  <2>2. locks[c] = {Video} /\ DOMAIN draft[c] = {}
    BY <1>0, <2>1 DEF HoldsOK, DraftOK, Writes, FirstPoints
  <2>3. PICK written : written = [rendition |-> [state |-> "published"],
                                  video |-> VideoIn("published")]
    OBVIOUS
  <2>4. Continue(c, "commit", {Rendition}, written)
    BY <1>2, <2>1, <2>3 DEF LockRenditionForPublish, Continue
  <2>5. /\ tx'[c].at = "commit" /\ tx'[c].kind = "publish" /\ committed' = committed
        /\ locks'[c] = {Video, Rendition}
    BY <1>0, <2>1, <2>2, <2>3, <2>4, Continued
  <2>6. /\ DOMAIN draft'[c] = {"rendition", "video"}
        /\ draft'[c]["rendition"] = [state |-> "published"]
        /\ draft'[c]["video"] = VideoIn("published")
    BY <1>0, <2>1, <2>2, <2>3, <2>4, Continued DEF NoRows
  <2>7. HoldsOK(c)'
    BY <2>5 DEF HoldsOK, FirstPoints
  <2>8. KnowsOK(c)'
    BY <1>0, <1>2, <2>1, <2>5 DEF KnowsOK, JobIsLive
  <2>9. DraftOK(c)'
    BY <2>5, <2>6 DEF DraftOK, Writes, FirstPoints, VideoIn
  <2>10. "commit" \in PointsOf(tx[c].kind)
    BY <2>1 DEF PointsOf
  <2> QED BY <1>2, <2>1, <2>4, <2>7, <2>8, <2>9, <2>10, LockTypes, WantsAreFree, StatementKeeps
          DEF LockRenditionForPublish, ClientOK
<1>3. CASE End(c)
  BY <1>3, EndKeeps
<1> QED BY <1>1, <1>2, <1>3 DEF LockVideoForPublish, LockRenditionForPublish

\* commitChunk.
LEMMA ChunkKeeps ==
    ASSUME LocksInv, NEW c \in Clients, LockUploadForChunk(c) \/ TouchVideo(c)
    PROVE  LocksInv'
<1>0. Shape /\ CommittedOK /\ HoldsOK(c) /\ KnowsOK(c) /\ DraftOK(c)
  BY Facts
<1>1. CASE /\ LockUploadForChunk(c)
           /\ committed.upload = [state |-> "uploading", complete |-> FALSE]
  <2>1. tx[c].at = "chunk.lock" /\ tx[c].kind = "chunk" /\ Wants(c) = {Upload}
    BY <1>1, <1>0, KindAt, WantsTable DEF LockUploadForChunk, At
  <2>2. locks[c] = {} /\ DOMAIN draft[c] = {}
    BY <1>0, <2>1 DEF HoldsOK, DraftOK, Writes, FirstPoints
  <2>3. PICK complete \in BOOLEAN :
           Continue(c, "chunk.video", {Upload},
                    [upload |-> [state |-> "uploading", complete |-> complete]])
    BY <1>1, <2>1 DEF LockUploadForChunk, Continue
  <2>4. PICK row, written : /\ row = [state |-> "uploading", complete |-> complete]
                            /\ written = [upload |-> row]
    OBVIOUS
  <2>5. DOMAIN written = {"upload"} /\ written["upload"] = row
    BY <2>4
  <2>6. Continue(c, "chunk.video", {Upload}, written)
    BY <2>3, <2>4 DEF Continue
  <2>7. /\ tx'[c].at = "chunk.video" /\ tx'[c].kind = "chunk" /\ committed' = committed
        /\ locks'[c] = {Upload}
    BY <1>0, <2>1, <2>2, <2>6, Continued
  <2>8. DOMAIN draft'[c] = {"upload"} /\ draft'[c]["upload"] = row
    BY <1>0, <2>2, <2>5, <2>6, Continued
  <2>9. HoldsOK(c)'
    BY <2>7 DEF HoldsOK, FirstPoints
  <2>10. KnowsOK(c)'
    BY <1>1, <2>7 DEF KnowsOK, JobIsLive
  <2>11. DraftOK(c)'
    BY <2>4, <2>7, <2>8 DEF DraftOK, Writes, FirstPoints
  <2>12. "chunk.video" \in PointsOf(tx[c].kind)
    BY <2>1 DEF PointsOf
  <2> QED BY <1>1, <2>1, <2>6, <2>9, <2>10, <2>11, <2>12, LockTypes, WantsAreFree, StatementKeeps
          DEF LockUploadForChunk, ClientOK
<1>2. CASE TouchVideo(c)
  <2>1. tx[c].at = "chunk.video" /\ tx[c].kind = "chunk" /\ Wants(c) = {VideoUpdate}
    BY <1>2, <1>0, KindAt, WantsTable DEF TouchVideo, At
  <2>2. /\ locks[c] = {Upload} /\ DOMAIN draft[c] = {"upload"}
        /\ draft[c]["upload"] \in [state : {"uploading"}, complete : BOOLEAN]
    BY <1>0, <2>1 DEF HoldsOK, DraftOK, Writes, FirstPoints
  <2>3. PICK written : written = [video |-> committed.video]
    OBVIOUS
  <2>4. Continue(c, "commit", {VideoUpdate}, written)
    BY <1>2, <2>1, <2>3 DEF TouchVideo, Continue
  <2>5. /\ tx'[c].at = "commit" /\ tx'[c].kind = "chunk" /\ committed' = committed
        /\ locks'[c] = {Upload, VideoUpdate}
    BY <1>0, <2>1, <2>2, <2>4, Continued
  <2>6. /\ DOMAIN draft'[c] = {"upload", "video"}
        /\ draft'[c]["upload"] = draft[c]["upload"] /\ draft'[c]["video"] = committed.video
    BY <1>0, <2>2, <2>3, <2>4, Continued
  <2>7. HoldsOK(c)'
    BY <2>5 DEF HoldsOK, FirstPoints
  <2>8. KnowsOK(c)'
    BY <1>0, <2>1, <2>5 DEF KnowsOK, JobIsLive
  <2>9. DraftOK(c)'
    BY <2>2, <2>5, <2>6 DEF DraftOK, Writes, FirstPoints
  <2>10. "commit" \in PointsOf(tx[c].kind)
    BY <2>1 DEF PointsOf
  <2> QED BY <1>2, <2>1, <2>4, <2>7, <2>8, <2>9, <2>10, LockTypes, WantsAreFree, StatementKeeps
          DEF TouchVideo, ClientOK
<1>3. CASE End(c)
  BY <1>3, EndKeeps
<1> QED BY <1>1, <1>2, <1>3 DEF LockUploadForChunk, TouchVideo

\* tombstoneVideo, before it writes anything.
LEMMA TombstoneLocksKeep ==
    ASSUME LocksInv, NEW c \in Clients, LockJobForTombstone(c) \/ LockVideoForTombstone(c)
    PROVE  LocksInv'
<1>0. Shape /\ CommittedOK /\ HoldsOK(c) /\ KnowsOK(c) /\ DraftOK(c)
  BY Facts
<1>1. CASE LockJobForTombstone(c)
  <2>1. /\ tx[c].at = "tombstone.lock" /\ tx[c].kind \in {"tombstone", "foreign_tombstone"}
        /\ Wants(c) \in {{}, {Job}}
    BY <1>1, <1>0, KindAt, WantsTable DEF LockJobForTombstone, At
  <2>2. locks[c] = {} /\ DOMAIN draft[c] = {}
    BY <1>0, <2>1 DEF HoldsOK, DraftOK, Writes, FirstPoints
  <2>3. PICK taken : taken = Wants(c)
    OBVIOUS
  <2>4. Continue(c, "tombstone.video", taken, NoRows)
    BY <1>1, <2>3 DEF LockJobForTombstone, Continue
  <2>5. /\ tx'[c].at = "tombstone.video" /\ tx'[c].kind = tx[c].kind /\ committed' = committed
        /\ locks'[c] \in {{}, {Job}} /\ DOMAIN draft'[c] = {}
    BY <1>0, <2>1, <2>2, <2>3, <2>4, Continued DEF NoRows
  <2>6. HoldsOK(c)'
    BY <2>5 DEF HoldsOK, FirstPoints
  <2>7. KnowsOK(c)'
    BY <2>5 DEF KnowsOK
  <2>8. DraftOK(c)'
    BY <2>5 DEF DraftOK, Writes, FirstPoints
  <2>9. "tombstone.video" \in PointsOf(tx[c].kind)
    BY <2>1 DEF PointsOf
  <2>10. \A want \in taken : want \in (Rows \cup Tables) \X Modes
    BY <2>1, <2>3, LockTypes
  <2>11. \A d \in Clients \ {c}, want \in taken : ~Blocks(d, want)
    BY <1>1, <2>3, WantsAreFree DEF LockJobForTombstone
  <2> QED BY <2>4, <2>6, <2>7, <2>8, <2>9, <2>10, <2>11, StatementKeeps DEF ClientOK
<1>2. CASE LockVideoForTombstone(c) /\ ~End(c)
  <2>1. tx[c].at = "tombstone.video" /\ tx[c].kind = "tombstone" /\ Wants(c) = {Video}
    BY <1>2, <1>0, KindAt, WantsTable DEF LockVideoForTombstone, At
  <2>2. locks[c] \in {{}, {Job}} /\ DOMAIN draft[c] = {}
    BY <1>0, <2>1 DEF HoldsOK, DraftOK, Writes, FirstPoints
  <2>3. /\ Continue(c, "tombstone.jobs", {Video}, NoRows)
        /\ committed.video.state \notin {"absent", "tombstoned"}
    BY <1>2, <2>1 DEF LockVideoForTombstone, Continue
  <2>4. /\ tx'[c].at = "tombstone.jobs" /\ tx'[c].kind = "tombstone" /\ committed' = committed
        /\ locks'[c] = locks[c] \cup {Video} /\ DOMAIN draft'[c] = {}
    BY <1>0, <2>1, <2>2, <2>3, Continued DEF NoRows
  <2>5. locks'[c] \in {{Video}, {Video, Job}}
    BY <2>2, <2>4
  <2>6. HoldsOK(c)'
    BY <2>4, <2>5 DEF HoldsOK, FirstPoints
  <2>7. KnowsOK(c)'
    BY <2>3, <2>4 DEF KnowsOK
  <2>8. DraftOK(c)'
    BY <2>4 DEF DraftOK, Writes, FirstPoints
  <2>9. "tombstone.jobs" \in PointsOf(tx[c].kind)
    BY <2>1 DEF PointsOf
  <2> QED BY <1>2, <2>1, <2>3, <2>6, <2>7, <2>8, <2>9, LockTypes, WantsAreFree, StatementKeeps
          DEF LockVideoForTombstone, ClientOK
<1>3. CASE End(c)
  BY <1>3, EndKeeps
<1> QED BY <1>1, <1>2, <1>3 DEF LockJobForTombstone, LockVideoForTombstone

\* Its two updates.  If the job is live the second one locks it, whether or not the
\* transaction had found it before it locked the video.
LEMMA CancelKeeps ==
    ASSUME LocksInv, NEW c \in Clients, CancelJob(c)
    PROVE  LocksInv'
<1>0. Shape /\ CommittedOK /\ HoldsOK(c) /\ KnowsOK(c) /\ DraftOK(c)
  BY Facts
<1>1. CASE CancelJob(c) /\ tx[c].at = "tombstone.jobs"
  <2>1. tx[c].at = "tombstone.jobs" /\ tx[c].kind = "tombstone" /\ Wants(c) = {JobsTable}
    BY <1>1, <1>0, KindAt, WantsTable
  <2>2. locks[c] \in {{Video}, {Video, Job}} /\ DOMAIN draft[c] = {}
    BY <1>0, <2>1 DEF HoldsOK, DraftOK, Writes, FirstPoints
  <2>3. Continue(c, "tombstone.cancel", {JobsTable}, NoRows) /\ At(c, "tombstone.jobs")
    BY <1>1, <2>1 DEF CancelJob, Continue, At
  <2>4. /\ tx'[c].at = "tombstone.cancel" /\ tx'[c].kind = "tombstone" /\ committed' = committed
        /\ locks'[c] = locks[c] \cup {JobsTable} /\ DOMAIN draft'[c] = {}
    BY <1>0, <2>1, <2>2, <2>3, Continued DEF NoRows
  <2>5. locks'[c] \in {{Video, JobsTable}, {Video, Job, JobsTable}}
    BY <2>2, <2>4
  <2>6. HoldsOK(c)'
    BY <2>4, <2>5 DEF HoldsOK, FirstPoints
  <2>7. KnowsOK(c)'
    BY <1>0, <2>1, <2>4 DEF KnowsOK
  <2>8. DraftOK(c)'
    BY <2>4 DEF DraftOK, Writes, FirstPoints
  <2>9. "tombstone.cancel" \in PointsOf(tx[c].kind)
    BY <2>1 DEF PointsOf
  <2> QED BY <2>1, <2>3, <2>6, <2>7, <2>8, <2>9, LockTypes, WantsAreFree, StatementKeeps
          DEF ClientOK
<1>2. CASE CancelJob(c) /\ tx[c].at = "tombstone.cancel"
  <2> DEFINE job == [state |-> "cancelled", lease |-> NULL]
             gone == [state |-> "tombstoned", deletions |-> committed.video.deletions + 1]
  <2>1. /\ tx[c].at = "tombstone.cancel" /\ tx[c].kind = "tombstone"
        /\ Wants(c) = CancelLock(c) /\ CancelLock(c) = IF JobIsLive THEN {Job} ELSE {}
    BY <1>2, <1>0, KindAt, WantsTable DEF CancelLock, Job
  <2>2. /\ locks[c] \in {{Video, JobsTable}, {Video, Job, JobsTable}} /\ DOMAIN draft[c] = {}
        /\ committed.video.state \notin {"absent", "tombstoned"}
    BY <1>0, <2>1 DEF HoldsOK, DraftOK, KnowsOK, Writes, FirstPoints
  <2>3. PICK taken, written :
           /\ taken = CancelLock(c)
           /\ written = Overlay([video |-> gone],
                                IF CancelLock(c) # {} THEN [job |-> job] ELSE NoRows)
    OBVIOUS
  <2>4. /\ DOMAIN written = IF JobIsLive THEN {"job", "video"} ELSE {"video"}
        /\ written["video"] = gone
        /\ JobIsLive => written["job"] = job
    BY <2>1, <2>3 DEF Overlay, NoRows
  <2>5. Continue(c, "commit", taken, written) /\ At(c, "tombstone.cancel")
    BY <1>2, <2>3 DEF CancelJob, CancelledJob, Continue, At
  <2>6. /\ tx'[c].at = "commit" /\ tx'[c].kind = "tombstone" /\ committed' = committed
        /\ locks'[c] = locks[c] \cup taken
    BY <1>0, <2>1, <2>5, Continued
  <2>7. /\ DOMAIN draft'[c] = IF JobIsLive THEN {"job", "video"} ELSE {"video"}
        /\ draft'[c]["video"] = gone
        /\ JobIsLive => draft'[c]["job"] = job
    <3> HIDE DEF job, gone
    <3>0. DOMAIN draft'[c] = DOMAIN written \cup DOMAIN draft[c]
      BY <1>0, <2>5, Continued
    <3>1. DOMAIN draft'[c] = DOMAIN written
      BY <2>2, <3>0
    <3>2. \A row : row \in DOMAIN written => draft'[c][row] = written[row]
      BY <1>0, <2>5, Continued
    <3> QED BY <2>4, <3>1, <3>2
  <2>8. JobIsLive' = JobIsLive
    BY <2>6 DEF JobIsLive
  <2>9. /\ locks'[c] \in {{Video, JobsTable}, {Video, Job, JobsTable}}
        /\ JobIsLive => Job \in locks'[c]
    BY <2>1, <2>2, <2>3, <2>6
  <2>10. HoldsOK(c)'
    BY <2>6, <2>8, <2>9 DEF HoldsOK, FirstPoints
  <2>11. KnowsOK(c)'
    BY <2>2, <2>6 DEF KnowsOK
  <2>12. DraftOK(c)'
    BY <2>6, <2>7, <2>8 DEF DraftOK, Writes, FirstPoints
  <2>13. "commit" \in PointsOf(tx[c].kind)
    BY <2>1 DEF PointsOf
  <2>14. \A want \in taken : want \in (Rows \cup Tables) \X Modes
    BY <2>1, <2>3, LockTypes
  <2>15. \A d \in Clients \ {c}, want \in taken : ~Blocks(d, want)
    BY <2>1, <2>3, <2>5, WantsAreFree
  <2> QED BY <2>5, <2>10, <2>11, <2>12, <2>13, <2>14, <2>15, StatementKeeps DEF ClientOK
<1> QED BY <1>1, <1>2 DEF CancelJob, At

\* migrate.
LEMMA MigrateKeeps ==
    ASSUME LocksInv, NEW c \in Clients, ShareTables(c)
    PROVE  LocksInv'
<1>0. Shape /\ CommittedOK /\ HoldsOK(c) /\ KnowsOK(c) /\ DraftOK(c)
  BY Facts
<1>1. CASE ShareTables(c) /\ tx[c].at = "migrate.jobs"
  <2>1. /\ tx[c].at = "migrate.jobs"
        /\ tx[c].kind = "migrate"
        /\ Wants(c) = {<<"processing_jobs", "share">>}
    BY <1>1, <1>0, KindAt, WantsTable DEF ShareTables, At
  <2>2. locks[c] = {} /\ DOMAIN draft[c] = {}
    BY <1>0, <2>1 DEF HoldsOK, DraftOK, Writes, FirstPoints
  <2>3. Continue(c, "migrate.segments", {<<"processing_jobs", "share">>}, NoRows)
    BY <1>1, <2>1 DEF ShareTables, Continue, At
  <2>4. /\ tx'[c].at = "migrate.segments" /\ tx'[c].kind = "migrate" /\ committed' = committed
        /\ locks'[c] = {<<"processing_jobs", "share">>}
    BY <1>0, <2>1, <2>2, <2>3, Continued
  <2>5. DOMAIN draft'[c] = {}
    BY <1>0, <2>1, <2>2, <2>3, Continued DEF NoRows
  <2>6. HoldsOK(c)'
    BY <2>4 DEF HoldsOK, FirstPoints
  <2>7. KnowsOK(c)'
    BY <1>0, <1>1, <2>1, <2>4 DEF KnowsOK, JobIsLive
  <2>8. DraftOK(c)'
    BY <2>4, <2>5 DEF DraftOK, Writes, FirstPoints
  <2>9. "migrate.segments" \in PointsOf(tx[c].kind)
    BY <2>1 DEF PointsOf
  <2> QED BY <1>1, <2>1, <2>3, <2>6, <2>7, <2>8, <2>9, LockTypes, WantsAreFree, StatementKeeps
          DEF ShareTables, ClientOK
<1>2. CASE ShareTables(c) /\ tx[c].at = "migrate.segments"
  <2>1. /\ tx[c].at = "migrate.segments"
        /\ tx[c].kind = "migrate"
        /\ Wants(c) = {<<"rendition_segments", "share">>}
    BY <1>2, <1>0, KindAt, WantsTable DEF ShareTables, At
  <2>2. locks[c] = {<<"processing_jobs", "share">>} /\ DOMAIN draft[c] = {}
    BY <1>0, <2>1 DEF HoldsOK, DraftOK, Writes, FirstPoints
  <2>3. Continue(c, "commit", {<<"rendition_segments", "share">>}, NoRows)
    BY <1>2, <2>1 DEF ShareTables, Continue, At
  <2>4. /\ tx'[c].at = "commit" /\ tx'[c].kind = "migrate" /\ committed' = committed
        /\ locks'[c] = {<<"processing_jobs", "share">>, <<"rendition_segments", "share">>}
    BY <1>0, <2>1, <2>2, <2>3, Continued
  <2>5. DOMAIN draft'[c] = {}
    BY <1>0, <2>1, <2>2, <2>3, Continued DEF NoRows
  <2>6. HoldsOK(c)'
    BY <2>4 DEF HoldsOK, FirstPoints
  <2>7. KnowsOK(c)'
    BY <1>0, <1>2, <2>1, <2>4 DEF KnowsOK, JobIsLive
  <2>8. DraftOK(c)'
    BY <2>4, <2>5 DEF DraftOK, Writes, FirstPoints
  <2>9. "commit" \in PointsOf(tx[c].kind)
    BY <2>1 DEF PointsOf
  <2> QED BY <1>2, <2>1, <2>3, <2>6, <2>7, <2>8, <2>9, LockTypes, WantsAreFree, StatementKeeps
          DEF ShareTables, ClientOK
<1> QED BY <1>1, <1>2 DEF ShareTables, At

----------------------------------------------------------------------------
(* The beginning and the end of a transaction.                             *)

\* A new transaction has no lock, has written nothing and knows nothing.
LEMMA BeginKeeps ==
    ASSUME LocksInv, NEW c \in Clients, NEW kind \in AllKinds, Begin(c, kind)
    PROVE  LocksInv'
<1>1. Shape /\ LocksAgree /\ CommittedOK /\ \A d \in Clients : ClientOK(d)
  BY DEF LocksInv
<1>2. /\ tx'[c] = [kind |-> kind, at |-> FirstStatement[kind], inTime |-> ~expired]
      /\ tx' = [d \in Clients |-> tx'[d]]
      /\ \A d \in Clients \ {c} : tx'[d] = tx[d]
      /\ locks' = locks /\ draft' = draft /\ committed' = committed /\ expired' = expired
  BY <1>1 DEF Begin, Shape
<1>3. FirstStatement[kind] \in PointsOf(kind) \cap FirstPoints
  BY DEF FirstStatement, PointsOf, FirstPoints, AllKinds
<1>4. Shape'
  <2>1. TxOK(tx'[c])
    BY <1>1, <1>2, <1>3 DEF TxOK, Shape
  <2>2. \A d \in Clients : TxOK(tx'[d])
    BY <1>1, <1>2, <2>1 DEF Shape
  <2>3. run' \in [Clients -> BOOLEAN]
    BY <1>1 DEF Begin, Shape
  <2> QED BY <1>1, <1>2, <2>2, <2>3 DEF Shape
<1>5. LocksAgree'
  BY <1>1, <1>2 DEF LocksAgree, Conflicts
<1>6. CommittedOK'
  BY <1>1, <1>2
     DEF CommittedOK, RowStates, UploadRows, VideoRows, JobRows, RenditionRows, JobIsLive
<1>7. ASSUME NEW d \in Clients \ {c} PROVE ClientOK(d)'
  BY <1>1, <1>2, OthersKeep
<1>8. ClientOK(c)'
  <2>1. HoldsOK(c) /\ DraftOK(c) /\ tx[c].at = "none"
    BY <1>1 DEF ClientOK, Begin, Idle
  <2>2. locks[c] = {} /\ DOMAIN draft[c] = {}
    BY <2>1 DEF HoldsOK, DraftOK, Writes, FirstPoints
  <2>3. tx'[c].at \in FirstPoints /\ locks'[c] = {} /\ DOMAIN draft'[c] = {}
    BY <1>2, <1>3, <2>2
  <2>4. HoldsOK(c)'
    BY <2>3 DEF HoldsOK, FirstPoints
  <2>5. KnowsOK(c)'
    BY <2>3 DEF KnowsOK, FirstPoints
  <2>6. DraftOK(c)'
    BY <2>3 DEF DraftOK, Writes, FirstPoints
  <2> QED BY <2>4, <2>5, <2>6 DEF ClientOK
<1> QED BY <1>4, <1>5, <1>6, <1>7, <1>8 DEF LocksInv

\* What a commit changes.
LEMMA Committed ==
    ASSUME LocksInv, NEW c \in Clients, Commit(c)
    PROVE  /\ tx'[c] = Idle /\ locks'[c] = {} /\ draft'[c] = NoRows
           /\ \A d \in Clients \ {c} :
                 tx'[d] = tx[d] /\ locks'[d] = locks[d] /\ draft'[d] = draft[d]
           /\ locks' = [locks EXCEPT ![c] = {}]
           /\ DOMAIN draft[c] \subseteq Rows =>
                 /\ committed' = [row \in Rows |-> committed'[row]]
                 /\ \A row \in Rows :
                       committed'[row] = IF row \in DOMAIN draft[c] THEN draft[c][row]
                                                                     ELSE committed[row]
<1>1. Shape /\ CommittedOK
  BY DEF LocksInv
<1>2. DOMAIN committed = Rows
  BY <1>1 DEF CommittedOK, RowStates, Rows
<1>3. ASSUME DOMAIN draft[c] \subseteq Rows
      PROVE  /\ committed' = [row \in Rows |-> committed'[row]]
             /\ \A row \in Rows :
                   committed'[row] = IF row \in DOMAIN draft[c] THEN draft[c][row]
                                                                 ELSE committed[row]
  BY <1>2, <1>3 DEF Commit, Overlay
<1> QED BY <1>1, <1>3 DEF Commit, Shape

\* What each transaction leaves in the four tables.
LEMMA CommittedRows ==
    ASSUME LocksInv, NEW c \in Clients, Commit(c)
    PROVE  LET kind == tx[c].kind
               Same(rows) == \A row \in rows : committed'[row] = committed[row]
           IN  /\ committed' = [row \in Rows |-> committed'[row]]
               /\ kind \in AllKinds \ {"foreign_tombstone"}
               /\ kind = "open" =>
                     /\ committed'["upload"] = [state |-> "uploading", complete |-> FALSE]
                     /\ committed'["video"] = [state |-> "uploading", deletions |-> 0]
                     /\ Same({"job", "rendition"})
               /\ kind = "chunk" =>
                     /\ committed'["upload"] \in [state : {"uploading"}, complete : BOOLEAN]
                     /\ Same({"video", "job", "rendition"})
               /\ kind = "finalize" =>
                     /\ committed'["upload"] = [state |-> "finalized", complete |-> TRUE]
                     /\ committed'["video"] = VideoIn("queued")
                     /\ committed'["job"] = [state |-> "queued", lease |-> NULL]
                     /\ Same({"rendition"})
               /\ kind = "claim" =>
                     /\ committed'["video"] = VideoIn("processing")
                     /\ committed'["job"] = [state |-> "processing", lease |-> c]
                     /\ Same({"upload", "rendition"})
               /\ kind = "ready" =>
                     /\ committed'["video"] = VideoIn("ready")
                     /\ committed'["job"] = [state |-> "completed", lease |-> NULL]
                     /\ committed'["rendition"] = [state |-> "ready"]
                     /\ Same({"upload"})
               /\ kind = "publish" =>
                     /\ committed'["video"] = VideoIn("published")
                     /\ committed'["rendition"] = [state |-> "published"]
                     /\ Same({"upload", "job"})
               /\ kind = "tombstone" =>
                     /\ committed'["video"] = [state |-> "tombstoned",
                                               deletions |-> committed.video.deletions + 1]
                     /\ JobIsLive =>
                           committed'["job"] = [state |-> "cancelled", lease |-> NULL]
                     /\ ~JobIsLive => Same({"job"})
                     /\ Same({"upload", "rendition"})
               /\ kind = "migrate" => Same(Rows)
<1> DEFINE kind == tx[c].kind
           new == draft[c]
<1>1. DraftOK(c) /\ Shape /\ tx[c].at = "commit"
  BY Facts DEF Commit
<1>2. kind \in AllKinds \ {"foreign_tombstone"}
  BY <1>1, KindAt DEF Shape, TxOK
<1>3. /\ DOMAIN new \subseteq Rows =>
            /\ committed' = [row \in Rows |-> committed'[row]]
            /\ \A row \in Rows : committed'[row] = IF row \in DOMAIN new THEN new[row]
                                                                     ELSE committed[row]
  BY Committed
<1> HIDE DEF new
<1>4. CASE kind = "open"
  <2>1. /\ DOMAIN new = {"upload", "video"}
        /\ new["upload"] = [state |-> "uploading", complete |-> FALSE]
        /\ new["video"] = [state |-> "uploading", deletions |-> 0]
    BY <1>1, <1>4 DEF DraftOK, Writes, new
  <2> QED BY <1>2, <1>3, <1>4, <2>1 DEF Rows
<1>5. CASE kind = "chunk"
  <2>1. /\ DOMAIN new = {"upload", "video"}
        /\ new["upload"] \in [state : {"uploading"}, complete : BOOLEAN]
        /\ new["video"] = committed.video
    BY <1>1, <1>5 DEF DraftOK, Writes, new
  <2> QED BY <1>2, <1>3, <1>5, <2>1 DEF Rows
<1>6. CASE kind = "finalize"
  <2>1. /\ DOMAIN new = {"upload", "job", "video"}
        /\ new["upload"] = [state |-> "finalized", complete |-> TRUE]
        /\ new["job"] = [state |-> "queued", lease |-> NULL]
        /\ new["video"] = VideoIn("queued")
    BY <1>1, <1>6 DEF DraftOK, Writes, NewJob, new
  <2> QED BY <1>2, <1>3, <1>6, <2>1 DEF Rows
<1>7. CASE kind = "claim"
  <2>1. /\ DOMAIN new = {"job", "video"}
        /\ new["job"] = [state |-> "processing", lease |-> c]
        /\ new["video"] = VideoIn("processing")
    BY <1>1, <1>7 DEF DraftOK, Writes, new
  <2> QED BY <1>2, <1>3, <1>7, <2>1 DEF Rows
<1>8. CASE kind = "ready"
  <2>1. /\ DOMAIN new = {"rendition", "job", "video"}
        /\ new["rendition"] = [state |-> "ready"]
        /\ new["job"] = [state |-> "completed", lease |-> NULL]
        /\ new["video"] = VideoIn("ready")
    BY <1>1, <1>8 DEF DraftOK, Writes, new
  <2> QED BY <1>2, <1>3, <1>8, <2>1 DEF Rows
<1>9. CASE kind = "publish"
  <2>1. /\ DOMAIN new = {"rendition", "video"}
        /\ new["rendition"] = [state |-> "published"]
        /\ new["video"] = VideoIn("published")
    BY <1>1, <1>9 DEF DraftOK, Writes, new
  <2> QED BY <1>2, <1>3, <1>9, <2>1 DEF Rows
<1>10. CASE kind = "tombstone"
  <2>1. /\ DOMAIN new = IF JobIsLive THEN {"job", "video"} ELSE {"video"}
        /\ JobIsLive => new["job"] = [state |-> "cancelled", lease |-> NULL]
        /\ new["video"] = [state |-> "tombstoned", deletions |-> committed.video.deletions + 1]
    BY <1>1, <1>10 DEF DraftOK, Writes, new
  <2> QED BY <1>2, <1>3, <1>10, <2>1 DEF Rows
<1>11. CASE kind = "migrate"
  <2>1. DOMAIN new = {}
    BY <1>1, <1>11 DEF DraftOK, Writes, new
  <2> QED BY <1>2, <1>3, <1>11, <2>1 DEF Rows
<1> QED BY <1>2, <1>4, <1>5, <1>6, <1>7, <1>8, <1>9, <1>10, <1>11 DEF AllKinds

\* The rows that were committed agreed with each other, and so do those that replace them.
LEMMA CommittedKeeps ==
    ASSUME LocksInv, NEW c \in Clients, Commit(c)
    PROVE  CommittedOK'
<1> DEFINE kind == tx[c].kind
<1>1. CommittedOK /\ KnowsOK(c) /\ tx[c].at = "commit"
  BY Facts DEF Commit
<1>2. /\ committed' = [row \in Rows |-> committed'[row]]
      /\ kind \in AllKinds \ {"foreign_tombstone"}
  BY CommittedRows
<1> SUFFICES
      /\ committed'.upload \in UploadRows /\ committed'.video \in VideoRows
      /\ committed'.job \in JobRows /\ committed'.rendition \in RenditionRows
      /\ committed'.upload.state = "absent" <=> committed'.video.state = "absent"
      /\ committed'.video.state = "absent" => committed'.video.deletions = 0
      /\ committed'.job.state = "absent" <=> committed'.upload.state # "finalized"
      /\ JobIsLive' => committed'.job.state = committed'.video.state
      /\ committed'.job.state # "completed" <=> committed'.rendition.state = "absent"
  BY <1>2 DEF CommittedOK, RowStates, Rows, UploadRows, VideoRows, JobRows, RenditionRows
<1>3. /\ committed.upload \in UploadRows /\ committed.video \in VideoRows
      /\ committed.job \in JobRows /\ committed.rendition \in RenditionRows
      /\ committed.upload.state = "absent" <=> committed.video.state = "absent"
      /\ committed.video.state = "absent" => committed.video.deletions = 0
      /\ committed.job.state = "absent" <=> committed.upload.state # "finalized"
      /\ JobIsLive => committed.job.state = committed.video.state
      /\ committed.job.state # "completed" <=> committed.rendition.state = "absent"
  BY <1>1 DEF CommittedOK, RowStates
<1>4. CASE kind = "open"
  <2>1. committed.upload.state = "absent"
    BY <1>1, <1>4 DEF KnowsOK
  <2>2. /\ committed'["upload"] = [state |-> "uploading", complete |-> FALSE]
        /\ committed'["video"] = [state |-> "uploading", deletions |-> 0]
    BY <1>4, CommittedRows
  <2>3. /\ committed'["upload"] \in UploadRows /\ committed'["upload"].state = "uploading"
        /\ committed'["video"] \in VideoRows /\ committed'["video"].state = "uploading"
    BY <1>3, <2>2 DEF VideoIn, UploadRows, VideoRows
  <2>4. committed'["job"] = committed["job"] /\ committed'["rendition"] = committed["rendition"]
    BY <1>4, CommittedRows
  <2> QED BY <1>3, <2>1, <2>3, <2>4 DEF JobIsLive
<1>5. CASE kind = "chunk"
  <2>1. committed.upload.state = "uploading"
    BY <1>1, <1>5 DEF KnowsOK
  <2>2. committed'["upload"] \in UploadRows /\ committed'["upload"].state = "uploading"
    BY <1>5, CommittedRows DEF UploadRows
  <2>3. /\ committed'["video"] = committed["video"] /\ committed'["job"] = committed["job"]
        /\ committed'["rendition"] = committed["rendition"]
    BY <1>5, CommittedRows
  <2> QED BY <1>3, <2>1, <2>2, <2>3 DEF JobIsLive
<1>6. CASE kind = "finalize"
  <2>1. committed.upload.state = "uploading"
    BY <1>1, <1>6 DEF KnowsOK
  <2>2. /\ committed'["upload"] = [state |-> "finalized", complete |-> TRUE]
        /\ committed'["video"] = VideoIn("queued")
        /\ committed'["job"] = [state |-> "queued", lease |-> NULL]
    BY <1>6, CommittedRows
  <2>3. /\ committed'["upload"] \in UploadRows /\ committed'["upload"].state = "finalized"
        /\ committed'["video"] \in VideoRows /\ committed'["video"].state = "queued"
        /\ committed'["job"] \in JobRows /\ committed'["job"].state = "queued"
    BY <1>3, <2>2 DEF VideoIn, UploadRows, VideoRows, JobRows
  <2>4. committed'["rendition"] = committed["rendition"]
    BY <1>6, CommittedRows
  <2> QED BY <1>3, <2>1, <2>3, <2>4 DEF JobIsLive
<1>7. CASE kind = "claim"
  <2>1. JobIsLive
    BY <1>1, <1>7 DEF KnowsOK
  <2>2. /\ committed'["video"] = VideoIn("processing")
        /\ committed'["job"] = [state |-> "processing", lease |-> c]
    BY <1>7, CommittedRows
  <2>3. /\ committed'["video"] \in VideoRows /\ committed'["video"].state = "processing"
        /\ committed'["job"] \in JobRows /\ committed'["job"].state = "processing"
    BY <1>3, <2>2, ClientsAssumption DEF VideoIn, VideoRows, JobRows
  <2>4. /\ committed'["upload"] = committed["upload"]
        /\ committed'["rendition"] = committed["rendition"]
    BY <1>7, CommittedRows
  <2> QED BY <1>3, <2>1, <2>3, <2>4 DEF JobIsLive
<1>8. CASE kind = "ready"
  <2>1. committed.job.state = "processing"
    BY <1>1, <1>8 DEF KnowsOK
  <2>2. /\ committed'["video"] = VideoIn("ready")
        /\ committed'["job"] = [state |-> "completed", lease |-> NULL]
        /\ committed'["rendition"] = [state |-> "ready"]
    BY <1>8, CommittedRows
  <2>3. /\ committed'["video"] \in VideoRows /\ committed'["video"].state = "ready"
        /\ committed'["job"] \in JobRows /\ committed'["job"].state = "completed"
        /\ committed'["rendition"] \in RenditionRows /\ committed'["rendition"].state = "ready"
    BY <1>3, <2>2 DEF VideoIn, VideoRows, JobRows, RenditionRows
  <2>4. committed'["upload"] = committed["upload"]
    BY <1>8, CommittedRows
  <2> QED BY <1>3, <2>1, <2>3, <2>4 DEF JobIsLive
<1>9. CASE kind = "publish"
  <2>1. committed.video.state = "ready" /\ committed.rendition.state = "ready"
    BY <1>1, <1>9 DEF KnowsOK
  <2>2. /\ committed'["video"] = VideoIn("published")
        /\ committed'["rendition"] = [state |-> "published"]
    BY <1>9, CommittedRows
  <2>3. /\ committed'["video"] \in VideoRows /\ committed'["video"].state = "published"
        /\ committed'["rendition"] \in RenditionRows /\ committed'["rendition"].state = "published"
    BY <1>3, <2>2 DEF VideoIn, VideoRows, RenditionRows
  <2>4. committed'["upload"] = committed["upload"] /\ committed'["job"] = committed["job"]
    BY <1>9, CommittedRows
  <2> QED BY <1>3, <2>1, <2>3, <2>4 DEF JobIsLive
<1>10. CASE kind = "tombstone"
  <2>1. committed.video.state \notin {"absent", "tombstoned"}
    BY <1>1, <1>10 DEF KnowsOK
  <2>2. /\ committed'["video"] = [state |-> "tombstoned",
                                  deletions |-> committed.video.deletions + 1]
        /\ committed'["upload"] = committed["upload"]
        /\ committed'["rendition"] = committed["rendition"]
    BY <1>10, CommittedRows
  <2>3. committed'["video"] \in VideoRows /\ committed'["video"].state = "tombstoned"
    BY <1>3, <2>2 DEF VideoRows
  <2>4. CASE JobIsLive
    <3>1. committed'["job"] = [state |-> "cancelled", lease |-> NULL]
      BY <1>10, <2>4, CommittedRows
    <3>2. committed'["job"] \in JobRows /\ committed'["job"].state = "cancelled"
      BY <3>1 DEF JobRows
    <3> QED BY <1>3, <2>1, <2>2, <2>3, <2>4, <3>2 DEF JobIsLive
  <2>5. CASE ~JobIsLive
    <3>1. committed'["job"] = committed["job"]
      BY <1>10, <2>5, CommittedRows
    <3> QED BY <1>3, <2>1, <2>2, <2>3, <2>5, <3>1 DEF JobIsLive
  <2> QED BY <2>4, <2>5
<1>11. CASE kind = "migrate"
  <2>1. /\ committed'["upload"] = committed["upload"] /\ committed'["video"] = committed["video"]
        /\ committed'["job"] = committed["job"]
        /\ committed'["rendition"] = committed["rendition"]
    BY <1>11, CommittedRows DEF Rows
  <2> QED BY <1>3, <2>1 DEF JobIsLive
<1> QED BY <1>2, <1>4, <1>5, <1>6, <1>7, <1>8, <1>9, <1>10, <1>11 DEF AllKinds

\* The rows a session relies on do not change while it holds their locks.
Protected(d) ==
    /\ Upload \in locks[d] => committed'.upload = committed.upload
    /\ Job \in locks[d] /\ JobIsLive => committed'.job = committed.job
    /\ VideoUpdate \in locks[d] => committed'.video = committed.video
    /\ Video \in locks[d] =>
          /\ committed'.video = committed.video /\ committed'.job = committed.job
          /\ committed'.rendition = committed.rendition

\* Who holds a lock on the video has seen that it is there, or holds its upload.
LEMMA VideoSeen ==
    ASSUME LocksInv, NEW d \in Clients, committed.upload.state = "absent"
    PROVE  Video \in locks[d] \/ VideoUpdate \in locks[d] \/ VideoKey \in locks[d] =>
               Upload \in locks[d]
<1>1. Shape /\ CommittedOK /\ HoldsOK(d) /\ KnowsOK(d)
  BY Facts
<1>2. committed.video.state = "absent" /\ committed.job.state = "absent"
  BY <1>1 DEF CommittedOK
<1>3. tx[d].kind \in AllKinds \cup {"none"} /\ tx[d].at \in PointsOf(tx[d].kind)
  BY <1>1 DEF Shape, TxOK
<1>4. tx[d].at = "commit" => tx[d].kind \notin {"claim", "ready", "publish", "tombstone"}
  BY <1>1, <1>2 DEF KnowsOK, JobIsLive
<1>5. tx[d].at \notin {"claim.update", "claim.video", "ready.video", "ready.segments",
                      "ready.complete", "publish.rendition", "tombstone.jobs",
                      "tombstone.cancel"}
  BY <1>1, <1>2 DEF KnowsOK, JobIsLive
<1>6. \/ tx[d].at \in FirstPoints \cup {"chunk.video", "finalize.jobs", "finalize.insert",
                                     "finalize.video", "tombstone.video", "migrate.segments"}
      \/ tx[d].at = "commit" /\ tx[d].kind \in {"open", "chunk", "finalize", "migrate"}
  BY <1>3, <1>4, <1>5 DEF AllKinds, PointsOf, FirstPoints
<1> QED BY <1>1, <1>6 DEF HoldsOK, Upload, Job, Video, VideoUpdate, VideoKey

\* A commit spares what the other sessions rely on.
LEMMA CommitSpares ==
    ASSUME LocksInv, NEW c \in Clients, Commit(c), NEW d \in Clients \ {c}
    PROVE  Protected(d)
<1> DEFINE kind == tx[c].kind
           Same(row) == committed'[row] = committed[row]
<1>1. CommittedOK /\ LocksAgree /\ HoldsOK(c) /\ KnowsOK(c) /\ tx[c].at = "commit"
  BY Facts DEF Commit, LocksInv
<1>2. kind \in AllKinds \ {"foreign_tombstone"}
  BY CommittedRows
<1>3. CASE kind = "open"
  <2>1. Upload \in locks[c] /\ committed.upload.state = "absent" /\ Same("job") /\ Same("rendition")
    BY <1>1, <1>3, CommittedRows DEF HoldsOK, KnowsOK
  <2>2. Upload \notin locks[d] /\ Video \notin locks[d] /\ VideoUpdate \notin locks[d]
    BY <1>1, <2>1, RowExclusion, VideoSeen
  <2> QED BY <2>1, <2>2 DEF Protected
<1>4. CASE kind = "chunk"
  <2>1. Upload \in locks[c] /\ Same("video") /\ Same("job") /\ Same("rendition")
    BY <1>1, <1>4, CommittedRows DEF HoldsOK
  <2> QED BY <1>1, <2>1, RowExclusion DEF Protected
<1>5. CASE kind = "finalize"
  <2>1. Upload \in locks[c] /\ VideoUpdate \in locks[c] /\ Same("rendition")
    BY <1>1, <1>5, CommittedRows DEF HoldsOK
  <2>2. ~JobIsLive
    BY <1>1, <1>5 DEF KnowsOK, CommittedOK, JobIsLive
  <2> QED BY <1>1, <2>1, <2>2, RowExclusion DEF Protected
<1>6. CASE kind = "claim"
  <2>1. Job \in locks[c] /\ VideoUpdate \in locks[c] /\ Same("upload") /\ Same("rendition")
    BY <1>1, <1>6, CommittedRows DEF HoldsOK
  <2> QED BY <1>1, <2>1, RowExclusion DEF Protected
<1>7. CASE kind = "ready"
  <2>1. Job \in locks[c] /\ Video \in locks[c] /\ Same("upload")
    BY <1>1, <1>7, CommittedRows DEF HoldsOK
  <2> QED BY <1>1, <2>1, RowExclusion DEF Protected
<1>8. CASE kind = "publish"
  <2>1. Video \in locks[c] /\ Same("upload") /\ Same("job")
    BY <1>1, <1>8, CommittedRows DEF HoldsOK
  <2> QED BY <1>1, <2>1, RowExclusion DEF Protected
<1>9. CASE kind = "tombstone"
  <2>1. /\ Video \in locks[c] /\ Same("upload") /\ Same("rendition")
        /\ Job \in locks[c] \/ ~JobIsLive
    BY <1>1, <1>9, CommittedRows DEF HoldsOK
  <2> QED BY <1>1, <2>1, RowExclusion DEF Protected
<1>10. CASE kind = "migrate"
  <2>1. Same("upload") /\ Same("video") /\ Same("job") /\ Same("rendition")
    BY <1>10, CommittedRows DEF Rows
  <2> QED BY <2>1 DEF Protected
<1> QED BY <1>2, <1>3, <1>4, <1>5, <1>6, <1>7, <1>8, <1>9, <1>10 DEF AllKinds

\* What a session knows and has written rests on the rows it has locked.
LEMMA ProtectedKeeps ==
    ASSUME NEW d \in Clients, ClientOK(d), Protected(d),
           tx'[d] = tx[d], locks'[d] = locks[d], draft'[d] = draft[d]
    PROVE  ClientOK(d)'
<1> DEFINE at == tx[d].at
           ends(kind) == at = "commit" /\ tx[d].kind = kind
<1>1. HoldsOK(d) /\ KnowsOK(d) /\ DraftOK(d)
  BY DEF ClientOK
<1>2. at \in {"chunk.video", "finalize.jobs", "finalize.insert", "finalize.video"}
          \/ ends("open") \/ ends("chunk") \/ ends("finalize")
      => committed'.upload = committed.upload
  BY <1>1 DEF HoldsOK, Protected
<1>3. at \in {"claim.update", "claim.video", "ready.video", "ready.segments", "ready.complete"}
          \/ ends("claim") \/ ends("ready")
      => committed'.job = committed.job
  BY <1>1 DEF HoldsOK, KnowsOK, JobIsLive, Protected
<1>4. ends("chunk") \/ ends("finalize") \/ ends("claim")
      => committed'.video = committed.video
  BY <1>1 DEF HoldsOK, Protected
<1>5. at \in {"publish.rendition", "tombstone.jobs", "tombstone.cancel"}
          \/ ends("ready") \/ ends("publish") \/ ends("tombstone")
      => /\ committed'.video = committed.video /\ committed'.job = committed.job
         /\ committed'.rendition = committed.rendition
  BY <1>1 DEF HoldsOK, Protected
<1>6. ends("tombstone") => JobIsLive' = JobIsLive
  BY <1>5 DEF JobIsLive
<1>7. HoldsOK(d)'
  BY <1>1, <1>6 DEF HoldsOK
<1>8. KnowsOK(d)'
  BY <1>1, <1>2, <1>3, <1>5 DEF KnowsOK, JobIsLive
<1>9. DraftOK(d)'
  BY <1>1, <1>4, <1>5, <1>6 DEF DraftOK, Writes, VideoIn
<1> QED BY <1>7, <1>8, <1>9 DEF ClientOK

\* Nothing is left of an ended transaction.
LEMMA IdleOK ==
    ASSUME NEW c \in Clients, tx[c] = Idle, locks[c] = {}, draft[c] = NoRows
    PROVE  TxOK(tx[c]) /\ ClientOK(c)
<1>1. tx[c].at = "none" /\ DOMAIN draft[c] = {}
  BY DEF Idle, NoRows
<1>2. TxOK(tx[c])
  BY DEF TxOK, Idle, PointsOf
<1>3. HoldsOK(c)
  BY <1>1 DEF HoldsOK, FirstPoints
<1>4. KnowsOK(c)
  BY <1>1 DEF KnowsOK
<1>5. DraftOK(c)
  BY <1>1 DEF DraftOK, Writes, FirstPoints
<1> QED BY <1>2, <1>3, <1>4, <1>5 DEF ClientOK

LEMMA CommitKeeps ==
    ASSUME LocksInv, NEW c \in Clients, Commit(c)
    PROVE  LocksInv'
<1>1. Shape /\ LocksAgree /\ \A d \in Clients : ClientOK(d)
  BY DEF LocksInv
<1>2. /\ tx'[c] = Idle /\ locks'[c] = {} /\ draft'[c] = NoRows
      /\ \A d \in Clients \ {c} :
            tx'[d] = tx[d] /\ locks'[d] = locks[d] /\ draft'[d] = draft[d]
      /\ locks' = [locks EXCEPT ![c] = {}]
  BY Committed
<1>3. TxOK(tx'[c]) /\ ClientOK(c)'
  <2>1. TxOK(tx'[c])
    BY <1>2 DEF TxOK, Idle, PointsOf
  <2>2. tx'[c].at = "none" /\ locks'[c] = {} /\ DOMAIN draft'[c] = {}
    BY <1>2 DEF Idle, NoRows
  <2> QED BY <2>1, <2>2 DEF ClientOK, HoldsOK, KnowsOK, DraftOK, Writes, FirstPoints
<1>4. Shape'
  <2>1. /\ tx' = [d \in Clients |-> tx'[d]] /\ draft' = [d \in Clients |-> draft'[d]]
        /\ run' \in [Clients -> BOOLEAN] /\ expired' \in BOOLEAN
    BY <1>1 DEF Shape, Commit
  <2>2. locks' \in [Clients -> SUBSET ((Rows \cup Tables) \X Modes)]
    BY <1>1, <1>2 DEF Shape
  <2>3. \A d \in Clients : TxOK(tx'[d])
    BY <1>1, <1>2, <1>3 DEF Shape
  <2> QED BY <2>1, <2>2, <2>3 DEF Shape
<1>5. LocksAgree'
  BY <1>1, <1>2, ReleasingAgrees
<1>6. ASSUME NEW d \in Clients \ {c} PROVE ClientOK(d)'
  <2>1. ClientOK(d) /\ Protected(d)
    BY <1>1, CommitSpares
  <2> QED BY <1>2, <2>1, ProtectedKeeps
<1> QED BY <1>3, <1>4, <1>5, <1>6, CommittedKeeps DEF LocksInv

LEMMA ExpireKeeps == LocksInv /\ (Expire \/ UNCHANGED vars) => LocksInv'
<1> SUFFICES ASSUME LocksInv, Expire \/ UNCHANGED vars PROVE LocksInv'
  OBVIOUS
<1>1. Shape /\ LocksAgree /\ CommittedOK /\ \A d \in Clients : ClientOK(d)
  BY DEF LocksInv
<1>2. /\ committed' = committed /\ tx' = tx /\ locks' = locks /\ draft' = draft /\ run' = run
      /\ expired' = expired \/ expired' = TRUE
  BY DEF Expire, vars
<1>3. Shape'
  BY <1>1, <1>2 DEF Shape
<1>4. LocksAgree'
  BY <1>1, <1>2 DEF LocksAgree, Conflicts
<1>5. CommittedOK'
  BY <1>1, <1>2
     DEF CommittedOK, RowStates, UploadRows, VideoRows, JobRows, RenditionRows, JobIsLive
<1>6. ASSUME NEW d \in Clients PROVE ClientOK(d)'
  BY <1>1, <1>2, OthersKeep
<1> QED BY <1>3, <1>4, <1>5, <1>6 DEF LocksInv

LEMMA LocksInit == Init => LocksInv
<1> SUFFICES ASSUME Init PROVE LocksInv
  OBVIOUS
<1>1. \A c \in Clients : tx[c] = Idle /\ locks[c] = {} /\ draft[c] = NoRows
  BY DEF Init
<1>2. \A c \in Clients : TxOK(tx[c]) /\ ClientOK(c)
  BY <1>1, IdleOK
<1>3. Shape
  BY <1>1, <1>2 DEF Shape, Init
<1>4. LocksAgree
  BY <1>1 DEF LocksAgree
<1>5. CommittedOK
  BY DEF Init, CommittedOK, RowStates, UploadRows, VideoRows, JobRows, RenditionRows, JobIsLive
<1> QED BY <1>2, <1>3, <1>4, <1>5 DEF LocksInv

LEMMA LocksNext == LocksInv /\ [Next]_vars => LocksInv'
<1> SUFFICES ASSUME LocksInv, [Next]_vars PROVE LocksInv'
  OBVIOUS
<1>1. ASSUME NEW c \in Clients, NEW kind \in Kinds, Begin(c, kind) PROVE LocksInv'
  BY <1>1, BeginKeeps, KindsAssumption
<1>2. ASSUME NEW c \in Clients, Statement(c) PROVE LocksInv'
  BY <1>2, OpenKeeps, ChunkKeeps, FinalizeKeeps, ClaimKeeps, ReadyKeeps, PublishKeeps,
     TombstoneLocksKeep, CancelKeeps, MigrateKeeps DEF Statement
<1>3. ASSUME NEW c \in Clients, Commit(c) PROVE LocksInv'
  BY <1>3, CommitKeeps
<1>4. ASSUME NEW c \in Clients, Abort(c) \/ DetectDeadlock(c) PROVE LocksInv'
  BY <1>4, EndKeeps DEF Abort, DetectDeadlock
<1>5. CASE Expire \/ UNCHANGED vars
  BY <1>5, ExpireKeeps
<1> QED BY <1>1, <1>2, <1>3, <1>4, <1>5 DEF Next

\* What transactions hold, know and have written, and how the committed rows agree.
THEOREM LocksHold == Spec => []LocksInv
BY LocksInit, LocksNext, PTL DEF Spec

----------------------------------------------------------------------------
(* Types, lost updates and stale decisions.                                *)

\* What a transaction has written are rows of their tables.
LEMMA DraftTyped ==
    ASSUME LocksInv, NEW c \in Clients
    PROVE  /\ DOMAIN draft[c] \subseteq Rows
           /\ "upload" \in DOMAIN draft[c] => draft[c]["upload"] \in UploadRows
           /\ "video" \in DOMAIN draft[c] => draft[c]["video"] \in VideoRows
           /\ "job" \in DOMAIN draft[c] => draft[c]["job"] \in JobRows
           /\ "rendition" \in DOMAIN draft[c] => draft[c]["rendition"] \in RenditionRows
<1> DEFINE at == tx[c].at
           kind == tx[c].kind
           new == draft[c]
<1>1. Shape /\ DraftOK(c) /\ CommittedOK
  BY Facts
<1>2. kind \in AllKinds \cup {"none"} /\ at \in PointsOf(kind)
  BY <1>1 DEF Shape, TxOK
<1>3. committed.video \in VideoRows /\ committed.video.deletions \in Nat
  BY <1>1 DEF CommittedOK, RowStates, VideoRows
<1> USE DEF UploadRows, VideoRows, JobRows, RenditionRows, Rows
<1>4. CASE at # "commit" /\ at \notin {"chunk.video", "finalize.jobs", "finalize.insert",
                                       "finalize.video", "claim.video", "ready.complete"}
  <2>1. DOMAIN new = {}
    <3>1. at \in FirstPoints \cup {"claim.update", "ready.video", "ready.segments",
                                   "publish.rendition", "tombstone.video", "tombstone.jobs",
                                   "tombstone.cancel", "migrate.segments"}
      BY <1>2, <1>4 DEF AllKinds, PointsOf, FirstPoints
    <3> QED BY <1>1, <3>1 DEF DraftOK, Writes
  <2> QED BY <2>1
<1>5. CASE at \in {"chunk.video", "finalize.jobs", "finalize.insert"}
  <2>1. DOMAIN new = {"upload"}
    BY <1>1, <1>5 DEF DraftOK, Writes
  <2>2. CASE at = "chunk.video"
    <3>1. new["upload"] \in [state : {"uploading"}, complete : BOOLEAN]
      BY <1>1, <2>2 DEF DraftOK
    <3> QED BY <2>1, <3>1
  <2>3. CASE at # "chunk.video"
    <3>1. new["upload"] = [state |-> "finalized", complete |-> TRUE]
      BY <1>1, <1>5, <2>3 DEF DraftOK
    <3> QED BY <2>1, <3>1
  <2> QED BY <2>2, <2>3
<1>6. CASE at = "finalize.video"
  <2>1. /\ DOMAIN new = {"upload", "job"}
        /\ new["upload"] = [state |-> "finalized", complete |-> TRUE] /\ new["job"] = NewJob
    BY <1>1, <1>6 DEF DraftOK, Writes
  <2> QED BY <2>1 DEF NewJob
<1>7. CASE at = "claim.video"
  <2>1. DOMAIN new = {"job"} /\ new["job"] = [state |-> "processing", lease |-> c]
    BY <1>1, <1>7 DEF DraftOK, Writes
  <2> QED BY <2>1, ClientsAssumption
<1>8. CASE at = "ready.complete"
  <2>1. DOMAIN new = {"rendition"} /\ new["rendition"] = [state |-> "ready"]
    BY <1>1, <1>8 DEF DraftOK, Writes
  <2> QED BY <2>1
<1>9. CASE at = "commit"
  <2> HIDE DEF new
  <2>1. kind \in AllKinds \ {"foreign_tombstone"}
    BY <1>1, <1>2, <1>9, KindAt
  <2>2. CASE kind = "open"
    <3>1. /\ DOMAIN new = {"upload", "video"}
          /\ new["upload"] = [state |-> "uploading", complete |-> FALSE]
          /\ new["video"] = [state |-> "uploading", deletions |-> 0]
      BY <1>1, <1>9, <2>2 DEF DraftOK, Writes, new
    <3> QED BY <3>1 DEF new
  <2>3. CASE kind = "chunk"
    <3>1. /\ DOMAIN new = {"upload", "video"} /\ new["video"] = committed.video
          /\ new["upload"] \in [state : {"uploading"}, complete : BOOLEAN]
      BY <1>1, <1>9, <2>3 DEF DraftOK, Writes, new
    <3> QED BY <1>3, <3>1 DEF new
  <2>4. CASE kind = "finalize"
    <3>1. /\ DOMAIN new = {"upload", "job", "video"} /\ new["video"] = VideoIn("queued")
          /\ new["upload"] = [state |-> "finalized", complete |-> TRUE] /\ new["job"] = NewJob
      BY <1>1, <1>9, <2>4 DEF DraftOK, Writes, new
    <3> QED BY <1>3, <3>1 DEF new, NewJob, VideoIn
  <2>5. CASE kind = "claim"
    <3>1. /\ DOMAIN new = {"job", "video"} /\ new["video"] = VideoIn("processing")
          /\ new["job"] = [state |-> "processing", lease |-> c]
      BY <1>1, <1>9, <2>5 DEF DraftOK, Writes, new
    <3> QED BY <1>3, <3>1, ClientsAssumption DEF new, VideoIn
  <2>6. CASE kind = "ready"
    <3>1. /\ DOMAIN new = {"rendition", "job", "video"} /\ new["video"] = VideoIn("ready")
          /\ new["job"] = [state |-> "completed", lease |-> NULL]
          /\ new["rendition"] = [state |-> "ready"]
      BY <1>1, <1>9, <2>6 DEF DraftOK, Writes, new
    <3> QED BY <1>3, <3>1 DEF new, VideoIn
  <2>7. CASE kind = "publish"
    <3>1. /\ DOMAIN new = {"rendition", "video"} /\ new["video"] = VideoIn("published")
          /\ new["rendition"] = [state |-> "published"]
      BY <1>1, <1>9, <2>7 DEF DraftOK, Writes, new
    <3> QED BY <1>3, <3>1 DEF new, VideoIn
  <2>8. CASE kind = "tombstone"
    <3>1. /\ DOMAIN new = IF JobIsLive THEN {"job", "video"} ELSE {"video"}
          /\ JobIsLive => new["job"] = [state |-> "cancelled", lease |-> NULL]
          /\ new["video"] = [state |-> "tombstoned", deletions |-> committed.video.deletions + 1]
      BY <1>1, <1>9, <2>8 DEF DraftOK, Writes, new
    <3> QED BY <1>3, <3>1 DEF new
  <2>9. CASE kind = "migrate"
    <3>1. DOMAIN new = {}
      BY <1>1, <1>9, <2>9 DEF DraftOK, Writes, new
    <3> QED BY <3>1 DEF new
  <2> QED BY <2>1, <2>2, <2>3, <2>4, <2>5, <2>6, <2>7, <2>8, <2>9 DEF AllKinds
<1> QED BY <1>4, <1>5, <1>6, <1>7, <1>8, <1>9

\* Rows laid over rows are rows.
LEMMA OverlayTyped ==
    ASSUME committed \in RowStates, NEW new, DOMAIN new \subseteq Rows,
           "upload" \in DOMAIN new => new["upload"] \in UploadRows,
           "video" \in DOMAIN new => new["video"] \in VideoRows,
           "job" \in DOMAIN new => new["job"] \in JobRows,
           "rendition" \in DOMAIN new => new["rendition"] \in RenditionRows
    PROVE  Overlay(new, committed) \in RowStates
<1>1. DOMAIN committed = Rows
  BY DEF RowStates, Rows
<1> DEFINE both == [row \in Rows |-> IF row \in DOMAIN new THEN new[row] ELSE committed[row]]
<1>2. Overlay(new, committed) = both
  BY <1>1 DEF Overlay
<1>3. /\ both["upload"] \in UploadRows /\ both["video"] \in VideoRows
      /\ both["job"] \in JobRows /\ both["rendition"] \in RenditionRows
  BY DEF RowStates, Rows
<1>4. both = [row \in Rows |-> both[row]]
  OBVIOUS
<1> HIDE DEF both
<1> QED BY <1>2, <1>3, <1>4 DEF RowStates, Rows

\* Rows, locks and transactions keep their types, and a transaction that commits in
\* the middle of any other leaves rows of the four tables.
THEOREM RowTypes == Spec => []TypeOK
<1>1. LocksInv => TypeOK
  <2> SUFFICES ASSUME LocksInv PROVE TypeOK
    OBVIOUS
  <2>1. Shape /\ committed \in RowStates
    BY DEF LocksInv, CommittedOK
  <2>2. ASSUME NEW c \in Clients
        PROVE  /\ tx[c].kind \in AllKinds \cup {"none"} /\ tx[c].inTime \in BOOLEAN
               /\ locks[c] \subseteq (Rows \cup Tables) \X Modes
               /\ DOMAIN draft[c] \subseteq Rows
               /\ Overlay(draft[c], committed) \in RowStates
    <3>1. /\ tx[c].kind \in AllKinds \cup {"none"} /\ tx[c].inTime \in BOOLEAN
          /\ locks[c] \subseteq (Rows \cup Tables) \X Modes
      BY <2>1 DEF Shape, TxOK
    <3> QED BY <2>1, <3>1, DraftTyped, OverlayTyped
  <2> QED BY <2>1, <2>2 DEF TypeOK, Shape
<1> QED BY <1>1, LocksHold, PTL

\* A written row is locked, or it is a new row of a locked upload.
LEMMA WrittenLocked ==
    ASSUME LocksInv, NEW c \in Clients
    PROVE  /\ "upload" \in DOMAIN draft[c] => Upload \in locks[c]
           /\ "job" \in DOMAIN draft[c] =>
                 \/ Job \in locks[c] /\ JobIsLive
                 \/ Upload \in locks[c] /\ ~JobIsLive
           /\ "video" \in DOMAIN draft[c] =>
                 \/ Video \in locks[c] \/ VideoUpdate \in locks[c]
                 \/ Upload \in locks[c] /\ committed.upload.state = "absent"
           /\ "rendition" \in DOMAIN draft[c] => Video \in locks[c]
<1> DEFINE at == tx[c].at
           kind == tx[c].kind
           ends(k) == at = "commit" /\ kind = k
<1>1. Shape /\ HoldsOK(c) /\ KnowsOK(c) /\ DraftOK(c) /\ CommittedOK
  BY Facts
<1>2. kind \in AllKinds \cup {"none"} /\ at \in PointsOf(kind)
  BY <1>1 DEF Shape, TxOK
<1>3. CASE at # "commit" /\ at \notin {"chunk.video", "finalize.jobs", "finalize.insert",
                                       "finalize.video", "claim.video", "ready.complete"}
  <2>1. at \in FirstPoints \cup {"claim.update", "ready.video", "ready.segments",
                                 "publish.rendition", "tombstone.video", "tombstone.jobs",
                                 "tombstone.cancel", "migrate.segments"}
    BY <1>2, <1>3 DEF AllKinds, PointsOf, FirstPoints
  <2> QED BY <1>1, <2>1 DEF DraftOK, Writes
<1>4. CASE at \in {"chunk.video", "finalize.jobs", "finalize.insert"}
  BY <1>1, <1>4 DEF DraftOK, Writes, HoldsOK
<1>5. CASE at = "finalize.video" \/ ends("finalize")
  <2>1. ~JobIsLive
    BY <1>1, <1>5 DEF KnowsOK, CommittedOK, JobIsLive
  <2> QED BY <1>1, <1>5, <2>1 DEF DraftOK, Writes, HoldsOK
<1>6. CASE at = "claim.video" \/ ends("claim")
  BY <1>1, <1>6 DEF DraftOK, Writes, HoldsOK, KnowsOK
<1>7. CASE at = "ready.complete" \/ ends("ready")
  <2>1. JobIsLive
    BY <1>1, <1>7 DEF KnowsOK, JobIsLive
  <2> QED BY <1>1, <1>7, <2>1 DEF DraftOK, Writes, HoldsOK
<1>8. CASE ends("open")
  BY <1>1, <1>8 DEF DraftOK, Writes, HoldsOK, KnowsOK
<1>9. CASE ends("chunk")
  BY <1>1, <1>9 DEF DraftOK, Writes, HoldsOK
<1>10. CASE ends("publish") \/ ends("migrate")
  BY <1>1, <1>10 DEF DraftOK, Writes, HoldsOK
<1>11. CASE ends("tombstone")
  <2>1. /\ Video \in locks[c]
        /\ JobIsLive => Job \in locks[c]
        /\ DOMAIN draft[c] = IF JobIsLive THEN {"job", "video"} ELSE {"video"}
    BY <1>1, <1>11 DEF DraftOK, Writes, HoldsOK
  <2> QED BY <2>1
<1>12. at = "commit" => kind \in AllKinds \ {"foreign_tombstone"}
  BY <1>1, <1>2, KindAt
<1> QED BY <1>3, <1>4, <1>5, <1>6, <1>7, <1>8, <1>9, <1>10, <1>11, <1>12 DEF AllKinds

\* No update is lost: two open transactions never hold new versions of the same row.
THEOREM NoLostUpdate == Spec => []OneWriterPerRow
<1>1. LocksInv => OneWriterPerRow
  <2> SUFFICES ASSUME LocksInv, NEW c \in Clients, NEW d \in Clients, c # d
               PROVE  DOMAIN draft[c] \cap DOMAIN draft[d] = {}
    BY DEF OneWriterPerRow
  <2>1. LocksAgree
    BY DEF LocksInv
  <2>2. DOMAIN draft[c] \subseteq {"upload", "video", "job", "rendition"}
    BY DraftTyped DEF Rows
  <2>3. ~("upload" \in DOMAIN draft[c] /\ "upload" \in DOMAIN draft[d])
    BY <2>1, WrittenLocked, RowExclusion
  <2>4. ~("job" \in DOMAIN draft[c] /\ "job" \in DOMAIN draft[d])
    BY <2>1, WrittenLocked, RowExclusion
  <2>5. ~("video" \in DOMAIN draft[c] /\ "video" \in DOMAIN draft[d])
    BY <2>1, WrittenLocked, RowExclusion, VideoSeen
  <2>6. ~("rendition" \in DOMAIN draft[c] /\ "rendition" \in DOMAIN draft[d])
    BY <2>1, WrittenLocked, RowExclusion
  <2> QED BY <2>2, <2>3, <2>4, <2>5, <2>6
<1> QED BY <1>1, LocksHold, PTL

\* What a handler decided on is still true when it commits, although the claim has
\* only read the video and never locked it before that statement.
THEOREM NoStaleDecision == Spec => []DecisionsHoldAtCommit
<1>1. LocksInv => DecisionsHoldAtCommit
  <2> SUFFICES ASSUME LocksInv, NEW c \in Clients, tx[c].at = "commit"
               PROVE  /\ tx[c].kind \in {"claim", "ready"} => committed.video.state # "tombstoned"
                      /\ tx[c].kind = "claim" => JobIsLive
                      /\ tx[c].kind = "ready" => committed.job.lease = c
                      /\ tx[c].kind = "publish" => committed.video.state = "ready"
    BY DEF DecisionsHoldAtCommit
  <2>1. KnowsOK(c) /\ CommittedOK
    BY Facts
  <2>2. tx[c].kind \in {"claim", "ready"} => JobIsLive
    BY <2>1 DEF KnowsOK, JobIsLive
  <2> QED BY <2>1, <2>2 DEF KnowsOK, CommittedOK, JobIsLive
<1> QED BY <1>1, LocksHold, PTL

----------------------------------------------------------------------------
(* Waiting.                                                                *)

DeletionOrMigration == {"tombstone", "foreign_tombstone", "migrate"}

\* How far a transaction other than a deletion or a migration has come: it waits
\* for a lock below 6 only, and holds no lock it could be waited for at its rank.
Rank(c) ==
    CASE tx[c].at \in {"open.insert", "chunk.lock", "finalize.lock"} -> 1
      [] tx[c].at = "ready.lock" -> 2
      [] tx[c].at \in {"claim.video", "chunk.video", "ready.video", "publish.lock",
                       "finalize.insert"} -> 3
      [] tx[c].at = "finalize.video" -> 4
      [] tx[c].at = "publish.rendition" -> 5
      [] OTHER -> 6

\* Who holds a row is past the statements that wait for it.
LEMMA HeldBelow ==
    ASSUME LocksInv, NEW d \in Clients, tx[d].kind \notin DeletionOrMigration,
           NEW lock \in locks[d]
    PROVE  /\ lock[1] = "upload" => Rank(d) > 1
           /\ lock[1] = "job" => Rank(d) > 2
           /\ lock[1] = "video" => Rank(d) > 3
           /\ lock[1] = "video" /\ lock[2] # "key_share" => Rank(d) > 4
           /\ lock[1] = "rendition" => Rank(d) > 5
           /\ lock[2] # "share"
<1> DEFINE at == tx[d].at
           kind == tx[d].kind
           ends(k) == at = "commit" /\ kind = k
<1>1. Shape /\ HoldsOK(d)
  BY Facts
<1>2. kind \in AllKinds \cup {"none"} /\ at \in PointsOf(kind)
  BY <1>1 DEF Shape, TxOK
<1>3. at \notin FirstPoints
  BY <1>1 DEF HoldsOK
<1> USE DEF Upload, Job, Video, VideoUpdate, VideoKey, Rendition, JobsTable, SegmentsTable, Rank
<1>4. CASE at \in {"chunk.video", "finalize.jobs"} \/ ends("open")
  <2>1. locks[d] = {Upload}
    BY <1>1, <1>4 DEF HoldsOK
  <2> QED BY <1>4, <2>1
<1>5. CASE ends("chunk")
  <2>1. locks[d] = {Upload, VideoUpdate}
    BY <1>1, <1>5 DEF HoldsOK
  <2> QED BY <1>5, <2>1
<1>6. CASE at = "finalize.insert"
  <2>1. locks[d] = {Upload, JobsTable}
    BY <1>1, <1>6 DEF HoldsOK
  <2> QED BY <1>6, <2>1
<1>7. CASE at = "finalize.video"
  <2>1. locks[d] = {Upload, JobsTable, VideoKey}
    BY <1>1, <1>7 DEF HoldsOK
  <2> QED BY <1>7, <2>1
<1>8. CASE ends("finalize")
  <2>1. locks[d] = {Upload, JobsTable, VideoKey, VideoUpdate}
    BY <1>1, <1>8 DEF HoldsOK
  <2> QED BY <1>8, <2>1
<1>9. CASE at \in {"claim.update", "ready.video"}
  <2>1. locks[d] = {Job}
    BY <1>1, <1>9 DEF HoldsOK
  <2> QED BY <1>9, <2>1
<1>10. CASE at = "claim.video"
  <2>1. locks[d] = {Job, JobsTable}
    BY <1>1, <1>10 DEF HoldsOK
  <2> QED BY <1>10, <2>1
<1>11. CASE ends("claim")
  <2>1. locks[d] = {Job, JobsTable, VideoUpdate}
    BY <1>1, <1>11 DEF HoldsOK
  <2> QED BY <1>11, <2>1
<1>12. CASE at = "ready.segments"
  <2>1. locks[d] = {Job, Video}
    BY <1>1, <1>12 DEF HoldsOK
  <2> QED BY <1>12, <2>1
<1>13. CASE at = "ready.complete"
  <2>1. locks[d] = {Job, Video, SegmentsTable}
    BY <1>1, <1>13 DEF HoldsOK
  <2> QED BY <1>13, <2>1
<1>14. CASE ends("ready")
  <2>1. locks[d] = {Job, Video, SegmentsTable, JobsTable}
    BY <1>1, <1>14 DEF HoldsOK
  <2> QED BY <1>14, <2>1
<1>15. CASE at = "publish.rendition"
  <2>1. locks[d] = {Video}
    BY <1>1, <1>15 DEF HoldsOK
  <2> QED BY <1>15, <2>1
<1>16. CASE ends("publish")
  <2>1. locks[d] = {Video, Rendition}
    BY <1>1, <1>16 DEF HoldsOK
  <2> QED BY <1>16, <2>1
<1> QED
  BY <1>2, <1>3, <1>4, <1>5, <1>6, <1>7, <1>8, <1>9, <1>10, <1>11, <1>12, <1>13, <1>14, <1>15,
     <1>16 DEF AllKinds, PointsOf, FirstPoints, DeletionOrMigration

\* Along the waiting the rank grows.
LEMMA WaitingClimbs ==
    ASSUME LocksInv, NEW c \in Clients, NEW d \in Clients, WaitsFor(c, d),
           tx[c].kind \notin DeletionOrMigration, tx[d].kind \notin DeletionOrMigration
    PROVE  Rank(c) < Rank(d)
<1> DEFINE at == tx[c].at
<1>1. PICK want \in Wants(c), lock \in locks[d] :
          lock[1] = want[1] /\ Conflicts(lock[2], want[2])
  BY DEF WaitsFor, Blocks
<1>2. Shape
  BY Facts
<1>3. tx[c].kind \in AllKinds \cup {"none"} /\ at \in PointsOf(tx[c].kind)
  BY <1>2 DEF Shape, TxOK
<1>4. at \in {"open.insert", "chunk.lock", "finalize.lock", "chunk.video", "finalize.jobs",
              "claim.update", "ready.complete", "finalize.insert", "finalize.video",
              "claim.video", "ready.lock", "ready.video", "publish.lock", "ready.segments",
              "publish.rendition"}
  <2>1. at \notin {"none", "open.select", "claim.select", "claim.lock", "commit"}
    BY <1>1, WantsTable
  <2> QED BY <1>3, <2>1 DEF AllKinds, PointsOf, DeletionOrMigration
<1>5. lock[2] # "share"
  BY HeldBelow
<1>6. ~Conflicts("key_share", "no_key_update")
  BY DEF Conflicts
<1>7. CASE at \in {"open.insert", "chunk.lock", "finalize.lock"}
  <2>1. Wants(c) = {Upload}
    BY <1>7, WantsTable
  <2>2. Rank(c) = 1
    BY <1>7 DEF Rank
  <2> QED BY <1>1, <2>1, <2>2, HeldBelow DEF Upload
<1>8. CASE at = "ready.lock"
  <2>1. Wants(c) = {Job}
    BY <1>8, WantsTable
  <2>2. Rank(c) = 2
    BY <1>8 DEF Rank
  <2> QED BY <1>1, <2>1, <2>2, HeldBelow DEF Job
<1>9. CASE at \in {"chunk.video", "claim.video", "ready.video", "publish.lock", "finalize.insert"}
  <2>1. Wants(c) \subseteq {Video, VideoUpdate, VideoKey}
    BY <1>9, WantsTable
  <2>2. Rank(c) = 3
    BY <1>9 DEF Rank
  <2> QED BY <1>1, <2>1, <2>2, HeldBelow DEF Video, VideoUpdate, VideoKey
<1>10. CASE at = "finalize.video"
  <2>1. Wants(c) = {VideoUpdate}
    BY <1>10, WantsTable
  <2>2. Rank(c) = 4
    BY <1>10 DEF Rank
  <2> QED BY <1>1, <1>6, <2>1, <2>2, HeldBelow DEF VideoUpdate
<1>11. CASE at = "publish.rendition"
  <2>1. Wants(c) = {Rendition}
    BY <1>11, WantsTable
  <2>2. Rank(c) = 5
    BY <1>11 DEF Rank
  <2> QED BY <1>1, <2>1, <2>2, HeldBelow DEF Rendition
<1>12. CASE at \in {"finalize.jobs", "claim.update", "ready.complete", "ready.segments"}
  <2>1. Wants(c) \subseteq {JobsTable, SegmentsTable}
    BY <1>12, WantsTable
  <2>2. Conflicts(lock[2], "row_exclusive")
    BY <1>1, <2>1 DEF JobsTable, SegmentsTable
  <2> QED BY <1>5, <2>2 DEF Conflicts
<1> QED BY <1>4, <1>7, <1>8, <1>9, <1>10, <1>11, <1>12

\* Deadlocks come from deletion and from migration only: there is no circle of other
\* transactions, however many sessions there are.
THEOREM OthersNeverDeadlock == Spec => []OthersLockInOrder
<1>1. LocksInv => OthersLockInOrder
  <2> SUFFICES ASSUME LocksInv,
                      NEW set \in SUBSET {c \in Clients : tx[c].kind \notin DeletionOrMigration},
                      Cycle(set)
               PROVE  FALSE
    BY DEF OthersLockInOrder, DeletionOrMigration
  <2>1. set # {} /\ \A c \in set : \E d \in set : Rank(c) < Rank(d)
    BY WaitingClimbs DEF Cycle, Stuck
  <2>2. \A c \in set : Rank(c) \in 1..6
    BY DEF Rank
  <2>3. \A c \in set : Rank(c) \notin {5, 6}
    <3>1. \A c \in set : Rank(c) # 6
      BY <2>1, <2>2
    <3> QED BY <2>1, <2>2, <3>1
  <2>4. \A c \in set : Rank(c) \notin {3, 4}
    <3>1. \A c \in set : Rank(c) # 4
      BY <2>1, <2>2, <2>3
    <3> QED BY <2>1, <2>2, <2>3, <3>1
  <2>5. \A c \in set : Rank(c) # 2
    BY <2>1, <2>2, <2>3, <2>4
  <2> QED BY <2>1, <2>2, <2>3, <2>4, <2>5
<1> QED BY <1>1, LocksHold, PTL

----------------------------------------------------------------------------
(* The transactions as the video lifecycle.                                *)

\* What the lifecycle sees of the rows that are committed next.
Becomes(s, i, w, o, n) ==
    /\ committed'.video.state = s /\ committed'.upload.state = i /\ committed'.job.state = w
    /\ committed'.rendition.state = o /\ committed'.video.deletions = n

LEMMA CommitMaps ==
    ASSUME LocksInv, NEW c \in Clients, Commit(c)
    PROVE  [Lifecycle!Next]_Lifecycle!lifecycle
<1> DEFINE kind == tx[c].kind
           s == committed.video.state
           i == committed.upload.state
           w == committed.job.state
           o == committed.rendition.state
           n == committed.video.deletions
<1>1. CommittedOK /\ KnowsOK(c) /\ tx[c].at = "commit" /\ DOMAIN committed = Rows
  BY Facts DEF Commit, CommittedOK, RowStates, Rows
<1>2. committed' = [row \in Rows |-> committed'[row]] /\ kind \in AllKinds \ {"foreign_tombstone"}
  BY CommittedRows
<1> SUFFICES \/ Lifecycle!Open("video") \/ Lifecycle!Seal("video") \/ Lifecycle!Take("video")
             \/ Lifecycle!Finish("video") \/ Lifecycle!Publish("video")
             \/ Lifecycle!Delete("video") \/ UNCHANGED Lifecycle!lifecycle
  BY DEF Lifecycle!Next
<1>3. CASE kind = "open"
  <2>1. s = "absent" /\ n = 0
    BY <1>1, <1>3 DEF KnowsOK, CommittedOK
  <2>2. /\ committed'["upload"] = [state |-> "uploading", complete |-> FALSE]
        /\ committed'["video"] = [state |-> "uploading", deletions |-> 0]
        /\ committed'["job"] = committed["job"] /\ committed'["rendition"] = committed["rendition"]
    BY <1>3, CommittedRows
  <2>3. Becomes("uploading", "uploading", w, o, 0)
    BY <2>2 DEF Becomes
  <2> QED BY <2>1, <2>3 DEF Becomes, Lifecycle!Open
<1>4. CASE kind = "chunk"
  <2>1. i = "uploading"
    BY <1>1, <1>4 DEF KnowsOK
  <2>2. Becomes(s, "uploading", w, o, n)
    BY <1>4, CommittedRows DEF Becomes
  <2> QED BY <2>1, <2>2 DEF Becomes, Lifecycle!lifecycle
<1>5. CASE kind = "finalize"
  <2>1. i = "uploading" /\ w = "absent"
    BY <1>1, <1>5 DEF KnowsOK, CommittedOK
  <2>2. /\ committed'["upload"] = [state |-> "finalized", complete |-> TRUE]
        /\ committed'["video"] = VideoIn("queued")
        /\ committed'["job"] = [state |-> "queued", lease |-> NULL]
        /\ committed'["rendition"] = committed["rendition"]
    BY <1>5, CommittedRows
  <2>3. Becomes("queued", "finalized", "queued", o, n)
    BY <2>2 DEF Becomes, VideoIn
  <2> QED BY <2>1, <2>3 DEF Becomes, Lifecycle!Seal
<1>6. CASE kind = "claim"
  <2>1. s \in {"queued", "processing"} /\ w = s
    BY <1>1, <1>6 DEF KnowsOK, CommittedOK, JobIsLive
  <2>2. /\ committed'["video"] = VideoIn("processing")
        /\ committed'["job"] = [state |-> "processing", lease |-> c]
        /\ committed'["upload"] = committed["upload"]
        /\ committed'["rendition"] = committed["rendition"]
    BY <1>6, CommittedRows
  <2>3. Becomes("processing", i, "processing", o, n)
    BY <2>2 DEF Becomes, VideoIn
  <2> QED BY <2>1, <2>3 DEF Becomes, Lifecycle!Take
<1>7. CASE kind = "ready"
  <2>1. s = "processing" /\ w = "processing" /\ o = "absent"
    BY <1>1, <1>7 DEF KnowsOK, CommittedOK, JobIsLive
  <2>2. /\ committed'["video"] = VideoIn("ready")
        /\ committed'["job"] = [state |-> "completed", lease |-> NULL]
        /\ committed'["rendition"] = [state |-> "ready"]
        /\ committed'["upload"] = committed["upload"]
    BY <1>7, CommittedRows
  <2>3. Becomes("ready", i, "completed", "ready", n)
    BY <2>2 DEF Becomes, VideoIn
  <2> QED BY <2>1, <2>3 DEF Becomes, Lifecycle!Finish
<1>8. CASE kind = "publish"
  <2>1. s = "ready" /\ o = "ready"
    BY <1>1, <1>8 DEF KnowsOK
  <2>2. /\ committed'["video"] = VideoIn("published")
        /\ committed'["rendition"] = [state |-> "published"]
        /\ committed'["upload"] = committed["upload"] /\ committed'["job"] = committed["job"]
    BY <1>8, CommittedRows
  <2>3. Becomes("published", i, w, "published", n)
    BY <2>2 DEF Becomes, VideoIn
  <2> QED BY <2>1, <2>3 DEF Becomes, Lifecycle!Publish
<1>9. CASE kind = "tombstone"
  <2> DEFINE closed == IF w \in {"queued", "processing"} THEN "cancelled" ELSE w
  <2>1. s \notin {"absent", "tombstoned"}
    BY <1>1, <1>9 DEF KnowsOK
  <2>2. /\ committed'["video"] = [state |-> "tombstoned", deletions |-> n + 1]
        /\ JobIsLive => committed'["job"] = [state |-> "cancelled", lease |-> NULL]
        /\ ~JobIsLive => committed'["job"] = committed["job"]
        /\ committed'["upload"] = committed["upload"]
        /\ committed'["rendition"] = committed["rendition"]
    BY <1>9, CommittedRows
  <2>3. committed'.job.state = closed
    BY <2>2 DEF JobIsLive
  <2>4. Becomes("tombstoned", i, closed, o, n + 1)
    BY <2>2, <2>3 DEF Becomes
  <2> QED BY <2>1, <2>4 DEF Becomes, Lifecycle!Delete
<1>10. CASE kind = "migrate"
  <2>1. Becomes(s, i, w, o, n)
    BY <1>10, CommittedRows DEF Becomes, Rows
  <2> QED BY <2>1 DEF Becomes, Lifecycle!lifecycle
<1> QED BY <1>2, <1>3, <1>4, <1>5, <1>6, <1>7, <1>8, <1>9, <1>10 DEF AllKinds

LEMMA LocksMap == LocksInv /\ [Next]_vars => [Lifecycle!Next]_Lifecycle!lifecycle
<1> SUFFICES ASSUME LocksInv, [Next]_vars PROVE [Lifecycle!Next]_Lifecycle!lifecycle
  OBVIOUS
<1>1. ASSUME UNCHANGED committed PROVE UNCHANGED Lifecycle!lifecycle
  BY <1>1 DEF Lifecycle!lifecycle
<1>2. ASSUME NEW c \in Clients, NEW kind \in Kinds, Begin(c, kind) PROVE UNCHANGED committed
  BY <1>2 DEF Begin
<1>3. ASSUME NEW c \in Clients, Statement(c) PROVE UNCHANGED committed
  BY <1>3 DEF Statement, SelectUploadByKey, InsertUpload, LockUploadForChunk, TouchVideo,
              LockUploadForFinalize, InsertJob, QueueVideo, SelectJob, LockJobOrSkip, LeaseJob,
              MarkVideoProcessing, LockJobForReady, LockVideoForReady, InsertRendition,
              CompleteJob, LockVideoForPublish, LockRenditionForPublish, LockJobForTombstone,
              LockVideoForTombstone, CancelJob, ShareTables, Continue, End
<1>4. ASSUME NEW c \in Clients, Abort(c) \/ DetectDeadlock(c) PROVE UNCHANGED committed
  BY <1>4 DEF Abort, DetectDeadlock, End
<1>5. CASE Expire \/ UNCHANGED vars
  BY <1>1, <1>5 DEF Expire, vars
<1> QED BY <1>1, <1>2, <1>3, <1>4, <1>5, CommitMaps DEF Next

\* Taken statement by statement, waiting for each other, aborted anywhere, the
\* transactions change the rows of a video as VideoLifecycle allows.
THEOREM TransactionsImplementLifecycle == Spec => ImplementsLifecycle
<1>1. Init => Lifecycle!Init
  BY DEF Init, Lifecycle!Init
<1> QED BY <1>1, LocksMap, LocksHold, PTL DEF Spec, Lifecycle!Spec, ImplementsLifecycle

====
