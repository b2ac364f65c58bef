---- MODULE VideoRepositoryProofs ----
(***************************************************************************)
(* Theorems about VideoRepository for every value of its constants: types, *)
(* the tiling of chunks, what replies promise, and the agreement of the    *)
(* four tables.  JobProofs and ReadProofs build on them.                   *)
(***************************************************************************)
EXTENDS VideoRepository, SequenceTheorems, TLAPS

----------------------------------------------------------------------------
(* What the segmenter returns, for every source and segment size.          *)

LEMMA SegmentAtType ==
    ASSUME NEW source \in Seq(Octets), NEW n \in Nat \ {0}, NEW i \in Nat \ {0}
    PROVE  SegmentAt(source, n, i) \in Seq(Octets)
PROOF
<1> DEFINE first == (i - 1) * n + 1
           last == IF i * n < Len(source) THEN i * n ELSE Len(source)
<1>1. Len(source) \in Nat /\ \A k \in 1..Len(source) : source[k] \in Octets
      BY LenProperties, ElementOfSeq
<1>2. (i - 1) * n \in Nat /\ i * n \in Nat
      OBVIOUS
<1>3. first \in Int /\ last \in Int /\ first >= 1 /\ last <= Len(source)
      BY <1>1, <1>2
<1>4. \A k \in first..last : source[k] \in Octets
      BY <1>1, <1>3
<1> HIDE DEF first, last
<1>5. SubSeq(source, first, last) \in Seq(Octets)
      BY <1>3, <1>4, SubSeqProperties
<1> QED BY <1>5 DEF SegmentAt, first, last

LEMMA CeilDivType ==
    ASSUME NEW a \in Nat, NEW n \in Nat \ {0}
    PROVE  CeilDiv(a, n) \in Nat
PROOF
<1>1. a + n - 1 \in Nat
      OBVIOUS
<1>2. \A x \in Nat : x \div n \in Nat
      OBVIOUS
<1> QED BY <1>1, <1>2 DEF CeilDiv

LEMMA SegmentsType ==
    ASSUME NEW source \in Seq(Octets), NEW n \in Nat \ {0}
    PROVE  Segments(source, n) \in Seq(SegmentRows)
PROOF
<1> DEFINE row(i) == [sha256 |-> Sha256Bytes(SegmentAt(source, n, i)),
                      bytes |-> Len(SegmentAt(source, n, i))]
           count == CeilDiv(Len(source), n)
<1>1. count \in Nat
      BY CeilDivType, LenProperties
<1>2. ASSUME NEW i \in 1..count PROVE row(i) \in SegmentRows
      <2>1. SegmentAt(source, n, i) \in Seq(Octets)
            BY <1>1, SegmentAtType
      <2>2. Len(SegmentAt(source, n, i)) \in Nat
            BY <2>1, LenProperties
      <2>3. Sha256Bytes(SegmentAt(source, n, i)) \in ByteDigests
            BY <2>1 DEF Sha256Bytes, ByteDigests
      <2> QED BY <2>2, <2>3 DEF SegmentRows
<1>3. Segments(source, n) = [i \in 1..count |-> row(i)]
      BY DEF Segments
<1> HIDE DEF row, count
<1>4. [i \in 1..count |-> row(i)] \in Seq(SegmentRows)
      BY <1>1, <1>2, IsASeq
<1> QED BY <1>3, <1>4

LEMMA ManifestType ==
    ASSUME NEW source \in Seq(Octets), NEW n \in Nat \ {0}
    PROVE  /\ Manifest(source, n) \in Manifests
           /\ Sha256Manifest(Manifest(source, n)) \in ManifestDigests
PROOF
<1>1. Sha256Bytes(source) \in ByteDigests
      BY DEF Sha256Bytes, ByteDigests
<1>2. Manifest(source, n) \in Manifests
      BY <1>1, LenProperties, SegmentsType DEF Manifest, Manifests
<1> QED BY <1>2 DEF Sha256Manifest, ManifestDigests

LEMMA SegmentBytesType == SegmentBytes \in Nat \ {0}
PROOF BY SegmentBoundsAssumption, NumbersAssumption

LEMMA ArtifactDigestsType ==
    ASSUME NEW source \in Seq(Octets)
    PROVE  ArtifactDigests(source) \in Seq(ObjectDigests)
PROOF
<1> DEFINE segments == Segments(source, SegmentBytes)
           digests == [i \in 1..Len(segments) |-> segments[i].sha256]
<1>1. segments \in Seq(SegmentRows)
      BY SegmentsType, SegmentBytesType
<1>2. Len(segments) \in Nat
      BY <1>1, LenProperties
<1> HIDE DEF segments
<1>3. ASSUME NEW i \in 1..Len(segments) PROVE segments[i].sha256 \in ObjectDigests
      <2>1. segments[i] \in SegmentRows
            BY <1>1, ElementOfSeq
      <2> QED BY <2>1 DEF SegmentRows, ObjectDigests
<1>4. digests \in Seq(ObjectDigests)
      BY <1>2, <1>3, IsASeq
<1>5. Sha256Manifest(Manifest(source, SegmentBytes)) \in ObjectDigests
      BY ManifestType, SegmentBytesType DEF ObjectDigests
<1> HIDE DEF digests
<1>6. Append(digests, Sha256Manifest(Manifest(source, SegmentBytes))) \in Seq(ObjectDigests)
      BY <1>4, <1>5, AppendProperties
<1> QED BY <1>6 DEF ArtifactDigests, digests, segments

LEMMA DigestsInType ==
    ASSUME NEW segments \in Seq(SegmentRows)
    PROVE  DigestsIn(segments) \subseteq ObjectDigests
PROOF
<1>1. DOMAIN segments = 1..Len(segments)
      BY LenProperties
<1>2. ASSUME NEW i \in 1..Len(segments) PROVE segments[i].sha256 \in ByteDigests
      <2>1. segments[i] \in SegmentRows
            BY ElementOfSeq
      <2> QED BY <2>1 DEF SegmentRows
<1> QED BY <1>1, <1>2 DEF DigestsIn, ObjectDigests

----------------------------------------------------------------------------
(* Type correctness.  TypeOK alone is not inductive: a run's job must exist *)
(* when the run reads it, a row's nullable columns are set in the states    *)
(* that use them, and the rows a verifying transaction will write exist.    *)

RowsTyped ==
    \A v \in Videos :
        /\ upload[v].state # "absent" => upload[v].key # NULL /\ upload[v].intent # NULL
        /\ job[v].state # "absent" => job[v].source # NULL /\ upload[v].state = "finalized"
        /\ rendition[v].state # "absent" => rendition[v].manifest # NULL
        /\ video[v].active # NULL => rendition[video[v].active].state # "absent"
        /\ video[v].state = "absent" <=> upload[v].state = "absent"

RunsTyped ==
    \A w \in Workers :
        /\ worker[w].pc = "idle" <=> worker[w].token = NULL
        /\ worker[w].pc \in {"idle", "claiming"} <=> worker[w].video = NULL

HeldTyped ==
    /\ \A w \in Workers : worker[w].pc = "verifying" => job[worker[w].video].state # "absent"
    /\ \A v \in Videos :
          publisher[v].pc = "verifying" => video[v].state # "absent" /\ rendition[v].state # "absent"

TypeInv == TypeOK /\ RowsTyped /\ RunsTyped /\ HeldTyped

\* A row that exists is never deleted, so the rows a transaction holds stay.
LEMMA RowsStay ==
    ASSUME HeldTyped, UNCHANGED <<worker, publisher>>,
           \A v \in Videos : /\ job[v].state # "absent" => job'[v].state # "absent"
                             /\ video[v].state # "absent" => video'[v].state # "absent"
                             /\ rendition[v].state # "absent" => rendition'[v].state # "absent",
           \A w \in Workers : worker[w].pc = "verifying" => worker[w].video \in Videos
    PROVE  HeldTyped'
PROOF BY DEF HeldTyped

LEMMA RunVideo ==
    ASSUME TypeInv, NEW w \in Workers, worker[w].pc \notin {"idle", "claiming"}
    PROVE  worker[w].video \in Videos /\ worker[w].token \in Tokens
PROOF BY DEF TypeInv, TypeOK, RunsTyped, Runs

LEMMA NullIsNew ==
    /\ NULL \notin Videos /\ NULL \notin IdempotencyKeys /\ NULL \notin Intents
    /\ NULL \notin Tokens /\ NULL \notin ObjectDigests /\ NULL \notin ByteDigests
    /\ NULL \notin ManifestDigests /\ NULL \notin TokenDigests
    /\ NULL \notin ChunkInFlight /\ NULL \notin Reads
PROOF BY NullAssumption DEF ObjectDigests, ChunkInFlight, Reads

LEMMA ChunkType ==
    ASSUME NEW chunk \in ChunkRequests
    PROVE  /\ chunk.key \in IdempotencyKeys /\ chunk.offset \in Nat
           /\ chunk.bytes \in Seq(Octets) /\ Len(chunk.bytes) \in Nat \ {0}
           /\ EndOf(chunk) \in Nat /\ EndOf(chunk) > chunk.offset
           /\ Sha256Bytes(chunk.bytes) \in ByteDigests
           /\ Sha256Bytes(chunk.bytes) \in ObjectDigests
PROOF
<1>1. /\ chunk.key \in IdempotencyKeys /\ chunk.offset \in Nat
      /\ chunk.bytes \in Seq(Octets) /\ chunk.bytes # <<>>
      BY RequestsAssumption
<1>2. Len(chunk.bytes) \in Nat \ {0}
      BY <1>1, EmptySeq
<1>3. EndOf(chunk) \in Nat /\ EndOf(chunk) > chunk.offset
      BY <1>1, <1>2 DEF EndOf
<1>4. Sha256Bytes(chunk.bytes) \in ByteDigests
      BY <1>1 DEF Sha256Bytes, ByteDigests
<1> QED BY <1>1, <1>2, <1>3, <1>4 DEF ObjectDigests

LEMMA PutType ==
    ASSUME TypeOK, NEW digest \in ObjectDigests, Put(digest)
    PROVE  /\ objects' \subseteq ObjectDigests
           /\ corrupt' \subseteq ObjectDigests
           /\ lost' \subseteq ObjectDigests
           /\ seen' \in [Videos -> SUBSET ObjectDigests]
PROOF BY DEF TypeOK, Put

LEMMA TypeInvInit == Init => TypeInv
PROOF
<1> SUFFICES ASSUME Init PROVE TypeInv
    OBVIOUS
<1> USE DEF Init
<1>1. video \in [Videos -> VideoRows]
      BY DEF AbsentVideo, VideoRows, VideoStates
<1>2. upload \in [Videos -> UploadRows]
      BY DEF AbsentUpload, UploadRows
<1>3. job \in [Videos -> JobRows]
      BY DEF AbsentJob, JobRows, JobStates
<1>4. rendition \in [Videos -> RenditionRows]
      BY EmptySeq DEF AbsentRendition, RenditionRows
<1>5. worker \in [Workers -> Runs]
      BY EmptySeq DEF IdleWorker, Runs, RunStates
<1>6. TypeOK
      BY <1>1, <1>2, <1>3, <1>4, <1>5, EmptySeq DEF TypeOK, IdlePublisher, Publications
<1>7. RowsTyped
      BY DEF RowsTyped, AbsentVideo, AbsentUpload, AbsentJob, AbsentRendition
<1>8. RunsTyped /\ HeldTyped
      BY DEF RunsTyped, HeldTyped, IdleWorker, IdlePublisher
<1> QED BY <1>6, <1>7, <1>8 DEF TypeInv

LEMMA TypeInvUpload ==
    ASSUME TypeInv, UploadNext
    PROVE  TypeInv'
PROOF
<1> USE DEF TypeInv, held
<1>1. ASSUME NEW v \in Videos, NEW key \in IdempotencyKeys, NEW intent \in Intents,
             OpenUpload(v, key, intent)
      PROVE  TypeInv'
      <2> USE <1>1 DEF OpenUpload, NewUpload, store
      <2>1. video' \in [Videos -> VideoRows]
            BY DEF TypeOK, VideoRows, VideoStates
      <2>2. upload' \in [Videos -> UploadRows]
            BY DEF TypeOK, UploadRows
      <2>3. TypeOK'
            BY <2>1, <2>2 DEF TypeOK
      <2>4. RowsTyped'
            BY NullIsNew DEF TypeOK, RowsTyped, VideoRows, UploadRows
      <2>5. HeldTyped'
            BY <2>3, RunVideo, RowsStay DEF TypeOK, VideoRows
      <2> QED BY <2>3, <2>4, <2>5 DEF RunsTyped
<1>2. ASSUME NEW h \in Handlers, NEW v \in Videos, NEW chunk \in ChunkRequests,
             PutChunk(h, v, chunk)
      PROVE  TypeInv'
      <2> USE <1>2 DEF PutChunk, tables
      <2>1. /\ objects' \subseteq ObjectDigests /\ corrupt' \subseteq ObjectDigests /\ lost' \subseteq ObjectDigests
            /\ seen' \in [Videos -> SUBSET ObjectDigests]
            BY PutType, ChunkType
      <2>2. request' \in [Handlers -> ChunkInFlight \cup {NULL}]
            BY DEF TypeOK, ChunkInFlight
      <2> QED BY <2>1, <2>2 DEF TypeOK, RowsTyped, RunsTyped, HeldTyped
<1>3. ASSUME NEW h \in Handlers, NEW v \in Videos, NEW chunk \in ChunkRequests,
             AppendChunk(h, v, chunk)
      PROVE  TypeInv'
      <2> USE <1>3 DEF AppendChunk, NextChunk, Reply, store
      <2>1. upload' \in [Videos -> UploadRows]
            BY ChunkType DEF TypeOK, UploadRows
      <2>2. chunks' \in [Videos -> SUBSET ChunkRequests]
            BY DEF TypeOK
      <2>3. request' \in [Handlers -> ChunkInFlight \cup {NULL}]
            BY DEF TypeOK
      <2>4. receipts' \subseteq [video : Videos, chunk : ChunkRequests, offset : Nat]
            BY ChunkType DEF TypeOK
      <2>5. TypeOK'
            BY <2>1, <2>2, <2>3, <2>4 DEF TypeOK
      <2>6. RowsTyped'
            BY DEF TypeOK, RowsTyped, UploadRows
      <2> QED BY <2>5, <2>6 DEF RunsTyped, HeldTyped
<1>4. ASSUME NEW h \in Handlers, NEW v \in Videos, NEW chunk \in ChunkRequests,
             ReplayChunk(h, v, chunk)
      PROVE  TypeInv'
      <2> USE <1>4 DEF ReplayChunk, Reply, store, tables
      <2>1. request' \in [Handlers -> ChunkInFlight \cup {NULL}]
            BY DEF TypeOK
      <2>2. receipts' \subseteq [video : Videos, chunk : ChunkRequests, offset : Nat]
            BY ChunkType DEF TypeOK
      <2> QED BY <2>1, <2>2 DEF TypeOK, RowsTyped, RunsTyped, HeldTyped
<1>5. ASSUME NEW h \in Handlers, AbandonChunk(h)
      PROVE  TypeInv'
      BY <1>5 DEF AbandonChunk, TypeOK, RowsTyped, RunsTyped, HeldTyped, store, tables
<1>6. ASSUME NEW v \in Videos, SourceVerified(v)
      PROVE  SourceDigest(v) \in ByteDigests /\ SourceDigest(v) \in ObjectDigests
      <2>1. upload[v] \in UploadRows /\ upload[v].intent \in Intents
            BY <1>6 DEF SourceVerified, TypeOK, RowsTyped, UploadRows
      <2> QED BY <1>6, <2>1, RequestsAssumption DEF SourceVerified, DigestMatches, ObjectDigests
<1>7. ASSUME NEW v \in Videos, FinalizeUpload(v)
      PROVE  TypeInv'
      <2> USE <1>7 DEF FinalizeUpload
      <2>1. SourceDigest(v) \in ByteDigests /\ SourceDigest(v) \in ObjectDigests
            BY <1>6
      <2>2. /\ objects' \subseteq ObjectDigests /\ corrupt' \subseteq ObjectDigests /\ lost' \subseteq ObjectDigests
            /\ seen' \in [Videos -> SUBSET ObjectDigests]
            BY <2>1, PutType
      <2>3. upload' \in [Videos -> UploadRows]
            <3>1. upload[v] \in UploadRows
                  BY DEF TypeOK
            <3>2. [upload[v] EXCEPT !.state = "finalized", !.source = SourceDigest(v)] \in UploadRows
                  BY <2>1, <3>1 DEF UploadRows
            <3>3. upload' = [upload EXCEPT ![v] = [upload[v] EXCEPT !.state = "finalized",
                                                                    !.source = SourceDigest(v)]]
                  BY DEF TypeOK
            <3> QED BY <3>2, <3>3 DEF TypeOK
      <2>4. job' \in [Videos -> JobRows]
            <3>1. job[v] \in JobRows
                  BY DEF TypeOK
            <3>2. [job[v] EXCEPT !.state = "queued", !.source = SourceDigest(v)] \in JobRows
                  BY <2>1, <3>1 DEF JobRows, JobStates
            <3>3. job' = [job EXCEPT ![v] = [job[v] EXCEPT !.state = "queued",
                                                           !.source = SourceDigest(v)]]
                  BY DEF TypeOK
            <3> QED BY <3>2, <3>3 DEF TypeOK
      <2>5. video' \in [Videos -> VideoRows]
            BY DEF TypeOK, VideoRows, VideoStates
      <2>6. TypeOK'
            BY <2>2, <2>3, <2>4, <2>5 DEF TypeOK
      <2>7. RowsTyped'
            BY <2>1, NullIsNew DEF TypeOK, RowsTyped, UploadRows, JobRows, VideoRows, SourceVerified
      <2>8. HeldTyped'
            BY RunVideo, RowsStay DEF TypeOK, VideoRows, JobRows
      <2> QED BY <2>6, <2>7, <2>8 DEF RunsTyped
<1>8. ASSUME NEW v \in Videos, FinalizeRolledBack(v)
      PROVE  TypeInv'
      <2> USE <1>8 DEF FinalizeRolledBack, tables
      <2>1. /\ objects' \subseteq ObjectDigests /\ corrupt' \subseteq ObjectDigests /\ lost' \subseteq ObjectDigests
            /\ seen' \in [Videos -> SUBSET ObjectDigests]
            BY <1>6, PutType
      <2> QED BY <2>1 DEF TypeOK, RowsTyped, RunsTyped, HeldTyped
<1> QED BY <1>1, <1>2, <1>3, <1>4, <1>5, <1>7, <1>8 DEF UploadNext

LEMMA TypeInvWorker ==
    ASSUME TypeInv, WorkerNext
    PROVE  TypeInv'
PROOF
<1> USE DEF TypeInv, held
<1>1. ASSUME NEW w \in Workers, NEW token \in Tokens, StartRun(w, token)
      PROVE  TypeInv'
      <2> USE <1>1 DEF StartRun, tables, store
      <2>1. worker' \in [Workers -> Runs]
            BY DEF TypeOK, Runs, RunStates
      <2>2. RunsTyped' /\ HeldTyped'
            BY NullIsNew DEF TypeOK, RunsTyped, HeldTyped, Runs
      <2> QED BY <2>1, <2>2 DEF TypeOK, RowsTyped
<1>2. ASSUME NEW w \in Workers, NEW v \in Videos, ClaimJob(w, v)
      PROVE  TypeInv'
      <2> USE <1>2 DEF ClaimJob, store
      <2>1. worker[w].token \in Tokens /\ worker[w].at \in Nat
            BY NullIsNew DEF TypeOK, RunsTyped, Runs
      <2>2. Sha256Token(worker[w].token) \in TokenDigests /\ worker[w].at + LeaseMs \in Nat
            BY <2>1, NumbersAssumption DEF Sha256Token, TokenDigests
      <2>3. job' \in [Videos -> JobRows]
            BY <2>2 DEF TypeOK, JobRows, JobStates, Leased
      <2>4. video' \in [Videos -> VideoRows]
            BY DEF TypeOK, VideoRows, VideoStates
      <2>5. worker' \in [Workers -> Runs]
            BY DEF TypeOK, Runs, RunStates
      <2>6. TypeOK'
            BY <2>3, <2>4, <2>5 DEF TypeOK
      <2>7. RowsTyped'
            BY DEF TypeOK, RowsTyped, Claimable, Leased, JobRows, VideoRows
      <2>8. RunsTyped'
            BY NullIsNew DEF TypeOK, RunsTyped, Runs
      <2>9. HeldTyped'
            BY RunVideo DEF TypeOK, HeldTyped, Leased, JobRows, VideoRows, Runs
      <2> QED BY <2>6, <2>7, <2>8, <2>9
<1>3. ASSUME NEW w \in Workers, SampleClock(w)
      PROVE  TypeInv'
      <2> USE <1>3 DEF SampleClock, tables, store
      <2> PICK pc \in {"started", "sampled"} :
               /\ worker[w].pc \in {"claimed", "installed"}
               /\ worker' = [worker EXCEPT ![w] = [@ EXCEPT !.pc = pc, !.at = clock]]
          OBVIOUS
      <2>1. worker' \in [Workers -> Runs]
            BY DEF TypeOK, Runs, RunStates
      <2>2. RunsTyped' /\ HeldTyped'
            BY NullIsNew DEF TypeOK, RunsTyped, HeldTyped, Runs
      <2> QED BY <2>1, <2>2 DEF TypeOK, RowsTyped
<1>4. ASSUME NEW w \in Workers, BeginMaterialize(w)
      PROVE  TypeInv'
      <2> USE <1>4 DEF BeginMaterialize, tables, store
      <2>1. worker[w].video \in Videos
            BY NullIsNew DEF TypeOK, RunsTyped, Runs
      <2>2. job[worker[w].video].source \in ByteDigests
            BY <2>1 DEF TypeOK, RowsTyped, JobRows, LeaseHeld
      <2>3. Content(job[worker[w].video].source) \in Seq(Octets)
            BY <2>2 DEF ByteDigests, Content
      <2>4. ArtifactDigests(Content(job[worker[w].video].source)) \in Seq(ObjectDigests)
            BY <2>3, ArtifactDigestsType
      <2>5. worker' \in [Workers -> Runs]
            BY <2>3, <2>4 DEF TypeOK, Runs, RunStates
      <2>6. RunsTyped' /\ HeldTyped'
            BY NullIsNew DEF TypeOK, RunsTyped, HeldTyped, Runs
      <2> QED BY <2>5, <2>6 DEF TypeOK, RowsTyped
<1>5. ASSUME NEW w \in Workers, InstallObject(w)
      PROVE  TypeInv'
      <2> USE <1>5 DEF InstallObject, tables
      <2>1. worker[w] \in Runs /\ worker[w].todo \in Seq(ObjectDigests)
            BY DEF TypeOK, Runs
      <2>2. Head(worker[w].todo) \in ObjectDigests /\ Tail(worker[w].todo) \in Seq(ObjectDigests)
            BY <2>1, HeadTailProperties
      <2>3. /\ objects' \subseteq ObjectDigests /\ corrupt' \subseteq ObjectDigests /\ lost' \subseteq ObjectDigests
            /\ seen' \in [Videos -> SUBSET ObjectDigests]
            BY <2>2, PutType
      <2> DEFINE pc == IF Tail(worker[w].todo) = <<>> THEN "installed" ELSE "installing"
      <2>6. worker' = [worker EXCEPT ![w] = [worker[w] EXCEPT !.pc = pc, !.todo = Tail(worker[w].todo)]]
            OBVIOUS
      <2>7. pc \in {"installing", "installed"}
            OBVIOUS
      <2> HIDE DEF pc
      <2>4. worker' \in [Workers -> Runs]
            <3>1. [worker[w] EXCEPT !.pc = pc, !.todo = Tail(worker[w].todo)] \in Runs
                  BY <2>1, <2>2, <2>7 DEF Runs, RunStates
            <3> QED BY <2>6, <3>1 DEF TypeOK
      <2>5. RunsTyped' /\ HeldTyped'
            BY <2>1, <2>6, <2>7 DEF TypeOK, RunsTyped, HeldTyped, Runs
      <2> QED BY <2>3, <2>4, <2>5 DEF TypeOK, RowsTyped
<1>6. ASSUME NEW w \in Workers, CommitReady(w)
      PROVE  TypeInv'
      <2> USE <1>6 DEF CommitReady, store
      <2> DEFINE manifest == Manifest(worker[w].source, SegmentBytes)
      <2>1. /\ worker[w].video \in Videos /\ worker[w].token \in Tokens
            /\ worker[w].source \in Seq(Octets)
            BY RunVideo DEF TypeOK, Runs
      <2>2. Sha256Token(worker[w].token) \in TokenDigests
            BY <2>1 DEF Sha256Token, TokenDigests
      <2>3. Sha256Manifest(manifest) \in ManifestDigests /\ manifest.segments \in Seq(SegmentRows)
            BY <2>1, ManifestType, SegmentBytesType DEF Manifests
      <2> HIDE DEF manifest
      <2>4. job' \in [Videos -> JobRows]
            BY <2>2 DEF TypeOK, JobRows, JobStates, Completed
      <2>5. rendition' \in [Videos -> RenditionRows]
            BY <2>3 DEF TypeOK, RenditionRows, manifest
      <2>6. video' \in [Videos -> VideoRows]
            BY DEF TypeOK, VideoRows, VideoStates
      <2>7. /\ worker' \in [Workers -> Runs]
            /\ seen' \in [Videos -> SUBSET ObjectDigests]
            BY EmptySeq DEF TypeOK, IdleWorker, Runs, RunStates, Unwatch
      <2>8. TypeOK'
            BY <2>4, <2>5, <2>6, <2>7 DEF TypeOK
      <2>9. job[worker[w].video].state # "absent"
            BY DEF HeldTyped
      <2>10. RowsTyped'
            <3> SUFFICES ASSUME NEW v \in Videos
                PROVE  /\ (upload[v].state # "absent" => upload[v].key # NULL /\ upload[v].intent # NULL)'
                       /\ (job[v].state # "absent" => job[v].source # NULL /\ upload[v].state = "finalized")'
                       /\ (rendition[v].state # "absent" => rendition[v].manifest # NULL)'
                       /\ (video[v].active # NULL => rendition[video[v].active].state # "absent")'
                       /\ (video[v].state = "absent" <=> upload[v].state = "absent")'
                BY DEF RowsTyped
            <3>1. (upload[v].state # "absent" => upload[v].key # NULL /\ upload[v].intent # NULL)'
                  BY DEF RowsTyped
            <3>2. (job[v].state # "absent" => job[v].source # NULL /\ upload[v].state = "finalized")'
                  BY <2>1, <2>9 DEF TypeOK, RowsTyped, Completed, JobRows
            <3>3. (rendition[v].state # "absent" => rendition[v].manifest # NULL)'
                  BY <2>1, <2>3, NullIsNew DEF TypeOK, RowsTyped, manifest
            <3>4. (video[v].active # NULL => rendition[video[v].active].state # "absent")'
                  BY <2>1 DEF TypeOK, RowsTyped, VideoRows
            <3>5. (video[v].state = "absent" <=> upload[v].state = "absent")'
                  BY <2>1, <2>9 DEF TypeOK, RowsTyped, VideoRows
            <3> QED BY <3>1, <3>2, <3>3, <3>4, <3>5
      <2>11. RunsTyped'
            BY DEF TypeOK, RunsTyped, IdleWorker
      <2>12. \A x \in Workers :
                worker'[x].pc = "verifying" => x # w /\ worker'[x] = worker[x] /\ worker[x].video \in Videos
            BY RunVideo DEF TypeOK, IdleWorker
      <2>13. HeldTyped'
            BY <2>1, <2>9, <2>12 DEF TypeOK, HeldTyped, Completed, JobRows, VideoRows
      <2> QED BY <2>8, <2>10, <2>11, <2>13
<1>7. ASSUME NEW w \in Workers, StopRun(w)
      PROVE  TypeInv'
      <2> USE <1>7 DEF StopRun, tables, store
      <2>1. worker' \in [Workers -> Runs]
            BY EmptySeq DEF TypeOK, IdleWorker, Runs, RunStates
      <2>2. RunsTyped' /\ HeldTyped'
            BY DEF TypeOK, RunsTyped, HeldTyped, IdleWorker
      <2> QED BY <2>1, <2>2 DEF TypeOK, RowsTyped
<1>8. ASSUME NEW w \in Workers, LockReady(w)
      PROVE  TypeInv'
      <2> USE <1>8 DEF LockReady, CommitAllowed, tables, store
      <2>1. worker[w] \in Runs /\ worker[w].video \in Videos
            BY RunVideo DEF TypeOK
      <2>2. ArtifactDigests(worker[w].source) \in Seq(ObjectDigests)
            BY <2>1, ArtifactDigestsType DEF Runs
      <2>3. /\ worker' \in [Workers -> Runs]
            /\ seen' \in [Videos -> SUBSET ObjectDigests]
            BY <2>1, <2>2 DEF TypeOK, Runs, RunStates, Watch
      <2>4. RunsTyped' /\ HeldTyped'
            BY <2>1 DEF TypeOK, RunsTyped, HeldTyped, Runs, LeaseHeld
      <2> QED BY <2>3, <2>4 DEF TypeOK, RowsTyped
<1>9. ASSUME NEW w \in Workers, VerifyArtifactObject(w)
      PROVE  TypeInv'
      <2> USE <1>9 DEF VerifyArtifactObject, tables, store
      <2>1. worker[w] \in Runs /\ Tail(worker[w].todo) \in Seq(ObjectDigests)
            BY HeadTailProperties DEF TypeOK, Runs
      <2>2. worker' \in [Workers -> Runs]
            BY <2>1 DEF TypeOK, Runs, RunStates
      <2>3. RunsTyped' /\ HeldTyped'
            BY <2>1 DEF TypeOK, RunsTyped, HeldTyped, Runs
      <2> QED BY <2>2, <2>3 DEF TypeOK, RowsTyped
<1>10. ASSUME NEW w \in Workers, RollBackReady(w)
       PROVE  TypeInv'
      <2> USE <1>10 DEF RollBackReady, tables, store
      <2>1. /\ worker' \in [Workers -> Runs]
            /\ seen' \in [Videos -> SUBSET ObjectDigests]
            BY EmptySeq DEF TypeOK, IdleWorker, Runs, RunStates, Unwatch
      <2>2. RunsTyped' /\ HeldTyped'
            BY DEF TypeOK, RunsTyped, HeldTyped, IdleWorker
      <2> QED BY <2>1, <2>2 DEF TypeOK, RowsTyped
<1> QED BY <1>1, <1>2, <1>3, <1>4, <1>5, <1>6, <1>7, <1>8, <1>9, <1>10 DEF WorkerNext

LEMMA TypeInvPublication ==
    ASSUME TypeInv, PublicationNext
    PROVE  TypeInv'
PROOF
<1> USE DEF TypeInv, held
<1>1. ASSUME NEW v \in Videos, PublishVideo(v)
      PROVE  TypeInv'
      <2> USE <1>1 DEF PublishVideo, Pointer, store
      <2>1. rendition' \in [Videos -> RenditionRows]
            BY DEF TypeOK, RenditionRows
      <2>2. video' \in [Videos -> VideoRows]
            BY DEF TypeOK, VideoRows, VideoStates
      <2>3. /\ publisher' \in [Videos -> Publications]
            /\ seen' \in [Videos -> SUBSET ObjectDigests]
            BY EmptySeq DEF TypeOK, IdlePublisher, Publications, Unwatch
      <2>4. TypeOK'
            BY <2>1, <2>2, <2>3 DEF TypeOK
      <2>5. rendition[v].manifest # NULL /\ video[v].state # "absent"
            BY DEF HeldTyped, RowsTyped
      <2>6. RowsTyped'
            BY <2>5 DEF TypeOK, RowsTyped, VideoRows, RenditionRows
      <2>7. HeldTyped'
            BY DEF TypeOK, HeldTyped, IdlePublisher, VideoRows, RenditionRows
      <2> QED BY <2>4, <2>6, <2>7 DEF RunsTyped
<1>2. ASSUME NEW v \in Videos, TombstoneVideo(v)
      PROVE  TypeInv'
      <2> USE <1>2 DEF TombstoneVideo, Deletable, store
      <2>1. Cancelled(job[v]) \in JobRows
            BY DEF Cancelled, TypeOK, JobRows, JobStates
      <2>2. /\ job[v].state # "absent" <=> Cancelled(job[v]).state # "absent"
            /\ Cancelled(job[v]).source = job[v].source
            BY DEF Cancelled, TypeOK, JobRows
      <2>3. job' \in [Videos -> JobRows]
            BY <2>1 DEF TypeOK
      <2>4. video' \in [Videos -> VideoRows]
            BY DEF TypeOK, VideoRows, VideoStates
      <2>5. TypeOK'
            BY <2>3, <2>4 DEF TypeOK
      <2>6. RowsTyped'
            BY <2>2 DEF TypeOK, RowsTyped, VideoRows
      <2>7. HeldTyped'
            BY <2>2, RunVideo, RowsStay DEF TypeOK, VideoRows
      <2> QED BY <2>5, <2>6, <2>7 DEF RunsTyped
<1>3. ASSUME NEW r \in Viewers, NEW v \in Videos, NEW digest \in ObjectDigests, Observe(r, v, digest)
      PROVE  TypeInv'
      <2> USE <1>3 DEF Observe, tables, store
      <2>1. video[v].tombstoneVersion \in Nat
            BY DEF TypeOK, VideoRows
      <2>2. viewer' \in [Viewers -> Reads \cup {NULL}]
            BY <2>1 DEF TypeOK, Reads
      <2> QED BY <2>2 DEF TypeOK, RowsTyped, RunsTyped, HeldTyped
<1>4. ASSUME NEW r \in Viewers, NEW v \in Videos, ObserveManifest(r, v)
      PROVE  TypeInv'
      <2>1. video[v].active \in Videos
            BY <1>4 DEF ObserveManifest, Authorizes, TypeOK, VideoRows
      <2>2. rendition[video[v].active].manifest \in ObjectDigests
            BY <1>4, <2>1 DEF ObserveManifest, Authorizes, TypeOK, RowsTyped, RenditionRows, ObjectDigests
      <2> QED BY <1>3, <1>4, <2>2 DEF ObserveManifest
<1>5. ASSUME NEW r \in Viewers, NEW v \in Videos, NEW digest \in EverStored,
             ObserveSegment(r, v, digest)
      PROVE  TypeInv'
      <2>1. digest \in ObjectDigests
            BY DEF EverStored, TypeOK
      <2> QED BY <1>3, <1>5, <2>1 DEF ObserveSegment
<1>6. ASSUME NEW r \in Viewers, Respond(r)
      PROVE  TypeInv'
      <2>1. viewer' \in [Viewers -> Reads \cup {NULL}]
            BY <1>6 DEF Respond, TypeOK
      <2> QED BY <1>6, <2>1 DEF Respond, TypeOK, RowsTyped, RunsTyped, HeldTyped, tables, store
<1>7. ASSUME NEW v \in Videos, LockPublish(v)
      PROVE  TypeInv'
      <2> USE <1>7 DEF LockPublish, SegmentsToVerify, Publishable, tables, store
      <2>1. rendition[v].segments \in Seq(SegmentRows)
            BY DEF TypeOK, RenditionRows
      <2>2. /\ publisher' \in [Videos -> Publications]
            /\ seen' \in [Videos -> SUBSET ObjectDigests]
            BY <2>1 DEF TypeOK, Publications, Watch
      <2>3. HeldTyped'
            BY DEF TypeOK, HeldTyped
      <2> QED BY <2>2, <2>3 DEF TypeOK, RowsTyped, RunsTyped
<1>8. ASSUME NEW v \in Videos, VerifySegment(v)
      PROVE  TypeInv'
      <2> USE <1>8 DEF VerifySegment, tables, store
      <2>1. Tail(publisher[v].todo) \in Seq(SegmentRows)
            BY HeadTailProperties DEF TypeOK, Publications
      <2>2. publisher' \in [Videos -> Publications]
            BY <2>1 DEF TypeOK, Publications
      <2>3. HeldTyped'
            BY DEF TypeOK, HeldTyped, Publications
      <2> QED BY <2>2, <2>3 DEF TypeOK, RowsTyped, RunsTyped
<1>9. ASSUME NEW v \in Videos, RollBackPublish(v)
      PROVE  TypeInv'
      <2> USE <1>9 DEF RollBackPublish, tables, store
      <2>1. /\ publisher' \in [Videos -> Publications]
            /\ seen' \in [Videos -> SUBSET ObjectDigests]
            BY EmptySeq DEF TypeOK, IdlePublisher, Publications, Unwatch
      <2>2. HeldTyped'
            BY DEF TypeOK, HeldTyped, IdlePublisher
      <2> QED BY <2>1, <2>2 DEF TypeOK, RowsTyped, RunsTyped
<1> QED BY <1>1, <1>2, <1>4, <1>5, <1>6, <1>7, <1>8, <1>9 DEF PublicationNext

LEMMA TypeInvEnvironment ==
    ASSUME TypeInv, EnvironmentNext
    PROVE  TypeInv'
PROOF
<1> USE DEF TypeInv, TypeOK, RowsTyped, RunsTyped, HeldTyped, tables, store, held
<1>1. CASE Tick
      BY <1>1 DEF Tick
<1>2. ASSUME NEW digest \in objects, DamageObject(digest)
      PROVE  TypeInv'
      BY <1>2 DEF DamageObject
<1> QED BY <1>1, <1>2 DEF EnvironmentNext

LEMMA TypeInvStutter ==
    ASSUME TypeInv, UNCHANGED vars
    PROVE  TypeInv'
PROOF BY DEF TypeInv, TypeOK, RowsTyped, RunsTyped, HeldTyped, vars, tables, store, held

\* Every row of the tables, every object and every process record keeps its type.
THEOREM TypeInvariant == Spec => []TypeInv
PROOF
<1>1. TypeInv /\ [Next]_vars => TypeInv'
      BY TypeInvUpload, TypeInvWorker, TypeInvPublication, TypeInvEnvironment, TypeInvStutter
      DEF Next
<1> QED BY TypeInvInit, <1>1, PTL DEF Spec

THEOREM TypeCorrect == Spec => []TypeOK
PROOF BY TypeInvariant, PTL DEF TypeInv

----------------------------------------------------------------------------
(* Which tables the steps of each part leave alone.                        *)

LEMMA WorkerFrame ==
    ASSUME WorkerNext
    PROVE  UNCHANGED <<upload, chunks, clock, request, viewer, receipts>>
PROOF BY DEF WorkerNext, StartRun, ClaimJob, SampleClock, BeginMaterialize, InstallObject,
             LockReady, VerifyArtifactObject, CommitReady, RollBackReady, StopRun, tables, store

LEMMA PublicationFrame ==
    ASSUME PublicationNext
    PROVE  UNCHANGED <<upload, chunks, store, clock, request, worker, receipts>>
PROOF BY DEF PublicationNext, LockPublish, VerifySegment, PublishVideo, RollBackPublish,
             TombstoneVideo, ObserveManifest, ObserveSegment, Observe, Respond, tables

LEMMA EnvironmentFrame ==
    ASSUME EnvironmentNext
    PROVE  UNCHANGED <<tables, request, worker, viewer, receipts, held>>
PROOF BY DEF EnvironmentNext, Tick, DamageObject

----------------------------------------------------------------------------
(* Chunks.  An upload that does not exist yet has no committed offset, so  *)
(* the tiling holds when it is opened.                                     *)

TileInv ==
    /\ ChunksTileOffset
    /\ \A v \in Videos : upload[v].state = "absent" => upload[v].offset = 0

LEMMA TileFrame ==
    ASSUME TileInv, UNCHANGED <<upload, chunks>>
    PROVE  TileInv'
PROOF BY DEF TileInv, ChunksTileOffset

LEMMA TileUpload ==
    ASSUME TypeInv, TileInv, UploadNext
    PROVE  TileInv'
PROOF
<1>1. ASSUME NEW v \in Videos, NEW key \in IdempotencyKeys, NEW intent \in Intents,
             OpenUpload(v, key, intent)
      PROVE  TileInv'
      <2>1. upload[v].offset = 0 /\ upload[v].state = "absent"
            BY <1>1 DEF OpenUpload, TileInv, TypeInv, RowsTyped
      <2>2. upload'[v].offset = 0 /\ \A u \in Videos \ {v} : upload'[u] = upload[u]
            BY <1>1 DEF OpenUpload, NewUpload, TypeInv, TypeOK
      <2>3. chunks' = chunks
            BY <1>1 DEF OpenUpload
      <2>4. upload'[v].state # "absent"
            BY <1>1 DEF OpenUpload, NewUpload, TypeInv, TypeOK
      <2> QED BY <2>1, <2>2, <2>3, <2>4 DEF TileInv, ChunksTileOffset
<1>2. ASSUME NEW h \in Handlers, NEW v \in Videos, NEW chunk \in ChunkRequests,
             AppendChunk(h, v, chunk)
      PROVE  TileInv'
      <2>1. /\ chunks[v] \subseteq ChunkRequests
            /\ upload[v].offset = chunk.offset /\ upload[v].state = "uploading"
            BY <1>2 DEF AppendChunk, NextChunk, TypeInv, TypeOK
      <2>2. /\ chunks'[v] = chunks[v] \cup {chunk}
            /\ upload'[v].offset = EndOf(chunk) /\ upload'[v].state = "uploading"
            BY <1>2, <2>1 DEF AppendChunk, TypeInv, TypeOK, UploadRows
      <2>3. \A u \in Videos \ {v} : chunks'[u] = chunks[u] /\ upload'[u] = upload[u]
            BY <1>2 DEF AppendChunk, TypeInv, TypeOK
      <2>4. \A row \in chunks[v] : EndOf(row) \in Nat /\ row.offset \in Nat
            BY <2>1, ChunkType
      <2>5. chunk.offset \in Nat /\ EndOf(chunk) \in Nat /\ EndOf(chunk) > chunk.offset
            BY ChunkType
      <2>6. \A row \in chunks[v] : EndOf(row) <= chunk.offset
            BY <2>1 DEF TileInv, ChunksTileOffset
      <2>7. \A row \in chunks'[v] : EndOf(row) <= upload'[v].offset
            BY <2>2, <2>4, <2>5, <2>6
      <2>8. \A one, two \in chunks'[v] :
                one = two \/ EndOf(one) <= two.offset \/ EndOf(two) <= one.offset
            BY <2>2, <2>6 DEF TileInv, ChunksTileOffset
      <2>9. ASSUME NEW p \in 1..upload'[v].offset
            PROVE  \E row \in chunks'[v] : row.offset < p /\ p <= EndOf(row)
            <3>1. CASE p <= chunk.offset
                  <4>1. p \in 1..upload[v].offset
                        BY <2>1, <2>2, <2>5, <3>1
                  <4> QED BY <4>1, <2>2 DEF TileInv, ChunksTileOffset
            <3>2. CASE p > chunk.offset
                  BY <2>2, <2>5, <3>2
            <3> QED BY <2>2, <2>5, <3>1, <3>2
      <2> QED BY <2>2, <2>3, <2>7, <2>8, <2>9 DEF TileInv, ChunksTileOffset
<1>3. ASSUME NEW v \in Videos, FinalizeUpload(v)
      PROVE  TileInv'
      <2>1. /\ \A u \in Videos : upload'[u].offset = upload[u].offset
            /\ \A u \in Videos : upload'[u].state = "absent" => upload[u].state = "absent"
            BY <1>3 DEF FinalizeUpload, TypeInv, TypeOK, UploadRows
      <2>2. chunks' = chunks
            BY <1>3 DEF FinalizeUpload
      <2> QED BY <2>1, <2>2 DEF TileInv, ChunksTileOffset
<1>4. ASSUME UNCHANGED <<upload, chunks>>
      PROVE  TileInv'
      BY <1>4, TileFrame
<1> QED BY <1>1, <1>2, <1>3, <1>4
        DEF UploadNext, PutChunk, ReplayChunk, AbandonChunk, FinalizeRolledBack, tables

LEMMA TileInvariant == Spec => []TileInv
PROOF
<1>1. Init => TileInv
      BY DEF Init, TileInv, ChunksTileOffset, AbsentUpload
<1>2. TypeInv /\ TileInv /\ [Next]_vars => TileInv'
      BY TileUpload, TileFrame, WorkerFrame, PublicationFrame, EnvironmentFrame DEF Next, vars, tables
<1> QED BY <1>1, <1>2, TypeInvariant, PTL DEF Spec

\* For any number of handlers and any chunks they send, the committed chunks of an
\* upload cover the bytes before its committed offset exactly once.
THEOREM ChunksTile == Spec => []ChunksTileOffset
PROOF BY TileInvariant, PTL DEF TileInv

\* The cursor walk of finalizeUpload accepts every complete upload: its errors
\* about gaps and coverage are unreachable.
THEOREM FinalizeWalk == Spec => []FinalizeFindsNoGap
PROOF
<1>1. ASSUME TypeInv, TileInv PROVE FinalizeFindsNoGap
      <2> SUFFICES ASSUME NEW v \in Videos, upload[v].state = "uploading",
                          upload[v].offset = upload[v].intent.expectedBytes
                   PROVE  Contiguous(chunks[v]) /\ Covers(chunks[v], upload[v].offset)
          BY DEF FinalizeFindsNoGap
      <2>1. chunks[v] \subseteq ChunkRequests /\ upload[v].offset \in Nat
            BY <1>1 DEF TypeInv, TypeOK, UploadRows
      <2>2. \A row \in chunks[v] : EndOf(row) \in Nat /\ row.offset \in Nat /\ EndOf(row) > row.offset
            BY <2>1, ChunkType
      <2>3. /\ \A row \in chunks[v] : EndOf(row) <= upload[v].offset
            /\ \A one, two \in chunks[v] :
                  one = two \/ EndOf(one) <= two.offset \/ EndOf(two) <= one.offset
            /\ \A p \in 1..upload[v].offset : \E row \in chunks[v] : row.offset < p /\ p <= EndOf(row)
            BY <1>1 DEF TileInv, ChunksTileOffset
      <2>4. ASSUME NEW row \in chunks[v], row.offset # 0
            PROVE  \E before \in chunks[v] : EndOf(before) = row.offset
            <3>1. row.offset \in 1..upload[v].offset
                  BY <2>1, <2>2, <2>3, <2>4
            <3>2. PICK before \in chunks[v] : before.offset < row.offset /\ row.offset <= EndOf(before)
                  BY <3>1, <2>3
            <3>3. EndOf(before) <= row.offset
                  BY <3>2, <2>2, <2>3
            <3> QED BY <3>2, <3>3, <2>2
      <2>5. ASSUME upload[v].offset # 0
            PROVE  \E row \in chunks[v] : EndOf(row) = upload[v].offset
            <3>1. PICK row \in chunks[v] : upload[v].offset <= EndOf(row)
                  BY <2>1, <2>3, <2>5
            <3> QED BY <3>1, <2>1, <2>2, <2>3
      <2> QED BY <2>3, <2>4, <2>5 DEF Contiguous, Covers
<1> QED BY <1>1, TypeInvariant, TileInvariant, PTL

----------------------------------------------------------------------------
(* What clients were told.  A reply names a committed row, and a finalized  *)
(* source is the concatenation of the rows, which no longer change.         *)

LEMMA AssembledBytes ==
    ASSUME NEW rows \in SUBSET ChunkRequests, NEW length \in Nat, NEW row \in rows,
           \A one, two \in rows : one = two \/ EndOf(one) <= two.offset \/ EndOf(two) <= one.offset,
           EndOf(row) <= length,
           NEW i \in 1..Len(row.bytes)
    PROVE  Assembled(rows, length)[row.offset + i] = row.bytes[i]
PROOF
<1> DEFINE p == row.offset + i
           Holds(one) == one.offset < p /\ p <= EndOf(one)
<1>1. \A one \in rows : one.offset \in Nat /\ EndOf(one) \in Nat /\ Len(one.bytes) \in Nat
      BY ChunkType
<1>2. p \in 1..length /\ Holds(row) /\ p - row.offset = i
      BY <1>1 DEF EndOf
<1>3. \A one \in rows : Holds(one) => one = row
      BY <1>1, <1>2
<1>4. (CHOOSE one \in rows : Holds(one)) = row
      BY <1>2, <1>3
<1>5. Assembled(rows, length)[p] = (CHOOSE one \in rows : Holds(one)).bytes[p - (CHOOSE one \in rows : Holds(one)).offset]
      BY <1>2 DEF Assembled
<1> QED BY <1>2, <1>4, <1>5

RepliesNameRows ==
    \A receipt \in receipts :
        receipt.offset = EndOf(receipt.chunk) /\ receipt.chunk \in chunks[receipt.video]

SourceIsAssembled ==
    \A v \in Videos :
        upload[v].state = "finalized" =>
            /\ upload[v].source = SourceDigest(v)
            /\ upload[v].source = upload[v].intent.expectedSha256
            /\ upload[v].offset = upload[v].intent.expectedBytes

UploadInv == RepliesNameRows /\ SourceIsAssembled

LEMMA UploadFrame ==
    ASSUME UploadInv, UNCHANGED <<upload, chunks, receipts>>
    PROVE  UploadInv'
PROOF BY DEF UploadInv, RepliesNameRows, SourceIsAssembled, SourceDigest

LEMMA UploadInvUpload ==
    ASSUME TypeInv, UploadInv, UploadNext
    PROVE  UploadInv'
PROOF
<1>1. ASSUME NEW v \in Videos, NEW key \in IdempotencyKeys, NEW intent \in Intents,
             OpenUpload(v, key, intent)
      PROVE  UploadInv'
      <2>1. upload'[v].state = "uploading" /\ \A u \in Videos \ {v} : upload'[u] = upload[u]
            BY <1>1 DEF OpenUpload, NewUpload, TypeInv, TypeOK
      <2>2. chunks' = chunks /\ receipts' = receipts
            BY <1>1 DEF OpenUpload
      <2> QED BY <2>1, <2>2 DEF UploadInv, RepliesNameRows, SourceIsAssembled, SourceDigest
<1>2. ASSUME NEW h \in Handlers, NEW v \in Videos, NEW chunk \in ChunkRequests,
             AppendChunk(h, v, chunk)
      PROVE  UploadInv'
      <2>1. upload'[v].state = "uploading" /\ chunks'[v] = chunks[v] \cup {chunk}
            BY <1>2 DEF AppendChunk, NextChunk, TypeInv, TypeOK, UploadRows
      <2>2. \A u \in Videos \ {v} : chunks'[u] = chunks[u] /\ upload'[u] = upload[u]
            BY <1>2 DEF AppendChunk, TypeInv, TypeOK
      <2>3. \A receipt \in receipts' :
                receipt \in receipts \/ receipt = [video |-> v, chunk |-> chunk, offset |-> EndOf(chunk)]
            BY <1>2 DEF AppendChunk, Reply
      <2>4. \A receipt \in receipts : receipt.video \in Videos
            BY DEF TypeInv, TypeOK
      <2>5. RepliesNameRows'
            BY <2>1, <2>2, <2>3, <2>4 DEF UploadInv, RepliesNameRows
      <2>6. SourceIsAssembled'
            BY <2>1, <2>2 DEF UploadInv, SourceIsAssembled, SourceDigest
      <2> QED BY <2>5, <2>6 DEF UploadInv
<1>3. ASSUME NEW h \in Handlers, NEW v \in Videos, NEW chunk \in ChunkRequests,
             ReplayChunk(h, v, chunk)
      PROVE  UploadInv'
      <2>1. PICK row \in chunks[v] : SameRequest(row, chunk) /\ Reply(v, chunk, EndOf(row))
            BY <1>3 DEF ReplayChunk
      <2>2. row = chunk
            <3>1. row \in ChunkRequests
                  BY <2>1 DEF TypeInv, TypeOK
            <3>2. /\ row \in [key : IdempotencyKeys, offset : Nat, bytes : Seq(Octets) \ {<<>>}]
                  /\ chunk \in [key : IdempotencyKeys, offset : Nat, bytes : Seq(Octets) \ {<<>>}]
                  BY <3>1, RequestsAssumption
            <3>3. row.key = chunk.key /\ row.offset = chunk.offset /\ row.bytes = chunk.bytes
                  BY <2>1 DEF SameRequest
            <3> QED BY <3>2, <3>3
      <2>3. RepliesNameRows'
            BY <1>3, <2>1, <2>2 DEF ReplayChunk, Reply, UploadInv, RepliesNameRows, tables
      <2> QED BY <1>3, <2>3 DEF ReplayChunk, UploadInv, SourceIsAssembled, SourceDigest, tables
<1>4. ASSUME NEW v \in Videos, FinalizeUpload(v)
      PROVE  UploadInv'
      <2>1. /\ upload'[v].source = SourceDigest(v) /\ upload'[v].intent = upload[v].intent
            /\ upload'[v].offset = upload[v].offset
            /\ \A u \in Videos \ {v} : upload'[u] = upload[u]
            BY <1>4 DEF FinalizeUpload, TypeInv, TypeOK, UploadRows
      <2>2. chunks' = chunks /\ receipts' = receipts
            BY <1>4 DEF FinalizeUpload
      <2>3. /\ SourceDigest(v) = upload[v].intent.expectedSha256
            /\ upload[v].offset = upload[v].intent.expectedBytes
            BY <1>4 DEF FinalizeUpload, SourceVerified, DigestMatches
      <2> QED BY <2>1, <2>2, <2>3 DEF UploadInv, RepliesNameRows, SourceIsAssembled, SourceDigest
<1>5. ASSUME UNCHANGED <<upload, chunks, receipts>>
      PROVE  UploadInv'
      BY <1>5, UploadFrame
<1> QED BY <1>1, <1>2, <1>3, <1>4, <1>5
        DEF UploadNext, PutChunk, AbandonChunk, FinalizeRolledBack, tables

LEMMA UploadInvariant == Spec => []UploadInv
PROOF
<1>1. Init => UploadInv
      BY DEF Init, UploadInv, RepliesNameRows, SourceIsAssembled, AbsentUpload
<1>2. TypeInv /\ UploadInv /\ [Next]_vars => UploadInv'
      BY UploadInvUpload, UploadFrame, WorkerFrame, PublicationFrame, EnvironmentFrame
      DEF Next, vars, tables
<1> QED BY <1>1, <1>2, TypeInvariant, PTL DEF Spec

\* Whatever chunks are sent, repeated or lost, a reply a client has received for a
\* chunk fixes those bytes at that offset of the source that is finalized.
THEOREM AcknowledgedBytes == Spec => []AcknowledgedBytesFinalized
PROOF
<1>1. ASSUME TypeInv, TileInv, UploadInv PROVE AcknowledgedBytesFinalized
      <2> SUFFICES ASSUME NEW receipt \in receipts
                   PROVE  /\ receipt.offset = EndOf(receipt.chunk)
                          /\ receipt.offset <= upload[receipt.video].offset
                          /\ upload[receipt.video].state = "finalized" =>
                                \A i \in 1..Len(receipt.chunk.bytes) :
                                    Content(upload[receipt.video].source)[receipt.chunk.offset + i]
                                        = receipt.chunk.bytes[i]
          BY DEF AcknowledgedBytesFinalized
      <2> DEFINE v == receipt.video
                 chunk == receipt.chunk
                 length == upload[v].intent.expectedBytes
      <2>1. v \in Videos /\ chunk \in chunks[v] /\ receipt.offset = EndOf(chunk)
            BY <1>1 DEF TypeInv, TypeOK, UploadInv, RepliesNameRows
      <2>2. /\ EndOf(chunk) <= upload[v].offset
            /\ \A one, two \in chunks[v] :
                  one = two \/ EndOf(one) <= two.offset \/ EndOf(two) <= one.offset
            BY <1>1, <2>1 DEF TileInv, ChunksTileOffset
      <2>3. ASSUME upload[v].state = "finalized", NEW i \in 1..Len(chunk.bytes)
            PROVE  Content(upload[v].source)[chunk.offset + i] = chunk.bytes[i]
            <3>1. /\ upload[v].source = SourceDigest(v)
                  /\ upload[v].offset = length
                  BY <1>1, <2>1, <2>3 DEF UploadInv, SourceIsAssembled
            <3>2. Content(upload[v].source) = Assembled(chunks[v], length)
                  BY <3>1 DEF SourceDigest, Sha256Bytes, Content
            <3>3. length \in Nat /\ chunks[v] \in SUBSET ChunkRequests
                  BY <1>1, <2>1, <3>1 DEF TypeInv, TypeOK, UploadRows
            <3>4. Assembled(chunks[v], length)[chunk.offset + i] = chunk.bytes[i]
                  BY <2>1, <2>2, <2>3, <3>1, <3>3, AssembledBytes
            <3> QED BY <3>2, <3>4
      <2> QED BY <2>1, <2>2, <2>3
<1> QED BY <1>1, TypeInvariant, TileInvariant, UploadInvariant, PTL

----------------------------------------------------------------------------
(* The four tables agree.  Every transaction writes all the rows whose      *)
(* states depend on each other, and the guard of each tells enough of the   *)
(* other rows.  The two that verify objects write long after their guard,   *)
(* so the agreement is inductive only together with what the rows they hold *)
(* keep meanwhile.                                                          *)

HeldRows ==
    /\ \A w \in Workers :
          worker[w].pc = "verifying" =>
              /\ job[worker[w].video].state = "processing"
              /\ job[worker[w].video].lease = Sha256Token(worker[w].token)
    /\ \A v \in Videos :
          publisher[v].pc = "verifying" =>
              video[v].state = "ready" /\ rendition[v].state = "ready" /\ job[v].state = "completed"
    /\ \A w, x \in Workers :
          /\ worker[w].pc = "verifying" /\ worker[x].pc = "verifying"
          /\ worker[w].video = worker[x].video
          => w = x

\* Steps of others leave the rows a transaction holds as they are.
LEMMA HeldRowsFrame ==
    ASSUME HeldRows, UNCHANGED <<worker, publisher>>,
           \A v \in Videos : Locked(v) => UNCHANGED <<video[v], job[v], rendition[v]>>,
           \A w \in Workers : worker[w].pc = "verifying" => worker[w].video \in Videos
    PROVE  HeldRows'
PROOF BY DEF HeldRows, Locked

LEMMA RowsAgreeFrame ==
    ASSUME LifecycleAgreement, UNCHANGED tables
    PROVE  LifecycleAgreement'
PROOF BY DEF LifecycleAgreement, RowsAgree, tables

\* A step that writes the rows of one video keeps the agreement of the others.
LEMMA RowsAgreeOthers ==
    ASSUME LifecycleAgreement, NEW v \in Videos, RowsAgree(v)',
           \A u \in Videos \ {v} : /\ video'[u] = video[u] /\ upload'[u] = upload[u]
                                   /\ job'[u] = job[u] /\ rendition'[u] = rendition[u]
    PROVE  LifecycleAgreement'
PROOF BY DEF LifecycleAgreement, RowsAgree

LEMMA RowsAgreeUpload ==
    ASSUME TypeInv, LifecycleAgreement, UploadNext
    PROVE  LifecycleAgreement'
PROOF
<1>1. ASSUME NEW v \in Videos, NEW key \in IdempotencyKeys, NEW intent \in Intents,
             OpenUpload(v, key, intent)
      PROVE  LifecycleAgreement'
      <2>1. /\ video'[v] = [video[v] EXCEPT !.state = "uploading"]
            /\ upload'[v].state = "uploading"
            /\ video[v].state = "absent"
            /\ job' = job /\ rendition' = rendition
            /\ \A u \in Videos \ {v} : video'[u] = video[u] /\ upload'[u] = upload[u]
            BY <1>1 DEF OpenUpload, NewUpload, TypeInv, TypeOK
      <2>2. video[v] \in VideoRows /\ RowsAgree(v)
            BY DEF TypeInv, TypeOK, LifecycleAgreement
      <2>3. RowsAgree(v)'
            BY <2>1, <2>2 DEF RowsAgree, VideoRows
      <2> QED BY <2>1, <2>3, RowsAgreeOthers
<1>2. ASSUME NEW h \in Handlers, NEW v \in Videos, NEW chunk \in ChunkRequests,
             AppendChunk(h, v, chunk)
      PROVE  LifecycleAgreement'
      <2>1. \A u \in Videos : upload'[u].state = upload[u].state
            BY <1>2 DEF AppendChunk, TypeInv, TypeOK, UploadRows
      <2>2. video' = video /\ job' = job /\ rendition' = rendition
            BY <1>2 DEF AppendChunk
      <2> QED BY <2>1, <2>2 DEF LifecycleAgreement, RowsAgree
<1>3. ASSUME NEW v \in Videos, FinalizeUpload(v)
      PROVE  LifecycleAgreement'
      <2>1. /\ video'[v] = [video[v] EXCEPT !.state = "queued"]
            /\ upload[v].state = "uploading" /\ upload'[v].state = "finalized"
            /\ job'[v] = [job[v] EXCEPT !.state = "queued", !.source = SourceDigest(v)]
            /\ rendition' = rendition
            /\ \A u \in Videos \ {v} : video'[u] = video[u] /\ upload'[u] = upload[u] /\ job'[u] = job[u]
            BY <1>3 DEF FinalizeUpload, SourceVerified, TypeInv, TypeOK, UploadRows
      <2>2. video[v] \in VideoRows /\ job[v] \in JobRows /\ RowsAgree(v)
            BY DEF TypeInv, TypeOK, LifecycleAgreement
      <2>3. /\ job'[v].state = "queued" /\ job'[v].lease = job[v].lease
            /\ job'[v].completion = job[v].completion
            BY <2>1, <2>2 DEF JobRows
      <2>4. video'[v].state = "queued" /\ video'[v].active = video[v].active
            BY <2>1, <2>2 DEF VideoRows
      <2>5. RowsAgree(v)'
            BY <2>1, <2>2, <2>3, <2>4 DEF RowsAgree
      <2> QED BY <2>1, <2>5, RowsAgreeOthers
<1>4. ASSUME UNCHANGED tables
      PROVE  LifecycleAgreement'
      BY <1>4, RowsAgreeFrame
<1> QED BY <1>1, <1>2, <1>3, <1>4
        DEF UploadNext, PutChunk, ReplayChunk, AbandonChunk, FinalizeRolledBack

LEMMA RowsAgreeWorker ==
    ASSUME TypeInv, LifecycleAgreement, HeldRows, WorkerNext
    PROVE  LifecycleAgreement'
PROOF
<1>1. ASSUME NEW w \in Workers, NEW v \in Videos, ClaimJob(w, v)
      PROVE  LifecycleAgreement'
      <2>1. /\ job'[v] = Leased(job[v], worker[w].token, worker[w].at)
            /\ video'[v] = [video[v] EXCEPT !.state = IF @ \in {"queued", "processing"}
                                                      THEN "processing" ELSE @]
            /\ Claimable(v, worker[w].at)
            /\ upload' = upload /\ rendition' = rendition
            /\ \A u \in Videos \ {v} : video'[u] = video[u] /\ job'[u] = job[u]
            BY <1>1 DEF ClaimJob, TypeInv, TypeOK
      <2>2. video[v] \in VideoRows /\ job[v] \in JobRows /\ RowsAgree(v)
            BY DEF TypeInv, TypeOK, LifecycleAgreement
      <2>3. Sha256Token(worker[w].token) # NULL
            <3>1. worker[w].token \in Tokens
                  BY <1>1 DEF ClaimJob, TypeInv, TypeOK, RunsTyped, Runs
            <3> QED BY <3>1, NullIsNew DEF Sha256Token, TokenDigests
      <2>4. video[v].state \in {"queued", "processing"}
            BY <2>1, <2>2 DEF Claimable, RowsAgree, VideoRows, VideoStates
      <2>5. /\ job'[v].state = "processing" /\ job'[v].lease # NULL
            /\ job'[v].completion = job[v].completion
            BY <2>1, <2>2, <2>3 DEF Leased, JobRows
      <2>6. video'[v].state = "processing" /\ video'[v].active = video[v].active
            BY <2>1, <2>2, <2>4 DEF VideoRows
      <2>7. RowsAgree(v)'
            BY <2>1, <2>2, <2>4, <2>5, <2>6 DEF RowsAgree, Claimable
      <2> QED BY <2>1, <2>7, RowsAgreeOthers
<1>2. ASSUME NEW w \in Workers, CommitReady(w)
      PROVE  LifecycleAgreement'
      <2>0. worker[w].video \in Videos /\ worker[w].token \in Tokens
            BY <1>2, RunVideo DEF CommitReady
      <2> PICK v \in Videos : v = worker[w].video
          BY <2>0
      <2>2. /\ job'[v] = Completed(job[v], worker[w].token)
            /\ job[v].state = "processing"
            /\ video'[v] = [video[v] EXCEPT !.state = "ready", !.active = NULL]
            /\ rendition'[v].state = "ready"
            /\ upload' = upload
            /\ \A u \in Videos \ {v} :
                  video'[u] = video[u] /\ job'[u] = job[u] /\ rendition'[u] = rendition[u]
            BY <1>2, <2>0 DEF CommitReady, HeldRows, TypeInv, TypeOK
      <2>3. video[v] \in VideoRows /\ job[v] \in JobRows /\ RowsAgree(v)
            BY DEF TypeInv, TypeOK, LifecycleAgreement
      <2>4. Sha256Token(worker[w].token) # NULL
            BY <2>0, NullIsNew DEF Sha256Token, TokenDigests
      <2>5. job'[v].state = "completed" /\ job'[v].lease = NULL /\ job'[v].completion # NULL
            BY <2>2, <2>3, <2>4 DEF Completed, JobRows
      <2>6. video'[v].state = "ready" /\ video'[v].active = NULL
            BY <2>2, <2>3 DEF VideoRows
      <2>7. RowsAgree(v)'
            BY <2>2, <2>3, <2>5, <2>6 DEF RowsAgree
      <2> QED BY <2>2, <2>7, RowsAgreeOthers
<1>3. ASSUME UNCHANGED tables
      PROVE  LifecycleAgreement'
      BY <1>3, RowsAgreeFrame
<1> QED BY <1>1, <1>2, <1>3
        DEF WorkerNext, StartRun, SampleClock, BeginMaterialize, InstallObject, LockReady,
            VerifyArtifactObject, RollBackReady, StopRun

LEMMA RowsAgreePublication ==
    ASSUME TypeInv, LifecycleAgreement, HeldRows, PublicationNext
    PROVE  LifecycleAgreement'
PROOF
<1>1. ASSUME NEW v \in Videos, PublishVideo(v)
      PROVE  LifecycleAgreement'
      <2>1. /\ video[v].state = "ready"
            /\ video'[v] = [video[v] EXCEPT !.state = "published", !.active = v]
            /\ rendition'[v] = [rendition[v] EXCEPT !.state = "published"]
            /\ upload' = upload /\ job' = job
            /\ \A u \in Videos \ {v} : video'[u] = video[u] /\ rendition'[u] = rendition[u]
            BY <1>1 DEF PublishVideo, Pointer, HeldRows, TypeInv, TypeOK
      <2>2. video[v] \in VideoRows /\ rendition[v] \in RenditionRows /\ RowsAgree(v)
            BY DEF TypeInv, TypeOK, LifecycleAgreement
      <2>3. video'[v].state = "published" /\ video'[v].active = v /\ rendition'[v].state = "published"
            BY <2>1, <2>2 DEF VideoRows, RenditionRows
      <2>4. RowsAgree(v)'
            BY <2>1, <2>2, <2>3, NullIsNew DEF RowsAgree
      <2> QED BY <2>1, <2>4, RowsAgreeOthers
<1>2. ASSUME NEW v \in Videos, TombstoneVideo(v)
      PROVE  LifecycleAgreement'
      <2>1. /\ video[v].state \notin {"absent", "tombstoned"}
            /\ video'[v] = [video[v] EXCEPT !.state = "tombstoned", !.active = NULL,
                                            !.tombstoneVersion = @ + 1]
            /\ job'[v] = Cancelled(job[v])
            /\ upload' = upload /\ rendition' = rendition
            /\ \A u \in Videos \ {v} : video'[u] = video[u] /\ job'[u] = job[u]
            BY <1>2 DEF TombstoneVideo, Deletable, TypeInv, TypeOK
      <2>2. video[v] \in VideoRows /\ job[v] \in JobRows /\ RowsAgree(v)
            BY DEF TypeInv, TypeOK, LifecycleAgreement
      <2>3. video'[v].state = "tombstoned" /\ video'[v].active = NULL
            BY <2>1, <2>2 DEF VideoRows
      <2>4. CASE job[v].state \in {"queued", "processing"}
            <3>1. /\ job'[v].state = "cancelled" /\ job'[v].lease = NULL
                  /\ job'[v].completion = job[v].completion
                  BY <2>1, <2>2, <2>4 DEF Cancelled, JobRows
            <3>2. RowsAgree(v)'
                  BY <2>1, <2>2, <2>3, <2>4, <3>1 DEF RowsAgree
            <3> QED BY <2>1, <3>2, RowsAgreeOthers
      <2>5. CASE job[v].state \notin {"queued", "processing"}
            <3>1. job'[v] = job[v]
                  BY <2>1, <2>5 DEF Cancelled
            <3>2. RowsAgree(v)'
                  BY <2>1, <2>2, <2>3, <2>5, <3>1 DEF RowsAgree, JobRows, JobStates
            <3> QED BY <2>1, <3>2, RowsAgreeOthers
      <2> QED BY <2>4, <2>5
<1>3. ASSUME UNCHANGED tables
      PROVE  LifecycleAgreement'
      BY <1>3, RowsAgreeFrame
<1> QED BY <1>1, <1>2, <1>3
        DEF PublicationNext, LockPublish, VerifySegment, RollBackPublish, ObserveManifest,
            ObserveSegment, Observe, Respond

AgreeInv == LifecycleAgreement /\ HeldRows

LEMMA HeldUpload ==
    ASSUME TypeInv, AgreeInv, UploadNext
    PROVE  HeldRows'
PROOF
<1> USE DEF AgreeInv
<1>1. ASSUME NEW w \in Workers, worker[w].pc = "verifying" PROVE worker[w].video \in Videos
      BY <1>1, RunVideo
<1>2. ASSUME NEW v \in Videos, upload[v].state # "finalized" PROVE ~Locked(v)
      BY <1>1, <1>2 DEF Locked, HeldRows, TypeInv, RowsTyped
<1>3. ASSUME NEW v \in Videos, NEW key \in IdempotencyKeys, NEW intent \in Intents,
             OpenUpload(v, key, intent)
      PROVE  HeldRows'
      <2>1. /\ ~Locked(v) /\ UNCHANGED <<job, rendition, worker, publisher>>
            /\ \A u \in Videos \ {v} : video'[u] = video[u]
            BY <1>2, <1>3 DEF OpenUpload, held, TypeInv, TypeOK, RowsTyped
      <2> QED BY <1>1, <2>1, HeldRowsFrame
<1>4. ASSUME NEW v \in Videos, FinalizeUpload(v)
      PROVE  HeldRows'
      <2>1. /\ ~Locked(v) /\ UNCHANGED <<rendition, worker, publisher>>
            /\ \A u \in Videos \ {v} : video'[u] = video[u] /\ job'[u] = job[u]
            BY <1>2, <1>4 DEF FinalizeUpload, SourceVerified, TypeInv, TypeOK
      <2> QED BY <1>1, <2>1, HeldRowsFrame
<1>5. ASSUME UNCHANGED <<video, job, rendition, worker, publisher>>
      PROVE  HeldRows'
      BY <1>1, <1>5, HeldRowsFrame
<1> QED BY <1>3, <1>4, <1>5
        DEF UploadNext, PutChunk, AppendChunk, ReplayChunk, AbandonChunk, FinalizeRolledBack, tables, held

LEMMA HeldWorker ==
    ASSUME TypeInv, AgreeInv, WorkerNext
    PROVE  HeldRows'
PROOF
<1> USE DEF AgreeInv
<1>1. ASSUME NEW w \in Workers, worker[w].pc = "verifying" PROVE worker[w].video \in Videos
      BY <1>1, RunVideo
<1>2. ASSUME NEW w \in Workers, UNCHANGED <<tables, publisher>>,
             worker[w].pc # "verifying", worker'[w].pc # "verifying",
             \A x \in Workers \ {w} : worker'[x] = worker[x]
      PROVE  HeldRows'
      BY <1>2 DEF HeldRows, tables
<1>3. ASSUME NEW w \in Workers, NEW v \in Videos, ClaimJob(w, v)
      PROVE  HeldRows'
      <2>1. /\ ~Locked(v) /\ UNCHANGED <<rendition, publisher>>
            /\ \A u \in Videos \ {v} : video'[u] = video[u] /\ job'[u] = job[u]
            /\ worker'[w].pc = "claimed"
            /\ \A x \in Workers \ {w} : worker'[x] = worker[x]
            BY <1>3 DEF ClaimJob, held, TypeInv, TypeOK, Runs
      <2>2. \A x \in Workers : worker'[x].pc = "verifying" =>
                x # w /\ worker'[x] = worker[x] /\ worker[x].video \in Videos \ {v}
            BY <1>1, <2>1 DEF Locked
      <2>3. \A u \in Videos : publisher[u].pc = "verifying" => u # v
            BY <2>1 DEF Locked
      <2> QED BY <2>1, <2>2, <2>3 DEF HeldRows
<1>4. ASSUME NEW w \in Workers, LockReady(w)
      PROVE  HeldRows'
      <2>1. /\ worker'[w].pc = "verifying" /\ worker'[w].video = worker[w].video
            /\ worker'[w].token = worker[w].token
            /\ \A x \in Workers \ {w} : worker'[x] = worker[x]
            /\ UNCHANGED <<tables, publisher>>
            BY <1>4 DEF LockReady, TypeInv, TypeOK, Runs
      <2>2. /\ job[worker[w].video].state = "processing"
            /\ job[worker[w].video].lease = Sha256Token(worker[w].token)
            BY <1>4 DEF LockReady, CommitAllowed, LeaseHeld
      <2>3. \A x \in Workers : worker[x].pc = "verifying" => worker[x].video # worker[w].video
            BY <1>4 DEF LockReady, Locked
      <2> QED BY <2>1, <2>2, <2>3 DEF HeldRows, tables
<1>5. ASSUME NEW w \in Workers, VerifyArtifactObject(w)
      PROVE  HeldRows'
      <2>1. /\ worker'[w].pc = "verifying" /\ worker'[w].video = worker[w].video
            /\ worker'[w].token = worker[w].token /\ worker[w].pc = "verifying"
            /\ \A x \in Workers \ {w} : worker'[x] = worker[x]
            /\ UNCHANGED <<tables, publisher>>
            BY <1>5 DEF VerifyArtifactObject, held, TypeInv, TypeOK, Runs
      <2> QED BY <2>1 DEF HeldRows, tables
<1>6. ASSUME NEW w \in Workers, CommitReady(w)
      PROVE  HeldRows'
      <2>1. worker[w].video \in Videos /\ worker[w].pc = "verifying"
            BY <1>1, <1>6 DEF CommitReady
      <2> PICK v \in Videos : v = worker[w].video
          BY <2>1
      <2>2. /\ worker'[w].pc = "idle" /\ UNCHANGED publisher
            /\ \A x \in Workers \ {w} : worker'[x] = worker[x]
            /\ \A u \in Videos \ {v} :
                  video'[u] = video[u] /\ job'[u] = job[u] /\ rendition'[u] = rendition[u]
            BY <1>6, <2>1 DEF CommitReady, IdleWorker, TypeInv, TypeOK
      <2>3. \A x \in Workers : worker'[x].pc = "verifying" =>
                x # w /\ worker'[x] = worker[x] /\ worker[x].video \in Videos \ {v}
            BY <1>1, <2>1, <2>2 DEF HeldRows
      <2>4. \A u \in Videos : publisher[u].pc = "verifying" => u # v
            BY <2>1 DEF HeldRows
      <2> QED BY <2>2, <2>3, <2>4 DEF HeldRows
<1>7. ASSUME NEW w \in Workers, RollBackReady(w)
      PROVE  HeldRows'
      <2>1. /\ worker'[w].pc = "idle" /\ UNCHANGED <<tables, publisher>>
            /\ \A x \in Workers \ {w} : worker'[x] = worker[x]
            BY <1>7 DEF RollBackReady, IdleWorker, TypeInv, TypeOK
      <2> QED BY <2>1 DEF HeldRows, tables
<1>8. ASSUME NEW w \in Workers, NEW token \in Tokens, StartRun(w, token)
      PROVE  HeldRows'
      BY <1>2, <1>8 DEF StartRun, held, TypeInv, TypeOK, Runs
<1>9. ASSUME NEW w \in Workers, SampleClock(w)
      PROVE  HeldRows'
      <2>1. PICK pc \in {"started", "sampled"} :
                /\ worker' = [worker EXCEPT ![w] = [@ EXCEPT !.pc = pc, !.at = clock]]
                /\ worker[w].pc \in {"claimed", "installed"}
            BY <1>9 DEF SampleClock
      <2>2. UNCHANGED <<tables, publisher>>
            BY <1>9 DEF SampleClock, held
      <2> QED BY <1>2, <2>1, <2>2 DEF TypeInv, TypeOK, Runs
<1>10. ASSUME NEW w \in Workers, BeginMaterialize(w)
       PROVE  HeldRows'
       BY <1>2, <1>10 DEF BeginMaterialize, held, TypeInv, TypeOK, Runs
<1>11. ASSUME NEW w \in Workers, InstallObject(w)
       PROVE  HeldRows'
       BY <1>2, <1>11 DEF InstallObject, TypeInv, TypeOK, Runs
<1>12. ASSUME NEW w \in Workers, StopRun(w)
       PROVE  HeldRows'
       BY <1>2, <1>12 DEF StopRun, held, IdleWorker, TypeInv, TypeOK, Runs
<1> QED BY <1>3, <1>4, <1>5, <1>6, <1>7, <1>8, <1>9, <1>10, <1>11, <1>12 DEF WorkerNext

LEMMA HeldPublication ==
    ASSUME TypeInv, AgreeInv, PublicationNext
    PROVE  HeldRows'
PROOF
<1> USE DEF AgreeInv
<1>1. ASSUME NEW w \in Workers, worker[w].pc = "verifying" PROVE worker[w].video \in Videos
      BY <1>1, RunVideo
<1>2. ASSUME NEW v \in Videos, LockPublish(v)
      PROVE  HeldRows'
      <2>1. video[v].state = "ready" /\ rendition[v].state = "ready" /\ job[v].state = "completed"
            BY <1>2 DEF LockPublish, Publishable, LifecycleAgreement, RowsAgree
      <2>2. UNCHANGED <<tables, worker>> /\ \A u \in Videos \ {v} : publisher'[u] = publisher[u]
            BY <1>2 DEF LockPublish, TypeInv, TypeOK
      <2> QED BY <2>1, <2>2 DEF HeldRows, tables
<1>3. ASSUME NEW v \in Videos, VerifySegment(v)
      PROVE  HeldRows'
      <2>1. /\ UNCHANGED <<tables, worker>> /\ publisher[v].pc = "verifying"
            /\ \A u \in Videos \ {v} : publisher'[u] = publisher[u]
            BY <1>3 DEF VerifySegment, TypeInv, TypeOK
      <2> QED BY <2>1 DEF HeldRows, tables
<1>4. ASSUME NEW v \in Videos, PublishVideo(v)
      PROVE  HeldRows'
      <2>1. /\ UNCHANGED <<job, worker>> /\ publisher'[v].pc = "idle"
            /\ \A u \in Videos \ {v} :
                  publisher'[u] = publisher[u] /\ video'[u] = video[u] /\ rendition'[u] = rendition[u]
            BY <1>4 DEF PublishVideo, IdlePublisher, TypeInv, TypeOK
      <2> QED BY <2>1 DEF HeldRows
<1>5. ASSUME NEW v \in Videos, RollBackPublish(v)
      PROVE  HeldRows'
      <2>1. /\ UNCHANGED <<tables, worker>> /\ publisher'[v].pc = "idle"
            /\ \A u \in Videos \ {v} : publisher'[u] = publisher[u]
            BY <1>5 DEF RollBackPublish, IdlePublisher, TypeInv, TypeOK
      <2> QED BY <2>1 DEF HeldRows, tables
<1>6. ASSUME NEW v \in Videos, TombstoneVideo(v)
      PROVE  HeldRows'
      <2>1. /\ ~Locked(v) /\ UNCHANGED <<rendition, worker, publisher>>
            /\ \A u \in Videos \ {v} : video'[u] = video[u] /\ job'[u] = job[u]
            BY <1>6 DEF TombstoneVideo, held, TypeInv, TypeOK
      <2> QED BY <1>1, <2>1, HeldRowsFrame
<1>7. ASSUME UNCHANGED <<video, job, rendition, worker, publisher>>
      PROVE  HeldRows'
      BY <1>1, <1>7, HeldRowsFrame
<1> QED BY <1>2, <1>3, <1>4, <1>5, <1>6, <1>7
        DEF PublicationNext, ObserveManifest, ObserveSegment, Observe, Respond, tables, held

LEMMA AgreeFrame ==
    ASSUME TypeInv, AgreeInv, UNCHANGED <<tables, worker, publisher>>
    PROVE  AgreeInv'
PROOF
<1>1. LifecycleAgreement'
      BY RowsAgreeFrame DEF AgreeInv
<1>2. HeldRows'
      BY RunVideo, HeldRowsFrame DEF AgreeInv, tables
<1> QED BY <1>1, <1>2 DEF AgreeInv

LEMMA AgreeInvariant == Spec => []AgreeInv
PROOF
<1>1. Init => AgreeInv
      <2>1. Init => LifecycleAgreement
            BY DEF Init, LifecycleAgreement, RowsAgree, AbsentVideo, AbsentUpload, AbsentJob, AbsentRendition
      <2>2. Init => HeldRows
            BY DEF Init, HeldRows, IdleWorker, IdlePublisher
      <2> QED BY <2>1, <2>2 DEF AgreeInv
<1>2. TypeInv /\ AgreeInv /\ [Next]_vars => AgreeInv'
      <2>1. ASSUME TypeInv, AgreeInv, UploadNext PROVE AgreeInv'
            BY <2>1, RowsAgreeUpload, HeldUpload DEF AgreeInv
      <2>2. ASSUME TypeInv, AgreeInv, WorkerNext PROVE AgreeInv'
            BY <2>2, RowsAgreeWorker, HeldWorker DEF AgreeInv
      <2>3. ASSUME TypeInv, AgreeInv, PublicationNext PROVE AgreeInv'
            BY <2>3, RowsAgreePublication, HeldPublication DEF AgreeInv
      <2>4. ASSUME TypeInv, AgreeInv, EnvironmentNext \/ UNCHANGED vars PROVE AgreeInv'
            BY <2>4, AgreeFrame, EnvironmentFrame DEF vars, held
      <2> QED BY <2>1, <2>2, <2>3, <2>4 DEF Next
<1> QED BY <1>1, <1>2, TypeInvariant, PTL DEF Spec

\* The rows of every video agree across the four tables in every reachable state,
\* including those a finalization after a tombstone leads to.
THEOREM LifecycleAgrees == Spec => []LifecycleAgreement
PROOF BY AgreeInvariant, PTL DEF AgreeInv

====
