---- MODULE Segmenter ----
(***************************************************************************)
(* The pure functions of segmenter.js and the digests of crypto.js: how a  *)
(* source is cut into segments, the manifest that lists them, and the test *)
(* a manifest read back from the object store has to pass.                 *)
(*                                                                         *)
(* SHA-256 is taken as collision free: a digest is a tagged copy of what   *)
(* was hashed, so two digests are equal exactly when their contents are.   *)
(* Byte strings are sequences over Octets; a manifest is the record its    *)
(* JSON text encodes.                                                      *)
(***************************************************************************)
EXTENDS Naturals, Sequences, FiniteSetsExt

CONSTANTS
    Octets,             \* the byte values a source is made of
    MinSegmentBytes,    \* 1024 in segmenter.js
    MaxSegmentBytes     \* 262144 in segmenter.js

ASSUME SegmentBoundsAssumption ==
    /\ MinSegmentBytes \in Nat \ {0}
    /\ MaxSegmentBytes \in Nat
    /\ MinSegmentBytes <= MaxSegmentBytes

Sha256Bytes(bytes) == <<"bytes", bytes>>
Sha256Manifest(manifest) == <<"manifest", manifest>>
Sha256Token(token) == <<"token", token>>

\* What the object stored under a digest contains.
Content(digest) == digest[2]

CeilDiv(a, n) == (a + n - 1) \div n

\* The bytes of the i-th segment, counted from 1: n bytes, fewer at the end.
SegmentAt(source, n, i) ==
    SubSeq(source, (i - 1) * n + 1, IF i * n < Len(source) THEN i * n ELSE Len(source))

\* Mutant: only full segments are cut, what is left at the end is dropped.
Segments_FullOnly(source, n) ==
    [i \in 1..(Len(source) \div n) |->
        [sha256 |-> Sha256Bytes(SegmentAt(source, n, i)), bytes |-> n]]

Segments(source, n) ==
    [i \in 1..CeilDiv(Len(source), n) |->
        [sha256 |-> Sha256Bytes(SegmentAt(source, n, i)),
         bytes  |-> Len(SegmentAt(source, n, i))]]

Manifest(source, n) ==
    [sourceSha256 |-> Sha256Bytes(source),
     totalBytes   |-> Len(source),
     segmentBytes |-> n,
     segments     |-> Segments(source, n)]

\* Mutant: the last segment is expected to be full like the others.
ManifestAccepted_LastFull(m) ==
    /\ m.totalBytes > 0
    /\ m.segmentBytes \in MinSegmentBytes..MaxSegmentBytes
    /\ Len(m.segments) = CeilDiv(m.totalBytes, m.segmentBytes)
    /\ \A i \in DOMAIN m.segments : m.segments[i].bytes = m.segmentBytes

\* The checks of parseAndVerifyManifest once the bytes hash to the digest asked for.
ManifestAccepted(m) ==
    LET count == Len(m.segments)
    IN  /\ m.totalBytes > 0
        /\ m.segmentBytes \in MinSegmentBytes..MaxSegmentBytes
        /\ count > 0
        /\ \A i \in 1..(count - 1) : m.segments[i].bytes = m.segmentBytes
        /\ m.segments[count].bytes + m.segmentBytes * (count - 1) = m.totalBytes
        /\ MapThenSumSet(LAMBDA i : m.segments[i].bytes, 1..count) = m.totalBytes
        /\ count = CeilDiv(m.totalBytes, m.segmentBytes)

DigestsIn(segments) == {segments[i].sha256 : i \in DOMAIN segments}
====
