---- MODULE MCVideoRepository ----
(***************************************************************************)
(* Values for the instances TLC checks.  A source is two or three octets,  *)
(* a segment one or two, so that an upload needs several chunks and a      *)
(* rendition several segments.                                             *)
(***************************************************************************)
EXTENDS VideoRepository, TLC

CONSTANTS a, b, k1, k2, k3

Declared(source) == [expectedBytes |-> Len(source), expectedSha256 |-> Sha256Bytes(source)]

\* One intent that the chunks can meet and one whose digest they never meet.
MCIntents == {Declared(<<a, b>>), [expectedBytes |-> 2, expectedSha256 |-> Sha256Bytes(<<b, b, a>>)]}
MCOneIntent == {Declared(<<a, b>>)}

\* The first chunk, the same key with other bytes, a competitor for offset 0
\* under another key, the second chunk, and one that runs past the end.
MCChunks == {[key |-> k1, offset |-> 0, bytes |-> <<a>>],
             [key |-> k1, offset |-> 0, bytes |-> <<b>>],
             [key |-> k2, offset |-> 0, bytes |-> <<a, b>>],
             [key |-> k2, offset |-> 1, bytes |-> <<b>>],
             [key |-> k3, offset |-> 1, bytes |-> <<b, a>>]}

\* The whole source in one chunk: for runs about what comes after the upload.
MCOneChunk == {[key |-> k1, offset |-> 0, bytes |-> <<a, b>>]}

\* A source of three octets whose last segment is short when segments have two.
MCShortIntent == {Declared(<<a, b, a>>)}
MCShortChunk == {[key |-> k1, offset |-> 0, bytes |-> <<a, b, a>>]}

\* Two declared sources, and the chunk that is the whole of one of them fits into
\* the upload of the other: its object is then a segment of the wrong video.
MCTwoIntents == {Declared(<<a>>), Declared(<<b>>)}
MCTwoChunks == {[key |-> k1, offset |-> 0, bytes |-> <<a>>],
                [key |-> k2, offset |-> 0, bytes |-> <<b>>]}

MCTokens == Permutations(Tokens)
MCWorkersAndTokens == Permutations(Tokens) \cup Permutations(Workers)
MCVideosToo == Permutations(Tokens) \cup Permutations(Workers) \cup Permutations(Videos)
MCHandlers == Permutations(Handlers)
====
