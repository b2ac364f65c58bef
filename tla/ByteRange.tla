---- MODULE ByteRange ----
(***************************************************************************)
(* parseSingleByteRange of contracts.js.  A Range header is what its regex *)
(* tells apart: absent, several ranges, not of the form, or the two        *)
(* numbers around the dash, either of which may be left out.               *)
(***************************************************************************)
EXTENDS Integers

CONSTANTS
    MaxSafeInteger, \* Number.MAX_SAFE_INTEGER
    Omitted         \* a number left out

ASSUME RangeAssumption == MaxSafeInteger \in Nat /\ Omitted \notin Nat

Numbers == Nat \cup {Omitted}
NoHeader == [form |-> "none", first |-> Omitted, last |-> Omitted]
Headers == [form : {"none", "several", "malformed", "bytes"}, first : Numbers, last : Numbers]

Bad == [status |-> 400, start |-> 0, end |-> -1]
Unsatisfiable == [status |-> 416, start |-> 0, end |-> -1]
Whole(totalBytes) == [status |-> 200, start |-> 0, end |-> totalBytes - 1]
Part(start, end) == [status |-> 206, start |-> start, end |-> end]

IsSafe(n) == n <= MaxSafeInteger

\* Mutant: a suffix longer than the object is not cut.
Suffix_Uncut(n, totalBytes) ==
    IF IsSafe(n) /\ n > 0 THEN Part(totalBytes - n, totalBytes - 1) ELSE Unsatisfiable

\* bytes=-n: the last n bytes, or all there are.
Suffix(n, totalBytes) ==
    IF IsSafe(n) /\ n > 0
    THEN Part(IF n < totalBytes THEN totalBytes - n ELSE 0, totalBytes - 1)
    ELSE Unsatisfiable

\* Mutant: a range that starts at the length is let through.
Between_AtLength(first, last, totalBytes) ==
    IF IsSafe(first) /\ IsSafe(last) /\ first <= totalBytes /\ first <= last
    THEN Part(first, IF last < totalBytes THEN last ELSE totalBytes - 1)
    ELSE Unsatisfiable

\* bytes=first-last, up to the end of the object.
Between(first, last, totalBytes) ==
    IF IsSafe(first) /\ IsSafe(last) /\ first < totalBytes /\ first <= last
    THEN Part(first, IF last < totalBytes THEN last ELSE totalBytes - 1)
    ELSE Unsatisfiable

ParseSingleByteRange(header, totalBytes) ==
    CASE header.form = "none" -> Whole(totalBytes)
      [] header.form \in {"several", "malformed"} -> Bad
      [] header.form = "bytes" /\ header.first = Omitted /\ header.last = Omitted -> Bad
      [] header.form = "bytes" /\ header.first = Omitted /\ header.last # Omitted ->
            Suffix(header.last, totalBytes)
      [] header.form = "bytes" /\ header.first # Omitted ->
            Between(header.first, IF header.last = Omitted THEN totalBytes - 1 ELSE header.last, totalBytes)

----------------------------------------------------------------------------
(* What RFC 9110 means by a range, as a set of byte positions.             *)

Selected(header, totalBytes) ==
    {p \in 0..(totalBytes - 1) :
        CASE header.form = "none" -> TRUE
          [] header.form = "bytes" /\ header.first = Omitted /\ header.last # Omitted ->
                p >= totalBytes - header.last
          [] header.form = "bytes" /\ header.first # Omitted ->
                p >= header.first /\ (header.last = Omitted \/ p <= header.last)
          [] OTHER -> FALSE}

IsOneRange(header) ==
    header.form = "bytes" /\ (header.first # Omitted \/ header.last # Omitted)

Unsafe(header) == \E n \in {header.first, header.last} \ {Omitted} : ~IsSafe(n)
====
