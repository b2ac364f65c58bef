---- MODULE MCReadPath ----
(***************************************************************************)
(* A segment of three bytes, and every Range header with numbers up to the *)
(* first one that is no safe integer.                                      *)
(***************************************************************************)
EXTENDS ReadPath

MCNumbers == 0..(MaxSafeInteger + 1) \cup {Omitted}
MCRangeHeaders ==
    {NoHeader} \cup {[NoHeader EXCEPT !.form = form] : form \in {"several", "malformed"}}
        \cup [form : {"bytes"}, first : MCNumbers, last : MCNumbers]
====
