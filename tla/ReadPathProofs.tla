---- MODULE ReadPathProofs ----
(***************************************************************************)
(* Theorems about ByteRange and ReadPath: the range parser agrees with     *)
(* RFC 9110 for every length and header, and a response tells the truth    *)
(* whatever changes while its request is under way.                        *)
(***************************************************************************)
EXTENDS ReadPath, TLAPS

\* A suffix selects the last n bytes, or all of them.
LEMMA SuffixSelects ==
    ASSUME NEW total \in Nat \ {0}, NEW header \in Headers,
           header.form = "bytes", header.first = Omitted, header.last \in Nat
    PROVE  LET part == Suffix(header.last, total)
           IN  \/ /\ part.status = 206
                  /\ part.start \in 0..(total - 1) /\ part.end = total - 1
                  /\ part.start..part.end = Selected(header, total)
               \/ /\ part = Unsatisfiable
                  /\ Selected(header, total) = {} \/ Unsafe(header)
<1> DEFINE n == header.last
<1> USE RangeAssumption
<1>0. n # Omitted
  OBVIOUS
<1>1. Selected(header, total) = {p \in 0..(total - 1) : p >= total - n}
  BY <1>0 DEF Selected
<1>2. CASE ~IsSafe(n)
  <2>1. n \in {header.first, header.last} \ {Omitted}
    BY <1>0
  <2>2. Unsafe(header)
    BY <1>2, <2>1 DEF Unsafe
  <2> QED
    BY <1>2, <2>2 DEF Suffix
<1>3. CASE IsSafe(n) /\ n = 0
  <2>1. Selected(header, total) = {}
    BY <1>1, <1>3
  <2> QED
    BY <1>3, <2>1 DEF Suffix
<1>4. CASE IsSafe(n) /\ n > 0
  <2> DEFINE start == IF n < total THEN total - n ELSE 0
  <2>1. Suffix(n, total) = Part(start, total - 1)
    BY <1>4 DEF Suffix
  <2>2. start \in 0..(total - 1)
    BY <1>4
  <2>3. start..(total - 1) = Selected(header, total)
    BY <1>1, <1>4
  <2> QED
    BY <2>1, <2>2, <2>3 DEF Part
<1> QED
  BY <1>2, <1>3, <1>4

\* A range with a first byte selects from there to its end, cut at the last byte.
LEMMA BetweenSelects ==
    ASSUME NEW total \in Nat \ {0}, total <= MaxSafeInteger, NEW header \in Headers,
           header.form = "bytes", header.first \in Nat
    PROVE  LET end == IF header.last = Omitted THEN total - 1 ELSE header.last
               part == Between(header.first, end, total)
           IN  \/ /\ part.status = 206
                  /\ part.start \in 0..(total - 1) /\ part.end \in part.start..(total - 1)
                  /\ part.start..part.end = Selected(header, total)
               \/ /\ part = Unsatisfiable
                  /\ Selected(header, total) = {} \/ Unsafe(header)
<1> USE RangeAssumption
<1> DEFINE first == header.first
           end == IF header.last = Omitted THEN total - 1 ELSE header.last
           cut == IF end < total THEN end ELSE total - 1
<1>0. first # Omitted /\ header.last \in Nat \cup {Omitted} /\ end \in Nat
  BY DEF Headers, Numbers
<1>1. Selected(header, total) = {p \in 0..(total - 1) : p >= first /\ (header.last = Omitted \/ p <= header.last)}
  BY <1>0 DEF Selected
<1>2. Selected(header, total) = {p \in 0..(total - 1) : p >= first /\ p <= end}
  BY <1>0, <1>1
<1>3. CASE ~IsSafe(first) \/ ~IsSafe(end)
  <2>1. ~IsSafe(end) => header.last # Omitted
    BY <1>0 DEF IsSafe
  <2>2. \E n \in {header.first, header.last} \ {Omitted} : ~IsSafe(n)
    BY <1>0, <1>3, <2>1
  <2>3. Unsafe(header)
    BY <2>2 DEF Unsafe
  <2> QED
    BY <1>3, <2>3 DEF Between
<1>4. CASE IsSafe(first) /\ IsSafe(end) /\ ~(first < total /\ first <= end)
  <2>1. Selected(header, total) = {}
    BY <1>0, <1>2, <1>4
  <2> QED
    BY <1>4, <2>1 DEF Between
<1>5. CASE IsSafe(first) /\ IsSafe(end) /\ first < total /\ first <= end
  <2>1. Between(first, end, total) = Part(first, cut)
    BY <1>5 DEF Between
  <2>2. cut \in first..(total - 1)
    BY <1>0, <1>5
  <2>3. first..cut = Selected(header, total)
    BY <1>0, <1>2, <1>5
  <2> QED
    BY <1>5, <2>1, <2>2, <2>3 DEF Part
<1> QED
  BY <1>3, <1>4, <1>5

\* What a caller learns from the parser: success carries the bytes RFC 9110 means,
\* 400 is for what is no single range, 416 for no bytes or an unsafe number.
Agrees(part, header, total) ==
    \/ /\ part.status \in {200, 206}
       /\ part.start \in 0..(total - 1) /\ part.end \in part.start..(total - 1)
       /\ part.start..part.end = Selected(header, total)
    \/ part.status = 400 /\ header.form # "none" /\ ~IsOneRange(header)
    \/ part.status = 416 /\ (Selected(header, total) = {} \/ Unsafe(header))

\* parseSingleByteRange agrees with RFC 9110 for every length and every header.
THEOREM ParserAgrees ==
    ASSUME NEW total \in Nat \ {0}, total <= MaxSafeInteger, NEW header \in Headers
    PROVE  Agrees(ParseSingleByteRange(header, total), header, total)
<1> USE RangeAssumption
<1> DEFINE part == ParseSingleByteRange(header, total)
<1>0. header.form \in {"none", "several", "malformed", "bytes"}
      /\ header.first \in Nat \cup {Omitted} /\ header.last \in Nat \cup {Omitted}
  BY DEF Headers, Numbers
<1>1. CASE header.form = "none"
  <2>1. part = Whole(total)
    BY <1>1 DEF ParseSingleByteRange
  <2>2. Selected(header, total) = 0..(total - 1)
    BY <1>1 DEF Selected
  <2> QED
    BY <2>1, <2>2 DEF Agrees, Whole
<1>2. CASE header.form \in {"several", "malformed"}
  <2>1. part = Bad
    BY <1>2 DEF ParseSingleByteRange
  <2> QED
    BY <1>2, <2>1 DEF Agrees, Bad, IsOneRange
<1>3. CASE header.form = "bytes" /\ header.first = Omitted /\ header.last = Omitted
  <2>1. part = Bad
    BY <1>3 DEF ParseSingleByteRange
  <2> QED
    BY <1>3, <2>1 DEF Agrees, Bad, IsOneRange
<1>4. CASE header.form = "bytes" /\ header.first = Omitted /\ header.last \in Nat
  <2>1. part = Suffix(header.last, total)
    BY <1>4 DEF ParseSingleByteRange
  <2> QED
    BY <1>4, <2>1, SuffixSelects DEF Agrees, Unsatisfiable
<1>5. CASE header.form = "bytes" /\ header.first \in Nat
  <2>1. part = Between(header.first, IF header.last = Omitted THEN total - 1 ELSE header.last, total)
    BY <1>5 DEF ParseSingleByteRange
  <2> QED
    BY <1>5, <2>1, BetweenSelects DEF Agrees, Unsatisfiable
<1> QED
  BY <1>0, <1>1, <1>2, <1>3, <1>4, <1>5

----------------------------------------------------------------------------
(* Reads.  The invariant adds to TypeOK what a request under way has        *)
(* established (GetInv) and what a response has in its favour, with the     *)
(* bytes of a response described by Agrees.                                 *)

Answers == [request : Requests, status : {200, 206, 400, 404, 410, 416, 422, 503},
            start : 0..TotalBytes, end : -1..(TotalBytes - 1), total : {0, TotalBytes}]

GetInv ==
    /\ get \in [request : Requests, at : {"refuse", "authority", "stat", "read", "select"}] \cup {NULL}
    /\ get # NULL =>
          /\ {video, file} \subseteq history
          /\ response = NULL
          /\ get.at = "refuse" => get.request.malformed
          /\ get.at \in {"stat", "read", "select"} => "published" \in history

ResponseInv ==
    /\ response \in Answers \cup {NULL}
    /\ response # NULL =>
          /\ response.status \in {200, 206} => "published" \in history
          /\ response.status \in {200, 206} /\ response.request.route = "segment" =>
                Agrees(response, response.request.range, TotalBytes)
    /\ ErrorsAreTrue

ReadInv ==
    /\ video \in {"absent", "hidden", "published", "tombstoned"}
    /\ open \in BOOLEAN /\ (video = "published" => ~open)
    /\ file \in {"intact", "altered", "missing"}
    /\ history \subseteq Facts \ {"otherBytes"}
    /\ GetInv
    /\ ResponseInv

\* The request and the record that stands for it keep their types.
LEMMA RequestTypes ==
    ASSUME GetInv, get # NULL
    PROVE  /\ get.request \in Requests
           /\ get.request.range \in Headers
           /\ get.request.malformed \in BOOLEAN
           /\ get.request.route \in {"manifest", "segment"}
BY ReadAssumption DEF GetInv, Requests

LEMMA ReadInit == Init => ReadInv
BY ReadAssumption DEF Init, ReadInv, GetInv, ResponseInv, ErrorsAreTrue, Facts

\* An error response with a status that is true of the request keeps the invariant.
LEMMA FailKeeps ==
    ASSUME ReadInv, get # NULL, NEW status \in {400, 404, 410, 416, 422, 503},
           Fail(status), video' = video, open' = open, file' = file,
           history \subseteq history', history' \subseteq Facts \ {"otherBytes"},
           status = 410 => "tombstoned" \in history',
           status = 404 => \/ history' \cap {"absent", "hidden"} # {}
                           \/ get.request.route = "segment" /\ ~get.request.member,
           status = 422 => history' \cap {"altered", "missing"} # {},
           status = 400 => \/ get.request.malformed
                           \/ /\ get.request.range.form # "none"
                              /\ ~IsOneRange(get.request.range),
           status = 416 => \/ Selected(get.request.range, TotalBytes) = {}
                           \/ Unsafe(get.request.range)
    PROVE  ReadInv'
<1> DEFINE answer == [request |-> get.request, status |-> status, start |-> 0, end |-> -1,
                      total |-> IF status = 416 THEN TotalBytes ELSE 0]
<1>1. response' = answer /\ get' = NULL
  BY DEF Fail
<1>2. get.request \in Requests
  BY RequestTypes DEF ReadInv
<1>3. answer \in Answers
  BY <1>2, ReadAssumption DEF Answers
<1>4. GetInv'
  BY <1>1 DEF GetInv
<1>5. ErrorsAreTrue'
  BY <1>1, <1>2 DEF ErrorsAreTrue
<1>6. response'.status \notin {200, 206}
  BY <1>1
<1>7. ResponseInv'
  BY <1>1, <1>3, <1>5, <1>6 DEF ResponseInv
<1> QED
  BY <1>4, <1>7 DEF ReadInv

\* A step that only adds facts about the moment, and keeps request and response.
LEMMA NotesKeep ==
    ASSUME ReadInv, response' = response, history \subseteq history',
           history' \subseteq Facts \ {"otherBytes"},
           get' = get \/ (get # NULL /\ \E at \in {"stat", "read", "select"} :
                             get' = [get EXCEPT !.at = at] /\ "published" \in history),
           video' \in {"absent", "hidden", "published", "tombstoned"},
           open' \in BOOLEAN, video' = "published" => ~open',
           file' \in {"intact", "altered", "missing"},
           get # NULL => {video', file'} \subseteq history'
    PROVE  ReadInv'
<1>1. GetInv'
  BY DEF ReadInv, GetInv
<1>2. ErrorsAreTrue'
  <2>1. ErrorsAreTrue
    BY DEF ReadInv, ResponseInv
  <2>2. \A facts : history \cap facts # {} => history' \cap facts # {}
    OBVIOUS
  <2> QED
    BY <2>1, <2>2 DEF ErrorsAreTrue
<1>3. ResponseInv'
  BY <1>2 DEF ReadInv, ResponseInv
<1> QED
  BY <1>1, <1>3 DEF ReadInv

LEMMA ReadStep == ReadInv /\ [Next]_vars => ReadInv'
<1> SUFFICES ASSUME ReadInv, [Next]_vars
             PROVE  ReadInv'
  OBVIOUS
<1> USE DEF At
<1>1. CASE \E r \in Requests : Receive(r)
  <2> PICK r \in Requests : Receive(r)
    BY <1>1
  <2>1. get' \in [request : Requests, at : {"refuse", "authority", "stat", "read", "select"}]
        /\ get'.at = (IF r.malformed THEN "refuse" ELSE "authority") /\ get'.request = r
    BY DEF Receive
  <2>2. GetInv'
    BY <2>1 DEF Receive, GetInv
  <2>3. ResponseInv'
    BY DEF Receive, ResponseInv, ErrorsAreTrue
  <2> QED
    BY <2>2, <2>3 DEF ReadInv, Receive, Facts
<1>2. CASE RefuseMalformed
  BY <1>2, FailKeeps DEF RefuseMalformed, ReadInv, GetInv
<1>3. CASE ObserveAuthority
  <2> USE <1>3 DEF ObserveAuthority
  <2>1. video \in history
    BY DEF ReadInv, GetInv
  <2>2. CASE Denial # 200
    <3>1. /\ Denial \in {404, 410} /\ Fail(Denial)
          /\ Denial = 410 => video = "tombstoned"
          /\ Denial = 404 => video \in {"absent", "hidden"}
      BY <2>2 DEF Denial
    <3> QED
      BY <2>1, <3>1, FailKeeps DEF ReadInv
  <2>3. CASE Denial = 200 /\ get.request.route = "segment" /\ ~get.request.member
    BY <2>3, FailKeeps DEF ReadInv
  <2>4. CASE Denial = 200 /\ ~(get.request.route = "segment" /\ ~get.request.member)
    <3>1. video = "published"
      BY <2>4 DEF Denial, ReadInv
    <3>2. Goto("stat")
      BY <2>4
    <3> QED
      BY <2>1, <3>1, <3>2, NotesKeep DEF Goto, ReadInv, GetInv
  <2> QED
    BY <2>2, <2>3, <2>4
<1>4. CASE StatObject
  <2> USE <1>4 DEF StatObject
  <2>1. /\ history' = history \cup {"objectAccessed"} /\ {video, file} \subseteq history
        /\ history' \subseteq Facts \ {"otherBytes"}
    BY DEF Note, ReadInv, GetInv, Facts
  <2>2. CASE file = "missing"
    BY <2>1, <2>2, FailKeeps DEF ReadInv
  <2>3. CASE file # "missing"
    BY <2>1, <2>3, NotesKeep DEF Goto, ReadInv, GetInv
  <2> QED
    BY <2>2, <2>3
<1>5. CASE ReadObject
  <2> USE <1>5 DEF ReadObject
  <2>1. {video, file} \subseteq history
    BY DEF ReadInv, GetInv
  <2>2. CASE ReadStatus = 200
    <3>1. file = "intact"
      BY <2>2 DEF ReadStatus, ReadInv
    <3>2. history' = history \cup {"sourceBytes"} /\ Goto("select")
      BY <2>2, <3>1 DEF Note
    <3> QED
      BY <2>1, <3>2, NotesKeep DEF Goto, ReadInv, GetInv, Facts
  <2>3. CASE ReadStatus # 200
    <3>1. ReadStatus \in {422, 503} /\ (ReadStatus = 422 => file = "altered") /\ Fail(ReadStatus)
      BY <2>3 DEF ReadStatus
    <3> QED
      BY <2>1, <2>3, <3>1, FailKeeps DEF ReadInv
  <2> QED
    BY <2>2, <2>3
<1>6. CASE SelectBytes
  <2> DEFINE selected == IF get.request.route = "manifest" THEN Whole(TotalBytes)
                         ELSE ParseSingleByteRange(get.request.range, TotalBytes)
  <2> USE <1>6, ReadAssumption
  <2>1. /\ get # NULL /\ get.at = "select" /\ UNCHANGED <<video, open, file, history>>
        /\ IF selected.status \in {200, 206} THEN Send(selected) ELSE Fail(selected.status)
    BY DEF SelectBytes
  <2>2. /\ get.request.range \in Headers /\ get.request \in Requests
        /\ get.request.route \in {"manifest", "segment"} /\ "published" \in history
    BY <2>1, RequestTypes DEF ReadInv, GetInv
  <2>3. CASE get.request.route = "manifest"
    <3>1. Send(Whole(TotalBytes))
      BY <2>1, <2>3 DEF Whole
    <3>2. response' = [request |-> get.request, status |-> 200, start |-> 0,
                       end |-> TotalBytes - 1, total |-> TotalBytes] /\ get' = NULL
      BY <3>1 DEF Send, Whole
    <3>3. response' \in Answers
      BY <2>2, <3>2 DEF Answers
    <3>4. GetInv' /\ ErrorsAreTrue'
      BY <3>2 DEF GetInv, ErrorsAreTrue
    <3>5. ResponseInv'
      BY <2>1, <2>2, <2>3, <3>2, <3>3, <3>4 DEF ResponseInv
    <3> QED
      BY <2>1, <3>4, <3>5 DEF ReadInv
  <2>4. CASE get.request.route = "segment"
    <3> DEFINE range == get.request.range
               part == ParseSingleByteRange(range, TotalBytes)
    <3>1. IF part.status \in {200, 206} THEN Send(part) ELSE Fail(part.status)
      BY <2>1, <2>4
    <3>2. Agrees(part, range, TotalBytes)
      BY <2>2, ParserAgrees
    <3> HIDE DEF part
    <3>3. CASE part.status \in {200, 206}
      <4>1. response' = [request |-> get.request, status |-> part.status, start |-> part.start,
                         end |-> part.end, total |-> TotalBytes] /\ get' = NULL
        BY <3>1, <3>3 DEF Send
      <4>2. part.start \in 0..(TotalBytes - 1) /\ part.end \in part.start..(TotalBytes - 1)
            /\ part.start..part.end = Selected(range, TotalBytes)
        BY <3>2, <3>3 DEF Agrees
      <4>3. response' \in Answers
        BY <2>2, <3>3, <4>1, <4>2 DEF Answers
      <4>4. GetInv' /\ ErrorsAreTrue'
        BY <3>3, <4>1 DEF GetInv, ErrorsAreTrue
      <4>5. Agrees(response', range, TotalBytes)
        BY <3>3, <4>1, <4>2 DEF Agrees
      <4>6. response'.request.range = range /\ response'.status = part.status
        BY <4>1
      <4>7. ResponseInv'
        BY <2>1, <2>2, <3>3, <4>3, <4>4, <4>5, <4>6 DEF ResponseInv
      <4> QED
        BY <2>1, <4>4, <4>7 DEF ReadInv
    <3>4. CASE part.status \notin {200, 206}
      <4>1. Fail(part.status)
        BY <3>1, <3>4
      <4>2. \/ part.status = 400 /\ range.form # "none" /\ ~IsOneRange(range)
            \/ part.status = 416 /\ (Selected(range, TotalBytes) = {} \/ Unsafe(range))
        BY <3>2, <3>4 DEF Agrees
      <4> QED
        BY <2>1, <4>1, <4>2, FailKeeps DEF ReadInv
    <3> QED
      BY <3>3, <3>4
  <2> QED
    BY <2>2, <2>3, <2>4
<1>7. CASE DependencyFails
  BY <1>7, FailKeeps DEF DependencyFails, ReadInv
<1>8. CASE FinalizeUpload \/ PublishVideo \/ TombstoneVideo
  <2>1. /\ UNCHANGED <<file, get, response>> /\ history' = history \cup {video'}
        /\ video' \in {"hidden", "published", "tombstoned"}
        /\ open' \in BOOLEAN /\ (video' = "published" => ~open')
    <3>1. CASE FinalizeUpload
      BY <3>1 DEF FinalizeUpload, Note
    <3>2. CASE PublishVideo
      <4>1. open \in BOOLEAN
        BY DEF ReadInv
      <4>2. ~open /\ open' = open
        BY <3>2 DEF PublishVideo
      <4> QED
        BY <3>2, <4>1, <4>2 DEF PublishVideo, Note
    <3>3. CASE TombstoneVideo
      BY <3>3 DEF TombstoneVideo, Note, ReadInv
    <3> QED
      BY <1>8, <3>1, <3>2, <3>3
  <2>2. history' \subseteq Facts \ {"otherBytes"} /\ (get # NULL => {video', file'} \subseteq history')
    BY <2>1 DEF ReadInv, GetInv, Facts
  <2> QED
    BY <2>1, <2>2, NotesKeep DEF ReadInv
<1>9. CASE ChangeFile
  BY <1>9, NotesKeep DEF ChangeFile, Note, ReadInv, GetInv, Facts
<1>10. CASE UNCHANGED vars
  BY <1>10 DEF vars, ReadInv, GetInv, ResponseInv, ErrorsAreTrue
<1> QED
  BY <1>1, <1>2, <1>3, <1>4, <1>5, <1>6, <1>7, <1>8, <1>9, <1>10 DEF Next

\* ReadInv holds throughout.
LEMMA ReadsInvariant == Spec => []ReadInv
BY ReadInit, ReadStep, PTL DEF Spec

\* Types, for a segment of any length and any Range headers.
THEOREM ReadTypes == Spec => []TypeOK
<1>1. ReadInv => TypeOK
  <2> SUFFICES ASSUME ReadInv PROVE TypeOK
    OBVIOUS
  <2>1. get # NULL => /\ get.request \in Requests
                      /\ get.at \in {"refuse", "authority", "stat", "read", "select"}
    BY DEF ReadInv, GetInv
  <2>2. response # NULL => response \in Answers
    BY DEF ReadInv, ResponseInv
  <2>3. history \subseteq Facts
    BY DEF ReadInv
  <2> QED BY <2>1, <2>2, <2>3 DEF ReadInv, Answers, TypeOK
<1> QED
  BY <1>1, ReadsInvariant, PTL

\* A segment response carries the bytes its Range header means, and never none.
THEOREM BytesAreAsAsked == Spec => []BytesAsAsked
<1>1. ReadInv => BytesAsAsked
  BY DEF ReadInv, ResponseInv, Answers, Requests, Agrees, BytesAsAsked, Sent
<1> QED
  BY <1>1, ReadsInvariant, PTL

\* Bytes are sent only of a video published during the request, and only the source's.
THEOREM PublishedSourceBytes == Spec => []OnlyPublishedSourceBytes
<1>1. ReadInv => OnlyPublishedSourceBytes
  BY DEF ReadInv, ResponseInv, OnlyPublishedSourceBytes, Sent
<1> QED
  BY <1>1, ReadsInvariant, PTL

\* Every error is true of some moment of the request it answers.
THEOREM TrueErrors == Spec => []ErrorsAreTrue
<1>1. ReadInv => ErrorsAreTrue
  BY DEF ReadInv, ResponseInv
<1> QED
  BY <1>1, ReadsInvariant, PTL
====
