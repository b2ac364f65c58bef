---- MODULE ReadPath ----
(***************************************************************************)
(* GET of a manifest or a segment from the request line to the response:   *)
(* the route of http-server.js, readManifest and readSegment of            *)
(* video-service.js and of the repository, the two system calls of the     *)
(* object store, and the range.  A finalization, a publication or a        *)
(* deletion commits and files are altered, removed or restored between any *)
(* two of these steps.                                                     *)
(***************************************************************************)
EXTENDS ByteRange

CONSTANTS
    RangeHeaders,   \* Range headers clients send
    TotalBytes,     \* length of the segment asked for
    NULL

ASSUME ReadAssumption ==
    /\ RangeHeaders \subseteq Headers /\ NoHeader \in RangeHeaders
    /\ TotalBytes \in Nat \ {0} /\ TotalBytes <= MaxSafeInteger

VARIABLES
    video,      \* "absent", "hidden" (not yet published), "published" or "tombstoned"
    open,       \* whether its upload can still be finalized
    file,       \* the object file asked for: "intact", "altered" or "missing"
    get,        \* the request under way
    response,   \* what was sent: [request, status, start, end, total], or NULL
    history     \* what was true at some step of this request, for the properties

vars == <<video, open, file, get, response, history>>

Requests == [route : {"manifest", "segment"}, malformed : BOOLEAN, member : BOOLEAN, range : RangeHeaders]

Init ==
    /\ video \in {"absent", "hidden"} /\ open = (video = "hidden")
    /\ file = "intact"
    /\ get = NULL
    /\ response = NULL
    /\ history = {}

\* The request is answered without a body of the object.
Fail(status) ==
    /\ response' = [request |-> get.request, status |-> status, start |-> 0, end |-> -1,
                    total |-> IF status = 416 THEN TotalBytes ELSE 0]
    /\ get' = NULL

\* writeSegment, or the JSON of a manifest: what the headers and the body say.
Send(part) ==
    /\ response' = [request |-> get.request, status |-> part.status,
                    start |-> part.start, end |-> part.end, total |-> TotalBytes]
    /\ get' = NULL

Goto(at) == get' = [get EXCEPT !.at = at] /\ UNCHANGED response
At(at) == get # NULL /\ get.at = at
Note(facts) == history' = history \cup facts

\* The path matches a route; a query string, or a video id of 36 characters that is
\* no UUID, is refused by requireNoQuery or by validateUuid.
Receive(r) ==
    /\ get = NULL
    /\ get' = [request |-> r, at |-> IF r.malformed THEN "refuse" ELSE "authority"]
    /\ response' = NULL
    /\ history' = {video, file}
    /\ UNCHANGED <<video, open, file>>

RefuseMalformed ==
    /\ At("refuse")
    /\ Fail(400)
    /\ UNCHANGED <<video, open, file, history>>

\* Mutant: a tombstone is not told apart from a video not yet published.
Denial_NoGone == IF video = "published" THEN 200 ELSE 404

\* The row of the authority query: 410, 404, or go on.
Denial ==
    CASE video = "tombstoned" -> 410
      [] video \in {"absent", "hidden"} -> 404
      [] OTHER -> 200

\* One statement: state of the video, active rendition, membership of the digest.
ObserveAuthority ==
    /\ At("authority")
    /\ CASE Denial # 200 -> Fail(Denial)
         [] Denial = 200 /\ get.request.route = "segment" /\ ~get.request.member -> Fail(404)
         [] OTHER -> Goto("stat")
    /\ UNCHANGED <<video, open, file, history>>

\* ObjectStore.read, lstat
StatObject ==
    /\ At("stat")
    /\ IF file = "missing" THEN Fail(422) ELSE Goto("read")
    /\ Note({"objectAccessed"})
    /\ UNCHANGED <<video, open, file>>

\* Mutant: the bytes are sent without hashing them.
ReadStatus_Trusted == IF file = "missing" THEN 503 ELSE 200

\* readFile and sha256
ReadStatus ==
    CASE file = "missing" -> 503
      [] file = "altered" -> 422
      [] OTHER -> 200

ReadObject ==
    /\ At("read")
    /\ IF ReadStatus = 200
       THEN Goto("select") /\ Note({IF file = "intact" THEN "sourceBytes" ELSE "otherBytes"})
       ELSE Fail(ReadStatus) /\ UNCHANGED history
    /\ UNCHANGED <<video, open, file>>

\* The manifest is sent whole, as JSON; of a segment the part the range selects.
SelectBytes ==
    LET selected == IF get.request.route = "manifest"
                    THEN Whole(TotalBytes)
                    ELSE ParseSingleByteRange(get.request.range, TotalBytes)
    IN  /\ At("select")
        /\ IF selected.status \in {200, 206} THEN Send(selected) ELSE Fail(selected.status)
        /\ UNCHANGED <<video, open, file, history>>

\* The database or the file system does not answer.
DependencyFails ==
    /\ get # NULL /\ get.at \in {"authority", "stat", "read"}
    /\ Fail(503)
    /\ UNCHANGED <<video, open, file, history>>

\* Other requests move the video on.  A finalization queues the video whatever its
\* state, so it takes back a deletion that came before it.
FinalizeUpload ==
    /\ open
    /\ open' = FALSE /\ video' = "hidden"
    /\ Note({video'})
    /\ UNCHANGED <<file, get, response>>

\* Also what a worker does before it: only a finalized upload gets a rendition.
PublishVideo ==
    /\ video = "hidden" /\ ~open
    /\ video' = "published"
    /\ Note({video'})
    /\ UNCHANGED <<open, file, get, response>>

TombstoneVideo ==
    /\ video \in {"hidden", "published"}
    /\ video' = "tombstoned"
    /\ Note({video'})
    /\ UNCHANGED <<open, file, get, response>>

ChangeFile ==
    /\ file' \in {"intact", "altered", "missing"} \ {file}
    /\ Note({file'})
    /\ UNCHANGED <<video, open, get, response>>

Next ==
    \/ \E r \in Requests : Receive(r)
    \/ RefuseMalformed \/ ObserveAuthority \/ StatObject \/ ReadObject \/ SelectBytes
    \/ DependencyFails
    \/ FinalizeUpload \/ PublishVideo \/ TombstoneVideo
    \/ ChangeFile

Spec == Init /\ [][Next]_vars

----------------------------------------------------------------------------
(* Properties.                                                             *)

Facts == {"absent", "hidden", "published", "tombstoned", "intact", "altered", "missing",
          "objectAccessed", "sourceBytes", "otherBytes"}

\* Type invariant: the part that is sent lies within the object.
TypeOK ==
    /\ video \in {"absent", "hidden", "published", "tombstoned"}
    /\ open \in BOOLEAN /\ (video = "published" => ~open)
    /\ file \in {"intact", "altered", "missing"}
    /\ get # NULL => get.request \in Requests /\ get.at \in {"refuse", "authority", "stat", "read", "select"}
    /\ response # NULL =>
          /\ response.request \in Requests
          /\ response.status \in {200, 206, 400, 404, 410, 416, 422, 503}
          /\ response.start \in 0..TotalBytes /\ response.end \in -1..(TotalBytes - 1)
          /\ response.total \in {0, TotalBytes}
    /\ history \subseteq Facts

Sent == response # NULL /\ response.status \in {200, 206}

\* The bytes of a segment response are the bytes RFC 9110 means by its Range header,
\* all of them and no others, for suffixes, open ends and ends past the object, and
\* never none.
BytesAsAsked ==
    Sent /\ response.request.route = "segment" =>
        /\ response.start <= response.end
        /\ response.start..response.end = Selected(response.request.range, TotalBytes)

\* Whatever is deleted, altered or restored meanwhile, bytes are sent only of a video
\* that was published at some moment of this request, and they are the source's.
OnlyPublishedSourceBytes == Sent => "published" \in history /\ "otherBytes" \notin history

\* An error tells the truth about some moment of the request it answers, in whatever
\* order its causes appeared: 410 a deletion, 404 nothing published there, 422 a
\* damaged file, 400 a request nobody can answer, 416 a range without bytes or with a
\* number JavaScript cannot hold.
ErrorsAreTrue ==
    response # NULL =>
        LET asked == response.request
        IN  /\ response.status = 410 => "tombstoned" \in history
            /\ response.status = 404 =>
                  \/ history \cap {"absent", "hidden"} # {}
                  \/ asked.route = "segment" /\ ~asked.member
            /\ response.status = 422 => history \cap {"altered", "missing"} # {}
            /\ response.status = 400 =>
                  \/ asked.malformed
                  \/ asked.range.form # "none" /\ ~IsOneRange(asked.range)
            /\ response.status = 416 =>
                  Selected(asked.range, TotalBytes) = {} \/ Unsafe(asked.range)

\* docs/architecture.md: multiple ranges return 400 before object access.
RangesRefusedBeforeObject ==
    response # NULL /\ response.status = 400 /\ response.request.range.form = "several"
        => "objectAccessed" \notin history
====
