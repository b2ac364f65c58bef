---- MODULE ContentStore ----
(***************************************************************************)
(* What the object store promises, without files: a digest once installed  *)
(* names its content until something outside the program alters or loses   *)
(* the file; installing a digest never changes what another file holds,    *)
(* never repairs an altered file and may bring back a lost one.            *)
(* ObjectFiles implements it with temporary files and links.               *)
(***************************************************************************)
VARIABLES
    intact,     \* digests whose file holds their content
    altered,    \* digests whose file holds something else
    gone        \* digests once installed whose file is gone

contents == <<intact, altered, gone>>

Init == intact = {} /\ altered = {} /\ gone = {}

Install(digest) ==
    /\ digest \notin altered
    /\ intact' = intact \cup {digest}
    /\ gone' = gone \ {digest}
    /\ UNCHANGED altered

\* The file is altered or lost outside the program.
Damage(digest) ==
    /\ digest \in intact
    /\ intact' = intact \ {digest}
    /\ \/ altered' = altered \cup {digest} /\ UNCHANGED gone
       \/ gone' = gone \cup {digest} /\ UNCHANGED altered

\* An installed digest is intact afterwards, a damaged one was intact before.
Next == \E digest \in intact \cup intact' : Install(digest) \/ Damage(digest)

Spec == Init /\ [][Next]_contents
====
