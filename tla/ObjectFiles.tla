---- MODULE ObjectFiles ----
(***************************************************************************)
(* object-store.js at the level of the directory: put writes a temporary   *)
(* file under a random name, links it to the digest path unless that path  *)
(* exists, and removes the temporary name; read and the put that lost the  *)
(* race look at the path and read it back.  Every system call is a step,   *)
(* may fail, and may be the last one before the process dies.              *)
(*                                                                         *)
(* A file is known by its inode, and its contents by the digest they hash  *)
(* to.  The page cache survives a process, power loss is outside the       *)
(* code's claim: sync is a call that may fail and changes no file.         *)
(***************************************************************************)
EXTENDS Naturals, FiniteSets

CONSTANTS
    Digests,    \* contents callers store and read
    Files,      \* inodes
    Callers,    \* calls of put and read under way in all processes
    NULL

Junk == {"unused", "partial", "altered"}
Outcomes == {"created", "found", "integrity", "dependency", "notRemoved"}
ASSUME FilesAssumption ==
    /\ Junk \cap Digests = {}
    /\ NULL \notin Digests \cup Files \cup Outcomes

VARIABLES
    target,     \* the inode linked at a digest path, or NULL
    body,       \* the digest of what an inode holds, or one of Junk
    pending,    \* inodes that have a .pending- name
    call,       \* a call under way: [op, at, digest, file, outcome]
    installed,  \* history: digests that were ever linked
    damaged,    \* history: digests whose file was ever altered or removed
    litter      \* history: .pending- files no call will remove any more

vars == <<target, body, pending, call, installed, damaged, litter>>

Idle == [op |-> "none", at |-> "idle", digest |-> NULL, file |-> NULL, outcome |-> NULL]

Init ==
    /\ target = [d \in Digests |-> NULL]
    /\ body = [f \in Files |-> "unused"]
    /\ pending = {}
    /\ call = [c \in Callers |-> Idle]
    /\ installed = {} /\ damaged = {} /\ litter = {}

At(c, at) == call[c].at = at
Goto(c, at) == call' = [call EXCEPT ![c] = [@ EXCEPT !.at = at]]

\* Mutant: a put that fails returns without removing its temporary file.
Finish_NoCleanup(c, outcome) ==
    call' = [call EXCEPT ![c] = [@ EXCEPT !.at = IF outcome = "created" THEN "unlink" ELSE "return",
                                          !.outcome = outcome]]

\* Where a call goes with its result: put has a temporary name to remove first.
Finish(c, outcome) ==
    call' = [call EXCEPT ![c] = [@ EXCEPT !.at = IF call[c].op = "put" THEN "unlink" ELSE "return",
                                          !.outcome = outcome]]

\* put may be called with any bytes; read is called for a digest a row names.
Begin(c, op, d) ==
    /\ At(c, "idle")
    /\ op = "read" => d \in installed
    /\ call' = [call EXCEPT ![c] = [Idle EXCEPT !.op = op, !.digest = d,
                                        !.at = IF op = "put" THEN "create" ELSE "stat"]]
    /\ UNCHANGED <<target, body, pending, installed, damaged, litter>>

\* open(temporary, 'wx')
CreateTemporary(c, f) ==
    /\ At(c, "create")
    /\ body[f] = "unused"
    /\ body' = [body EXCEPT ![f] = "partial"]
    /\ pending' = pending \cup {f}
    /\ call' = [call EXCEPT ![c] = [@ EXCEPT !.at = "write", !.file = f]]
    /\ UNCHANGED <<target, installed, damaged, litter>>

\* Mutant: an error of writeFile is swallowed.
WriteBytes_ErrorIgnored(c) ==
    /\ At(c, "write")
    /\ \/ body' = [body EXCEPT ![call[c].file] = call[c].digest]
       \/ UNCHANGED body
    /\ Goto(c, "sync")
    /\ UNCHANGED <<target, pending, installed, damaged, litter>>

\* writeFile
WriteBytes(c) ==
    /\ At(c, "write")
    /\ body' = [body EXCEPT ![call[c].file] = call[c].digest]
    /\ Goto(c, "sync")
    /\ UNCHANGED <<target, pending, installed, damaged, litter>>

\* sync and close of the temporary file
SyncFile(c) ==
    /\ At(c, "sync")
    /\ Goto(c, "link")
    /\ UNCHANGED <<target, body, pending, installed, damaged, litter>>

\* Mutant: the file is renamed over the digest path.
Exists_Never(d) == FALSE

Exists(d) == target[d] # NULL

\* link(temporary, target): created, or EEXIST and the file that is there decides.
LinkTarget(c) ==
    LET d == call[c].digest
    IN  /\ At(c, "link")
        /\ IF Exists(d)
           THEN /\ Goto(c, "stat")
                /\ UNCHANGED <<target, installed>>
           ELSE /\ target' = [target EXCEPT ![d] = call[c].file]
                /\ installed' = installed \cup {d}
                /\ Goto(c, "syncDirectory")
        /\ UNCHANGED <<body, pending, damaged, litter>>

SyncDirectory(c) ==
    /\ At(c, "syncDirectory")
    /\ Finish(c, "created")
    /\ UNCHANGED <<target, body, pending, installed, damaged, litter>>

\* #verifiedBytes, lstat: a missing file is an integrity error.
StatTarget(c) ==
    /\ At(c, "stat")
    /\ IF Exists(call[c].digest) THEN Goto(c, "readback") ELSE Finish(c, "integrity")
    /\ UNCHANGED <<target, body, pending, installed, damaged, litter>>

\* sha256(bytes) against the digest asked for
Verdict(d) == IF body[target[d]] = d THEN "found" ELSE "integrity"

\* #verifiedBytes, readFile: a file that went away since lstat is a failed call.
ReadTarget(c) ==
    LET d == call[c].digest
    IN  /\ At(c, "readback")
        /\ Finish(c, IF target[d] = NULL THEN "dependency" ELSE Verdict(d))
        /\ UNCHANGED <<target, body, pending, installed, damaged, litter>>

\* Any of these calls may fail: DependencyError.
FailCall(c) ==
    /\ call[c].at \in {"create", "write", "sync", "link", "syncDirectory", "stat", "readback"}
    /\ Finish(c, "dependency")
    /\ UNCHANGED <<target, body, pending, installed, damaged, litter>>

\* An inode whose last name goes away is free again.
Freed(f) == IF \E d \in Digests : target[d] = f THEN body ELSE [body EXCEPT ![f] = "unused"]

\* unlink(temporary) in the finally block; ENOENT is ignored, another error replaces
\* the result and leaves the name.  The second syncDirectory may fail unnoticed.
UnlinkTemporary(c) ==
    LET f == call[c].file
        return == [call[c] EXCEPT !.at = "return", !.file = NULL]
    IN  /\ At(c, "unlink")
        /\ \/ /\ f = NULL
              /\ call' = [call EXCEPT ![c] = return]
              /\ UNCHANGED <<body, pending, litter>>
           \/ /\ f # NULL
              /\ pending' = pending \ {f}
              /\ body' = Freed(f)
              /\ call' = [call EXCEPT ![c] = return]
              /\ UNCHANGED litter
           \/ /\ call' = [call EXCEPT ![c] = [return EXCEPT !.outcome = "notRemoved"]]
              /\ litter' = litter \cup ({f} \ {NULL})
              /\ UNCHANGED <<body, pending>>
        /\ UNCHANGED <<target, installed, damaged>>

Return(c) ==
    /\ At(c, "return")
    /\ call' = [call EXCEPT ![c] = Idle]
    /\ UNCHANGED <<target, body, pending, installed, damaged, litter>>

\* The process dies between two system calls; nothing removes its temporary file.
Crash(c) ==
    /\ ~At(c, "idle")
    /\ call' = [call EXCEPT ![c] = Idle]
    /\ litter' = litter \cup ({call[c].file} \ {NULL})
    /\ UNCHANGED <<target, body, pending, installed, damaged>>

\* Outside the program an installed file is altered, or its digest path removed.
AlterObject(d) ==
    /\ target[d] # NULL
    /\ body[target[d]] = d
    /\ body' = [body EXCEPT ![target[d]] = "altered"]
    /\ damaged' = damaged \cup {d}
    /\ UNCHANGED <<target, pending, call, installed, litter>>

LoseObject(d) ==
    /\ target[d] # NULL
    /\ body[target[d]] = d
    /\ target' = [target EXCEPT ![d] = NULL]
    /\ body' = IF target[d] \in pending THEN body ELSE [body EXCEPT ![target[d]] = "unused"]
    /\ damaged' = damaged \cup {d}
    /\ UNCHANGED <<pending, call, installed, litter>>

Next ==
    \/ \E c \in Callers, op \in {"put", "read"}, d \in Digests : Begin(c, op, d)
    \/ \E c \in Callers, f \in Files : CreateTemporary(c, f)
    \/ \E c \in Callers :
          \/ WriteBytes(c) \/ SyncFile(c) \/ LinkTarget(c) \/ SyncDirectory(c)
          \/ StatTarget(c) \/ ReadTarget(c) \/ FailCall(c)
          \/ UnlinkTemporary(c) \/ Return(c) \/ Crash(c)
    \/ \E d \in Digests : AlterObject(d) \/ LoseObject(d)

Spec == Init /\ [][Next]_vars

----------------------------------------------------------------------------
(* Properties.                                                             *)

Calls == [op : {"none", "put", "read"},
          at : {"idle", "create", "write", "sync", "link", "syncDirectory",
                "stat", "readback", "unlink", "return"},
          digest : Digests \cup {NULL}, file : Files \cup {NULL},
          outcome : Outcomes \cup {NULL}]

\* Type invariant; a call has a temporary file from its creation to its removal, so
\* none returns with one, and a read never has any.
TypeOK ==
    /\ target \in [Digests -> Files \cup {NULL}]
    /\ body \in [Files -> Digests \cup Junk]
    /\ pending \subseteq Files /\ litter \subseteq Files
    /\ call \in [Callers -> Calls]
    /\ \A c \in Callers :
          /\ call[c].at \in {"write", "sync", "link", "syncDirectory"} => call[c].file # NULL
          /\ call[c].at \in {"idle", "create", "return"} \/ call[c].op = "read"
                => call[c].file = NULL
    /\ installed \subseteq Digests /\ damaged \subseteq Digests

\* An integrity error is never a false alarm: whatever puts and readers race, and
\* wherever they fail or die, only a file altered or removed outside the program
\* makes a digest look corrupted or missing.
IntegrityErrorsMeanDamage ==
    \A c \in Callers : call[c].outcome = "integrity" => call[c].digest \in damaged

\* A call that succeeds, for whichever reason, found or left the digest installed,
\* and intact if nobody outside has touched it.
SuccessMeansInstalled ==
    \A c \in Callers :
        call[c].outcome \in {"created", "found"} =>
            /\ call[c].digest \in installed
            /\ call[c].digest \notin damaged => body[target[call[c].digest]] = call[c].digest

\* Of all puts of the same bytes one reports that it created the object, unless
\* the object was lost in between (objectsCreated of a worker's receipt).
CreatedByOne ==
    \A c, d \in Callers :
        c # d /\ call[c].outcome = "created" /\ call[d].outcome = "created"
            /\ call[c].digest = call[d].digest => call[c].digest \in damaged

\* A temporary file belongs to exactly one put under way, or its process died or
\* could not remove it; failed puts clean up.
TemporariesAccountedFor ==
    /\ \A f \in pending \ litter : \E c \in Callers : call[c].file = f
    /\ \A c, d \in Callers : c # d /\ call[c].file # NULL => call[c].file # call[d].file

Store == INSTANCE ContentStore WITH
    intact <- {d \in Digests : target[d] # NULL /\ body[target[d]] = d},
    altered <- {d \in Digests : target[d] # NULL /\ body[target[d]] # d},
    gone <- {d \in installed : target[d] = NULL}

\* The directory behaves as the content store VideoRepository works with: a put
\* installs whole objects and overwrites, repairs and removes none.
ImplementsContentStore == Store!Spec
====
